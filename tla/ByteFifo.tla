------------------------------ MODULE ByteFifo ------------------------------
(***************************************************************************)
(* What a byte queue promises to one producer and one consumer: bytes come *)
(* out in the order they went in, none lost, repeated or changed.  A put   *)
(* stores as much of its record as there was room for when it began, a get *)
(* delivers as much of what it asks for as was stored when it began; the   *)
(* bytes go in, or leave, when the call ends.                              *)
(***************************************************************************)
EXTENDS Integers, Sequences

CONSTANTS
  Records,    \* what the producer puts: sequences of bytes
  GetLens     \* how much the consumer asks for

VARIABLES
  capacity,
  queue,      \* the bytes stored and not delivered, oldest first
  storing,    \* what the put under way will store
  taking,     \* how many bytes the get under way will deliver
  got         \* what the last get delivered

vars == <<capacity, queue, storing, taking, got>>

Smaller(a, b) == IF a < b THEN a ELSE b

Init ==
  /\ capacity \in Nat
  /\ queue = <<>> /\ storing = <<>> /\ taking = 0 /\ got = <<>>

PutBegin ==
  /\ storing = <<>>
  /\ \E record \in Records :
       storing' = SubSeq(record, 1, Smaller(Len(record), capacity - Len(queue)))
  /\ UNCHANGED <<capacity, queue, taking, got>>

PutEnd ==
  /\ queue' = queue \o storing
  /\ storing' = <<>>
  /\ UNCHANGED <<capacity, taking, got>>

GetBegin ==
  /\ taking = 0
  /\ \E n \in GetLens : taking' = Smaller(n, Len(queue))
  /\ got' = <<>>
  /\ UNCHANGED <<capacity, queue, storing>>

GetEnd ==
  /\ got' = SubSeq(queue, 1, taking)
  /\ queue' = SubSeq(queue, taking + 1, Len(queue))
  /\ taking' = 0
  /\ UNCHANGED <<capacity, storing>>

\* Only while neither call is under way.
Clean ==
  /\ storing = <<>> /\ taking = 0
  /\ queue' = <<>>
  /\ UNCHANGED <<capacity, storing, taking, got>>

Next == PutBegin \/ PutEnd \/ GetBegin \/ GetEnd \/ Clean

Spec == Init /\ [][Next]_vars
=============================================================================
