------------------------------- MODULE Kfifo -------------------------------
(***************************************************************************)
(* The byte queue of queue/kfifol.cpp between its one producer and its one *)
(* consumer, two threads that share m_pbuffer, m_nin and m_nout and use no *)
(* lock.                                                                   *)
(*                                                                         *)
(* A call is three kinds of steps: it samples the other side's index,      *)
(* copies byte by byte, and advances its own index.  The __sync_synchronize *)
(* calls keep them in this order; within the two memcpy's bytes are copied *)
(* in any order.  The test of a power of two, (n & (n - 1)) == 0, is       *)
(* membership in PowersOfTwo, and x & (m_nsize - 1) is x % m_nsize.        *)
(***************************************************************************)
EXTENDS Integers, Sequences, FiniteSets

CONSTANTS
  Bytes,
  Junk,             \* what new unsigned char[] leaves in the buffer
  IndexMod,         \* the values of an unsigned int: 2^32 in the code
  PowersOfTwo,      \* those an unsigned int holds
  RequestedSizes,   \* what callers pass to kfifol(int)
  Records,          \* what the producer puts: sequences of bytes
  GetLens           \* how much the consumer asks for

KfifoAssumption ==
  /\ IndexMod \in Nat \ {0}
  /\ PowersOfTwo \subseteq Nat \ {0}
  /\ \A p \in PowersOfTwo : 2 * p <= IndexMod /\ IndexMod % p = 0
  \* an int: there is a power of two above it
  /\ RequestedSizes \subseteq Nat
  /\ \A n \in RequestedSizes : \E p \in PowersOfTwo : n <= p
  /\ Records \subseteq Seq(Bytes)
  /\ \A r \in Records : Len(r) < IndexMod
  /\ GetLens \subseteq 0 .. IndexMod - 1

ASSUME KfifoAssumption

VARIABLES
  m_pbuffer, m_nsize, m_nin, m_nout,
  \* locals of put; record is <<>> and putting FALSE between calls
  putting, record, put_len, put_todo,
  \* locals of get and the caller's buffer
  getting, get_len, get_todo, got

putVars == <<putting, record, put_len, put_todo>>
getVars == <<getting, get_len, get_todo, got>>
vars == <<m_pbuffer, m_nsize, m_nin, m_nout, putVars, getVars>>

std_min(a, b) == IF a < b THEN a ELSE b

is_power_of_2(n) == n \in PowersOfTwo

\* Twice the highest bit of val, unless val is a power of two already: the
\* next power of two.  0 stays 0.
roundup_power_of_two(val) ==
  IF val = 0 \/ is_power_of_2(val)
    THEN val
    ELSE CHOOSE p \in PowersOfTwo :
           p >= val /\ \A q \in PowersOfTwo : q >= val => p <= q

\* Mutant: the size is used as it is given.
constructor_unrounded(nsize) == nsize

constructor(nsize) ==
  IF is_power_of_2(nsize) THEN nsize ELSE roundup_power_of_two(nsize)

\* The constructor and init().
Init ==
  /\ \E nsize \in RequestedSizes : m_nsize = constructor(nsize)
  /\ m_pbuffer = [i \in 0 .. m_nsize - 1 |-> Junk]
  /\ m_nin = 0
  /\ m_nout = 0
  /\ putting = FALSE /\ record = <<>> /\ put_len = 0 /\ put_todo = {}
  /\ getting = FALSE /\ get_len = 0 /\ get_todo = {} /\ got = <<>>

\* m_nin - m_nout in unsigned arithmetic.
getlen == (m_nin - m_nout) % IndexMod

\* m_nsize - m_nin + m_nout.
Room == (m_nsize - m_nin + m_nout) % IndexMod

\* Where the i-th of the bytes from index on is: the first memcpy fills the
\* buffer up to its end, the second goes on at its beginning.
Place(index, i) ==
  LET l == m_nsize - (index % m_nsize)
  IN  IF i < l THEN (index % m_nsize) + i ELSE i - l

-----------------------------------------------------------------------------
(* The producer's put *)

\* Mutant: one byte too much is taken for free.
put_begin_one_more(r) ==
  /\ ~putting
  /\ putting' = TRUE
  /\ record' = r
  /\ put_len' = std_min(Len(r), Room + 1)
  /\ put_todo' = 0 .. put_len' - 1
  /\ UNCHANGED <<m_pbuffer, m_nsize, m_nin, m_nout, getVars>>

\* Mutant: one byte is always kept free.
put_begin_one_free(r) ==
  /\ ~putting
  /\ putting' = TRUE
  /\ record' = r
  /\ put_len' = std_min(Len(r), IF Room > 0 THEN Room - 1 ELSE 0)
  /\ put_todo' = 0 .. put_len' - 1
  /\ UNCHANGED <<m_pbuffer, m_nsize, m_nin, m_nout, getVars>>

put_begin(r) ==
  /\ ~putting
  /\ putting' = TRUE
  /\ record' = r
  /\ put_len' = std_min(Len(r), Room)
  /\ put_todo' = 0 .. put_len' - 1
  /\ UNCHANGED <<m_pbuffer, m_nsize, m_nin, m_nout, getVars>>

put_copy(i) ==
  /\ i \in put_todo
  /\ m_pbuffer' = [m_pbuffer EXCEPT ![Place(m_nin, i)] = record[i + 1]]
  /\ put_todo' = put_todo \ {i}
  /\ UNCHANGED <<m_nsize, m_nin, m_nout, putting, record, put_len, getVars>>

\* Mutant: without the second barrier the index may be seen before the bytes.
put_return_early ==
  /\ putting
  /\ m_nin' = (m_nin + put_len) % IndexMod
  /\ putting' = FALSE /\ record' = <<>> /\ put_len' = 0 /\ put_todo' = {}
  /\ UNCHANGED <<m_pbuffer, m_nsize, m_nout, getVars>>

put_return ==
  /\ putting
  /\ put_todo = {}
  /\ m_nin' = (m_nin + put_len) % IndexMod
  /\ putting' = FALSE /\ record' = <<>> /\ put_len' = 0
  /\ UNCHANGED <<m_pbuffer, m_nsize, m_nout, put_todo, getVars>>

-----------------------------------------------------------------------------
(* The consumer's get *)

get_begin(len) ==
  /\ ~getting
  /\ getting' = TRUE
  /\ get_len' = std_min(len, getlen)
  /\ get_todo' = 0 .. get_len' - 1
  /\ got' = [i \in 1 .. get_len' |-> Junk]
  /\ UNCHANGED <<m_pbuffer, m_nsize, m_nin, m_nout, putVars>>

get_copy(i) ==
  /\ i \in get_todo
  /\ got' = [got EXCEPT ![i + 1] = m_pbuffer[Place(m_nout, i)]]
  /\ get_todo' = get_todo \ {i}
  /\ UNCHANGED <<m_pbuffer, m_nsize, m_nin, m_nout, getting, get_len, putVars>>

get_return ==
  /\ getting
  /\ get_todo = {}
  /\ m_nout' = (m_nout + get_len) % IndexMod
  /\ getting' = FALSE
  /\ get_len' = 0
  /\ UNCHANGED <<m_pbuffer, m_nsize, m_nin, get_todo, got, putVars>>

-----------------------------------------------------------------------------

\* It writes both indices: callers must have stopped both threads.
clean ==
  /\ ~putting
  /\ ~getting
  /\ m_nin' = 0
  /\ m_nout' = 0
  /\ UNCHANGED <<m_pbuffer, m_nsize, putVars, getVars>>

Next ==
  \/ \E r \in Records : put_begin(r)
  \/ \E i \in put_todo : put_copy(i)
  \/ put_return
  \/ \E len \in GetLens : get_begin(len)
  \/ \E i \in get_todo : get_copy(i)
  \/ get_return
  \/ clean

Spec == Init /\ [][Next]_vars

-----------------------------------------------------------------------------
(* Properties *)

TypeOK ==
  /\ m_nsize \in PowersOfTwo \cup {0}
  /\ m_pbuffer \in [0 .. m_nsize - 1 -> Bytes \cup {Junk}]
  /\ m_nin \in 0 .. IndexMod - 1
  /\ m_nout \in 0 .. IndexMod - 1
  /\ putting \in BOOLEAN /\ getting \in BOOLEAN
  /\ record \in Seq(Bytes)
  /\ got \in Seq(Bytes \cup {Junk})
  /\ put_len \in Nat /\ get_len \in Nat
  /\ put_todo \subseteq 0 .. put_len - 1
  /\ get_todo \subseteq 0 .. get_len - 1

\* Whatever the two threads have sampled, and however often the indices have
\* wrapped, what is stored and what is being stored fit the buffer, and a get
\* takes no more than is stored.
FillsWithinSize ==
  /\ getlen + put_len <= m_nsize
  /\ get_len <= getlen

\* The byte a put writes next is never one that holds unread data, the data a
\* get under way is copying included: the threads do not race on m_pbuffer.
NoUnreadOverwritten ==
  \A i \in put_todo, j \in 0 .. getlen - 1 : Place(m_nin, i) # Place(m_nout, j)

\* What the indices say is in the buffer, and what a put is about to add.
Stored == [i \in 1 .. getlen |-> m_pbuffer[Place(m_nout, i - 1)]]
Storing == SubSeq(record, 1, put_len)

Fifo == INSTANCE ByteFifo WITH
  capacity <- m_nsize,
  queue    <- Stored,
  storing  <- Storing,
  taking   <- get_len,
  got      <- IF getting THEN <<>> ELSE got

\* The queue delivers the bytes of the records in order, none lost, repeated
\* or torn by the other thread.
FifoSpec == Fifo!Spec

\* test.cpp takes any get that returns a length for one record.  Where all
\* records have one length, which divides the buffer's, records are never cut:
\* a get of that length delivers one record or nothing.
RecordsWhole ==
  \A r \in Records :
    \/ m_nsize % Len(r) # 0
    \/ /\ getlen % Len(r) = 0
       /\ put_len \in {0, Len(r)}
       /\ ~getting => got = <<>> \/ got \in Records
=============================================================================
