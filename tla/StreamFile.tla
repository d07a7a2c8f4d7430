----------------------------- MODULE StreamFile -----------------------------
(***************************************************************************)
(* What a byte stream promises: a file with one position to write at and   *)
(* one to read from.  A write puts its bytes at its position and leaves    *)
(* the rest alone, or fails and changes nothing; bytes that were skipped   *)
(* and never written may be anything.  A read delivers what the file has   *)
(* at its position, or fails.                                              *)
(***************************************************************************)
EXTENDS Integers, Sequences

CONSTANTS
  Items,      \* what is written: sequences of bytes
  Strings,    \* what is written with its length and a 0 at its end
  Counts,     \* how much is read or skipped
  Positions,  \* where streams are set to
  SizeMod     \* positions are below this

VARIABLES
  file,
  wpos, rpos,
  got         \* what the last call has read

vars == <<file, wpos, rpos, got>>

Larger(a, b) == IF a > b THEN a ELSE b

\* The new file is the old one with item at pos.
Overwritten(pos, item) ==
  /\ Len(file') = Larger(Len(file), pos + Len(item))
  /\ \A i \in 1 .. Len(item) : file'[pos + i] = item[i]
  /\ \A i \in 1 .. Len(file) : i \notin pos + 1 .. pos + Len(item) => file'[i] = file[i]

Holds(pos, n) == pos + n <= Len(file)

Piece(pos, n) == SubSeq(file, pos + 1, pos + n)

Encoded(s) == <<Len(s)>> \o s \o <<0>>

\* What gets written of a string when it does not fit: its length, the bytes
\* or not, like that of a buffer, or, of a vector, some of them.
Torn(s) == {<<Len(s)>> \o SubSeq(s, 1, k) : k \in 0 .. Len(s)}

\* A borrowed buffer has bytes from the start.
Init == file \in Seq(Nat) /\ wpos = 0 /\ rpos = 0 /\ got = <<>>

Write(item) ==
  /\ Overwritten(wpos, item)
  /\ wpos' = wpos + Len(item)
  /\ got' = <<>>
  /\ UNCHANGED rpos

\* What is left to read is written: rightly where it is not written over
\* itself.  Where it does not fit it counts as read.
WriteFrom ==
  LET n == Len(file) - rpos
      put == SubSeq(file', wpos + 1, wpos + n)
  IN  /\ Holds(rpos, 0)
      /\ rpos' = Len(file)
      /\ \/ /\ wpos + n <= Len(file')
            /\ Overwritten(wpos, put)
            /\ (wpos >= Len(file) \/ wpos + n <= rpos) => put = Piece(rpos, n)
            /\ wpos' = wpos + n
         \/ UNCHANGED <<file, wpos>>
      /\ got' = <<>>

\* The position moves even when there is no room, and may then wrap.
WriteSkip ==
  /\ wpos' \in {(wpos + n) % SizeMod : n \in Counts}
  /\ file' = file \/ Overwritten(wpos', <<>>)
  /\ got' = <<>>
  /\ UNCHANGED rpos

Read(n) ==
  /\ Holds(rpos, n)
  /\ got' = Piece(rpos, n)
  /\ rpos' = rpos + n
  /\ UNCHANGED <<file, wpos>>

\* As much as there is.
ReadSome(n) ==
  LET left == IF rpos < Len(file) THEN Len(file) - rpos ELSE 0
      m == IF n < left THEN n ELSE left
  IN  /\ got' = Piece(rpos, m)
      /\ rpos' = rpos + m
      /\ UNCHANGED <<file, wpos>>

\* Of what the file has, unless the end wraps.
ReadSkip(n) ==
  /\ Holds(rpos, n) \/ rpos + n >= SizeMod
  /\ rpos' = (rpos + n) % SizeMod
  /\ got' = <<>>
  /\ UNCHANGED <<file, wpos>>

\* A 0 inside ends what the caller sees of the string.
ReadString(n) ==
  /\ Holds(rpos, n + 2)
  /\ file[rpos + 1] = n
  /\ file[rpos + n + 2] = 0
  /\ \E k \in 0 .. n :
       /\ got' = Piece(rpos + 1, k)
       /\ 0 \notin {got'[i] : i \in 1 .. k}
       /\ file[rpos + k + 2] = 0
  /\ rpos' = rpos + n + 2
  /\ UNCHANGED <<file, wpos>>

\* Into another buffer, which keeps what it had behind that.
ReadBuffer(n, old) ==
  /\ Holds(rpos, n + 1)
  /\ file[rpos + 1] = n
  /\ got' = Piece(rpos + 1, n) \o SubSeq(old, n + 1, Len(old))
  /\ rpos' = rpos + n + 1
  /\ UNCHANGED <<file, wpos>>

\* Behind what the vector had, and no more than there are; a number with the
\* sign bit set counts nothing.
ReadVector(n, old) ==
  /\ Holds(rpos, n + 1)
  /\ \/ n = file[rpos + 1]
     \/ n < file[rpos + 1] /\ (rpos + n + 1 = Len(file) \/ (n = 0 /\ file[rpos + 1] >= SizeMod \div 2))
  /\ got' = old \o Piece(rpos + 1, n)
  /\ rpos' = rpos + n + 1
  /\ UNCHANGED <<file, wpos>>

\* A call that fails changes nothing, unless it is a read that fails in the
\* middle.
Fails ==
  /\ rpos' >= rpos
  /\ rpos' <= Larger(rpos, Len(file))
  /\ got' = <<>>
  /\ UNCHANGED <<file, wpos>>

Seek ==
  /\ got' = <<>>
  /\ UNCHANGED file
  /\ \/ wpos' \in Positions /\ UNCHANGED rpos
     \/ rpos' \in Positions /\ UNCHANGED wpos

\* Cleared, or replaced.
Replace ==
  /\ file' \in {<<>>} \cup Items
  /\ got' = <<>>
  /\ UNCHANGED <<wpos, rpos>>

Next ==
  \/ \E item \in Items : Write(item)
  \/ \E s \in Strings : Write(Encoded(s))
  \/ \E s \in Strings \cup Items : \E part \in Torn(s) : Write(part)
  \/ WriteFrom
  \/ WriteSkip
  \/ \E n \in Counts : Read(n) \/ ReadSome(n) \/ ReadSkip(n)
  \/ \E n \in 0 .. Len(file) : ReadString(n)
  \/ \E n \in 0 .. Len(file), old \in Strings : ReadBuffer(n, old) \/ ReadVector(n, old)
  \/ Fails
  \/ Seek
  \/ Replace

Spec == Init /\ [][Next]_vars
=============================================================================
