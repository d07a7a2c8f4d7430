----------------------------- MODULE StreamBuf -----------------------------
(***************************************************************************)
(* A stream buffer of platform/ByteStream.h with a COStream that writes to *)
(* it and a CIStream that reads from it, as syyserver.cpp:69-80 uses them. *)
(* The three kinds of buffer differ in ReAlloc.                            *)
(*                                                                         *)
(* Sizes are unsigned and wrap at SizeMod.  A value of the program is a    *)
(* sequence of bytes, and an integer a single one: H2N and N2H are inverse *)
(* to each other.  Another buffer that is written or read into, and what a *)
(* container holds, is such a sequence too.  An access outside of the      *)
(* allocated bytes, or to bytes that were freed, and a buffer that counts  *)
(* bytes it has no memory for, end the behaviour with fate "wild", the     *)
(* endless loop of ReAlloc with "hung".                                    *)
(***************************************************************************)
EXTENDS Integers, Sequences

CONSTANTS
  Bytes,          \* numbers from 0 on
  Fills,          \* what new char[] leaves in memory: all one byte
  SizeMod,        \* the values of a size32_t: 2^32 in the code
  PowersOfTwo,    \* those a size32_t holds
  Buffers,        \* the buffers constructed: [kind, capacity]
  Items,          \* what is written at once, or is in a buffer or vector
  Strings,
  Counts,         \* how much is skipped or read
  Positions       \* the arguments of Seek

Kinds == {"fixed", "dynamic", "borrowed"}

StreamAssumption ==
  /\ SizeMod \in Nat \ {0}
  /\ Bytes \subseteq 0 .. SizeMod - 1 /\ 0 \in Bytes
  /\ Fills \subseteq Bytes
  /\ PowersOfTwo \subseteq 1 .. SizeMod \div 2
  /\ {1, 2, SizeMod \div 2} \subseteq PowersOfTwo
  \* a buffer holds at most 2^31 bytes
  /\ Buffers \subseteq [kind : Kinds, capacity : 0 .. SizeMod \div 2]
  /\ Items \subseteq Seq(Bytes) /\ \A item \in Items : Len(item) \in Bytes
  \* no 0 in a string
  /\ Strings \subseteq Seq(Bytes \ {0}) /\ \A s \in Strings : Len(s) \in Bytes
  /\ Counts \subseteq 0 .. SizeMod - 1
  /\ Positions \subseteq 0 .. SizeMod - 1

ASSUME StreamAssumption

VARIABLES
  buf,            \* kind, bytes (what is allocated), m_maxlen, m_deflen
  opos, ipos,     \* m_pos of the two streams
  got,            \* what the last call has read
  fate,           \* "running", "wild" or "hung"
  alloc_failed    \* observer: a new has thrown

vars == <<buf, opos, ipos, got, fate, alloc_failed>>

Filled(n, byte) == [i \in 1 .. n |-> byte]

PowersFrom(size) == {p \in PowersOfTwo : p >= size}

\* m_maxlen, a power of two, doubled until it is large enough.
Doubled(size) == CHOOSE p \in PowersFrom(size) : \A q \in PowersFrom(size) : p <= q

\* The outcomes of a call: the new buffer, the position and how it ends.
Outcome(b, pos, ends) == [buf |-> b, pos |-> pos, ends |-> ends]

-----------------------------------------------------------------------------
(* The buffer *)

\* Mutant: memory for the size asked for, not for the new m_maxlen.
ReAlloc_exact(b, pos, size) ==
  IF b.kind # "dynamic"
    THEN {Outcome(b, pos, "throw")}
    ELSE IF PowersFrom(size) = {}
      THEN {Outcome(b, pos, "hung")}
      ELSE {Outcome([b EXCEPT !.m_maxlen = Doubled(size)], pos, "bad_alloc")} \cup
           {Outcome([b EXCEPT !.m_maxlen = Doubled(size),
                              !.bytes = SubSeq(b.bytes, 1, b.m_deflen)
                                          \o Filled(size - b.m_deflen, f)], pos, "ok") :
              f \in Fills}

\* Mutant: the bytes of the old memory are not copied.
ReAlloc_uncopied(b, pos, size) ==
  IF b.kind # "dynamic"
    THEN {Outcome(b, pos, "throw")}
    ELSE IF PowersFrom(size) = {}
      THEN {Outcome(b, pos, "hung")}
      ELSE {Outcome([b EXCEPT !.m_maxlen = Doubled(size)], pos, "bad_alloc")} \cup
           {Outcome([b EXCEPT !.m_maxlen = Doubled(size),
                              !.bytes = Filled(Doubled(size), f)], pos, "ok") : f \in Fills}

\* Called for a size above m_maxlen.  A new that fails leaves m_maxlen doubled
\* and the memory as it was.
ReAlloc(b, pos, size) ==
  IF b.kind # "dynamic"
    THEN {Outcome(b, pos, "throw")}
    ELSE IF PowersFrom(size) = {}
      THEN {Outcome(b, pos, "hung")}
      ELSE {Outcome([b EXCEPT !.m_maxlen = Doubled(size)], pos, "bad_alloc")} \cup
           {Outcome([b EXCEPT !.m_maxlen = Doubled(size),
                              !.bytes = SubSeq(b.bytes, 1, b.m_deflen)
                                          \o Filled(Doubled(size) - b.m_deflen, f)], pos, "ok") :
              f \in Fills}

\* m_deflen grows, and must not outgrow the memory.
Grown(o, size) ==
  IF size > Len(o.buf.bytes) THEN [o EXCEPT !.ends = "wild"]
                             ELSE [o EXCEPT !.buf.m_deflen = size]

\* Mutant: one byte more than there is room for.
ExpandTo_off_by_one(b, pos, size) ==
  {IF o.ends = "ok" /\ o.buf.m_deflen < size THEN Grown(o, size) ELSE o :
   o \in IF size > b.m_maxlen + 1 THEN ReAlloc(b, pos, size) ELSE {Outcome(b, pos, "ok")}}

ExpandTo(b, pos, size) ==
  {IF o.ends = "ok" /\ o.buf.m_deflen < size THEN Grown(o, size) ELSE o :
   o \in IF size > b.m_maxlen THEN ReAlloc(b, pos, size) ELSE {Outcome(b, pos, "ok")}}

\* memcpy(m_bytes + pos, p, n)
Allocated(b, pos, n) == n = 0 \/ pos + n <= Len(b.bytes)

Copied(b, pos, item) ==
  [i \in 1 .. Len(b.bytes) |->
     IF i \in pos + 1 .. pos + Len(item) THEN item[i - pos] ELSE b.bytes[i]]

\* Put at the position of a stream, which it advances.
Put(b, pos, item) ==
  {CASE o.ends # "ok" -> o
     [] o.ends = "ok" /\ ~Allocated(o.buf, pos, Len(item)) -> [o EXCEPT !.ends = "wild"]
     [] OTHER -> Outcome([o.buf EXCEPT !.bytes = Copied(o.buf, pos, item)],
                         (pos + Len(item)) % SizeMod, "ok") :
   o \in ExpandTo(b, pos, (pos + Len(item)) % SizeMod)}

\* What memcpy may make of item when it is copied d bytes further on, or
\* back, and runs over bytes that it still has to read.
Smeared(item, d) ==
  LET n == Len(item)
  IN  {item} \cup
        CASE d \in 1 .. n - 1  -> {[i \in 1 .. n |-> item[((i - 1) % d) + 1]]}
          [] -d \in 1 .. n - 1 -> {[i \in 1 .. n |-> item[n - ((n - i) % (-d))]]}
          [] OTHER -> {}

\* Put of n bytes that the buffer itself holds at from: ReAlloc frees them
\* before they are copied.
PutOwn(b, pos, from, n) ==
  {IF o.ends = "ok" /\ n > 0 /\ o.buf.m_maxlen # b.m_maxlen THEN [o EXCEPT !.ends = "wild"] ELSE o :
   o \in UNION {Put(b, pos, item) : item \in Smeared(SubSeq(b.bytes, from + 1, from + n), pos - from)}}

\* The check of Get and GetBufRange.
InRange(b, pos, n) ==
  /\ pos <= b.m_deflen
  /\ n <= b.m_deflen
  /\ (pos + n) % SizeMod <= b.m_deflen

Piece(b, pos, n) == SubSeq(b.bytes, pos + 1, pos + n)

\* m_bytes is still NULL.
NoMemory(b) == b.kind = "dynamic" /\ b.bytes = <<>>

\* GetBufRange returns m_bytes + pos; Skip takes NULL for a failure.
Skippable(b, pos, n) == InRange(b, pos, n) /\ (NoMemory(b) => pos > 0)

-----------------------------------------------------------------------------

\* CFixedStreamBuf<n>
Fixed(n) ==
  {[kind |-> "fixed", bytes |-> Filled(n, f), m_maxlen |-> n, m_deflen |-> 0] : f \in Fills}

\* m_maxlen is 1, and there is no memory, until ReAlloc(n).
Dynamic(n) ==
  {[kind |-> "dynamic", bytes |-> Filled(IF n <= 1 THEN 0 ELSE Doubled(n), f),
    m_maxlen |-> Doubled(n), m_deflen |-> 0] : f \in Fills}

\* The bytes are the caller's, and are there to be read.
Borrowed(n) ==
  {[kind |-> "borrowed", bytes |-> Filled(n, f), m_maxlen |-> n, m_deflen |-> n] : f \in Fills}

Constructed(b) ==
  CASE b.kind = "fixed" -> Fixed(b.capacity)
    [] b.kind = "dynamic" -> Dynamic(b.capacity)
    [] b.kind = "borrowed" -> Borrowed(b.capacity)

Init ==
  /\ \E b \in Buffers : buf \in Constructed(b)
  /\ opos = 0 /\ ipos = 0
  /\ got = <<>>
  /\ fate = "running"
  /\ alloc_failed = FALSE

-----------------------------------------------------------------------------
(* COStream *)

\* The end of a call of the writer.
Ended(outcomes) ==
  \E o \in outcomes :
    /\ fate' = IF o.ends \in {"wild", "hung"} THEN o.ends ELSE fate
    /\ alloc_failed' = (alloc_failed \/ o.ends = "bad_alloc")
    /\ IF fate' = "running" THEN buf' = o.buf /\ opos' = o.pos
                            ELSE UNCHANGED <<buf, opos>>

\* The next of several writes, unless an earlier one has failed.
Then(outcomes, item) ==
  UNION {IF o.ends = "ok" THEN Put(o.buf, o.pos, item) ELSE {o} : o \in outcomes}

Write(item) ==
  /\ fate = "running"
  /\ Ended(Put(buf, opos, item))
  /\ got' = <<>>
  /\ UNCHANGED ipos

\* Mutant: the 0 at the end is left out.
StringPut_no_eos(s) == Then(Then({Outcome(buf, opos, "ok")}, <<Len(s)>>), s)

\* os << str: the length, the bytes and a 0.
StringPut(s) == Then(Then(Then({Outcome(buf, opos, "ok")}, <<Len(s)>>), s), <<0>>)

WriteString(s) ==
  /\ fate = "running"
  /\ Ended(StringPut(s))
  /\ got' = <<>>
  /\ UNCHANGED ipos

\* os << other, a buffer that is not this one: its size and its bytes.
BufferPut(item) == Then(Then({Outcome(buf, opos, "ok")}, <<Len(item)>>), item)

WriteBuffer(item) ==
  /\ fate = "running"
  /\ Ended(BufferPut(item))
  /\ got' = <<>>
  /\ UNCHANGED ipos

\* One by one: the outcomes after the first k elements of all.
OneByOne(all) ==
  LET after[k \in 0 .. Len(all)] ==
        IF k = 0 THEN {Outcome(buf, opos, "ok")} ELSE Then(after[k - 1], <<all[k]>>)
  IN  after

\* os << vec: the number of elements, and then they.
VectorPut(vec) == OneByOne(<<Len(vec)>> \o vec)[Len(vec) + 1]

WriteVector(vec) ==
  /\ fate = "running"
  /\ Ended(VectorPut(vec))
  /\ got' = <<>>
  /\ UNCHANGED ipos

\* os.Write(is): what is has left is taken out of the same buffer.
Left == (buf.m_deflen - ipos) % SizeMod

WriteFrom ==
  /\ fate = "running"
  /\ Skippable(buf, ipos, Left)
  /\ ipos' = (ipos + Left) % SizeMod
  /\ Ended(PutOwn(buf, opos, ipos, Left))
  /\ got' = <<>>

\* Skip advances m_pos before it expands the buffer, which may fail.  The
\* caller gets the skipped bytes to write on.
WriteSkip(n) ==
  /\ fate = "running"
  /\ LET pos == (opos + n) % SizeMod
     IN  Ended({IF o.ends = "ok" /\ ~Allocated(o.buf, opos, n) THEN [o EXCEPT !.ends = "wild"] ELSE o :
                o \in ExpandTo(buf, pos, pos)})
  /\ got' = <<>>
  /\ UNCHANGED ipos

-----------------------------------------------------------------------------
(* CIStream *)

readerVars == <<buf, opos, alloc_failed>>

\* Get and the copy behind it.
Read(n) ==
  /\ fate = "running"
  /\ InRange(buf, ipos, n)
  /\ IF Allocated(buf, ipos, n)
       THEN got' = Piece(buf, ipos, n) /\ ipos' = (ipos + n) % SizeMod /\ UNCHANGED fate
       ELSE fate' = "wild" /\ got' = <<>> /\ UNCHANGED ipos
  /\ UNCHANGED readerVars

\* GetNoThrow: what is left, in unsigned arithmetic, or nothing.
ReadNoThrow(n) ==
  LET left == (buf.m_deflen - ipos) % SizeMod
      m == CASE InRange(buf, ipos, n) -> n
             [] ~InRange(buf, ipos, n) /\ left <= buf.m_deflen
                  /\ (ipos + left) % SizeMod <= buf.m_deflen -> left
             [] OTHER -> 0
  IN  /\ fate = "running"
      /\ IF Allocated(buf, ipos, m)
           THEN got' = Piece(buf, ipos, m) /\ ipos' = (ipos + m) % SizeMod /\ UNCHANGED fate
           ELSE fate' = "wild" /\ got' = <<>> /\ UNCHANGED ipos
      /\ UNCHANGED readerVars

ReadSkip(n) ==
  /\ fate = "running"
  /\ Skippable(buf, ipos, n)
  /\ ipos' = (ipos + n) % SizeMod
  /\ got' = <<>>
  /\ UNCHANGED <<readerVars, fate>>

\* The outcomes of a read: what it has read, where it ends and how.
Took(item, pos) == [item |-> item, pos |-> pos, ends |-> "ok"]
Threw(pos) == [item |-> <<>>, pos |-> pos, ends |-> "throw"]
Ran(pos) == [item |-> <<>>, pos |-> pos, ends |-> "wild"]

\* Of n bytes, after the first has been read, with what the caller keeps.
\* The end of what Skip allows may have wrapped.
Behind(b, pos, n, len) ==
  IF Allocated(b, pos, n) THEN Took(Piece(b, pos, len), pos + n) ELSE Ran(pos)

\* is >> other: the size, then it skips the bytes.
BufferAt(b, pos) ==
  LET len == b.bytes[pos + 1]
  IN  CASE ~InRange(b, pos, 1) -> Threw(pos)
        [] InRange(b, pos, 1) /\ ~Skippable(b, pos + 1, len) -> Threw(pos + 1)
        [] OTHER -> Behind(b, pos + 1, len, len)

\* It looks at the 0 that it has skipped last.
Terminated(b, r) == IF r.ends = "ok" /\ b.bytes[r.pos] # 0 THEN Threw(r.pos) ELSE r

\* is >> str: like a buffer, and then the 0.  Each may throw, with the
\* position where it then is.
StringAt(b, pos) ==
  LET r == BufferAt(b, pos)
  IN  CASE r.ends # "ok" -> r
        [] r.ends = "ok" /\ ~Skippable(b, r.pos, 1) -> Threw(r.pos)
        [] OTHER -> Terminated(b, [r EXCEPT !.pos = @ + 1])

\* ReadString(str, maxlen), for an array: longer ones are refused, and the 0
\* is skipped with the bytes.
StringWithin(b, pos, maxlen) ==
  LET len == b.bytes[pos + 1]
  IN  CASE ~InRange(b, pos, 1) -> Threw(pos)
        [] InRange(b, pos, 1) /\ (maxlen = 0 \/ len > maxlen - 1 \/ ~Skippable(b, pos + 1, len + 1)) ->
             Threw(pos + 1)
        [] OTHER -> Terminated(b, Behind(b, pos + 1, len + 1, len))

\* is >> vec: the number, an int, then one by one, as many as there are.
VectorAt(b, pos) ==
  IF ~InRange(b, pos, 1)
    THEN Threw(pos)
    ELSE LET int == b.bytes[pos + 1]
             num == IF int < SizeMod \div 2 THEN int ELSE 0
             left == b.m_deflen - (pos + 1)
             n == IF num < left THEN num ELSE left
         IN  Took(Piece(b, pos + 1, n), pos + 1 + n)

\* Up to its first 0.
CString(s) ==
  LET Zeros == {i \in 1 .. Len(s) : s[i] = 0}
  IN  IF Zeros = {} THEN s
      ELSE SubSeq(s, 1, (CHOOSE i \in Zeros : \A j \in Zeros : i <= j) - 1)

\* A reader that delivers value has got r.
Delivers(r, value) ==
  /\ fate = "running"
  /\ ipos' = r.pos
  /\ got' = IF r.ends = "ok" THEN value ELSE <<>>
  /\ fate' = IF r.ends = "wild" THEN "wild" ELSE fate
  /\ UNCHANGED readerVars

ReadString == LET r == StringAt(buf, ipos) IN Delivers(r, CString(r.item))

ReadStringWithin(maxlen) ==
  LET r == StringWithin(buf, ipos, maxlen) IN Delivers(r, CString(r.item))

\* The other buffer is not cleared: it keeps the end of what it held.  Where
\* it has to grow, its Put may throw, and the bytes are skipped already.
ReadBuffer(old) ==
  LET r == BufferAt(buf, ipos)
  IN  \/ Delivers(r, r.item \o SubSeq(old, Len(r.item) + 1, Len(old)))
      \/ /\ r.ends = "ok" /\ Len(old) < Len(r.item)
         /\ Delivers(Threw(r.pos), <<>>)

\* Nor is the vector; a map or set is, whose old is empty.
ReadVector(old) ==
  LET r == VectorAt(buf, ipos) IN Delivers(r, old \o r.item)

-----------------------------------------------------------------------------

OSeek(n) ==
  /\ fate = "running"
  /\ opos' = n
  /\ got' = <<>>
  /\ UNCHANGED <<buf, ipos, fate, alloc_failed>>

ISeek(n) ==
  /\ fate = "running"
  /\ ipos' = n
  /\ got' = <<>>
  /\ UNCHANGED <<readerVars, fate>>

\* The positions of the streams stay where they are.
Clear ==
  /\ fate = "running"
  /\ buf' = [buf EXCEPT !.m_deflen = 0]
  /\ got' = <<>>
  /\ UNCHANGED <<opos, ipos, fate, alloc_failed>>

\* buf = other: the positions of the streams stay, and where other does not
\* fit, buf is empty.
CopyFrom(item) ==
  /\ fate = "running"
  /\ Ended({[o EXCEPT !.pos = opos] : o \in Put([buf EXCEPT !.m_deflen = 0], 0, item)})
  /\ got' = <<>>
  /\ UNCHANGED ipos

Writer ==
  \/ \E item \in Items : Write(item)
  \/ \E item \in Items : WriteBuffer(item)
  \/ \E vec \in Items : WriteVector(vec)
  \/ WriteFrom
  \/ \E s \in Strings : WriteString(s)
  \/ \E n \in Counts : WriteSkip(n)
  \/ \E item \in Items : CopyFrom(item)

Reader ==
  \/ \E n \in Counts : Read(n)
  \/ \E n \in Counts : ReadNoThrow(n)
  \/ \E n \in Counts : ReadSkip(n)
  \/ ReadString
  \/ \E n \in Counts : ReadStringWithin(n)
  \/ \E old \in Strings : ReadBuffer(old)
  \/ \E old \in Strings : ReadVector(old)

Next ==
  \/ Writer
  \/ Reader
  \/ \E n \in Positions : OSeek(n)
  \/ \E n \in Positions : ISeek(n)
  \/ Clear

Spec == Init /\ [][Next]_vars

-----------------------------------------------------------------------------
(* Properties *)

\* Positions and sizes are 32-bit; what is defined is in memory; m_maxlen is
\* the size of the memory, unless there never was any or a new has failed.
TypeOK ==
  /\ buf.kind \in Kinds
  /\ buf.bytes \in Seq(Bytes)
  /\ buf.m_maxlen \in 0 .. SizeMod - 1
  /\ buf.m_deflen \in 0 .. Len(buf.bytes)
  /\ alloc_failed \/ buf.bytes = <<>> \/ buf.m_maxlen = Len(buf.bytes)
  /\ opos \in 0 .. SizeMod - 1 /\ ipos \in 0 .. SizeMod - 1
  /\ got \in Seq(Bytes)
  /\ fate \in {"running", "wild", "hung"}
  /\ alloc_failed \in BOOLEAN

\* How far the longest write from here goes.
Reach == {opos + Len(item) + 1 : item \in Items} \cup {opos + n : n \in Counts \cup {Left}}
           \cup {opos + Len(s) + 2 : s \in Strings}

\* How far the longest read goes: of so many bytes, or of as many as the
\* number says that it finds, with a 0 behind them.
ReadReach == {ipos + n : n \in Counts} \cup
             {ipos + buf.bytes[i] + 2 : i \in {ipos + 1} \cap 1 .. buf.m_deflen}

\* A read or a write leaves the memory only where its end is beyond what a
\* size32_t holds; a write also where a new that failed was survived, or in
\* a dynamic buffer constructed for less than two bytes, which has no memory
\* for the one byte it claims.  Bytes are used after they were freed only by
\* Write(is) on a buffer that is too small.  ReAlloc hangs only above 2^31.
Survives ==
  [][/\ fate' = "wild" =>
          \/ Reader /\ \E e \in ReadReach : e >= SizeMod
          \/ Writer /\ \/ \E e \in Reach : e >= SizeMod
                       \/ alloc_failed
                       \/ NoMemory(buf)
          \/ WriteFrom /\ buf.kind = "dynamic" /\ opos + Left > buf.m_maxlen
     /\ fate' = "hung" => Writer /\ \E e \in Reach : e > SizeMod \div 2]_fate

File == INSTANCE StreamFile WITH
  file <- SubSeq(buf.bytes, 1, buf.m_deflen),
  wpos <- opos,
  rpos <- ipos

\* While it runs, buffer and streams are a file: growing keeps what was
\* written, a write that throws changes nothing, and a read delivers what
\* the file has at its position, and never what is past its end.
FileSpec == File!Spec

\* What has been written is read again as it was, from where it was written,
\* and leaves the reader where the writer is: strings, also into an array
\* that they just fit in, buffers and vectors.
WrittenReadsBack ==
  [][/\ \A s \in Strings :
          (WriteString(s) /\ Outcome(buf', opos', "ok") \in StringPut(s)) =>
            Took(s, opos') \in {StringAt(buf', opos)} \cap {StringWithin(buf', opos, Len(s) + 1)}
     /\ \A item \in Items :
          \/ WriteBuffer(item) /\ Outcome(buf', opos', "ok") \in BufferPut(item)
          \/ WriteVector(item) /\ Outcome(buf', opos', "ok") \in VectorPut(item)
          => Took(item, opos') \in {BufferAt(buf', opos)} \cap {VectorAt(buf', opos)}]_vars
=============================================================================
