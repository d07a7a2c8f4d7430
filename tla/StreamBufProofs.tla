-------------------------- MODULE StreamBufProofs --------------------------
(***************************************************************************)
(* Proofs about StreamBuf: that its buffers stay sound, what a write leaves *)
(* of the buffer and what a read takes from it, in every outcome, and that *)
(* the streams therefore implement StreamFile.                             *)
(***************************************************************************)
EXTENDS StreamBuf, DataLemmas

Half == SizeMod \div 2

\* The buffer counts no bytes that it does not have, and no more of them than
\* a size32_t can add.  Only a dynamic one may have less memory than it says.
Sound(b) ==
  /\ b \in [kind : Kinds, bytes : Seq(Bytes), m_maxlen : 0 .. Half, m_deflen : Nat]
  /\ b.m_deflen <= Len(b.bytes)
  /\ Len(b.bytes) <= b.m_maxlen
  /\ b.kind # "dynamic" => b.m_maxlen = Len(b.bytes)

\* It has all the memory that it says, or never had any.
Full(b) == NoMemory(b) \/ b.m_maxlen = Len(b.bytes)

\* The inductive invariant.
IInv ==
  /\ TypeOK
  /\ Sound(buf)
  /\ alloc_failed \/ Full(buf)

\* c is b, perhaps with more memory.
Alike(b, c) ==
  /\ Sound(c)
  /\ c.kind = b.kind
  /\ Len(b.bytes) <= Len(c.bytes)
  /\ c.m_deflen = b.m_deflen
  /\ \A i \in 1 .. b.m_deflen : c.bytes[i] = b.bytes[i]

\* c is b with item at pos.
Wrote(b, pos, item, c) ==
  /\ Sound(c)
  /\ c.kind = b.kind
  /\ Len(b.bytes) <= Len(c.bytes)
  /\ c.m_deflen = File!Larger(b.m_deflen, pos + Len(item))
  /\ \A i \in 1 .. Len(item) : c.bytes[pos + i] = item[i]
  /\ \A i \in 1 .. b.m_deflen : i \notin pos + 1 .. pos + Len(item) => c.bytes[i] = b.bytes[i]

Size == 0 .. SizeMod - 1

-----------------------------------------------------------------------------
(* Sizes *)

LEMMA Sizes ==
  /\ SizeMod \in Nat \ {0} /\ Half \in Nat /\ 2 <= Half /\ 2 * Half <= SizeMod
  /\ SizeMod <= 2 * Half + 1
  /\ Bytes \subseteq Size /\ 0 \in Bytes /\ Fills \subseteq Bytes
<1>1. SizeMod \in Nat \ {0} /\ 2 \in 1 .. SizeMod \div 2
  BY StreamAssumption DEF StreamAssumption
<1>2. SizeMod = 2 * (SizeMod \div 2) + (SizeMod % 2) /\ SizeMod \div 2 \in Int /\ SizeMod % 2 \in 0 .. 1
  BY <1>1
<1> QED BY <1>1, <1>2, StreamAssumption DEF StreamAssumption, Half, Size

\* The size that ReAlloc ends with is the least power of two that is large
\* enough, and there is one up to 2^31.
LEMMA Doubling ==
  ASSUME NEW size \in Nat
  PROVE  /\ PowersFrom(size) = {} <=> size > Half
         /\ size <= Half => /\ Doubled(size) \in PowersOfTwo
                            /\ Doubled(size) \in 1 .. Half
                            /\ size <= Doubled(size)
<1>1. PowersOfTwo \subseteq 1 .. Half /\ Half \in PowersOfTwo
  BY StreamAssumption DEF StreamAssumption, Half
<1>2. PowersFrom(size) = {} <=> size > Half
  <2>1. CASE size <= Half
    <3>1. Half \in PowersFrom(size)
      BY <1>1, <2>1, Sizes DEF PowersFrom
    <3> QED BY <2>1, <3>1, Sizes
  <2>2. CASE size > Half
    <3>1. \A p \in PowersOfTwo : p \in Nat /\ p <= Half
      BY <1>1, Sizes
    <3>2. \A p \in PowersOfTwo : ~(p >= size)
      BY <2>2, <3>1, Sizes
    <3> QED BY <2>2, <3>2 DEF PowersFrom
  <2> QED BY <2>1, <2>2, Sizes
<1>3. ASSUME size <= Half
      PROVE  Doubled(size) \in PowersFrom(size)
  <2>1. PowersFrom(size) # {}
    BY <1>2, <1>3, Sizes
  <2>2. PowersFrom(size) \subseteq Nat
    <3>1. \A p \in PowersOfTwo : p \in Nat
      BY <1>1, Sizes
    <3> QED BY <3>1 DEF PowersFrom
  <2>3. \E p \in PowersFrom(size) : \A q \in PowersFrom(size) : p <= q
    BY <2>1, <2>2, LeastNatural
  <2> QED BY <2>3 DEF Doubled
<1> QED BY <1>1, <1>2, <1>3 DEF PowersFrom

\* Where a size32_t holds the end of so many bytes, and where it wraps.
LEMMA EndWraps ==
  ASSUME NEW pos \in Nat, NEW n \in Nat
  PROVE  /\ (pos + n) % SizeMod \in Size
         /\ pos + n < SizeMod => (pos + n) % SizeMod = pos + n
         /\ (pos + n) % SizeMod <= pos + n
<1> DEFINE e == pos + n
<1>1. e \in Nat /\ SizeMod \in Nat \ {0}
  BY Sizes
<1> HIDE DEF e
<1>2. e % SizeMod \in 0 .. SizeMod - 1
  BY <1>1, ModRange
<1>3. e < SizeMod => e % SizeMod = e
  BY <1>1, ModSmall
<1> QED BY <1>1, <1>2, <1>3 DEF e, Size

-----------------------------------------------------------------------------
(* The buffer *)

LEMMA AlikeSelf ==
  ASSUME NEW b, Sound(b)
  PROVE  Alike(b, b)
  BY DEF Alike, Sound

LEMMA WroteAlike ==
  ASSUME NEW b, NEW c, NEW d, NEW pos \in Nat, NEW item \in Seq(Bytes), Sound(b),
         Wrote(b, pos, item, c), Alike(c, d)
  PROVE  Wrote(b, pos, item, d)
<1>1. b.m_deflen \in Nat /\ Len(item) \in Nat /\ c.m_deflen \in Nat
      /\ Len(b.bytes) \in Nat /\ Len(c.bytes) \in Nat /\ Len(d.bytes) \in Nat
  BY DEF Sound, Alike, Wrote
<1>2. b.m_deflen <= c.m_deflen /\ pos + Len(item) <= c.m_deflen
  BY <1>1 DEF Wrote, File!Larger
<1>3. \A i \in 1 .. Len(item) : d.bytes[pos + i] = item[i]
  <2> SUFFICES ASSUME NEW i \in 1 .. Len(item)
               PROVE  d.bytes[pos + i] = item[i]
    OBVIOUS
  <2>1. pos + i \in 1 .. c.m_deflen
    BY <1>1, <1>2
  <2> QED BY <2>1 DEF Wrote, Alike
<1>4. \A i \in 1 .. b.m_deflen : i \notin pos + 1 .. pos + Len(item) => d.bytes[i] = b.bytes[i]
  BY <1>1, <1>2 DEF Wrote, Alike
<1> QED BY <1>1, <1>3, <1>4 DEF Wrote, Alike

\* What ReAlloc does for a size that is above m_maxlen.
LEMMA ReAllocOutcome ==
  ASSUME NEW b, Sound(b), NEW pos, NEW size \in Size, size > b.m_maxlen,
         NEW o \in ReAlloc(b, pos, size)
  PROVE  /\ o = Outcome(o.buf, pos, o.ends) /\ o.pos = pos
         /\ \/ o.ends = "throw" /\ o.buf = b
            \/ o.ends = "hung" /\ size > Half
            \/ o.ends = "bad_alloc" /\ Alike(b, o.buf)
            \/ /\ o.ends = "ok" /\ Alike(b, o.buf)
               /\ b.kind = "dynamic" /\ size <= Len(o.buf.bytes) /\ Full(o.buf)
<1>1. CASE b.kind # "dynamic"
  BY <1>1 DEF ReAlloc, Outcome
<1>2. CASE b.kind = "dynamic" /\ PowersFrom(size) = {}
  <2>1. o = Outcome(b, pos, "hung") /\ size > Half
    BY <1>2, Doubling DEF ReAlloc, Size
  <2> QED BY <2>1 DEF Outcome
<1>3. CASE b.kind = "dynamic" /\ PowersFrom(size) # {}
  <2> DEFINE m == Doubled(size)
  <2>1. m \in 1 .. Half /\ size <= m /\ m \in Nat /\ Half \in Nat
    BY <1>3, Doubling, Sizes DEF Size
  <2> HIDE DEF m
  <2>2. b \in [kind : Kinds, bytes : Seq(Bytes), m_maxlen : 0 .. Half, m_deflen : Nat]
        /\ b.m_deflen <= Len(b.bytes) /\ Len(b.bytes) <= b.m_maxlen
        /\ b.m_deflen \in Nat /\ Len(b.bytes) \in Nat /\ b.m_maxlen \in Nat /\ b.m_maxlen < m
    BY <2>1 DEF Sound, Size
  <2>3. CASE o = Outcome([b EXCEPT !.m_maxlen = m], pos, "bad_alloc")
    <3> DEFINE c == [b EXCEPT !.m_maxlen = m]
    <3>1. c \in [kind : Kinds, bytes : Seq(Bytes), m_maxlen : 0 .. Half, m_deflen : Nat]
          /\ c.kind = b.kind /\ c.bytes = b.bytes /\ c.m_deflen = b.m_deflen /\ c.m_maxlen = m
      BY <2>1, <2>2
    <3> HIDE DEF c
    <3>2. Alike(b, c)
      BY <1>3, <2>1, <2>2, <3>1 DEF Alike, Sound
    <3> QED BY <2>3, <3>2 DEF Outcome, c
  <2>4. CASE \E f \in Fills : o = Outcome([b EXCEPT !.m_maxlen = m,
                                !.bytes = SubSeq(b.bytes, 1, b.m_deflen)
                                            \o Filled(m - b.m_deflen, f)], pos, "ok")
    <3>1. PICK f \in Fills : o = Outcome([b EXCEPT !.m_maxlen = m,
                                !.bytes = SubSeq(b.bytes, 1, b.m_deflen)
                                            \o Filled(m - b.m_deflen, f)], pos, "ok")
      BY <2>4
    <3> DEFINE old == SubSeq(b.bytes, 1, b.m_deflen)
               new == Filled(m - b.m_deflen, f)
               all == old \o new
               c == [b EXCEPT !.m_maxlen = m, !.bytes = all]
    <3>2. old \in Seq(Bytes) /\ Len(old) = b.m_deflen
          /\ \A i \in 1 .. b.m_deflen : old[i] = b.bytes[i]
      BY <2>2
    <3>3. new \in Seq(Bytes) /\ Len(new) = m - b.m_deflen
      <4>1. f \in Bytes /\ m - b.m_deflen \in Nat
        BY <2>1, <2>2, Sizes
      <4> QED BY <4>1 DEF Filled
    <3> HIDE DEF old, new
    <3>4. all \in Seq(Bytes) /\ Len(all) = m /\ \A i \in 1 .. b.m_deflen : all[i] = b.bytes[i]
      <4>1. all \in Seq(Bytes) /\ Len(all) = Len(old) + Len(new)
        BY <3>2, <3>3
      <4>2. \A i \in 1 .. Len(old) : all[i] = old[i]
        BY <3>2, <3>3
      <4> QED BY <2>1, <2>2, <3>2, <3>3, <4>1, <4>2
    <3> HIDE DEF all
    <3>5. c \in [kind : Kinds, bytes : Seq(Bytes), m_maxlen : 0 .. Half, m_deflen : Nat]
          /\ c.kind = b.kind /\ c.bytes = all /\ c.m_deflen = b.m_deflen /\ c.m_maxlen = m
      <4>1. m \in 0 .. Half
        BY <2>1
      <4> DEFINE c0 == [b EXCEPT !.m_maxlen = m]
      <4>2. c0 \in [kind : Kinds, bytes : Seq(Bytes), m_maxlen : 0 .. Half, m_deflen : Nat]
            /\ c0.kind = b.kind /\ c0.m_deflen = b.m_deflen /\ c0.m_maxlen = m
        BY <2>2, <4>1
      <4>3. c = [c0 EXCEPT !.bytes = all]
        BY <2>2
      <4> HIDE DEF c0, c
      <4> QED BY <3>4, <4>2, <4>3
    <3> HIDE DEF c
    <3>6. Alike(b, c) /\ Full(c) /\ size <= Len(c.bytes)
      BY <1>3, <2>1, <2>2, <3>4, <3>5 DEF Alike, Sound, Full
    <3>7. o = Outcome(c, pos, "ok")
      BY <3>1 DEF c, all, old, new
    <3> QED BY <1>3, <3>6, <3>7 DEF Outcome
  <2> QED BY <1>3, <2>3, <2>4 DEF ReAlloc, m
<1> QED BY <1>1, <1>2, <1>3

\* What ExpandTo does: where it succeeds, as many bytes are defined.
LEMMA ExpandOutcome ==
  ASSUME NEW b, Sound(b), NEW pos, NEW size \in Size, NEW o \in ExpandTo(b, pos, size)
  PROVE  /\ o = Outcome(o.buf, pos, o.ends) /\ o.pos = pos
         /\ \/ o.ends = "throw" /\ o.buf = b
            \/ o.ends = "hung" /\ size > Half
            \/ o.ends = "bad_alloc" /\ Alike(b, o.buf)
            \/ o.ends = "wild" /\ (~Full(b) \/ NoMemory(b))
            \/ /\ o.ends = "ok" /\ Wrote(b, size, <<>>, o.buf) /\ (Full(b) => Full(o.buf))
               /\ o.buf.m_maxlen # b.m_maxlen => b.kind = "dynamic" /\ size > b.m_maxlen
<1>1. PICK q \in IF size > b.m_maxlen THEN ReAlloc(b, pos, size) ELSE {Outcome(b, pos, "ok")} :
        o = IF q.ends = "ok" /\ q.buf.m_deflen < size THEN Grown(q, size) ELSE q
  BY DEF ExpandTo
<1>2. b \in [kind : Kinds, bytes : Seq(Bytes), m_maxlen : 0 .. Half, m_deflen : Nat]
      /\ b.m_deflen \in Nat /\ Len(b.bytes) \in Nat /\ b.m_maxlen \in Nat /\ size \in Nat
      /\ b.m_deflen <= Len(b.bytes) /\ Len(b.bytes) <= b.m_maxlen
  BY Sizes DEF Sound, Size
<1>3. /\ q = Outcome(q.buf, pos, q.ends) /\ q.pos = pos
      /\ \/ q.ends = "throw" /\ q.buf = b
         \/ q.ends = "hung" /\ size > Half
         \/ q.ends = "bad_alloc" /\ Alike(b, q.buf)
         \/ /\ q.ends = "ok" /\ Alike(b, q.buf) /\ (Full(b) => Full(q.buf))
            /\ size <= Len(q.buf.bytes) \/ (q.buf = b /\ size <= b.m_maxlen)
            /\ q.buf.m_maxlen # b.m_maxlen => b.kind = "dynamic" /\ size > b.m_maxlen
  <2>1. CASE size > b.m_maxlen
    <3>1. q \in ReAlloc(b, pos, size)
      BY <2>1
    <3> QED BY <2>1, <3>1, ReAllocOutcome
  <2>2. CASE ~(size > b.m_maxlen)
    <3>1. q = Outcome(b, pos, "ok") /\ size <= b.m_maxlen
      BY <1>2, <2>2
    <3> QED BY <3>1, AlikeSelf DEF Outcome
  <2> QED BY <2>1, <2>2
<1> DEFINE c == q.buf
<1> HIDE DEF c
<1>4. CASE q.ends # "ok"
  BY <1>1, <1>3, <1>4
<1>5. CASE q.ends = "ok" /\ ~(c.m_deflen < size)
  <2>1. o = q /\ Alike(b, c)
    BY <1>1, <1>3, <1>5 DEF c
  <2>2. size <= b.m_deflen
    BY <1>2, <1>5, <2>1 DEF Alike
  <2>3. Wrote(b, size, <<>>, c)
    BY <1>2, <2>1, <2>2 DEF Alike, Wrote, File!Larger
  <2> QED BY <1>3, <1>5, <2>1, <2>3 DEF c
<1>6. CASE q.ends = "ok" /\ c.m_deflen < size /\ size > Len(c.bytes)
  <2>1. o = [q EXCEPT !.ends = "wild"] /\ q = Outcome(c, pos, "ok") /\ c = b /\ size <= b.m_maxlen
    BY <1>1, <1>2, <1>3, <1>6 DEF Grown, c
  <2>2. o = Outcome(b, pos, "wild")
    BY <2>1 DEF Outcome
  <2>3. ~Full(b) \/ NoMemory(b)
    BY <1>2, <1>6, <2>1 DEF Full
  <2> QED BY <2>2, <2>3 DEF Outcome
<1>7. CASE q.ends = "ok" /\ c.m_deflen < size /\ ~(size > Len(c.bytes))
  <2> DEFINE d == [c EXCEPT !.m_deflen = size]
  <2>1. q = Outcome(c, pos, "ok") /\ Alike(b, c) /\ o = [q EXCEPT !.buf.m_deflen = size]
    BY <1>1, <1>3, <1>7 DEF Grown, c
  <2>2. o = Outcome(d, pos, "ok")
    BY <2>1 DEF Outcome
  <2>3. c \in [kind : Kinds, bytes : Seq(Bytes), m_maxlen : 0 .. Half, m_deflen : Nat]
        /\ Len(c.bytes) \in Nat /\ size <= Len(c.bytes) /\ Len(c.bytes) <= c.m_maxlen
        /\ c.m_deflen = b.m_deflen /\ c.kind = b.kind
        /\ (c.kind # "dynamic" => c.m_maxlen = Len(c.bytes))
    BY <1>2, <1>7, <2>1 DEF Alike, Sound
  <2>4. d \in [kind : Kinds, bytes : Seq(Bytes), m_maxlen : 0 .. Half, m_deflen : Nat]
        /\ d.kind = c.kind /\ d.bytes = c.bytes /\ d.m_maxlen = c.m_maxlen /\ d.m_deflen = size
    BY <1>2, <2>3
  <2> HIDE DEF d
  <2>5. Sound(d)
    BY <2>3, <2>4 DEF Sound
  <2>6. Wrote(b, size, <<>>, d)
    BY <1>2, <1>7, <2>1, <2>3, <2>4, <2>5 DEF Wrote, Alike, File!Larger
  <2>7. Full(c) => Full(d)
    BY <2>4 DEF Full, NoMemory
  <2> QED BY <1>3, <1>7, <2>2, <2>4, <2>6, <2>7 DEF Outcome, c
<1> QED BY <1>4, <1>5, <1>6, <1>7

\* What Put does: it writes item, or nothing.
LEMMA PutOutcome ==
  ASSUME NEW b, Sound(b), NEW pos \in Size, NEW item \in Seq(Bytes), NEW o \in Put(b, pos, item)
  PROVE  /\ o = Outcome(o.buf, o.pos, o.ends)
         /\ \/ o.ends = "throw" /\ o.buf = b /\ o.pos = pos
            \/ o.ends = "hung" /\ pos + Len(item) > Half
            \/ o.ends = "bad_alloc" /\ Alike(b, o.buf) /\ o.pos = pos
            \/ o.ends = "wild" /\ (pos + Len(item) >= SizeMod \/ ~Full(b) \/ NoMemory(b))
            \/ /\ o.ends = "ok" /\ Wrote(b, pos, item, o.buf) /\ o.pos = pos + Len(item)
               /\ Full(b) => Full(o.buf)
               /\ o.buf.m_maxlen # b.m_maxlen => b.kind = "dynamic" /\ pos + Len(item) > b.m_maxlen
<1> DEFINE n == Len(item)
           size == (pos + n) % SizeMod
<1>1. n \in Nat /\ pos \in Nat /\ pos < SizeMod /\ item \in [1 .. n -> Bytes]
  BY Sizes DEF Size
<1>2. size \in Size /\ (pos + n < SizeMod => size = pos + n) /\ size <= pos + n
  BY <1>1, EndWraps
<1>3. PICK q \in ExpandTo(b, pos, size) :
        o = CASE q.ends # "ok" -> q
              [] q.ends = "ok" /\ ~Allocated(q.buf, pos, n) -> [q EXCEPT !.ends = "wild"]
              [] OTHER -> Outcome([q.buf EXCEPT !.bytes = Copied(q.buf, pos, item)], size, "ok")
  BY DEF Put
<1> HIDE DEF size
<1>4. /\ q = Outcome(q.buf, pos, q.ends) /\ q.pos = pos
      /\ \/ q.ends = "throw" /\ q.buf = b
         \/ q.ends = "hung" /\ size > Half
         \/ q.ends = "bad_alloc" /\ Alike(b, q.buf)
         \/ q.ends = "wild" /\ (~Full(b) \/ NoMemory(b))
         \/ /\ q.ends = "ok" /\ Wrote(b, size, <<>>, q.buf) /\ (Full(b) => Full(q.buf))
            /\ q.buf.m_maxlen # b.m_maxlen => b.kind = "dynamic" /\ size > b.m_maxlen
  BY <1>2, ExpandOutcome
<1>5. size \in Nat /\ b.m_maxlen \in Nat /\ b.m_deflen \in Nat /\ Half \in Nat
  BY <1>2, Sizes DEF Size, Sound
<1> HIDE DEF n
<1>6. CASE q.ends # "ok"
  <2>1. o = q
    BY <1>3, <1>6
  <2>2. size > Half => pos + n > Half
    BY <1>1, <1>2, <1>5
  <2> QED BY <1>4, <1>6, <2>1, <2>2 DEF n
<1> DEFINE c == q.buf
<1>7. ASSUME q.ends = "ok"
      PROVE  /\ c \in [kind : Kinds, bytes : Seq(Bytes), m_maxlen : 0 .. Half, m_deflen : Nat]
             /\ Len(c.bytes) \in Nat /\ c.m_deflen \in Nat
             /\ c.m_deflen <= Len(c.bytes) /\ Len(c.bytes) <= Half /\ Half < SizeMod
             /\ c.m_deflen = File!Larger(b.m_deflen, size) /\ size <= c.m_deflen
  <2>1. Wrote(b, size, <<>>, c)
    BY <1>4, <1>7
  <2> QED BY <2>1, <1>5, Sizes DEF Wrote, Sound, File!Larger
<1>8. CASE q.ends = "ok" /\ ~Allocated(c, pos, n)
  <2>1. o = [q EXCEPT !.ends = "wild"] /\ q = Outcome(c, pos, "ok")
    BY <1>3, <1>4, <1>8
  <2>2. o = Outcome(c, pos, "wild")
    BY <2>1 DEF Outcome
  <2>3. pos + n > Len(c.bytes)
    BY <1>1, <1>7, <1>8 DEF Allocated
  <2>4. pos + n >= SizeMod
    <3>1. Len(c.bytes) \in Nat /\ c.m_deflen \in Nat /\ size <= c.m_deflen /\ c.m_deflen <= Len(c.bytes)
      BY <1>7, <1>8
    <3> HIDE DEF c
    <3>2. size # pos + n
      BY <1>1, <1>5, <2>3, <3>1
    <3> QED BY <1>1, <1>2, <3>2, Sizes
  <2> QED BY <2>2, <2>4 DEF Outcome, n
<1>9. CASE q.ends = "ok" /\ Allocated(c, pos, n)
  <2>1. Wrote(b, size, <<>>, c) /\ (Full(b) => Full(c))
    BY <1>4, <1>9
  <2>2. pos + n < SizeMod /\ size = pos + n
    <3>1. Len(c.bytes) \in Nat /\ Len(c.bytes) <= Half /\ Half < SizeMod
      BY <1>7, <1>9
    <3>2. n = 0 \/ pos + n <= Len(c.bytes)
      BY <1>9 DEF Allocated
    <3> HIDE DEF c
    <3>3. pos + n < SizeMod
      BY <1>1, <1>5, <3>1, <3>2, Sizes
    <3> QED BY <1>2, <3>3
  <2> DEFINE bytes == Copied(c, pos, item)
             d == [c EXCEPT !.bytes = bytes]
  <2>3. o = Outcome(d, size, "ok")
    BY <1>3, <1>9
  <2>4. /\ bytes \in Seq(Bytes) /\ Len(bytes) = Len(c.bytes)
        /\ \A i \in 1 .. Len(c.bytes) :
              bytes[i] = IF i \in pos + 1 .. pos + n THEN item[i - pos] ELSE c.bytes[i]
    <3>1. \A i \in 1 .. Len(c.bytes) :
            (IF i \in pos + 1 .. pos + n THEN item[i - pos] ELSE c.bytes[i]) \in Bytes
      BY <1>1, <1>7, <1>9
    <3>2. bytes = [i \in 1 .. Len(c.bytes) |->
                     IF i \in pos + 1 .. pos + n THEN item[i - pos] ELSE c.bytes[i]]
      BY DEF Copied, n
    <3> QED BY <1>7, <1>9, <3>1, <3>2
  <2> HIDE DEF bytes
  <2>5. d \in [kind : Kinds, bytes : Seq(Bytes), m_maxlen : 0 .. Half, m_deflen : Nat]
        /\ d.kind = c.kind /\ d.bytes = bytes /\ d.m_maxlen = c.m_maxlen /\ d.m_deflen = c.m_deflen
    BY <1>7, <1>9, <2>4
  <2> HIDE DEF d
  <2>6. Sound(d) /\ d.kind = b.kind /\ Len(b.bytes) <= Len(d.bytes)
    BY <2>1, <2>4, <2>5 DEF Sound, Wrote
  <2>7. \A i \in 1 .. n : d.bytes[pos + i] = item[i]
    <3> SUFFICES ASSUME NEW i \in 1 .. n PROVE d.bytes[pos + i] = item[i]
      OBVIOUS
    <3>1. pos + i \in 1 .. Len(c.bytes) /\ pos + i \in pos + 1 .. pos + n /\ (pos + i) - pos = i
      <4>1. pos \in Nat /\ n \in Nat /\ Len(c.bytes) \in Nat
        BY <1>1, <1>7, <1>9
      <4>2. pos + n <= Len(c.bytes)
        BY <1>1, <1>5, <1>7, <1>9, <2>2
      <4> QED BY <4>1, <4>2
    <3> QED BY <2>4, <2>5, <3>1
  <2>8. \A i \in 1 .. b.m_deflen : i \notin pos + 1 .. pos + n => d.bytes[i] = b.bytes[i]
    <3> SUFFICES ASSUME NEW i \in 1 .. b.m_deflen, i \notin pos + 1 .. pos + n
                 PROVE  d.bytes[i] = b.bytes[i]
      OBVIOUS
    <3>1. i \in 1 .. Len(c.bytes)
      BY <1>5, <1>7, <1>9 DEF File!Larger
    <3>2. c.bytes[i] = b.bytes[i]
      <4>1. Len(<<>>) = 0 /\ i \notin size + 1 .. size + 0
        BY <1>5
      <4> QED BY <2>1, <4>1 DEF Wrote
    <3> QED BY <2>4, <2>5, <3>1, <3>2
  <2>9. Wrote(b, pos, item, d)
    BY <1>7, <1>9, <2>2, <2>5, <2>6, <2>7, <2>8 DEF Wrote, n
  <2>10. Full(b) => Full(d)
    <3>1. NoMemory(c) => NoMemory(d)
      BY <1>7, <1>9, <2>4, <2>5 DEF NoMemory
    <3> QED BY <2>1, <2>4, <2>5, <3>1 DEF Full
  <2> QED BY <1>4, <1>9, <2>2, <2>3, <2>5, <2>9, <2>10 DEF Outcome, n
<1> QED BY <1>6, <1>8, <1>9

-----------------------------------------------------------------------------
(* Several writes in a row *)

\* o is an outcome of writing item at pos, perhaps in parts: all of it, or
\* the first parts and then a throw, or the end of the program, where the end
\* is out of bounds or the buffer lacks memory.
Part(b, pos, item, o) ==
  \/ o.pos = pos /\ Alike(b, o.buf)
  \/ \E k \in 1 .. Len(item) : o.pos = pos + k /\ Wrote(b, pos, SubSeq(item, 1, k), o.buf)

PutWell(b, pos, item, o) ==
  \/ /\ o.ends = "ok" /\ Wrote(b, pos, item, o.buf) /\ o.pos = pos + Len(item)
     /\ Full(b) => Full(o.buf)
  \/ o.ends = "throw" /\ Part(b, pos, item, o) /\ (Full(b) => Full(o.buf))
  \/ o.ends = "bad_alloc" /\ Part(b, pos, item, o)
  \/ o.ends = "hung" /\ pos + Len(item) > Half
  \/ o.ends = "wild" /\ (pos + Len(item) >= SizeMod \/ ~Full(b) \/ NoMemory(b))

LEMMA OnePut ==
  ASSUME NEW b, Sound(b), NEW pos \in Size, NEW item \in Seq(Bytes), NEW o \in Put(b, pos, item)
  PROVE  PutWell(b, pos, item, o)
  BY PutOutcome, AlikeSelf DEF PutWell, Part

\* What has been written ends inside of the buffer.
LEMMA WroteEnd ==
  ASSUME NEW b, Sound(b), NEW pos \in Nat, NEW item \in Seq(Bytes), NEW c, Wrote(b, pos, item, c)
  PROVE  /\ Sound(c) /\ c.m_deflen \in Nat /\ b.m_deflen \in Nat /\ Len(item) \in Nat
         /\ b.m_deflen <= c.m_deflen /\ pos + Len(item) <= c.m_deflen
         /\ c.m_deflen <= Len(c.bytes) /\ Len(c.bytes) \in Nat /\ Len(c.bytes) <= Half
         /\ pos + Len(item) \in Size
         /\ NoMemory(c) => NoMemory(b)
<1>1. /\ Sound(c) /\ c.m_deflen \in Nat /\ b.m_deflen \in Nat /\ Len(item) \in Nat
      /\ c.m_deflen <= Len(c.bytes) /\ Len(c.bytes) \in Nat
      /\ c.m_maxlen \in 0 .. Half /\ Len(c.bytes) <= c.m_maxlen
      /\ c.m_deflen = File!Larger(b.m_deflen, pos + Len(item))
  BY DEF Wrote, Sound
<1>2. b.m_deflen <= c.m_deflen /\ pos + Len(item) <= c.m_deflen
  BY <1>1 DEF File!Larger
<1>3. pos + Len(item) \in Size /\ Len(c.bytes) <= Half
  BY <1>1, <1>2, Sizes DEF Size
<1>4. NoMemory(c) => NoMemory(b)
  <2> SUFFICES ASSUME NoMemory(c) PROVE NoMemory(b)
    OBVIOUS
  <2>1. Len(c.bytes) = 0 /\ b.kind = "dynamic" /\ Len(b.bytes) <= Len(c.bytes)
    BY DEF NoMemory, Wrote
  <2>2. b.bytes \in Seq(Bytes)
    BY DEF Sound
  <2>3. Len(b.bytes) = 0
    BY <2>1, <2>2
  <2> QED BY <2>1, <2>2, <2>3 DEF NoMemory
<1> QED BY <1>1, <1>2, <1>3, <1>4

LEMMA WroteTwice ==
  ASSUME NEW b, Sound(b), NEW pos \in Nat, NEW item \in Seq(Bytes), NEW next \in Seq(Bytes),
         NEW c, Wrote(b, pos, item, c), NEW d, Wrote(c, pos + Len(item), next, d)
  PROVE  Wrote(b, pos, item \o next, d)
<1> DEFINE all == item \o next
           m == Len(item)
           n == Len(next)
<1>1. /\ all \in Seq(Bytes) /\ Len(all) = m + n /\ m \in Nat /\ n \in Nat
      /\ \A i \in 1 .. m : all[i] = item[i]
      /\ \A i \in m + 1 .. m + n : all[i] = next[i - m]
  OBVIOUS
<1>2. /\ Sound(c) /\ c.m_deflen \in Nat /\ b.m_deflen \in Nat
      /\ b.m_deflen <= c.m_deflen /\ pos + m <= c.m_deflen
  BY WroteEnd
<1>3. Len(b.bytes) \in Nat /\ Len(c.bytes) \in Nat /\ Len(d.bytes) \in Nat
  BY DEF Wrote, Sound
<1> HIDE DEF all, m, n
<1>4. d.m_deflen = File!Larger(b.m_deflen, pos + Len(all))
  <2>1. c.m_deflen = File!Larger(b.m_deflen, pos + m)
    BY DEF Wrote, m
  <2>2. d.m_deflen = File!Larger(c.m_deflen, pos + m + n)
    BY DEF Wrote, m, n
  <2> QED BY <1>1, <1>2, <2>1, <2>2 DEF File!Larger
<1>5. \A i \in 1 .. Len(all) : d.bytes[pos + i] = all[i]
  <2> SUFFICES ASSUME NEW i \in 1 .. Len(all)
               PROVE  d.bytes[pos + i] = all[i]
    OBVIOUS
  <2>1. CASE i <= m
    <3>1. i \in 1 .. m /\ pos + i \in 1 .. c.m_deflen /\ pos + i \notin pos + m + 1 .. pos + m + n
      BY <1>1, <1>2, <2>1
    <3>2. c.bytes[pos + i] = item[i]
      BY <3>1 DEF Wrote, m
    <3>3. d.bytes[pos + i] = c.bytes[pos + i]
      BY <3>1 DEF Wrote, m, n
    <3> QED BY <1>1, <3>1, <3>2, <3>3
  <2>2. CASE i > m
    <3>1. i \in m + 1 .. m + n /\ i - m \in 1 .. n /\ pos + i = (pos + m) + (i - m)
      BY <1>1, <2>2
    <3>2. \A j \in 1 .. n : d.bytes[(pos + m) + j] = next[j]
      BY DEF Wrote, m, n
    <3> QED BY <1>1, <3>1, <3>2
  <2> QED BY <1>1, <2>1, <2>2
<1>6. \A i \in 1 .. b.m_deflen : i \notin pos + 1 .. pos + Len(all) => d.bytes[i] = b.bytes[i]
  <2> SUFFICES ASSUME NEW i \in 1 .. b.m_deflen, i \notin pos + 1 .. pos + Len(all)
               PROVE  d.bytes[i] = b.bytes[i]
    OBVIOUS
  <2>1. i \in 1 .. c.m_deflen /\ i \notin pos + 1 .. pos + m /\ i \notin (pos + m) + 1 .. (pos + m) + n
    BY <1>1, <1>2
  <2>2. c.bytes[i] = b.bytes[i]
    BY <2>1 DEF Wrote, m
  <2>3. d.bytes[i] = c.bytes[i]
    BY <2>1 DEF Wrote, m, n
  <2> QED BY <2>2, <2>3
<1>7. Sound(d) /\ d.kind = b.kind /\ Len(b.bytes) <= Len(d.bytes)
  BY <1>3 DEF Wrote
<1> QED BY <1>4, <1>5, <1>6, <1>7 DEF Wrote, all

LEMMA FirstPart ==
  ASSUME NEW item \in Seq(Bytes), NEW next \in Seq(Bytes), NEW k \in 1 .. Len(item)
  PROVE  SubSeq(item \o next, 1, k) = SubSeq(item, 1, k)
<1> DEFINE all == item \o next
           x == SubSeq(all, 1, k)
           y == SubSeq(item, 1, k)
<1>1. /\ all \in Seq(Bytes) /\ Len(all) = Len(item) + Len(next)
      /\ \A i \in 1 .. Len(item) : all[i] = item[i]
  OBVIOUS
<1> HIDE DEF all
<1>2. x \in Seq(Bytes) /\ Len(x) = k /\ \A i \in 1 .. k : x[i] = all[i]
  BY <1>1
<1>3. y \in Seq(Bytes) /\ Len(y) = k /\ \A i \in 1 .. k : y[i] = item[i]
  OBVIOUS
<1> HIDE DEF x, y
<1>4. \A i \in 1 .. k : x[i] = y[i]
  <2> SUFFICES ASSUME NEW i \in 1 .. k PROVE x[i] = y[i]
    OBVIOUS
  <2>1. i \in 1 .. Len(item)
    OBVIOUS
  <2> QED BY <1>1, <1>2, <1>3, <2>1
<1>5. x = y
  BY <1>2, <1>3, <1>4
<1> QED BY <1>5 DEF x, y, all

LEMMA WholePart ==
  ASSUME NEW item \in Seq(Bytes)
  PROVE  SubSeq(item, 1, Len(item)) = item
  OBVIOUS

\* The next of several writes.
LEMMA PutMore ==
  ASSUME NEW b, Sound(b), NEW pos \in Size, NEW item \in Seq(Bytes), Len(item) > 0,
         NEW next \in Seq(Bytes), NEW outcomes, \A q \in outcomes : PutWell(b, pos, item, q),
         NEW o \in Then(outcomes, next)
  PROVE  PutWell(b, pos, item \o next, o)
<1> DEFINE all == item \o next
           m == Len(item)
           n == Len(next)
<1>1. /\ all \in Seq(Bytes) /\ Len(all) = m + n /\ m \in Nat /\ n \in Nat /\ m > 0
      /\ pos \in Nat /\ SizeMod \in Nat /\ Half \in Nat
  BY Sizes DEF Size
<1>2. PICK q \in outcomes : o \in IF q.ends = "ok" THEN Put(q.buf, q.pos, next) ELSE {q}
  BY DEF Then
<1>3. PutWell(b, pos, item, q)
  OBVIOUS
<1>4. \A k \in 1 .. m : SubSeq(all, 1, k) = SubSeq(item, 1, k)
  BY FirstPart
<1>5. SubSeq(all, 1, m) = item
  BY <1>1, <1>4, WholePart
<1> SUFFICES PutWell(b, pos, all, o)
  OBVIOUS
<1> HIDE DEF all, m, n
<1>6. ASSUME Part(b, pos, item, q)
      PROVE  Part(b, pos, all, q)
  <2>1. CASE q.pos = pos /\ Alike(b, q.buf)
    BY <2>1 DEF Part
  <2>2. CASE \E k \in 1 .. m : q.pos = pos + k /\ Wrote(b, pos, SubSeq(item, 1, k), q.buf)
    <3>1. PICK k \in 1 .. m : q.pos = pos + k /\ Wrote(b, pos, SubSeq(item, 1, k), q.buf)
      BY <2>2
    <3>2. k \in 1 .. Len(all)
      BY <1>1, <3>1
    <3>3. SubSeq(all, 1, k) = SubSeq(item, 1, k)
      BY <1>4
    <3> QED BY <3>1, <3>2, <3>3 DEF Part
  <2> QED BY <1>6, <2>1, <2>2 DEF Part, m
<1>7. CASE q.ends # "ok"
  <2>1. o = q
    BY <1>2, <1>7
  <2>2. pos + m > Half => pos + Len(all) > Half
    BY <1>1
  <2>3. pos + m >= SizeMod => pos + Len(all) >= SizeMod
    BY <1>1
  <2> QED BY <1>3, <1>6, <1>7, <2>1, <2>2, <2>3 DEF PutWell, m
<1>8. CASE q.ends = "ok"
  <2> DEFINE c == q.buf
  <2>1. /\ Wrote(b, pos, item, c) /\ q.pos = pos + m
        /\ Full(b) => Full(c)
    BY <1>3, <1>8 DEF PutWell, m
  <2>2. Sound(c) /\ pos + m \in Size /\ pos + m \in Nat /\ (NoMemory(c) => NoMemory(b))
    BY <1>1, <2>1, WroteEnd DEF m
  <2>3. o \in Put(c, pos + m, next)
    BY <1>2, <1>8, <2>1
  <2> HIDE DEF c
  <2>4. \/ o.ends = "throw" /\ o.buf = c /\ o.pos = pos + m
        \/ o.ends = "hung" /\ pos + m + n > Half
        \/ o.ends = "bad_alloc" /\ Alike(c, o.buf) /\ o.pos = pos + m
        \/ o.ends = "wild" /\ (pos + m + n >= SizeMod \/ ~Full(c) \/ NoMemory(c))
        \/ /\ o.ends = "ok" /\ Wrote(c, pos + m, next, o.buf) /\ o.pos = pos + m + n
           /\ Full(c) => Full(o.buf)
    BY <2>2, <2>3, PutOutcome DEF n
  <2>5. ASSUME Alike(c, o.buf), o.pos = pos + m
        PROVE  Part(b, pos, all, o)
    <3>1. Wrote(b, pos, item, o.buf)
      BY <1>1, <2>1, <2>5, WroteAlike
    <3>2. m \in 1 .. Len(all)
      BY <1>1
    <3> QED BY <1>5, <2>5, <3>1, <3>2 DEF Part
  <2>6. CASE o.ends = "throw" /\ o.buf = c /\ o.pos = pos + m
    BY <2>1, <2>2, <2>5, <2>6, AlikeSelf DEF PutWell
  <2>7. CASE o.ends = "hung" /\ pos + m + n > Half
    BY <1>1, <2>7 DEF PutWell
  <2>8. CASE o.ends = "bad_alloc" /\ Alike(c, o.buf) /\ o.pos = pos + m
    BY <2>5, <2>8 DEF PutWell
  <2>9. CASE o.ends = "wild" /\ (pos + m + n >= SizeMod \/ ~Full(c) \/ NoMemory(c))
    BY <1>1, <2>1, <2>2, <2>9 DEF PutWell
  <2>10. CASE /\ o.ends = "ok" /\ Wrote(c, pos + m, next, o.buf) /\ o.pos = pos + m + n
              /\ Full(c) => Full(o.buf)
    <3>1. Wrote(b, pos, all, o.buf)
      BY <1>1, <2>1, <2>10, WroteTwice DEF all, m
    <3> QED BY <1>1, <2>1, <2>10, <3>1 DEF PutWell
  <2> QED BY <2>4, <2>6, <2>7, <2>8, <2>9, <2>10
<1> QED BY <1>7, <1>8

\* os << other and os << str.
LEMMA BufferWell ==
  ASSUME Sound(buf), opos \in Size, NEW item \in Seq(Bytes), Len(item) \in Bytes,
         NEW o \in BufferPut(item)
  PROVE  PutWell(buf, opos, <<Len(item)>> \o item, o)
<1> DEFINE len == <<Len(item)>>
           first == Then({Outcome(buf, opos, "ok")}, len)
<1>1. len \in Seq(Bytes) /\ Len(len) > 0
  OBVIOUS
<1>2. o \in Then(first, item)
  BY DEF BufferPut
<1>3. \A q \in first : q \in Put(buf, opos, len)
  BY DEF Then, Outcome
<1> HIDE DEF first, len
<1>4. \A q \in first : PutWell(buf, opos, len, q)
  BY <1>1, <1>3, OnePut
<1> QED BY <1>1, <1>2, <1>4, PutMore DEF len

LEMMA StringWell ==
  ASSUME Sound(buf), opos \in Size, NEW s \in Seq(Bytes), Len(s) \in Bytes,
         NEW o \in StringPut(s)
  PROVE  PutWell(buf, opos, File!Encoded(s), o)
<1> DEFINE front == <<Len(s)>> \o s
           first == BufferPut(s)
<1>1. front \in Seq(Bytes) /\ Len(front) > 0 /\ <<0>> \in Seq(Bytes)
  BY Sizes
<1>2. o \in Then(first, <<0>>)
  BY DEF StringPut, BufferPut
<1>3. \A q \in first : PutWell(buf, opos, front, q)
  BY BufferWell
<1> HIDE DEF front, first
<1>4. PutWell(buf, opos, front \o <<0>>, o)
  BY <1>1, <1>2, <1>3, PutMore
<1> QED BY <1>4 DEF front, File!Encoded

\* What the recursive function that writes the elements of a vector is.
LEMMA OneByOneDef ==
  ASSUME NEW all \in Seq(Bytes)
  PROVE  OneByOne(all) =
           [k \in 0 .. Len(all) |->
              IF k = 0 THEN {Outcome(buf, opos, "ok")} ELSE Then(OneByOne(all)[k - 1], <<all[k]>>)]
<1> DEFINE start == {Outcome(buf, opos, "ok")}
           Undefined == {n \in Nat : ~\E f : f = [k \in 0 .. n |->
                            IF k = 0 THEN start ELSE Then(f[k - 1], <<all[k]>>)]}
<1> HIDE DEF start
<1>1. Undefined = {}
  <2> SUFFICES ASSUME Undefined # {} PROVE FALSE
    OBVIOUS
  <2>1. PICK n \in Undefined : \A m \in Undefined : n <= m
    <3>1. Undefined \subseteq Nat
      OBVIOUS
    <3> HIDE DEF Undefined
    <3> QED BY <3>1, LeastNatural
  <2>2. n \in Nat /\ ~\E f : f = [k \in 0 .. n |->
                            IF k = 0 THEN start ELSE Then(f[k - 1], <<all[k]>>)]
    OBVIOUS
  <2>3. CASE n = 0
    <3> DEFINE f == [k \in 0 .. 0 |-> start]
    <3>1. f = [k \in 0 .. 0 |-> IF k = 0 THEN start ELSE Then(f[k - 1], <<all[k]>>)]
      OBVIOUS
    <3> QED BY <2>2, <2>3, <3>1
  <2>4. CASE n > 0
    <3>1. n - 1 \in Nat /\ n - 1 \notin Undefined
      <4>1. n - 1 \in Nat /\ ~(n <= n - 1)
        BY <2>2, <2>4
      <4> QED BY <2>1, <4>1
    <3>2. PICK f : f = [k \in 0 .. n - 1 |->
                          IF k = 0 THEN start ELSE Then(f[k - 1], <<all[k]>>)]
      BY <3>1
    <3> DEFINE g == [k \in 0 .. n |-> IF k < n THEN f[k] ELSE Then(f[n - 1], <<all[n]>>)]
    <3>3. \A k \in 0 .. n : g[k] = IF k = 0 THEN start ELSE Then(g[k - 1], <<all[k]>>)
      <4> SUFFICES ASSUME NEW k \in 0 .. n
                   PROVE  g[k] = IF k = 0 THEN start ELSE Then(g[k - 1], <<all[k]>>)
        OBVIOUS
      <4>1. CASE k = 0
        <5>1. g[0] = f[0] /\ 0 \in 0 .. n - 1
          BY <2>2, <2>4
        <5>2. f[0] = start
          BY <3>2, <5>1
        <5> QED BY <4>1, <5>1, <5>2
      <4>2. CASE k > 0 /\ k < n
        <5>1. k \in 0 .. n - 1 /\ k - 1 \in 0 .. n /\ k - 1 < n /\ k # 0
          BY <2>2, <4>2
        <5>2. g[k] = f[k] /\ g[k - 1] = f[k - 1]
          BY <4>2, <5>1
        <5>3. f[k] = Then(f[k - 1], <<all[k]>>)
          BY <3>2, <5>1
        <5> QED BY <5>1, <5>2, <5>3
      <4>3. CASE k = n
        <5>1. n \in 0 .. n /\ n - 1 \in 0 .. n /\ n - 1 < n /\ n # 0
          BY <2>2, <2>4
        <5>2. g[n] = Then(f[n - 1], <<all[n]>>) /\ g[n - 1] = f[n - 1]
          BY <5>1
        <5> QED BY <4>3, <5>1, <5>2
      <4> QED BY <2>2, <4>1, <4>2, <4>3
    <3>4. g = [k \in 0 .. n |-> g[k]]
      OBVIOUS
    <3> HIDE DEF g
    <3>5. g = [k \in 0 .. n |-> IF k = 0 THEN start ELSE Then(g[k - 1], <<all[k]>>)]
      BY <3>3, <3>4
    <3> QED BY <2>2, <3>5
  <2> QED BY <2>2, <2>3, <2>4
<1>2. Len(all) \in Nat
  OBVIOUS
<1>3. \E f : f = [k \in 0 .. Len(all) |-> IF k = 0 THEN start ELSE Then(f[k - 1], <<all[k]>>)]
  BY <1>1, <1>2
<1> QED BY <1>3 DEF OneByOne, start

\* os << vec.
LEMMA VectorWell ==
  ASSUME Sound(buf), opos \in Size, NEW vec \in Seq(Bytes), Len(vec) \in Bytes,
         NEW o \in VectorPut(vec)
  PROVE  PutWell(buf, opos, <<Len(vec)>> \o vec, o)
<1> DEFINE all == <<Len(vec)>> \o vec
           start == {Outcome(buf, opos, "ok")}
           after == OneByOne(all)
           Ill == {k \in 1 .. Len(all) : ~\A q \in after[k] : PutWell(buf, opos, SubSeq(all, 1, k), q)}
<1>1. all \in Seq(Bytes) /\ Len(all) = Len(vec) + 1 /\ Len(all) \in Nat /\ Len(all) > 0
  OBVIOUS
<1>2. o \in after[Len(all)]
  BY <1>1 DEF VectorPut
<1> SUFFICES PutWell(buf, opos, all, o)
  OBVIOUS
<1> HIDE DEF all
<1>3. after = [k \in 0 .. Len(all) |-> IF k = 0 THEN start ELSE Then(after[k - 1], <<all[k]>>)]
  BY <1>1, OneByOneDef
<1> HIDE DEF after, start
<1>4. after[0] = start
  BY <1>1, <1>3
<1>5. ASSUME NEW k \in 1 .. Len(all)
      PROVE  /\ after[k] = Then(after[k - 1], <<all[k]>>)
             /\ <<all[k]>> \in Seq(Bytes)
  <2>1. k \in 0 .. Len(all) /\ k # 0
    BY <1>1
  <2>2. after[k] = Then(after[k - 1], <<all[k]>>)
    BY <1>3, <2>1
  <2> QED BY <1>1, <2>2
<1>6. Ill = {}
  <2> SUFFICES ASSUME Ill # {} PROVE FALSE
    OBVIOUS
  <2>1. PICK k \in Ill : \A j \in Ill : k <= j
    <3>1. Ill \subseteq Nat
      BY <1>1
    <3> HIDE DEF Ill
    <3> QED BY <3>1, LeastNatural
  <2>2. k \in 1 .. Len(all) /\ k \in Nat
    BY <1>1
  <2>3. PICK q \in after[k] : ~PutWell(buf, opos, SubSeq(all, 1, k), q)
    OBVIOUS
  <2>4. q \in Then(after[k - 1], <<all[k]>>) /\ <<all[k]>> \in Seq(Bytes)
    BY <1>5, <2>2
  <2>5. CASE k = 1
    <3>1. q \in Then(start, <<all[1]>>)
      BY <1>4, <2>4, <2>5
    <3>2. q \in Put(buf, opos, <<all[1]>>)
      BY <3>1 DEF Then, start, Outcome
    <3>3. SubSeq(all, 1, 1) = <<all[1]>>
      <4> DEFINE x == SubSeq(all, 1, 1)
      <4>1. x \in Seq(Bytes) /\ Len(x) = 1 /\ x[1] = all[1]
        BY <1>1
      <4> HIDE DEF x
      <4>2. x = <<x[1]>>
        BY <4>1
      <4> QED BY <4>1, <4>2 DEF x
    <3> QED BY <2>3, <2>4, <2>5, <3>2, <3>3, OnePut
  <2>6. CASE k > 1
    <3> DEFINE front == SubSeq(all, 1, k - 1)
    <3>1. k - 1 \in 1 .. Len(all) /\ k - 1 \notin Ill
      <4>1. k - 1 \in 1 .. Len(all) /\ ~(k <= k - 1)
        BY <1>1, <2>2, <2>6
      <4> QED BY <2>1, <4>1
    <3>2. \A p \in after[k - 1] : PutWell(buf, opos, front, p)
      BY <3>1
    <3>3. front \in Seq(Bytes) /\ Len(front) = k - 1 /\ Len(front) > 0
      BY <1>1, <2>2, <2>6
    <3>4. SubSeq(all, 1, k) = front \o <<all[k]>>
      BY <1>1, <2>2, <2>6
    <3> HIDE DEF front
    <3>5. PutWell(buf, opos, front \o <<all[k]>>, q)
      BY <2>4, <3>2, <3>3, PutMore
    <3> QED BY <2>3, <3>4, <3>5
  <2> QED BY <2>2, <2>5, <2>6
<1>7. Len(all) \in 1 .. Len(all) /\ SubSeq(all, 1, Len(all)) = all
  BY <1>1
<1>8. \A q \in after[Len(all)] : PutWell(buf, opos, SubSeq(all, 1, Len(all)), q)
  BY <1>6, <1>7
<1> QED BY <1>2, <1>7, <1>8

-----------------------------------------------------------------------------
(* The file that a buffer is *)

FileOf(b) == SubSeq(b.bytes, 1, b.m_deflen)

LEMMA FileBytes ==
  ASSUME NEW b, Sound(b)
  PROVE  /\ FileOf(b) \in Seq(Bytes) /\ Len(FileOf(b)) = b.m_deflen /\ b.m_deflen \in Nat
         /\ \A i \in 1 .. b.m_deflen : FileOf(b)[i] = b.bytes[i]
<1>1. b.bytes \in Seq(Bytes) /\ b.m_deflen \in Nat /\ b.m_deflen <= Len(b.bytes)
  BY DEF Sound
<1> QED BY <1>1 DEF FileOf

LEMMA AlikeFile ==
  ASSUME NEW b, Sound(b), NEW c, Alike(b, c)
  PROVE  FileOf(c) = FileOf(b)
<1> DEFINE f == FileOf(b)
           g == FileOf(c)
<1>1. f \in Seq(Bytes) /\ Len(f) = b.m_deflen /\ \A i \in 1 .. b.m_deflen : f[i] = b.bytes[i]
  BY FileBytes
<1>2. g \in Seq(Bytes) /\ Len(g) = b.m_deflen /\ \A i \in 1 .. b.m_deflen : g[i] = b.bytes[i]
  BY FileBytes DEF Alike
<1> HIDE DEF f, g
<1>3. \A i \in 1 .. Len(f) : g[i] = f[i]
  BY <1>1, <1>2
<1>4. g = f
  BY <1>1, <1>2, <1>3
<1> QED BY <1>4 DEF f, g

LEMMA WroteFile ==
  ASSUME NEW b, Sound(b), NEW pos \in Nat, NEW item \in Seq(Bytes), NEW c, Wrote(b, pos, item, c)
  PROVE  /\ Len(FileOf(c)) = File!Larger(Len(FileOf(b)), pos + Len(item))
         /\ \A i \in 1 .. Len(item) : FileOf(c)[pos + i] = item[i]
         /\ \A i \in 1 .. Len(FileOf(b)) : i \notin pos + 1 .. pos + Len(item) => FileOf(c)[i] = FileOf(b)[i]
<1> DEFINE f == FileOf(b)
           g == FileOf(c)
           n == Len(item)
<1>1. Len(f) = b.m_deflen /\ \A i \in 1 .. b.m_deflen : f[i] = b.bytes[i]
  BY FileBytes
<1>2. Len(g) = c.m_deflen /\ \A i \in 1 .. c.m_deflen : g[i] = c.bytes[i]
  BY FileBytes DEF Wrote
<1>3. /\ c.m_deflen \in Nat /\ b.m_deflen \in Nat /\ n \in Nat
      /\ b.m_deflen <= c.m_deflen /\ pos + n <= c.m_deflen
  BY WroteEnd
<1>4. /\ c.m_deflen = File!Larger(b.m_deflen, pos + n)
      /\ \A i \in 1 .. n : c.bytes[pos + i] = item[i]
      /\ \A i \in 1 .. b.m_deflen : i \notin pos + 1 .. pos + n => c.bytes[i] = b.bytes[i]
  BY DEF Wrote
<1> HIDE DEF f, g, n
<1>5. \A i \in 1 .. n : g[pos + i] = item[i]
  <2> SUFFICES ASSUME NEW i \in 1 .. n PROVE g[pos + i] = item[i]
    OBVIOUS
  <2>1. pos + i \in 1 .. c.m_deflen
    BY <1>3
  <2> QED BY <1>2, <1>4, <2>1
<1>6. \A i \in 1 .. b.m_deflen : i \notin pos + 1 .. pos + n => g[i] = f[i]
  <2> SUFFICES ASSUME NEW i \in 1 .. b.m_deflen, i \notin pos + 1 .. pos + n PROVE g[i] = f[i]
    OBVIOUS
  <2>1. i \in 1 .. c.m_deflen
    BY <1>3
  <2> QED BY <1>1, <1>2, <1>4, <2>1
<1> QED BY <1>1, <1>2, <1>4, <1>5, <1>6 DEF f, g, n

-----------------------------------------------------------------------------
(* The steps of the writer *)

\* What makes a state one of the invariant.
LEMMA InvHolds ==
  ASSUME Sound(buf'), alloc_failed' \/ Full(buf'), opos' \in Size, ipos' \in Size,
         got' \in Seq(Bytes), fate' \in {"running", "wild", "hung"}, alloc_failed' \in BOOLEAN
  PROVE  IInv'
<1>1. /\ buf' \in [kind : Kinds, bytes : Seq(Bytes), m_maxlen : 0 .. Half, m_deflen : Nat]
      /\ buf'.m_deflen <= Len(buf'.bytes) /\ Len(buf'.bytes) <= buf'.m_maxlen
  BY DEF Sound
<1>2. buf'.m_maxlen \in 0 .. SizeMod - 1 /\ buf'.m_deflen \in 0 .. Len(buf'.bytes)
  BY <1>1, Sizes
<1>3. alloc_failed' \/ buf'.bytes = <<>> \/ buf'.m_maxlen = Len(buf'.bytes)
  BY DEF Full, NoMemory
<1>4. TypeOK'
  BY <1>1, <1>2, <1>3 DEF TypeOK, Size
<1> QED BY <1>4 DEF IInv, Sound, Full, NoMemory

LEMMA InvGives ==
  ASSUME IInv
  PROVE  /\ Sound(buf) /\ (alloc_failed \/ Full(buf))
         /\ opos \in Size /\ ipos \in Size /\ opos \in Nat /\ ipos \in Nat
         /\ got \in Seq(Bytes) /\ fate \in {"running", "wild", "hung"} /\ alloc_failed \in BOOLEAN
  BY Sizes DEF IInv, TypeOK, Size

\* A writer that does not touch the reader, whose outcomes write item.
Writing(item, outcomes) ==
  /\ fate = "running"
  /\ Ended(outcomes)
  /\ got' = <<>>
  /\ UNCHANGED ipos

\* No outcome of which is torn.
Whole(outcomes) ==
  \A o \in outcomes : o.ends \in {"throw", "bad_alloc"} => o.pos = opos /\ Alike(buf, o.buf)

\* It keeps the invariant; what becomes of the file; and why it is the last.
LEMMA WriterStep ==
  ASSUME IInv, NEW item \in Seq(Bytes), NEW outcomes,
         \A o \in outcomes : PutWell(buf, opos, item, o), Writing(item, outcomes)
  PROVE  /\ IInv'
         /\ \/ File!Write(item)
            \/ \E k \in 1 .. Len(item) : File!Write(SubSeq(item, 1, k))
            \/ File!Fails
         /\ Whole(outcomes) => File!Write(item) \/ File!Fails
         /\ fate' = "wild" => opos + Len(item) >= SizeMod \/ alloc_failed \/ NoMemory(buf)
         /\ fate' = "hung" => opos + Len(item) > Half
<1>1. PICK o \in outcomes :
        /\ fate' = IF o.ends \in {"wild", "hung"} THEN o.ends ELSE fate
        /\ alloc_failed' = (alloc_failed \/ o.ends = "bad_alloc")
        /\ IF fate' = "running" THEN buf' = o.buf /\ opos' = o.pos ELSE UNCHANGED <<buf, opos>>
  BY DEF Writing, Ended
<1>2. PutWell(buf, opos, item, o) /\ fate = "running" /\ got' = <<>> /\ ipos' = ipos
  BY DEF Writing
<1>3. /\ Sound(buf) /\ (alloc_failed \/ Full(buf)) /\ opos \in Size /\ ipos \in Size
      /\ opos \in Nat /\ ipos \in Nat /\ alloc_failed \in BOOLEAN
  BY InvGives
<1>4. got' \in Seq(Bytes)
  BY <1>2
<1>5. ASSUME opos' = opos, FileOf(buf') = FileOf(buf)
      PROVE  File!Fails
  <2>1. Len(FileOf(buf)) \in Nat
    BY <1>3, FileBytes
  <2>2. ipos' >= ipos /\ ipos' <= File!Larger(ipos, Len(FileOf(buf)))
    BY <1>2, <1>3, <2>1 DEF File!Larger
  <2> QED BY <1>2, <1>5, <2>2 DEF File!Fails, FileOf
<1>6. CASE o.ends \in {"wild", "hung"}
  <2>1. fate' = o.ends /\ fate' # "running" /\ buf' = buf /\ opos' = opos /\ alloc_failed' = alloc_failed
    BY <1>1, <1>3, <1>6
  <2>2. IInv'
    BY <1>2, <1>3, <1>4, <1>6, <2>1, InvHolds
  <2>3. o.ends = "wild" => opos + Len(item) >= SizeMod \/ ~Full(buf) \/ NoMemory(buf)
    BY <1>2 DEF PutWell
  <2>4. o.ends = "hung" => opos + Len(item) > Half
    BY <1>2 DEF PutWell
  <2> QED BY <1>3, <1>5, <2>1, <2>2, <2>3, <2>4
<1>7. CASE o.ends \notin {"wild", "hung"}
  <2>1. fate' = "running" /\ buf' = o.buf /\ opos' = o.pos
    BY <1>1, <1>2, <1>7
  <2>2. ASSUME NEW part \in Seq(Bytes), Wrote(buf, opos, part, buf'), opos' = opos + Len(part)
        PROVE  Sound(buf') /\ opos' \in Size /\ File!Write(part)
    <3>1. Sound(buf') /\ opos' \in Size
      BY <1>3, <2>2, WroteEnd
    <3>2. /\ Len(FileOf(buf')) = File!Larger(Len(FileOf(buf)), opos + Len(part))
          /\ \A i \in 1 .. Len(part) : FileOf(buf')[opos + i] = part[i]
          /\ \A i \in 1 .. Len(FileOf(buf)) : i \notin opos + 1 .. opos + Len(part) =>
               FileOf(buf')[i] = FileOf(buf)[i]
      BY <1>3, <2>2, WroteFile
    <3>3. File!Overwritten(opos, part)
      BY <3>2 DEF File!Overwritten, FileOf
    <3> QED BY <1>2, <2>2, <3>1, <3>3 DEF File!Write
  <2>3. ASSUME Part(buf, opos, item, o)
        PROVE  /\ Sound(buf') /\ opos' \in Size
               /\ File!Fails \/ \E k \in 1 .. Len(item) : File!Write(SubSeq(item, 1, k))
    <3>1. CASE o.pos = opos /\ Alike(buf, o.buf)
      <4>1. FileOf(buf') = FileOf(buf) /\ Sound(buf')
        BY <1>3, <2>1, <3>1, AlikeFile DEF Alike
      <4> QED BY <1>3, <1>5, <2>1, <3>1, <4>1
    <3>2. CASE \E k \in 1 .. Len(item) : o.pos = opos + k /\ Wrote(buf, opos, SubSeq(item, 1, k), o.buf)
      <4>1. PICK k \in 1 .. Len(item) : o.pos = opos + k /\ Wrote(buf, opos, SubSeq(item, 1, k), o.buf)
        BY <3>2
      <4>2. SubSeq(item, 1, k) \in Seq(Bytes) /\ Len(SubSeq(item, 1, k)) = k
        OBVIOUS
      <4>3. Sound(buf') /\ opos' \in Size /\ File!Write(SubSeq(item, 1, k))
        BY <2>1, <2>2, <4>1, <4>2
      <4> QED BY <4>3
    <3> QED BY <2>3, <3>1, <3>2 DEF Part
  <2>4. ASSUME Whole(outcomes), o.ends \in {"throw", "bad_alloc"}
        PROVE  File!Fails
    <3>1. o.pos = opos /\ Alike(buf, o.buf)
      BY <2>4 DEF Whole
    <3> QED BY <1>3, <1>5, <2>1, <3>1, AlikeFile
  <2>5. CASE /\ o.ends = "ok" /\ Wrote(buf, opos, item, o.buf) /\ o.pos = opos + Len(item)
             /\ Full(buf) => Full(o.buf)
    <3>1. Sound(buf') /\ opos' \in Size /\ File!Write(item)
      BY <2>1, <2>2, <2>5
    <3>2. alloc_failed' = alloc_failed /\ (alloc_failed' \/ Full(buf'))
      BY <1>1, <1>3, <2>1, <2>5
    <3>3. IInv'
      BY <1>2, <1>3, <1>4, <2>1, <3>1, <3>2, InvHolds
    <3> QED BY <2>1, <3>1, <3>3
  <2>6. CASE o.ends = "throw" /\ Part(buf, opos, item, o) /\ (Full(buf) => Full(o.buf))
    <3>1. alloc_failed' = alloc_failed /\ (alloc_failed' \/ Full(buf'))
      BY <1>1, <1>3, <2>1, <2>6
    <3>2. IInv'
      BY <1>2, <1>3, <1>4, <2>1, <2>3, <2>6, <3>1, InvHolds
    <3> QED BY <2>1, <2>3, <2>4, <2>6, <3>2
  <2>7. CASE o.ends = "bad_alloc" /\ Part(buf, opos, item, o)
    <3>1. alloc_failed' = TRUE
      BY <1>1, <2>7
    <3>2. IInv'
      BY <1>2, <1>3, <1>4, <2>1, <2>3, <2>7, <3>1, InvHolds
    <3> QED BY <2>1, <2>3, <2>4, <2>7, <3>2
  <2> QED BY <1>2, <1>7, <2>5, <2>6, <2>7 DEF PutWell
<1> QED BY <1>6, <1>7

\* A step of the file.
FileStep == File!Next \/ UNCHANGED File!vars

\* What Survives says of a step.
SurvivesStep ==
  /\ fate' = "wild" =>
       \/ Reader /\ \E e \in ReadReach : e >= SizeMod
       \/ Writer /\ \/ \E e \in Reach : e >= SizeMod
                    \/ alloc_failed
                    \/ NoMemory(buf)
       \/ WriteFrom /\ buf.kind = "dynamic" /\ opos + Left > buf.m_maxlen
  /\ fate' = "hung" => Writer /\ \E e \in Reach : e > SizeMod \div 2

\* The step lemmas of all actions: the invariant, the file, and why it ends.
Good == IInv' /\ FileStep /\ SurvivesStep

LEMMA Values ==
  /\ \A item \in Items : item \in Seq(Bytes) /\ Len(item) \in Bytes /\ Len(item) \in Nat
  /\ \A s \in Strings : /\ s \in Seq(Bytes) /\ Len(s) \in Bytes /\ Len(s) \in Nat
                         /\ \A i \in 1 .. Len(s) : s[i] # 0
  /\ \A n \in Counts \cup Positions : n \in Size /\ n \in Nat
<1>1. Items \subseteq Seq(Bytes) /\ \A item \in Items : Len(item) \in Bytes
  BY StreamAssumption DEF StreamAssumption
<1>2. Strings \subseteq Seq(Bytes \ {0}) /\ \A s \in Strings : Len(s) \in Bytes
  BY StreamAssumption DEF StreamAssumption
<1>3. \A n \in Counts \cup Positions : n \in Size /\ n \in Nat
  BY Sizes, StreamAssumption DEF StreamAssumption, Size
<1>4. ASSUME NEW s \in Strings
      PROVE  s \in Seq(Bytes) /\ \A i \in 1 .. Len(s) : s[i] # 0
  <2>1. s \in Seq(Bytes \ {0})
    BY <1>2
  <2> QED BY <2>1
<1> QED BY <1>1, <1>2, <1>3, <1>4

\* The end of the longest write.
LEMMA Reaches ==
  /\ \A item \in Items : opos + Len(item) + 1 \in Reach
  /\ \A s \in Strings : opos + Len(s) + 2 \in Reach
  /\ \A n \in Counts : opos + n \in Reach
  /\ opos + Left \in Reach
  BY DEF Reach

LEMMA WriteStep ==
  ASSUME IInv, NEW item \in Items, Write(item)
  PROVE  Good
<1> DEFINE outs == Put(buf, opos, item)
<1>1. item \in Seq(Bytes) /\ Len(item) \in Nat
  BY Values
<1>2. Sound(buf) /\ opos \in Size /\ opos \in Nat /\ SizeMod \in Nat /\ Half \in Nat
  BY InvGives, Sizes
<1>3. \A o \in outs : PutWell(buf, opos, item, o)
  BY <1>1, <1>2, OnePut
<1>4. Whole(outs)
  BY <1>1, <1>2, PutOutcome, AlikeSelf DEF Whole
<1>5. Writing(item, outs)
  BY DEF Write, Writing
<1> HIDE DEF outs
<1>6. /\ IInv' /\ (File!Write(item) \/ File!Fails)
      /\ fate' = "wild" => opos + Len(item) >= SizeMod \/ alloc_failed \/ NoMemory(buf)
      /\ fate' = "hung" => opos + Len(item) > Half
  BY <1>1, <1>3, <1>4, <1>5, WriterStep
<1>7. FileStep
  BY <1>6 DEF FileStep, File!Next
<1>8. Writer
  BY DEF Writer
<1>9. SurvivesStep
  <2> DEFINE e == opos + Len(item) + 1
  <2>1. e \in Reach
    BY Reaches
  <2>2. opos + Len(item) >= SizeMod => e >= SizeMod
    BY <1>1, <1>2
  <2>3. opos + Len(item) > Half => e > Half
    BY <1>1, <1>2
  <2> HIDE DEF e
  <2> QED BY <1>6, <1>8, <2>1, <2>2, <2>3 DEF SurvivesStep, Half
<1> QED BY <1>6, <1>7, <1>9 DEF Good

\* What is written of a buffer, a vector or a string when not all of it is.
LEMMA TornPart ==
  ASSUME NEW item \in Seq(Bytes), NEW k \in 1 .. Len(<<Len(item)>> \o item)
  PROVE  SubSeq(<<Len(item)>> \o item, 1, k) \in File!Torn(item)
<1> DEFINE len == <<Len(item)>>
           all == len \o item
           x == SubSeq(all, 1, k)
           rest == SubSeq(item, 1, k - 1)
           y == len \o rest
<1>1. /\ Len(item) \in Nat /\ item \in Seq(Bytes) /\ len \in Seq(Nat) /\ Len(len) = 1 /\ len[1] = Len(item)
  OBVIOUS
<1>2. /\ Len(all) = Len(item) + 1 /\ all[1] = Len(item) /\ all \in Seq(Nat \cup Bytes)
      /\ \A i \in 2 .. Len(item) + 1 : all[i] = item[i - 1]
  BY <1>1
<1>3. k \in 1 .. Len(item) + 1 /\ k - 1 \in 0 .. Len(item)
  BY <1>1, <1>2
<1>4. rest \in Seq(Bytes) /\ Len(rest) = k - 1 /\ \A i \in 1 .. k - 1 : rest[i] = item[i]
  BY <1>1, <1>3
<1> HIDE DEF len, all, rest
<1>5. x \in Seq(Nat \cup Bytes) /\ Len(x) = k /\ \A i \in 1 .. k : x[i] = all[i]
  BY <1>1, <1>2, <1>3
<1>6. /\ y \in Seq(Nat \cup Bytes) /\ Len(y) = k /\ y[1] = Len(item)
      /\ \A i \in 2 .. k : y[i] = rest[i - 1]
  <2>1. len \in Seq(Nat \cup Bytes) /\ rest \in Seq(Nat \cup Bytes)
    BY <1>1, <1>4
  <2>2. /\ y \in Seq(Nat \cup Bytes) /\ Len(y) = Len(len) + Len(rest)
        /\ \A i \in 1 .. Len(len) : y[i] = len[i]
        /\ \A i \in Len(len) + 1 .. Len(len) + Len(rest) : y[i] = rest[i - Len(len)]
    BY <2>1
  <2>3. Len(len) + Len(rest) = k
    BY <1>1, <1>3, <1>4
  <2> HIDE DEF y
  <2> QED BY <1>1, <2>2, <2>3
<1> HIDE DEF x, y
<1>7. \A i \in 1 .. k : x[i] = y[i]
  <2> SUFFICES ASSUME NEW i \in 1 .. k PROVE x[i] = y[i]
    OBVIOUS
  <2>1. CASE i = 1
    BY <1>2, <1>3, <1>5, <1>6, <2>1
  <2>2. CASE i > 1
    <3>1. i \in 2 .. Len(item) + 1 /\ i \in 2 .. k /\ i - 1 \in 1 .. k - 1
      BY <1>1, <1>3, <2>2
    <3> QED BY <1>2, <1>4, <1>5, <1>6, <3>1
  <2> QED BY <2>1, <2>2
<1>8. x = y
  BY <1>5, <1>6, <1>7
<1>9. y \in File!Torn(item)
  BY <1>3 DEF y, len, rest, File!Torn
<1> QED BY <1>8, <1>9 DEF x, all, len

\* Alike for a buffer and for a vector.
LEMMA CountedStep ==
  ASSUME IInv, NEW item \in Items, NEW outs,
         \A o \in outs : PutWell(buf, opos, <<Len(item)>> \o item, o),
         Writing(<<Len(item)>> \o item, outs), Writer
  PROVE  Good
<1> DEFINE all == <<Len(item)>> \o item
           e == opos + Len(item) + 1
<1>1. /\ item \in Seq(Bytes) /\ all \in Seq(Bytes) /\ Len(all) = Len(item) + 1
      /\ Len(item) \in Nat /\ item = SubSeq(item, 1, Len(item))
  BY Values
<1>2. opos \in Nat /\ SizeMod \in Nat /\ Half \in Nat
  BY InvGives, Sizes
<1>3. \A k \in 1 .. Len(all) : SubSeq(all, 1, k) \in File!Torn(item)
  BY <1>1, TornPart
<1>4. all \in File!Torn(item)
  <2>1. SubSeq(all, 1, Len(all)) = all /\ Len(all) \in 1 .. Len(all)
    BY <1>1
  <2> QED BY <1>3, <2>1
<1>5. e \in Reach /\ opos + Len(all) = e
  BY <1>1, <1>2, Reaches
<1> HIDE DEF all, e
<1>6. /\ IInv'
      /\ File!Write(all) \/ (\E k \in 1 .. Len(all) : File!Write(SubSeq(all, 1, k))) \/ File!Fails
      /\ fate' = "wild" => opos + Len(all) >= SizeMod \/ alloc_failed \/ NoMemory(buf)
      /\ fate' = "hung" => opos + Len(all) > Half
  BY <1>1, WriterStep DEF all
<1>7. \E part \in File!Torn(item) : File!Write(part) \/ File!Fails
  BY <1>3, <1>4, <1>6
<1>8. FileStep
  BY <1>7 DEF FileStep, File!Next
<1>9. SurvivesStep
  BY <1>5, <1>6 DEF SurvivesStep, Half
<1> QED BY <1>6, <1>8, <1>9 DEF Good

LEMMA WriteBufferStep ==
  ASSUME IInv, NEW item \in Items, WriteBuffer(item)
  PROVE  Good
<1> DEFINE outs == BufferPut(item)
<1>1. \A o \in outs : PutWell(buf, opos, <<Len(item)>> \o item, o)
  BY Values, InvGives, BufferWell
<1>2. Writing(<<Len(item)>> \o item, outs)
  BY DEF WriteBuffer, Writing
<1> HIDE DEF outs
<1> QED BY <1>1, <1>2, CountedStep DEF Writer

LEMMA WriteVectorStep ==
  ASSUME IInv, NEW vec \in Items, WriteVector(vec)
  PROVE  Good
<1> DEFINE outs == VectorPut(vec)
<1>1. \A o \in outs : PutWell(buf, opos, <<Len(vec)>> \o vec, o)
  BY Values, InvGives, VectorWell
<1>2. Writing(<<Len(vec)>> \o vec, outs)
  BY DEF WriteVector, Writing
<1> HIDE DEF outs
<1> QED BY <1>1, <1>2, CountedStep DEF Writer

LEMMA WriteStringStep ==
  ASSUME IInv, NEW s \in Strings, WriteString(s)
  PROVE  Good
<1> DEFINE front == <<Len(s)>> \o s
           all == File!Encoded(s)
           outs == StringPut(s)
           e == opos + Len(s) + 2
<1>1. /\ s \in Seq(Bytes) /\ Len(s) \in Bytes /\ Len(s) \in Nat
      /\ front \in Seq(Bytes) /\ Len(front) = Len(s) + 1
      /\ <<0>> \in Seq(Bytes) /\ Len(<<0>>) = 1
  BY Values, Sizes
<1>2. opos \in Nat /\ SizeMod \in Nat /\ Half \in Nat /\ Sound(buf) /\ opos \in Size
  BY InvGives, Sizes
<1>3. all = front \o <<0>>
  BY DEF File!Encoded
<1>4. \A k \in 1 .. Len(front) : SubSeq(front, 1, k) \in File!Torn(s)
  BY <1>1, TornPart
<1>5. \A o \in outs : PutWell(buf, opos, all, o)
  BY <1>1, <1>2, StringWell
<1>6. Writing(all, outs)
  BY DEF WriteString, Writing
<1>7. e \in Reach
  BY Reaches
<1> HIDE DEF front, all, outs, e
<1>8. all \in Seq(Bytes) /\ Len(all) = Len(front) + 1 /\ SubSeq(all, 1, Len(all)) = all
  <2>1. all \in Seq(Bytes) /\ Len(all) = Len(front) + 1
    BY <1>1, <1>3
  <2> QED BY <2>1, WholePart
<1>9. opos + Len(all) = e
  BY <1>1, <1>2, <1>8 DEF e
<1>10. /\ IInv'
       /\ File!Write(all) \/ (\E k \in 1 .. Len(all) : File!Write(SubSeq(all, 1, k))) \/ File!Fails
       /\ fate' = "wild" => opos + Len(all) >= SizeMod \/ alloc_failed \/ NoMemory(buf)
       /\ fate' = "hung" => opos + Len(all) > Half
  BY <1>5, <1>6, <1>8, WriterStep
<1>11. ASSUME NEW k \in 1 .. Len(all), File!Write(SubSeq(all, 1, k))
       PROVE  File!Write(all) \/ \E part \in File!Torn(s) : File!Write(part)
  <2>1. CASE k = Len(all)
    BY <1>8, <1>11, <2>1
  <2>2. CASE k # Len(all)
    <3>1. k \in 1 .. Len(front)
      BY <1>1, <1>8, <2>2
    <3>2. SubSeq(all, 1, k) = SubSeq(front, 1, k)
      BY <1>1, <1>3, <3>1, FirstPart
    <3> QED BY <1>4, <1>11, <3>1, <3>2
  <2> QED BY <2>1, <2>2
<1>12. File!Write(File!Encoded(s)) \/ (\E part \in File!Torn(s) : File!Write(part)) \/ File!Fails
  BY <1>10, <1>11 DEF all
<1>13. FileStep
  BY <1>12 DEF FileStep, File!Next
<1>14. SurvivesStep
  BY <1>7, <1>9, <1>10 DEF SurvivesStep, Half, Writer
<1> QED BY <1>10, <1>13, <1>14 DEF Good

\* What the end of a call of the writer makes of the state, whichever outcome
\* it is.
LEMMA EndedStep ==
  ASSUME IInv, fate = "running", NEW outs, Ended(outs), got' = <<>>, ipos' \in Size,
         \A o \in outs :
           \/ o.ends \in {"wild", "hung"}
           \/ /\ o.ends \in {"ok", "throw", "bad_alloc"} /\ Sound(o.buf) /\ o.pos \in Size
              /\ o.ends # "bad_alloc" => (Full(buf) => Full(o.buf))
  PROVE  /\ IInv'
         /\ \E o \in outs :
              \/ o.ends \in {"wild", "hung"} /\ fate' = o.ends /\ buf' = buf /\ opos' = opos
              \/ /\ o.ends \in {"ok", "throw", "bad_alloc"}
                 /\ fate' = "running" /\ buf' = o.buf /\ opos' = o.pos
<1>1. PICK o \in outs :
        /\ fate' = IF o.ends \in {"wild", "hung"} THEN o.ends ELSE fate
        /\ alloc_failed' = (alloc_failed \/ o.ends = "bad_alloc")
        /\ IF fate' = "running" THEN buf' = o.buf /\ opos' = o.pos ELSE UNCHANGED <<buf, opos>>
  BY DEF Ended
<1>2. /\ Sound(buf) /\ (alloc_failed \/ Full(buf)) /\ opos \in Size /\ alloc_failed \in BOOLEAN
      /\ got' \in Seq(Bytes)
  BY InvGives
<1>3. CASE o.ends \in {"wild", "hung"}
  <2>1. fate' = o.ends /\ buf' = buf /\ opos' = opos /\ alloc_failed' = alloc_failed
    BY <1>1, <1>2, <1>3
  <2>2. IInv'
    BY <1>2, <1>3, <2>1, InvHolds
  <2> QED BY <1>3, <2>1, <2>2
<1>4. CASE /\ o.ends \in {"ok", "throw", "bad_alloc"} /\ Sound(o.buf) /\ o.pos \in Size
           /\ o.ends # "bad_alloc" => (Full(buf) => Full(o.buf))
  <2>1. fate' = "running" /\ buf' = o.buf /\ opos' = o.pos
    BY <1>1, <1>4
  <2>2. alloc_failed' \in BOOLEAN /\ (alloc_failed' \/ Full(buf'))
    <3>1. CASE o.ends = "bad_alloc"
      BY <1>1, <3>1
    <3>2. CASE o.ends # "bad_alloc"
      BY <1>1, <1>2, <1>4, <2>1, <3>2
    <3> QED BY <3>1, <3>2
  <2>3. IInv'
    BY <1>2, <1>4, <2>1, <2>2, InvHolds
  <2> QED BY <1>4, <2>1, <2>3
<1> QED BY <1>3, <1>4

\* A step that leaves the file and the writer alone.
LEMMA FailsStep ==
  ASSUME IInv, FileOf(buf') = FileOf(buf), opos' = opos, got' = <<>>,
         ipos' >= ipos, ipos' <= File!Larger(ipos, buf.m_deflen)
  PROVE  FileStep
<1>1. Len(FileOf(buf)) = buf.m_deflen
  BY InvGives, FileBytes
<1>2. File!Fails
  BY <1>1 DEF File!Fails, FileOf
<1> QED BY <1>2 DEF FileStep, File!Next

LEMMA WriteSkipStep ==
  ASSUME IInv, NEW n \in Counts, WriteSkip(n)
  PROVE  Good
<1> DEFINE pos == (opos + n) % SizeMod
           outs == {IF o.ends = "ok" /\ ~Allocated(o.buf, opos, n) THEN [o EXCEPT !.ends = "wild"] ELSE o :
                      o \in ExpandTo(buf, pos, pos)}
<1>1. /\ Sound(buf) /\ (alloc_failed \/ Full(buf)) /\ opos \in Nat /\ ipos \in Nat /\ ipos \in Size
      /\ n \in Nat /\ SizeMod \in Nat /\ Half \in Nat /\ buf.m_deflen \in Nat
      /\ <<>> \in Seq(Bytes)
  BY InvGives, Sizes, Values DEF Sound
<1>2. pos \in Size /\ pos \in Nat /\ (opos + n < SizeMod => pos = opos + n) /\ pos <= opos + n
  BY <1>1, EndWraps DEF Size
<1>3. Ended(outs) /\ fate = "running" /\ got' = <<>> /\ ipos' = ipos
  BY DEF WriteSkip
<1>4. pos \in {(opos + m) % SizeMod : m \in Counts}
  OBVIOUS
<1>5. opos + n \in Reach
  BY Reaches
<1> HIDE DEF pos
<1>6. ASSUME NEW o \in outs
      PROVE  \/ o.ends = "wild" /\ (opos + n >= SizeMod \/ ~Full(buf) \/ NoMemory(buf))
             \/ o.ends = "hung" /\ opos + n > Half
             \/ /\ o.ends \in {"throw", "bad_alloc"} /\ Alike(buf, o.buf) /\ o.pos = pos
                /\ o.ends = "throw" => (Full(buf) => Full(o.buf))
             \/ o.ends = "ok" /\ Wrote(buf, pos, <<>>, o.buf) /\ o.pos = pos /\ (Full(buf) => Full(o.buf))
  <2>1. PICK q \in ExpandTo(buf, pos, pos) :
          o = IF q.ends = "ok" /\ ~Allocated(q.buf, opos, n) THEN [q EXCEPT !.ends = "wild"] ELSE q
    OBVIOUS
  <2>2. /\ q = Outcome(q.buf, pos, q.ends) /\ q.pos = pos
        /\ \/ q.ends = "throw" /\ q.buf = buf
           \/ q.ends = "hung" /\ pos > Half
           \/ q.ends = "bad_alloc" /\ Alike(buf, q.buf)
           \/ q.ends = "wild" /\ (~Full(buf) \/ NoMemory(buf))
           \/ q.ends = "ok" /\ Wrote(buf, pos, <<>>, q.buf) /\ (Full(buf) => Full(q.buf))
    BY <1>1, <1>2, ExpandOutcome
  <2>3. CASE q.ends = "ok" /\ ~Allocated(q.buf, opos, n)
    <3>1. o = [q EXCEPT !.ends = "wild"]
      BY <2>1, <2>3
    <3>2. o.ends = "wild"
      BY <2>2, <3>1 DEF Outcome
    <3>3. opos + n > Len(q.buf.bytes)
      BY <1>1, <2>2, <2>3, WroteEnd DEF Allocated, Sound
    <3>4. pos <= Len(q.buf.bytes) /\ Len(q.buf.bytes) \in Nat
      <4>1. pos + Len(<<>>) <= q.buf.m_deflen /\ q.buf.m_deflen \in Nat
            /\ q.buf.m_deflen <= Len(q.buf.bytes) /\ Len(q.buf.bytes) \in Nat
        BY <1>1, <1>2, <2>2, <2>3, WroteEnd
      <4> QED BY <1>2, <4>1
    <3>5. opos + n >= SizeMod
      BY <1>1, <1>2, <3>3, <3>4
    <3> QED BY <3>2, <3>5
  <2>4. CASE ~(q.ends = "ok" /\ ~Allocated(q.buf, opos, n))
    <3>1. o = q
      BY <2>1, <2>4
    <3>2. pos > Half => opos + n > Half
      BY <1>1, <1>2
    <3> QED BY <1>1, <2>2, <3>1, <3>2, AlikeSelf
  <2> QED BY <2>3, <2>4
<1> HIDE DEF outs
<1>7. \A o \in outs :
        \/ o.ends \in {"wild", "hung"}
        \/ /\ o.ends \in {"ok", "throw", "bad_alloc"} /\ Sound(o.buf) /\ o.pos \in Size
           /\ o.ends # "bad_alloc" => (Full(buf) => Full(o.buf))
  BY <1>2, <1>6 DEF Wrote, Alike
<1>8. /\ IInv'
      /\ \E o \in outs :
           \/ o.ends \in {"wild", "hung"} /\ fate' = o.ends /\ buf' = buf /\ opos' = opos
           \/ /\ o.ends \in {"ok", "throw", "bad_alloc"}
              /\ fate' = "running" /\ buf' = o.buf /\ opos' = o.pos
  BY <1>1, <1>3, <1>7, EndedStep
<1>9. PICK o \in outs :
        \/ o.ends \in {"wild", "hung"} /\ fate' = o.ends /\ buf' = buf /\ opos' = opos
        \/ /\ o.ends \in {"ok", "throw", "bad_alloc"}
           /\ fate' = "running" /\ buf' = o.buf /\ opos' = o.pos
  BY <1>8
<1>10. SurvivesStep
  <2>1. Writer
    BY DEF Writer
  <2>2. fate' = "wild" => opos + n >= SizeMod \/ alloc_failed \/ NoMemory(buf)
    BY <1>1, <1>6, <1>9
  <2>3. fate' = "hung" => opos + n > Half
    BY <1>6, <1>9
  <2> QED BY <1>5, <2>1, <2>2, <2>3 DEF SurvivesStep, Half
<1>11. FileStep
  <2>1. CASE o.ends \in {"wild", "hung"}
    <3>1. buf' = buf /\ opos' = opos
      BY <1>9, <2>1
    <3> QED BY <1>1, <1>3, <3>1, FailsStep DEF File!Larger
  <2>2. CASE o.ends \in {"throw", "bad_alloc"}
    <3>1. buf' = o.buf /\ opos' = pos /\ Alike(buf, o.buf)
      BY <1>6, <1>9, <2>2
    <3>2. FileOf(buf') = FileOf(buf)
      BY <1>1, <3>1, AlikeFile
    <3>3. File!WriteSkip
      BY <1>3, <1>4, <3>1, <3>2 DEF File!WriteSkip, FileOf
    <3> QED BY <3>3 DEF FileStep, File!Next
  <2>3. CASE o.ends = "ok"
    <3>1. buf' = o.buf /\ opos' = pos /\ Wrote(buf, pos, <<>>, o.buf)
      BY <1>6, <1>9, <2>3
    <3> DEFINE none == <<>>
    <3>2. Wrote(buf, pos, none, buf') /\ none \in Seq(Bytes)
      BY <1>1, <3>1
    <3> HIDE DEF none
    <3>3. /\ Len(FileOf(buf')) = File!Larger(Len(FileOf(buf)), pos + Len(none))
          /\ \A i \in 1 .. Len(none) : FileOf(buf')[pos + i] = none[i]
          /\ \A i \in 1 .. Len(FileOf(buf)) : i \notin pos + 1 .. pos + Len(none) =>
               FileOf(buf')[i] = FileOf(buf)[i]
      BY <1>1, <1>2, <3>2, WroteFile
    <3>4. File!Overwritten(opos', none)
      BY <3>1, <3>3 DEF File!Overwritten, FileOf
    <3>5. File!WriteSkip
      BY <1>3, <1>4, <3>1, <3>4 DEF File!WriteSkip, none
    <3> QED BY <3>5 DEF FileStep, File!Next
  <2> QED BY <1>9, <2>1, <2>2, <2>3
<1> QED BY <1>8, <1>10, <1>11 DEF Good

\* What is left to read, where it may be skipped.
LEMMA LeftOver ==
  ASSUME IInv, Skippable(buf, ipos, Left)
  PROVE  /\ ipos <= buf.m_deflen /\ Left = buf.m_deflen - ipos /\ Left \in Nat
         /\ (ipos + Left) % SizeMod = buf.m_deflen /\ buf.m_deflen \in Size
<1> DEFINE d == buf.m_deflen
<1>1. d \in Size /\ ipos \in Size /\ SizeMod \in Nat \ {0} /\ d \in Nat /\ ipos \in Nat
  BY InvGives, Sizes DEF Sound, Size
<1>2. ipos <= d
  BY DEF Skippable, InRange
<1>3. Left = (d - ipos) % SizeMod
  BY DEF Left
<1> HIDE DEF d
<1>4. d - ipos \in 0 .. SizeMod - 1
  BY <1>1, <1>2 DEF Size
<1>5. Left = d - ipos
  BY <1>1, <1>3, <1>4, ModSmall
<1>6. ipos + Left = d
  BY <1>1, <1>5
<1>7. d % SizeMod = d
  BY <1>1, ModSmall DEF Size
<1> QED BY <1>1, <1>2, <1>4, <1>5, <1>6, <1>7 DEF d

\* What is copied has its length, and is what is there where it does not run
\* over itself.
LEMMA SmearedItem ==
  ASSUME NEW T, NEW piece \in Seq(T), NEW d \in Int, NEW item \in Smeared(piece, d)
  PROVE  /\ item \in Seq(T) /\ Len(item) = Len(piece)
         /\ d >= Len(piece) \/ -d >= Len(piece) => item = piece
<1> DEFINE n == Len(piece)
<1>1. n \in Nat
  OBVIOUS
<1>2. CASE item = piece
  BY <1>2
<1>3. CASE d \in 1 .. n - 1 /\ item = [i \in 1 .. n |-> piece[((i - 1) % d) + 1]]
  <2>1. \A i \in 1 .. n : ((i - 1) % d) + 1 \in 1 .. n
    <3> SUFFICES ASSUME NEW i \in 1 .. n PROVE ((i - 1) % d) + 1 \in 1 .. n
      OBVIOUS
    <3>1. i - 1 \in Int /\ d \in Nat \ {0}
      BY <1>3
    <3>2. (i - 1) % d \in 0 .. d - 1
      BY <3>1, ModRange
    <3> QED BY <1>1, <1>3, <3>2
  <2> HIDE DEF n
  <2>2. \A i \in 1 .. n : piece[((i - 1) % d) + 1] \in T
    BY <2>1 DEF n
  <2>3. item \in Seq(T) /\ Len(item) = n
    BY <1>1, <1>3, <2>2
  <2> QED BY <1>1, <1>3, <2>3 DEF n
<1>4. CASE -d \in 1 .. n - 1 /\ item = [i \in 1 .. n |-> piece[n - ((n - i) % (-d))]]
  <2>1. \A i \in 1 .. n : n - ((n - i) % (-d)) \in 1 .. n
    <3> SUFFICES ASSUME NEW i \in 1 .. n PROVE n - ((n - i) % (-d)) \in 1 .. n
      OBVIOUS
    <3>1. n - i \in Int /\ -d \in Nat \ {0}
      BY <1>1, <1>4
    <3>2. (n - i) % (-d) \in 0 .. (-d) - 1
      BY <3>1, ModRange
    <3> QED BY <1>1, <1>4, <3>2
  <2> HIDE DEF n
  <2>2. \A i \in 1 .. n : piece[n - ((n - i) % (-d))] \in T
    BY <2>1 DEF n
  <2>3. item \in Seq(T) /\ Len(item) = n
    BY <1>1, <1>4, <2>2
  <2> QED BY <1>1, <1>4, <2>3 DEF n
<1> QED BY <1>1, <1>2, <1>3, <1>4 DEF Smeared, n

LEMMA WriteFromStep ==
  ASSUME IInv, WriteFrom
  PROVE  Good
<1> DEFINE n == Left
           d == buf.m_deflen
           piece == SubSeq(buf.bytes, ipos + 1, ipos + n)
           outs == PutOwn(buf, opos, ipos, n)
<1>1. /\ Sound(buf) /\ (alloc_failed \/ Full(buf)) /\ opos \in Nat /\ opos \in Size
      /\ ipos \in Nat /\ ipos \in Size /\ SizeMod \in Nat /\ Half \in Nat
  BY InvGives, Sizes
<1>2. /\ ipos <= d /\ n = d - ipos /\ n \in Nat /\ d \in Nat /\ d \in Size
      /\ (ipos + n) % SizeMod = d
  BY <1>1, LeftOver DEF WriteFrom, Size
<1>3. Ended(outs) /\ fate = "running" /\ got' = <<>> /\ ipos' = d
  BY <1>2 DEF WriteFrom
<1>4. piece \in Seq(Bytes) /\ Len(piece) = n /\ \A i \in 1 .. n : piece[i] = buf.bytes[ipos + i]
  <2>1. buf.bytes \in Seq(Bytes) /\ d <= Len(buf.bytes) /\ ipos + n = d
    BY <1>1, <1>2 DEF Sound
  <2> HIDE DEF n, d
  <2> QED BY <1>1, <1>2, <2>1
<1>5. opos + n \in Reach
  BY Reaches
<1>6. WriteFrom /\ Writer
  BY DEF Writer
<1> HIDE DEF n, d, piece
<1>7. ASSUME NEW o \in outs
      PROVE  \/ /\ o.ends = "wild"
                /\ \/ opos + n >= SizeMod \/ ~Full(buf) \/ NoMemory(buf)
                   \/ buf.kind = "dynamic" /\ opos + n > buf.m_maxlen
             \/ o.ends = "hung" /\ opos + n > Half
             \/ /\ o.ends \in {"throw", "bad_alloc"} /\ Alike(buf, o.buf) /\ o.pos = opos
                /\ o.ends = "throw" => (Full(buf) => Full(o.buf))
             \/ /\ o.ends = "ok" /\ o.pos = opos + n /\ (Full(buf) => Full(o.buf))
                /\ \E item \in Seq(Bytes) :
                     /\ Len(item) = n /\ Wrote(buf, opos, item, o.buf)
                     /\ opos >= d \/ opos + n <= ipos => item = piece
  <2>1. PICK q \in UNION {Put(buf, opos, item) : item \in Smeared(piece, opos - ipos)} :
          o = IF q.ends = "ok" /\ n > 0 /\ q.buf.m_maxlen # buf.m_maxlen
                THEN [q EXCEPT !.ends = "wild"] ELSE q
    BY DEF PutOwn, piece
  <2>2. PICK item \in Smeared(piece, opos - ipos) : q \in Put(buf, opos, item)
    BY <2>1
  <2>3. opos - ipos \in Int
    BY <1>1
  <2>4. /\ item \in Seq(Bytes) /\ Len(item) = n
        /\ opos - ipos >= n \/ -(opos - ipos) >= n => item = piece
    BY <1>4, <2>3, SmearedItem
  <2>5. opos >= d \/ opos + n <= ipos => item = piece
    <3>1. opos >= d => opos - ipos >= n
      BY <1>1, <1>2
    <3>2. opos + n <= ipos => -(opos - ipos) >= n
      BY <1>1, <1>2
    <3> QED BY <2>4, <3>1, <3>2
  <2>6. /\ q = Outcome(q.buf, q.pos, q.ends)
        /\ \/ q.ends = "throw" /\ q.buf = buf /\ q.pos = opos
           \/ q.ends = "hung" /\ opos + n > Half
           \/ q.ends = "bad_alloc" /\ Alike(buf, q.buf) /\ q.pos = opos
           \/ q.ends = "wild" /\ (opos + n >= SizeMod \/ ~Full(buf) \/ NoMemory(buf))
           \/ /\ q.ends = "ok" /\ Wrote(buf, opos, item, q.buf) /\ q.pos = opos + n
              /\ Full(buf) => Full(q.buf)
              /\ q.buf.m_maxlen # buf.m_maxlen => buf.kind = "dynamic" /\ opos + n > buf.m_maxlen
    BY <1>1, <2>2, <2>4, PutOutcome
  <2>7. CASE q.ends = "ok" /\ n > 0 /\ q.buf.m_maxlen # buf.m_maxlen
    <3>1. o = [q EXCEPT !.ends = "wild"]
      BY <2>1, <2>7
    <3>2. o.ends = "wild"
      BY <2>6, <3>1 DEF Outcome
    <3> QED BY <2>6, <2>7, <3>2
  <2>8. CASE ~(q.ends = "ok" /\ n > 0 /\ q.buf.m_maxlen # buf.m_maxlen)
    <3>1. o = q
      BY <2>1, <2>8
    <3> QED BY <1>1, <2>4, <2>5, <2>6, <3>1, AlikeSelf
  <2> QED BY <2>7, <2>8
<1> HIDE DEF outs
<1>8. \A o \in outs :
        \/ o.ends \in {"wild", "hung"}
        \/ /\ o.ends \in {"ok", "throw", "bad_alloc"} /\ Sound(o.buf) /\ o.pos \in Size
           /\ o.ends # "bad_alloc" => (Full(buf) => Full(o.buf))
  <2> SUFFICES ASSUME NEW o \in outs, o.ends = "ok"
               PROVE  Sound(o.buf) /\ o.pos \in Size /\ (Full(buf) => Full(o.buf))
    BY <1>1, <1>7 DEF Alike
  <2>1. PICK item \in Seq(Bytes) : Len(item) = n /\ Wrote(buf, opos, item, o.buf)
    BY <1>7
  <2>2. Sound(o.buf) /\ opos + n \in Size
    BY <1>1, <2>1, WroteEnd
  <2> QED BY <1>7, <2>2
<1>9. /\ IInv'
      /\ \E o \in outs :
           \/ o.ends \in {"wild", "hung"} /\ fate' = o.ends /\ buf' = buf /\ opos' = opos
           \/ /\ o.ends \in {"ok", "throw", "bad_alloc"}
              /\ fate' = "running" /\ buf' = o.buf /\ opos' = o.pos
  BY <1>2, <1>3, <1>8, EndedStep
<1>10. PICK o \in outs :
        \/ o.ends \in {"wild", "hung"} /\ fate' = o.ends /\ buf' = buf /\ opos' = opos
        \/ /\ o.ends \in {"ok", "throw", "bad_alloc"}
           /\ fate' = "running" /\ buf' = o.buf /\ opos' = o.pos
  BY <1>9
<1>11. SurvivesStep
  <2>1. fate' = "wild" => \/ opos + n >= SizeMod \/ alloc_failed \/ NoMemory(buf)
                          \/ buf.kind = "dynamic" /\ opos + n > buf.m_maxlen
    BY <1>1, <1>7, <1>10
  <2>2. fate' = "hung" => opos + n > Half
    BY <1>7, <1>10
  <2> QED BY <1>5, <1>6, <2>1, <2>2 DEF SurvivesStep, Half, n
<1>12. FileStep
  <2> DEFINE file == FileOf(buf)
             new == FileOf(buf')
             put == SubSeq(new, opos + 1, opos + n)
  <2>1. Len(file) = d /\ file \in Seq(Bytes) /\ \A i \in 1 .. d : file[i] = buf.bytes[i]
    BY <1>1, FileBytes DEF d
  <2>2. SubSeq(file, ipos + 1, ipos + n) = piece
    <3> DEFINE x == SubSeq(file, ipos + 1, ipos + n)
    <3> HIDE DEF file
    <3>1. ipos + n = d
      BY <1>1, <1>2
    <3>2. x \in Seq(Bytes) /\ Len(x) = n /\ \A i \in 1 .. n : x[i] = file[ipos + i]
      BY <1>1, <1>2, <2>1, <3>1
    <3> HIDE DEF x
    <3>3. \A i \in 1 .. n : x[i] = piece[i]
      <4> SUFFICES ASSUME NEW i \in 1 .. n PROVE x[i] = piece[i]
        OBVIOUS
      <4>1. ipos + i \in 1 .. d
        BY <1>1, <1>2, <3>1
      <4> QED BY <1>4, <2>1, <3>2, <4>1
    <3>4. x = piece
      BY <1>4, <3>2, <3>3
    <3> QED BY <3>4 DEF x
  <2>3. CASE new = file /\ opos' = opos
    <3>1. File!WriteFrom
      <4>1. UNCHANGED <<SubSeq(buf.bytes, 1, buf.m_deflen), opos>>
        BY <2>3 DEF FileOf
      <4>2. ipos + 0 <= Len(SubSeq(buf.bytes, 1, buf.m_deflen)) /\ ipos' = Len(SubSeq(buf.bytes, 1, buf.m_deflen))
        BY <1>1, <1>2, <1>3, <2>1 DEF FileOf
      <4> QED BY <1>3, <4>1, <4>2 DEF File!WriteFrom, File!Holds
    <3> QED BY <3>1 DEF FileStep, File!Next
  <2>4. CASE o.ends = "ok"
    <3>1. PICK item \in Seq(Bytes) :
            /\ Len(item) = n /\ Wrote(buf, opos, item, o.buf)
            /\ opos >= d \/ opos + n <= ipos => item = piece
      BY <1>7, <2>4
    <3>2. buf' = o.buf /\ opos' = opos + n
      BY <1>7, <1>10, <2>4
    <3>3. /\ Len(new) = File!Larger(Len(file), opos + n)
          /\ \A i \in 1 .. n : new[opos + i] = item[i]
          /\ \A i \in 1 .. Len(file) : i \notin opos + 1 .. opos + n => new[i] = file[i]
      <4>1. Wrote(buf, opos, item, buf') /\ opos \in Nat /\ Sound(buf)
        BY <1>1, <3>1, <3>2
      <4>2. /\ Len(FileOf(buf')) = File!Larger(Len(FileOf(buf)), opos + Len(item))
            /\ \A i \in 1 .. Len(item) : FileOf(buf')[opos + i] = item[i]
            /\ \A i \in 1 .. Len(FileOf(buf)) : i \notin opos + 1 .. opos + Len(item) =>
                 FileOf(buf')[i] = FileOf(buf)[i]
        BY <4>1, WroteFile
      <4> QED BY <3>1, <4>2
    <3>4. new \in Seq(Bytes) /\ opos + n <= Len(new) /\ Len(new) \in Nat
      <4>1. Sound(buf')
        BY <3>1, <3>2 DEF Wrote
      <4>2. new \in Seq(Bytes) /\ Len(new) \in Nat
        BY <4>1, FileBytes
      <4> QED BY <1>1, <1>2, <2>1, <3>3, <4>2 DEF File!Larger
    <3> HIDE DEF new, file
    <3>5. put \in Seq(Bytes) /\ Len(put) = n /\ \A i \in 1 .. n : put[i] = new[opos + i]
      BY <1>1, <1>2, <3>4
    <3> HIDE DEF put
    <3>6. put = item
      <4>1. \A i \in 1 .. n : put[i] = item[i]
        BY <3>3, <3>5
      <4> QED BY <3>1, <3>5, <4>1
    <3>7. /\ opos + n <= Len(new)
          /\ Len(new) = File!Larger(Len(file), opos + Len(put))
          /\ \A i \in 1 .. Len(put) : new[opos + i] = put[i]
          /\ \A i \in 1 .. Len(file) : i \notin opos + 1 .. opos + Len(put) => new[i] = file[i]
          /\ opos >= Len(file) \/ opos + n <= ipos => put = SubSeq(file, ipos + 1, ipos + n)
          /\ ipos' = Len(file) /\ n = Len(file) - ipos /\ ipos + 0 <= Len(file)
      BY <1>1, <1>2, <1>3, <2>1, <2>2, <3>1, <3>3, <3>4, <3>5, <3>6
    <3>8. File!WriteFrom
      <4>1. n = Len(SubSeq(buf.bytes, 1, buf.m_deflen)) - ipos
        BY <3>7 DEF file, FileOf
      <4> QED BY <1>3, <3>2, <3>7, <4>1
            DEF File!WriteFrom, File!Holds, File!Piece, File!Overwritten, file, new, put, FileOf
    <3> QED BY <3>8 DEF FileStep, File!Next
  <2>5. CASE o.ends # "ok"
    <3>1. opos' = opos
      BY <1>7, <1>10, <2>5
    <3>2. buf' = buf \/ Alike(buf, buf')
      BY <1>7, <1>10, <2>5
    <3>3. new = file
      BY <1>1, <3>2, AlikeFile
    <3> QED BY <2>3, <3>1, <3>3
  <2> QED BY <2>4, <2>5
<1> QED BY <1>9, <1>11, <1>12 DEF Good

\* A buffer that has been cleared.
LEMMA Cleared ==
  ASSUME NEW b, Sound(b)
  PROVE  LET c == [b EXCEPT !.m_deflen = 0]
         IN  /\ Sound(c) /\ c.m_deflen = 0 /\ c.bytes = b.bytes /\ FileOf(c) = <<>>
             /\ (Full(b) <=> Full(c)) /\ (NoMemory(b) <=> NoMemory(c))
<1> DEFINE c == [b EXCEPT !.m_deflen = 0]
<1>1. b \in [kind : Kinds, bytes : Seq(Bytes), m_maxlen : 0 .. Half, m_deflen : Nat]
      /\ Len(b.bytes) \in Nat
  BY DEF Sound
<1>2. c \in [kind : Kinds, bytes : Seq(Bytes), m_maxlen : 0 .. Half, m_deflen : Nat]
      /\ c.kind = b.kind /\ c.bytes = b.bytes /\ c.m_maxlen = b.m_maxlen /\ c.m_deflen = 0
  BY <1>1
<1> HIDE DEF c
<1>3. Sound(c)
  BY <1>1, <1>2 DEF Sound
<1>4. FileOf(c) \in Seq(Bytes) /\ Len(FileOf(c)) = 0
  BY <1>2, <1>3, FileBytes
<1>5. FileOf(c) = <<>>
  BY <1>4
<1>6. (Full(b) <=> Full(c)) /\ (NoMemory(b) <=> NoMemory(c))
  BY <1>2 DEF Full, NoMemory
<1> QED BY <1>2, <1>3, <1>5, <1>6 DEF c

LEMMA CopyFromStep ==
  ASSUME IInv, NEW item \in Items, CopyFrom(item)
  PROVE  Good
<1> DEFINE b == [buf EXCEPT !.m_deflen = 0]
           outs == {[o EXCEPT !.pos = opos] : o \in Put(b, 0, item)}
           e == opos + Len(item) + 1
<1>1. /\ Sound(buf) /\ (alloc_failed \/ Full(buf)) /\ opos \in Nat /\ opos \in Size
      /\ ipos \in Nat /\ ipos \in Size /\ SizeMod \in Nat /\ Half \in Nat /\ 0 \in Size
      /\ buf.m_deflen \in Nat
  BY InvGives, Sizes DEF Size, Sound
<1>2. item \in Seq(Bytes) /\ Len(item) \in Nat
  BY Values
<1>3. /\ Sound(b) /\ b.m_deflen = 0 /\ FileOf(b) = <<>>
      /\ (Full(buf) <=> Full(b)) /\ (NoMemory(buf) <=> NoMemory(b))
  BY <1>1, Cleared
<1>4. Ended(outs) /\ fate = "running" /\ got' = <<>> /\ ipos' = ipos
  BY DEF CopyFrom
<1>5. e \in Reach /\ Writer
  BY Reaches DEF Writer
<1> HIDE DEF b
<1>6. ASSUME NEW o \in outs
      PROVE  /\ o.pos = opos
             /\ \/ o.ends = "wild" /\ (Len(item) >= SizeMod \/ ~Full(buf) \/ NoMemory(buf))
                \/ o.ends = "hung" /\ Len(item) > Half
                \/ o.ends = "bad_alloc" /\ Sound(o.buf) /\ FileOf(o.buf) = <<>>
                \/ o.ends = "throw" /\ Sound(o.buf) /\ (Full(buf) => Full(o.buf)) /\ FileOf(o.buf) = <<>>
                \/ o.ends = "ok" /\ Sound(o.buf) /\ (Full(buf) => Full(o.buf)) /\ FileOf(o.buf) = item
  <2>1. PICK q \in Put(b, 0, item) : o = [q EXCEPT !.pos = opos]
    OBVIOUS
  <2>2. /\ q = Outcome(q.buf, q.pos, q.ends)
        /\ \/ q.ends = "throw" /\ q.buf = b
           \/ q.ends = "hung" /\ 0 + Len(item) > Half
           \/ q.ends = "bad_alloc" /\ Alike(b, q.buf)
           \/ q.ends = "wild" /\ (0 + Len(item) >= SizeMod \/ ~Full(b) \/ NoMemory(b))
           \/ q.ends = "ok" /\ Wrote(b, 0, item, q.buf) /\ (Full(b) => Full(q.buf))
    BY <1>1, <1>2, <1>3, PutOutcome
  <2>3. o.buf = q.buf /\ o.pos = opos /\ o.ends = q.ends
    BY <2>1, <2>2 DEF Outcome
  <2>4. ASSUME Alike(b, q.buf)
        PROVE  Sound(q.buf) /\ FileOf(q.buf) = <<>>
    <3>1. FileOf(q.buf) = FileOf(b)
      BY <1>3, <2>4, AlikeFile
    <3> QED BY <1>3, <2>4, <3>1 DEF Alike
  <2>5. ASSUME Wrote(b, 0, item, q.buf)
        PROVE  Sound(q.buf) /\ FileOf(q.buf) = item
    <3> DEFINE f == FileOf(q.buf)
    <3>1. Sound(q.buf) /\ q.buf.m_deflen = File!Larger(0, 0 + Len(item))
          /\ \A i \in 1 .. Len(item) : q.buf.bytes[0 + i] = item[i]
      BY <1>3, <2>5 DEF Wrote
    <3>2. f \in Seq(Bytes) /\ Len(f) = q.buf.m_deflen
          /\ \A i \in 1 .. q.buf.m_deflen : f[i] = q.buf.bytes[i]
      BY <3>1, FileBytes
    <3> HIDE DEF f
    <3>3. q.buf.m_deflen = Len(item)
      BY <1>2, <3>1 DEF File!Larger
    <3>4. \A i \in 1 .. Len(item) : f[i] = item[i]
      <4> SUFFICES ASSUME NEW i \in 1 .. Len(item) PROVE f[i] = item[i]
        OBVIOUS
      <4>1. 0 + i = i
        BY <1>2
      <4> QED BY <3>1, <3>2, <3>3, <4>1
    <3>5. f = item
      BY <1>2, <3>2, <3>3, <3>4
    <3> QED BY <3>1, <3>5 DEF f
  <2>6. 0 + Len(item) = Len(item)
    BY <1>2
  <2> QED BY <1>3, <2>2, <2>3, <2>4, <2>5, <2>6, AlikeSelf
<1> HIDE DEF outs
<1>7. \A o \in outs :
        \/ o.ends \in {"wild", "hung"}
        \/ /\ o.ends \in {"ok", "throw", "bad_alloc"} /\ Sound(o.buf) /\ o.pos \in Size
           /\ o.ends # "bad_alloc" => (Full(buf) => Full(o.buf))
  BY <1>1, <1>6
<1>8. /\ IInv'
      /\ \E o \in outs :
           \/ o.ends \in {"wild", "hung"} /\ fate' = o.ends /\ buf' = buf /\ opos' = opos
           \/ /\ o.ends \in {"ok", "throw", "bad_alloc"}
              /\ fate' = "running" /\ buf' = o.buf /\ opos' = o.pos
  BY <1>1, <1>4, <1>7, EndedStep
<1>9. PICK o \in outs :
        \/ o.ends \in {"wild", "hung"} /\ fate' = o.ends /\ buf' = buf /\ opos' = opos
        \/ /\ o.ends \in {"ok", "throw", "bad_alloc"}
           /\ fate' = "running" /\ buf' = o.buf /\ opos' = o.pos
  BY <1>8
<1>10. SurvivesStep
  <2>1. fate' = "wild" => Len(item) >= SizeMod \/ alloc_failed \/ NoMemory(buf)
    BY <1>1, <1>6, <1>9
  <2>2. fate' = "hung" => Len(item) > Half
    BY <1>6, <1>9
  <2>3. Len(item) >= SizeMod => e >= SizeMod
    BY <1>1, <1>2
  <2>4. Len(item) > Half => e > Half
    BY <1>1, <1>2
  <2> HIDE DEF e
  <2> QED BY <1>5, <2>1, <2>2, <2>3, <2>4 DEF SurvivesStep, Half
<1>11. FileStep
  <2>1. CASE o.ends \in {"wild", "hung"}
    <3>1. buf' = buf /\ opos' = opos
      BY <1>9, <2>1
    <3> QED BY <1>1, <1>4, <3>1, FailsStep DEF File!Larger
  <2>2. CASE o.ends \in {"ok", "throw", "bad_alloc"}
    <3>1. buf' = o.buf /\ opos' = opos
      BY <1>6, <1>9, <2>2
    <3>2. FileOf(buf') \in {<<>>} \cup Items
      BY <1>6, <2>2, <3>1
    <3>3. File!Replace
      BY <1>4, <3>1, <3>2 DEF File!Replace, FileOf
    <3> QED BY <3>3 DEF FileStep, File!Next
  <2> QED BY <1>6, <2>1, <2>2
<1> QED BY <1>8, <1>10, <1>11 DEF Good

LEMMA ClearStep ==
  ASSUME IInv, Clear
  PROVE  Good
<1>1. /\ Sound(buf) /\ (alloc_failed \/ Full(buf)) /\ opos \in Size /\ ipos \in Size
      /\ alloc_failed \in BOOLEAN /\ <<>> \in Seq(Bytes)
  BY InvGives
<1>2. /\ fate = "running" /\ buf' = [buf EXCEPT !.m_deflen = 0] /\ got' = <<>>
      /\ opos' = opos /\ ipos' = ipos /\ fate' = fate /\ alloc_failed' = alloc_failed
  BY DEF Clear
<1>3. Sound(buf') /\ FileOf(buf') = <<>> /\ (Full(buf) => Full(buf'))
  BY <1>1, <1>2, Cleared
<1>4. IInv'
  BY <1>1, <1>2, <1>3, InvHolds
<1>5. File!Replace
  BY <1>2, <1>3 DEF File!Replace, FileOf
<1>6. FileStep
  BY <1>5 DEF FileStep, File!Next
<1>7. SurvivesStep
  BY <1>2 DEF SurvivesStep
<1> QED BY <1>4, <1>6, <1>7 DEF Good

LEMMA SeekStep ==
  ASSUME IInv, NEW n \in Positions, OSeek(n) \/ ISeek(n)
  PROVE  Good
<1>1. /\ Sound(buf) /\ (alloc_failed \/ Full(buf)) /\ opos \in Size /\ ipos \in Size
      /\ alloc_failed \in BOOLEAN /\ <<>> \in Seq(Bytes) /\ n \in Size
  BY InvGives, Values
<1>2. /\ fate = "running" /\ buf' = buf /\ got' = <<>> /\ fate' = fate /\ alloc_failed' = alloc_failed
      /\ (opos' = n /\ ipos' = ipos) \/ (ipos' = n /\ opos' = opos)
  BY DEF OSeek, ISeek, readerVars
<1>3. IInv'
  BY <1>1, <1>2, InvHolds
<1>4. File!Seek
  BY <1>2 DEF File!Seek
<1>5. FileStep
  BY <1>4 DEF FileStep, File!Next
<1>6. SurvivesStep
  BY <1>2 DEF SurvivesStep
<1> QED BY <1>3, <1>5, <1>6 DEF Good

-----------------------------------------------------------------------------
(* The steps of the reader *)

\* What the check of Get and GetBufRange lets through is defined, unless its
\* end has wrapped; a single byte always is.
LEMMA RangeEnd ==
  ASSUME NEW b, Sound(b), NEW pos \in Nat, NEW n \in Nat, InRange(b, pos, n)
  PROVE  /\ pos <= b.m_deflen /\ b.m_deflen \in Nat /\ b.m_deflen <= Half
         /\ pos + n < SizeMod => pos + n <= b.m_deflen
         /\ Allocated(b, pos, n) => pos + n <= b.m_deflen
         /\ ~Allocated(b, pos, n) => pos + n >= SizeMod
         /\ n <= 1 => pos + n <= b.m_deflen
         /\ (pos + n) % SizeMod \in Size
<1> DEFINE e == (pos + n) % SizeMod
<1>1. e \in Size /\ (pos + n < SizeMod => e = pos + n)
  BY EndWraps
<1>2. pos <= b.m_deflen /\ n <= b.m_deflen /\ e <= b.m_deflen
  BY DEF InRange
<1> HIDE DEF e
<1>3. /\ b.m_deflen \in Nat /\ Len(b.bytes) \in Nat /\ b.m_deflen <= Len(b.bytes) /\ Len(b.bytes) <= Half
      /\ Half \in Nat /\ SizeMod \in Nat /\ 2 <= Half /\ 2 * Half <= SizeMod
  BY Sizes DEF Sound
<1>4. pos + n < SizeMod => pos + n <= b.m_deflen
  BY <1>1, <1>2, <1>3
<1>5. Allocated(b, pos, n) => pos + n <= b.m_deflen
  BY <1>2, <1>3, <1>4 DEF Allocated
<1>6. ~Allocated(b, pos, n) => pos + n >= SizeMod
  BY <1>3, <1>4 DEF Allocated
<1>7. n <= 1 => pos + n <= b.m_deflen
  BY <1>2, <1>3, <1>4
<1> QED BY <1>1, <1>2, <1>3, <1>4, <1>5, <1>6, <1>7 DEF e

\* A place in the file is a position of a stream.
LEMMA InFile ==
  ASSUME NEW b, Sound(b), NEW e \in Nat, e <= b.m_deflen
  PROVE  e < SizeMod /\ e \in Size /\ e % SizeMod = e
<1>1. /\ b.m_deflen \in Nat /\ Len(b.bytes) \in Nat /\ b.m_maxlen \in 0 .. Half
      /\ b.m_deflen <= Len(b.bytes) /\ Len(b.bytes) <= b.m_maxlen
      /\ Half \in Nat /\ SizeMod \in Nat \ {0} /\ 2 <= Half /\ 2 * Half <= SizeMod
  BY Sizes DEF Sound
<1>2. e < SizeMod /\ e \in 0 .. SizeMod - 1
  BY <1>1
<1> QED BY <1>1, <1>2, ModSmall DEF Size

LEMMA PieceBytes ==
  ASSUME NEW b, Sound(b), NEW pos \in Nat, NEW n \in Nat, pos + n <= b.m_deflen
  PROVE  /\ Piece(b, pos, n) \in Seq(Bytes) /\ Len(Piece(b, pos, n)) = n
         /\ \A i \in 1 .. n : Piece(b, pos, n)[i] = b.bytes[pos + i]
         /\ Piece(b, pos, n) = SubSeq(FileOf(b), pos + 1, pos + n)
<1> DEFINE f == FileOf(b)
           x == Piece(b, pos, n)
           y == SubSeq(f, pos + 1, pos + n)
<1>1. b.bytes \in Seq(Bytes) /\ b.m_deflen \in Nat /\ b.m_deflen <= Len(b.bytes) /\ Len(b.bytes) \in Nat
  BY DEF Sound
<1>2. f \in Seq(Bytes) /\ Len(f) = b.m_deflen /\ \A i \in 1 .. b.m_deflen : f[i] = b.bytes[i]
  BY FileBytes
<1> HIDE DEF f
<1>3. x \in Seq(Bytes) /\ Len(x) = n /\ \A i \in 1 .. n : x[i] = b.bytes[pos + i]
  <2>1. pos + n <= Len(b.bytes) /\ pos \in Nat /\ n \in Nat
    BY <1>1
  <2> DEFINE all == b.bytes
             from == pos + 1
             to == pos + n
  <2>2. x = SubSeq(all, from, to)
    BY DEF Piece
  <2>3. /\ all \in Seq(Bytes) /\ from \in Nat /\ to \in Nat /\ 1 <= from /\ from <= to + 1 /\ to <= Len(all)
        /\ n = to - from + 1 /\ pos = from - 1
    BY <1>1, <2>1
  <2> HIDE DEF all, from, to, x
  <2>4. SubSeq(all, from, to) \in Seq(Bytes) /\ Len(SubSeq(all, from, to)) = to - from + 1
    BY <2>3
  <2>5. \A i \in 1 .. to - from + 1 : SubSeq(all, from, to)[i] = all[from + i - 1]
    BY <2>3
  <2>6. \A i \in 1 .. n : SubSeq(all, from, to)[i] = all[pos + i]
    <3> SUFFICES ASSUME NEW i \in 1 .. n PROVE SubSeq(all, from, to)[i] = all[pos + i]
      OBVIOUS
    <3>1. i \in 1 .. to - from + 1 /\ from + i - 1 = pos + i
      BY <2>1, <2>3
    <3> QED BY <2>5, <3>1
  <2> QED BY <2>2, <2>3, <2>4, <2>6 DEF all
<1>4. y \in Seq(Bytes) /\ Len(y) = n /\ \A i \in 1 .. n : y[i] = f[pos + i]
  BY <1>1, <1>2
<1> HIDE DEF x, y
<1>5. \A i \in 1 .. n : x[i] = y[i]
  <2> SUFFICES ASSUME NEW i \in 1 .. n PROVE x[i] = y[i]
    OBVIOUS
  <2>1. pos + i \in 1 .. b.m_deflen
    BY <1>1
  <2> QED BY <1>2, <1>3, <1>4, <2>1
<1>6. x = y
  BY <1>3, <1>4, <1>5
<1> QED BY <1>3, <1>6 DEF x, y, f

\* The reader leaves the buffer alone.
LEMMA ReaderStep ==
  ASSUME IInv, UNCHANGED readerVars, ipos' \in Size, got' \in Seq(Bytes),
         fate' \in {"running", "wild", "hung"}
  PROVE  /\ IInv' /\ FileOf(buf') = FileOf(buf) /\ buf' = buf /\ opos' = opos
<1>1. buf' = buf /\ opos' = opos /\ alloc_failed' = alloc_failed
  BY DEF readerVars
<1> QED BY <1>1, InvGives, InvHolds

LEMMA ReadStep ==
  ASSUME IInv, NEW n \in Counts, Read(n)
  PROVE  Good
<1>1. /\ Sound(buf) /\ ipos \in Nat /\ ipos \in Size /\ n \in Nat /\ SizeMod \in Nat /\ buf.m_deflen \in Nat
      /\ <<>> \in Seq(Bytes)
  BY InvGives, Values, Sizes DEF Sound
<1>2. /\ InRange(buf, ipos, n) /\ UNCHANGED readerVars /\ fate = "running"
      /\ IF Allocated(buf, ipos, n)
           THEN got' = Piece(buf, ipos, n) /\ ipos' = (ipos + n) % SizeMod /\ UNCHANGED fate
           ELSE fate' = "wild" /\ got' = <<>> /\ UNCHANGED ipos
  BY DEF Read
<1>3. Reader
  BY DEF Reader
<1>4. ipos + n \in ReadReach
  BY DEF ReadReach
<1>5. /\ Allocated(buf, ipos, n) => ipos + n <= buf.m_deflen
      /\ ~Allocated(buf, ipos, n) => ipos + n >= SizeMod
      /\ (ipos + n) % SizeMod \in Size /\ buf.m_deflen <= Half
  BY <1>1, <1>2, RangeEnd
<1>6. CASE Allocated(buf, ipos, n)
  <2>1. ipos + n <= buf.m_deflen
    BY <1>5, <1>6
  <2>2. Piece(buf, ipos, n) \in Seq(Bytes) /\ Piece(buf, ipos, n) = SubSeq(FileOf(buf), ipos + 1, ipos + n)
    BY <1>1, <2>1, PieceBytes
  <2>3. (ipos + n) % SizeMod = ipos + n
    <3>1. ipos + n \in Nat
      BY <1>1
    <3> QED BY <1>1, <2>1, <3>1, InFile
  <2>4. /\ got' = SubSeq(FileOf(buf), ipos + 1, ipos + n) /\ got' \in Seq(Bytes)
        /\ ipos' = ipos + n /\ ipos' \in Size /\ fate' = "running"
    BY <1>2, <1>5, <1>6, <2>2, <2>3
  <2>5. IInv' /\ FileOf(buf') = FileOf(buf) /\ opos' = opos
    BY <1>2, <2>4, ReaderStep
  <2>6. Len(FileOf(buf)) = buf.m_deflen
    BY <1>1, FileBytes
  <2>7. File!Read(n)
    BY <2>1, <2>4, <2>5, <2>6 DEF File!Read, File!Holds, File!Piece, FileOf
  <2>8. FileStep
    BY <2>7 DEF FileStep, File!Next
  <2> QED BY <2>4, <2>5, <2>8 DEF Good, SurvivesStep
<1>7. CASE ~Allocated(buf, ipos, n)
  <2>1. fate' = "wild" /\ got' = <<>> /\ ipos' = ipos /\ ipos + n >= SizeMod
    BY <1>2, <1>5, <1>7
  <2>2. IInv' /\ FileOf(buf') = FileOf(buf) /\ opos' = opos
    BY <1>1, <1>2, <2>1, ReaderStep
  <2>3. FileStep
    BY <1>1, <2>1, <2>2, FailsStep DEF File!Larger
  <2>4. SurvivesStep
    BY <1>3, <1>4, <2>1 DEF SurvivesStep
  <2> QED BY <2>2, <2>3, <2>4 DEF Good
<1> QED BY <1>6, <1>7

LEMMA ReadSkipStep ==
  ASSUME IInv, NEW n \in Counts, ReadSkip(n)
  PROVE  Good
<1>1. /\ Sound(buf) /\ ipos \in Nat /\ n \in Nat /\ SizeMod \in Nat /\ <<>> \in Seq(Bytes)
  BY InvGives, Values, Sizes
<1>2. /\ InRange(buf, ipos, n) /\ UNCHANGED readerVars /\ fate = "running" /\ fate' = fate
      /\ ipos' = (ipos + n) % SizeMod /\ got' = <<>>
  BY DEF ReadSkip, Skippable
<1>3. /\ ipos + n < SizeMod => ipos + n <= buf.m_deflen
      /\ ipos' \in Size
  BY <1>1, <1>2, RangeEnd
<1>4. IInv' /\ FileOf(buf') = FileOf(buf) /\ opos' = opos
  BY <1>1, <1>2, <1>3, ReaderStep
<1>5. Len(FileOf(buf)) = buf.m_deflen
  BY <1>1, FileBytes
<1>6. ipos + n <= Len(FileOf(buf)) \/ ipos + n >= SizeMod
  BY <1>1, <1>3, <1>5
<1>7. File!ReadSkip(n)
  BY <1>2, <1>4, <1>6 DEF File!ReadSkip, File!Holds, FileOf
<1>8. FileStep
  BY <1>7 DEF FileStep, File!Next
<1> QED BY <1>2, <1>4, <1>8 DEF Good, SurvivesStep

LEMMA NoPiece ==
  ASSUME NEW T, NEW s \in Seq(T), NEW pos \in Nat
  PROVE  SubSeq(s, pos + 1, pos + 0) = <<>>
<1> DEFINE x == SubSeq(s, pos + 1, pos + 0)
<1>1. pos + 0 - (pos + 1) + 1 = 0
  OBVIOUS
<1>2. x \in Seq(T) /\ Len(x) = 0
  BY <1>1
<1> HIDE DEF x
<1>3. x = <<>>
  BY <1>2
<1> QED BY <1>3 DEF x

LEMMA ReadNoThrowStep ==
  ASSUME IInv, NEW n \in Counts, ReadNoThrow(n)
  PROVE  Good
<1> DEFINE d == buf.m_deflen
           f == FileOf(buf)
           left == (d - ipos) % SizeMod
           m == CASE InRange(buf, ipos, n) -> n
                  [] ~InRange(buf, ipos, n) /\ left <= d /\ (ipos + left) % SizeMod <= d -> left
                  [] OTHER -> 0
           fleft == IF ipos < d THEN d - ipos ELSE 0
           fm == IF n < fleft THEN n ELSE fleft
<1>1. /\ Sound(buf) /\ ipos \in Nat /\ ipos \in Size /\ n \in Nat /\ n \in Size
      /\ SizeMod \in Nat \ {0} /\ <<>> \in Seq(Bytes)
  BY InvGives, Values, Sizes
<1>2. /\ UNCHANGED readerVars /\ fate = "running"
      /\ IF Allocated(buf, ipos, m)
           THEN got' = Piece(buf, ipos, m) /\ ipos' = (ipos + m) % SizeMod /\ UNCHANGED fate
           ELSE fate' = "wild" /\ got' = <<>> /\ UNCHANGED ipos
  BY DEF ReadNoThrow
<1>3. Reader /\ ipos + n \in ReadReach
  BY DEF Reader, ReadReach
<1>4. d \in Nat /\ d \in Size /\ d < SizeMod /\ d <= Len(buf.bytes) /\ Len(buf.bytes) \in Nat
  <2>1. d \in Nat /\ d <= Len(buf.bytes) /\ Len(buf.bytes) \in Nat
    BY <1>1 DEF Sound
  <2> HIDE DEF d
  <2>2. d <= buf.m_deflen
    BY <2>1 DEF d
  <2> QED BY <1>1, <2>1, <2>2, InFile
<1>5. f \in Seq(Bytes) /\ Len(f) = d
  BY <1>1, FileBytes
<1>6. left = IF d >= ipos THEN d - ipos ELSE d - ipos + SizeMod
  BY <1>1, <1>4, ModDiff DEF Size
<1> HIDE DEF d, f, left
<1>7. \/ /\ got' = SubSeq(f, ipos + 1, ipos + fm) /\ got' \in Seq(Bytes) /\ ipos' = ipos + fm
         /\ ipos' \in Size /\ fate' = fate
      \/ fate' = "wild" /\ got' = <<>> /\ ipos' = ipos /\ ipos + n >= SizeMod
  <2>1. CASE InRange(buf, ipos, n)
    <3>1. m = n
      BY <2>1
    <3>2. /\ ipos <= d
          /\ Allocated(buf, ipos, n) => ipos + n <= d
          /\ ~Allocated(buf, ipos, n) => ipos + n >= SizeMod
      BY <1>1, <2>1, RangeEnd DEF d
    <3>3. CASE Allocated(buf, ipos, n)
      <4>1. ipos + n <= d /\ ipos + n \in Nat
        BY <1>1, <3>2, <3>3
      <4>2. fm = n
        BY <1>1, <1>4, <3>2, <4>1
      <4>3. Piece(buf, ipos, n) \in Seq(Bytes) /\ Piece(buf, ipos, n) = SubSeq(f, ipos + 1, ipos + n)
        BY <1>1, <4>1, PieceBytes DEF d, f
      <4>4. (ipos + n) % SizeMod = ipos + n /\ ipos + n \in Size
        BY <1>1, <4>1, InFile DEF d
      <4>5. got' = Piece(buf, ipos, n) /\ ipos' = (ipos + n) % SizeMod /\ fate' = fate
        BY <1>2, <3>1, <3>3
      <4> HIDE DEF fm, m
      <4> QED BY <4>2, <4>3, <4>4, <4>5
    <3>4. CASE ~Allocated(buf, ipos, n)
      <4> HIDE DEF m
      <4> QED BY <1>2, <3>1, <3>2, <3>4
    <3> QED BY <3>3, <3>4
  <2>2. CASE ~InRange(buf, ipos, n) /\ ipos <= d
    <3>1. left = d - ipos /\ left \in Nat /\ left <= d /\ ipos + left = d
      BY <1>1, <1>4, <1>6, <2>2
    <3>2. d % SizeMod = d
      BY <1>1, <1>4, InFile DEF d
    <3>3. m = left
      BY <1>4, <2>2, <3>1, <3>2
    <3>4. ~(ipos + n <= d)
      <4>1. ASSUME ipos + n <= d
            PROVE  FALSE
        <5>1. (ipos + n) % SizeMod = ipos + n
          BY <1>1, <4>1, InFile DEF d
        <5>2. n <= d
          BY <1>1, <1>4, <4>1
        <5> QED BY <2>2, <4>1, <5>1, <5>2 DEF InRange, d
      <4> QED BY <4>1
    <3>5. fm = left
      BY <1>1, <1>4, <2>2, <3>1, <3>4
    <3>6. Allocated(buf, ipos, left)
      BY <1>1, <1>4, <3>1 DEF Allocated
    <3>7. Piece(buf, ipos, left) \in Seq(Bytes) /\ Piece(buf, ipos, left) = SubSeq(f, ipos + 1, ipos + left)
      <4>1. ipos + left <= buf.m_deflen
        BY <1>4, <3>1 DEF d
      <4> QED BY <1>1, <3>1, <4>1, PieceBytes DEF f
    <3> HIDE DEF fm, m
    <3> QED BY <1>2, <1>4, <3>1, <3>2, <3>3, <3>5, <3>6, <3>7
  <2>3. CASE ipos > d
    <3>1. ~InRange(buf, ipos, n)
      BY <1>1, <1>4, <2>3 DEF InRange, d
    <3>2. ~(left <= d)
      BY <1>1, <1>4, <1>6, <2>3 DEF Size
    <3>3. m = 0
      BY <3>1, <3>2
    <3>4. fm = 0
      BY <1>1, <1>4, <2>3
    <3>5. Piece(buf, ipos, 0) = <<>>
      <4>1. buf.bytes \in Seq(Bytes)
        BY <1>1 DEF Sound
      <4> QED BY <1>1, <4>1, NoPiece DEF Piece
    <3>6. SubSeq(f, ipos + 1, ipos + 0) = <<>>
      BY <1>1, <1>5, NoPiece
    <3>7. ipos + 0 = ipos /\ ipos % SizeMod = ipos
      BY <1>1, ModSmall DEF Size
    <3>8. Allocated(buf, ipos, 0)
      BY DEF Allocated
    <3> HIDE DEF fm, m
    <3>9. got' = <<>> /\ ipos' = ipos /\ fate' = fate
      BY <1>2, <3>3, <3>5, <3>7, <3>8
    <3> QED BY <1>1, <3>4, <3>6, <3>7, <3>9
  <2> QED BY <1>1, <1>4, <2>1, <2>2, <2>3
<1>8. CASE /\ got' = SubSeq(f, ipos + 1, ipos + fm) /\ got' \in Seq(Bytes) /\ ipos' = ipos + fm
           /\ ipos' \in Size /\ fate' = fate
  <2>1. IInv' /\ FileOf(buf') = FileOf(buf) /\ opos' = opos
    BY <1>2, <1>8, ReaderStep
  <2>2. File!ReadSome(n)
    BY <1>5, <1>8, <2>1 DEF File!ReadSome, File!Piece, FileOf, f, d
  <2>3. FileStep
    BY <2>2 DEF FileStep, File!Next
  <2> QED BY <1>2, <1>8, <2>1, <2>3 DEF Good, SurvivesStep
<1>9. CASE fate' = "wild" /\ got' = <<>> /\ ipos' = ipos /\ ipos + n >= SizeMod
  <2>1. IInv' /\ FileOf(buf') = FileOf(buf) /\ opos' = opos
    BY <1>1, <1>2, <1>9, ReaderStep
  <2>2. FileStep
    BY <1>1, <1>4, <1>9, <2>1, FailsStep DEF File!Larger, d
  <2>3. SurvivesStep
    BY <1>3, <1>9 DEF SurvivesStep
  <2> QED BY <2>1, <2>2, <2>3 DEF Good
<1> QED BY <1>7, <1>8, <1>9

\* What all reads that have several parts have in common.
LEMMA DeliversStep ==
  ASSUME IInv, NEW r, NEW value, Delivers(r, value), r.ends \in {"ok", "throw", "wild"},
         r.pos \in Size, r.ends = "ok" => value \in Seq(Bytes)
  PROVE  /\ IInv' /\ FileOf(buf') = FileOf(buf) /\ opos' = opos /\ ipos' = r.pos /\ fate = "running"
         /\ r.ends = "ok" => got' = value
         /\ r.ends # "ok" => got' = <<>>
         /\ r.ends = "wild" <=> fate' = "wild"
         /\ fate' # "hung"
<1>1. /\ fate = "running" /\ ipos' = r.pos /\ UNCHANGED readerVars
      /\ got' = IF r.ends = "ok" THEN value ELSE <<>>
      /\ fate' = IF r.ends = "wild" THEN "wild" ELSE fate
  BY DEF Delivers
<1>2. <<>> \in Seq(Bytes)
  OBVIOUS
<1>3. got' \in Seq(Bytes)
  BY <1>1, <1>2
<1>4. fate' \in {"running", "wild"} /\ (r.ends = "wild" <=> fate' = "wild")
  BY <1>1
<1>5. IInv' /\ FileOf(buf') = FileOf(buf) /\ opos' = opos
  BY <1>1, <1>3, <1>4, ReaderStep
<1> QED BY <1>1, <1>4, <1>5

\* Where a read that fails may leave the stream, and where one may run out of
\* the buffer that reads extra bytes behind as many as the number says.
Failed(b, pos, extra, r) ==
  \/ /\ r.ends = "throw" /\ r.pos \in Nat
     /\ pos <= r.pos /\ r.pos <= File!Larger(pos, b.m_deflen)
  \/ /\ r.ends = "wild" /\ r.pos = pos + 1 /\ pos + 1 <= b.m_deflen
     /\ pos + 1 + b.bytes[pos + 1] + extra >= SizeMod

LEMMA ByteValues == \A x \in Bytes : x \in Nat /\ x < SizeMod
<1>1. Bytes \subseteq 0 .. SizeMod - 1 /\ SizeMod \in Nat
  BY Sizes DEF Size
<1>2. \A x \in 0 .. SizeMod - 1 : x \in Nat /\ x < SizeMod
  BY <1>1
<1> QED BY <1>1, <1>2

\* The first byte of a read, a number.
LEMMA FirstByte ==
  ASSUME NEW b, Sound(b), NEW pos \in Nat, InRange(b, pos, 1)
  PROVE  /\ pos + 1 <= b.m_deflen /\ pos + 1 \in 1 .. b.m_deflen /\ b.m_deflen \in Nat
         /\ b.bytes[pos + 1] \in Bytes /\ b.bytes[pos + 1] \in Nat
         /\ FileOf(b)[pos + 1] = b.bytes[pos + 1]
<1>1. pos + 1 <= b.m_deflen /\ b.m_deflen \in Nat
  BY RangeEnd
<1>2. pos + 1 \in 1 .. b.m_deflen
  BY <1>1
<1>3. b.bytes \in Seq(Bytes) /\ b.m_deflen <= Len(b.bytes) /\ Len(b.bytes) \in Nat
  BY DEF Sound
<1>4. pos + 1 \in 1 .. Len(b.bytes)
  BY <1>1, <1>2, <1>3
<1>5. b.bytes[pos + 1] \in Bytes
  BY <1>3, <1>4
<1>6. FileOf(b)[pos + 1] = b.bytes[pos + 1]
  BY <1>2, FileBytes
<1>7. b.bytes[pos + 1] \in Nat
  BY <1>5, ByteValues
<1> QED BY <1>1, <1>2, <1>5, <1>6, <1>7

\* is >> other.
LEMMA BufferAtWell ==
  ASSUME NEW b, Sound(b), NEW pos \in Nat
  PROVE  LET r == BufferAt(b, pos)
             n == b.bytes[pos + 1]
         IN  \/ Failed(b, pos, 0, r)
             \/ /\ r = Took(Piece(b, pos + 1, n), pos + 1 + n) /\ n \in Nat
                /\ InRange(b, pos, 1) /\ pos + 1 + n <= b.m_deflen
<1> DEFINE r == BufferAt(b, pos)
           n == b.bytes[pos + 1]
<1>1. b.m_deflen \in Nat
  BY DEF Sound
<1> SUFFICES \/ Failed(b, pos, 0, r)
             \/ /\ r = Took(Piece(b, pos + 1, n), pos + 1 + n) /\ n \in Nat
                /\ InRange(b, pos, 1) /\ pos + 1 + n <= b.m_deflen
  OBVIOUS
<1>2. CASE ~InRange(b, pos, 1)
  <2>1. r = Threw(pos)
    BY <1>2 DEF BufferAt
  <2> HIDE DEF r
  <2>2. r.ends = "throw" /\ r.pos = pos
    BY <2>1 DEF Threw
  <2> QED BY <1>1, <2>2 DEF Failed, File!Larger
<1>3. CASE InRange(b, pos, 1) /\ ~Skippable(b, pos + 1, n)
  <2>1. r = Threw(pos + 1)
    BY <1>3 DEF BufferAt
  <2>2. pos + 1 <= b.m_deflen
    BY <1>3, FirstByte
  <2> HIDE DEF r
  <2>3. r.ends = "throw" /\ r.pos = pos + 1
    BY <2>1 DEF Threw
  <2> QED BY <1>1, <2>2, <2>3 DEF Failed, File!Larger
<1>4. CASE InRange(b, pos, 1) /\ Skippable(b, pos + 1, n)
  <2>1. r = Behind(b, pos + 1, n, n)
    BY <1>4 DEF BufferAt
  <2>2. pos + 1 <= b.m_deflen /\ n \in Nat /\ pos + 1 \in Nat
    BY <1>4, FirstByte
  <2> HIDE DEF n, r
  <2>3. InRange(b, pos + 1, n)
    BY <1>4 DEF Skippable
  <2>4. CASE Allocated(b, pos + 1, n)
    <3>1. pos + 1 + n <= b.m_deflen
      BY <2>2, <2>3, <2>4, RangeEnd
    <3>2. r = Took(Piece(b, pos + 1, n), pos + 1 + n)
      BY <2>1, <2>4 DEF Behind
    <3> QED BY <1>4, <2>2, <3>1, <3>2
  <2>5. CASE ~Allocated(b, pos + 1, n)
    <3>1. pos + 1 + n >= SizeMod
      BY <2>2, <2>3, <2>5, RangeEnd
    <3>2. r = Ran(pos + 1)
      BY <2>1, <2>5 DEF Behind
    <3>3. r.ends = "wild" /\ r.pos = pos + 1
      BY <3>2 DEF Ran
    <3>4. pos + 1 + n + 0 >= SizeMod
      BY <2>2, <3>1
    <3> QED BY <2>2, <3>3, <3>4 DEF Failed, n
  <2> QED BY <2>4, <2>5
<1> QED BY <1>2, <1>3, <1>4

\* A read that fails is one of the file that fails, and runs out of the
\* buffer only where Survives says.
LEMMA FailedStep ==
  ASSUME IInv, NEW extra \in 0 .. 1, NEW r, Failed(buf, ipos, extra, r), Reader,
         NEW value, Delivers(r, value)
  PROVE  Good
<1>1. /\ Sound(buf) /\ ipos \in Nat /\ ipos \in Size /\ SizeMod \in Nat /\ buf.m_deflen \in Nat
  BY InvGives, Sizes DEF Sound
<1>2. ipos <= r.pos /\ r.pos <= File!Larger(ipos, buf.m_deflen) /\ r.pos \in Nat
  BY <1>1 DEF Failed, File!Larger
<1>3. r.pos \in Size
  <2>1. r.pos <= ipos \/ r.pos <= buf.m_deflen
    BY <1>1, <1>2 DEF File!Larger
  <2>2. ipos < SizeMod
    BY <1>1 DEF Size
  <2>3. r.pos <= ipos => r.pos < SizeMod
    BY <1>1, <1>2, <2>2
  <2>4. r.pos <= buf.m_deflen => r.pos < SizeMod
    BY <1>1, <1>2, InFile
  <2>5. r.pos < SizeMod
    BY <2>1, <2>3, <2>4
  <2> QED BY <1>1, <1>2, <2>5 DEF Size
<1>4. r.ends \in {"throw", "wild"}
  BY DEF Failed
<1>5. /\ IInv' /\ FileOf(buf') = FileOf(buf) /\ opos' = opos /\ ipos' = r.pos
      /\ got' = <<>> /\ (r.ends = "wild" <=> fate' = "wild") /\ fate' # "hung"
  BY <1>3, <1>4, DeliversStep
<1>6. FileStep
  BY <1>2, <1>5, FailsStep
<1>7. SurvivesStep
  <2>1. CASE fate' = "wild"
    <3> DEFINE n == buf.bytes[ipos + 1]
               e == ipos + n + 2
    <3>1. ipos + 1 <= buf.m_deflen /\ ipos + 1 + n + extra >= SizeMod
      BY <1>4, <1>5, <2>1 DEF Failed
    <3>2. ipos + 1 \in 1 .. buf.m_deflen
      BY <1>1, <3>1
    <3>3. n \in Nat
      <4>1. buf.bytes \in Seq(Bytes) /\ buf.m_deflen <= Len(buf.bytes) /\ Len(buf.bytes) \in Nat
        BY <1>1 DEF Sound
      <4>2. ipos + 1 \in 1 .. Len(buf.bytes)
        BY <1>1, <3>2, <4>1
      <4>3. n \in Bytes
        BY <4>1, <4>2
      <4> QED BY <4>3, ByteValues
    <3>4. e \in ReadReach
      BY <3>2 DEF ReadReach
    <3> HIDE DEF n
    <3>5. e >= SizeMod
      BY <1>1, <3>1, <3>3
    <3> HIDE DEF e
    <3> QED BY <1>5, <3>4, <3>5 DEF SurvivesStep
  <2> QED BY <1>5, <2>1 DEF SurvivesStep
<1> QED BY <1>5, <1>6, <1>7 DEF Good

LEMMA ReadBufferStep ==
  ASSUME IInv, NEW old \in Strings, ReadBuffer(old)
  PROVE  Good
<1> DEFINE r == BufferAt(buf, ipos)
           n == buf.bytes[ipos + 1]
           f == FileOf(buf)
           end == SubSeq(old, Len(r.item) + 1, Len(old))
           value == r.item \o end
<1>1. /\ Sound(buf) /\ ipos \in Nat /\ ipos \in Size /\ SizeMod \in Nat /\ buf.m_deflen \in Nat
      /\ old \in Seq(Bytes) /\ Len(old) \in Nat
  BY InvGives, Sizes, Values DEF Sound
<1>2. Reader /\ (Delivers(r, value) \/ (r.ends = "ok" /\ Delivers(Threw(r.pos), <<>>)))
  <2>1. Reader
    BY DEF Reader
  <2>2. Delivers(r, value) \/ (r.ends = "ok" /\ Delivers(Threw(r.pos), <<>>))
    BY DEF ReadBuffer
  <2> QED BY <2>1, <2>2
<1>3. CASE Failed(buf, ipos, 0, r)
  <2>1. Delivers(r, value)
    BY <1>2, <1>3 DEF Failed
  <2> HIDE DEF r, value
  <2> QED BY <1>2, <1>3, <2>1, FailedStep
\* The other buffer throws.
<1>5. CASE /\ r = Took(Piece(buf, ipos + 1, n), ipos + 1 + n) /\ n \in Nat
           /\ InRange(buf, ipos, 1) /\ ipos + 1 + n <= buf.m_deflen
           /\ Delivers(Threw(r.pos), <<>>)
  <2>1. r.pos = ipos + 1 + n
    <3> HIDE DEF r
    <3> QED BY <1>5 DEF Took
  <2> DEFINE x == Threw(r.pos)
  <2>2. x.ends = "throw" /\ x.pos = ipos + 1 + n
    BY <2>1 DEF Threw
  <2>3. Delivers(x, <<>>)
    BY <1>5
  <2>4. ipos + 1 + n \in Nat /\ ipos <= ipos + 1 + n /\ ipos + 1 + n <= buf.m_deflen
    <3>1. n \in Nat /\ ipos + 1 + n <= buf.m_deflen
      BY <1>5
    <3> HIDE DEF n
    <3> QED BY <1>1, <3>1
  <2> HIDE DEF r, n, x
  <2>5. Failed(buf, ipos, 0, x)
    BY <1>1, <2>2, <2>4 DEF Failed, File!Larger
  <2> QED BY <1>2, <2>3, <2>5, FailedStep
<1>4. CASE /\ r = Took(Piece(buf, ipos + 1, n), ipos + 1 + n) /\ n \in Nat
           /\ InRange(buf, ipos, 1) /\ ipos + 1 + n <= buf.m_deflen
           /\ Delivers(r, value)
  <2>1. r.ends = "ok" /\ r.item = Piece(buf, ipos + 1, n) /\ r.pos = ipos + 1 + n
    <3> HIDE DEF r
    <3> QED BY <1>4 DEF Took
  <2>2. /\ r.item \in Seq(Bytes) /\ Len(r.item) = n
        /\ r.item = SubSeq(f, ipos + 1 + 1, ipos + 1 + n)
    <3>1. ipos + 1 \in Nat
      BY <1>1
    <3> DEFINE x == Piece(buf, ipos + 1, n)
    <3> HIDE DEF r, n
    <3>2. x \in Seq(Bytes) /\ Len(x) = n /\ x = SubSeq(f, ipos + 1 + 1, ipos + 1 + n)
      BY <1>1, <1>4, <3>1, PieceBytes
    <3> HIDE DEF x, f
    <3> QED BY <2>1, <3>2 DEF x
  <2>3. end \in Seq(Bytes)
    <3>1. end = SubSeq(old, n + 1, Len(old)) /\ n \in Nat
      BY <1>4, <2>2
    <3>2. SubSeq(old, n + 1, Len(old)) \in Seq(Bytes)
      <4> HIDE DEF n
      <4> QED BY <1>1, <3>1
    <3> QED BY <3>1, <3>2
  <2>4. value \in Seq(Bytes)
    <3> HIDE DEF end, r
    <3> QED BY <2>2, <2>3
  <2>5. r.pos \in Size /\ n \in 0 .. buf.m_deflen
    <3>1. ipos + 1 + n \in Nat /\ n <= buf.m_deflen
      BY <1>1, <1>4
    <3> HIDE DEF r, n
    <3> QED BY <1>1, <1>4, <2>1, <3>1, InFile
  <2> HIDE DEF r
  <2>6. /\ IInv' /\ FileOf(buf') = f /\ opos' = opos /\ ipos' = ipos + 1 + n
        /\ got' = value /\ fate' # "wild" /\ fate' # "hung"
    BY <1>4, <2>1, <2>4, <2>5, DeliversStep
  <2>7. f[ipos + 1] = n /\ Len(f) = buf.m_deflen
    BY <1>1, <1>4, FirstByte, FileBytes
  <2>8. got' = SubSeq(f, ipos + 1 + 1, ipos + 1 + n) \o SubSeq(old, n + 1, Len(old))
    BY <2>2, <2>6
  <2> HIDE DEF n, f, value
  <2>9. ipos + (n + 1) <= Len(f) /\ ipos + 1 + n = ipos + n + 1
    BY <1>1, <1>4, <2>7
  <2>10. File!ReadBuffer(n, old)
    BY <2>6, <2>7, <2>8, <2>9
       DEF File!ReadBuffer, File!Holds, File!Piece, FileOf, f
  <2>11. FileStep
    BY <2>5, <2>7, <2>10 DEF FileStep, File!Next, FileOf, f
  <2> QED BY <2>6, <2>11 DEF Good, SurvivesStep
<1> QED BY <1>1, <1>2, <1>3, <1>4, <1>5, BufferAtWell

\* is >> vec.
LEMMA ReadVectorStep ==
  ASSUME IInv, NEW old \in Strings, ReadVector(old)
  PROVE  Good
<1> DEFINE r == VectorAt(buf, ipos)
           int == buf.bytes[ipos + 1]
           d == buf.m_deflen
           f == FileOf(buf)
           num == IF int < SizeMod \div 2 THEN int ELSE 0
           left == d - (ipos + 1)
           n == IF num < left THEN num ELSE left
           item == Piece(buf, ipos + 1, n)
           value == old \o r.item
<1>1. /\ Sound(buf) /\ ipos \in Nat /\ ipos \in Size /\ SizeMod \in Nat /\ d \in Nat
      /\ old \in Seq(Bytes) /\ <<>> \in Seq(Bytes)
  BY InvGives, Sizes, Values DEF Sound
<1>2. Delivers(r, value)
  BY DEF ReadVector
<1>3. Reader
  BY DEF Reader
<1>4. CASE ~InRange(buf, ipos, 1)
  <2>1. r = Threw(ipos)
    BY <1>4 DEF VectorAt
  <2> HIDE DEF r, value
  <2>2. r.ends = "throw" /\ r.pos = ipos
    BY <2>1 DEF Threw
  <2>3. Failed(buf, ipos, 0, r)
    BY <1>1, <2>2 DEF Failed, File!Larger
  <2> QED BY <1>2, <1>3, <2>3, FailedStep
<1>5. CASE InRange(buf, ipos, 1)
  <2>1. r = Took(item, ipos + 1 + n)
    BY <1>5 DEF VectorAt
  <2>2. ipos + 1 <= d /\ int \in Nat /\ f[ipos + 1] = int /\ ipos + 1 \in Nat
    BY <1>1, <1>5, FirstByte
  <2> HIDE DEF r, int, d, f, value
  <2>3. left \in Nat /\ num \in Nat
    BY <1>1, <2>2
  <2>4. n \in Nat /\ ipos + 1 + n <= d /\ n <= d
    BY <1>1, <2>2, <2>3
  <2>5. \/ n = int
        \/ n < int /\ (ipos + n + 1 = d \/ (n = 0 /\ int >= SizeMod \div 2))
    <3>1. SizeMod \div 2 \in Nat /\ SizeMod \div 2 > 0
      BY Sizes DEF Half
    <3> DEFINE half == SizeMod \div 2
    <3> HIDE DEF half
    <3>2. CASE int < SizeMod \div 2
      <4>1. num = int
        BY <3>2
      <4>2. n = IF int < left THEN int ELSE left
        BY <4>1
      <4> HIDE DEF n
      <4> QED BY <1>1, <2>2, <2>3, <4>2
    <3>3. CASE ~(int < SizeMod \div 2)
      <4>1. num = 0
        BY <3>3
      <4>2. n = 0
        BY <2>3, <4>1
      <4> HIDE DEF n
      <4> QED BY <2>2, <3>1, <3>3, <4>2
    <3> QED BY <3>2, <3>3
  <2> HIDE DEF n, item
  <2>6. r.ends = "ok" /\ r.item = item /\ r.pos = ipos + 1 + n
    BY <2>1 DEF Took
  <2>7. item \in Seq(Bytes) /\ item = SubSeq(f, ipos + 1 + 1, ipos + 1 + n)
    BY <1>1, <2>2, <2>4, PieceBytes DEF item, f, d
  <2>8. value = old \o item
    BY <2>6 DEF value
  <2>9. value \in Seq(Bytes)
    BY <1>1, <2>7, <2>8
  <2>10. r.pos \in Size
    <3>1. ipos + 1 + n \in Nat
      BY <1>1, <2>4
    <3> QED BY <1>1, <2>4, <2>6, <3>1, InFile DEF d
  <2>11. /\ IInv' /\ FileOf(buf') = f /\ opos' = opos /\ ipos' = ipos + 1 + n
         /\ got' = value /\ fate' # "wild" /\ fate' # "hung"
    BY <1>2, <2>6, <2>9, <2>10, DeliversStep DEF f
  <2>12. Len(f) = d
    BY <1>1, FileBytes DEF f, d
  <2>13. ipos + (n + 1) <= Len(f) /\ ipos + 1 + n = ipos + n + 1 /\ n \in 0 .. Len(f)
    BY <1>1, <2>4, <2>12
  <2>14. got' = old \o SubSeq(f, ipos + 1 + 1, ipos + 1 + n)
    BY <2>7, <2>8, <2>11
  <2>15. File!ReadVector(n, old)
    BY <2>2, <2>5, <2>11, <2>12, <2>13, <2>14
       DEF File!ReadVector, File!Holds, File!Piece, FileOf, f
  <2>16. FileStep
    BY <2>13, <2>15 DEF FileStep, File!Next, FileOf, f
  <2> QED BY <2>11, <2>16 DEF Good, SurvivesStep
<1> QED BY <1>4, <1>5

\* A C string ends in front of the first 0.
LEMMA CStringEnd ==
  ASSUME NEW s \in Seq(Bytes)
  PROVE  \E k \in 0 .. Len(s) :
           /\ CString(s) = SubSeq(s, 1, k) /\ CString(s) \in Seq(Bytes) /\ Len(CString(s)) = k
           /\ \A i \in 1 .. k : CString(s)[i] = s[i] /\ s[i] # 0
           /\ k < Len(s) => s[k + 1] = 0
<1> DEFINE Zeros == {i \in 1 .. Len(s) : s[i] = 0}
<1>1. Len(s) \in Nat
  OBVIOUS
<1>2. CASE Zeros = {}
  <2>1. CString(s) = s
    BY <1>2 DEF CString
  <2>2. SubSeq(s, 1, Len(s)) = s
    BY WholePart
  <2>3. \A i \in 1 .. Len(s) : s[i] # 0
    BY <1>2
  <2> HIDE DEF Zeros
  <2>4. Len(s) \in 0 .. Len(s) /\ ~(Len(s) < Len(s))
    BY <1>1
  <2> DEFINE k == Len(s)
  <2> HIDE DEF k
  <2>5. k \in 0 .. k /\ ~(k < k) /\ k = Len(s)
    BY <2>4 DEF k
  <2>6. /\ CString(s) = SubSeq(s, 1, k) /\ CString(s) \in Seq(Bytes) /\ Len(CString(s)) = k
        /\ \A i \in 1 .. k : CString(s)[i] = s[i] /\ s[i] # 0
    BY <2>1, <2>2, <2>3, <2>5
  <2> QED BY <2>5, <2>6
<1>3. CASE Zeros # {}
  <2> DEFINE z == CHOOSE i \in Zeros : \A j \in Zeros : i <= j
             k == z - 1
             x == SubSeq(s, 1, k)
  <2>1. CString(s) = x
    BY <1>3 DEF CString
  <2>2. z \in Zeros /\ \A j \in Zeros : z <= j
    <3>1. Zeros \subseteq Nat
      BY <1>1
    <3> HIDE DEF Zeros
    <3>2. \E i \in Zeros : \A j \in Zeros : i <= j
      BY <1>3, <3>1, LeastNatural
    <3> QED BY <3>2
  <2> HIDE DEF z
  <2>3. z \in 1 .. Len(s) /\ s[z] = 0 /\ k \in Nat /\ k + 1 = z /\ k \in 0 .. Len(s)
    BY <1>1, <2>2
  <2>4. ASSUME NEW i \in 1 .. k
        PROVE  s[i] # 0
    <3>1. i \in 1 .. Len(s) /\ ~(z <= i)
      BY <1>1, <2>3
    <3> QED BY <2>2, <3>1
  <2> HIDE DEF k
  <2>5. x \in Seq(Bytes) /\ Len(x) = k /\ \A i \in 1 .. k : x[i] = s[i]
    BY <2>3
  <2> HIDE DEF x, Zeros
  <2>6. \A i \in 1 .. k : x[i] = s[i] /\ s[i] # 0
    BY <2>4, <2>5
  <2>7. k < Len(s) => s[k + 1] = 0
    BY <2>3
  <2> QED BY <2>1, <2>3, <2>5, <2>6, <2>7 DEF x
<1> QED BY <1>2, <1>3

\* What both forms of is >> str do, for a string whose length is n.
StringRead(b, pos, r) ==
  \/ Failed(b, pos, 0, r) \/ Failed(b, pos, 1, r)
  \/ LET n == b.bytes[pos + 1]
     IN  /\ r = Took(Piece(b, pos + 1, n), pos + n + 2) /\ n \in Nat
         /\ InRange(b, pos, 1) /\ pos + n + 2 <= b.m_deflen
         /\ b.bytes[pos + n + 2] = 0

\* The last of what they check.
LEMMA TerminatedWell ==
  ASSUME NEW b, Sound(b), NEW pos \in Nat, InRange(b, pos, 1), NEW n, n = b.bytes[pos + 1], n \in Nat,
         pos + n + 2 <= b.m_deflen
  PROVE  StringRead(b, pos, Terminated(b, Took(Piece(b, pos + 1, n), pos + n + 2)))
<1> DEFINE p == Took(Piece(b, pos + 1, n), pos + n + 2)
           r == Terminated(b, p)
<1>1. p.ends = "ok" /\ p.pos = pos + n + 2
  BY DEF Took
<1>2. CASE b.bytes[pos + n + 2] = 0
  <2>1. r = p
    BY <1>1, <1>2 DEF Terminated
  <2> QED BY <1>2, <2>1 DEF StringRead
<1>3. CASE b.bytes[pos + n + 2] # 0
  <2>1. r = Threw(pos + n + 2)
    BY <1>1, <1>3 DEF Terminated
  <2> HIDE DEF r
  <2>2. r.ends = "throw" /\ r.pos = pos + n + 2
    BY <2>1 DEF Threw
  <2>3. r.pos \in Nat /\ pos <= r.pos /\ r.pos <= b.m_deflen /\ b.m_deflen \in Nat
    BY <2>2 DEF Sound
  <2>4. r.pos <= File!Larger(pos, b.m_deflen)
    BY <2>3 DEF File!Larger
  <2> QED BY <2>2, <2>3, <2>4 DEF StringRead, Failed, r
<1> QED BY <1>2, <1>3

LEMMA StringAtWell ==
  ASSUME NEW b, Sound(b), NEW pos \in Nat
  PROVE  StringRead(b, pos, StringAt(b, pos))
<1> DEFINE r == BufferAt(b, pos)
           n == b.bytes[pos + 1]
           s == StringAt(b, pos)
<1>1. b.m_deflen \in Nat
  BY DEF Sound
<1>2. CASE Failed(b, pos, 0, r)
  <2>1. r.ends # "ok"
    BY <1>2 DEF Failed
  <2>2. s = r
    BY <2>1 DEF StringAt
  <2> HIDE DEF r, s
  <2>3. Failed(b, pos, 0, s)
    BY <1>2, <2>2
  <2> QED BY <2>3 DEF StringRead, s
<1>3. CASE /\ r = Took(Piece(b, pos + 1, n), pos + 1 + n) /\ n \in Nat
           /\ InRange(b, pos, 1) /\ pos + 1 + n <= b.m_deflen
  <2> DEFINE e == pos + 1 + n
  <2>1. e \in Nat /\ e + 1 = pos + n + 2
    <3> HIDE DEF n
    <3> QED BY <1>3
  <2>2. CASE ~Skippable(b, e, 1)
    <3>1. s = Threw(e)
      <4>1. r.ends = "ok" /\ r.pos = e
        <5> HIDE DEF r
        <5> QED BY <1>3 DEF Took
      <4> QED BY <2>2, <4>1 DEF StringAt
    <3> HIDE DEF s
    <3>2. s.ends = "throw" /\ s.pos = e
      BY <3>1 DEF Threw
    <3> HIDE DEF n
    <3>3. pos <= e /\ e <= File!Larger(pos, b.m_deflen)
      BY <1>1, <1>3, <2>1 DEF File!Larger
    <3>4. Failed(b, pos, 0, s)
      BY <2>1, <3>2, <3>3 DEF Failed
    <3> QED BY <3>4 DEF StringRead, s
  <2>3. CASE Skippable(b, e, 1)
    <3>1. s = Terminated(b, [r EXCEPT !.pos = @ + 1])
      <4>1. r.ends = "ok" /\ r.pos = e
        <5> HIDE DEF r
        <5> QED BY <1>3 DEF Took
      <4> QED BY <2>3, <4>1 DEF StringAt
    <3>2. [r EXCEPT !.pos = @ + 1] = Took(Piece(b, pos + 1, n), pos + n + 2)
      <4> HIDE DEF r, n
      <4> QED BY <1>3, <2>1 DEF Took
    <3>3. InRange(b, e, 1)
      BY <2>3 DEF Skippable
    <3>4. e + 1 <= b.m_deflen
      <4> HIDE DEF e
      <4> QED BY <2>1, <3>3, RangeEnd
    <3>5. pos + n + 2 <= b.m_deflen
      BY <2>1, <3>4
    <3> HIDE DEF r, e, s
    <3>6. StringRead(b, pos, Terminated(b, Took(Piece(b, pos + 1, n), pos + n + 2)))
      BY <1>3, <3>5, TerminatedWell
    <3> QED BY <3>1, <3>2, <3>6 DEF s
  <2> QED BY <2>2, <2>3
<1> QED BY <1>2, <1>3, BufferAtWell

LEMMA StringWithinWell ==
  ASSUME NEW b, Sound(b), NEW pos \in Nat, NEW maxlen
  PROVE  StringRead(b, pos, StringWithin(b, pos, maxlen))
<1> DEFINE n == b.bytes[pos + 1]
           s == StringWithin(b, pos, maxlen)
           Refused == maxlen = 0 \/ n > maxlen - 1 \/ ~Skippable(b, pos + 1, n + 1)
<1>1. b.m_deflen \in Nat
  BY DEF Sound
<1>2. ASSUME NEW e \in Nat, s = Threw(e), pos <= e, e <= File!Larger(pos, b.m_deflen)
      PROVE  StringRead(b, pos, s)
  <2> HIDE DEF s
  <2>1. s.ends = "throw" /\ s.pos = e
    BY <1>2 DEF Threw
  <2>2. Failed(b, pos, 0, s)
    BY <1>2, <2>1 DEF Failed
  <2> QED BY <2>2 DEF StringRead
<1>3. CASE ~InRange(b, pos, 1)
  <2>1. s = Threw(pos)
    BY <1>3 DEF StringWithin
  <2>2. pos <= pos /\ pos <= File!Larger(pos, b.m_deflen)
    BY <1>1 DEF File!Larger
  <2> HIDE DEF s
  <2> QED BY <1>2, <2>1, <2>2 DEF s
<1>4. CASE InRange(b, pos, 1) /\ Refused
  <2>1. s = Threw(pos + 1)
    BY <1>4 DEF StringWithin
  <2>2. pos + 1 <= b.m_deflen
    BY <1>4, FirstByte
  <2>3. pos + 1 \in Nat /\ pos <= pos + 1 /\ pos + 1 <= File!Larger(pos, b.m_deflen)
    BY <1>1, <2>2 DEF File!Larger
  <2> HIDE DEF s
  <2> QED BY <1>2, <2>1, <2>3 DEF s
<1>5. CASE InRange(b, pos, 1) /\ ~Refused
  <2>1. s = Terminated(b, Behind(b, pos + 1, n + 1, n))
    BY <1>5 DEF StringWithin
  <2>2. pos + 1 <= b.m_deflen /\ n \in Nat
    BY <1>5, FirstByte
  <2>3. InRange(b, pos + 1, n + 1)
    BY <1>5 DEF Skippable
  <2> HIDE DEF n, s
  <2>4. pos + 1 \in Nat /\ n + 1 \in Nat /\ pos + 1 + (n + 1) = pos + n + 2
    BY <2>2
  <2>5. CASE Allocated(b, pos + 1, n + 1)
    <3>1. pos + n + 2 <= b.m_deflen
      BY <2>3, <2>4, <2>5, RangeEnd
    <3>2. s = Terminated(b, Took(Piece(b, pos + 1, n), pos + n + 2))
      BY <2>1, <2>4, <2>5 DEF Behind
    <3>3. n = b.bytes[pos + 1]
      BY DEF n
    <3>4. StringRead(b, pos, Terminated(b, Took(Piece(b, pos + 1, n), pos + n + 2)))
      BY <1>5, <2>2, <3>1, <3>3, TerminatedWell
    <3> QED BY <3>2, <3>4 DEF s
  <2>6. CASE ~Allocated(b, pos + 1, n + 1)
    <3>1. pos + 1 + (n + 1) >= SizeMod
      BY <2>3, <2>4, <2>6, RangeEnd
    <3>2. s = Ran(pos + 1)
      BY <2>1, <2>6 DEF Behind, Ran, Terminated
    <3>3. s.ends = "wild" /\ s.pos = pos + 1
      BY <3>2 DEF Ran
    <3>4. pos + 1 + n + 1 >= SizeMod
      BY <2>2, <3>1
    <3>5. Failed(b, pos, 1, s)
      BY <2>2, <3>3, <3>4 DEF Failed, n
    <3> QED BY <3>5 DEF StringRead, s
  <2> QED BY <2>5, <2>6
<1> QED BY <1>3, <1>4, <1>5

LEMMA StringReadStep ==
  ASSUME IInv, NEW r, StringRead(buf, ipos, r), Delivers(r, CString(r.item)), Reader
  PROVE  Good
<1> DEFINE n == buf.bytes[ipos + 1]
           d == buf.m_deflen
           f == FileOf(buf)
           item == Piece(buf, ipos + 1, n)
           value == CString(item)
<1>1. /\ Sound(buf) /\ ipos \in Nat /\ ipos \in Size /\ SizeMod \in Nat /\ d \in Nat /\ Len(f) = d
  BY InvGives, Sizes, FileBytes DEF Sound
<1>2. CASE Failed(buf, ipos, 0, r) \/ Failed(buf, ipos, 1, r)
  <2>1. 0 \in 0 .. 1 /\ 1 \in 0 .. 1
    OBVIOUS
  <2> QED BY <1>2, <2>1, FailedStep
<1>3. CASE /\ r = Took(item, ipos + n + 2) /\ n \in Nat
           /\ InRange(buf, ipos, 1) /\ ipos + n + 2 <= d
           /\ buf.bytes[ipos + n + 2] = 0
  <2>1. f[ipos + 1] = n /\ ipos + 1 <= d /\ ipos + 1 \in Nat
    BY <1>1, <1>3, FirstByte
  <2> HIDE DEF n, d, f
  <2>2. ipos + 1 + n <= d /\ ipos + n + 2 \in 1 .. d /\ n \in 0 .. d /\ ipos + n + 2 \in Nat
    BY <1>1, <1>3
  <2>3. f[ipos + n + 2] = 0
    BY <1>1, <1>3, <2>2, FileBytes DEF f, d
  <2>4. /\ item \in Seq(Bytes) /\ Len(item) = n
        /\ \A i \in 1 .. n : item[i] = buf.bytes[ipos + 1 + i]
    <3> DEFINE e == ipos + 1
    <3>1. e \in Nat /\ e + n <= buf.m_deflen /\ n \in Nat
      BY <1>3, <2>1, <2>2 DEF d
    <3> HIDE DEF e
    <3>2. /\ Piece(buf, e, n) \in Seq(Bytes) /\ Len(Piece(buf, e, n)) = n
          /\ \A i \in 1 .. n : Piece(buf, e, n)[i] = buf.bytes[e + i]
      BY <1>1, <3>1, PieceBytes
    <3> QED BY <3>2 DEF e
  <2> HIDE DEF item
  <2>5. PICK k \in 0 .. n :
          /\ value = SubSeq(item, 1, k) /\ value \in Seq(Bytes) /\ Len(value) = k
          /\ \A i \in 1 .. k : value[i] = item[i] /\ item[i] # 0
          /\ k < n => item[k + 1] = 0
    BY <2>4, CStringEnd
  <2> HIDE DEF value
  <2>6. k \in Nat /\ ipos + 1 + k <= d /\ k <= n
    BY <1>1, <1>3, <2>2
  <2> DEFINE x == SubSeq(f, ipos + 1 + 1, ipos + 1 + k)
  <2>7. value = x
    <3> DEFINE y == Piece(buf, ipos + 1, k)
    <3>1. /\ y \in Seq(Bytes) /\ Len(y) = k /\ y = x
          /\ \A i \in 1 .. k : y[i] = buf.bytes[ipos + 1 + i]
      <4> DEFINE e == ipos + 1
      <4>1. e \in Nat /\ e + k <= buf.m_deflen /\ k \in Nat
        BY <2>1, <2>6 DEF d
      <4> HIDE DEF e
      <4>2. /\ Piece(buf, e, k) \in Seq(Bytes) /\ Len(Piece(buf, e, k)) = k
            /\ Piece(buf, e, k) = SubSeq(f, e + 1, e + k)
            /\ \A i \in 1 .. k : Piece(buf, e, k)[i] = buf.bytes[e + i]
        BY <1>1, <4>1, PieceBytes DEF f
      <4> QED BY <4>2 DEF e
    <3> HIDE DEF x, y
    <3>2. \A i \in 1 .. k : value[i] = y[i]
      <4> SUFFICES ASSUME NEW i \in 1 .. k PROVE value[i] = y[i]
        OBVIOUS
      <4>1. i \in 1 .. n
        BY <1>3, <2>6
      <4> QED BY <2>4, <2>5, <3>1, <4>1
    <3>3. value = y
      BY <2>5, <3>1, <3>2
    <3> QED BY <3>1, <3>3
  <2> HIDE DEF x
  <2>8. f[ipos + k + 2] = 0
    <3>1. CASE k = n
      BY <2>3, <3>1
    <3>2. CASE k < n
      <4>1. k + 1 \in 1 .. n /\ ipos + 1 + (k + 1) = ipos + k + 2
        BY <1>1, <1>3, <2>6, <3>2
      <4>2. ipos + k + 2 \in 1 .. d
        BY <1>1, <1>3, <2>2, <2>6, <3>2
      <4>3. buf.bytes[ipos + k + 2] = 0
        BY <2>4, <2>5, <3>2, <4>1
      <4> QED BY <1>1, <4>2, <4>3, FileBytes DEF f, d
    <3> QED BY <1>3, <2>6, <3>1, <3>2
  <2>9. r.ends = "ok" /\ r.item = item /\ r.pos = ipos + n + 2
    BY <1>3 DEF Took
  <2>10. r.pos \in Size
    BY <1>1, <1>3, <2>2, <2>9, InFile DEF d
  <2>11. Delivers(r, value)
    BY <2>9 DEF value
  <2>12. /\ IInv' /\ FileOf(buf') = f /\ opos' = opos /\ ipos' = ipos + n + 2
         /\ got' = value /\ fate' # "wild" /\ fate' # "hung"
    BY <2>5, <2>9, <2>10, <2>11, DeliversStep DEF f
  <2>13. 0 \notin {got'[i] : i \in 1 .. k}
    BY <2>5, <2>12
  <2>14. ipos + (n + 2) <= Len(f) /\ n \in 0 .. Len(f)
    BY <1>1, <1>3, <2>2
  <2>15. \E j \in 0 .. n :
           /\ got' = SubSeq(f, ipos + 1 + 1, ipos + 1 + j)
           /\ 0 \notin {got'[i] : i \in 1 .. j}
           /\ f[ipos + j + 2] = 0
    BY <2>7, <2>8, <2>12, <2>13 DEF x
  <2>16. File!ReadString(n)
    BY <2>1, <2>3, <2>12, <2>14, <2>15
       DEF File!ReadString, File!Holds, File!Piece, FileOf, f
  <2>17. FileStep
    BY <2>14, <2>16 DEF FileStep, File!Next, FileOf, f
  <2> QED BY <2>12, <2>17 DEF Good, SurvivesStep
<1> QED BY <1>2, <1>3 DEF StringRead

LEMMA ReadStringStep ==
  ASSUME IInv, ReadString
  PROVE  Good
<1>1. Sound(buf) /\ ipos \in Nat
  BY InvGives
<1> DEFINE r == StringAt(buf, ipos)
<1>2. StringRead(buf, ipos, r)
  BY <1>1, StringAtWell
<1>3. Delivers(r, CString(r.item)) /\ Reader
  BY DEF ReadString, Reader
<1> HIDE DEF r
<1> QED BY <1>2, <1>3, StringReadStep

LEMMA ReadStringWithinStep ==
  ASSUME IInv, NEW n \in Counts, ReadStringWithin(n)
  PROVE  Good
<1>1. Sound(buf) /\ ipos \in Nat
  BY InvGives
<1> DEFINE r == StringWithin(buf, ipos, n)
<1>2. StringRead(buf, ipos, r)
  BY <1>1, StringWithinWell
<1>3. Delivers(r, CString(r.item)) /\ Reader
  BY DEF ReadStringWithin, Reader
<1> HIDE DEF r
<1> QED BY <1>2, <1>3, StringReadStep

-----------------------------------------------------------------------------
(* The specification *)

LEMMA FilledBytes ==
  ASSUME NEW n \in Nat, NEW f \in Fills
  PROVE  Filled(n, f) \in Seq(Bytes) /\ Len(Filled(n, f)) = n
<1>1. f \in Bytes
  BY Sizes
<1> QED BY <1>1 DEF Filled

LEMMA ConstructedWell ==
  ASSUME NEW b \in Buffers, NEW c \in Constructed(b)
  PROVE  Sound(c) /\ Full(c)
<1> DEFINE n == b.capacity
<1>1. b.kind \in Kinds /\ n \in 0 .. Half /\ n \in Nat /\ Half \in Nat
  <2>1. b \in [kind : Kinds, capacity : 0 .. Half]
    BY StreamAssumption DEF StreamAssumption, Half
  <2>2. b.kind \in Kinds /\ n \in 0 .. Half
    BY <2>1
  <2> HIDE DEF n
  <2> QED BY <2>2, Sizes
<1>2. b.kind \in {"fixed", "dynamic", "borrowed"}
  BY <1>1 DEF Kinds
<1>3. ASSUME NEW kind \in Kinds, NEW m \in 0 .. Half, NEW k \in 0 .. m, NEW max \in 0 .. Half, NEW f \in Fills,
             m <= max, m = max \/ (kind = "dynamic" /\ m = 0),
             c = [kind |-> kind, bytes |-> Filled(m, f), m_maxlen |-> max, m_deflen |-> k]
      PROVE  Sound(c) /\ Full(c)
  <2>1. m \in Nat /\ k \in Nat /\ k <= m
    BY <1>1, <1>3
  <2> DEFINE bytes == Filled(m, f)
  <2>2. bytes \in Seq(Bytes) /\ Len(bytes) = m
    BY <2>1, FilledBytes
  <2> HIDE DEF bytes
  <2>3. c = [kind |-> kind, bytes |-> bytes, m_maxlen |-> max, m_deflen |-> k]
    BY <1>3 DEF bytes
  <2>4. c \in [kind : Kinds, bytes : Seq(Bytes), m_maxlen : 0 .. Half, m_deflen : Nat]
        /\ c.kind = kind /\ c.bytes = bytes /\ c.m_maxlen = max /\ c.m_deflen = k
    BY <2>1, <2>2, <2>3
  <2>5. Sound(c)
    BY <1>1, <1>3, <2>1, <2>2, <2>4 DEF Sound
  <2>6. m = 0 => bytes = <<>>
    BY <2>2
  <2> QED BY <1>3, <2>2, <2>4, <2>5, <2>6 DEF Full, NoMemory
<1>4. CASE b.kind = "fixed"
  <2>1. PICK f \in Fills : c = [kind |-> "fixed", bytes |-> Filled(n, f), m_maxlen |-> n, m_deflen |-> 0]
    BY <1>4 DEF Constructed, Fixed
  <2>2. 0 \in 0 .. n /\ n <= n /\ "fixed" \in Kinds
    BY <1>1 DEF Kinds
  <2> HIDE DEF n
  <2> QED BY <1>1, <1>3, <2>1, <2>2
<1>5. CASE b.kind = "borrowed"
  <2>1. PICK f \in Fills : c = [kind |-> "borrowed", bytes |-> Filled(n, f), m_maxlen |-> n, m_deflen |-> n]
    BY <1>5 DEF Constructed, Borrowed
  <2>2. n \in 0 .. n /\ n <= n /\ "borrowed" \in Kinds
    BY <1>1 DEF Kinds
  <2> HIDE DEF n
  <2> QED BY <1>1, <1>3, <2>1, <2>2
<1>6. CASE b.kind = "dynamic"
  <2> DEFINE max == Doubled(n)
             m == IF n <= 1 THEN 0 ELSE max
  <2>1. PICK f \in Fills : c = [kind |-> "dynamic", bytes |-> Filled(m, f), m_maxlen |-> max, m_deflen |-> 0]
    BY <1>6 DEF Constructed, Dynamic
  <2>2. max \in 0 .. Half
    <3>1. max \in 1 .. Half
      BY <1>1, Doubling
    <3> HIDE DEF max
    <3> QED BY <1>1, <3>1
  <2> HIDE DEF n, max
  <2>3. m \in 0 .. Half /\ 0 \in 0 .. m /\ m <= max /\ (m = max \/ m = 0) /\ "dynamic" \in Kinds
    BY <1>1, <2>2 DEF Kinds
  <2> HIDE DEF m
  <2> QED BY <1>3, <2>1, <2>2, <2>3
<1> QED BY <1>2, <1>4, <1>5, <1>6

LEMMA StartsWell == Init => IInv /\ File!Init
<1> SUFFICES ASSUME Init PROVE IInv /\ File!Init
  OBVIOUS
<1>1. /\ opos = 0 /\ ipos = 0 /\ got = <<>> /\ fate = "running" /\ alloc_failed = FALSE
      /\ Sound(buf) /\ Full(buf)
  BY ConstructedWell DEF Init
<1>2. /\ buf.kind \in Kinds /\ buf.bytes \in Seq(Bytes) /\ buf.m_maxlen \in 0 .. Half
      /\ buf.m_deflen \in Nat /\ buf.m_deflen <= Len(buf.bytes) /\ Len(buf.bytes) \in Nat
  BY <1>1 DEF Sound
<1>3. buf.m_maxlen \in 0 .. SizeMod - 1 /\ buf.m_deflen \in 0 .. Len(buf.bytes) /\ 0 \in 0 .. SizeMod - 1
  BY <1>2, Sizes
<1>4. buf.bytes = <<>> \/ buf.m_maxlen = Len(buf.bytes)
  BY <1>1 DEF Full, NoMemory
<1>5. <<>> \in Seq(Bytes)
  OBVIOUS
<1>6. TypeOK
  BY <1>1, <1>2, <1>3, <1>4, <1>5 DEF TypeOK
<1>7. FileOf(buf) \in Seq(Nat)
  <2>1. FileOf(buf) \in Seq(Bytes) /\ Bytes \subseteq Nat
    BY <1>1, FileBytes, ByteValues
  <2> DEFINE f == FileOf(buf)
  <2> HIDE DEF f
  <2>2. f \in Seq(Bytes) /\ Len(f) \in Nat
    BY <2>1 DEF f
  <2>3. \A i \in 1 .. Len(f) : f[i] \in Nat
    BY <2>2, ByteValues
  <2>4. f \in Seq(Nat)
    BY <2>2, <2>3
  <2> QED BY <2>4 DEF f
<1>8. File!Init
  BY <1>1, <1>7 DEF File!Init, FileOf
<1> QED BY <1>1, <1>6, <1>8 DEF IInv

\* Each action, from a state of the invariant.
LEMMA NextStep ==
  ASSUME IInv, Next
  PROVE  Good
<1>1. CASE Writer
  <2>1. CASE \E item \in Items : Write(item)
    BY <2>1, WriteStep
  <2>2. CASE \E item \in Items : WriteBuffer(item)
    BY <2>2, WriteBufferStep
  <2>3. CASE \E vec \in Items : WriteVector(vec)
    BY <2>3, WriteVectorStep
  <2>4. CASE WriteFrom
    BY <2>4, WriteFromStep
  <2>5. CASE \E s \in Strings : WriteString(s)
    BY <2>5, WriteStringStep
  <2>6. CASE \E n \in Counts : WriteSkip(n)
    BY <2>6, WriteSkipStep
  <2>7. CASE \E item \in Items : CopyFrom(item)
    BY <2>7, CopyFromStep
  <2> QED BY <1>1, <2>1, <2>2, <2>3, <2>4, <2>5, <2>6, <2>7 DEF Writer
<1>2. CASE Reader
  <2>1. CASE \E n \in Counts : Read(n)
    BY <2>1, ReadStep
  <2>2. CASE \E n \in Counts : ReadNoThrow(n)
    BY <2>2, ReadNoThrowStep
  <2>3. CASE \E n \in Counts : ReadSkip(n)
    BY <2>3, ReadSkipStep
  <2>4. CASE ReadString
    BY <2>4, ReadStringStep
  <2>5. CASE \E n \in Counts : ReadStringWithin(n)
    BY <2>5, ReadStringWithinStep
  <2>6. CASE \E old \in Strings : ReadBuffer(old)
    BY <2>6, ReadBufferStep
  <2>7. CASE \E old \in Strings : ReadVector(old)
    BY <2>7, ReadVectorStep
  <2> QED BY <1>2, <2>1, <2>2, <2>3, <2>4, <2>5, <2>6, <2>7 DEF Reader
<1>3. CASE \E n \in Positions : OSeek(n) \/ ISeek(n)
  BY <1>3, SeekStep
<1>4. CASE Clear
  BY <1>4, ClearStep
<1> QED BY <1>1, <1>2, <1>3, <1>4 DEF Next

LEMMA StutterStep == IInv /\ UNCHANGED vars => IInv'
<1> SUFFICES ASSUME IInv, UNCHANGED vars PROVE IInv'
  OBVIOUS
<1>1. /\ buf' = buf /\ opos' = opos /\ ipos' = ipos /\ got' = got /\ fate' = fate
      /\ alloc_failed' = alloc_failed
  BY DEF vars
<1> QED BY <1>1, InvGives, InvHolds

\* The inductive invariant of the streams.
THEOREM StreamsInductive == Spec => []IInv
<1>1. Init => IInv
  BY StartsWell
<1>2. IInv /\ [Next]_vars => IInv'
  BY NextStep, StutterStep DEF Good
<1> QED BY <1>1, <1>2, PTL DEF Spec

\* Type correctness: whatever is written, read, skipped, sought, cleared or
\* assigned, in whatever order, positions and sizes stay 32-bit and m_deflen
\* counts no byte that the buffer of ByteStream.h has no memory for.
THEOREM StreamsTypeOK == Spec => []TypeOK
<1>1. IInv => TypeOK
  BY DEF IInv
<1> QED BY <1>1, StreamsInductive, PTL

\* The streams leave the memory of the buffer, or hang, only where Survives
\* says: the wrap of a size32_t, a new that has failed, a dynamic buffer
\* without memory, and Write(is) into a buffer that has to grow.
THEOREM StreamsSurvive == Spec => Survives
<1>1. IInv /\ [Next]_vars => [SurvivesStep]_fate
  BY NextStep DEF Good, vars
<1> QED BY <1>1, StreamsInductive, PTL DEF Spec, Survives, SurvivesStep

\* A stream buffer, with a stream that writes to it and one that reads from
\* it, is a file: every step of the program is one of StreamFile.
THEOREM StreamsImplementFile == Spec => FileSpec
<1>1. Init => File!Init
  BY StartsWell
<1>2. IInv /\ [Next]_vars => [File!Next]_File!vars
  <2>1. ASSUME IInv, Next
        PROVE  [File!Next]_File!vars
    BY <2>1, NextStep DEF Good, FileStep
  <2>2. ASSUME UNCHANGED vars
        PROVE  UNCHANGED File!vars
    BY <2>2 DEF vars, File!vars
  <2> QED BY <2>1, <2>2
<1> QED BY <1>1, <1>2, StreamsInductive, PTL DEF Spec, FileSpec, File!Spec

-----------------------------------------------------------------------------
(* Reading back what was written *)

\* What the file has can be read and skipped.
LEMMA AllThere ==
  ASSUME NEW b, Sound(b), NEW pos \in Nat, NEW n \in Nat, pos + n <= b.m_deflen
  PROVE  InRange(b, pos, n) /\ Allocated(b, pos, n) /\ (pos > 0 => Skippable(b, pos, n))
<1>1. b.m_deflen \in Nat /\ Len(b.bytes) \in Nat /\ b.m_deflen <= Len(b.bytes)
  BY DEF Sound
<1>2. (pos + n) % SizeMod = pos + n
  <2>1. pos + n \in Nat
    OBVIOUS
  <2> QED BY <2>1, InFile
<1>3. InRange(b, pos, n)
  BY <1>1, <1>2 DEF InRange
<1> QED BY <1>1, <1>3 DEF Allocated, Skippable

\* The buffer has a number at pos, and behind it so many bytes: item.
Counted(b, pos, item) ==
  /\ pos + 1 + Len(item) <= b.m_deflen
  /\ b.bytes[pos + 1] = Len(item)
  /\ \A i \in 1 .. Len(item) : b.bytes[pos + 1 + i] = item[i]

LEMMA CountedPiece ==
  ASSUME NEW b, Sound(b), NEW pos \in Nat, NEW item \in Seq(Bytes), Counted(b, pos, item)
  PROVE  Piece(b, pos + 1, Len(item)) = item
<1> DEFINE e == pos + 1
           n == Len(item)
           x == Piece(b, e, n)
<1>1. e \in Nat /\ n \in Nat /\ e + n <= b.m_deflen /\ \A i \in 1 .. n : b.bytes[e + i] = item[i]
  BY DEF Counted
<1> HIDE DEF e
<1>2. x \in Seq(Bytes) /\ Len(x) = n /\ \A i \in 1 .. n : x[i] = b.bytes[e + i]
  BY <1>1, PieceBytes
<1> HIDE DEF x
<1>3. \A i \in 1 .. n : x[i] = item[i]
  BY <1>1, <1>2
<1>4. item \in Seq(Bytes) /\ Len(item) = n
  OBVIOUS
<1> HIDE DEF n
<1>5. x = item
  BY <1>2, <1>3, <1>4
<1> QED BY <1>5 DEF x, e, n

LEMMA CountedBuffer ==
  ASSUME NEW b, Sound(b), NEW pos \in Nat, NEW item \in Seq(Bytes), Counted(b, pos, item)
  PROVE  BufferAt(b, pos) = Took(item, pos + 1 + Len(item))
<1> DEFINE n == b.bytes[pos + 1]
<1>1. /\ n = Len(item) /\ n \in Nat /\ pos + 1 \in Nat /\ pos + 1 > 0
      /\ pos + 1 + n <= b.m_deflen /\ pos + 1 <= b.m_deflen /\ b.m_deflen \in Nat
  BY DEF Counted, Sound
<1>2. Piece(b, pos + 1, n) = item
  BY <1>1, CountedPiece
<1>3. InRange(b, pos, 1)
  BY <1>1, AllThere
<1> HIDE DEF n
<1>4. Allocated(b, pos + 1, n) /\ Skippable(b, pos + 1, n)
  <2> DEFINE e == pos + 1
  <2>1. e \in Nat /\ e + n <= b.m_deflen /\ e > 0
    BY <1>1
  <2> HIDE DEF e
  <2>2. Allocated(b, e, n) /\ Skippable(b, e, n)
    BY <1>1, <2>1, AllThere
  <2> QED BY <2>2 DEF e
<1>5. Behind(b, pos + 1, n, n) = Took(item, pos + 1 + n)
  BY <1>2, <1>4 DEF Behind
<1>6. BufferAt(b, pos) = Behind(b, pos + 1, n, n)
  BY <1>3, <1>4 DEF BufferAt, n
<1> QED BY <1>1, <1>5, <1>6

LEMMA CountedVector ==
  ASSUME NEW b, Sound(b), NEW pos \in Nat, NEW item \in Seq(Bytes), Counted(b, pos, item)
  PROVE  VectorAt(b, pos) = Took(item, pos + 1 + Len(item))
<1> DEFINE int == b.bytes[pos + 1]
           num == IF int < SizeMod \div 2 THEN int ELSE 0
           left == b.m_deflen - (pos + 1)
           n == IF num < left THEN num ELSE left
<1>1. /\ int = Len(item) /\ int \in Nat /\ pos + 1 + int <= b.m_deflen /\ pos + 1 <= b.m_deflen
      /\ b.m_deflen \in Nat /\ Len(b.bytes) \in Nat /\ b.m_maxlen \in 0 .. Half /\ Half \in Nat
      /\ b.m_deflen <= Len(b.bytes) /\ Len(b.bytes) <= b.m_maxlen
  BY Sizes DEF Counted, Sound
<1>2. Piece(b, pos + 1, int) = item
  BY <1>1, CountedPiece
<1>3. InRange(b, pos, 1)
  BY <1>1, AllThere
<1>4. VectorAt(b, pos) = Took(Piece(b, pos + 1, n), pos + 1 + n)
  BY <1>3 DEF VectorAt
<1> HIDE DEF int
<1>5. int < Half
  BY <1>1
<1>6. num = int
  BY <1>5 DEF Half
<1>7. int <= left /\ left \in Nat
  BY <1>1
<1>8. n = int
  <2>1. n = IF int < left THEN int ELSE left
    BY <1>6
  <2> HIDE DEF n, left
  <2> QED BY <1>1, <1>7, <2>1
<1> HIDE DEF n
<1> QED BY <1>1, <1>2, <1>4, <1>8

LEMMA CountedString ==
  ASSUME NEW b, Sound(b), NEW pos \in Nat, NEW s \in Seq(Bytes), Counted(b, pos, s),
         pos + 2 + Len(s) <= b.m_deflen, b.bytes[pos + 2 + Len(s)] = 0
  PROVE  /\ StringAt(b, pos) = Took(s, pos + 2 + Len(s))
         /\ StringWithin(b, pos, Len(s) + 1) = Took(s, pos + 2 + Len(s))
<1> DEFINE n == Len(s)
           r == BufferAt(b, pos)
           e == pos + 1 + n
           done == Took(s, pos + 2 + n)
<1>1. /\ n \in Nat /\ e \in Nat /\ e > 0 /\ e + 1 = pos + 2 + n /\ pos + 1 \in Nat /\ pos + 1 > 0
      /\ pos + 1 + (n + 1) = pos + 2 + n /\ n + 1 \in Nat /\ pos + 1 <= b.m_deflen
      /\ b.bytes[pos + 1] = n /\ b.m_deflen \in Nat
  BY DEF Counted, Sound
<1>2. r = Took(s, e)
  BY CountedBuffer
<1>3. Terminated(b, done) = done
  BY DEF Terminated, Took
<1> HIDE DEF n, e, r
<1>4. StringAt(b, pos) = done
  <2>1. r.ends = "ok" /\ r.pos = e /\ [r EXCEPT !.pos = @ + 1] = Took(s, e + 1)
    BY <1>2 DEF Took
  <2>2. Skippable(b, e, 1)
    <3>1. e + 1 <= b.m_deflen
      BY <1>1 DEF n
    <3> QED BY <1>1, <3>1, AllThere
  <2>3. StringAt(b, pos) = Terminated(b, [r EXCEPT !.pos = @ + 1])
    BY <2>1, <2>2 DEF StringAt, r
  <2> QED BY <1>1, <1>3, <2>1, <2>3
<1>5. StringWithin(b, pos, n + 1) = done
  <2>1. InRange(b, pos, 1)
    BY <1>1, AllThere
  <2>2. Allocated(b, pos + 1, n + 1) /\ Skippable(b, pos + 1, n + 1)
    <3> DEFINE p == pos + 1
               m == n + 1
    <3>1. p \in Nat /\ p > 0 /\ m \in Nat /\ p + m <= b.m_deflen
      BY <1>1 DEF n
    <3> HIDE DEF p, m
    <3>2. Allocated(b, p, m) /\ Skippable(b, p, m)
      BY <3>1, AllThere
    <3> QED BY <3>2 DEF p, m
  <2>3. n + 1 # 0 /\ ~(n > n + 1 - 1)
    BY <1>1
  <2>4. StringWithin(b, pos, n + 1) = Terminated(b, Behind(b, pos + 1, n + 1, n))
    BY <1>1, <2>1, <2>2, <2>3 DEF StringWithin
  <2>5. Piece(b, pos + 1, n) = s
    BY CountedPiece DEF n
  <2>6. Behind(b, pos + 1, n + 1, n) = done
    BY <1>1, <2>2, <2>5 DEF Behind
  <2> QED BY <1>3, <2>4, <2>6
<1> QED BY <1>4, <1>5 DEF n

\* What a write that succeeds has done.
LEMMA WellDone ==
  ASSUME NEW item, PutWell(buf, opos, item, Outcome(buf', opos', "ok"))
  PROVE  Wrote(buf, opos, item, buf') /\ opos' = opos + Len(item)
<1> DEFINE o == Outcome(buf', opos', "ok")
<1>1. o.buf = buf' /\ o.pos = opos' /\ o.ends = "ok"
  BY DEF Outcome
<1> HIDE DEF o
<1>2. PutWell(buf, opos, item, o)
  BY DEF o
<1> QED BY <1>1, <1>2 DEF PutWell

\* It is there, and ends where the writer is.
LEMMA WroteCounted ==
  ASSUME NEW b, Sound(b), NEW pos \in Nat, NEW item \in Seq(Bytes), Len(item) \in Bytes,
         NEW c, Wrote(b, pos, <<Len(item)>> \o item, c)
  PROVE  Sound(c) /\ Counted(c, pos, item) /\ Len(<<Len(item)>> \o item) = 1 + Len(item)
<1> DEFINE n == Len(item)
           all == <<n>> \o item
<1>1. /\ all \in Seq(Bytes) /\ Len(all) = 1 + n /\ n \in Nat
      /\ all[1] = n /\ \A i \in 1 .. n : all[1 + i] = item[i]
  OBVIOUS
<1> HIDE DEF all
<1>2. Sound(c) /\ pos + Len(all) <= c.m_deflen /\ \A i \in 1 .. Len(all) : c.bytes[pos + i] = all[i]
  <2>1. Wrote(b, pos, all, c)
    BY DEF all
  <2> QED BY <1>1, <2>1, WroteEnd DEF Wrote
<1> HIDE DEF n
<1>3. pos + 1 + n <= c.m_deflen
  <2>1. c.m_deflen \in Nat
    BY <1>2 DEF Sound
  <2> QED BY <1>1, <1>2, <2>1
<1>4. c.bytes[pos + 1] = n
  <2>1. 1 \in 1 .. Len(all)
    BY <1>1
  <2> QED BY <1>1, <1>2, <2>1
<1>5. ASSUME NEW i \in 1 .. n
      PROVE  c.bytes[pos + 1 + i] = item[i]
  <2>1. 1 + i \in 1 .. Len(all) /\ pos + (1 + i) = pos + 1 + i
    BY <1>1
  <2>2. c.bytes[pos + (1 + i)] = all[1 + i]
    BY <1>2, <2>1
  <2> QED BY <1>1, <2>1, <2>2
<1> QED BY <1>1, <1>2, <1>3, <1>4, <1>5 DEF Counted, all, n

LEMMA OneMore ==
  ASSUME NEW T, NEW s \in Seq(T), NEW x \in T
  PROVE  /\ s \o <<x>> \in Seq(T) /\ Len(s \o <<x>>) = Len(s) + 1
         /\ \A i \in 1 .. Len(s) : (s \o <<x>>)[i] = s[i]
         /\ (s \o <<x>>)[Len(s) + 1] = x
  OBVIOUS

LEMMA WroteString ==
  ASSUME NEW b, Sound(b), NEW pos \in Nat, NEW s \in Seq(Bytes), Len(s) \in Bytes,
         NEW c, Wrote(b, pos, File!Encoded(s), c)
  PROVE  /\ Sound(c) /\ Counted(c, pos, s) /\ Len(File!Encoded(s)) = 2 + Len(s)
         /\ pos + 2 + Len(s) <= c.m_deflen /\ c.bytes[pos + 2 + Len(s)] = 0
<1> DEFINE n == Len(s)
           all == <<n>> \o s \o <<0>>
<1>1. /\ all \in Seq(Bytes) /\ Len(all) = 2 + n /\ n \in Nat
      /\ all[1] = n /\ \A i \in 1 .. n : all[1 + i] = s[i]
      /\ all[2 + n] = 0
  <2> DEFINE front == <<n>> \o s
  <2>1. /\ front \in Seq(Bytes) /\ Len(front) = 1 + n /\ n \in Nat
        /\ front[1] = n /\ \A i \in 1 .. n : front[1 + i] = s[i]
    OBVIOUS
  <2> DEFINE k == Len(front)
             z == front \o <<0>>
  <2>2. all = z
    OBVIOUS
  <2> HIDE DEF front
  <2>3. /\ z \in Seq(Bytes) /\ Len(z) = k + 1 /\ z[k + 1] = 0
        /\ \A i \in 1 .. k : z[i] = front[i]
    BY <2>1, OneMore, Sizes
  <2> HIDE DEF all, n, z
  <2>4. k + 1 = 2 + n /\ 1 \in 1 .. k /\ \A i \in 1 .. n : 1 + i \in 1 .. k
    BY <2>1
  <2> HIDE DEF k
  <2> QED BY <2>1, <2>2, <2>3, <2>4
<1> HIDE DEF all
<1>2. Sound(c) /\ pos + Len(all) <= c.m_deflen /\ \A i \in 1 .. Len(all) : c.bytes[pos + i] = all[i]
  <2>1. Wrote(b, pos, all, c)
    BY DEF all, File!Encoded
  <2> QED BY <1>1, <2>1, WroteEnd DEF Wrote
<1> HIDE DEF n
<1>3. c.m_deflen \in Nat
  BY <1>2 DEF Sound
<1>4. pos + 1 + n <= c.m_deflen /\ pos + 2 + n <= c.m_deflen
  BY <1>1, <1>2, <1>3
<1>5. c.bytes[pos + 1] = n /\ c.bytes[pos + 2 + n] = 0
  <2>1. 1 \in 1 .. Len(all) /\ 2 + n \in 1 .. Len(all) /\ pos + (2 + n) = pos + 2 + n
    BY <1>1
  <2> QED BY <1>1, <1>2, <2>1
<1>6. ASSUME NEW i \in 1 .. n
      PROVE  c.bytes[pos + 1 + i] = s[i]
  <2>1. 1 + i \in 1 .. Len(all) /\ pos + (1 + i) = pos + 1 + i
    BY <1>1
  <2>2. c.bytes[pos + (1 + i)] = all[1 + i]
    BY <1>2, <2>1
  <2> QED BY <1>1, <2>1, <2>2
<1> QED BY <1>1, <1>2, <1>4, <1>5, <1>6 DEF Counted, all, n, File!Encoded

\* The two parts of WrittenReadsBack.
LEMMA StringReadsBack ==
  ASSUME IInv, NEW s \in Strings, Outcome(buf', opos', "ok") \in StringPut(s)
  PROVE  Took(s, opos') \in {StringAt(buf', opos)} \cap {StringWithin(buf', opos, Len(s) + 1)}
<1>1. Sound(buf) /\ opos \in Size /\ opos \in Nat /\ s \in Seq(Bytes) /\ Len(s) \in Bytes /\ Len(s) \in Nat
  BY InvGives, Values
<1>2. PutWell(buf, opos, File!Encoded(s), Outcome(buf', opos', "ok"))
  BY <1>1, StringWell
<1>3. Wrote(buf, opos, File!Encoded(s), buf') /\ opos' = opos + Len(File!Encoded(s))
  BY <1>2, WellDone
<1>4. /\ Sound(buf') /\ Counted(buf', opos, s) /\ Len(File!Encoded(s)) = 2 + Len(s)
      /\ opos + 2 + Len(s) <= buf'.m_deflen /\ buf'.bytes[opos + 2 + Len(s)] = 0
  BY <1>1, <1>3, WroteString
<1>5. /\ StringAt(buf', opos) = Took(s, opos + 2 + Len(s))
      /\ StringWithin(buf', opos, Len(s) + 1) = Took(s, opos + 2 + Len(s))
  BY <1>1, <1>4, CountedString
<1>6. opos' = opos + 2 + Len(s)
  BY <1>1, <1>3, <1>4
<1> QED BY <1>5, <1>6

LEMMA ItemReadsBack ==
  ASSUME IInv, NEW item \in Items,
         Outcome(buf', opos', "ok") \in BufferPut(item) \cup VectorPut(item)
  PROVE  Took(item, opos') \in {BufferAt(buf', opos)} \cap {VectorAt(buf', opos)}
<1> DEFINE all == <<Len(item)>> \o item
           o == Outcome(buf', opos', "ok")
<1>1. /\ Sound(buf) /\ opos \in Size /\ opos \in Nat
      /\ item \in Seq(Bytes) /\ Len(item) \in Bytes /\ Len(item) \in Nat
  BY InvGives, Values
<1>2. PutWell(buf, opos, all, o)
  <2> HIDE DEF o, all
  <2>1. o \in BufferPut(item) \/ o \in VectorPut(item)
    BY DEF o
  <2> QED BY <1>1, <2>1, BufferWell, VectorWell DEF all
<1> HIDE DEF all
<1>3. Wrote(buf, opos, all, buf') /\ opos' = opos + Len(all)
  BY <1>2, WellDone
<1>4. Sound(buf') /\ Counted(buf', opos, item) /\ Len(all) = 1 + Len(item)
  BY <1>1, <1>3, WroteCounted DEF all
<1>5. /\ BufferAt(buf', opos) = Took(item, opos + 1 + Len(item))
      /\ VectorAt(buf', opos) = Took(item, opos + 1 + Len(item))
  BY <1>1, <1>4, CountedBuffer, CountedVector
<1>6. opos' = opos + 1 + Len(item)
  BY <1>1, <1>3, <1>4
<1> QED BY <1>5, <1>6

\* What WrittenReadsBack says of a step.
ReadsBackStep ==
  /\ \A s \in Strings :
       (WriteString(s) /\ Outcome(buf', opos', "ok") \in StringPut(s)) =>
         Took(s, opos') \in {StringAt(buf', opos)} \cap {StringWithin(buf', opos, Len(s) + 1)}
  /\ \A item \in Items :
       \/ WriteBuffer(item) /\ Outcome(buf', opos', "ok") \in BufferPut(item)
       \/ WriteVector(item) /\ Outcome(buf', opos', "ok") \in VectorPut(item)
       => Took(item, opos') \in {BufferAt(buf', opos)} \cap {VectorAt(buf', opos)}

\* The bytes that operator << wrote of a string, a buffer or a vector, without
\* failing and wherever the buffer had to grow, operator >> and ReadString
\* take from there as what was written, and leave the reader at the writer.
THEOREM StreamsReadBack == Spec => WrittenReadsBack
<1>1. IInv => ReadsBackStep
  <2> SUFFICES ASSUME IInv PROVE ReadsBackStep
    OBVIOUS
  <2>1. ASSUME NEW s \in Strings, Outcome(buf', opos', "ok") \in StringPut(s)
        PROVE  Took(s, opos') \in {StringAt(buf', opos)} \cap {StringWithin(buf', opos, Len(s) + 1)}
    BY <2>1, StringReadsBack
  <2>2. ASSUME NEW item \in Items,
               Outcome(buf', opos', "ok") \in BufferPut(item) \/ Outcome(buf', opos', "ok") \in VectorPut(item)
        PROVE  Took(item, opos') \in {BufferAt(buf', opos)} \cap {VectorAt(buf', opos)}
    BY <2>2, ItemReadsBack
  <2> QED BY <2>1, <2>2 DEF ReadsBackStep
<1> QED BY <1>1, StreamsInductive, PTL DEF Spec, WrittenReadsBack, ReadsBackStep
=============================================================================
