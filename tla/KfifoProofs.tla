---------------------------- MODULE KfifoProofs ----------------------------
(* The byte queue for every buffer size, width of the indices and sequence  *)
(* of calls: the indices stay within the buffer, the two threads never use  *)
(* the same byte, and the queue implements ByteFifo.                        *)
EXTENDS Kfifo, DataLemmas, SequenceTheorems

\* Between calls the locals of put and get are gone.
Idle ==
  /\ ~putting => put_len = 0 /\ put_todo = {} /\ record = <<>>
  /\ ~getting => get_len = 0 /\ get_todo = {}

\* A call takes no more bytes than its caller's buffer has.
CallerBuffers ==
  /\ put_len <= Len(record)
  /\ getting => Len(got) = get_len

\* The bytes a put is done with are in the buffer, those a get is done with
\* are still where it found them.
Copied ==
  /\ \A i \in (0 .. put_len - 1) \ put_todo :
       m_pbuffer[Place(m_nin, i)] = record[i + 1]
  /\ \A i \in (0 .. get_len - 1) \ get_todo :
       got[i + 1] = m_pbuffer[Place(m_nout, i)]

\* What FillsWithinSize needs to be inductive.
Bounds == TypeOK /\ FillsWithinSize /\ Idle /\ CallerBuffers

IInv == Bounds /\ Copied

-----------------------------------------------------------------------------
(* The size of the buffer and the places in it *)

\* roundup_power_of_two finds the next power of two, and leaves only 0 alone.
LEMMA RoundUp ==
  ASSUME NEW val \in RequestedSizes
  PROVE  /\ roundup_power_of_two(val) \in PowersOfTwo \cup {0}
         /\ roundup_power_of_two(val) >= val
<1> USE KfifoAssumption DEF KfifoAssumption
<1> DEFINE Above == {p \in PowersOfTwo : p >= val}
<1>1. \E p \in Above : \A q \in Above : p <= q
  <2>1. Above \subseteq Nat /\ Above # {}
    OBVIOUS
  <2> QED BY <2>1, LeastNatural
<1>2. \E p \in PowersOfTwo : p >= val /\ \A q \in PowersOfTwo : q >= val => p <= q
  BY <1>1
<1> DEFINE next == CHOOSE p \in PowersOfTwo :
                     p >= val /\ \A q \in PowersOfTwo : q >= val => p <= q
<1>3. next \in PowersOfTwo /\ next >= val
  BY <1>2, Zenon
<1>4. roundup_power_of_two(val) = IF val = 0 \/ val \in PowersOfTwo THEN val ELSE next
  BY DEF roundup_power_of_two, is_power_of_2
<1> HIDE DEF next
<1> QED BY <1>3, <1>4

LEMMA Constructor ==
  ASSUME NEW nsize \in RequestedSizes
  PROVE  constructor(nsize) \in PowersOfTwo \cup {0}
  BY RoundUp DEF constructor, is_power_of_2

\* The buffer is smaller than the range of the indices and divides it.
LEMMA SizeFits ==
  ASSUME TypeOK
  PROVE  /\ IndexMod \in Nat \ {0}
         /\ m_nsize \in 0 .. IndexMod - 1
         /\ m_nsize # 0 => IndexMod % m_nsize = 0
  BY KfifoAssumption DEF KfifoAssumption, TypeOK

\* The two memcpy's together address the buffer as a ring.
LEMMA PlaceIsMod ==
  ASSUME m_nsize \in Nat \ {0}, NEW index \in Nat, NEW i \in 0 .. m_nsize - 1
  PROVE  Place(index, i) = (index + i) % m_nsize /\ Place(index, i) \in 0 .. m_nsize - 1
<1>1. (index + i) % m_nsize \in 0 .. m_nsize - 1
  BY ModRange
<1>2. Place(index, i) = IF i < m_nsize - (index % m_nsize)
                          THEN (index % m_nsize) + i
                          ELSE i - (m_nsize - (index % m_nsize))
  BY DEF Place
<1>3. (index + i) % m_nsize = IF i < m_nsize - (index % m_nsize)
                                THEN (index % m_nsize) + i
                                ELSE i - (m_nsize - (index % m_nsize))
  <2>1. index \in Int
    OBVIOUS
  <2> QED BY <2>1, RingPlace, Zenon
<1>4. Place(index, i) = (index + i) % m_nsize
  BY <1>2, <1>3
<1> QED BY <1>1, <1>4, Zenon

\* m_nsize - m_nin + m_nout is the room that is left, wrapped or not.
LEMMA RoomLeft ==
  ASSUME Bounds
  PROVE  /\ Room = m_nsize - getlen
         /\ getlen \in 0 .. m_nsize
<1>1. m_nin \in 0 .. IndexMod - 1 /\ m_nout \in 0 .. IndexMod - 1 /\ TypeOK
  BY DEF Bounds, TypeOK
<1>2. getlen \in 0 .. IndexMod - 1
  BY <1>1, SizeFits, ModRange DEF getlen
<1>3. getlen <= m_nsize
  BY <1>1, <1>2, SizeFits DEF Bounds, FillsWithinSize, TypeOK
<1>4. Room = m_nsize - getlen
  <2>1. IndexMod \in Nat \ {0} /\ m_nsize \in 0 .. IndexMod - 1
    BY <1>1, SizeFits
  <2> QED BY <1>1, <1>3, <2>1, GapRoom DEF getlen, Room
<1> QED BY <1>1, <1>2, <1>3, <1>4, SizeFits

\* The ranges of what the calls add to and take from the indices.
LEMMA Ranges ==
  ASSUME Bounds
  PROVE  /\ IndexMod \in Nat \ {0} /\ m_nsize \in 0 .. IndexMod - 1
         /\ m_nin \in 0 .. IndexMod - 1 /\ m_nout \in 0 .. IndexMod - 1
         /\ getlen \in Nat /\ getlen + put_len <= m_nsize
         /\ put_len \in 0 .. IndexMod /\ m_nin + put_len \in Int
         /\ get_len \in 0 .. IndexMod /\ m_nout + get_len \in Int
         /\ get_len <= getlen
<1>1. /\ m_nin \in 0 .. IndexMod - 1 /\ m_nout \in 0 .. IndexMod - 1
      /\ put_len \in Nat /\ get_len \in Nat /\ TypeOK
      /\ getlen + put_len <= m_nsize /\ get_len <= getlen
  BY DEF Bounds, TypeOK, FillsWithinSize
<1>2. IndexMod \in Nat \ {0} /\ m_nsize \in 0 .. IndexMod - 1
  BY <1>1, SizeFits
<1>3. getlen \in 0 .. m_nsize
  BY RoomLeft
<1> QED BY <1>1, <1>2, <1>3

-----------------------------------------------------------------------------
(* Bounds *)

LEMMA InitBounds == Init => IInv
<1> SUFFICES ASSUME Init PROVE IInv
  OBVIOUS
<1> USE KfifoAssumption DEF KfifoAssumption
<1>1. m_nsize \in PowersOfTwo \cup {0}
  BY Constructor DEF Init
<1>2. TypeOK
  <2>1. m_pbuffer \in [0 .. m_nsize - 1 -> Bytes \cup {Junk}]
    BY DEF Init
  <2>2. record \in Seq(Bytes) /\ got \in Seq(Bytes \cup {Junk})
    BY DEF Init
  <2>3. m_nin \in 0 .. IndexMod - 1 /\ m_nout \in 0 .. IndexMod - 1
    BY DEF Init
  <2> QED BY <1>1, <2>1, <2>2, <2>3 DEF Init, TypeOK
<1>3. getlen = 0
  <2>1. m_nin - m_nout = 0 /\ 0 \in 0 .. IndexMod - 1
    BY DEF Init
  <2>2. 0 % IndexMod = 0
    BY <2>1, ModSmall
  <2> QED BY <2>1, <2>2 DEF getlen
<1>4. FillsWithinSize /\ Idle /\ CallerBuffers /\ Copied
  BY <1>1, <1>3 DEF Init, FillsWithinSize, Idle, CallerBuffers, Copied
<1> QED BY <1>2, <1>4 DEF IInv, Bounds

LEMMA PutBeginBounds ==
  ASSUME Bounds, NEW r \in Records, put_begin(r)
  PROVE  Bounds'
<1> USE DEF put_begin, getVars
<1>1. r \in Seq(Bytes) /\ Len(r) \in Nat
  BY KfifoAssumption DEF KfifoAssumption
<1>2. put_len' \in Nat /\ put_len' <= Len(r) /\ put_len' <= m_nsize - getlen
  BY <1>1, RoomLeft, SizeFits DEF std_min, Bounds
<1>3. getlen' = getlen
  BY DEF getlen
<1>4. TypeOK'
  BY <1>1, <1>2 DEF Bounds, TypeOK
<1>5. FillsWithinSize'
  BY <1>2, <1>3, RoomLeft, SizeFits DEF Bounds, FillsWithinSize
<1>6. Idle' /\ CallerBuffers'
  BY <1>2 DEF Bounds, Idle, CallerBuffers
<1> QED BY <1>4, <1>5, <1>6 DEF Bounds

LEMMA PutCopyBounds ==
  ASSUME Bounds, NEW i \in put_todo, put_copy(i)
  PROVE  Bounds'
<1> USE DEF put_copy, getVars
<1>1. i \in 0 .. put_len - 1 /\ record[i + 1] \in Bytes
  BY DEF Bounds, TypeOK, CallerBuffers
<1>2. m_pbuffer' \in [0 .. m_nsize' - 1 -> Bytes \cup {Junk}]
  BY <1>1 DEF Bounds, TypeOK
<1>3. TypeOK'
  BY <1>2 DEF Bounds, TypeOK
<1>4. FillsWithinSize'
  BY DEF Bounds, FillsWithinSize, getlen
<1>5. Idle' /\ CallerBuffers'
  BY DEF Bounds, Idle, CallerBuffers
<1> QED BY <1>3, <1>4, <1>5 DEF Bounds

LEMMA PutReturnBounds ==
  ASSUME Bounds, put_return
  PROVE  Bounds' /\ getlen' = getlen + put_len
<1> USE DEF put_return, getVars
<1>1. getlen + put_len < IndexMod
  BY Ranges
<1>2. getlen' = getlen + put_len
  BY <1>1, Ranges, GapGrows DEF getlen
<1>3. TypeOK'
  <2>1. m_nin' \in 0 .. IndexMod - 1
    BY Ranges, ModRange, Zenon
  <2> HIDE DEF put_return
  <2>2. record' = <<>> /\ put_len' = 0 /\ put_todo' = {} /\ putting' = FALSE
    BY DEF put_return
  <2>3. UNCHANGED <<m_pbuffer, m_nsize, m_nout, getting, get_len, get_todo, got>>
    BY DEF put_return
  <2>4. record' \in Seq(Bytes)
    BY <2>2
  <2> QED BY <2>1, <2>2, <2>3, <2>4 DEF Bounds, TypeOK
<1>4. FillsWithinSize'
  <2>1. put_len' = 0 /\ m_nsize' = m_nsize /\ get_len' = get_len
    OBVIOUS
  <2> HIDE DEF put_return
  <2>2. /\ getlen + put_len <= m_nsize /\ get_len <= getlen /\ m_nsize \in Nat
        /\ getlen \in Nat /\ put_len \in Nat /\ get_len \in Nat
    BY Ranges
  <2>3. getlen' + put_len' <= m_nsize /\ get_len <= getlen'
    BY <1>2, <2>1, <2>2
  <2> QED BY <2>1, <2>3 DEF FillsWithinSize
<1>5. Idle' /\ CallerBuffers'
  BY DEF Bounds, Idle, CallerBuffers
<1> QED BY <1>2, <1>3, <1>4, <1>5 DEF Bounds

LEMMA GetBeginBounds ==
  ASSUME Bounds, NEW len \in GetLens, get_begin(len)
  PROVE  Bounds' /\ getlen' = getlen
<1> USE DEF get_begin, putVars
<1>1. len \in Nat
  BY KfifoAssumption DEF KfifoAssumption
<1>2. get_len' \in Nat /\ get_len' <= getlen
  BY <1>1, RoomLeft, SizeFits DEF std_min, Bounds
<1>3. getlen' = getlen
  BY DEF getlen
<1>4. got' \in Seq(Bytes \cup {Junk}) /\ Len(got') = get_len'
  BY <1>2
<1>5. TypeOK'
  BY <1>2, <1>4 DEF Bounds, TypeOK
<1>6. FillsWithinSize'
  BY <1>2, <1>3 DEF Bounds, FillsWithinSize
<1>7. Idle' /\ CallerBuffers'
  BY <1>4 DEF Bounds, Idle, CallerBuffers
<1> QED BY <1>3, <1>5, <1>6, <1>7 DEF Bounds

LEMMA GetCopyBounds ==
  ASSUME Bounds, NEW i \in get_todo, get_copy(i)
  PROVE  Bounds'
<1> USE DEF get_copy, putVars
<1>1. /\ i \in 0 .. get_len - 1 /\ getting
      /\ get_len <= getlen /\ get_len \in Nat /\ TypeOK
      /\ got \in Seq(Bytes \cup {Junk}) /\ Len(got) = get_len
  BY DEF Bounds, TypeOK, FillsWithinSize, Idle, CallerBuffers
<1>2. m_nsize \in Nat \ {0} /\ i \in 0 .. m_nsize - 1 /\ m_nout \in Nat
  BY <1>1, RoomLeft, SizeFits DEF TypeOK
<1>3. m_pbuffer[Place(m_nout, i)] \in Bytes \cup {Junk}
  BY <1>1, <1>2, PlaceIsMod DEF TypeOK
<1>4. got' \in Seq(Bytes \cup {Junk}) /\ Len(got') = Len(got)
  BY <1>1, <1>3
<1>5. TypeOK'
  BY <1>1, <1>4 DEF TypeOK
<1>6. FillsWithinSize'
  BY DEF Bounds, FillsWithinSize, getlen
<1>7. Idle' /\ CallerBuffers'
  BY <1>1, <1>4 DEF Bounds, Idle, CallerBuffers
<1> QED BY <1>5, <1>6, <1>7 DEF Bounds

LEMMA GetReturnBounds ==
  ASSUME Bounds, get_return
  PROVE  Bounds' /\ getlen' = getlen - get_len
<1> USE DEF get_return, putVars
<1>2. getlen' = getlen - get_len
  <2>1. UNCHANGED <<m_nin, m_nsize>> /\ m_nout' = (m_nout + get_len) % IndexMod
    OBVIOUS
  <2> HIDE DEF get_return
  <2> QED BY <2>1, Ranges, GapShrinks DEF getlen
<1>3. TypeOK'
  <2>1. m_nout' \in 0 .. IndexMod - 1
    BY Ranges, ModRange, Zenon
  <2> QED BY <2>1 DEF Bounds, TypeOK
<1>4. FillsWithinSize'
  BY <1>2, Ranges DEF FillsWithinSize
<1>5. Idle' /\ CallerBuffers'
  BY DEF Bounds, Idle, CallerBuffers
<1> QED BY <1>2, <1>3, <1>4, <1>5 DEF Bounds

LEMMA CleanBounds ==
  ASSUME Bounds, clean
  PROVE  Bounds' /\ getlen' = 0
<1> USE DEF clean, putVars, getVars
<1>1. put_len = 0 /\ get_len = 0 /\ TypeOK
  BY DEF Bounds, Idle
<1>2. IndexMod \in Nat \ {0} /\ m_nsize \in Nat
  BY <1>1, SizeFits
<1>3. getlen' = 0
  <2>1. m_nin' - m_nout' = 0 /\ 0 \in 0 .. IndexMod - 1
    BY <1>2
  <2>2. 0 % IndexMod = 0
    BY <1>2, <2>1, ModSmall
  <2> QED BY <2>1, <2>2 DEF getlen
<1>4. TypeOK'
  BY <1>1, <1>2 DEF TypeOK
<1>5. FillsWithinSize'
  BY <1>1, <1>2, <1>3 DEF FillsWithinSize
<1>6. Idle' /\ CallerBuffers'
  BY DEF Bounds, Idle, CallerBuffers
<1> QED BY <1>3, <1>4, <1>5, <1>6 DEF Bounds

-----------------------------------------------------------------------------
(* Places *)

\* Indices and places agree even where the index wraps.
LEMMA PlaceAfter ==
  ASSUME Bounds, m_nsize # 0, NEW index \in 0 .. IndexMod - 1, NEW n \in Nat,
         NEW i \in 0 .. m_nsize - 1, n + i \in 0 .. m_nsize - 1
  PROVE  Place((index + n) % IndexMod, i) = Place(index, n + i)
<1>1. m_nsize \in Nat \ {0} /\ index \in Nat
  BY Ranges
<1>2. IndexMod % m_nsize = 0 /\ IndexMod \in Nat \ {0}
  BY SizeFits DEF Bounds
<1> DEFINE x == index + n
           y == x % IndexMod
           q == x \div IndexMod
           k == IndexMod \div m_nsize
<1>3. x \in Int
  BY <1>1
<1>4. q \in Int /\ y \in Nat /\ x = IndexMod * q + y
  <2>1. y \in 0 .. IndexMod - 1
    BY <1>2, <1>3, ModRange, Zenon
  <2>2. q \in Int /\ x = IndexMod * q + y
    BY <1>2, <1>3, Division, Zenon
  <2> QED BY <1>2, <2>1, <2>2
<1>5. k \in Int /\ IndexMod = m_nsize * k
  BY <1>1, <1>2, Division
<1>6. Place(index, n + i) = (index + (n + i)) % m_nsize
  BY <1>1, PlaceIsMod
<1>7. Place(y, i) = (y + i) % m_nsize
  BY <1>1, <1>4, PlaceIsMod
<1> HIDE DEF q, k, y
<1>8. k * q \in Int /\ IndexMod * q = m_nsize * (k * q)
  BY <1>1, <1>4, <1>5
<1>9. index + (n + i) = (y + i) + m_nsize * (k * q)
  <2> DEFINE z == m_nsize * (k * q)
  <2>1. z \in Int /\ x = z + y
    BY <1>1, <1>4, <1>8
  <2> HIDE DEF z
  <2>2. index + (n + i) = (y + i) + z
    BY <1>1, <1>4, <2>1
  <2> QED BY <2>2 DEF z
<1>10. ((y + i) + m_nsize * (k * q)) % m_nsize = (y + i) % m_nsize
  <2>1. y + i \in Int
    BY <1>4
  <2> QED BY <1>1, <1>8, <2>1, ModShift, Zenon
<1>11. Place(y, i) = Place(index, n + i)
  BY <1>6, <1>7, <1>9, <1>10
<1> QED BY <1>11 DEF y

\* The i-th byte from m_nin on follows the getlen bytes from m_nout on.
LEMMA PlaceOfStored ==
  ASSUME Bounds, NEW i \in 0 .. put_len - 1
  PROVE  /\ m_nsize # 0 /\ getlen + i \in 0 .. m_nsize - 1
         /\ Place(m_nin, i) = Place(m_nout, getlen + i)
<1>1. /\ m_nsize # 0 /\ i \in 0 .. m_nsize - 1 /\ getlen + i \in 0 .. m_nsize - 1
      /\ getlen \in Nat
  BY Ranges
<1>2. m_nin = (m_nout + getlen) % IndexMod
  BY Ranges, GapEnd DEF getlen
<1>3. Place((m_nout + getlen) % IndexMod, i) = Place(m_nout, getlen + i)
  BY <1>1, Ranges, PlaceAfter
<1> QED BY <1>1, <1>2, <1>3

\* Fewer than m_nsize bytes in a row have places of their own.
LEMMA PlacesApart ==
  ASSUME m_nsize \in Nat \ {0}, NEW index \in Nat,
         NEW i \in 0 .. m_nsize - 1, NEW j \in 0 .. m_nsize - 1, i < j
  PROVE  Place(index, i) # Place(index, j)
<1>1. Place(index, i) = (index + i) % m_nsize /\ Place(index, j) = (index + j) % m_nsize
  BY PlaceIsMod
<1> DEFINE x == index + i
           d == j - i
<1>2. x \in Int /\ d \in 1 .. m_nsize - 1
  OBVIOUS
<1>3. index + j = x + d
  OBVIOUS
<1> HIDE DEF x, d
<1>4. x % m_nsize # (x + d) % m_nsize
  BY <1>2, PlacesDiffer
<1> QED BY <1>1, <1>3, <1>4 DEF x

\* What is stored, and what is being stored, is pairwise apart.
LEMMA StoredApart ==
  ASSUME Bounds, NEW i \in 0 .. put_len - 1
  PROVE  /\ \A j \in 0 .. getlen - 1 : Place(m_nin, i) # Place(m_nout, j)
         /\ \A k \in 0 .. put_len - 1 : k # i => Place(m_nin, i) # Place(m_nin, k)
<1>1. /\ m_nsize \in Nat \ {0} /\ getlen + i \in 0 .. m_nsize - 1
      /\ Place(m_nin, i) = Place(m_nout, getlen + i)
      /\ m_nout \in Nat /\ getlen \in Nat /\ i \in Nat
  BY PlaceOfStored, Ranges
<1>2. ASSUME NEW j \in 0 .. getlen - 1
      PROVE  Place(m_nin, i) # Place(m_nout, j)
  <2>1. j \in 0 .. m_nsize - 1 /\ j < getlen + i
    BY <1>1
  <2> QED BY <1>1, <2>1, PlacesApart
<1>3. ASSUME NEW k \in 0 .. put_len - 1, k # i
      PROVE  Place(m_nin, i) # Place(m_nin, k)
  <2>1. /\ getlen + k \in 0 .. m_nsize - 1
        /\ Place(m_nin, k) = Place(m_nout, getlen + k)
    BY PlaceOfStored
  <2>2. getlen + k < getlen + i \/ getlen + i < getlen + k
    BY <1>1, <1>3
  <2> QED BY <1>1, <2>1, <2>2, PlacesApart
<1> QED BY <1>2, <1>3

LEMMA BoundsApart == Bounds => NoUnreadOverwritten
<1> SUFFICES ASSUME Bounds, NEW i \in put_todo, NEW j \in 0 .. getlen - 1
             PROVE  Place(m_nin, i) # Place(m_nout, j)
  BY DEF NoUnreadOverwritten
<1>1. i \in 0 .. put_len - 1
  BY DEF Bounds, TypeOK
<1> QED BY <1>1, StoredApart

-----------------------------------------------------------------------------
(* Copied *)

\* A byte that a put writes is neither one it wrote before nor one that the
\* other thread is reading.
LEMMA PutCopyCopied ==
  ASSUME IInv, NEW i \in put_todo, put_copy(i)
  PROVE  Copied' /\ Stored' = Stored
<1> USE DEF put_copy, getVars
<1>1. i \in 0 .. put_len - 1 /\ put_len \in Nat /\ Bounds /\ TypeOK
  BY DEF IInv, Bounds, TypeOK
<1>2. Place(m_nin, i) \in 0 .. m_nsize - 1
  <2>1. m_nsize \in Nat \ {0} /\ i \in 0 .. m_nsize - 1 /\ m_nin \in Nat
    BY <1>1, Ranges
  <2> QED BY <2>1, PlaceIsMod
<1>3. \A p : m_pbuffer'[p] = IF p = Place(m_nin, i) /\ p \in 0 .. m_nsize - 1
                              THEN record[i + 1] ELSE m_pbuffer[p]
  BY <1>1 DEF TypeOK
<1>4. ASSUME NEW k \in (0 .. put_len' - 1) \ put_todo'
      PROVE  m_pbuffer'[Place(m_nin, k)] = record[k + 1]
  <2>1. CASE k = i
    BY <1>2, <1>3, <2>1
  <2>2. CASE k # i
    <3>1. k \in (0 .. put_len - 1) \ put_todo /\ Place(m_nin, i) # Place(m_nin, k)
      BY <1>1, <2>2, StoredApart
    <3>2. m_pbuffer[Place(m_nin, k)] = record[k + 1]
      BY <3>1 DEF IInv, Copied
    <3> QED BY <1>3, <3>1, <3>2
  <2> QED BY <2>1, <2>2
<1>5. \A j \in 0 .. getlen - 1 : m_pbuffer'[Place(m_nout, j)] = m_pbuffer[Place(m_nout, j)]
  BY <1>1, <1>3, StoredApart
<1>6. ASSUME NEW j \in (0 .. get_len - 1) \ get_todo
      PROVE  got[j + 1] = m_pbuffer'[Place(m_nout, j)]
  <2>1. j \in 0 .. getlen - 1
    BY <1>1, Ranges
  <2> QED BY <1>5, <2>1 DEF IInv, Copied
<1>7. Copied'
  BY <1>4, <1>6 DEF Copied, Place
<1>8. getlen' = getlen /\ \A x : Place(m_nout, x)' = Place(m_nout, x)
  BY DEF getlen, Place
<1>9. Stored' = Stored
  <2>1. \A x \in 1 .. getlen : x - 1 \in 0 .. getlen - 1
    BY <1>1, Ranges
  <2> QED BY <1>5, <1>8, <2>1 DEF Stored
<1> QED BY <1>7, <1>9

LEMMA GetCopyCopied ==
  ASSUME IInv, NEW i \in get_todo, get_copy(i)
  PROVE  Copied'
<1> USE DEF get_copy, putVars
<1>1. /\ getting /\ got \in Seq(Bytes \cup {Junk}) /\ Len(got) = get_len
      /\ i \in 0 .. get_len - 1 /\ get_len \in Nat
  BY DEF IInv, Bounds, TypeOK, Idle, CallerBuffers
<1>2. ASSUME NEW j \in (0 .. get_len' - 1) \ get_todo'
      PROVE  got'[j + 1] = m_pbuffer[Place(m_nout, j)]
  <2>1. CASE j = i
    BY <1>1, <2>1
  <2>2. CASE j # i
    <3>1. j \in (0 .. get_len - 1) \ get_todo /\ got'[j + 1] = got[j + 1]
      BY <1>1, <2>2
    <3> QED BY <3>1 DEF IInv, Copied
  <2> QED BY <2>1, <2>2
<1>3. \A k \in (0 .. put_len - 1) \ put_todo : m_pbuffer[Place(m_nin, k)] = record[k + 1]
  BY DEF IInv, Copied
<1> QED BY <1>2, <1>3 DEF Copied, Place

LEMMA StepIInv == IInv /\ [Next]_vars => IInv'
<1> SUFFICES ASSUME IInv, [Next]_vars PROVE IInv'
  OBVIOUS
<1> USE DEF IInv
<1>1. ASSUME NEW r \in Records, put_begin(r) PROVE IInv'
  <2>1. Copied'
    BY <1>1 DEF put_begin, putVars, getVars, Copied, Place, Bounds, TypeOK
  <2> QED BY <1>1, <2>1, PutBeginBounds
<1>2. ASSUME NEW i \in put_todo, put_copy(i) PROVE IInv'
  BY <1>2, PutCopyBounds, PutCopyCopied
<1>3. CASE put_return
  <2>1. Copied'
    BY <1>3 DEF put_return, putVars, getVars, Copied, Place, Bounds, TypeOK
  <2> QED BY <1>3, <2>1, PutReturnBounds
<1>4. ASSUME NEW len \in GetLens, get_begin(len) PROVE IInv'
  <2>1. Copied'
    BY <1>4 DEF get_begin, putVars, getVars, Copied, Place, Bounds, TypeOK
  <2> QED BY <1>4, <2>1, GetBeginBounds
<1>5. ASSUME NEW i \in get_todo, get_copy(i) PROVE IInv'
  BY <1>5, GetCopyBounds, GetCopyCopied
<1>6. CASE get_return
  <2>1. Copied'
    BY <1>6 DEF get_return, putVars, getVars, Copied, Place, Bounds, TypeOK
  <2> QED BY <1>6, <2>1, GetReturnBounds
<1>7. CASE clean
  <2>1. Copied'
    BY <1>7 DEF clean, putVars, getVars, Copied, Place, Bounds, Idle
  <2> QED BY <1>7, <2>1, CleanBounds
<1>8. CASE UNCHANGED vars
  BY <1>8 DEF vars, putVars, getVars, Bounds, TypeOK, FillsWithinSize, Idle,
              CallerBuffers, Copied, getlen, Place
<1> QED BY <1>1, <1>2, <1>3, <1>4, <1>5, <1>6, <1>7, <1>8 DEF Next

-----------------------------------------------------------------------------
(* Kfifo implements ByteFifo *)

LEMMA StoredSeq ==
  ASSUME Bounds
  PROVE  /\ Len(Stored) = getlen /\ DOMAIN Stored = 1 .. getlen /\ getlen \in Nat
         /\ Stored \in Seq(Bytes \cup {Junk})
<1>1. Len(Stored) = getlen /\ DOMAIN Stored = 1 .. getlen /\ getlen \in Nat
  BY Ranges DEF Stored
<1>2. ASSUME NEW i \in 1 .. getlen
      PROVE  m_pbuffer[Place(m_nout, i - 1)] \in Bytes \cup {Junk}
  <2>1. m_nsize \in Nat \ {0} /\ i - 1 \in 0 .. m_nsize - 1 /\ m_nout \in Nat
    BY <1>1, Ranges
  <2>2. Place(m_nout, i - 1) \in 0 .. m_nsize - 1
    BY <2>1, PlaceIsMod
  <2> QED BY <2>2 DEF Bounds, TypeOK
<1>3. Stored \in Seq(Bytes \cup {Junk})
  BY <1>1, <1>2 DEF Stored
<1> QED BY <1>1, <1>3

LEMMA FifoInit == Init => Fifo!Init
<1> SUFFICES ASSUME Init PROVE Fifo!Init
  OBVIOUS
<1>1. Bounds
  BY InitBounds DEF IInv
<1>2. m_nsize \in Nat /\ get_len = 0 /\ got = <<>>
  BY <1>1, Ranges DEF Init
<1>3. getlen = 0
  <2>1. m_nin - m_nout = 0 /\ 0 \in 0 .. IndexMod - 1 /\ IndexMod \in Nat \ {0}
    BY <1>1, Ranges DEF Init
  <2>2. 0 % IndexMod = 0
    BY <2>1, ModSmall
  <2> QED BY <2>1, <2>2 DEF getlen
<1>4. Stored = <<>>
  BY <1>3 DEF Stored
<1>5. Storing = <<>>
  BY DEF Init, Storing
<1> QED BY <1>2, <1>4, <1>5 DEF Fifo!Init

LEMMA PutBeginFifo ==
  ASSUME IInv, NEW r \in Records, put_begin(r)
  PROVE  Fifo!PutBegin
<1> USE DEF put_begin, getVars
<1>1. Bounds /\ put_len = 0 /\ record = <<>>
  BY DEF IInv, Bounds, Idle
<1>2. Storing = <<>>
  BY <1>1 DEF Storing
<1>3. Stored' = Stored
  BY DEF Stored, getlen, Place
<1>4. put_len' = Fifo!Smaller(Len(r), m_nsize - Len(Stored))
  BY <1>1, RoomLeft, StoredSeq DEF std_min, Fifo!Smaller
<1>5. Storing' = SubSeq(r, 1, Fifo!Smaller(Len(r), m_nsize - Len(Stored)))
  BY <1>4 DEF Storing
<1> QED BY <1>2, <1>3, <1>5 DEF Fifo!PutBegin

\* Its bytes are in place when the index moves past them.
LEMMA PutReturnFifo ==
  ASSUME IInv, put_return
  PROVE  Fifo!PutEnd
<1> USE DEF put_return, getVars
<1>1. Bounds /\ put_len \in Nat /\ record \in Seq(Bytes) /\ put_len <= Len(record)
  BY DEF IInv, Bounds, TypeOK, CallerBuffers
<1>2. getlen' = getlen + put_len /\ getlen \in Nat
  BY <1>1, PutReturnBounds, Ranges
<1>3. Storing \in Seq(Bytes) /\ Len(Storing) = put_len
      /\ \A i \in 1 .. put_len : Storing[i] = record[i]
  BY <1>1 DEF Storing
<1>4. \A i \in 1 .. put_len : m_pbuffer[Place(m_nout, getlen + i - 1)] = record[i]
  <2> SUFFICES ASSUME NEW i \in 1 .. put_len
               PROVE  m_pbuffer[Place(m_nout, getlen + i - 1)] = record[i]
    OBVIOUS
  <2>1. i - 1 \in (0 .. put_len - 1) \ put_todo /\ (i - 1) + 1 = i
        /\ getlen + (i - 1) = getlen + i - 1
    BY <1>1, <1>2
  <2>2. m_pbuffer[Place(m_nin, i - 1)] = record[i]
    BY <2>1 DEF IInv, Copied
  <2>3. Place(m_nin, i - 1) = Place(m_nout, getlen + (i - 1))
    BY <1>1, <2>1, PlaceOfStored
  <2> QED BY <2>1, <2>2, <2>3
<1>5. Stored' = [i \in 1 .. getlen + put_len |-> m_pbuffer[Place(m_nout, i - 1)]]
  BY <1>2 DEF Stored, Place
<1>6. Stored' = Stored \o Storing
  <2>1. /\ Stored \o Storing \in Seq(Bytes \cup {Junk})
        /\ Len(Stored \o Storing) = getlen + put_len
        /\ \A i \in 1 .. getlen + put_len : (Stored \o Storing)[i] =
             IF i <= getlen THEN Stored[i] ELSE Storing[i - getlen]
    <3>1. /\ Stored \in Seq(Bytes \cup {Junk}) /\ Storing \in Seq(Bytes \cup {Junk})
          /\ Len(Stored) = getlen /\ Len(Storing) = put_len
      BY <1>1, <1>3, StoredSeq
    <3> QED BY <3>1, ConcatProperties
  <2> DEFINE both == Stored \o Storing
  <2> HIDE DEF put_return, both
  <2>2. ASSUME NEW i \in 1 .. getlen + put_len
        PROVE  both[i] = m_pbuffer[Place(m_nout, i - 1)]
    <3>1. both[i] = IF i <= getlen THEN Stored[i] ELSE Storing[i - getlen]
      BY <2>1 DEF both
    <3>2. CASE i <= getlen
      <4>1. i \in 1 .. getlen
        BY <1>2, <3>2
      <4>2. Stored[i] = m_pbuffer[Place(m_nout, i - 1)]
        BY <4>1 DEF Stored
      <4> QED BY <3>1, <3>2, <4>2
    <3>3. CASE ~(i <= getlen)
      <4>1. i - getlen \in 1 .. put_len /\ getlen + (i - getlen) - 1 = i - 1
        BY <1>1, <1>2, <3>3
      <4>2. Storing[i - getlen] = m_pbuffer[Place(m_nout, getlen + (i - getlen) - 1)]
        BY <1>3, <1>4, <4>1
      <4> QED BY <3>1, <3>3, <4>1, <4>2
    <3> QED BY <3>2, <3>3
  <2>3. both = [i \in 1 .. getlen + put_len |-> both[i]]
    <3>1. both \in Seq(Bytes \cup {Junk}) /\ Len(both) = getlen + put_len
      BY <2>1 DEF both
    <3> QED BY <3>1
  <2>4. Stored' = both
    BY <1>5, <2>2, <2>3
  <2> QED BY <2>4 DEF both
<1>7. Storing' = <<>>
  BY DEF Storing
<1> QED BY <1>6, <1>7 DEF Fifo!PutEnd

LEMMA GetBeginFifo ==
  ASSUME IInv, NEW len \in GetLens, get_begin(len)
  PROVE  Fifo!GetBegin
<1> USE DEF get_begin, putVars
<1>1. Bounds /\ get_len = 0
  BY DEF IInv, Bounds, Idle
<1>2. Stored' = Stored /\ Storing' = Storing
  BY DEF Stored, Storing, getlen, Place
<1>3. get_len' = Fifo!Smaller(len, Len(Stored))
  BY <1>1, StoredSeq DEF std_min, Fifo!Smaller
<1> QED BY <1>1, <1>2, <1>3 DEF Fifo!GetBegin

\* What it hands out is the front of the queue, and the rest stays.
LEMMA GetReturnFifo ==
  ASSUME IInv, get_return
  PROVE  Fifo!GetEnd
<1> USE DEF get_return, putVars
<1>1. /\ Bounds /\ getting /\ get_len \in Nat /\ get_len <= getlen /\ getlen \in Nat
      /\ got \in Seq(Bytes \cup {Junk}) /\ Len(got) = get_len
  BY Ranges DEF IInv, Bounds, TypeOK, CallerBuffers
<1>2. getlen' = getlen - get_len
  BY <1>1, GetReturnBounds
<1>3. Storing' = Storing
  BY DEF Storing
<1>4. got = SubSeq(Stored, 1, get_len)
  <2>1. ASSUME NEW i \in 1 .. get_len PROVE got[i] = Stored[i]
    <3>1. i - 1 \in (0 .. get_len - 1) \ get_todo /\ (i - 1) + 1 = i /\ i \in 1 .. getlen
      BY <1>1
    <3>2. got[i] = m_pbuffer[Place(m_nout, i - 1)]
      BY <3>1 DEF IInv, Copied
    <3> QED BY <3>1, <3>2 DEF Stored
  <2>2. SubSeq(Stored, 1, get_len) = [i \in 1 .. get_len |-> Stored[i]]
    BY <1>1, StoredSeq
  <2>3. got = [i \in 1 .. get_len |-> got[i]]
    BY <1>1
  <2> QED BY <2>1, <2>2, <2>3
<1>5. Stored' = SubSeq(Stored, get_len + 1, Len(Stored))
  <2>1. Stored' = [i \in 1 .. getlen - get_len |->
                     m_pbuffer[Place((m_nout + get_len) % IndexMod, i - 1)]]
    BY <1>2 DEF Stored, Place
  <2>2. ASSUME NEW i \in 1 .. getlen - get_len
        PROVE  Place((m_nout + get_len) % IndexMod, i - 1) = Place(m_nout, get_len + i - 1)
    <3> HIDE DEF get_return
    <3>0. /\ m_nsize \in Nat /\ getlen + put_len <= m_nsize /\ put_len \in Nat
          /\ m_nout \in 0 .. IndexMod - 1
      BY <1>1, Ranges
    <3>1. /\ m_nsize # 0 /\ i - 1 \in 0 .. m_nsize - 1
          /\ get_len + (i - 1) \in 0 .. m_nsize - 1
          /\ get_len + (i - 1) = get_len + i - 1
          /\ m_nout \in 0 .. IndexMod - 1
      BY <1>1, <3>0
    <3>2. Place((m_nout + get_len) % IndexMod, i - 1) = Place(m_nout, get_len + (i - 1))
      BY <1>1, <3>1, PlaceAfter
    <3> QED BY <3>1, <3>2
  <2>3. SubSeq(Stored, get_len + 1, Len(Stored))
          = [i \in 1 .. getlen - get_len |-> m_pbuffer[Place(m_nout, get_len + i - 1)]]
    <3>1. SubSeq(Stored, get_len + 1, getlen)
            = [i \in 1 .. getlen - get_len |-> Stored[get_len + i]]
      BY <1>1, StoredSeq
    <3>2. ASSUME NEW i \in 1 .. getlen - get_len
          PROVE  Stored[get_len + i] = m_pbuffer[Place(m_nout, get_len + i - 1)]
      BY <1>1 DEF Stored
    <3> QED BY <1>1, <3>1, <3>2, StoredSeq
  <2> QED BY <2>1, <2>2, <2>3
<1> QED BY <1>1, <1>3, <1>4, <1>5 DEF Fifo!GetEnd

LEMMA CleanFifo ==
  ASSUME IInv, clean
  PROVE  Fifo!Clean
<1> USE DEF clean, putVars, getVars
<1>1. Bounds /\ put_len = 0 /\ get_len = 0 /\ record = <<>>
  BY DEF IInv, Bounds, Idle
<1>2. Storing = <<>> /\ Storing' = Storing
  BY <1>1 DEF Storing
<1>3. getlen' = 0
  BY <1>1, CleanBounds
<1>4. Stored' = <<>>
  BY <1>3 DEF Stored
<1> QED BY <1>1, <1>2, <1>4 DEF Fifo!Clean

LEMMA StepFifo == IInv /\ [Next]_vars => [Fifo!Next]_(Fifo!vars)
<1> SUFFICES ASSUME IInv, [Next]_vars PROVE [Fifo!Next]_(Fifo!vars)
  OBVIOUS
<1>1. ASSUME NEW r \in Records, put_begin(r) PROVE Fifo!Next
  BY <1>1, PutBeginFifo DEF Fifo!Next
<1>2. ASSUME NEW i \in put_todo, put_copy(i) PROVE UNCHANGED Fifo!vars
  BY <1>2, PutCopyCopied DEF put_copy, getVars, Storing, Fifo!vars
<1>3. CASE put_return
  BY <1>3, PutReturnFifo DEF Fifo!Next
<1>4. ASSUME NEW len \in GetLens, get_begin(len) PROVE Fifo!Next
  BY <1>4, GetBeginFifo DEF Fifo!Next
<1>5. ASSUME NEW i \in get_todo, get_copy(i) PROVE UNCHANGED Fifo!vars
  <2>1. getting /\ Stored' = Stored /\ Storing' = Storing
    BY <1>5 DEF get_copy, putVars, Stored, Storing, getlen, Place, IInv, Bounds, Idle
  <2> QED BY <1>5, <2>1 DEF get_copy, putVars, Fifo!vars
<1>6. CASE get_return
  BY <1>6, GetReturnFifo DEF Fifo!Next
<1>7. CASE clean
  BY <1>7, CleanFifo DEF Fifo!Next
<1>8. CASE UNCHANGED vars
  BY <1>8 DEF vars, putVars, getVars, Stored, Storing, getlen, Place, Fifo!vars
<1> QED BY <1>1, <1>2, <1>3, <1>4, <1>5, <1>6, <1>7, <1>8 DEF Next

-----------------------------------------------------------------------------
(* Records of one length, taken one by one *)

OneLength(L) ==
  /\ L \in Nat \ {0}
  /\ \A r \in Records : Len(r) = L
  /\ GetLens = {L}

\* q is a number of records, one after the other.
Whole(q, L) ==
  \E n \in Nat :
    /\ Len(q) = n * L
    /\ \A k \in 0 .. n - 1 : SubSeq(q, k * L + 1, k * L + L) \in Records

\* Multiples of a length.
LEMMA Multiples ==
  ASSUME NEW L \in Nat \ {0}, NEW k \in Nat, NEW n \in Nat
  PROVE  /\ k * L \in Nat /\ n * L \in Nat /\ (k + 1) * L = k * L + L /\ 0 * L = 0
         /\ k < n => k * L + L <= n * L
<1>1. k * L \in Nat /\ n * L \in Nat /\ (k + 1) * L = k * L + L /\ 0 * L = 0
  OBVIOUS
<1>2. ASSUME k < n PROVE k * L + L <= n * L
  <2>1. n - (k + 1) \in Nat
    BY <1>2
  <2>2. (n - (k + 1)) * L \in Nat /\ (n - (k + 1)) * L = n * L - (k + 1) * L
    BY <2>1
  <2> QED BY <1>1, <2>2
<1> QED BY <1>1, <1>2

\* A part of a sequence, as a function of its places.
LEMMA Slice ==
  ASSUME NEW S, NEW q \in Seq(S), NEW j \in Nat, NEW L \in Nat, j + L <= Len(q)
  PROVE  SubSeq(q, j + 1, j + L) = [i \in 1 .. L |-> q[j + i]]
  OBVIOUS

LEMMA WholeAppend ==
  ASSUME NEW S, NEW L \in Nat \ {0}, NEW q \in Seq(S), NEW r \in Seq(S),
         r \in Records, Len(r) = L, Whole(q, L)
  PROVE  Whole(q \o r, L)
<1>1. PICK n \in Nat : /\ Len(q) = n * L
                       /\ \A k \in 0 .. n - 1 : SubSeq(q, k * L + 1, k * L + L) \in Records
  BY DEF Whole
<1> DEFINE b == q \o r
           m == n * L
<1>2. /\ b \in Seq(S) /\ Len(b) = Len(q) + Len(r)
      /\ \A i \in 1 .. Len(b) : b[i] = IF i <= Len(q) THEN q[i] ELSE r[i - Len(q)]
  BY ConcatProperties
<1>3. m \in Nat /\ (n + 1) * L = m + L /\ n + 1 \in Nat
  BY Multiples
<1> HIDE DEF b, m
<1>4. Len(q) = m /\ Len(b) = m + L
  BY <1>1, <1>2 DEF m
<1>5. ASSUME NEW k \in 0 .. n PROVE SubSeq(b, k * L + 1, k * L + L) \in Records
  <2> DEFINE a == k * L
  <2>1. a \in Nat
    BY Multiples
  <2>2. CASE k = n
    <3>1. SubSeq(b, m + 1, m + L) = [i \in 1 .. L |-> b[m + i]]
      BY <1>2, <1>3, <1>4, Slice
    <3>2. \A i \in 1 .. L : b[m + i] = r[i]
      BY <1>2, <1>3, <1>4
    <3>3. r = [i \in 1 .. L |-> r[i]]
      OBVIOUS
    <3>4. SubSeq(b, m + 1, m + L) = r
      BY <3>1, <3>2, <3>3
    <3> QED BY <2>2, <3>4 DEF m
  <2>3. CASE k # n
    <3>1. k \in 0 .. n - 1 /\ k \in Nat /\ k < n
      BY <2>3
    <3>2. a + L <= m
      BY <3>1, Multiples DEF m
    <3>3. SubSeq(q, a + 1, a + L) \in Records
      BY <1>1, <3>1
    <3> HIDE DEF a
    <3>4. SubSeq(b, a + 1, a + L) = [i \in 1 .. L |-> b[a + i]]
      <4>1. a + L <= Len(b)
        BY <1>3, <1>4, <3>2, <2>1
      <4> QED BY <4>1, <1>2, <2>1, Slice
    <3>5. SubSeq(q, a + 1, a + L) = [i \in 1 .. L |-> q[a + i]]
      BY <1>3, <1>4, <2>1, <3>2
    <3>6. \A i \in 1 .. L : b[a + i] = q[a + i]
      BY <1>2, <1>3, <1>4, <2>1, <3>2
    <3>7. SubSeq(b, a + 1, a + L) \in Records
      BY <3>3, <3>4, <3>5, <3>6
    <3> QED BY <3>7 DEF a
  <2> QED BY <2>2, <2>3
<1>6. (n + 1) - 1 = n
  OBVIOUS
<1> QED BY <1>3, <1>4, <1>5, <1>6 DEF Whole, b

LEMMA WholeFront ==
  ASSUME NEW S, NEW L \in Nat \ {0}, NEW q \in Seq(S), Whole(q, L), Len(q) # 0
  PROVE  /\ L <= Len(q) /\ SubSeq(q, 1, L) \in Records
         /\ Whole(SubSeq(q, L + 1, Len(q)), L)
<1>1. PICK n \in Nat : /\ Len(q) = n * L
                       /\ \A k \in 0 .. n - 1 : SubSeq(q, k * L + 1, k * L + L) \in Records
  BY DEF Whole
<1>2. n - 1 \in Nat /\ 0 \in 0 .. n - 1
  <2>1. n # 0
    BY <1>1, Multiples
  <2> QED BY <2>1
<1> DEFINE m == n * L
           rest == SubSeq(q, L + 1, m)
<1>3. m \in Nat /\ (n - 1) * L = m - L /\ L <= m
  <2>1. (n - 1) + 1 = n
    OBVIOUS
  <2>2. (n - 1) * L \in Nat /\ ((n - 1) + 1) * L = (n - 1) * L + L
    BY <1>2, Multiples
  <2> QED BY <2>1, <2>2
<1>4. SubSeq(q, 1, L) \in Records
  <2>1. 0 * L + 1 = 1 /\ 0 * L + L = L
    OBVIOUS
  <2>2. SubSeq(q, 0 * L + 1, 0 * L + L) \in Records
    BY <1>1, <1>2
  <2> QED BY <2>1, <2>2
<1>5. Len(q) = m
  BY <1>1
<1> HIDE DEF m
<1>6. rest \in Seq(S) /\ Len(rest) = m - L /\ \A i \in 1 .. m - L : rest[i] = q[L + i]
  <2>1. L + 1 \in Int /\ m \in Int /\ \A i \in L + 1 .. m : q[i] \in S
    BY <1>3, <1>5
  <2>2. /\ rest \in Seq(S)
        /\ Len(rest) = IF L + 1 <= m THEN m - (L + 1) + 1 ELSE 0
        /\ \A i \in 1 .. m - (L + 1) + 1 : rest[i] = q[(L + 1) + i - 1]
    BY <2>1, SubSeqProperties
  <2> HIDE DEF rest
  <2>3. m - (L + 1) + 1 = m - L /\ (L + 1 <= m \/ m - L = 0)
    BY <1>3
  <2>4. \A i \in 1 .. m - L : (L + 1) + i - 1 = L + i
    BY <1>3
  <2> QED BY <2>2, <2>3, <2>4
<1> HIDE DEF rest
<1>7. ASSUME NEW k \in 0 .. (n - 1) - 1 PROVE SubSeq(rest, k * L + 1, k * L + L) \in Records
  <2> DEFINE a == k * L
  <2>1. k \in Nat /\ k + 1 \in 0 .. n - 1 /\ k < n - 1
    OBVIOUS
  <2>2. a \in Nat /\ (k + 1) * L = a + L /\ a + L <= m - L
    BY <1>2, <1>3, <2>1, Multiples
  <2>3. SubSeq(q, (k + 1) * L + 1, (k + 1) * L + L) \in Records
    BY <1>1, <2>1
  <2>4. SubSeq(q, (a + L) + 1, (a + L) + L) \in Records
    BY <2>2, <2>3
  <2> HIDE DEF a
  <2>5. SubSeq(q, (a + L) + 1, (a + L) + L) = [i \in 1 .. L |-> q[(a + L) + i]]
    <3>1. a + L \in Nat /\ (a + L) + L <= Len(q)
      BY <1>3, <1>5, <2>2
    <3> QED BY <3>1, Slice
  <2>6. SubSeq(rest, a + 1, a + L) = [i \in 1 .. L |-> rest[a + i]]
    <3>1. a + L <= Len(rest)
      BY <1>3, <1>6, <2>2
    <3> QED BY <1>6, <2>2, <3>1, Slice
  <2>7. \A i \in 1 .. L : rest[a + i] = q[(a + L) + i]
    <3> SUFFICES ASSUME NEW i \in 1 .. L PROVE rest[a + i] = q[(a + L) + i]
      OBVIOUS
    <3>1. a + i \in 1 .. m - L /\ L + (a + i) = (a + L) + i
      BY <1>3, <2>2
    <3> QED BY <1>6, <3>1
  <2>8. SubSeq(rest, a + 1, a + L) \in Records
    BY <2>4, <2>5, <2>6, <2>7
  <2> QED BY <2>8 DEF a
<1>8. Whole(rest, L)
  BY <1>2, <1>3, <1>6, <1>7 DEF Whole
<1> QED BY <1>3, <1>4, <1>5, <1>8 DEF rest

\* What the last get returned.
Delivered == IF getting THEN <<>> ELSE got

\* What a queue of records keeps: only whole records are stored, being stored,
\* taken and delivered.
RecordByRecord(L) ==
  m_nsize % L = 0 =>
    /\ Whole(Stored, L)
    /\ Storing = <<>> \/ Storing \in Records
    /\ get_len \in {0, L}
    /\ Delivered = <<>> \/ Delivered \in Records

\* As far as there is room at all there is room for a record.
LEMMA RoomForRecord ==
  ASSUME NEW L \in Nat \ {0}, NEW size \in Nat, size % L = 0, NEW q, Whole(q, L), Len(q) <= size
  PROVE  size - Len(q) = 0 \/ size - Len(q) >= L
<1>1. PICK n \in Nat : Len(q) = n * L
  BY DEF Whole
<1> DEFINE d == size \div L
<1>2. d \in Int /\ size = L * d
  BY Division
<1> HIDE DEF d
<1>3. (d - n) * L = size - Len(q) /\ d - n \in Int
  BY <1>1, <1>2
<1>4. CASE d - n <= 0
  <2>1. (d - n) * L <= 0
    BY <1>3, <1>4
  <2> QED BY <1>1, <1>3, <2>1
<1>5. CASE d - n >= 1
  <2>1. (d - n - 1) * L >= 0 /\ (d - n - 1) * L = (d - n) * L - L
    BY <1>3, <1>5
  <2> QED BY <1>1, <1>3, <2>1
<1> QED BY <1>3, <1>4, <1>5

LEMMA RecordsInit ==
  ASSUME NEW L, OneLength(L), Init
  PROVE  RecordByRecord(L)
<1>1. Stored = <<>> /\ Storing = <<>> /\ get_len = 0 /\ Delivered = <<>>
  BY FifoInit DEF Init, Fifo!Init, Delivered
<1>2. Whole(<<>>, L)
  BY DEF Whole, OneLength
<1> QED BY <1>1, <1>2 DEF RecordByRecord

LEMMA RecordsStep ==
  ASSUME NEW L, OneLength(L), IInv, RecordByRecord(L), [Next]_vars
  PROVE  RecordByRecord(L)'
<1> DEFINE S == Bytes \cup {Junk}
<1>1. [Fifo!Next]_(Fifo!vars)
  BY StepFifo
<1>2. m_nsize' = m_nsize
  BY <1>1 DEF Fifo!Next, Fifo!PutBegin, Fifo!PutEnd, Fifo!GetBegin, Fifo!GetEnd, Fifo!Clean, Fifo!vars
<1> SUFFICES ASSUME m_nsize % L = 0
             PROVE  /\ Whole(Stored', L)
                    /\ Storing' = <<>> \/ Storing' \in Records
                    /\ get_len' \in {0, L}
                    /\ Delivered' = <<>> \/ Delivered' \in Records
  BY <1>2 DEF RecordByRecord, Whole
<1>3. /\ L \in Nat \ {0} /\ GetLens = {L}
      /\ \A r \in Records : Len(r) = L /\ r \in Seq(Bytes) /\ r \in Seq(S)
  BY KfifoAssumption DEF OneLength, KfifoAssumption
<1>4. /\ Whole(Stored, L)
      /\ Storing = <<>> \/ Storing \in Records
      /\ get_len \in {0, L}
      /\ Delivered = <<>> \/ Delivered \in Records
  BY DEF RecordByRecord
<1>5. /\ Stored \in Seq(S) /\ Len(Stored) \in Nat /\ m_nsize \in Nat
      /\ Len(Stored) <= m_nsize /\ get_len <= Len(Stored)
  <2>1. Bounds
    BY DEF IInv
  <2>2. /\ Stored \in Seq(S) /\ Len(Stored) = getlen /\ getlen \in Nat /\ m_nsize \in Nat
        /\ getlen + put_len <= m_nsize /\ get_len <= getlen /\ put_len \in Nat
    BY <2>1, StoredSeq, Ranges
  <2> QED BY <2>2
<1>6. Whole(<<>>, L)
  BY <1>3 DEF Whole
<1> HIDE DEF S
<1>7. CASE Fifo!PutBegin
  <2>1. PICK r \in Records : Storing' = SubSeq(r, 1, Fifo!Smaller(Len(r), m_nsize - Len(Stored)))
    BY <1>7 DEF Fifo!PutBegin
  <2>2. UNCHANGED <<Stored, get_len, Delivered>>
    BY <1>7 DEF Fifo!PutBegin, Delivered
  <2>3. Len(r) = L /\ r \in Seq(Bytes)
    BY <1>3
  <2>4. m_nsize - Len(Stored) = 0 \/ m_nsize - Len(Stored) >= L
    BY <1>3, <1>4, <1>5, RoomForRecord
  <2>5. Fifo!Smaller(L, m_nsize - Len(Stored)) \in {0, L}
    BY <1>3, <1>5, <2>4 DEF Fifo!Smaller
  <2>6. SubSeq(r, 1, 0) = <<>> /\ SubSeq(r, 1, L) = r
    BY <1>3, <2>3
  <2>7. Storing' = <<>> \/ Storing' \in Records
    BY <2>1, <2>3, <2>5, <2>6
  <2> QED BY <1>4, <2>2, <2>7
<1>8. CASE Fifo!PutEnd
  <2>1. Stored' = Stored \o Storing /\ Storing' = <<>> /\ UNCHANGED <<get_len, Delivered>>
    BY <1>8 DEF Fifo!PutEnd, Delivered
  <2>2. CASE Storing = <<>>
    BY <1>4, <1>5, <2>1, <2>2
  <2>3. CASE Storing \in Records
    <3>1. Whole(Stored \o Storing, L)
      BY <1>3, <1>4, <1>5, <2>3, WholeAppend
    <3> QED BY <1>4, <2>1, <3>1
  <2> QED BY <1>4, <2>2, <2>3
<1>9. CASE Fifo!GetBegin
  <2>1. /\ get_len' = Fifo!Smaller(L, Len(Stored)) /\ Delivered' = <<>>
        /\ UNCHANGED <<Stored, Storing>>
    BY <1>3, <1>9 DEF Fifo!GetBegin, Delivered
  <2>2. Len(Stored) = 0 \/ L <= Len(Stored)
    BY <1>3, <1>4, <1>5, WholeFront
  <2>3. get_len' \in {0, L}
    BY <1>3, <1>5, <2>1, <2>2 DEF Fifo!Smaller
  <2> QED BY <1>4, <2>1, <2>3
<1>10. CASE Fifo!GetEnd
  <2>1. /\ Delivered' = SubSeq(Stored, 1, get_len) /\ get_len' = 0 /\ Storing' = Storing
        /\ Stored' = SubSeq(Stored, get_len + 1, Len(Stored))
    BY <1>10 DEF Fifo!GetEnd, Delivered
  <2>2. CASE get_len = 0
    <3>1. SubSeq(Stored, 1, 0) = <<>> /\ SubSeq(Stored, 0 + 1, Len(Stored)) = Stored
      BY <1>5
    <3> QED BY <1>4, <2>1, <2>2, <3>1
  <2>3. CASE get_len = L
    <3>1. Len(Stored) # 0
      BY <1>3, <1>5, <2>3
    <3>2. SubSeq(Stored, 1, L) \in Records /\ Whole(SubSeq(Stored, L + 1, Len(Stored)), L)
      BY <1>3, <1>4, <1>5, <3>1, WholeFront
    <3> QED BY <1>4, <2>1, <2>3, <3>2
  <2> QED BY <1>4, <2>2, <2>3
<1>11. CASE Fifo!Clean
  BY <1>4, <1>6, <1>11 DEF Fifo!Clean, Delivered
<1>12. CASE UNCHANGED Fifo!vars
  BY <1>4, <1>12 DEF Fifo!vars, Delivered
<1> QED BY <1>1, <1>7, <1>8, <1>9, <1>10, <1>11, <1>12 DEF Fifo!Next

LEMMA RecordsAreWhole ==
  ASSUME NEW L, OneLength(L), IInv, RecordByRecord(L)
  PROVE  RecordsWhole
<1> SUFFICES ASSUME NEW r \in Records, m_nsize % Len(r) = 0
             PROVE  /\ getlen % Len(r) = 0
                    /\ put_len \in {0, Len(r)}
                    /\ ~getting => got = <<>> \/ got \in Records
  BY DEF RecordsWhole
<1>1. L \in Nat \ {0} /\ Len(r) = L
  BY DEF OneLength
<1>2. /\ Whole(Stored, L)
      /\ Storing = <<>> \/ Storing \in Records
      /\ Delivered = <<>> \/ Delivered \in Records
  BY <1>1 DEF RecordByRecord
<1>3. Bounds /\ Len(Stored) = getlen /\ record \in Seq(Bytes) /\ put_len \in Nat
      /\ put_len <= Len(record)
  BY StoredSeq DEF IInv, Bounds, TypeOK, CallerBuffers
<1>4. getlen % L = 0
  <2>1. PICK n \in Nat : getlen = n * L
    BY <1>2, <1>3 DEF Whole
  <2>2. getlen \in Int /\ getlen = L * n + 0 /\ 0 \in 0 .. L - 1
    BY <1>1, <2>1
  <2> QED BY <1>1, <2>2, DivisionUnique
<1>5. put_len \in {0, L}
  <2>1. Len(Storing) = put_len
    BY <1>3 DEF Storing
  <2>2. Storing \in Records => Len(Storing) = L
    BY DEF OneLength
  <2> QED BY <1>2, <2>1, <2>2
<1> QED BY <1>1, <1>2, <1>4, <1>5 DEF Delivered

-----------------------------------------------------------------------------
(* Theorems *)

\* The inductive invariant of the byte queue.
THEOREM KfifoInductive == Spec => []IInv
  BY InitBounds, StepIInv, PTL DEF Spec

\* Buffer, indices and the locals of the calls keep their ranges, for every
\* requested size: m_nsize is a power of two or 0.
THEOREM KfifoTypeOK == Spec => []TypeOK
  BY KfifoInductive, PTL DEF IInv, Bounds

\* Whatever the threads have sampled of each other's index, the buffer does
\* not overflow and no get takes more than there is.
THEOREM KfifoFills == Spec => []FillsWithinSize
  BY KfifoInductive, PTL DEF IInv, Bounds

\* The producer never writes a byte that has not been read.
THEOREM KfifoApart == Spec => []NoUnreadOverwritten
<1>1. IInv => NoUnreadOverwritten
  BY BoundsApart DEF IInv
<1> QED BY KfifoInductive, <1>1, PTL

\* Records of one length that divides the buffer's, as test.cpp puts and gets
\* them, are never cut: neither by a full buffer nor by its end.
THEOREM KfifoRecordsWhole ==
  ASSUME NEW L, OneLength(L)
  PROVE  Spec => []RecordsWhole
<1>1. Init => RecordByRecord(L)
  BY RecordsInit
<1>2. IInv /\ RecordByRecord(L) /\ [Next]_vars => RecordByRecord(L)'
  BY RecordsStep
<1>3. IInv /\ RecordByRecord(L) => RecordsWhole
  BY RecordsAreWhole
<1> QED BY <1>1, <1>2, <1>3, KfifoInductive, PTL DEF Spec

\* The lock-free queue implements the FIFO, for every size, index width,
\* record and interleaving of the two threads.
THEOREM KfifoImplementsFifo == Spec => FifoSpec
<1>1. IInv /\ [Next]_vars => [Fifo!Next]_(Fifo!vars)
  BY StepFifo
<1> QED BY KfifoInductive, FifoInit, <1>1, PTL DEF Spec, FifoSpec, Fifo!Spec
=============================================================================
