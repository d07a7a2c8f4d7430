----------------------------- MODULE DataLemmas -----------------------------
(* Facts about lists, remainders, quotients and least elements that the     *)
(* proofs rest on.                                                          *)
EXTENDS Integers, Sequences, Functions, TLAPS, WellFoundedInduction

-----------------------------------------------------------------------------
(* What pushing on and popping from a list without duplicates does to the   *)
(* set of its elements.                                                     *)

\* The empty list, a bd_list after memset, holds nothing.
LEMMA EmptyList == IsInjective(<<>>) /\ Range(<<>>) = {}
  BY DEF IsInjective, Range

\* bd_push_front of an element that is not in the list.
LEMMA PushList ==
  ASSUME NEW T, NEW s \in Seq(T), NEW x \in T, IsInjective(s), x \notin Range(s)
  PROVE  /\ Append(s, x) \in Seq(T)
         /\ IsInjective(Append(s, x))
         /\ Range(Append(s, x)) = Range(s) \cup {x}
<1> DEFINE r == Append(s, x)
<1>1. r \in Seq(T) /\ Len(r) = Len(s) + 1 /\ r[Len(s) + 1] = x
      /\ \A i \in 1 .. Len(s) : r[i] = s[i]
  OBVIOUS
<1>2. DOMAIN s = 1 .. Len(s) /\ DOMAIN r = 1 .. Len(s) + 1 /\ Len(s) \in Nat
  BY <1>1
<1> HIDE DEF r
<1>3. \A i \in DOMAIN s : s[i] # x
  BY DEF Range
<1>4. IsInjective(r)
  <2> SUFFICES ASSUME NEW i \in DOMAIN r, NEW j \in DOMAIN r, r[i] = r[j]
               PROVE  i = j
    BY DEF IsInjective
  <2>1. CASE i \in DOMAIN s /\ j \in DOMAIN s
    BY <2>1, <1>1, <1>2 DEF IsInjective
  <2>2. CASE i = Len(s) + 1 \/ j = Len(s) + 1
    BY <2>2, <1>1, <1>2, <1>3
  <2> QED BY <2>1, <2>2, <1>2
<1>5. Range(r) = Range(s) \cup {x}
  BY <1>1, <1>2 DEF Range
<1> QED BY <1>1, <1>4, <1>5 DEF r

\* bd_pop_back of a list that is not empty.
LEMMA PopList ==
  ASSUME NEW T, NEW s \in Seq(T), s # <<>>, IsInjective(s)
  PROVE  /\ Head(s) \in Range(s)
         /\ Tail(s) \in Seq(T)
         /\ IsInjective(Tail(s))
         /\ Range(Tail(s)) = Range(s) \ {Head(s)}
         /\ Len(Tail(s)) <= Len(s)
<1> DEFINE r == Tail(s)
<1>1. r \in Seq(T) /\ Len(r) = Len(s) - 1 /\ Head(s) = s[1]
      /\ \A i \in 1 .. Len(r) : r[i] = s[i + 1]
  OBVIOUS
<1>2. DOMAIN s = 1 .. Len(s) /\ DOMAIN r = 1 .. Len(s) - 1
      /\ Len(s) \in Nat /\ Len(s) >= 1
  BY <1>1
<1> HIDE DEF r
<1>3. s[1] \in Range(s)
  BY <1>2 DEF Range
<1>4. IsInjective(r)
  <2> SUFFICES ASSUME NEW i \in DOMAIN r, NEW j \in DOMAIN r, r[i] = r[j]
               PROVE  i = j
    BY DEF IsInjective
  <2>1. i + 1 \in DOMAIN s /\ j + 1 \in DOMAIN s /\ s[i + 1] = s[j + 1]
    BY <1>1, <1>2
  <2> QED BY <2>1, <1>2 DEF IsInjective
<1>5. Range(r) \subseteq Range(s) \ {s[1]}
  <2> SUFFICES ASSUME NEW i \in DOMAIN r
               PROVE  r[i] \in Range(s) /\ r[i] # s[1]
    BY DEF Range
  <2>1. i + 1 \in DOMAIN s /\ r[i] = s[i + 1] /\ i + 1 # 1 /\ 1 \in DOMAIN s
    BY <1>1, <1>2
  <2> QED BY <2>1 DEF Range, IsInjective
<1>6. Range(s) \ {s[1]} \subseteq Range(r)
  <2> SUFFICES ASSUME NEW i \in DOMAIN s, s[i] # s[1]
               PROVE  s[i] \in Range(r)
    BY DEF Range
  <2>1. i - 1 \in DOMAIN r /\ r[i - 1] = s[i]
    BY <1>1, <1>2
  <2> QED BY <2>1 DEF Range
<1> QED BY <1>1, <1>2, <1>3, <1>4, <1>5, <1>6 DEF r

-----------------------------------------------------------------------------
(* Remainders: indices that run freely modulo M and address a buffer of s   *)
(* places, where s divides M.                                               *)

LEMMA ModRange == ASSUME NEW M \in Nat \ {0}, NEW x \in Int PROVE x % M \in 0 .. M - 1
  OBVIOUS

LEMMA ModSmall == ASSUME NEW M \in Nat \ {0}, NEW x \in 0 .. M - 1 PROVE x % M = x
  OBVIOUS

LEMMA ModOver == ASSUME NEW M \in Nat \ {0}, NEW x \in M .. 2 * M - 1 PROVE x % M = x - M
  OBVIOUS

LEMMA ModUnder == ASSUME NEW M \in Nat \ {0}, NEW x \in -M .. -1 PROVE x % M = x + M
  OBVIOUS

\* The distance between two indices.
LEMMA ModDiff ==
  ASSUME NEW M \in Nat \ {0}, NEW a \in 0 .. M - 1, NEW b \in 0 .. M - 1
  PROVE  (a - b) % M = IF a >= b THEN a - b ELSE a - b + M
<1>1. CASE a >= b
  <2>1. a - b \in 0 .. M - 1
    BY <1>1
  <2> QED BY <1>1, <2>1, ModSmall
<1>2. CASE a < b
  <2>1. a - b \in -M .. -1
    BY <1>2
  <2>2. (a - b) % M = (a - b) + M
    BY <2>1, ModUnder
  <2> QED BY <1>2, <2>2
<1> QED BY <1>1, <1>2

\* An index that advances.
LEMMA ModSum ==
  ASSUME NEW M \in Nat \ {0}, NEW a \in 0 .. M - 1, NEW n \in 0 .. M
  PROVE  (a + n) % M = IF a + n < M THEN a + n ELSE a + n - M
<1>1. CASE a + n < M
  <2>1. a + n \in 0 .. M - 1
    BY <1>1
  <2> QED BY <1>1, <2>1, ModSmall
<1>2. CASE a + n >= M
  <2>1. a + n \in M .. 2 * M - 1
    BY <1>2
  <2>2. (a + n) % M = (a + n) - M
    BY <2>1, ModOver
  <2> QED BY <1>2, <2>2
<1> QED BY <1>1, <1>2

\* What the distance becomes when the first index advances without catching
\* up with the second, a whole turn ahead.
LEMMA GapGrows ==
  ASSUME NEW M \in Nat \ {0}, NEW a \in 0 .. M - 1, NEW b \in 0 .. M - 1, NEW n \in 0 .. M,
         ((a - b) % M) + n < M
  PROVE  (((a + n) % M) - b) % M = ((a - b) % M) + n
<1> DEFINE g == (a - b) % M
           c == (a + n) % M
           h == (c - b) % M
<1>1. g = IF a >= b THEN a - b ELSE a - b + M
  BY ModDiff
<1>2. c = IF a + n < M THEN a + n ELSE a + n - M
  BY ModSum
<1>3. c \in 0 .. M - 1
  BY <1>2
<1> HIDE DEF c
<1>4. h = IF c >= b THEN c - b ELSE c - b + M
  BY <1>3, ModDiff
<1>5. g + n < M
  OBVIOUS
<1> HIDE DEF g, h
<1>6. h = g + n
  BY <1>1, <1>2, <1>4, <1>5
<1> QED BY <1>6 DEF g, h, c

\* The same when the second follows.
LEMMA GapShrinks ==
  ASSUME NEW M \in Nat \ {0}, NEW a \in 0 .. M - 1, NEW b \in 0 .. M - 1, NEW n \in 0 .. M,
         n <= (a - b) % M
  PROVE  (a - ((b + n) % M)) % M = ((a - b) % M) - n
<1> DEFINE g == (a - b) % M
           c == (b + n) % M
           h == (a - c) % M
<1>1. g = IF a >= b THEN a - b ELSE a - b + M
  BY ModDiff
<1>2. c = IF b + n < M THEN b + n ELSE b + n - M
  BY ModSum
<1>3. c \in 0 .. M - 1
  BY <1>2
<1> HIDE DEF c
<1>4. h = IF a >= c THEN a - c ELSE a - c + M
  BY <1>3, ModDiff
<1>5. n <= g
  OBVIOUS
<1> HIDE DEF g, h
<1>6. h = g - n
  BY <1>1, <1>2, <1>4, <1>5
<1> QED BY <1>6 DEF g, h, c

\* The room that a gap of at most s leaves.
LEMMA GapRoom ==
  ASSUME NEW M \in Nat \ {0}, NEW a \in 0 .. M - 1, NEW b \in 0 .. M - 1, NEW s \in 0 .. M - 1,
         (a - b) % M <= s
  PROVE  (s - a + b) % M = s - ((a - b) % M)
<1> DEFINE g == (a - b) % M
           x == s - a + b
<1>1. g = IF a >= b THEN a - b ELSE a - b + M
  BY ModDiff
<1>2. g <= s
  OBVIOUS
<1> HIDE DEF g
<1>3. x = s - g \/ x = (s - g) + M
  BY <1>1
<1>4. s - g \in 0 .. M - 1
  BY <1>1, <1>2
<1>5. CASE x = s - g
  <2>1. x % M = s - g
    BY <1>4, <1>5, ModSmall
  <2> QED BY <2>1 DEF g
<1>6. CASE x = (s - g) + M
  <2>1. x \in M .. 2 * M - 1 /\ x - M = s - g
    BY <1>4, <1>6
  <2>2. x % M = x - M
    BY <2>1, ModOver
  <2> QED BY <2>1, <2>2 DEF g
<1> QED BY <1>3, <1>5, <1>6

\* The first index is the second plus the gap.
LEMMA GapEnd ==
  ASSUME NEW M \in Nat \ {0}, NEW a \in 0 .. M - 1, NEW b \in 0 .. M - 1
  PROVE  a = (b + ((a - b) % M)) % M
<1> DEFINE g == (a - b) % M
           c == (b + g) % M
<1>1. g = IF a >= b THEN a - b ELSE a - b + M
  BY ModDiff
<1>2. g \in 0 .. M
  BY <1>1
<1> HIDE DEF g
<1>3. c = IF b + g < M THEN b + g ELSE b + g - M
  BY <1>2, ModSum
<1> HIDE DEF c
<1>4. a = c
  BY <1>1, <1>3
<1> QED BY <1>4 DEF c, g

\* Quotient and remainder, and that they are the only ones.
LEMMA Division ==
  ASSUME NEW s \in Nat \ {0}, NEW x \in Int
  PROVE  x \div s \in Int /\ x = s * (x \div s) + (x % s)
  OBVIOUS

LEMMA DivisionUnique ==
  ASSUME NEW s \in Nat \ {0}, NEW x \in Int, NEW q \in Int, NEW r \in 0 .. s - 1,
         x = s * q + r
  PROVE  x % s = r
  OBVIOUS

\* Adding a multiple of s changes no place.
LEMMA ModShift ==
  ASSUME NEW s \in Nat \ {0}, NEW x \in Int, NEW k \in Int
  PROVE  (x + s * k) % s = x % s
<1> DEFINE q == x \div s
           r == x % s
<1>1. q \in Int /\ x = s * q + r /\ r \in 0 .. s - 1
  BY Division, ModRange
<1> HIDE DEF q, r
<1>2. q + k \in Int /\ s * (q + k) = s * q + s * k /\ s * k \in Int /\ s * q \in Int
  BY <1>1
<1>3. x + s * k = s * (q + k) + r
  BY <1>1, <1>2
<1>4. (x + s * k) % s = r
  BY <1>1, <1>2, <1>3, DivisionUnique
<1> QED BY <1>4 DEF r

\* Wrapping at M changes no place.
LEMMA ModMod ==
  ASSUME NEW M \in Nat \ {0}, NEW s \in Nat \ {0}, M % s = 0, NEW x \in Int
  PROVE  (x % M) % s = x % s
<1> DEFINE k == M \div s
           q == x \div M
           y == x % M
<1>1. k \in Int /\ M = s * k
  BY Division
<1>2. q \in Int /\ x = M * q + y /\ y \in Int
  BY Division, ModRange
<1> HIDE DEF k, q, y
<1>3. M * q = s * (k * q) /\ k * q \in Int
  BY <1>1, <1>2
<1>4. x = y + s * (k * q)
  BY <1>2, <1>3
<1> DEFINE j == k * q
<1>5. j \in Int /\ x = y + s * j
  BY <1>3, <1>4
<1> HIDE DEF j
<1>6. x % s = y % s
  <2>1. (y + s * j) % s = y % s
    BY <1>2, <1>5, ModShift, Zenon
  <2> QED BY <2>1, <1>5, Zenon
<1> QED BY <1>6 DEF y

\* The place of the i-th element from an index on, in a ring of s places.
LEMMA RingPlace ==
  ASSUME NEW s \in Nat \ {0}, NEW x \in Int, NEW i \in 0 .. s - 1
  PROVE  (x + i) % s = IF i < s - (x % s) THEN (x % s) + i ELSE i - (s - (x % s))
<1> DEFINE q == x \div s
           r == x % s
           y == r + i
<1>1. q \in Int /\ x = s * q + r /\ r \in 0 .. s - 1
  BY Division, ModRange
<1> HIDE DEF q, r
<1>2. y % s = IF r + i < s THEN r + i ELSE r + i - s
  <2>1. i \in 0 .. s /\ r \in 0 .. s - 1
    BY <1>1
  <2> QED BY <2>1, ModSum, Zenon
<1>3. y \in Int
  BY <1>1
<1>4. s * q \in Int /\ x + i = y + s * q
  BY <1>1
<1> HIDE DEF y
<1>5. (y + s * q) % s = y % s
  BY <1>1, <1>3, ModShift
<1>6. (x + i) % s = IF r + i < s THEN r + i ELSE r + i - s
  BY <1>2, <1>4, <1>5
<1>7. (x + i) % s = IF i < s - r THEN r + i ELSE i - (s - r)
  BY <1>1, <1>6
<1> QED BY <1>7 DEF r

\* Fewer than s indices in a row have different places.
LEMMA PlacesDiffer ==
  ASSUME NEW s \in Nat \ {0}, NEW x \in Int, NEW d \in 1 .. s - 1
  PROVE  x % s # (x + d) % s
<1> SUFFICES ASSUME x % s = (x + d) % s PROVE FALSE
  OBVIOUS
<1> DEFINE p == x \div s
           q == (x + d) \div s
           r == x % s
<1>1. p \in Int /\ x = s * p + r /\ r \in Int
  BY Division, ModRange
<1>2. q \in Int /\ x + d = s * q + r
  BY Division
<1> HIDE DEF p, q, r
<1>3. d = s * (q - p)
  BY <1>1, <1>2
<1>4. q - p <= 0 \/ q - p >= 1
  BY <1>1, <1>2
<1>5. CASE q - p >= 1
  <2>1. s * (q - p) >= s
    BY <1>1, <1>2, <1>5
  <2> QED BY <1>3, <2>1
<1>6. CASE q - p <= 0
  <2>1. s * (q - p) <= 0
    BY <1>1, <1>2, <1>6
  <2> QED BY <1>3, <2>1
<1> QED BY <1>4, <1>5, <1>6

-----------------------------------------------------------------------------
(* Least elements *)

\* A set of naturals that is not empty has a least element.
LEMMA LeastNatural ==
  ASSUME NEW S, S \subseteq Nat, S # {}
  PROVE  \E n \in S : \A m \in S : n <= m
<1>1. PICK n \in S : \A m \in S : ~(<<m, n>> \in OpToRel(<, Nat))
  BY WFMin, NatLessThanWellFounded
<1>2. \A m \in S : ~(m < n)
  BY <1>1 DEF OpToRel
<1> QED BY <1>2
=============================================================================
