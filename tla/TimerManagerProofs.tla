------------------------- MODULE TimerManagerProofs -------------------------
(* The timers for every beat, delay and movement of the clock: each has one   *)
(* trigger, is called on its beat and once in an Update, and its callback is  *)
(* given back once.                                                           *)
EXTENDS TimerManager, DataLemmas, FiniteSetTheorems

Triggers == Range(m_trig_map)

Sorted(s) == \A i, j \in DOMAIN s : i < j => s[i].cycle <= s[j].cycle
UniqueIds(s) == \A i, j \in DOMAIN s : s[i].id = s[j].id => i = j

\* An id that has not been given out yet is found nowhere.
Fresh ==
  /\ \A x \in Triggers : x.id < m_id_counter
  /\ firing < m_id_counter
  /\ \A id \in Ids : id >= m_id_counter => released[id] = 0

OneEach ==
  /\ UniqueIds(m_trig_map)
  /\ \A x \in Triggers : x.id # firing
  /\ \A id \in Alive \ {firing} : \E x \in Triggers : x.id = id

ClockOn == ~set_back => m_last_update <= now

\* Where a trigger is: around the tick asked for, and, once DoUpdate has passed
\* its timer, behind the beat that is being handled.
Placed(x) ==
  /\ BeatTick(x.cycle) > asked[x.id] - BEAT_TICK
  /\ ~set_back /\ x.id \in Alive => BeatTick(x.cycle) <= asked[x.id] + BEAT_TICK
  /\ ~set_back /\ (~updating \/ x.id \in fired) => x.cycle > m_cycle_count

GivenBack ==
  \A id \in Ids : released[id] <= 1 /\ (id \in Alive => released[id] = 0)

IInv ==
  /\ TypeOK
  /\ Fresh
  /\ OneEach
  /\ ClockOn
  /\ \A x \in Triggers : Placed(x)
  /\ GivenBack

-----------------------------------------------------------------------------
(* The list of triggers *)

LEMMA Elements ==
  ASSUME NEW s \in Seq(Trigger)
  PROVE  /\ DOMAIN s = 1 .. Len(s) /\ Len(s) \in Nat
         /\ \A i \in DOMAIN s : s[i] \in Trigger /\ s[i].cycle \in Int /\ s[i].id \in Ids
<1>1. \A i \in DOMAIN s : s[i] \in Trigger
  OBVIOUS
<1>2. \A x \in Trigger : x.cycle \in Int /\ x.id \in Ids
  BY DEF Trigger
<1> QED BY <1>1, <1>2

\* What multimap::insert goes past is the front of the list.
LEMMA FrontOf ==
  ASSUME NEW s \in Seq(Trigger), Sorted(s), NEW c \in Int
  PROVE  LET n == Cardinality({i \in DOMAIN s : s[i].cycle <= c})
         IN  n \in 0 .. Len(s) /\ {i \in DOMAIN s : s[i].cycle <= c} = 1 .. n
<1> DEFINE F == {i \in DOMAIN s : s[i].cycle <= c}
           n == Cardinality(F)
<1>1. DOMAIN s = 1 .. Len(s) /\ Len(s) \in Nat /\ \A i \in DOMAIN s : s[i].cycle \in Int
  BY Elements
<1>2. IsFiniteSet(1 .. Len(s)) /\ Cardinality(1 .. Len(s)) = Len(s)
  <2>1. 1 \in Int /\ Len(s) \in Int
    OBVIOUS
  <2>2. IsFiniteSet(1 .. Len(s))
        /\ Cardinality(1 .. Len(s)) = IF 1 > Len(s) THEN 0 ELSE Len(s) - 1 + 1
    BY <2>1, FS_Interval, Zenon
  <2> QED BY <1>1, <2>2
<1>3. F \in SUBSET (1 .. Len(s))
  BY <1>1
<1>4. \A i \in F : \A j \in 1 .. i : j \in F
  BY <1>1 DEF Sorted
<1> HIDE DEF F
<1>5. IsFiniteSet(F) /\ n \in Nat /\ n <= Len(s)
  BY <1>2, <1>3, FS_Subset, FS_CardinalityType
<1>6. \A j \in F : j <= n
  <2> SUFFICES ASSUME NEW j \in F PROVE j <= n
    OBVIOUS
  <2>1. 1 .. j \in SUBSET F /\ j \in 1 .. Len(s)
    BY <1>3, <1>4
  <2>2. Cardinality(1 .. j) = j
    BY <1>1, <2>1, FS_Interval
  <2>3. Cardinality(1 .. j) <= n
    BY <1>5, <2>1, FS_Subset
  <2> QED BY <2>2, <2>3
<1>7. F \in SUBSET (1 .. n)
  BY <1>3, <1>5, <1>6
<1>8. IsFiniteSet(1 .. n) /\ Cardinality(1 .. n) = n
  BY <1>5, FS_Interval
<1>9. F = 1 .. n
  BY <1>7, <1>8, FS_Subset
<1> HIDE DEF n
<1>10. n \in 0 .. Len(s)
  BY <1>1, <1>5
<1> QED BY <1>9, <1>10 DEF F, n

LEMMA Inserted ==
  ASSUME TypeOK, UniqueIds(m_trig_map), NEW x \in Trigger, \A y \in Triggers : y.id # x.id
  PROVE  LET r == InsertTrigger(x)
         IN  /\ r \in Seq(Trigger) /\ Sorted(r) /\ UniqueIds(r)
             /\ Range(r) = Triggers \cup {x}
<1> DEFINE s == m_trig_map
           n == Cardinality({i \in DOMAIN s : s[i].cycle <= x.cycle})
           r == SubSeq(s, 1, n) \o <<x>> \o SubSeq(s, n + 1, Len(s))
<1>1. s \in Seq(Trigger) /\ Sorted(s) /\ x.cycle \in Int
  BY DEF TypeOK, Sorted, Trigger
<1>2. n \in 0 .. Len(s) /\ {i \in DOMAIN s : s[i].cycle <= x.cycle} = 1 .. n
  BY <1>1, FrontOf
<1> HIDE DEF n
<1>3. InsertTrigger(x) = SubSeq(s, 1, (n + 1) - 1) \o <<x>> \o SubSeq(s, n + 1, Len(s))
  BY DEF InsertTrigger, InsertAt, n
<1>4. InsertTrigger(x) = r
  <2>1. (n + 1) - 1 = n
    BY <1>2
  <2> QED BY <1>3, <2>1
<1> HIDE DEF s
<1>5. /\ r \in Seq(Trigger) /\ Len(r) = Len(s) + 1 /\ r[n + 1] = x
      /\ \A i \in 1 .. n : r[i] = s[i]
      /\ \A i \in n + 2 .. Len(s) + 1 : r[i] = s[i - 1]
  <2>1. SubSeq(s, 1, n) \in Seq(Trigger) /\ Len(SubSeq(s, 1, n)) = n
        /\ \A i \in 1 .. n : SubSeq(s, 1, n)[i] = s[i]
    BY <1>1, <1>2
  <2>2. SubSeq(s, n + 1, Len(s)) \in Seq(Trigger) /\ Len(SubSeq(s, n + 1, Len(s))) = Len(s) - n
        /\ \A i \in 1 .. Len(s) - n : SubSeq(s, n + 1, Len(s))[i] = s[n + i]
    BY <1>1, <1>2
  <2> DEFINE a == SubSeq(s, 1, n)
             b == SubSeq(s, n + 1, Len(s))
  <2>3. r = a \o <<x>> \o b /\ n \in Nat /\ Len(s) \in Nat
    BY <1>1, <1>2
  <2> HIDE DEF a, b, r
  <2>4. a \o <<x>> \in Seq(Trigger) /\ Len(a \o <<x>>) = n + 1 /\ (a \o <<x>>)[n + 1] = x
        /\ \A i \in 1 .. n : (a \o <<x>>)[i] = a[i]
    BY <2>1, <2>3 DEF a
  <2> DEFINE c == a \o <<x>>
  <2> HIDE DEF c
  <2>5. /\ r \in Seq(Trigger) /\ Len(r) = Len(s) + 1
        /\ \A i \in 1 .. n + 1 : r[i] = c[i]
        /\ \A i \in n + 2 .. Len(s) + 1 : r[i] = b[i - (n + 1)]
    <3>1. c \in Seq(Trigger) /\ b \in Seq(Trigger) /\ r = c \o b
      BY <2>2, <2>3, <2>4 DEF b, c
    <3>2. Len(c) = n + 1 /\ Len(b) = Len(s) - n /\ Len(c) + Len(b) = Len(s) + 1
      <4>1. Len(c) = n + 1
        BY <2>4, Zenon DEF c
      <4>2. Len(b) = Len(s) - n
        BY <2>2 DEF b
      <4> QED BY <2>3, <4>1, <4>2
    <3>3. /\ r \in Seq(Trigger) /\ Len(r) = Len(c) + Len(b)
          /\ \A i \in 1 .. Len(c) : r[i] = c[i]
          /\ \A i \in Len(c) + 1 .. Len(c) + Len(b) : r[i] = b[i - Len(c)]
      BY <3>1
    <3>4. (n + 1) + 1 = n + 2
      BY <2>3
    <3> QED BY <3>2, <3>3, <3>4
  <2>6. ASSUME NEW i \in n + 2 .. Len(s) + 1 PROVE r[i] = s[i - 1]
    <3>1. i - (n + 1) \in 1 .. Len(s) - n /\ n + (i - (n + 1)) = i - 1
      BY <2>3
    <3> QED BY <2>2, <2>5, <3>1 DEF b
  <2> QED BY <2>1, <2>3, <2>4, <2>5, <2>6 DEF a, c
<1> HIDE DEF r
<1>6. DOMAIN s = 1 .. Len(s) /\ DOMAIN r = 1 .. Len(s) + 1 /\ Len(s) \in Nat
      /\ \A i \in DOMAIN s : s[i].cycle \in Int
  BY <1>1, <1>5, Elements
<1>7. /\ \A i \in 1 .. n : s[i].cycle <= x.cycle
      /\ \A i \in n + 1 .. Len(s) : s[i].cycle > x.cycle
  <2>1. \A i \in 1 .. n : s[i].cycle <= x.cycle
    BY <1>2
  <2>2. ASSUME NEW i \in n + 1 .. Len(s) PROVE s[i].cycle > x.cycle
    <3>1. i \in DOMAIN s /\ i \notin 1 .. n
      BY <1>2, <1>6
    <3>2. ~(s[i].cycle <= x.cycle)
      BY <1>2, <3>1
    <3>3. s[i].cycle \in Int /\ x.cycle \in Int
      BY <1>6, <3>1 DEF Trigger
    <3> QED BY <3>2, <3>3
  <2> QED BY <2>1, <2>2
<1>8. Sorted(r)
  <2> SUFFICES ASSUME NEW i \in DOMAIN r, NEW j \in DOMAIN r, i < j
               PROVE  r[i].cycle <= r[j].cycle
    BY DEF Sorted
  <2>1. CASE j <= n
    <3>1. i \in 1 .. n /\ j \in 1 .. n /\ i \in DOMAIN s /\ j \in DOMAIN s
      BY <1>2, <1>6, <2>1
    <3> QED BY <1>1, <1>5, <3>1 DEF Sorted
  <2>2. CASE j = n + 1
    BY <1>2, <1>5, <1>6, <1>7, <2>2
  <2>3. CASE j > n + 1 /\ i = n + 1
    <3>1. r[j] = s[j - 1] /\ j - 1 \in n + 1 .. Len(s)
      BY <1>2, <1>5, <1>6, <2>3
    <3> QED BY <1>1, <1>5, <1>6, <1>7, <2>3, <3>1
  <2>4. CASE j > n + 1 /\ i <= n
    <3>1. r[j] = s[j - 1] /\ r[i] = s[i] /\ j - 1 \in DOMAIN s /\ i \in DOMAIN s /\ i < j - 1
      BY <1>2, <1>5, <1>6, <2>4
    <3> QED BY <1>1, <3>1 DEF Sorted
  <2>5. CASE j > n + 1 /\ i > n + 1
    <3>1. r[j] = s[j - 1] /\ r[i] = s[i - 1] /\ j - 1 \in DOMAIN s /\ i - 1 \in DOMAIN s
          /\ i - 1 < j - 1
      BY <1>2, <1>5, <1>6, <2>5
    <3> QED BY <1>1, <3>1 DEF Sorted
  <2> QED BY <1>2, <1>6, <2>1, <2>2, <2>3, <2>4, <2>5
<1>9. \A i \in DOMAIN r : \/ i = n + 1
                          \/ i \in 1 .. n /\ r[i] = s[i] /\ i \in DOMAIN s
                          \/ i \in n + 2 .. Len(s) + 1 /\ r[i] = s[i - 1] /\ i - 1 \in DOMAIN s
  BY <1>2, <1>5, <1>6
<1>10. \A i \in DOMAIN s : s[i].id # x.id
  BY DEF s, Triggers, Range
<1>11. UniqueIds(r)
  <2> SUFFICES ASSUME NEW i \in DOMAIN r, NEW j \in DOMAIN r, r[i].id = r[j].id
               PROVE  i = j
    BY DEF UniqueIds
  <2>1. UniqueIds(s)
    BY DEF s
  <2>2. CASE i = n + 1 \/ j = n + 1
    BY <1>5, <1>9, <1>10, <2>2
  <2>3. ASSUME NEW k \in DOMAIN s, NEW m \in DOMAIN s, s[k].id = s[m].id PROVE k = m
    BY <2>1, <2>3 DEF UniqueIds
  <2>4. CASE i \in 1 .. n /\ j \in 1 .. n
    BY <1>2, <1>9, <2>3, <2>4
  <2>5. CASE i \in n + 2 .. Len(s) + 1 /\ j \in n + 2 .. Len(s) + 1
    BY <1>2, <1>6, <1>9, <2>3, <2>5
  <2>6. CASE i \in 1 .. n /\ j \in n + 2 .. Len(s) + 1
    <3>1. i = j - 1
      BY <1>2, <1>6, <1>9, <2>3, <2>6
    <3> QED BY <1>2, <1>6, <2>6, <3>1
  <2>7. CASE i \in n + 2 .. Len(s) + 1 /\ j \in 1 .. n
    <3>1. i - 1 = j
      BY <1>2, <1>6, <1>9, <2>3, <2>7
    <3> QED BY <1>2, <1>6, <2>7, <3>1
  <2> QED BY <1>9, <2>2, <2>4, <2>5, <2>6, <2>7
<1>12. Range(r) = Range(s) \cup {x}
  <2>1. Range(r) \subseteq Range(s) \cup {x}
    BY <1>5, <1>9 DEF Range
  <2>2. \A i \in DOMAIN s : s[i] \in Range(r)
    <3> SUFFICES ASSUME NEW i \in DOMAIN s PROVE s[i] \in Range(r)
      OBVIOUS
    <3>1. CASE i <= n
      BY <1>2, <1>5, <1>6, <3>1 DEF Range
    <3>2. CASE i > n
      <4>1. i + 1 \in DOMAIN r /\ r[i + 1] = s[i]
        BY <1>2, <1>5, <1>6, <3>2
      <4> QED BY <4>1 DEF Range
    <3> QED BY <1>2, <1>6, <3>1, <3>2
  <2>3. x \in Range(r)
    BY <1>2, <1>5, <1>6 DEF Range
  <2> QED BY <2>1, <2>2, <2>3 DEF Range
<1> QED BY <1>4, <1>5, <1>8, <1>11, <1>12 DEF s, Triggers

LEMMA Popped ==
  ASSUME TypeOK, UniqueIds(m_trig_map), m_trig_map # <<>>
  PROVE  LET r == Tail(m_trig_map)
             h == Head(m_trig_map)
         IN  /\ r \in Seq(Trigger) /\ Sorted(r) /\ UniqueIds(r)
             /\ Range(r) = Triggers \ {h} /\ h \in Triggers /\ h \in Trigger
             /\ \A x \in Triggers : h.cycle <= x.cycle
             /\ \A x \in Range(r) : x.id # h.id
<1> DEFINE s == m_trig_map
           r == Tail(s)
<1>1. s \in Seq(Trigger) /\ Sorted(s) /\ UniqueIds(s) /\ s # <<>>
  BY DEF TypeOK, Sorted
<1> HIDE DEF s
<1>2. IsInjective(s)
  BY <1>1 DEF UniqueIds, IsInjective
<1>3. r \in Seq(Trigger) /\ Range(r) = Range(s) \ {Head(s)} /\ Head(s) \in Range(s)
  BY <1>1, <1>2, PopList
<1>4. /\ Head(s) = s[1] /\ 1 \in DOMAIN s /\ DOMAIN s = 1 .. Len(s) /\ DOMAIN r = 1 .. Len(s) - 1
      /\ Len(s) \in Nat /\ \A i \in 1 .. Len(s) - 1 : r[i] = s[i + 1]
      /\ \A i \in DOMAIN s : s[i] \in Trigger /\ s[i].cycle \in Int
  <2>1. r = Tail(s) /\ r \in Seq(Trigger)
    BY <1>1
  <2>2. Len(s) \in Nat /\ Len(s) >= 1 /\ DOMAIN s = 1 .. Len(s) /\ Head(s) = s[1]
    BY <1>1
  <2>3. DOMAIN r = 1 .. Len(s) - 1 /\ \A i \in 1 .. Len(s) - 1 : r[i] = s[i + 1]
    BY <1>1, <2>2
  <2> QED BY <1>1, <2>2, <2>3, Elements
<1> HIDE DEF r
<1>5. \A i \in DOMAIN r : i + 1 \in DOMAIN s /\ r[i] = s[i + 1] /\ i \in Int
  BY <1>4
<1>6. Sorted(r) /\ UniqueIds(r)
  BY <1>1, <1>5 DEF Sorted, UniqueIds
<1>7. \A i \in DOMAIN s : s[1].cycle <= s[i].cycle
  BY <1>1, <1>4 DEF Sorted
<1>8. \A i \in DOMAIN r : r[i].id # s[1].id
  BY <1>1, <1>4, <1>5 DEF UniqueIds
<1> QED BY <1>3, <1>4, <1>6, <1>7, <1>8 DEF s, r, Triggers, Range

-----------------------------------------------------------------------------
(* Beats *)

\* The arithmetic of beats of b ms.
LEMMA Beats ==
  ASSUME NEW b \in Nat \ {0}, NEW x \in Int, NEW y \in Int
  PROVE  /\ x * b \in Int /\ (x + y) * b = x * b + y * b /\ (x - y) * b = x * b - y * b
         /\ b * x = x * b /\ 1 * b = b
         /\ x <= 0 => x * b <= 0
         /\ x >= 1 => x * b >= b
  OBVIOUS

\* A quotient, in beats.
LEMMA Quotients ==
  ASSUME NEW b \in Nat \ {0}, NEW x \in Int
  PROVE  /\ x \div b \in Int
         /\ (x \div b) * b <= x /\ (x \div b) * b > x - b
         /\ x >= 0 => x \div b >= 0
<1>1. x \div b \in Int /\ x = b * (x \div b) + (x % b) /\ x % b \in 0 .. b - 1
  BY Division, ModRange
<1> DEFINE q == x \div b
           r == x % b
<1>2. q \in Int /\ x = b * q + r /\ r \in 0 .. b - 1
  BY <1>1
<1> HIDE DEF q, r
<1>3. b * q = q * b /\ q * b \in Int
  BY <1>2
<1>4. q * b <= x /\ q * b > x - b
  BY <1>2, <1>3
<1>5. x >= 0 => q >= 0
  <2> SUFFICES ASSUME q < 0, x >= 0 PROVE FALSE
    BY <1>2
  <2>1. (q + 1) * b <= 0 /\ (q + 1) * b = q * b + b
    BY <1>2
  <2> QED BY <1>2, <1>4, <2>1
<1> QED BY <1>2, <1>4, <1>5 DEF q

\* C++ division errs towards zero.
LEMMA Truncated ==
  ASSUME NEW b \in Nat \ {0}, NEW x \in Int
  PROVE  /\ Quotient(x, b) \in Int /\ Quotient(x, b) * b > x - b
         /\ x >= 0 => Quotient(x, b) * b <= x /\ Quotient(x, b) >= 0
<1>1. CASE x >= 0
  BY <1>1, Quotients DEF Quotient
<1>2. CASE x < 0
  <2> DEFINE q == (-x) \div b
  <2>1. -x \in Int
    OBVIOUS
  <2>2. q \in Int /\ q * b <= -x
    BY <2>1, Quotients
  <2>3. Quotient(x, b) = -q
    BY <1>2 DEF Quotient
  <2> HIDE DEF q
  <2>4. (-q) * b = -(q * b) /\ q * b \in Int /\ -q \in Int
    BY <2>2
  <2> QED BY <1>2, <2>2, <2>3, <2>4
<1> QED BY <1>1, <1>2

\* A number of beats fits a time if and only if the whole beats in it do.
LEMMA BeatsFit ==
  ASSUME NEW b \in Nat \ {0}, NEW x \in Int, NEW k \in Int
  PROVE  k * b <= x <=> k <= x \div b
<1> DEFINE q == x \div b
<1>1. q \in Int /\ q * b <= x /\ q * b > x - b
  BY Quotients
<1> HIDE DEF q
<1>2. (q - k) * b = q * b - k * b /\ k * b \in Int /\ q * b \in Int /\ q - k \in Int
      /\ (q - k + 1) * b = (q - k) * b + b
  BY <1>1
<1>3. ASSUME k <= q PROVE k * b <= x
  <2>1. (k - q) * b <= 0 /\ (k - q) * b = k * b - q * b
    BY <1>1, <1>3, Beats
  <2> QED BY <1>1, <1>2, <2>1
<1>4. ASSUME ~(k <= q) PROVE ~(k * b <= x)
  <2>1. q - k + 1 \in Int /\ q - k + 1 <= 0
    BY <1>1, <1>4
  <2>2. (q - k + 1) * b <= 0
    BY <2>1, Beats
  <2> QED BY <1>1, <1>2, <2>2
<1> QED BY <1>3, <1>4 DEF q

LEMMA Numbers ==
  ASSUME TypeOK
  PROVE  /\ BEAT_TICK \in Nat \ {0} /\ now \in Int /\ m_last_update \in Int /\ m_cycle_count \in Int
         /\ now >= 0 /\ Delays \subseteq Nat /\ IntHalf \in Nat \ {0} /\ MaxTimers \in Nat
         /\ ClockSteps \subseteq Int /\ MaxTick \in Nat /\ NoTimer \notin Ids /\ Ids \subseteq Nat
         /\ \A x \in Triggers : x \in Trigger /\ x.id \in Ids /\ x.cycle \in Int
         /\ asked \in [Ids -> Nat]
         /\ \A c \in Int : BeatTick(c) \in Int
<1>1. \A x \in Triggers : x \in Trigger /\ x.id \in Ids /\ x.cycle \in Int
  BY Elements DEF TypeOK, Triggers, Range
<1>2. /\ BEAT_TICK \in Nat \ {0} /\ now \in Int /\ m_last_update \in Int /\ m_cycle_count \in Int
      /\ now >= 0 /\ Delays \subseteq Nat /\ IntHalf \in Nat \ {0} /\ MaxTimers \in Nat
      /\ ClockSteps \subseteq Int /\ MaxTick \in Nat /\ NoTimer \notin Ids /\ Ids \subseteq Nat
  BY TimerAssumption DEF TimerAssumption, TypeOK, NoTimer, Ids
<1>3. \A c \in Int : BeatTick(c) \in Int
  <2> SUFFICES ASSUME NEW c \in Int PROVE BeatTick(c) \in Int
    OBVIOUS
  <2>1. c - m_cycle_count \in Int
    BY <1>2
  <2>2. (c - m_cycle_count) * BEAT_TICK \in Int
    BY <1>2, <2>1, Beats
  <2> QED BY <1>2, <2>2 DEF BeatTick
<1> QED BY <1>1, <1>2, <1>3 DEF TypeOK

\* The beat that ActivateTimer finds.
LEMMA Activated ==
  ASSUME TypeOK, ClockOn, NEW after_ms \in Nat, NEW id \in Ids, ActivateTimer(after_ms, id)
  PROVE  \E c \in Int :
           /\ m_trig_map' = InsertTrigger([cycle |-> c, id |-> id])
           /\ asked' = [asked EXCEPT ![id] = now + after_ms]
           /\ BeatTick(c) > now + after_ms - BEAT_TICK
           /\ ~set_back => BeatTick(c) <= now + after_ms + BEAT_TICK /\ c > m_cycle_count
<1> DEFINE b == BEAT_TICK
           q == Quotient(now - m_last_update, b)
           a == after_ms \div b
           c == m_cycle_count + q + a + 1
<1>1. b \in Nat \ {0} /\ now - m_last_update \in Int /\ after_ms \in Int
      /\ m_cycle_count \in Int /\ now \in Int /\ m_last_update \in Int
  BY Numbers
<1>2. /\ q \in Int /\ q * b > now - m_last_update - b
      /\ ~set_back => q * b <= now - m_last_update /\ q >= 0
  <2>1. ~set_back => now - m_last_update >= 0
    BY <1>1 DEF ClockOn
  <2> HIDE DEF b
  <2> QED BY <1>1, <2>1, Truncated
<1>3. a \in Int /\ a >= 0 /\ a * b <= after_ms /\ a * b > after_ms - b
  <2>1. after_ms >= 0
    OBVIOUS
  <2> HIDE DEF b
  <2>2. after_ms \div b \in Int /\ (after_ms \div b) * b <= after_ms
        /\ (after_ms \div b) * b > after_ms - b /\ after_ms \div b >= 0
    BY <1>1, <2>1, Quotients
  <2> QED BY <2>2
<1>4. m_trig_map' = InsertTrigger([cycle |-> c, id |-> id])
      /\ asked' = [asked EXCEPT ![id] = now + after_ms]
  BY DEF ActivateTimer
<1>5. BeatTick(c) = m_last_update + (c - m_cycle_count) * b
  BY DEF BeatTick
<1> HIDE DEF b, q, a
<1>6. c \in Int /\ c - m_cycle_count = (q + a) + 1 /\ q + a \in Int
  BY <1>1, <1>2, <1>3
<1>7. ((q + a) + 1) * b = q * b + a * b + b
  BY <1>1, <1>2, <1>3
<1>8. q * b \in Int /\ a * b \in Int
  BY <1>1, <1>2, <1>3
<1>9. BeatTick(c) = m_last_update + q * b + a * b + b
  BY <1>1, <1>5, <1>6, <1>7, <1>8
<1>10. BeatTick(c) > now + after_ms - b
  BY <1>1, <1>2, <1>3, <1>8, <1>9
<1>11. ~set_back => BeatTick(c) <= now + after_ms + b /\ c > m_cycle_count
  BY <1>1, <1>2, <1>3, <1>6, <1>8, <1>9
<1> QED BY <1>4, <1>6, <1>10, <1>11 DEF b

\* Activating a timer that has no trigger puts one in its place.
LEMMA Activates ==
  ASSUME IInv, UNCHANGED <<clockVars, beatVars>>, NEW after_ms \in Nat, NEW id \in Ids,
         ActivateTimer(after_ms, id), \A y \in Triggers : y.id # id
  PROVE  \E x \in Trigger :
           /\ x.id = id /\ Placed(x)'
           /\ m_trig_map' \in Seq(Trigger) /\ Sorted(m_trig_map') /\ UniqueIds(m_trig_map')
           /\ Triggers' = Triggers \cup {x}
           /\ asked' \in [Ids -> Nat]
           /\ \A y \in Triggers : asked'[y.id] = asked[y.id]
<1>1. PICK c \in Int :
        /\ m_trig_map' = InsertTrigger([cycle |-> c, id |-> id])
        /\ asked' = [asked EXCEPT ![id] = now + after_ms]
        /\ BeatTick(c) > now + after_ms - BEAT_TICK
        /\ ~set_back => BeatTick(c) <= now + after_ms + BEAT_TICK /\ c > m_cycle_count
  BY Activated DEF IInv
<1>2. PICK x \in Trigger : x = [cycle |-> c, id |-> id] /\ x.id = id /\ x.cycle = c
  <2> DEFINE y == [cycle |-> c, id |-> id]
  <2>1. y \in Trigger /\ y.id = id /\ y.cycle = c
    BY DEF Trigger
  <2> HIDE DEF y
  <2>2. y = [cycle |-> c, id |-> id]
    BY DEF y
  <2> QED BY <2>1, <2>2
<1>3. /\ m_trig_map' \in Seq(Trigger) /\ Sorted(m_trig_map') /\ UniqueIds(m_trig_map')
      /\ Range(m_trig_map') = Triggers \cup {x}
  BY <1>1, <1>2, Inserted DEF IInv, OneEach
<1>4. now + after_ms \in Nat /\ asked \in [Ids -> Nat] /\ \A y \in Triggers : y.id \in Ids
  <2>1. TypeOK /\ now \in Int /\ now >= 0
    BY Numbers DEF IInv
  <2>2. now + after_ms \in Nat
    BY <2>1
  <2> QED BY <2>1, <2>2, Numbers
<1>5. asked' \in [Ids -> Nat] /\ asked'[id] = now + after_ms
      /\ \A y \in Triggers : asked'[y.id] = asked[y.id]
  BY <1>1, <1>4
<1>6. /\ BeatTick(c)' = BeatTick(c) /\ set_back' = set_back
      /\ m_cycle_count' = m_cycle_count
  BY DEF BeatTick, clockVars, beatVars
<1>7. Placed(x)'
  <2>1. BeatTick(x.cycle)' = BeatTick(c) /\ asked'[x.id] = now + after_ms
    BY <1>2, <1>5, <1>6
  <2>2. BeatTick(x.cycle)' > asked'[x.id] - BEAT_TICK
    <3>1. BeatTick(c) > now + after_ms - BEAT_TICK
      BY <1>1, Zenon
    <3>2. now + after_ms - BEAT_TICK = (now + after_ms) - BEAT_TICK
      BY <1>4, Numbers DEF IInv
    <3> QED BY <2>1, <3>1, <3>2, Zenon
  <2>3. ~set_back' => BeatTick(x.cycle)' <= asked'[x.id] + BEAT_TICK
    BY <1>1, <1>6, <2>1
  <2>4. ~set_back' => x.cycle > m_cycle_count'
    BY <1>1, <1>2, <1>6
  <2> QED BY <2>2, <2>3, <2>4 DEF Placed
<1> QED BY <1>2, <1>3, <1>5, <1>7 DEF Triggers

\* What keeps a trigger in its place.
LEMMA PlacedKept ==
  ASSUME NEW x, Placed(x), UNCHANGED beatVars, asked'[x.id] = asked[x.id],
         set_back => set_back', x.id \in Alive' => x.id \in Alive,
         ~updating' \/ x.id \in fired' => ~updating \/ x.id \in fired
  PROVE  Placed(x)'
<1>1. BeatTick(x.cycle)' = BeatTick(x.cycle) /\ m_cycle_count' = m_cycle_count
  BY DEF BeatTick, beatVars
<1> QED BY <1>1 DEF Placed

-----------------------------------------------------------------------------
(* The actions, one by one *)

LEMMA RestIInv == IInv /\ UNCHANGED vars => IInv'
<1> SUFFICES ASSUME IInv, UNCHANGED vars PROVE IInv'
  OBVIOUS
<1>1. UNCHANGED <<now, m_cycle_count, m_last_update, m_entry_map, m_trig_map, m_id_counter,
                  updating, firing, set_back, asked, released, fired, beatVars>>
  BY DEF vars, clockVars, beatVars, tableVars
<1>2. \A x \in Triggers : Placed(x)'
  BY <1>1, PlacedKept DEF IInv, Alive
<1> QED BY <1>1, <1>2
        DEF IInv, TypeOK, Fresh, OneEach, ClockOn, GivenBack, Triggers, Alive

LEMMA ClockMovesIInv == ASSUME IInv, NEW d \in ClockSteps, ClockMoves(d) PROVE IInv'
<1>1. /\ now + d \in 0 .. MaxTick /\ now' = now + d /\ set_back' = (set_back \/ d < 0)
      /\ UNCHANGED <<m_cycle_count, m_last_update, beatVars, m_entry_map, m_trig_map, m_id_counter,
                     asked, released, updating, firing, fired>>
  BY DEF ClockMoves, beatVars, tableVars
<1>2. \A x \in Triggers : Placed(x)'
  BY <1>1, PlacedKept DEF IInv, Alive
<1>3. ClockOn'
  <2>1. d \in Int /\ now \in Int /\ m_last_update \in Int
    BY Numbers DEF IInv
  <2>2. ~set_back' => ~set_back /\ ~(d < 0)
    BY <1>1, Zenon
  <2>3. ~(d < 0) => now <= now + d
    BY <2>1
  <2>4. ~set_back => m_last_update <= now
    BY DEF IInv, ClockOn
  <2>5. m_last_update <= now /\ now <= now + d => m_last_update <= now + d
    BY <2>1
  <2>6. m_last_update' = m_last_update /\ now' = now + d
    BY <1>1
  <2>7. ~set_back' => m_last_update <= now + d
    BY <2>2, <2>3, <2>4, <2>5, Zenon
  <2> QED BY <2>6, <2>7 DEF ClockOn
<1>4. TypeOK'
  BY <1>1 DEF IInv, TypeOK, Alive
<1> QED BY <1>1, <1>2, <1>3, <1>4 DEF IInv, Fresh, OneEach, GivenBack, Triggers, Alive

LEMMA AddTimerIInv ==
  ASSUME IInv, NEW after_ms \in Delays, NEW cyclic \in BOOLEAN, NEW wait \in BOOLEAN,
         AddTimer(after_ms, cyclic, wait)
  PROVE  IInv'
<1> DEFINE id == m_id_counter
           first == IF cyclic /\ ~wait THEN 0 ELSE after_ms
           entry == [cyclic |-> cyclic, after_ms |-> after_ms]
<1>1. /\ id <= MaxTimers /\ m_id_counter' = id + 1
      /\ m_entry_map' = [i \in Alive \cup {id} |-> IF i = id THEN entry ELSE m_entry_map[i]]
      /\ ActivateTimer(first, id)
      /\ UNCHANGED <<clockVars, beatVars, now, set_back, m_cycle_count, m_last_update, released,
                     updating, firing, fired>>
  BY DEF AddTimer, clockVars, beatVars
<1>2. id \in Ids /\ first \in Nat /\ id \in Nat /\ MaxTimers \in Nat /\ NoTimer \notin Ids
  BY <1>1, Numbers DEF IInv, TypeOK, Ids
<1>3. entry \in [cyclic : BOOLEAN, after_ms : Delays]
  OBVIOUS
<1> HIDE DEF first, entry
<1>4. (\A y \in Triggers : y.id # id) /\ firing # id /\ released[id] = 0
  BY <1>2, Numbers DEF IInv, Fresh, TypeOK
<1>5. PICK x \in Trigger :
        /\ x.id = id /\ Placed(x)'
        /\ m_trig_map' \in Seq(Trigger) /\ Sorted(m_trig_map') /\ UniqueIds(m_trig_map')
        /\ Triggers' = Triggers \cup {x}
        /\ asked' \in [Ids -> Nat]
        /\ \A y \in Triggers : asked'[y.id] = asked[y.id]
  BY <1>1, <1>2, <1>4, Activates
<1>6. Alive' = Alive \cup {id}
      /\ \A i \in Alive' : m_entry_map'[i] = IF i = id THEN entry ELSE m_entry_map[i]
  BY <1>1 DEF Alive
<1>7. TypeOK'
  <2>1. Alive' \subseteq 1 .. m_id_counter' - 1 /\ m_id_counter' \in 1 .. MaxTimers + 1
    <3>1. Alive \subseteq 1 .. id - 1
      BY DEF IInv, TypeOK
    <3>2. id <= MaxTimers /\ id >= 1 /\ m_id_counter' = id + 1
      BY <1>1 DEF IInv, TypeOK
    <3> HIDE DEF id
    <3>3. id + 1 \in 1 .. MaxTimers + 1 /\ \A i : i \in 1 .. id - 1 \/ i = id => i \in 1 .. (id + 1) - 1
      BY <1>2, <3>2
    <3> QED BY <1>6, <3>1, <3>2, <3>3
  <2>2. \A i \in Alive' : m_entry_map'[i] \in [cyclic : BOOLEAN, after_ms : Delays]
    BY <1>3, <1>6 DEF IInv, TypeOK
  <2> QED BY <1>1, <1>5, <2>1, <2>2 DEF IInv, TypeOK, Sorted
<1>8. Fresh'
  <2>1. \A y \in Triggers' : y.id < id + 1
    <3>1. ASSUME NEW y \in Triggers PROVE y.id < id + 1
      <4>1. y.id \in Nat /\ y.id < id
        BY Numbers DEF IInv, Fresh
      <4> HIDE DEF id
      <4> QED BY <1>2, <4>1
    <3>2. x.id < id + 1
      BY <1>2, <1>5
    <3> QED BY <1>5, <3>1, <3>2
  <2>2. firing < id + 1 /\ \A i \in Ids : i >= id + 1 => i >= id
    BY <1>2 DEF IInv, Fresh, TypeOK, Ids, NoTimer
  <2> QED BY <1>1, <2>1, <2>2 DEF IInv, Fresh
<1>9. OneEach'
  BY <1>1, <1>4, <1>5, <1>6 DEF IInv, OneEach
<1>10. \A y \in Triggers' : Placed(y)'
  <2>1. \A y \in Triggers : y.id \in Alive' => y.id \in Alive
    BY <1>4, <1>6
  <2> QED BY <1>1, <1>5, <2>1, PlacedKept DEF IInv
<1>11. GivenBack' /\ ClockOn'
  BY <1>1, <1>4, <1>6 DEF IInv, GivenBack, ClockOn
<1> QED BY <1>7, <1>8, <1>9, <1>10, <1>11 DEF IInv

\* What giving a callback back does, which is nothing where it was done before.
LEMMA CancelledKeeps ==
  ASSUME IInv, NEW id \in Ids, Cancelled(id)
  PROVE  /\ Alive' = Alive \ {id}
         /\ \A i \in Alive' : m_entry_map'[i] = m_entry_map[i]
         /\ released' \in [Ids -> Nat] /\ GivenBack'
         /\ \A i \in Ids : i >= m_id_counter => released'[i] = 0
<1>1. /\ released' = [released EXCEPT ![id] = IF id \in Alive THEN @ + 1 ELSE @]
      /\ m_entry_map' = [i \in Alive \ {id} |-> m_entry_map[i]]
  BY DEF Cancelled
<1>2. released \in [Ids -> Nat] /\ Alive \subseteq 1 .. m_id_counter - 1
      /\ m_id_counter \in Int
  BY DEF IInv, TypeOK
<1>3. Alive' = Alive \ {id} /\ \A i \in Alive' : m_entry_map'[i] = m_entry_map[i]
  BY <1>1 DEF Alive
<1>4. \A i \in Ids : released'[i] = IF i = id /\ id \in Alive THEN 1 ELSE released[i]
  BY <1>1, <1>2 DEF IInv, GivenBack
<1>5. released' \in [Ids -> Nat]
  BY <1>1, <1>2
<1>6. GivenBack'
  BY <1>3, <1>4 DEF IInv, GivenBack
<1>7. id \in Alive => ~(id >= m_id_counter)
  BY <1>2
<1> QED BY <1>3, <1>4, <1>5, <1>6, <1>7 DEF IInv, Fresh

LEMMA CancelTimerIInv == ASSUME IInv, NEW id \in Ids, CancelTimer(id) PROVE IInv'
<1>1. /\ Cancelled(id)
      /\ UNCHANGED <<beatVars, now, set_back, m_cycle_count, m_last_update, m_trig_map,
                     m_id_counter, asked, updating, firing, fired>>
  BY DEF CancelTimer, clockVars, beatVars
<1>2. /\ Alive' = Alive \ {id}
      /\ \A i \in Alive' : m_entry_map'[i] = m_entry_map[i]
      /\ released' \in [Ids -> Nat] /\ GivenBack'
      /\ \A i \in Ids : i >= m_id_counter => released'[i] = 0
  BY <1>1, CancelledKeeps
<1>3. Triggers' = Triggers
  BY <1>1 DEF Triggers
<1>4. TypeOK'
  BY <1>1, <1>2 DEF IInv, TypeOK
<1>5. Fresh' /\ OneEach' /\ ClockOn'
  BY <1>1, <1>2, <1>3 DEF IInv, Fresh, OneEach, ClockOn
<1>6. \A x \in Triggers : Placed(x)'
  BY <1>1, <1>2, PlacedKept DEF IInv
<1> QED BY <1>2, <1>3, <1>4, <1>5, <1>6 DEF IInv

\* Update moves the beats and what they begin at together.
LEMMA UpdateIInv == ASSUME IInv, Update PROVE IInv'
<1> DEFINE beats == (now - m_last_update) \div BEAT_TICK
<1>1. /\ ~updating /\ beats > 0 /\ m_cycle_count' = m_cycle_count + beats
      /\ m_last_update' = m_last_update + beats * BEAT_TICK
      /\ updating' = TRUE /\ fired' = {}
      /\ UNCHANGED <<now, set_back, m_entry_map, m_trig_map, m_id_counter, asked, released, firing>>
  BY DEF Update, clockVars, tableVars
<1>2. /\ BEAT_TICK \in Nat \ {0} /\ now - m_last_update \in Int /\ m_cycle_count \in Int
      /\ now \in Int /\ m_last_update \in Int
  BY Numbers DEF IInv
<1>3. beats \in Int /\ beats * BEAT_TICK <= now - m_last_update
  BY <1>2, Quotients
<1> HIDE DEF beats
<1>4. beats * BEAT_TICK \in Int /\ beats * BEAT_TICK >= BEAT_TICK
  BY <1>1, <1>2, <1>3, Beats
<1>5. m_last_update' \in 0 .. MaxTick /\ m_last_update' <= now /\ m_cycle_count' \in Nat
  <2>1. now \in 0 .. MaxTick /\ m_last_update >= 0 /\ m_cycle_count >= 0 /\ MaxTick \in Nat
    BY Numbers DEF IInv, TypeOK
  <2> DEFINE k == beats * BEAT_TICK
  <2>2. k \in Int /\ k >= BEAT_TICK /\ k <= now - m_last_update /\ m_last_update' = m_last_update + k
    BY <1>1, <1>3, <1>4
  <2> HIDE DEF k
  <2>3. m_last_update' \in 0 .. MaxTick /\ m_last_update' <= now
    BY <1>2, <2>1, <2>2
  <2> QED BY <1>1, <1>2, <1>3, <2>1, <2>3
<1>6. TypeOK'
  BY <1>1, <1>5 DEF IInv, TypeOK, Alive
<1>7. ASSUME NEW x \in Triggers PROVE Placed(x)'
  <2> DEFINE k == x.cycle - m_cycle_count
  <2>1. x.cycle \in Int /\ k \in Int
    BY <1>2, Numbers DEF IInv
  <2>2. x.cycle - m_cycle_count' = k - beats
    BY <1>1, <1>2, <1>3, <2>1
  <2> HIDE DEF k
  <2>3. (k - beats) * BEAT_TICK = k * BEAT_TICK - beats * BEAT_TICK /\ k * BEAT_TICK \in Int
    BY <1>2, <1>3, <2>1, Beats
  <2>4. BeatTick(x.cycle)' = m_last_update' + (k - beats) * BEAT_TICK
    BY <2>2 DEF BeatTick
  <2>5. BeatTick(x.cycle) = m_last_update + k * BEAT_TICK
    BY DEF BeatTick, k
  <2>6. BeatTick(x.cycle)' = BeatTick(x.cycle)
    BY <1>1, <1>2, <1>4, <2>3, <2>4, <2>5
  <2> QED BY <1>1, <2>6 DEF IInv, Placed, Alive
<1>8. Fresh' /\ OneEach' /\ GivenBack'
  BY <1>1 DEF IInv, Fresh, OneEach, GivenBack, Triggers, Alive
<1> QED BY <1>1, <1>5, <1>6, <1>7, <1>8 DEF IInv, ClockOn, Triggers

\* DoUpdate takes the first trigger, which no other trigger shares its timer with.
LEMMA TakesIInv == ASSUME IInv, DoUpdate_fire \/ DoUpdate_skip PROVE IInv'
<1> DEFINE h == Head(m_trig_map)
<1>1. /\ updating /\ firing = NoTimer /\ m_trig_map # <<>> /\ m_trig_map' = Tail(m_trig_map)
      /\ UNCHANGED <<beatVars, now, set_back, m_cycle_count, m_last_update, m_entry_map,
                     m_id_counter, asked, released, updating>>
      /\ \/ h.id \in Alive /\ firing' = h.id /\ fired' = fired \cup {h.id}
         \/ h.id \notin Alive /\ UNCHANGED <<firing, fired>>
  BY DEF DoUpdate_fire, DoUpdate_skip, InLoop, Due, clockVars, beatVars
<1>2. /\ m_trig_map' \in Seq(Trigger) /\ Sorted(m_trig_map') /\ UniqueIds(m_trig_map')
      /\ Triggers' = Triggers \ {h} /\ h \in Triggers /\ h.id \in Ids
      /\ \A x \in Triggers' : x.id # h.id
  BY <1>1, Popped, Numbers DEF IInv, OneEach, Triggers
<1> HIDE DEF h
<1>3. h.id # NoTimer
  BY <1>2, Numbers DEF IInv
<1>4. TypeOK'
  BY <1>1, <1>2 DEF IInv, TypeOK, Sorted, Alive
<1>5. Fresh'
  BY <1>1, <1>2 DEF IInv, Fresh
<1>6. OneEach'
  <2>1. \A id \in Alive' \ {firing'} : id # h.id /\ id \in Alive \ {firing}
    <3>1. Alive \subseteq Ids /\ NoTimer \notin Ids
      <4>1. Alive \subseteq 1 .. m_id_counter - 1 /\ m_id_counter \in 1 .. MaxTimers + 1
        BY DEF IInv, TypeOK
      <4>2. MaxTimers \in Nat /\ NoTimer \notin Ids
        BY Numbers DEF IInv
      <4> QED BY <4>1, <4>2 DEF Ids
    <3>2. Alive' = Alive
      BY <1>1 DEF Alive
    <3>3. CASE h.id \in Alive /\ firing' = h.id
      BY <1>1, <3>1, <3>2, <3>3
    <3>4. CASE h.id \notin Alive /\ firing' = firing
      BY <1>1, <3>1, <3>2, <3>4
    <3> QED BY <1>1, <3>3, <3>4
  <2>2. \A x \in Triggers' : x.id # firing'
    BY <1>1, <1>2 DEF IInv, OneEach
  <2> QED BY <1>2, <2>1, <2>2 DEF IInv, OneEach
<1>7. \A x \in Triggers' : Placed(x)'
  BY <1>1, <1>2, PlacedKept DEF IInv, Alive
<1> QED BY <1>1, <1>4, <1>5, <1>6, <1>7 DEF IInv, ClockOn, GivenBack, Alive

LEMMA FiredIInv == ASSUME IInv, DoUpdate_fired PROVE IInv'
<1>1. /\ firing # NoTimer /\ firing' = NoTimer
      /\ UNCHANGED <<clockVars, beatVars, now, set_back, m_cycle_count, m_last_update, m_id_counter,
                     updating, fired>>
  BY DEF DoUpdate_fired, clockVars, beatVars
<1>2. firing \in Ids /\ \A y \in Triggers : y.id # firing
  BY <1>1 DEF IInv, TypeOK, OneEach
<1>3. \/ \E after_ms \in Nat : ActivateTimer(after_ms, firing) /\ UNCHANGED <<m_entry_map, released>>
      \/ Cancelled(firing) /\ UNCHANGED <<m_trig_map, asked>>
  <2>1. PICK timer \in TimerRead :
          \/ ActivateTimer(timer.after_ms, firing) /\ UNCHANGED <<m_entry_map, released>>
          \/ Cancelled(firing) /\ UNCHANGED <<m_trig_map, asked>>
    BY DEF DoUpdate_fired
  <2>2. timer \in [cyclic : BOOLEAN, after_ms : Delays]
    BY <2>1 DEF TimerRead, IInv, TypeOK
  <2>3. timer.after_ms \in Nat
    BY <2>2, Numbers DEF IInv
  <2> QED BY <2>1, <2>3
<1>4. \A id \in Ids : id # NoTimer
  BY Numbers DEF IInv
<1>5. NoTimer < m_id_counter
  BY DEF IInv, TypeOK, NoTimer
<1>6. CASE \E after_ms \in Nat : ActivateTimer(after_ms, firing) /\ UNCHANGED <<m_entry_map, released>>
  <2>1. PICK x \in Trigger :
          /\ x.id = firing /\ Placed(x)'
          /\ m_trig_map' \in Seq(Trigger) /\ Sorted(m_trig_map') /\ UniqueIds(m_trig_map')
          /\ Triggers' = Triggers \cup {x}
          /\ asked' \in [Ids -> Nat]
          /\ \A y \in Triggers : asked'[y.id] = asked[y.id]
    BY <1>1, <1>2, <1>6, Activates
  <2>2. UNCHANGED <<m_entry_map, released>> /\ Alive' = Alive
    BY <1>6 DEF Alive
  <2>3. TypeOK'
    BY <1>1, <2>1, <2>2 DEF IInv, TypeOK, Sorted
  <2>4. Fresh'
    BY <1>1, <1>5, <2>1, <2>2 DEF IInv, Fresh
  <2>5. OneEach'
    <3>1. \A y \in Triggers' : y.id # firing'
      BY <1>1, <1>2, <1>4, <2>1, Numbers DEF IInv
    <3>2. \A id \in Alive' : \E y \in Triggers' : y.id = id
      BY <2>1, <2>2 DEF IInv, OneEach
    <3> QED BY <2>1, <3>1, <3>2 DEF OneEach
  <2>6. \A y \in Triggers' : Placed(y)'
    BY <1>1, <2>1, <2>2, PlacedKept DEF IInv
  <2> QED BY <1>1, <2>2, <2>3, <2>4, <2>5, <2>6 DEF IInv, ClockOn, GivenBack
<1>7. CASE Cancelled(firing) /\ UNCHANGED <<m_trig_map, asked>>
  <2>1. /\ Alive' = Alive \ {firing}
        /\ \A i \in Alive' : m_entry_map'[i] = m_entry_map[i]
        /\ released' \in [Ids -> Nat] /\ GivenBack'
        /\ \A i \in Ids : i >= m_id_counter => released'[i] = 0
    BY <1>2, <1>7, CancelledKeeps
  <2>2. Triggers' = Triggers
    BY <1>7 DEF Triggers
  <2>3. TypeOK'
    BY <1>1, <1>7, <2>1 DEF IInv, TypeOK
  <2>4. Fresh'
    BY <1>1, <1>5, <2>1, <2>2 DEF IInv, Fresh
  <2>5. OneEach'
    <3>1. \A y \in Triggers : y.id # firing'
      BY <1>1, <1>4, Numbers DEF IInv
    <3> QED BY <1>7, <2>1, <2>2, <3>1 DEF IInv, OneEach
  <2>6. \A y \in Triggers : Placed(y)'
    BY <1>1, <1>7, <2>1, PlacedKept DEF IInv
  <2> QED BY <1>1, <2>1, <2>2, <2>3, <2>4, <2>5, <2>6 DEF IInv, ClockOn
<1> QED BY <1>3, <1>6, <1>7

LEMMA ReturnIInv == ASSUME IInv, DoUpdate_return PROVE IInv'
<1>1. /\ ~Due /\ updating' = FALSE /\ firing = NoTimer
      /\ UNCHANGED <<beatVars, now, set_back, m_cycle_count, m_last_update, m_entry_map, m_trig_map,
                     m_id_counter, asked, released, firing, fired>>
  BY DEF DoUpdate_return, InLoop, clockVars, beatVars, tableVars
<1>2. ASSUME NEW x \in Triggers PROVE x.cycle > m_cycle_count
  <2>1. m_trig_map # <<>>
    BY DEF Triggers, Range
  <2>2. Head(m_trig_map).cycle <= x.cycle /\ Head(m_trig_map) \in Trigger
    BY <2>1, Popped DEF IInv, OneEach
  <2>3. Head(m_trig_map).cycle \in Int /\ x.cycle \in Int /\ m_cycle_count \in Int
    BY <2>2, Numbers DEF IInv, Trigger
  <2>4. ~(Head(m_trig_map).cycle <= m_cycle_count)
    BY <1>1, <2>1 DEF Due
  <2> QED BY <2>2, <2>3, <2>4
<1>3. \A x \in Triggers : Placed(x)'
  BY <1>1, <1>2 DEF IInv, Placed, Alive, BeatTick
<1>4. TypeOK'
  BY <1>1 DEF IInv, TypeOK, Alive, NoTimer
<1> QED BY <1>1, <1>3, <1>4 DEF IInv, Fresh, OneEach, ClockOn, GivenBack, Triggers, Alive

LEMMA InitIInv == Init => IInv
<1> SUFFICES ASSUME Init PROVE IInv
  OBVIOUS
<1>1. m_trig_map = <<>> /\ m_entry_map = <<>> /\ Triggers = {} /\ Alive = {}
  BY DEF Init, Triggers, Range, Alive
<1>2. TypeOK
  <2>1. /\ now = 0 /\ m_last_update = 0 /\ m_cycle_count = 0 /\ m_id_counter = 1
        /\ set_back = FALSE /\ updating = FALSE /\ firing = NoTimer /\ fired = {}
        /\ asked \in [Ids -> Nat] /\ released \in [Ids -> Nat]
    BY DEF Init
  <2>2. MaxTick \in Nat /\ MaxTimers \in Nat
    BY TimerAssumption DEF TimerAssumption
  <2>3. 0 \in 0 .. MaxTick /\ 0 \in Nat /\ 1 \in 1 .. MaxTimers + 1
    BY <2>2
  <2>4. m_trig_map \in Seq(Trigger) /\ DOMAIN m_trig_map = {}
    BY <1>1
  <2> QED BY <1>1, <2>1, <2>3, <2>4 DEF TypeOK
<1>3. OneEach
  BY <1>1 DEF OneEach, UniqueIds
<1> QED BY <1>1, <1>2, <1>3, TimerAssumption
        DEF Init, IInv, Fresh, ClockOn, GivenBack, NoTimer, Ids, TimerAssumption

LEMMA StepIInv == IInv /\ [Next]_vars => IInv'
  BY RestIInv, ClockMovesIInv, AddTimerIInv, CancelTimerIInv, UpdateIInv, TakesIInv, FiredIInv,
     ReturnIInv DEF Next, DoUpdate

-----------------------------------------------------------------------------
(* What the invariant says *)

LEMMA OneTriggerEachHolds == IInv => OneTriggerEach
<1> SUFFICES ASSUME IInv, NEW id \in Ids
             PROVE  /\ Cardinality(TriggersOf(id)) <= (IF id = firing THEN 0 ELSE 1)
                    /\ id \in Alive \ {firing} => TriggersOf(id) # {}
  BY DEF OneTriggerEach
<1>1. \A i \in TriggersOf(id) : \A j \in TriggersOf(id) : i = j
  BY DEF IInv, OneEach, UniqueIds, TriggersOf
<1>2. id = firing => TriggersOf(id) = {}
  BY DEF IInv, OneEach, TriggersOf, Triggers, Range
<1>3. id \in Alive \ {firing} => TriggersOf(id) # {}
  BY DEF IInv, OneEach, TriggersOf, Triggers, Range
<1>4. CASE TriggersOf(id) = {}
  <2>1. Cardinality(TriggersOf(id)) = 0
    BY <1>4, FS_EmptySet
  <2> QED BY <1>3, <2>1
<1>5. CASE TriggersOf(id) # {}
  <2>1. PICK i : TriggersOf(id) = {i}
    BY <1>1, <1>5
  <2>2. Cardinality(TriggersOf(id)) = 1
    BY <2>1, FS_Singleton
  <2> QED BY <1>2, <1>3, <1>5, <2>2
<1> QED BY <1>4, <1>5

LEMMA NotLateHolds == IInv => NotLate
<1> SUFFICES ASSUME IInv, ~set_back, NEW i \in DOMAIN m_trig_map, m_trig_map[i].id \in Alive
             PROVE  BeatTick(m_trig_map[i].cycle) <= asked[m_trig_map[i].id] + BEAT_TICK
  BY DEF NotLate
<1>1. Placed(m_trig_map[i])
  BY DEF IInv, Triggers, Range
<1> QED BY <1>1 DEF Placed

LEMMA WakesInTimeHolds == IInv => WakesInTime
<1> DEFINE h == Head(m_trig_map)
           b == BEAT_TICK
           k == h.cycle - m_cycle_count
           dt == b * k - (now - m_last_update)
<1> SUFFICES ASSUME IInv, ~updating, ~set_back, m_trig_map # <<>>,
                    ~(BeatTick(h.cycle) - now >= IntHalf), NEW d \in 0 .. MaxTick
             PROVE  d >= NextEventTick
                      <=> h.cycle <= m_cycle_count + ((now + d - m_last_update) \div b)
                          /\ now + d - m_last_update >= b
  BY DEF WakesInTime
<1>1. /\ b \in Nat \ {0} /\ now \in Int /\ m_last_update \in Int /\ m_cycle_count \in Int
      /\ IntHalf \in Nat \ {0} /\ MaxTick \in Nat
  BY Numbers DEF IInv
<1>2. h \in Triggers /\ h.cycle \in Int /\ h.cycle > m_cycle_count
  <2>1. h \in Triggers
    BY Popped DEF IInv, OneEach
  <2> QED BY <2>1, Numbers DEF IInv, Placed
<1>3. BeatTick(h.cycle) = m_last_update + k * b
  BY DEF BeatTick
<1>4. NextEventTick = IF dt < 0 THEN 0 ELSE ((dt + IntHalf) % (2 * IntHalf)) - IntHalf
  BY DEF NextEventTick
<1> DEFINE x == now + d - m_last_update
           q == x \div b
<1> HIDE DEF b, h
<1>5. k \in Int /\ k >= 1 /\ x \in Int /\ d \in Int /\ d >= 0 /\ x = now + (d - m_last_update)
  BY <1>1, <1>2
<1>6. k * b <= x <=> k <= q
  <2> HIDE DEF k, x, q
  <2>1. k * b <= x <=> k <= x \div b
    BY <1>1, <1>5, BeatsFit
  <2> QED BY <2>1 DEF q
<1>7. k * b \in Int /\ k * b >= b /\ b * k = k * b
  <2> HIDE DEF k
  <2> QED BY <1>1, <1>5, Beats
<1>8. q \in Int
  <2> HIDE DEF x
  <2> QED BY <1>1, <1>5, Quotients
<1>9. k <= q <=> h.cycle <= m_cycle_count + q
  <2> HIDE DEF q
  <2> QED BY <1>1, <1>2, <1>8
<1> DEFINE z == k * b
<1>10. /\ z \in Int /\ z >= b /\ dt = z - (now - m_last_update)
       /\ ~((m_last_update + z) - now >= IntHalf)
  BY <1>3, <1>7
<1> HIDE DEF k, q, z
<1>11. dt \in Int /\ dt < IntHalf
  <2> HIDE DEF dt
  <2> QED BY <1>1, <1>10
<1>12. dt >= 0 => NextEventTick = dt
  <2> HIDE DEF dt
  <2> SUFFICES ASSUME dt >= 0 PROVE NextEventTick = dt
    OBVIOUS
  <2>1. 2 * IntHalf \in Nat \ {0} /\ dt + IntHalf \in 0 .. 2 * IntHalf - 1
    BY <1>1, <1>11
  <2>2. (dt + IntHalf) % (2 * IntHalf) = dt + IntHalf
    BY <2>1, ModSmall
  <2>3. ~(dt < 0) /\ (dt + IntHalf) - IntHalf = dt
    BY <1>1, <1>11
  <2> QED BY <1>4, <2>2, <2>3
<1>13. d >= NextEventTick <=> d >= dt
  <2> HIDE DEF dt
  <2>1. CASE dt >= 0
    BY <1>12, <2>1
  <2>2. CASE dt < 0
    BY <1>4, <1>5, <1>11, <2>2
  <2> QED BY <1>11, <2>1, <2>2
<1>14. d >= dt <=> z <= x
  <2> HIDE DEF dt, x
  <2> QED BY <1>1, <1>5, <1>10
<1>15. z <= x => x >= b
  <2> HIDE DEF x
  <2> QED BY <1>1, <1>5, <1>10
<1> QED BY <1>6, <1>9, <1>13, <1>14, <1>15, Zenon DEF z, q

\* A call comes from a trigger of the timer that is due.
LEMMA Called ==
  ASSUME IInv, [Next]_vars, NEW id \in Ids, Calls(id)
  PROVE  id \in Alive /\ \E x \in Triggers : x.id = id /\ x.cycle <= m_cycle_count
<1>1. firing = NoTimer /\ firing' = id /\ id # NoTimer
  BY Numbers DEF IInv, Calls
<1>2. DoUpdate_fire
  <2>1. ~UNCHANGED vars
    BY <1>1 DEF vars
  <2>2. CASE \E d \in ClockSteps : ClockMoves(d)
    BY <1>1, <2>2 DEF ClockMoves
  <2>3. CASE \E after_ms \in Delays, cyclic, wait \in BOOLEAN : AddTimer(after_ms, cyclic, wait)
    BY <1>1, <2>3 DEF AddTimer
  <2>4. CASE \E key \in Ids : CancelTimer(key)
    BY <1>1, <2>4 DEF CancelTimer
  <2>5. CASE Update
    BY <1>1, <2>5 DEF Update
  <2>6. CASE DoUpdate_skip \/ DoUpdate_fired \/ DoUpdate_return
    BY <1>1, <2>6 DEF DoUpdate_skip, DoUpdate_fired, DoUpdate_return
  <2> QED BY <2>1, <2>2, <2>3, <2>4, <2>5, <2>6 DEF Next, DoUpdate
<1>3. /\ m_trig_map # <<>> /\ Head(m_trig_map).cycle <= m_cycle_count
      /\ Head(m_trig_map).id \in Alive /\ id = Head(m_trig_map).id
  BY <1>1, <1>2 DEF DoUpdate_fire, Due
<1>4. Head(m_trig_map) \in Triggers
  BY <1>3, Popped DEF IInv, OneEach
<1> QED BY <1>3, <1>4

LEMMA NotEarlyHolds ==
  ASSUME IInv, [Next]_vars, NEW id \in Ids, Calls(id)
  PROVE  m_last_update > asked[id] - BEAT_TICK
<1>1. PICK x \in Triggers : x.id = id /\ x.cycle <= m_cycle_count
  BY Called
<1>2. BeatTick(x.cycle) > asked[id] - BEAT_TICK /\ x.cycle \in Int
  BY <1>1, Numbers DEF IInv, Placed
<1>3. /\ BEAT_TICK \in Nat \ {0} /\ m_cycle_count \in Int /\ m_last_update \in Int
      /\ asked[id] \in Int
  BY Numbers DEF IInv
<1> DEFINE z == (x.cycle - m_cycle_count) * BEAT_TICK
<1>4. z \in Int /\ z <= 0
  <2>1. x.cycle - m_cycle_count \in Int /\ x.cycle - m_cycle_count <= 0
    BY <1>1, <1>2, <1>3
  <2> QED BY <1>3, <2>1, Beats
<1>5. BeatTick(x.cycle) = m_last_update + z
  BY DEF BeatTick
<1> HIDE DEF z
<1> QED BY <1>2, <1>3, <1>4, <1>5

LEMMA OncePerUpdateHolds ==
  ASSUME IInv, [Next]_vars, NEW id \in Ids, Calls(id)
  PROVE  id \notin fired \/ set_back
<1>1. PICK x \in Triggers : x.id = id /\ x.cycle <= m_cycle_count
  BY Called
<1>2. x.cycle \in Int /\ m_cycle_count \in Int
  BY Numbers DEF IInv
<1>3. ~(x.cycle > m_cycle_count)
  BY <1>1, <1>2
<1> QED BY <1>1, <1>3 DEF IInv, Placed

-----------------------------------------------------------------------------
(* The theorems *)

\* The invariant of the timer manager: what Update, AddTimer, CancelTimer and
\* the loop of DoUpdate, with any callback, keep of the list and the timers.
THEOREM TimersInductive == Spec => []IInv
  BY InitIInv, StepIInv, PTL DEF Spec

\* Every field stays in its range, m_trig_map in the order of its keys.
THEOREM TimersTypeOK == Spec => []TypeOK
<1>1. IInv => TypeOK
  BY DEF IInv
<1> QED BY <1>1, TimersInductive, PTL

\* A timer has one trigger, and none as its callback runs: AddTimer and the
\* end of OnTimer are the only ones that make one, DoUpdate erases it first.
THEOREM TimersOneTrigger == Spec => []OneTriggerEach
  BY OneTriggerEachHolds, TimersInductive, PTL

\* ActivateTimer is at most a beat late, for every beat and delay.
THEOREM TimersNotLate == Spec => []NotLate
  BY NotLateHolds, TimersInductive, PTL

\* NextEventTick tells the caller of Update how long nothing is due.
THEOREM TimersWakeInTime == Spec => []WakesInTime
  BY WakesInTimeHolds, TimersInductive, PTL

\* DoUpdate calls no timer a beat before it was asked for, or earlier.
THEOREM TimersNotEarly == Spec => NotEarly
<1>1. IInv /\ [Next]_vars
        => [\A id \in Ids : Calls(id) => m_last_update > asked[id] - BEAT_TICK]_vars
  BY NotEarlyHolds
<1> QED BY <1>1, TimersInductive, PTL DEF Spec, NotEarly

\* DoUpdate calls a timer once, unless the clock was set back.
THEOREM TimersOncePerUpdate == Spec => OncePerUpdate
<1>1. IInv /\ [Next]_vars
        => [\A id \in Ids : Calls(id) => id \notin fired \/ set_back]_vars
  BY OncePerUpdateHolds
<1> QED BY <1>1, TimersInductive, PTL DEF Spec, OncePerUpdate

\* ReleaseTimerCallback is called once for a timer and OnTimer not after it,
\* although CancelTimer and DoUpdate both end timers.
THEOREM TimersReleasedOnce == Spec => ReleasedOnce
<1> DEFINE Once == \A id \in Ids : /\ Calls(id) => released[id] = 0
                                   /\ released'[id] <= 1
<1>1. ASSUME IInv, [Next]_vars, IInv' PROVE Once
  <2>1. \A id \in Ids : Calls(id) => released[id] = 0
    BY <1>1, Called DEF IInv, GivenBack
  <2>2. \A id \in Ids : released'[id] <= 1
    BY <1>1 DEF IInv, GivenBack
  <2> QED BY <2>1, <2>2
<1>2. IInv /\ [Next]_vars /\ IInv' => [Once]_vars
  BY <1>1
<1> HIDE DEF Once
<1>3. Spec => [][Once]_vars
  BY <1>2, TimersInductive, PTL DEF Spec
<1> QED BY <1>3 DEF ReleasedOnce, Once
=============================================================================
