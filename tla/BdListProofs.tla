---------------------------- MODULE BdListProofs ----------------------------
(* The pointers of bd_list are right for any number of lists and nodes.     *)
EXTENDS BdList, DataLemmas

IInv == TypeOK /\ WellLinked

LEMMA InitIInv == Init => IInv
<1> SUFFICES ASSUME Init PROVE IInv
  OBVIOUS
<1>1. TypeOK
  BY DEF Init, TypeOK
<1>2. \A l \in Lists : order[l] = <<>>
  BY DEF Init
<1>3. \A l \in Lists : Linked(l, order[l]) /\ IsInjective(order[l]) /\ Members(l) = {}
  BY <1>2, EmptyList DEF Init, Linked, Members
<1>4. \A n \in Nodes : prev[n] = NULL /\ next[n] = NULL
  BY DEF Init
<1> QED BY <1>1, <1>3, <1>4 DEF IInv, WellLinked

\* Places at the ends of a list of n elements.
LEMMA EndPlaces ==
  ASSUME NEW n \in Nat, NEW p \in 1 .. n, n # 1
  PROVE  /\ 2 \in 1 .. n /\ 1 \in 1 .. n - 1 /\ n - 1 \in 1 .. n - 1 /\ n - 1 + 1 = n
         /\ (n - 1 < p <=> p = n) /\ (1 < p <=> p # 1)
  OBVIOUS

LEMMA EmptyLen == ASSUME NEW T, NEW s \in Seq(T) PROVE s = <<>> <=> Len(s) = 0
  OBVIOUS

-----------------------------------------------------------------------------
(* What WellLinked says of one list *)

\* The ends of a list are members of it; they are NULL together.
LEMMA Ends ==
  ASSUME IInv, NEW l \in Lists
  PROVE  /\ order[l] \in Seq(Nodes) /\ IsInjective(order[l]) /\ Linked(l, order[l])
         /\ Len(order[l]) \in Nat /\ DOMAIN order[l] = 1 .. Len(order[l])
         /\ \A i \in DOMAIN order[l] : order[l][i] \in Nodes /\ order[l][i] # NULL
         /\ order[l] = <<>> <=> head[l] = NULL
         /\ order[l] = <<>> <=> tail[l] = NULL
         /\ order[l] = <<>> <=> Len(order[l]) = 0
         /\ order[l] # <<>> => head[l] \in Members(l) /\ tail[l] \in Members(l)
<1> DEFINE s == order[l]
<1>1. s \in Seq(Nodes) /\ IsInjective(s) /\ Linked(l, s)
  BY DEF IInv, TypeOK, WellLinked
<1>2. Len(s) \in Nat /\ DOMAIN s = 1 .. Len(s) /\ (s = <<>> <=> Len(s) = 0)
  BY <1>1
<1>3. \A i \in DOMAIN s : s[i] \in Nodes /\ s[i] # NULL
  BY <1>1, ListAssumption DEF ListAssumption
<1>4. CASE s = <<>>
  BY <1>1, <1>2, <1>3, <1>4 DEF Linked
<1>5. CASE s # <<>>
  <2>1. 1 \in DOMAIN s /\ Len(s) \in DOMAIN s
    BY <1>2, <1>5
  <2>2. head[l] = s[Len(s)] /\ tail[l] = s[1]
    BY <1>1, <1>5 DEF Linked
  <2>3. head[l] \in Members(l) /\ tail[l] \in Members(l)
    BY <2>1, <2>2 DEF Members, Range
  <2> QED BY <1>1, <1>2, <1>3, <1>5, <2>1, <2>2, <2>3
<1> QED BY <1>4, <1>5

\* A list that is not touched, and whose members keep their links, stays.
LEMMA Others ==
  ASSUME IInv, NEW k \in Lists,
         order'[k] = order[k], head'[k] = head[k], tail'[k] = tail[k],
         count'[k] = count[k],
         \A m \in Members(k) : prev'[m] = prev[m] /\ next'[m] = next[m]
  PROVE  Linked(k, order[k])' /\ IsInjective(order[k])' /\ Members(k)' = Members(k)
<1>1. Linked(k, order[k]) /\ IsInjective(order[k])
  BY DEF IInv, WellLinked
<1>2. \A i \in DOMAIN order[k] : order[k][i] \in Members(k)
  BY DEF Members, Range
<1>3. Members(k)' = Members(k)
  BY DEF Members
<1>4. IsInjective(order[k])'
  BY <1>1
<1>5. \A i \in DOMAIN order[k] :
        prev'[order[k][i]] = prev[order[k][i]] /\ next'[order[k][i]] = next[order[k][i]]
  BY <1>2
<1>6. Linked(k, order[k])'
  BY <1>1, <1>5 DEF Linked
<1> QED BY <1>3, <1>4, <1>6

-----------------------------------------------------------------------------
(* The calls, one by one *)

LEMMA PushStep ==
  ASSUME IInv, NEW l \in Lists, NEW n \in Nodes, bd_push_front(l, n)
  PROVE  IInv'
<1> DEFINE s == order[l]
           r == Append(s, n)
<1>1. /\ s \in Seq(Nodes) /\ IsInjective(s) /\ Linked(l, s) /\ Len(s) \in Nat
      /\ DOMAIN s = 1 .. Len(s) /\ (s = <<>> <=> Len(s) = 0)
      /\ (s = <<>> <=> head[l] = NULL) /\ (s = <<>> <=> tail[l] = NULL)
      /\ (s # <<>> => head[l] \in Members(l))
  BY Ends
<1>2. n \notin Range(s) /\ n # NULL /\ prev[n] = NULL /\ next[n] = NULL
  BY ListAssumption DEF ListAssumption, bd_push_front, Free, Members, IInv, WellLinked
<1>3. r \in Seq(Nodes) /\ IsInjective(r) /\ Range(r) = Range(s) \cup {n}
  BY <1>1, <1>2, PushList
<1>4. Len(r) = Len(s) + 1 /\ r[Len(s) + 1] = n /\ \A i \in 1 .. Len(s) : r[i] = s[i]
  BY <1>1
<1>5. /\ order'[l] = r /\ \A k \in Lists \ {l} : order'[k] = order[k]
      /\ order' \in [Lists -> Seq(Nodes)]
  BY <1>3 DEF bd_push_front, IInv, TypeOK
<1>6. Members(l)' = Members(l) \cup {n}
  BY <1>3, <1>5 DEF Members
<1> HIDE DEF r
<1>7. TypeOK'
  <2>1. head' \in [Lists -> Nodes \cup {NULL}] /\ tail' \in [Lists -> Nodes \cup {NULL}]
        /\ returned' \in Nodes \cup {NULL}
    BY DEF bd_push_front, IInv, TypeOK
  <2>2. count' \in [Lists -> Nat]
    BY DEF bd_push_front, IInv, TypeOK
  <2>3. next' \in [Nodes -> Nodes \cup {NULL}] /\ prev' \in [Nodes -> Nodes \cup {NULL}]
    BY DEF bd_push_front, IInv, TypeOK
  <2> QED BY <1>5, <2>1, <2>2, <2>3 DEF TypeOK
<1>8. (Linked(l, order[l]) /\ IsInjective(order[l]))'
  <2>1. r # <<>> /\ DOMAIN r = 1 .. Len(s) + 1 /\ Len(r) = Len(s) + 1
    BY <1>1, <1>3, <1>4
  <2>2. count'[l] = Len(r) /\ head'[l] = n
    BY <1>1, <1>4 DEF bd_push_front, Linked, IInv, TypeOK
  <2>3. tail'[l] = r[1]
    <3>1. CASE s = <<>>
      BY <3>1, <1>1, <1>4 DEF bd_push_front, IInv, TypeOK
    <3>2. CASE s # <<>>
      BY <3>2, <1>1, <1>4 DEF bd_push_front, Linked, IInv, TypeOK
    <3> QED BY <3>1, <3>2
  <2>4. ASSUME NEW i \in DOMAIN r
        PROVE  /\ prev'[r[i]] = IF i = Len(r) THEN NULL ELSE r[i + 1]
               /\ next'[r[i]] = IF i = 1 THEN NULL ELSE r[i - 1]
    <3>1. CASE s = <<>>
      <4>1. i = 1 /\ Len(r) = 1 /\ r[1] = n
        BY <3>1, <1>1, <1>4, <2>1
      <4>2. UNCHANGED <<prev, next>>
        BY <3>1, <1>1 DEF bd_push_front
      <4> QED BY <4>1, <4>2, <1>2
    <3>2. CASE s # <<>>
      <4>1. /\ next' = [next EXCEPT ![n] = head[l]]
            /\ prev' = [prev EXCEPT ![head[l]] = n]
            /\ head[l] = s[Len(s)] /\ head[l] # n /\ head[l] \in Nodes
            /\ Len(s) \in DOMAIN s
        BY <3>2, <1>1, <1>2 DEF bd_push_front, Linked, Members, IInv, TypeOK
      <4>2. CASE i = Len(s) + 1
        <5>1. r[i] = n /\ i = Len(r) /\ i # 1 /\ r[i - 1] = s[Len(s)]
          BY <4>2, <3>2, <1>1, <1>4
        <5>2. prev'[n] = NULL /\ next'[n] = head[l]
          BY <4>1, <1>2 DEF IInv, TypeOK
        <5> QED BY <4>1, <5>1, <5>2
      <4>3. CASE i = Len(s)
        <5>0. i \in 1 .. Len(s) /\ (i # 1 => i - 1 \in 1 .. Len(s))
          <6>1. Len(s) \in Nat /\ Len(s) >= 1
            BY <4>1, <1>1
          <6>2. i \in Nat /\ i >= 1 /\ i <= Len(s)
            BY <4>3, <6>1
          <6> QED BY <6>1, <6>2
        <5>1. /\ i \in DOMAIN s /\ r[i] = head[l] /\ i # Len(r) /\ r[i + 1] = n
              /\ i # 1 => r[i - 1] = s[i - 1]
          BY <5>0, <4>3, <4>1, <1>1, <1>4
        <5>2. prev'[head[l]] = n /\ next'[head[l]] = next[head[l]]
          BY <4>1 DEF IInv, TypeOK
        <5>3. next[s[i]] = IF i = 1 THEN NULL ELSE s[i - 1]
          BY <1>1, <5>1 DEF Linked
        <5> QED BY <4>1, <4>3, <5>1, <5>2, <5>3
      <4>4. CASE i \in 1 .. Len(s) - 1
        <5>0. i \in 1 .. Len(s) /\ i + 1 \in 1 .. Len(s) /\ (i # 1 => i - 1 \in 1 .. Len(s))
          <6>1. Len(s) \in Nat
            BY <1>1
          <6> QED BY <4>4, <6>1
        <5>1. /\ i \in DOMAIN s /\ r[i] = s[i] /\ i # Len(r) /\ r[i + 1] = s[i + 1]
              /\ i # 1 => r[i - 1] = s[i - 1]
          BY <5>0, <1>1, <1>4
        <5>2. s[i] # n /\ s[i] # head[l] /\ s[i] \in Nodes
          <6>1. s[i] \in Range(s)
            BY <5>1 DEF Range
          <6>2. Len(s) \in DOMAIN s /\ i # Len(s)
            BY <4>4, <1>1
          <6>3. s[i] # s[Len(s)]
            BY <5>1, <6>2, <1>1 DEF IsInjective
          <6> QED BY <5>1, <6>1, <6>3, <4>1, <1>1, <1>2
        <5>3. prev'[s[i]] = prev[s[i]] /\ next'[s[i]] = next[s[i]]
          BY <4>1, <5>2 DEF IInv, TypeOK
        <5>4. /\ prev[s[i]] = IF i = Len(s) THEN NULL ELSE s[i + 1]
              /\ next[s[i]] = IF i = 1 THEN NULL ELSE s[i - 1]
          BY <1>1, <5>1 DEF Linked
        <5> QED BY <4>4, <1>1, <5>1, <5>3, <5>4
      <4> QED BY <4>2, <4>3, <4>4, <2>1, <1>1
    <3> QED BY <3>1, <3>2
  <2> QED BY <1>3, <1>4, <1>5, <2>1, <2>2, <2>3, <2>4 DEF Linked
<1>9. ASSUME NEW k \in Lists \ {l}
      PROVE  Linked(k, order[k])' /\ IsInjective(order[k])' /\ Members(k)' = Members(k)
  <2>1. Members(k) \cap Members(l) = {} /\ n \notin Members(k)
    BY DEF IInv, WellLinked, bd_push_front, Free
  <2>2. ASSUME NEW m \in Members(k) PROVE prev'[m] = prev[m] /\ next'[m] = next[m]
    <3>1. m # n /\ (head[l] # NULL => m # head[l])
      BY <1>1, <2>1
    <3>2. m \in Nodes
      BY Ends DEF Members, Range
    <3> QED BY <3>1, <3>2 DEF bd_push_front, IInv, TypeOK
  <2>3. head'[k] = head[k] /\ tail'[k] = tail[k] /\ count'[k] = count[k]
    BY DEF bd_push_front, IInv, TypeOK
  <2> QED BY <1>5, <2>2, <2>3, Others
<1>10. ASSUME NEW m \in Nodes, Free(m)' PROVE prev'[m] = NULL /\ next'[m] = NULL
  <2>1. Free(m) /\ m # n /\ m \notin Members(l)
    BY <1>6, <1>9, <1>10 DEF Free
  <2> QED BY <1>1, <2>1 DEF IInv, TypeOK, WellLinked, bd_push_front
<1>11. ASSUME NEW j \in Lists, NEW k \in Lists, j # k
       PROVE  (Members(j) \cap Members(k) = {})'
  BY <1>6, <1>9, <1>11 DEF IInv, WellLinked, bd_push_front, Free
<1> QED BY <1>7, <1>8, <1>9, <1>10, <1>11 DEF IInv, WellLinked

\* What is left of a list when its i-th element is taken out.
LEMMA RemoveList ==
  ASSUME NEW T, NEW s \in Seq(T), NEW i \in DOMAIN s, IsInjective(s)
  PROVE  /\ RemoveAt(s, i) \in Seq(T)
         /\ Len(RemoveAt(s, i)) = Len(s) - 1
         /\ \A j \in 1 .. Len(s) - 1 :
              RemoveAt(s, i)[j] = IF j < i THEN s[j] ELSE s[j + 1]
         /\ IsInjective(RemoveAt(s, i))
         /\ Range(RemoveAt(s, i)) = Range(s) \ {s[i]}
<1> DEFINE r == RemoveAt(s, i)
<1>1. Len(s) \in Nat /\ DOMAIN s = 1 .. Len(s) /\ i \in 1 .. Len(s)
  OBVIOUS
<1>2. /\ SubSeq(s, 1, i - 1) \in Seq(T) /\ Len(SubSeq(s, 1, i - 1)) = i - 1
      /\ \A j \in 1 .. i - 1 : SubSeq(s, 1, i - 1)[j] = s[j]
  BY <1>1
<1>3. /\ SubSeq(s, i + 1, Len(s)) \in Seq(T) /\ Len(SubSeq(s, i + 1, Len(s))) = Len(s) - i
      /\ \A j \in 1 .. Len(s) - i : SubSeq(s, i + 1, Len(s))[j] = s[j + i]
  BY <1>1
<1>4. r \in Seq(T) /\ Len(r) = Len(s) - 1
  <2>1. ASSUME NEW a \in Seq(T), NEW b \in Seq(T)
        PROVE  a \o b \in Seq(T) /\ Len(a \o b) = Len(a) + Len(b)
    OBVIOUS
  <2>2. r \in Seq(T) /\ Len(r) = (i - 1) + (Len(s) - i)
    BY <1>2, <1>3, <2>1 DEF RemoveAt
  <2> QED BY <2>2, <1>1
<1>5. ASSUME NEW j \in 1 .. Len(s) - 1
      PROVE  r[j] = IF j < i THEN s[j] ELSE s[j + 1]
  <2> DEFINE a == SubSeq(s, 1, i - 1)
             b == SubSeq(s, i + 1, Len(s))
  <2>0. r = a \o b /\ a \in Seq(T) /\ b \in Seq(T) /\ Len(a) = i - 1 /\ Len(b) = Len(s) - i
    BY <1>2, <1>3 DEF RemoveAt
  <2> HIDE DEF a, b, r
  <2>1. CASE j < i
    <3>1. j \in 1 .. i - 1
      BY <2>1, <1>1
    <3>2. a[j] = s[j]
      BY <3>1, <1>2 DEF a
    <3>3. r[j] = a[j]
      BY <3>1, <2>0, <1>1
    <3> QED BY <3>2, <3>3, <2>1
  <2>2. CASE j >= i
    <3>1. j - (i - 1) \in 1 .. Len(s) - i /\ j - (i - 1) + i = j + 1
          /\ j \in (i - 1) + 1 .. (i - 1) + (Len(s) - i)
      BY <2>2, <1>1
    <3>2. r[j] = b[j - (i - 1)]
      <4>1. ASSUME NEW u \in Seq(T), NEW v \in Seq(T), NEW k \in Len(u) + 1 .. Len(u) + Len(v)
            PROVE  (u \o v)[k] = v[k - Len(u)]
        OBVIOUS
      <4>2. j \in Len(a) + 1 .. Len(a) + Len(b)
        BY <3>1, <2>0
      <4> QED BY <4>1, <4>2, <2>0
    <3>3. b[j - (i - 1)] = s[j - (i - 1) + i]
      BY <3>1, <1>3 DEF b
    <3>4. r[j] = s[j + 1]
      BY <3>1, <3>2, <3>3
    <3>5. ~(j < i)
      BY <2>2, <1>1
    <3> QED BY <3>4, <3>5
  <2> QED BY <2>1, <2>2, <1>1
<1> HIDE DEF r
<1>6. DOMAIN r = 1 .. Len(s) - 1
  BY <1>4, <1>1
<1>7. IsInjective(r)
  <2> SUFFICES ASSUME NEW j \in DOMAIN r, NEW k \in DOMAIN r, r[j] = r[k]
               PROVE  j = k
    BY DEF IsInjective
  <2> DEFINE at(q) == IF q < i THEN q ELSE q + 1
  <2>1. at(j) \in DOMAIN s /\ at(k) \in DOMAIN s /\ s[at(j)] = s[at(k)]
    BY <1>1, <1>5, <1>6
  <2>2. at(j) = at(k)
    BY <2>1 DEF IsInjective
  <2> QED BY <2>2, <1>1, <1>6
<1>8. Range(r) \subseteq Range(s) \ {s[i]}
  <2> SUFFICES ASSUME NEW j \in DOMAIN r PROVE r[j] \in Range(s) /\ r[j] # s[i]
    BY DEF Range
  <2>1. PICK q \in DOMAIN s : q # i /\ r[j] = s[q]
    <3>1. CASE j < i
      <4>1. j \in DOMAIN s /\ j # i /\ r[j] = s[j]
        BY <3>1, <1>1, <1>5, <1>6
      <4> QED BY <4>1
    <3>2. CASE j >= i
      <4>1. j + 1 \in DOMAIN s /\ j + 1 # i /\ r[j] = s[j + 1]
        BY <3>2, <1>1, <1>5, <1>6
      <4> QED BY <4>1
    <3> QED BY <3>1, <3>2, <1>1, <1>6
  <2> QED BY <2>1 DEF Range, IsInjective
<1>9. Range(s) \ {s[i]} \subseteq Range(r)
  <2> SUFFICES ASSUME NEW q \in DOMAIN s, q # i PROVE s[q] \in Range(r)
    BY DEF Range
  <2>1. \E j \in DOMAIN r : r[j] = s[q]
    <3>1. CASE q < i
      <4>1. q \in DOMAIN r
        BY <3>1, <1>1, <1>6
      <4> QED BY <4>1, <3>1, <1>5, <1>6
    <3>2. CASE q > i
      <4>1. q - 1 \in DOMAIN r /\ ~(q - 1 < i) /\ q - 1 + 1 = q
        BY <3>2, <1>1, <1>6
      <4> QED BY <4>1, <1>5, <1>6
    <3> QED BY <3>1, <3>2, <1>1
  <2> QED BY <2>1 DEF Range
<1> QED BY <1>4, <1>5, <1>7, <1>8, <1>9 DEF r

LEMMA UnlinkStep ==
  ASSUME IInv, NEW l \in Lists, NEW p \in DOMAIN order[l], Unlink(order[l][p]),
         order' = [order EXCEPT ![l] = RemoveAt(@, p)],
         head' = [head EXCEPT ![l] =
                    IF prev[order[l][p]] = NULL THEN next[order[l][p]] ELSE @],
         tail' = [tail EXCEPT ![l] =
                    IF next[order[l][p]] = NULL THEN prev[order[l][p]] ELSE @],
         count' = [count EXCEPT ![l] = @ - 1],
         returned' \in Nodes \cup {NULL}
  PROVE  IInv'
<1> DEFINE s == order[l]
           r == RemoveAt(s, p)
           n == s[p]
           at(i) == IF i < p THEN i ELSE i + 1
<1>1. /\ s \in Seq(Nodes) /\ IsInjective(s) /\ Linked(l, s) /\ Len(s) \in Nat
      /\ DOMAIN s = 1 .. Len(s) /\ (s = <<>> <=> Len(s) = 0)
      /\ \A i \in DOMAIN s : s[i] \in Nodes /\ s[i] # NULL
  BY Ends
<1>2. p \in 1 .. Len(s) /\ n \in Nodes /\ n # NULL /\ n \in Range(s)
  BY <1>1 DEF Range
<1>0. Len(s) \in Nat /\ p \in Nat /\ 1 <= p /\ p <= Len(s)
  BY <1>1
<1>3. /\ r \in Seq(Nodes) /\ IsInjective(r) /\ Range(r) = Range(s) \ {n}
      /\ Len(r) = Len(s) - 1
      /\ \A i \in 1 .. Len(s) - 1 : r[i] = IF i < p THEN s[i] ELSE s[i + 1]
  <2>1. s \in Seq(Nodes) /\ p \in DOMAIN s /\ IsInjective(s)
    BY <1>1
  <2> HIDE DEF s
  <2> QED BY <2>1, RemoveList DEF r, n
<1>4. /\ order'[l] = r /\ \A k \in Lists \ {l} : order'[k] = order[k]
      /\ order' \in [Lists -> Seq(Nodes)]
  BY <1>3 DEF IInv, TypeOK
<1>5. Members(l)' = Members(l) \ {n}
  BY <1>3, <1>4 DEF Members
<1>6. /\ prev[n] = IF p = Len(s) THEN NULL ELSE s[p + 1]
      /\ next[n] = IF p = 1 THEN NULL ELSE s[p - 1]
  BY <1>1 DEF Linked
<1>7. /\ prev' = [m \in Nodes |->
                    IF m = n THEN NULL ELSE IF m = next[n] THEN prev[n] ELSE prev[m]]
      /\ next' = [m \in Nodes |->
                    IF m = n THEN NULL ELSE IF m = prev[n] THEN next[n] ELSE next[m]]
  BY DEF Unlink
<1>8. DOMAIN r = 1 .. Len(s) - 1
  BY <1>1, <1>3
<1>9. /\ head' = [head EXCEPT ![l] = IF prev[n] = NULL THEN next[n] ELSE @]
      /\ tail' = [tail EXCEPT ![l] = IF next[n] = NULL THEN prev[n] ELSE @]
  OBVIOUS
<1> HIDE DEF r, n
<1>10. TypeOK'
  <2>1. count[l] = Len(s) /\ Len(s) >= 1
    BY <1>1, <1>2 DEF Linked
  <2>2. count' \in [Lists -> Nat]
    BY <2>1, <1>1 DEF IInv, TypeOK
  <2>3. head' \in [Lists -> Nodes \cup {NULL}] /\ tail' \in [Lists -> Nodes \cup {NULL}]
    BY <1>2, <1>9 DEF IInv, TypeOK
  <2>4. prev' \in [Nodes -> Nodes \cup {NULL}] /\ next' \in [Nodes -> Nodes \cup {NULL}]
    BY <1>2, <1>7 DEF IInv, TypeOK
  <2> QED BY <1>4, <2>2, <2>3, <2>4 DEF TypeOK
\* Each element of what is left keeps its neighbours, but for those that n
\* stood between.
<1>11. ASSUME NEW i \in 1 .. Len(s) - 1
       PROVE  /\ prev'[r[i]] = IF i = Len(s) - 1 THEN NULL ELSE r[i + 1]
              /\ next'[r[i]] = IF i = 1 THEN NULL ELSE r[i - 1]
  <2> DEFINE q == at(i)
  <2>1. q \in DOMAIN s /\ q # p /\ r[i] = s[q] /\ s[q] \in Nodes
    BY <1>1, <1>2, <1>3
  <2>2. s[q] # n
    BY <2>1, <1>1, <1>2 DEF IsInjective, n
  <2>3. /\ prev[s[q]] = IF q = Len(s) THEN NULL ELSE s[q + 1]
        /\ next[s[q]] = IF q = 1 THEN NULL ELSE s[q - 1]
    BY <2>1, <1>1 DEF Linked
  <2>4. (p # 1 /\ q = p - 1) <=> s[q] = next[n]
    <3>1. CASE p = 1
      BY <3>1, <1>6, <1>1, <2>1
    <3>2. CASE p # 1
      <4>1. p - 1 \in DOMAIN s /\ next[n] = s[p - 1]
        BY <3>2, <1>1, <1>2, <1>6
      <4> QED BY <4>1, <3>2, <2>1, <1>1 DEF IsInjective
    <3> QED BY <3>1, <3>2
  <2>5. (p # Len(s) /\ q = p + 1) <=> s[q] = prev[n]
    <3>1. CASE p = Len(s)
      BY <3>1, <1>6, <1>1, <2>1
    <3>2. CASE p # Len(s)
      <4>1. p + 1 \in DOMAIN s /\ prev[n] = s[p + 1]
        BY <3>2, <1>1, <1>2, <1>6
      <4> QED BY <4>1, <3>2, <2>1, <1>1 DEF IsInjective
    <3> QED BY <3>1, <3>2
  <2>6. prev'[s[q]] = IF p # 1 /\ q = p - 1 THEN prev[n] ELSE prev[s[q]]
    BY <2>1, <2>2, <2>4, <1>7
  <2>7. next'[s[q]] = IF p # Len(s) /\ q = p + 1 THEN next[n] ELSE next[s[q]]
    BY <2>1, <2>2, <2>5, <1>7
  <2>8. prev'[s[q]] = IF i = Len(s) - 1 THEN NULL ELSE r[i + 1]
    <3>1. i # Len(s) - 1 => i + 1 \in 1 .. Len(s) - 1
      BY <1>1
    <3>2. i # Len(s) - 1 => r[i + 1] = IF i + 1 < p THEN s[i + 1] ELSE s[i + 2]
      BY <3>1, <1>3, <1>1
    <3>3. CASE i + 1 < p
      BY <3>3, <3>2, <2>3, <2>6, <1>1, <1>2
    <3>4. CASE i + 1 = p
      BY <3>4, <3>2, <2>3, <2>6, <1>1, <1>2, <1>6
    <3>5. CASE i + 1 > p
      BY <3>5, <3>2, <2>3, <2>6, <1>1, <1>2
    <3> QED BY <3>3, <3>4, <3>5, <1>1, <1>2
  <2>9. next'[s[q]] = IF i = 1 THEN NULL ELSE r[i - 1]
    <3>1. i # 1 => i - 1 \in 1 .. Len(s) - 1
      BY <1>1
    <3>2. i # 1 => r[i - 1] = IF i - 1 < p THEN s[i - 1] ELSE s[i]
      BY <3>1, <1>3, <1>1
    <3>3. CASE i < p
      BY <3>3, <3>2, <2>3, <2>7, <1>1, <1>2
    <3>4. CASE i = p
      BY <3>4, <3>2, <2>3, <2>7, <1>1, <1>2, <1>6
    <3>5. CASE i > p
      BY <3>5, <3>2, <2>3, <2>7, <1>1, <1>2
    <3> QED BY <3>3, <3>4, <3>5, <1>1, <1>2
  <2> QED BY <2>1, <2>8, <2>9
<1>12. (Linked(l, order[l]) /\ IsInjective(order[l]))'
  <2>1. count'[l] = Len(r)
    BY <1>1, <1>3 DEF Linked, IInv, TypeOK
  <2>2. r = <<>> <=> Len(s) = 1
    <3>1. r = <<>> <=> Len(r) = 0
      BY <1>3, EmptyLen
    <3> QED BY <3>1, <1>1, <1>3
  <2>3. head'[l] = IF r = <<>> THEN NULL ELSE r[Len(r)]
    <3>1. head[l] = s[Len(s)] /\ head'[l] = IF prev[n] = NULL THEN next[n] ELSE head[l]
      BY <1>1, <1>2, <1>9 DEF Linked, IInv, TypeOK
    <3>2. prev[n] = NULL <=> p = Len(s)
      <4>1. p # Len(s) => p + 1 \in DOMAIN s
        BY <1>1, <1>2
      <4> QED BY <4>1, <1>1, <1>6
    <3>3. Len(s) # 1 => r[Len(s) - 1] = IF p = Len(s) THEN s[Len(s) - 1] ELSE s[Len(s)]
      <4>1. Len(s) # 1 => Len(s) - 1 \in 1 .. Len(s) - 1 /\ Len(s) - 1 + 1 = Len(s)
                          /\ (Len(s) - 1 < p <=> p = Len(s))
        BY <1>0, <1>2, EndPlaces
      <4> QED BY <4>1, <1>3
    <3> QED BY <3>1, <3>2, <3>3, <2>2, <1>1, <1>2, <1>3, <1>6
  <2>4. tail'[l] = IF r = <<>> THEN NULL ELSE r[1]
    <3>1. tail[l] = s[1] /\ tail'[l] = IF next[n] = NULL THEN prev[n] ELSE tail[l]
      BY <1>1, <1>2, <1>9 DEF Linked, IInv, TypeOK
    <3>2. next[n] = NULL <=> p = 1
      <4>1. p # 1 => p - 1 \in DOMAIN s
        BY <1>1, <1>2
      <4> QED BY <4>1, <1>1, <1>6
    <3>3. Len(s) # 1 => r[1] = IF p = 1 THEN s[2] ELSE s[1]
      <4>1. Len(s) # 1 => 1 \in 1 .. Len(s) - 1 /\ (1 < p <=> p # 1)
        BY <1>0, <1>2, EndPlaces
      <4>2. 1 + 1 = 2
        OBVIOUS
      <4> QED BY <4>1, <4>2, <1>3
    <3>4. p = 1 => prev[n] = IF Len(s) = 1 THEN NULL ELSE s[2]
      BY <1>6, <1>1
    <3>5. CASE p = 1
      BY <3>1, <3>2, <3>3, <3>4, <3>5, <2>2
    <3>6. CASE p # 1
      <4>1. Len(s) # 1 /\ r # <<>>
        BY <3>6, <2>2, <1>1
      <4> QED BY <4>1, <3>1, <3>2, <3>3, <3>6
    <3> QED BY <3>5, <3>6
  <2>5. /\ count'[l] = Len(order'[l])
        /\ head'[l] = IF order'[l] = <<>> THEN NULL ELSE order'[l][Len(order'[l])]
        /\ tail'[l] = IF order'[l] = <<>> THEN NULL ELSE order'[l][1]
    BY <1>4, <2>1, <2>3, <2>4, Zenon
  <2>6. \A i \in DOMAIN r : /\ prev'[r[i]] = IF i = Len(r) THEN NULL ELSE r[i + 1]
                          /\ next'[r[i]] = IF i = 1 THEN NULL ELSE r[i - 1]
    BY <1>3, <1>8, <1>11
  <2>7. Linked(l, order[l])'
    BY <1>4, <2>5, <2>6 DEF Linked
  <2> QED BY <1>3, <1>4, <2>7
<1>16. /\ n \in Members(l) /\ prev[n] \in Members(l) \cup {NULL}
       /\ next[n] \in Members(l) \cup {NULL}
  <2>1. p # Len(s) => p + 1 \in DOMAIN s
    BY <1>1, <1>0
  <2>2. p # 1 => p - 1 \in DOMAIN s
    BY <1>1, <1>0
  <2> QED BY <2>1, <2>2, <1>2, <1>6 DEF Members, Range
<1>13. ASSUME NEW k \in Lists \ {l}
       PROVE  Linked(k, order[k])' /\ IsInjective(order[k])' /\ Members(k)' = Members(k)
  <2>1. Members(k) \cap Members(l) = {}
    BY DEF IInv, WellLinked
  <2>3. ASSUME NEW m \in Members(k) PROVE prev'[m] = prev[m] /\ next'[m] = next[m]
    <3>1. m \in Nodes /\ m # NULL
      BY Ends DEF Members, Range
    <3> QED BY <3>1, <2>1, <1>16, <1>7
  <2>4. head'[k] = head[k] /\ tail'[k] = tail[k] /\ count'[k] = count[k]
    BY DEF IInv, TypeOK
  <2> QED BY <1>4, <2>3, <2>4, Others
<1>14. ASSUME NEW m \in Nodes, Free(m)' PROVE prev'[m] = NULL /\ next'[m] = NULL
  <2>1. CASE m = n
    BY <2>1, <1>2, <1>7
  <2>2. CASE m # n
    <3>1. Free(m)
      BY <2>2, <1>5, <1>13, <1>14 DEF Free
    <3>2. prev[m] = NULL /\ next[m] = NULL
      BY <3>1 DEF IInv, WellLinked
    <3>3. m # prev[n] /\ m # next[n]
      <4>1. m \notin Members(l) /\ m # NULL
        BY <3>1, ListAssumption DEF Free, ListAssumption
      <4> QED BY <4>1, <1>16
    <3> QED BY <3>2, <3>3, <2>2, <1>7
  <2> QED BY <2>1, <2>2
<1>15. ASSUME NEW j \in Lists, NEW k \in Lists, j # k
       PROVE  (Members(j) \cap Members(k) = {})'
  BY <1>5, <1>13, <1>15 DEF IInv, WellLinked
<1> QED BY <1>10, <1>12, <1>13, <1>14, <1>15 DEF IInv, WellLinked

LEMMA PopStep ==
  ASSUME IInv, NEW l \in Lists, bd_pop_back(l)
  PROVE  IInv'
<1>1. CASE tail[l] = NULL
  <2>1. UNCHANGED <<head, tail, count, prev, next, order>> /\ returned' = NULL
    BY <1>1 DEF bd_pop_back
  <2>2. TypeOK'
    BY <2>1 DEF IInv, TypeOK
  <2>3. WellLinked'
    <3>1. \A k \in Lists : Linked(k, order[k])' /\ IsInjective(order[k])'
                             /\ Members(k)' = Members(k)
      BY <2>1, Others
    <3> QED BY <3>1, <2>1 DEF IInv, WellLinked, Free
  <2> QED BY <2>2, <2>3 DEF IInv
<1>2. CASE tail[l] # NULL
  <2> DEFINE s == order[l]
  <2>1. /\ s \in Seq(Nodes) /\ s # <<>> /\ IsInjective(s) /\ Linked(l, s)
        /\ DOMAIN s = 1 .. Len(s) /\ Len(s) \in Nat /\ Len(s) # 0
        /\ \A i \in DOMAIN s : s[i] \in Nodes /\ s[i] # NULL
    BY <1>2, Ends
  <2>2. 1 \in DOMAIN s /\ tail[l] = s[1] /\ head[l] = s[Len(s)] /\ s[1] \in Nodes
    BY <2>1 DEF Linked
  <2>3. next[s[1]] = NULL /\ prev[s[1]] = IF Len(s) = 1 THEN NULL ELSE s[2]
    <3>1. \A i \in DOMAIN s : /\ prev[s[i]] = IF i = Len(s) THEN NULL ELSE s[i + 1]
                              /\ next[s[i]] = IF i = 1 THEN NULL ELSE s[i - 1]
      BY <2>1 DEF Linked
    <3>2. 1 + 1 = 2
      OBVIOUS
    <3> QED BY <3>1, <3>2, <2>2
  <2>4. Len(s) # 1 => 2 \in DOMAIN s
    <3>1. 1 \in 1 .. Len(s)
      BY <2>1, <2>2
    <3> QED BY <3>1, <2>1, EndPlaces
  <2>5. Len(s) # 1 => s[2] \in Nodes /\ s[2] # NULL /\ s[2] # s[1] /\ next[s[2]] = s[1]
    BY <2>1, <2>2, <2>4 DEF Linked, IsInjective
  <2>6. RemoveAt(s, 1) = Tail(s)
    BY <2>1 DEF RemoveAt
  <2>7. order' = [order EXCEPT ![l] = RemoveAt(@, 1)]
    BY <2>6, <1>2 DEF bd_pop_back
  <2>8. head' = [head EXCEPT ![l] = IF prev[s[1]] = NULL THEN next[s[1]] ELSE @]
    BY <1>2, <2>2, <2>3 DEF bd_pop_back, IInv, TypeOK
  <2>9. tail' = [tail EXCEPT ![l] = IF next[s[1]] = NULL THEN prev[s[1]] ELSE @]
    BY <1>2, <2>2, <2>3 DEF bd_pop_back, IInv, TypeOK
  <2>10. Unlink(s[1])
    <3>1. prev' = [m \in Nodes |->
              IF m = s[1] THEN NULL ELSE IF m = next[s[1]] THEN prev[s[1]] ELSE prev[m]]
      BY <1>2, <2>2, <2>3, ListAssumption DEF bd_pop_back, IInv, TypeOK, ListAssumption
    <3>2. next' = [m \in Nodes |->
              IF m = s[1] THEN NULL ELSE IF m = prev[s[1]] THEN next[s[1]] ELSE next[m]]
      BY <1>2, <2>2, <2>3, <2>5, ListAssumption
         DEF bd_pop_back, IInv, TypeOK, ListAssumption
    <3> QED BY <3>1, <3>2 DEF Unlink
  <2>11. count' = [count EXCEPT ![l] = @ - 1] /\ returned' \in Nodes \cup {NULL}
    BY <1>2, <2>2 DEF bd_pop_back
  <2> QED BY <2>2, <2>7, <2>8, <2>9, <2>10, <2>11, UnlinkStep
<1> QED BY <1>1, <1>2

LEMMA RemoveStep ==
  ASSUME IInv, NEW l \in Lists, NEW n \in Nodes, bd_remove_node(l, n)
  PROVE  IInv'
<1>1. PICK p \in DOMAIN order[l] :
        order[l][p] = n /\ order' = [order EXCEPT ![l] = RemoveAt(@, p)]
  BY DEF bd_remove_node, Forget
<1> QED BY <1>1, UnlinkStep DEF bd_remove_node

LEMMA StepIInv == IInv /\ [Next]_vars => IInv'
<1> SUFFICES ASSUME IInv, [Next]_vars PROVE IInv'
  OBVIOUS
<1>1. CASE \E l \in Lists, n \in Nodes : bd_push_front(l, n)
  BY <1>1, PushStep
<1>2. CASE \E l \in Lists : bd_pop_back(l)
  BY <1>2, PopStep
<1>3. CASE \E l \in Lists, n \in Nodes : bd_remove_node(l, n)
  BY <1>3, RemoveStep
<1>4. CASE UNCHANGED vars
  BY <1>4 DEF vars, IInv, TypeOK, WellLinked, Linked, Members, Free
<1> QED BY <1>1, <1>2, <1>3, <1>4 DEF Next

-----------------------------------------------------------------------------
(* bd_find_node *)

\* The walk of bd_find_node stays in the list and reaches all of it.
LEMMA FindsMembersHolds == IInv => FindsMembers
<1> SUFFICES ASSUME IInv, NEW l \in Lists, NEW n \in Nodes
             PROVE  bd_find_node(l, n) <=> n \in Members(l)
  BY DEF FindsMembers
<1> DEFINE s == order[l]
<1>1. /\ s \in Seq(Nodes) /\ Linked(l, s) /\ Len(s) \in Nat /\ DOMAIN s = 1 .. Len(s)
      /\ \A i \in DOMAIN s : s[i] \in Nodes /\ s[i] # NULL
      /\ (s = <<>> <=> head[l] = NULL)
      /\ (s # <<>> => head[l] \in Members(l))
  BY Ends
<1>2. Members(l) = Range(s)
  BY DEF Members
<1> HIDE DEF s
<1>3. ASSUME bd_find_node(l, n) PROVE n \in Members(l)
  <2> DEFINE S == Range(s)
  <2>1. S \in SUBSET Nodes
    BY <1>1 DEF Range
  <2>2. head[l] \in S \cup {NULL}
    BY <1>1, <1>2
  <2>3. ASSUME NEW m \in S PROVE next[m] \in S \cup {NULL}
    <3>1. PICK i \in DOMAIN s : m = s[i]
      BY DEF Range
    <3>2. next[m] = IF i = 1 THEN NULL ELSE s[i - 1]
      BY <1>1, <3>1 DEF Linked
    <3>3. i # 1 => i - 1 \in DOMAIN s
      BY <1>1
    <3> QED BY <3>2, <3>3 DEF Range
  <2> HIDE DEF S
  <2>4. n \in S
    BY <1>3, <2>1, <2>2, <2>3 DEF bd_find_node
  <2> QED BY <1>2, <2>4 DEF S
<1>4. ASSUME n \in Members(l), NEW S \in SUBSET Nodes, head[l] \in S \cup {NULL},
             \A m \in S : next[m] \in S \cup {NULL}
      PROVE  n \in S
  <2> DEFINE missed(j) == Len(s) - j \in DOMAIN s /\ s[Len(s) - j] \notin S
             M == {j \in Nat : missed(j)}
  <2> SUFFICES ASSUME n \notin S PROVE FALSE
    OBVIOUS
  <2>1. M # {}
    <3>1. PICK i \in DOMAIN s : s[i] = n
      BY <1>2, <1>4 DEF Range
    <3>2. Len(s) - i \in Nat /\ Len(s) - (Len(s) - i) = i
      BY <1>1
    <3>3. missed(Len(s) - i)
      BY <3>1, <3>2
    <3> QED BY <3>2, <3>3
  <2>2. PICK j \in M : \A k \in M : j <= k
    <3>1. M \subseteq Nat
      OBVIOUS
    <3> HIDE DEF M
    <3> QED BY <2>1, <3>1, LeastNatural
  <2> DEFINE i == Len(s) - j
  <2>3. j \in Nat /\ i \in DOMAIN s /\ s[i] \notin S
    OBVIOUS
  <2>4. CASE j = 0
    <3>1. i = Len(s) /\ s # <<>>
      BY <1>1, <2>3, <2>4
    <3>2. head[l] = s[i] /\ s[i] # NULL
      BY <1>1, <2>3, <3>1 DEF Linked
    <3> QED BY <1>4, <2>3, <3>2
  <2>5. CASE j # 0
    <3>1. j - 1 \in Nat /\ ~(j <= j - 1) /\ Len(s) - (j - 1) = i + 1 /\ i + 1 \in DOMAIN s
      BY <1>1, <2>3, <2>5
    <3>2. j - 1 \notin M
      BY <2>2, <3>1
    <3>3. s[i + 1] \in S
      BY <3>1, <3>2
    <3>4. next[s[i + 1]] = s[i]
      <4>1. i + 1 # 1 /\ (i + 1) - 1 = i
        BY <1>1, <2>3
      <4> QED BY <1>1, <3>1, <4>1 DEF Linked
    <3> QED BY <1>1, <1>4, <2>3, <3>3, <3>4
  <2> QED BY <2>4, <2>5
<1> QED BY <1>3, <1>4 DEF bd_find_node

-----------------------------------------------------------------------------
(* The theorems *)

\* The pointers agree with what was pushed and taken out, always.
THEOREM BdListInductive == Spec => []IInv
  BY InitIInv, StepIInv, PTL DEF Spec

\* The types of the pointers.
THEOREM BdListTypeOK == Spec => []TypeOK
<1>1. IInv => TypeOK
  BY DEF IInv
<1> QED BY <1>1, BdListInductive, PTL

\* head, tail, count and both chains agree in every list.
THEOREM BdListWellLinked == Spec => []WellLinked
<1>1. IInv => WellLinked
  BY DEF IInv
<1> QED BY <1>1, BdListInductive, PTL

\* The assertion of bd_remove_node holds of every node in the list.
THEOREM BdListFindsMembers == Spec => []FindsMembers
  BY FindsMembersHolds, BdListInductive, PTL

\* bd_pop_back delivers first what was pushed first, which is what lets Taurus
\* take its lists for sequences.
THEOREM BdListPopsOldest == Spec => PopsOldest
<1>1. ASSUME IInv, NEW l \in Lists, bd_pop_back(l)
      PROVE  returned' = IF order[l] = <<>> THEN NULL ELSE Head(order[l])
  <2>1. /\ order[l] \in Seq(Nodes) /\ Linked(l, order[l])
        /\ (order[l] = <<>> <=> tail[l] = NULL)
    BY <1>1, Ends
  <2> QED BY <2>1, <1>1 DEF bd_pop_back, Linked
<1>2. IInv => [\A l \in Lists : bd_pop_back(l) =>
                 returned' = IF order[l] = <<>> THEN NULL ELSE Head(order[l])]_vars
  BY <1>1
<1> QED BY <1>2, BdListInductive, PTL DEF PopsOldest
=============================================================================
