------------------------- MODULE AgentSessionsProofs -------------------------
(***************************************************************************)
(* Proofs about AgentSessions, for every set of connections, limit, window *)
(* and store size: what the full store evicts, what the rate limit admits, *)
(* and which session a turn runs in.                                       *)
(***************************************************************************)
EXTENDS AgentSessions, SequenceTheorems, FiniteSetTheorems, TLAPS

-----------------------------------------------------------------------------
(* Lists.                                                                  *)

\* Taking one element out moves the ones behind it up.
LEMMA RemoveAtElements ==
    ASSUME NEW S, NEW s \in Seq(S), NEW i \in 1..Len(s)
    PROVE  /\ RemoveAt(s, i) \in Seq(S) /\ Len(RemoveAt(s, i)) = Len(s) - 1
           /\ \A j \in 1..(Len(s) - 1) : RemoveAt(s, i)[j] = IF j < i THEN s[j] ELSE s[j + 1]
<1> DEFINE n == Len(s)
           a == SubSeq(s, 1, i - 1)
           b == SubSeq(s, i + 1, n)
<1>1. n \in Nat /\ i \in Int /\ 1 <= i /\ i <= n /\ \A j \in 1..n : s[j] \in S
  OBVIOUS
<1> HIDE DEF n
<1>2. \A j \in 1..(i - 1) : s[j] \in S
  BY <1>1
<1>3. \A j \in (i + 1)..n : s[j] \in S
  BY <1>1
<1>4. a \in Seq(S) /\ Len(a) = i - 1 /\ \A j \in 1..(i - 1) : a[j] = s[j]
  <2>1. /\ a \in Seq(S) /\ Len(a) = IF 1 <= i - 1 THEN (i - 1) - 1 + 1 ELSE 0
        /\ \A j \in 1..((i - 1) - 1 + 1) : a[j] = s[1 + j - 1]
    BY <1>1, <1>2, SubSeqProperties
  <2> HIDE DEF a
  <2> QED
    BY <2>1, <1>1
<1>5. b \in Seq(S) /\ Len(b) = n - i /\ \A j \in 1..(n - i) : b[j] = s[i + j]
  <2>1. /\ b \in Seq(S) /\ Len(b) = IF i + 1 <= n THEN n - (i + 1) + 1 ELSE 0
        /\ \A j \in 1..(n - (i + 1) + 1) : b[j] = s[(i + 1) + j - 1]
    BY <1>1, <1>3, SubSeqProperties
  <2> HIDE DEF b
  <2> QED
    BY <2>1, <1>1
<1>6. RemoveAt(s, i) = a \o b
  BY DEF RemoveAt, n
<1> HIDE DEF a, b
<1>7. /\ a \o b \in Seq(S) /\ Len(a \o b) = Len(a) + Len(b)
      /\ \A j \in 1..(Len(a) + Len(b)) : (a \o b)[j] = IF j <= Len(a) THEN a[j] ELSE b[j - Len(a)]
  BY <1>4, <1>5, ConcatProperties
<1>8. Len(a) + Len(b) = n - 1
  BY <1>1, <1>4, <1>5
<1>9. ASSUME NEW j \in 1..(n - 1)
      PROVE  (a \o b)[j] = IF j < i THEN s[j] ELSE s[j + 1]
  <2>1. CASE j < i
    BY <2>1, <1>1, <1>4, <1>7, <1>8
  <2>2. CASE ~(j < i)
    <3>1. j - (i - 1) \in 1..(n - i) /\ ~(j <= i - 1) /\ i + (j - (i - 1)) = j + 1
      BY <2>2, <1>1
    <3> QED
      BY <3>1, <2>2, <1>1, <1>4, <1>5, <1>7, <1>8
  <2> QED
    BY <2>1, <2>2
<1> QED
  BY <1>6, <1>7, <1>8, <1>9 DEF n

\* Putting one element in front moves all of them down.
LEMMA InFront ==
    ASSUME NEW S, NEW x \in S, NEW s \in Seq(S)
    PROVE  /\ <<x>> \o s \in Seq(S) /\ Len(<<x>> \o s) = Len(s) + 1
           /\ (<<x>> \o s)[1] = x
           /\ \A j \in 2..(Len(s) + 1) : (<<x>> \o s)[j] = s[j - 1]
<1>1. <<x>> \in Seq(S) /\ Len(<<x>>) = 1 /\ <<x>>[1] = x
  OBVIOUS
<1> DEFINE a == <<x>>
           n == Len(s)
<1>2. n \in Nat
  OBVIOUS
<1>3. /\ a \o s \in Seq(S) /\ Len(a \o s) = Len(a) + n
      /\ \A j \in 1..(Len(a) + n) : (a \o s)[j] = IF j <= Len(a) THEN a[j] ELSE s[j - Len(a)]
  BY <1>1, ConcatProperties
<1>4. a \in Seq(S) /\ Len(a) = 1 /\ a[1] = x
  BY <1>1
<1> HIDE DEF a, n
<1>5. /\ a \o s \in Seq(S) /\ Len(a \o s) = n + 1 /\ (a \o s)[1] = x
      /\ \A j \in 2..(n + 1) : (a \o s)[j] = s[j - 1]
  BY <1>2, <1>3, <1>4
<1> QED
  BY <1>5 DEF a, n

\* The front of a list is the list without its last element.
LEMMA FrontElements ==
    ASSUME NEW S, NEW s \in Seq(S), Len(s) > 0
    PROVE  /\ Front(s) \in Seq(S) /\ Len(Front(s)) = Len(s) - 1
           /\ \A j \in 1..(Len(s) - 1) : Front(s)[j] = s[j]
<1> DEFINE n == Len(s)
<1>1. n \in Nat \ {0} /\ \A j \in 1..(n - 1) : s[j] \in S
  OBVIOUS
<1> HIDE DEF n
<1>2. /\ SubSeq(s, 1, n - 1) \in Seq(S)
      /\ Len(SubSeq(s, 1, n - 1)) = IF 1 <= n - 1 THEN (n - 1) - 1 + 1 ELSE 0
      /\ \A j \in 1..((n - 1) - 1 + 1) : SubSeq(s, 1, n - 1)[j] = s[1 + j - 1]
  BY <1>1, SubSeqProperties
<1>3. Front(s) = SubSeq(s, 1, n - 1)
  BY DEF Front, n
<1>4. /\ Front(s) \in Seq(S) /\ Len(Front(s)) = n - 1
      /\ \A j \in 1..(n - 1) : Front(s)[j] = s[j]
  BY <1>1, <1>2, <1>3
<1> QED
  BY <1>4 DEF n

\* An order-preserving sublist: what a removal leaves.
Within(t, s) ==
    /\ Len(t) <= Len(s)
    /\ \A i \in 1..Len(t) : \E p \in 1..Len(s) : t[i] = s[p]
    /\ \A i, j \in 1..Len(t) :
          i < j => \E p, q \in 1..Len(s) : p < q /\ t[i] = s[p] /\ t[j] = s[q]

\* Removing one element leaves such a sublist, and only that element is gone.
LEMMA RemoveAtWithin ==
    ASSUME NEW S, NEW s \in Seq(S), NEW i \in 1..Len(s)
    PROVE  /\ Within(RemoveAt(s, i), s)
           /\ \A p \in 1..Len(s) : p # i => \E j \in 1..Len(RemoveAt(s, i)) : RemoveAt(s, i)[j] = s[p]
           /\ (\A p \in 1..Len(s) : s[p] = s[i] => p = i) =>
                 \A j \in 1..Len(RemoveAt(s, i)) : RemoveAt(s, i)[j] # s[i]
<1> DEFINE t == RemoveAt(s, i)
           n == Len(s)
           from(j) == IF j < i THEN j ELSE j + 1
<1>1. /\ n \in Nat /\ i \in 1..n /\ Len(t) = n - 1 /\ Len(s) = n
      /\ \A j \in 1..(n - 1) : t[j] = IF j < i THEN s[j] ELSE s[j + 1]
  <2>1. Len(s) \in Nat
    OBVIOUS
  <2> QED
    BY <2>1, RemoveAtElements, Zenon
<1> HIDE DEF t, n
<1>2. \A j \in 1..(n - 1) : from(j) \in 1..n /\ from(j) # i /\ t[j] = s[from(j)]
  BY <1>1
<1>3. \A j, k \in 1..(n - 1) : j < k => from(j) < from(k)
  BY <1>1
<1>4. ASSUME NEW p \in 1..n, p # i PROVE \E j \in 1..(n - 1) : t[j] = s[p]
  <2>1. CASE p < i
    BY <2>1, <1>1, <1>4
  <2>2. CASE p > i
    <3>1. p - 1 \in 1..(n - 1) /\ ~(p - 1 < i) /\ (p - 1) + 1 = p
      BY <2>2, <1>1, <1>4
    <3> QED
      BY <3>1, <1>1
  <2> QED
    BY <2>1, <2>2, <1>1, <1>4
<1>5. Within(t, s)
  <2>1. n - 1 <= n
    BY <1>1
  <2>2. \A j \in 1..(n - 1) : \E p \in 1..n : t[j] = s[p]
    BY <1>2
  <2>3. \A j, k \in 1..(n - 1) :
           j < k => \E p, q \in 1..n : p < q /\ t[j] = s[p] /\ t[k] = s[q]
    BY <1>2, <1>3
  <2> QED
    BY <2>1, <2>2, <2>3, <1>1 DEF Within
<1>6. ASSUME \A p \in 1..n : s[p] = s[i] => p = i, NEW j \in 1..(n - 1)
      PROVE  t[j] # s[i]
  BY <1>2, <1>6
<1> QED
  BY <1>1, <1>4, <1>5, <1>6 DEF t, n

\* The elements that stay keep their order.
LEMMA RemoveAtOrder ==
    ASSUME NEW S, NEW s \in Seq(S), NEW i \in 1..Len(s),
           NEW p \in 1..Len(s), NEW q \in 1..Len(s), p # i, q # i, p < q
    PROVE  \E j, l \in 1..Len(RemoveAt(s, i)) :
              j < l /\ RemoveAt(s, i)[j] = s[p] /\ RemoveAt(s, i)[l] = s[q]
<1> DEFINE t == RemoveAt(s, i)
           n == Len(s)
           at(x) == IF x < i THEN x ELSE x - 1
<1>1. n \in Nat /\ i \in 1..n /\ p \in 1..n /\ q \in 1..n
  OBVIOUS
<1>2. Len(t) = n - 1 /\ \A j \in 1..(n - 1) : t[j] = IF j < i THEN s[j] ELSE s[j + 1]
  BY RemoveAtElements, Zenon
<1> HIDE DEF t, n
<1>3. at(p) \in 1..(n - 1) /\ at(q) \in 1..(n - 1) /\ at(p) < at(q)
  BY <1>1
<1>4. ASSUME NEW x \in 1..n, x # i PROVE t[at(x)] = s[x]
  <2>1. CASE x < i
    BY <2>1, <1>1, <1>2
  <2>2. CASE ~(x < i)
    <3>1. x - 1 \in 1..(n - 1) /\ ~(x - 1 < i) /\ (x - 1) + 1 = x
      BY <2>2, <1>1, <1>4
    <3> QED
      BY <3>1, <2>2, <1>2
  <2> QED
    BY <2>1, <2>2
<1>5. t[at(p)] = s[p] /\ t[at(q)] = s[q]
  BY <1>1, <1>4
<1> QED
  BY <1>2, <1>3, <1>5 DEF t

-----------------------------------------------------------------------------
(* The LRU store and the order of use.                                     *)

Keys == Users \cup Nat
Item == [key : Keys, stamps : SUBSET Stamp, expires : Nat]

\* One entry per key.
Distinct == \A i, j \in 1..Len(store) : store[i].key = store[j].key => i = j

Before(a, b) == \E i, j \in 1..Len(recent) : i < j /\ recent[i] = a /\ recent[j] = b
Used(a) == \E i \in 1..Len(recent) : recent[i] = a

\* The list is in the order of last use.
OrderInv ==
    /\ \A i, j \in 1..Len(recent) : recent[i] = recent[j] => i = j
    /\ \A i \in 1..Len(store) : Used(store[i].key)
    /\ \A i, j \in 1..Len(store) : i < j => Before(store[i].key, store[j].key)

\* A use of k puts it before every other key and changes no other order.
LEMMA UseOrders ==
    ASSUME recent \in Seq(Keys), \A i, j \in 1..Len(recent) : recent[i] = recent[j] => i = j,
           NEW k \in Keys, Use(k)
    PROVE  /\ recent' \in Seq(Keys)
           /\ \A i, j \in 1..Len(recent') : recent'[i] = recent'[j] => i = j
           /\ \A a, b : a # k /\ b # k /\ Before(a, b) => Before(a, b)'
           /\ \A b : b # k /\ Used(b) => Before(k, b)'
           /\ \A b : Used(b) => Used(b)'
           /\ Used(k)'
<1> DEFINE I == {i \in 1..Len(recent) : recent[i] = k}
           R == RemoveFirst(recent, k)
<1>1. /\ R \in Seq(Keys)
      /\ \A i \in 1..Len(R) : R[i] # k
      /\ \A i, j \in 1..Len(R) : R[i] = R[j] => i = j
      /\ \A p, q \in 1..Len(recent) : (p < q /\ recent[p] # k /\ recent[q] # k) =>
            \E i, j \in 1..Len(R) : i < j /\ R[i] = recent[p] /\ R[j] = recent[q]
      /\ \A p \in 1..Len(recent) : recent[p] # k => \E i \in 1..Len(R) : R[i] = recent[p]
  <2>1. CASE I = {}
    <3>1. R = recent
      BY <2>1 DEF RemoveFirst
    <3> QED
      BY <3>1, <2>1
  <2>2. CASE I # {}
    <3>1. PICK i \in 1..Len(recent) : recent[i] = k /\ I = {i}
      BY <2>2
    <3>2. Min(I) = i
      <4>1. i <= i
        OBVIOUS
      <4> HIDE DEF I
      <4> QED
        BY <3>1, <4>1 DEF Min
    <3>3. R = RemoveAt(recent, i)
      BY <3>1, <3>2 DEF RemoveFirst, SelectInSeq
    <3> HIDE DEF I, R
    <3>4. R \in Seq(Keys)
      BY <3>3, RemoveAtElements
    <3>5. \A p \in 1..Len(recent) : recent[p] = recent[i] => p = i
      BY <3>1
    <3>6. \A j \in 1..Len(R) : R[j] # k
      BY <3>1, <3>3, <3>5, RemoveAtWithin
    <3>7. Within(R, recent)
      BY <3>3, RemoveAtWithin
    <3>8. ASSUME NEW a \in 1..Len(R), NEW b \in 1..Len(R), R[a] = R[b], a # b PROVE FALSE
      <4>1. a \in Int /\ b \in Int
        BY <3>4
      <4>2. \A x, y \in 1..Len(R) : x < y =>
               \E p, q \in 1..Len(recent) : p < q /\ R[x] = recent[p] /\ R[y] = recent[q]
        BY <3>7 DEF Within
      <4>3. \A p, q \in 1..Len(recent) : p < q => recent[p] # recent[q]
        OBVIOUS
      <4>4. \A x, y \in 1..Len(R) : x < y => R[x] # R[y]
        BY <4>2, <4>3
      <4> QED
        BY <3>8, <4>1, <4>4
    <3>9. \A p, q \in 1..Len(recent) : (p < q /\ recent[p] # k /\ recent[q] # k) =>
             \E a, b \in 1..Len(R) : a < b /\ R[a] = recent[p] /\ R[b] = recent[q]
      <4>1. i \in 1..Len(recent) /\ recent[i] = k /\ recent \in Seq(Keys)
        BY <3>1
      <4> SUFFICES ASSUME NEW p \in 1..Len(recent), NEW q \in 1..Len(recent),
                          p < q, recent[p] # k, recent[q] # k
                   PROVE  \E a, b \in 1..Len(R) : a < b /\ R[a] = recent[p] /\ R[b] = recent[q]
        OBVIOUS
      <4>2. p # i /\ q # i
        BY <4>1
      <4> QED
        BY <4>1, <4>2, <3>3, RemoveAtOrder
    <3>10. \A p \in 1..Len(recent) : recent[p] # k => \E a \in 1..Len(R) : R[a] = recent[p]
      <4>1. i \in 1..Len(recent) /\ recent[i] = k /\ recent \in Seq(Keys)
        BY <3>1
      <4>2. \A p \in 1..Len(recent) : p # i => \E a \in 1..Len(R) : R[a] = recent[p]
        BY <4>1, <3>3, RemoveAtWithin
      <4> QED
        BY <4>1, <4>2
    <3> QED
      BY <3>4, <3>6, <3>8, <3>9, <3>10
  <2> QED
    BY <2>1, <2>2
<1> DEFINE n == Len(R)
<1>2. /\ recent' \in Seq(Keys) /\ Len(recent') = n + 1 /\ recent'[1] = k
      /\ \A j \in 2..(n + 1) : recent'[j] = R[j - 1]
  <2>1. recent' = <<k>> \o R
    BY DEF Use
  <2> HIDE DEF R
  <2> QED
    BY <2>1, <1>1, InFront
<1>3. n \in Nat
  BY <1>1
<1> HIDE DEF R, n
<1>4. \A j \in 1..n : j + 1 \in 1..(n + 1) /\ recent'[j + 1] = R[j]
  BY <1>2, <1>3
<1>5. ASSUME NEW i \in 1..(n + 1), NEW j \in 1..(n + 1), recent'[i] = recent'[j] PROVE i = j
  <2>1. \A x \in 2..(n + 1) : x - 1 \in 1..n /\ recent'[x] = R[x - 1]
    BY <1>2, <1>3
  <2>2. \A x \in 2..(n + 1) : recent'[x] # k
    BY <2>1, <1>1 DEF n
  <2>3. CASE i = 1 \/ j = 1
    BY <2>2, <2>3, <1>2, <1>3, <1>5
  <2>4. CASE i # 1 /\ j # 1
    <3>1. i \in 2..(n + 1) /\ j \in 2..(n + 1)
      BY <2>4, <1>3
    <3>2. i - 1 = j - 1
      BY <3>1, <2>1, <1>1, <1>5 DEF n
    <3> QED
      BY <3>1, <3>2, <1>3
  <2> QED
    BY <2>3, <2>4
<1>6. ASSUME NEW a, NEW b, a # k, b # k, Before(a, b) PROVE Before(a, b)'
  <2>1. PICK p, q \in 1..Len(recent) : p < q /\ recent[p] = a /\ recent[q] = b
    BY <1>6 DEF Before
  <2>2. PICK i, j \in 1..n : i < j /\ R[i] = a /\ R[j] = b
    BY <2>1, <1>1, <1>6 DEF n
  <2>3. i + 1 \in 1..(n + 1) /\ j + 1 \in 1..(n + 1) /\ i + 1 < j + 1
    BY <2>2, <1>3
  <2> QED
    BY <2>2, <2>3, <1>2, <1>4 DEF Before
<1>7. ASSUME NEW b, b # k, Used(b) PROVE Before(k, b)' /\ Used(b)'
  <2>1. PICK p \in 1..Len(recent) : recent[p] = b
    BY <1>7 DEF Used
  <2>2. PICK i \in 1..n : R[i] = b
    BY <2>1, <1>1, <1>7 DEF n
  <2>3. 1 \in 1..(n + 1) /\ i + 1 \in 1..(n + 1) /\ 1 < i + 1
    BY <2>2, <1>3
  <2> QED
    BY <2>2, <2>3, <1>2, <1>4 DEF Before, Used
<1>8. Used(k)'
  BY <1>2, <1>3 DEF Used
<1> QED
  BY <1>2, <1>5, <1>6, <1>7, <1>8

\* What Others leaves: the list without the entry of k, in the same order.
LEMMA OthersList ==
    ASSUME store \in Seq(Item), Distinct, NEW k
    PROVE  /\ Others(k) \in Seq(Item) /\ Within(Others(k), store)
           /\ \A j \in 1..Len(Others(k)) : Others(k)[j].key # k
           /\ \A p \in 1..Len(store) : store[p].key # k =>
                 \E j \in 1..Len(Others(k)) : Others(k)[j] = store[p]
           /\ (\E p \in 1..Len(store) : store[p].key = k) => Len(Others(k)) = Len(store) - 1
           /\ (\A p \in 1..Len(store) : store[p].key # k) => Others(k) = store
<1> DEFINE I == {i \in 1..Len(store) : store[i].key = k}
<1>1. CASE I = {}
  <2>1. Others(k) = store
    BY <1>1 DEF Others, RemoveFirstMatch
  <2>2. Within(store, store)
    BY DEF Within
  <2> QED
    BY <2>1, <2>2, <1>1
<1>2. CASE I # {}
  <2>1. PICK i \in 1..Len(store) : store[i].key = k /\ I = {i}
    BY <1>2 DEF Distinct
  <2>2. Min(I) = i
    <3>1. i <= i
      OBVIOUS
    <3> HIDE DEF I
    <3> QED
      BY <2>1, <3>1 DEF Min
  <2>3. Others(k) = RemoveAt(store, i)
    BY <2>1, <2>2 DEF Others, RemoveFirstMatch, SelectInSeq
  <2>4. \A p \in 1..Len(store) : store[p] = store[i] => p = i
    BY DEF Distinct
  <2>5. \A p \in 1..Len(store) : store[p].key = k => p = i
    BY <2>1 DEF Distinct
  <2> HIDE DEF I
  <2>6. Others(k) \in Seq(Item) /\ Len(Others(k)) = Len(store) - 1
    BY <2>3, RemoveAtElements
  <2>7. Within(Others(k), store)
    BY <2>3, RemoveAtWithin
  <2>8. \A j \in 1..Len(Others(k)) : Others(k)[j] # store[i]
    BY <2>3, <2>4, RemoveAtWithin
  <2>9. \A j \in 1..Len(Others(k)) : Others(k)[j].key # k
    <3>1. \A j \in 1..Len(Others(k)) : \E p \in 1..Len(store) : Others(k)[j] = store[p]
      BY <2>7 DEF Within
    <3> QED
      BY <3>1, <2>5, <2>8
  <2>10. \A p \in 1..Len(store) : store[p].key # k =>
            \E j \in 1..Len(Others(k)) : Others(k)[j] = store[p]
    BY <2>1, <2>3, RemoveAtWithin
  <2> QED
    BY <2>1, <2>6, <2>7, <2>9, <2>10
<1> QED
  BY <1>1, <1>2

\* A set of one element as a sequence, and the empty one.
LEMMA SetToSeqOne == \A e : SetToSeq({e}) = <<e>>
<1> SUFFICES ASSUME NEW e PROVE SetToSeq({e}) = <<e>>
  OBVIOUS
<1>1. Cardinality({e}) = 1
  BY FS_Singleton
<1>2. <<e>> \in [1..1 -> {e}] /\ IsInjective(<<e>>)
  BY DEF IsInjective
<1>3. \A f \in [1..1 -> {e}] : f = <<e>>
  <2> SUFFICES ASSUME NEW f \in [1..1 -> {e}] PROVE f = <<e>>
    OBVIOUS
  <2>1. f = [i \in 1..1 |-> e]
    OBVIOUS
  <2>2. <<e>> = [i \in 1..1 |-> e]
    OBVIOUS
  <2> QED
    BY <2>1, <2>2
<1> QED
  BY <1>1, <1>2, <1>3 DEF SetToSeq

\* The empty set is the empty sequence.
LEMMA SetToSeqNone == SetToSeq({}) = <<>>
<1>1. Cardinality({}) = 0
  BY FS_EmptySet
<1>2. <<>> \in [1..0 -> {}] /\ IsInjective(<<>>)
  BY DEF IsInjective
<1>3. \A f \in [1..0 -> {}] : f = <<>>
  OBVIOUS
<1> QED
  BY <1>1, <1>2, <1>3 DEF SetToSeq

\* The entries of a key: at most one.
LEMMA EntryIs ==
    ASSUME store \in Seq(Item), Distinct, NEW k
    PROVE  \/ Entry(k) = {} /\ \A p \in 1..Len(store) : store[p].key # k
           \/ \E p \in 1..Len(store) : store[p].key = k /\ Entry(k) = {store[p]}
<1>1. DOMAIN store = 1..Len(store)
  OBVIOUS
<1> QED
  BY <1>1 DEF Entry, ToSet, Distinct

\* Get: nothing there, a stale entry dropped, or a hit moved to the front.
LEMMA StoreGetIs ==
    ASSUME store \in Seq(Item), Distinct, NEW k
    PROVE  \/ StoreGet(k) = Others(k) /\ \A p \in 1..Len(store) : store[p].key # k
           \/ /\ StoreGet(k) = Others(k)
              /\ \E p \in 1..Len(store) : store[p].key = k /\ Stale(store[p])
           \/ \E p \in 1..Len(store) :
                 /\ store[p].key = k /\ ~Stale(store[p])
                 /\ StoreGet(k) = <<store[p]>> \o Others(k)
<1>1. CASE Entry(k) = {} /\ \A p \in 1..Len(store) : store[p].key # k
  <2>1. StoreGet(k) = <<>> \o Others(k)
    BY <1>1, SetToSeqNone DEF StoreGet
  <2>2. <<>> \o Others(k) = Others(k)
    BY OthersList, ConcatEmptySeq
  <2> QED
    BY <2>1, <2>2, <1>1
<1>2. ASSUME NEW p \in 1..Len(store), store[p].key = k, Entry(k) = {store[p]}
      PROVE  \/ StoreGet(k) = Others(k) /\ Stale(store[p])
             \/ ~Stale(store[p]) /\ StoreGet(k) = <<store[p]>> \o Others(k)
  BY <1>2, SetToSeqOne DEF StoreGet
<1> QED
  BY <1>1, <1>2, EntryIs

NewItem(k, stamps) == [key |-> k, stamps |-> stamps, expires |-> now + Window]

\* Set: the new item in front of the others, or of all but the last when a new
\* key finds the store full.
LEMMA StoreSetIs ==
    ASSUME store \in Seq(Item), Distinct, NEW k, NEW stamps, Len(store) <= Capacity
    PROVE  \/ /\ StoreSet(k, stamps) = <<NewItem(k, stamps)>> \o Others(k)
              /\ Len(Others(k)) < Capacity
           \/ /\ StoreSet(k, stamps) = <<NewItem(k, stamps)>> \o Front(store)
              /\ Len(store) = Capacity /\ \A p \in 1..Len(store) : store[p].key # k
<1>1. Len(store) \in Nat /\ Capacity \in Nat \ {0}
  BY SessionConstants
<1>2. CASE Entry(k) = {} /\ \A p \in 1..Len(store) : store[p].key # k
  <2>1. Others(k) = store
    BY <1>2, OthersList
  <2>2. CASE Len(store) >= Capacity
    BY <1>1, <1>2, <2>2 DEF StoreSet, NewItem
  <2>3. CASE ~(Len(store) >= Capacity)
    <3>1. StoreSet(k, stamps) = <<NewItem(k, stamps)>> \o Others(k)
      BY <2>3 DEF StoreSet, NewItem
    <3> QED
      BY <3>1, <2>1, <2>3, <1>1
  <2> QED
    BY <2>2, <2>3
<1>3. ASSUME NEW p \in 1..Len(store), store[p].key = k, Entry(k) = {store[p]}
      PROVE  /\ StoreSet(k, stamps) = <<NewItem(k, stamps)>> \o Others(k)
             /\ Len(Others(k)) < Capacity
  <2>1. Len(Others(k)) = Len(store) - 1
    BY <1>3, OthersList
  <2>2. StoreSet(k, stamps) = <<NewItem(k, stamps)>> \o Others(k)
    BY <1>3 DEF StoreSet, NewItem
  <2> QED
    BY <2>1, <2>2, <1>1
<1> QED
  BY <1>2, <1>3, EntryIs

\* A use of k leaves the others in their order, with or without an entry of k
\* in front: the list stays in the order of use.
LEMMA ListStep ==
    ASSUME store \in Seq(Item), Distinct, OrderInv, recent \in Seq(Keys), NEW k \in Keys, Use(k),
           NEW R \in Seq(Item), Within(R, store), \A j \in 1..Len(R) : R[j].key # k,
           store' = R \/ \E x \in Item : x.key = k /\ store' = <<x>> \o R
    PROVE  store' \in Seq(Item) /\ Distinct' /\ OrderInv' /\ recent' \in Seq(Keys)
<1>1. /\ recent' \in Seq(Keys)
      /\ \A i, j \in 1..Len(recent') : recent'[i] = recent'[j] => i = j
      /\ \A a, b : a # k /\ b # k /\ Before(a, b) => Before(a, b)'
      /\ \A b : b # k /\ Used(b) => Before(k, b)'
      /\ \A b : Used(b) => Used(b)'
      /\ Used(k)'
  BY UseOrders DEF OrderInv
<1>2. \A j \in 1..Len(R) : Used(R[j].key)
  BY DEF Within, OrderInv
<1>3. \A i, j \in 1..Len(R) : i < j => R[i].key # R[j].key /\ Before(R[i].key, R[j].key)
  <2> SUFFICES ASSUME NEW i \in 1..Len(R), NEW j \in 1..Len(R), i < j
               PROVE  R[i].key # R[j].key /\ Before(R[i].key, R[j].key)
    OBVIOUS
  <2>1. PICK p, q \in 1..Len(store) : p < q /\ R[i] = store[p] /\ R[j] = store[q]
    BY DEF Within
  <2>2. p # q
    BY <2>1
  <2> QED
    BY <2>1, <2>2 DEF Distinct, OrderInv
<1>4. \A i, j \in 1..Len(R) : i < j => Before(R[i].key, R[j].key)'
  <2> SUFFICES ASSUME NEW i \in 1..Len(R), NEW j \in 1..Len(R), i < j
               PROVE  Before(R[i].key, R[j].key)'
    OBVIOUS
  <2> QED
    BY <1>1, <1>3
<1>5. CASE store' = R
  <2>1. Distinct'
    <3>1. \A i, j \in 1..Len(R) : i < j \/ j < i \/ i = j
      OBVIOUS
    <3> QED
      BY <3>1, <1>3, <1>5 DEF Distinct
  <2>2. OrderInv'
    BY <1>1, <1>2, <1>4, <1>5 DEF OrderInv
  <2> QED
    BY <2>1, <2>2, <1>1, <1>5
<1>6. ASSUME NEW x \in Item, x.key = k, store' = <<x>> \o R
      PROVE  store' \in Seq(Item) /\ Distinct' /\ OrderInv'
  <2> DEFINE n == Len(R)
  <2>1. /\ store' \in Seq(Item) /\ Len(store') = n + 1 /\ store'[1] = x
        /\ \A j \in 2..(n + 1) : store'[j] = R[j - 1]
    BY <1>6, InFront
  <2>2. n \in Nat
    OBVIOUS
  <2>3. \A j \in 1..n : R[j].key # k /\ Used(R[j].key)'
    BY <1>1, <1>2
  <2>4. \A i, j \in 1..n : i < j => R[i].key # R[j].key /\ Before(R[i].key, R[j].key)'
    BY <1>3, <1>4
  <2> HIDE DEF n
  <2>5. \A i \in 1..(n + 1) : i = 1 \/ (i - 1 \in 1..n /\ store'[i] = R[i - 1])
    <3>1. \A i \in 1..(n + 1) : i = 1 \/ (i \in 2..(n + 1) /\ i - 1 \in 1..n)
      BY <2>2
    <3> QED
      BY <3>1, <2>1
  <2>6. \A i, j \in 1..(n + 1) : i < j => i - 1 < j - 1 /\ j # 1
    BY <2>2
  <2>7. ASSUME NEW i \in 1..(n + 1), NEW j \in 1..(n + 1), i < j
        PROVE  store'[i].key # store'[j].key /\ Before(store[i].key, store[j].key)'
    <3>1. j - 1 \in 1..n /\ store'[j] = R[j - 1] /\ i - 1 < j - 1
      BY <2>5, <2>6, <2>7
    <3>2. CASE i = 1
      <4>1. store'[i].key = k /\ store'[j].key # k
        BY <3>1, <3>2, <2>1, <2>3, <1>6
      <4>2. Used(R[j - 1].key)
        BY <3>1, <1>2 DEF n
      <4> QED
        BY <4>1, <4>2, <3>1, <1>1
    <3>3. CASE i # 1
      <4>1. i - 1 \in 1..n /\ store'[i] = R[i - 1]
        BY <3>3, <2>5
      <4> QED
        BY <4>1, <3>1, <2>4
    <3> QED
      BY <3>2, <3>3
  <2>8. \A i \in 1..(n + 1) : Used(store[i].key)'
    BY <2>1, <2>3, <2>5, <1>1, <1>6
  <2>9. \A i, j \in 1..(n + 1) : i < j \/ j < i \/ i = j
    BY <2>2
  <2>10. Distinct'
    BY <2>1, <2>7, <2>9 DEF Distinct
  <2>11. OrderInv'
    BY <2>1, <2>7, <2>8, <1>1 DEF OrderInv
  <2> QED
    BY <2>1, <2>10, <2>11
<1> QED
  BY <1>1, <1>5, <1>6

-----------------------------------------------------------------------------
(* The inductive invariant.                                                *)

SessionMap == UNION {[S -> Nat] : S \in SUBSET Nat}
ConnState ==
    [pc : {"idle", "read", "write", "run"}, open : BOOLEAN, id : Nat, sess : Nat,
     valid : SUBSET Stamp, began : Nat, lapsed : BOOLEAN]
Tag == [key : Keys, at : Nat, n : Nat]
TagOf(k, s) == [key |-> k, at |-> s.at, n |-> s.n]

ShapeInv ==
    /\ scope \in Scopes /\ now \in 0..MaxTime /\ created \in 0..MaxSessions /\ turns \in 0..MaxTurns
    /\ managers \in [Conns -> SessionMap] /\ conn \in [Conns -> ConnState]
    /\ \A c \in Conns : /\ DOMAIN managers[c] \subseteq 1..created
                        /\ conn[c].id \in 0..created /\ conn[c].sess \in 0..created

\* The store is a bounded list with one entry per key, in the order of use.
ListInv ==
    /\ store \in Seq(Item) /\ recent \in Seq(Keys)
    /\ Len(store) <= Capacity /\ Distinct /\ OrderInv

\* Stamps kept for key k: those still in the window are of admitted turns.
StampsOf(k, stamps) ==
    /\ IsFiniteSet(stamps)
    /\ \A s \in stamps : s.at <= now /\ (s.at > now - Window => TagOf(k, s) \in admitted)

\* An entry never holds more than Limit stamps and outlives all of them; so a
\* stale entry holds no stamp that still counts.
StampInv ==
    /\ \A i \in 1..Len(store) :
          /\ StampsOf(store[i].key, store[i].stamps)
          /\ Cardinality(store[i].stamps) \in 1..Limit
          /\ \A s \in store[i].stamps : s.at + Window <= store[i].expires
    /\ \A c \in Conns : conn[c].pc = "write" => StampsOf(Key(c), conn[c].valid)

\* A turn admitted within the window is in the store, or counted as lost.
Covered(x) ==
    \/ x \in lost
    \/ \E i \in 1..Len(store) :
          store[i].key = x.key /\ [at |-> x.at, n |-> x.n] \in store[i].stamps

CountInv ==
    /\ admitted \in SUBSET Tag /\ IsFiniteSet(admitted) /\ lost \subseteq admitted
    /\ \A x \in admitted : x.at > now - Window => Covered(x)

\* Until a pause is too long, the session on the connection's context lives, was
\* last touched when the last turn began, and is the session of the turn.
SessInv ==
    \A c \in Conns : (conn[c].open /\ ~conn[c].lapsed) =>
        /\ conn[c].id \in DOMAIN managers[c] /\ managers[c][conn[c].id] = conn[c].began
        /\ conn[c].pc # "idle" => conn[c].sess = conn[c].id

SInv == ShapeInv /\ ListInv /\ StampInv /\ CountInv /\ SessInv

\* The key of a check: a user or a session.
LEMMA KeyType == ASSUME ShapeInv, NEW c \in Conns PROVE Key(c) \in Keys
<1>1. UserOf[c] \in Users
  BY SessionConstants
<1>2. conn[c].sess \in Nat
  BY DEF ShapeInv, ConnState
<1> QED
  BY <1>1, <1>2 DEF Key, Keys

\* The connection and its worker outside a check leave the rate limit alone.
LEMMA RateKept ==
    ASSUME ListInv, StampInv, CountInv, UNCHANGED <<rateVars, now, scope>>,
           \A c \in Conns : conn'[c].pc = "write" =>
              /\ conn[c].pc = "write" /\ conn'[c].valid = conn[c].valid
              /\ conn'[c].sess = conn[c].sess
    PROVE  ListInv' /\ StampInv' /\ CountInv'
<1>1. store' = store /\ admitted' = admitted /\ lost' = lost /\ recent' = recent
      /\ now' = now /\ scope' = scope
  BY DEF rateVars
<1>2. ListInv'
  <2>1. Distinct' = Distinct /\ \A a, b : Before(a, b)' = Before(a, b)
    BY <1>1 DEF Distinct, Before
  <2>2. \A a : Used(a)' = Used(a)
    BY <1>1 DEF Used
  <2>3. OrderInv'
    BY <1>1, <2>1, <2>2 DEF ListInv, OrderInv
  <2> QED
    BY <1>1, <2>1, <2>3 DEF ListInv
<1>3. CountInv'
  BY <1>1 DEF CountInv, Covered
<1>4. StampInv'
  <2>1. \A k, st : StampsOf(k, st)' = StampsOf(k, st)
    BY <1>1 DEF StampsOf
  <2>2. ASSUME NEW c \in Conns, conn'[c].pc = "write"
        PROVE  StampsOf(Key(c), conn[c].valid)'
    <3>1. Key(c)' = Key(c) /\ conn'[c].valid = conn[c].valid /\ conn[c].pc = "write"
      BY <2>2, <1>1 DEF Key
    <3>2. StampsOf(Key(c), conn[c].valid)
      BY <3>1 DEF StampInv
    <3> QED
      BY <3>1, <3>2, <1>1 DEF StampsOf
  <2>3. ASSUME NEW i \in 1..Len(store')
        PROVE  /\ StampsOf(store[i].key, store[i].stamps)'
               /\ Cardinality(store'[i].stamps) \in 1..Limit
               /\ \A s \in store'[i].stamps : s.at + Window <= store'[i].expires
    BY <1>1 DEF StampInv, StampsOf
  <2> QED
    BY <2>2, <2>3 DEF StampInv
<1> QED
  BY <1>2, <1>3, <1>4

\* Registering a session, dropping one and touching one give session maps.
LEMMA SessionMaps ==
    ASSUME NEW m \in SessionMap, NEW i \in Nat, now \in Nat
    PROVE  /\ New(m, i) \in SessionMap /\ i \in DOMAIN New(m, i) /\ New(m, i)[i] = now
           /\ DOMAIN New(m, i) \subseteq DOMAIN m \cup {i}
           /\ Without(m, i) \in SessionMap /\ DOMAIN Without(m, i) = DOMAIN m \ {i}
           /\ Get(m, i) \in SessionMap /\ DOMAIN Get(m, i) \subseteq DOMAIN m
           /\ (i \in DOMAIN m /\ ~expired(m[i])) => i \in DOMAIN Get(m, i) /\ Get(m, i)[i] = now
<1>1. PICK S \in SUBSET Nat : m \in [S -> Nat]
  BY DEF SessionMap
<1>2. ASSUME NEW T \in SUBSET Nat, NEW f \in [T -> Nat] PROVE f \in SessionMap
  BY DEF SessionMap
<1>3. /\ New(m, i) \in SessionMap /\ i \in DOMAIN New(m, i) /\ New(m, i)[i] = now
      /\ DOMAIN New(m, i) \subseteq DOMAIN m \cup {i}
  <2> DEFINE T == {x \in DOMAIN m : ~expired(m[x])} \cup {i}
  <2>1. T \in SUBSET Nat /\ New(m, i) \in [T -> Nat]
    BY <1>1 DEF New
  <2>2. New(m, i) \in SessionMap
    BY <2>1, <1>2
  <2> QED
    BY <2>1, <2>2 DEF New
<1>4. Without(m, i) \in SessionMap /\ DOMAIN Without(m, i) = DOMAIN m \ {i}
  <2>1. DOMAIN m \ {i} \in SUBSET Nat /\ Without(m, i) \in [DOMAIN m \ {i} -> Nat]
    BY <1>1 DEF Without
  <2> QED
    BY <2>1, <1>2
<1>5. [m EXCEPT ![i] = now] \in SessionMap
  BY <1>1, <1>2
<1>6. Get(m, i) \in SessionMap /\ DOMAIN Get(m, i) \subseteq DOMAIN m
  BY <1>1, <1>4, <1>5 DEF Get
<1>7. (i \in DOMAIN m /\ ~expired(m[i])) => i \in DOMAIN Get(m, i) /\ Get(m, i)[i] = now
  BY <1>1 DEF Get
<1> QED
  BY <1>3, <1>4, <1>6, <1>7

\* The empty map.
LEMMA NoSessions == <<>> \in SessionMap /\ DOMAIN <<>> = {}
<1>1. <<>> \in [{} -> Nat]
  OBVIOUS
<1> QED
  BY <1>1 DEF SessionMap

-----------------------------------------------------------------------------
(* The steps of a connection.                                              *)

\* One connection moves to state v, with its sessions.
LEMMA MoveConn ==
    ASSUME ShapeInv, SessInv, NEW c \in Conns, NEW v \in ConnState,
           conn' = [conn EXCEPT ![c] = v], managers' \in [Conns -> SessionMap],
           \A d \in Conns \ {c} : managers'[d] = managers[d],
           scope' = scope, now' = now, created' \in created..MaxSessions, turns' \in 0..MaxTurns,
           DOMAIN managers'[c] \subseteq 1..created', v.id \in 0..created', v.sess \in 0..created',
           (v.open /\ ~v.lapsed) => /\ v.id \in DOMAIN managers'[c] /\ managers'[c][v.id] = v.began
                                    /\ v.pc # "idle" => v.sess = v.id
    PROVE  /\ ShapeInv' /\ SessInv' /\ conn'[c] = v
           /\ \A d \in Conns \ {c} : conn'[d] = conn[d]
<1>1. /\ conn \in [Conns -> ConnState] /\ managers \in [Conns -> SessionMap]
      /\ created \in 0..MaxSessions /\ MaxSessions \in Nat
  BY SessionConstants DEF ShapeInv
<1>2. /\ conn' \in [Conns -> ConnState] /\ managers' \in [Conns -> SessionMap]
      /\ conn'[c] = v
      /\ \A d \in Conns \ {c} : conn'[d] = conn[d] /\ managers'[d] = managers[d]
  BY <1>1
<1>3. created' \in 0..MaxSessions /\ 1..created \subseteq 1..created' /\ 0..created \subseteq 0..created'
  BY <1>1
<1>4. ShapeInv'
  <2>1. ASSUME NEW d \in Conns
        PROVE  /\ DOMAIN managers'[d] \subseteq 1..created'
               /\ conn'[d].id \in 0..created' /\ conn'[d].sess \in 0..created'
    <3>1. CASE d = c
      BY <3>1, <1>2
    <3>2. CASE d # c
      BY <3>2, <1>2, <1>3 DEF ShapeInv
    <3> QED
      BY <3>1, <3>2
  <2> QED
    BY <2>1, <1>2, <1>3 DEF ShapeInv
<1>5. SessInv'
  <2> SUFFICES ASSUME NEW d \in Conns, conn'[d].open, ~conn'[d].lapsed
               PROVE  /\ conn'[d].id \in DOMAIN managers'[d]
                      /\ managers'[d][conn'[d].id] = conn'[d].began
                      /\ conn'[d].pc # "idle" => conn'[d].sess = conn'[d].id
    BY DEF SessInv
  <2>1. CASE d = c
    BY <2>1, <1>2
  <2>2. CASE d # c
    BY <2>2, <1>2 DEF SessInv
  <2> QED
    BY <2>1, <2>2
<1> QED
  BY <1>2, <1>4, <1>5

\* The field types of a connection.
LEMMA ConnFields ==
    ASSUME ShapeInv, NEW c \in Conns
    PROVE  /\ conn[c] \in ConnState
           /\ conn[c].pc \in {"idle", "read", "write", "run"} /\ conn[c].open \in BOOLEAN
           /\ conn[c].id \in Nat /\ conn[c].sess \in Nat /\ conn[c].began \in Nat
           /\ conn[c].valid \in SUBSET Stamp /\ conn[c].lapsed \in BOOLEAN
           /\ managers[c] \in SessionMap /\ now \in Nat /\ created \in Nat
           /\ created <= MaxSessions /\ turns \in Nat /\ MaxTurns \in Nat /\ MaxSessions \in Nat
BY SessionConstants DEF ShapeInv, ConnState

\* Connecting: a new session, just touched.
LEMMA ConnectStep ==
    ASSUME SInv, NEW c \in Conns, Connect(c)
    PROVE  SInv'
<1> DEFINE i == created + 1
           v == [Closed EXCEPT !.open = TRUE, !.id = i, !.began = now]
           m == New(<<>>, i)
<1>1. /\ created < MaxSessions /\ created' = i /\ UNCHANGED <<scope, now, turns, rateVars>>
      /\ managers' = [managers EXCEPT ![c] = m] /\ conn' = [conn EXCEPT ![c] = v]
  BY DEF Connect
<1>2. now \in Nat /\ created \in Nat /\ turns \in 0..MaxTurns /\ MaxSessions \in Nat
  BY ConnFields DEF SInv, ShapeInv
<1>3. i \in Nat /\ i \in 1..i /\ i \in 0..i /\ 0 \in 0..i /\ i \in created..MaxSessions
  BY <1>1, <1>2
<1>4. /\ m \in SessionMap /\ DOMAIN m \subseteq {i} /\ i \in DOMAIN m /\ m[i] = now
  BY <1>2, <1>3, NoSessions, SessionMaps
<1>5. v \in ConnState /\ v.id = i /\ v.sess = 0 /\ v.began = now /\ v.pc = "idle"
  BY <1>2, <1>3 DEF Closed, ConnState
<1>M. /\ managers' \in [Conns -> SessionMap] /\ managers'[c] = m
      /\ \A d \in Conns \ {c} : managers'[d] = managers[d]
  BY <1>1, <1>4 DEF SInv, ShapeInv
<1> HIDE DEF v, m, i
<1>6. ShapeInv' /\ SessInv' /\ conn'[c] = v /\ \A d \in Conns \ {c} : conn'[d] = conn[d]
  <2>1. /\ ShapeInv /\ SessInv /\ v \in ConnState /\ conn' = [conn EXCEPT ![c] = v]
        /\ scope' = scope /\ now' = now
    BY <1>1, <1>5 DEF SInv
  <2>2. /\ created' \in created..MaxSessions /\ turns' \in 0..MaxTurns
        /\ DOMAIN managers'[c] \subseteq 1..created' /\ v.id \in 0..created' /\ v.sess \in 0..created'
    BY <1>1, <1>2, <1>3, <1>4, <1>5, <1>M
  <2>3. v.id \in DOMAIN managers'[c] /\ managers'[c][v.id] = v.began /\ v.pc = "idle"
    BY <1>4, <1>5, <1>M
  <2> QED
    BY <2>1, <2>2, <2>3, <1>M, MoveConn
<1>7. ListInv' /\ StampInv' /\ CountInv'
  BY <1>1, <1>5, <1>6, RateKept DEF SInv
<1> QED
  BY <1>6, <1>7 DEF SInv

\* Starting a turn: in the session on the context while it lives.
LEMMA StartStep ==
    ASSUME SInv, NEW c \in Conns, StartTurn(c)
    PROVE  SInv'
<1> DEFINE id == conn[c].id
           sessions == Get(managers[c], id)
           found == id \in DOMAIN sessions
           m == IF found THEN sessions ELSE New(sessions, created + 1)
           sess == IF found THEN id ELSE created + 1
           lapsed == conn[c].lapsed \/ now - conn[c].began > SessionTTL
           v == [conn[c] EXCEPT !.pc = "read", !.sess = sess, !.began = now, !.lapsed = lapsed]
<1>t. /\ conn[c] \in ConnState /\ managers[c] \in SessionMap /\ now \in Nat /\ created \in Nat
      /\ id \in Nat /\ conn[c].began \in Nat /\ created <= MaxSessions /\ turns \in Nat
      /\ MaxTurns \in Nat /\ MaxSessions \in Nat /\ conn[c].open \in BOOLEAN
      /\ conn \in [Conns -> ConnState] /\ SessionTTL \in Nat
      /\ id \in 0..created /\ DOMAIN managers[c] \subseteq 1..created
  BY ConnFields, SessionConstants DEF SInv, ShapeInv
<1>1. /\ conn[c].open /\ turns < MaxTurns /\ (found \/ created < MaxSessions)
      /\ turns' = turns + 1 /\ created' = IF found THEN created ELSE created + 1
      /\ managers' = [managers EXCEPT ![c] = m] /\ UNCHANGED <<scope, now, rateVars>>
  BY DEF StartTurn
<1>2. conn' = [conn EXCEPT ![c] = v]
  BY <1>t DEF StartTurn
<1>3. sessions \in SessionMap /\ DOMAIN sessions \subseteq DOMAIN managers[c]
  BY <1>t, SessionMaps
<1>4. (id \in DOMAIN managers[c] /\ ~expired(managers[c][id])) => found /\ sessions[id] = now
  BY <1>t, SessionMaps
<1> HIDE DEF sessions
<1>5. /\ m \in SessionMap /\ DOMAIN m \subseteq 1..created' /\ sess \in 0..created'
      /\ created' \in created..MaxSessions /\ turns' \in 0..MaxTurns /\ id \in 0..created'
  <2>1. CASE found
    BY <2>1, <1>t, <1>1, <1>3
  <2>2. CASE ~found
    <3>1. created + 1 \in Nat
      BY <1>t
    <3>2. /\ New(sessions, created + 1) \in SessionMap
          /\ DOMAIN New(sessions, created + 1) \subseteq DOMAIN sessions \cup {created + 1}
      BY <3>1, <1>t, <1>3, SessionMaps
    <3> QED
      BY <2>2, <3>2, <1>t, <1>1, <1>3
  <2> QED
    BY <2>1, <2>2
<1>6. lapsed \in BOOLEAN
  OBVIOUS
<1> HIDE DEF lapsed
<1>7. /\ v \in ConnState /\ v.id = id /\ v.sess = sess /\ v.began = now /\ v.pc = "read"
      /\ v.lapsed = lapsed
  <2>1. sess \in Nat
    BY <1>t
  <2> QED
    BY <2>1, <1>6, <1>t DEF ConnState
<1>8. ~lapsed => v.id \in DOMAIN m /\ m[v.id] = v.began /\ v.sess = v.id
  <2> SUFFICES ASSUME ~lapsed PROVE found /\ sessions[id] = now
    BY <1>7
  <2>1. ~conn[c].lapsed /\ ~(now - conn[c].began > SessionTTL)
    BY DEF lapsed
  <2>2. id \in DOMAIN managers[c] /\ managers[c][id] = conn[c].began
    BY <2>1, <1>1 DEF SInv, SessInv
  <2>3. ~expired(managers[c][id])
    BY <2>1, <2>2 DEF expired
  <2> QED
    BY <2>2, <2>3, <1>4
<1>M. /\ managers' \in [Conns -> SessionMap] /\ managers'[c] = m
      /\ \A d \in Conns \ {c} : managers'[d] = managers[d]
  BY <1>1, <1>5 DEF SInv, ShapeInv
<1> HIDE DEF v, m, sess, id
<1>9. ShapeInv' /\ SessInv' /\ conn'[c] = v /\ \A d \in Conns \ {c} : conn'[d] = conn[d]
  BY <1>1, <1>2, <1>5, <1>7, <1>8, <1>M, MoveConn DEF SInv
<1>10. ListInv' /\ StampInv' /\ CountInv'
  BY <1>1, <1>7, <1>9, RateKept DEF SInv
<1> QED
  BY <1>9, <1>10 DEF SInv

\* Closing the connection: the context and its session go, the worker's turn stays.
LEMMA CloseStep ==
    ASSUME SInv, NEW c \in Conns, Close(c)
    PROVE  SInv'
<1> DEFINE v == [conn[c] EXCEPT !.open = FALSE, !.id = 0, !.began = 0, !.lapsed = FALSE]
           m == Without(managers[c], conn[c].id)
<1>t. /\ conn[c] \in ConnState /\ managers[c] \in SessionMap /\ now \in Nat /\ created \in Nat
      /\ conn[c].id \in Nat /\ conn \in [Conns -> ConnState] /\ managers \in [Conns -> SessionMap]
      /\ turns \in 0..MaxTurns /\ created <= MaxSessions /\ MaxSessions \in Nat
      /\ conn[c].sess \in 0..created /\ DOMAIN managers[c] \subseteq 1..created
  BY ConnFields DEF SInv, ShapeInv
<1>1. /\ conn' = [conn EXCEPT ![c] = v] /\ managers' = [managers EXCEPT ![c] = m]
      /\ UNCHANGED <<scope, now, created, turns, rateVars>>
  BY <1>t DEF Close
<1>2. m \in SessionMap /\ DOMAIN m \subseteq 1..created
  <2>1. m \in SessionMap /\ DOMAIN m = DOMAIN managers[c] \ {conn[c].id}
    BY <1>t, SessionMaps
  <2> QED
    BY <2>1, <1>t
<1>3. /\ v \in ConnState /\ v.id = 0 /\ v.sess = conn[c].sess /\ v.pc = conn[c].pc
      /\ v.valid = conn[c].valid
  BY <1>t DEF ConnState
<1>4. ~v.open
  BY <1>t DEF ConnState
<1>5. created' \in created..MaxSessions /\ 0 \in 0..created
  BY <1>t, <1>1
<1>M. /\ managers' \in [Conns -> SessionMap] /\ managers'[c] = m
      /\ \A d \in Conns \ {c} : managers'[d] = managers[d]
  BY <1>1, <1>2 DEF SInv, ShapeInv
<1> HIDE DEF v, m
<1>6. ShapeInv' /\ SessInv' /\ conn'[c] = v /\ \A d \in Conns \ {c} : conn'[d] = conn[d]
  BY <1>t, <1>1, <1>2, <1>3, <1>4, <1>5, <1>M, MoveConn DEF SInv
<1>7. ListInv' /\ StampInv' /\ CountInv'
  BY <1>1, <1>3, <1>6, RateKept DEF SInv
<1> QED
  BY <1>6, <1>7 DEF SInv

\* A worker moves on: to the check's second half, to its run or back to idle.
LEMMA WorkerMove ==
    ASSUME ShapeInv, SessInv, NEW c \in Conns, NEW next \in {"idle", "write", "run"},
           NEW s \in {0, conn[c].sess}, NEW valid \in SUBSET Stamp,
           next # "idle" => s = conn[c].sess /\ conn[c].pc # "idle",
           conn' = [conn EXCEPT ![c] = [@ EXCEPT !.pc = next, !.sess = s, !.valid = valid]],
           UNCHANGED <<scope, now, created, turns, managers>>
    PROVE  /\ ShapeInv' /\ SessInv'
           /\ conn'[c].pc = next /\ conn'[c].sess = s /\ conn'[c].valid = valid
           /\ \A d \in Conns \ {c} : conn'[d] = conn[d]
<1> DEFINE v == [conn[c] EXCEPT !.pc = next, !.sess = s, !.valid = valid]
<1>t. /\ conn[c] \in ConnState /\ managers[c] \in SessionMap /\ now \in Nat /\ created \in Nat
      /\ conn[c].id \in 0..created /\ conn \in [Conns -> ConnState]
      /\ managers \in [Conns -> SessionMap] /\ conn[c].sess \in Nat
      /\ turns \in 0..MaxTurns /\ created <= MaxSessions /\ MaxSessions \in Nat
      /\ conn[c].sess \in 0..created /\ DOMAIN managers[c] \subseteq 1..created
  BY ConnFields DEF ShapeInv
<1>1. conn' = [conn EXCEPT ![c] = v] /\ managers' \in [Conns -> SessionMap]
  BY <1>t
<1>2. /\ v \in ConnState /\ v.id = conn[c].id /\ v.sess = s /\ v.pc = next /\ v.valid = valid
      /\ v.began = conn[c].began /\ s \in 0..created
  <2>1. s \in Nat /\ s \in 0..created
    BY <1>t
  <2> QED
    BY <2>1, <1>t DEF ConnState
<1>3. v.open = conn[c].open /\ v.lapsed = conn[c].lapsed
  BY <1>t DEF ConnState
<1>4. created' \in created..MaxSessions /\ turns' \in 0..MaxTurns
  BY <1>t
<1>5. (v.open /\ ~v.lapsed) => /\ v.id \in DOMAIN managers'[c] /\ managers'[c][v.id] = v.began
                               /\ v.pc # "idle" => v.sess = v.id
  BY <1>2, <1>3 DEF SessInv
<1>6. /\ DOMAIN managers'[c] \subseteq 1..created' /\ v.id \in 0..created' /\ v.sess \in 0..created'
      /\ scope' = scope /\ now' = now
  BY <1>t, <1>2
<1> HIDE DEF v
<1>7. ShapeInv' /\ SessInv' /\ conn'[c] = v /\ \A d \in Conns \ {c} : conn'[d] = conn[d]
  BY <1>1, <1>2, <1>4, <1>5, <1>6, MoveConn
<1> QED
  BY <1>2, <1>7

\* A finished turn, and a refused one.
LEMMA EndStep ==
    ASSUME SInv, NEW c \in Conns, EndTurn(c) \/ Refuse(c)
    PROVE  SInv'
<1>t. conn \in [Conns -> ConnState] /\ conn[c] \in ConnState /\ conn[c].valid \in SUBSET Stamp
  BY ConnFields DEF SInv, ShapeInv
<1>1. PICK valid \in {{}, conn[c].valid} :
         conn' = [conn EXCEPT ![c] = [@ EXCEPT !.pc = "idle", !.sess = 0, !.valid = valid]]
  <2>1. CASE EndTurn(c)
    <3>1. conn' = [conn EXCEPT ![c] = [@ EXCEPT !.pc = "idle", !.sess = 0, !.valid = conn[c].valid]]
      BY <2>1, <1>t DEF EndTurn, ConnState
    <3> QED
      BY <3>1
  <2>2. CASE Refuse(c)
    <3>1. conn' = [conn EXCEPT ![c] = [@ EXCEPT !.pc = "idle", !.sess = 0, !.valid = {}]]
      BY <2>2, <1>t DEF Refuse, ConnState
    <3> QED
      BY <3>1
  <2> QED
    BY <2>1, <2>2
<1>2. UNCHANGED <<scope, now, created, turns, rateVars, managers>>
  BY DEF EndTurn, Refuse
<1>3. ShapeInv' /\ SessInv' /\ conn'[c].pc = "idle" /\ \A d \in Conns \ {c} : conn'[d] = conn[d]
  <2>1. ShapeInv /\ SessInv /\ valid \in SUBSET Stamp
    BY <1>t DEF SInv
  <2>2. UNCHANGED <<scope, now, created, turns, managers>>
    BY <1>2
  <2> QED
    BY <2>1, <2>2, <1>1, WorkerMove
<1>4. ListInv' /\ StampInv' /\ CountInv'
  BY <1>2, <1>3, RateKept DEF SInv
<1> QED
  BY <1>3, <1>4 DEF SInv

-----------------------------------------------------------------------------
(* Time, and the two halves of a rate-limit check.                         *)

\* The field types of an entry.
LEMMA ItemFields ==
    ASSUME ListInv, NEW i \in 1..Len(store)
    PROVE  /\ store[i] \in Item /\ store[i].key \in Keys
           /\ store[i].stamps \in SUBSET Stamp /\ store[i].expires \in Nat
<1>1. store[i] \in Item
  BY DEF ListInv
<1> QED
  BY <1>1 DEF Item

\* Time passes: the window moves on, nothing else.
LEMMA TickStep == ASSUME SInv, Tick PROVE SInv'
<1>t. now \in Nat /\ Window \in Nat /\ MaxTime \in Nat /\ now < MaxTime /\ now' = now + 1
  BY SessionConstants DEF SInv, ShapeInv, Tick
<1>1. /\ admitted' = {x \in admitted : x.at > now' - Window}
      /\ lost' = {x \in lost : x.at > now' - Window}
      /\ UNCHANGED <<scope, created, turns, store, recent, managers, conn>>
  BY DEF Tick
<1>2. \A n \in Nat : (n <= now => n <= now') /\ (n > now' - Window => n > now - Window)
  BY <1>t
<1>3. ShapeInv' /\ SessInv'
  BY <1>t, <1>1 DEF SInv, ShapeInv, SessInv
<1>4. ListInv'
  BY <1>1 DEF SInv, ListInv, Distinct, OrderInv, Before, Used
<1>5. \A x \in Tag : x.at \in Nat
  BY DEF Tag
<1>6. CountInv'
  <2>1. admitted' \subseteq admitted /\ lost' \subseteq admitted' /\ admitted' \subseteq Tag
    BY <1>1 DEF SInv, CountInv
  <2>2. IsFiniteSet(admitted')
    BY <2>1, FS_Subset DEF SInv, CountInv
  <2>3. ASSUME NEW x \in admitted', x.at > now' - Window PROVE Covered(x)'
    <3>1. Covered(x)
      BY <2>1, <2>3, <1>2, <1>5 DEF SInv, CountInv
    <3> QED
      BY <3>1, <2>3, <1>1 DEF Covered
  <2> QED
    BY <2>1, <2>2, <2>3 DEF CountInv
<1>7. ASSUME NEW k, NEW st \in SUBSET Stamp, StampsOf(k, st) PROVE StampsOf(k, st)'
  <2>1. \A s \in st : s.at \in Nat
    BY DEF Stamp
  <2>2. ASSUME NEW s \in st, s.at > now' - Window PROVE TagOf(k, s) \in admitted'
    <3>1. TagOf(k, s) \in admitted /\ TagOf(k, s).at = s.at
      BY <2>1, <2>2, <1>2, <1>7 DEF StampsOf, TagOf
    <3> QED
      BY <3>1, <2>2, <1>1
  <2> QED
    BY <2>1, <2>2, <1>2, <1>7 DEF StampsOf
<1>8. StampInv'
  <2>1. ASSUME NEW i \in 1..Len(store)
        PROVE  /\ StampsOf(store[i].key, store[i].stamps)'
               /\ Cardinality(store'[i].stamps) \in 1..Limit
               /\ \A s \in store'[i].stamps : s.at + Window <= store'[i].expires
    <3>1. store[i].stamps \in SUBSET Stamp
      BY ItemFields DEF SInv
    <3>2. StampsOf(store[i].key, store[i].stamps)
      BY DEF SInv, StampInv
    <3>3. PICK k, st : k = store[i].key /\ st = store[i].stamps
      OBVIOUS
    <3>4. StampsOf(k, st)'
      BY <3>1, <3>2, <3>3, <1>7
    <3> QED
      BY <3>3, <3>4, <1>1 DEF SInv, StampInv, StampsOf
  <2>2. ASSUME NEW c \in Conns, conn[c].pc = "write" PROVE StampsOf(Key(c), conn[c].valid)'
    <3>1. conn[c].valid \in SUBSET Stamp /\ StampsOf(Key(c), conn[c].valid)
      BY <2>2, ConnFields DEF SInv, StampInv
    <3>2. PICK k, st : k = Key(c) /\ st = conn[c].valid
      OBVIOUS
    <3>3. StampsOf(k, st)'
      BY <3>1, <3>2, <1>7
    <3>4. Key(c)' = k /\ conn'[c].valid = st
      BY <3>2, <1>1 DEF Key
    <3> QED
      BY <3>3, <3>4 DEF StampsOf
  <2> QED
    BY <2>1, <2>2, <1>1 DEF StampInv
<1> QED
  BY <1>3, <1>4, <1>6, <1>8 DEF SInv

\* What Get does to the entries: none is new, none that is not stale goes.
LEMMA GetKeeps ==
    ASSUME ListInv, NEW k \in Keys, store' = StoreGet(k), Use(k)
    PROVE  /\ ListInv'
           /\ \A i \in 1..Len(store') : \E p \in 1..Len(store) : store'[i] = store[p]
           /\ \A p \in 1..Len(store) : ~Stale(store[p]) => \E i \in 1..Len(store') : store'[i] = store[p]
<1> DEFINE R == Others(k)
<1>1. /\ R \in Seq(Item) /\ Within(R, store) /\ \A j \in 1..Len(R) : R[j].key # k
      /\ \A p \in 1..Len(store) : store[p].key # k => \E j \in 1..Len(R) : R[j] = store[p]
      /\ (\E p \in 1..Len(store) : store[p].key = k) => Len(R) = Len(store) - 1
  BY OthersList DEF ListInv
<1>2. \/ store' = R /\ \A p \in 1..Len(store) : store[p].key # k
      \/ store' = R /\ \E p \in 1..Len(store) : store[p].key = k /\ Stale(store[p])
      \/ \E p \in 1..Len(store) : store[p].key = k /\ ~Stale(store[p]) /\ store' = <<store[p]>> \o R
  BY StoreGetIs DEF ListInv
<1>3. Len(R) \in Nat /\ Len(store) \in Nat /\ Len(R) <= Len(store) /\ Len(store) <= Capacity
      /\ Capacity \in Nat /\ \A p \in 1..Len(store) : store[p] \in Item
  BY <1>1, SessionConstants DEF ListInv, Within
<1> HIDE DEF R
<1>4. store' = R \/ \E x \in Item : x.key = k /\ store' = <<x>> \o R
  BY <1>2, <1>3
<1>5. store' \in Seq(Item) /\ Distinct' /\ OrderInv' /\ recent' \in Seq(Keys)
  BY <1>1, <1>4, ListStep DEF ListInv
<1>6. CASE store' = R
  <2>1. \A p \in 1..Len(store) : store[p].key = k => Stale(store[p])
    <3>1. CASE \A p \in 1..Len(store) : store[p].key # k
      BY <3>1
    <3>2. CASE \E p \in 1..Len(store) : store[p].key = k /\ Stale(store[p])
      BY <3>2 DEF ListInv, Distinct
    <3>3. CASE \E p \in 1..Len(store) :
                  store[p].key = k /\ ~Stale(store[p]) /\ store' = <<store[p]>> \o R
      <4>1. Len(store') = Len(R) + 1
        BY <3>3, <1>1, <1>3, InFront
      <4> QED
        BY <4>1, <1>3, <1>6
    <3> QED
      BY <3>1, <3>2, <3>3, <1>2
  <2>2. Len(store') <= Capacity
    BY <1>3, <1>6
  <2>3. \A i \in 1..Len(store') : \E p \in 1..Len(store) : store'[i] = store[p]
    BY <1>1, <1>6 DEF Within
  <2>4. \A p \in 1..Len(store) : ~Stale(store[p]) => \E i \in 1..Len(store') : store'[i] = store[p]
    BY <2>1, <1>1, <1>6
  <2> QED
    BY <2>2, <2>3, <2>4, <1>5 DEF ListInv
<1>7. ASSUME NEW p \in 1..Len(store), store[p].key = k, store' = <<store[p]>> \o R
      PROVE  /\ Len(store') <= Capacity
             /\ \A i \in 1..Len(store') : \E q \in 1..Len(store) : store'[i] = store[q]
             /\ \A q \in 1..Len(store) : \E i \in 1..Len(store') : store'[i] = store[q]
  <2> DEFINE n == Len(R)
  <2>1. /\ Len(store') = n + 1 /\ store'[1] = store[p]
        /\ \A j \in 2..(n + 1) : store'[j] = R[j - 1]
    BY <1>1, <1>3, <1>7, InFront
  <2>2. n \in Nat /\ n = Len(store) - 1
    BY <1>1, <1>3, <1>7
  <2>3. \A j \in 1..n : \E q \in 1..Len(store) : R[j] = store[q]
    BY <1>1 DEF Within
  <2>4. \A q \in 1..Len(store) : q # p => \E j \in 1..n : R[j] = store[q]
    BY <1>1, <1>7 DEF ListInv, Distinct
  <2> HIDE DEF n
  <2>5. \A j \in 1..n : j + 1 \in 1..(n + 1) /\ store'[j + 1] = R[j]
    BY <2>1, <2>2
  <2>6. \A i \in 1..(n + 1) : i = 1 \/ (i - 1 \in 1..n /\ i \in 2..(n + 1))
    BY <2>2
  <2>7. \A i \in 1..(n + 1) : \E q \in 1..Len(store) : store'[i] = store[q]
    BY <2>1, <2>3, <2>6
  <2>8. \A q \in 1..Len(store) : \E i \in 1..(n + 1) : store'[i] = store[q]
    <3>1. 1 \in 1..(n + 1)
      BY <2>2
    <3> QED
      BY <3>1, <2>1, <2>4, <2>5
  <2>9. n + 1 <= Capacity
    BY <2>2, <1>3
  <2> QED
    BY <2>1, <2>7, <2>8, <2>9
<1>8. CASE \E p \in 1..Len(store) : store[p].key = k /\ store' = <<store[p]>> \o R
  BY <1>5, <1>7, <1>8 DEF ListInv
<1> QED
  BY <1>2, <1>6, <1>8

\* The stamps a check reads are those of the one entry of its key.
LEMMA StampsRead ==
    ASSUME ListInv, StampInv, NEW k
    PROVE  Live(Stamps(k)) \in SUBSET Stamp /\ StampsOf(k, Live(Stamps(k)))
<1>1. CASE Entry(k) = {}
  <2>1. Live(Stamps(k)) = {}
    BY <1>1 DEF Stamps, Live
  <2> QED
    BY <2>1, FS_EmptySet DEF StampsOf
<1>2. ASSUME NEW p \in 1..Len(store), store[p].key = k, Entry(k) = {store[p]}
      PROVE  Live(Stamps(k)) \in SUBSET Stamp /\ StampsOf(k, Live(Stamps(k)))
  <2>1. Live(Stamps(k)) \subseteq store[p].stamps
    BY <1>2 DEF Stamps, Live
  <2>2. store[p].stamps \in SUBSET Stamp /\ StampsOf(k, store[p].stamps)
    BY <1>2, ItemFields DEF StampInv
  <2>3. IsFiniteSet(Live(Stamps(k)))
    BY <2>1, <2>2, FS_Subset DEF StampsOf
  <2> QED
    BY <2>1, <2>2, <2>3 DEF StampsOf
<1> QED
  BY <1>1, <1>2, EntryIs DEF ListInv

\* The first half: store.Get and the pruning of old stamps.  A stale entry goes,
\* and with it only stamps that no longer count.
LEMMA ReadStampsStep ==
    ASSUME SInv, NEW c \in Conns, ReadStamps(c)
    PROVE  SInv'
<1> DEFINE k == Key(c)
           valid == Live(Stamps(k))
<1>t. conn \in [Conns -> ConnState] /\ conn[c] \in ConnState /\ k \in Keys
  BY ConnFields, KeyType DEF SInv, ShapeInv
<1>1. /\ conn[c].pc = "read" /\ store' = StoreGet(k) /\ Use(k)
      /\ UNCHANGED <<scope, now, created, turns, managers, admitted, lost>>
  BY DEF ReadStamps
<1>2. valid \in SUBSET Stamp /\ StampsOf(k, valid)
  BY StampsRead DEF SInv
<1>3. conn' = [conn EXCEPT ![c] = [@ EXCEPT !.pc = "write", !.sess = conn[c].sess, !.valid = valid]]
  BY <1>t DEF ReadStamps, ConnState
<1> HIDE DEF valid
<1>4. /\ ShapeInv' /\ SessInv' /\ conn'[c].sess = conn[c].sess /\ conn'[c].valid = valid
      /\ \A d \in Conns \ {c} : conn'[d] = conn[d]
  BY <1>1, <1>2, <1>3, WorkerMove DEF SInv
<1>5. k' = k
  BY <1>1, <1>4 DEF Key
<1> HIDE DEF k
<1>6. /\ ListInv'
      /\ \A i \in 1..Len(store') : \E p \in 1..Len(store) : store'[i] = store[p]
      /\ \A p \in 1..Len(store) : ~Stale(store[p]) => \E i \in 1..Len(store') : store'[i] = store[p]
  BY <1>t, <1>1, GetKeeps DEF SInv
<1>7. \A a, st : StampsOf(a, st)' <=> StampsOf(a, st)
  BY <1>1 DEF StampsOf
<1>8. StampInv'
  <2>1. ASSUME NEW i \in 1..Len(store')
        PROVE  /\ StampsOf(store[i].key, store[i].stamps)'
               /\ Cardinality(store'[i].stamps) \in 1..Limit
               /\ \A s \in store'[i].stamps : s.at + Window <= store'[i].expires
    <3>1. PICK p \in 1..Len(store) : store'[i] = store[p]
      BY <1>6
    <3>2. PICK a, st : a = store[p].key /\ st = store[p].stamps
      OBVIOUS
    <3>3. StampsOf(a, st)'
      BY <3>2, <1>7 DEF SInv, StampInv
    <3> QED
      BY <3>1, <3>2, <3>3 DEF SInv, StampInv, StampsOf
  <2>2. ASSUME NEW d \in Conns, conn'[d].pc = "write" PROVE StampsOf(Key(d), conn[d].valid)'
    <3>1. CASE d = c
      <4>1. PICK a, st : a = k /\ st = valid
        OBVIOUS
      <4>2. StampsOf(a, st)'
        BY <4>1, <1>2, <1>7
      <4>3. Key(d)' = a /\ conn'[d].valid = st
        BY <3>1, <4>1, <1>4, <1>5 DEF k
      <4> QED
        BY <4>2, <4>3 DEF StampsOf
    <3>2. CASE d # c
      <4>1. conn'[d] = conn[d] /\ Key(d)' = Key(d)
        BY <3>2, <1>1, <1>4 DEF Key
      <4>2. StampsOf(Key(d), conn[d].valid)
        BY <4>1, <2>2 DEF SInv, StampInv
      <4> QED
        BY <4>1, <4>2, <1>1 DEF StampsOf
    <3> QED
      BY <3>1, <3>2
  <2> QED
    BY <2>1, <2>2 DEF StampInv
<1>9. CountInv'
  <2>1. ASSUME NEW x \in admitted, x.at > now - Window PROVE Covered(x)'
    <3>1. Covered(x)
      BY <2>1 DEF SInv, CountInv
    <3>2. CASE x \in lost
      BY <3>2, <1>1 DEF Covered
    <3>3. ASSUME NEW p \in 1..Len(store), store[p].key = x.key,
                 [at |-> x.at, n |-> x.n] \in store[p].stamps
          PROVE  Covered(x)'
      <4>1. x.at + Window <= store[p].expires
        BY <3>3 DEF SInv, StampInv
      <4>2. x.at \in Nat /\ now \in Nat /\ Window \in Nat /\ store[p].expires \in Nat
        BY SessionConstants, ItemFields, <3>3 DEF SInv, ShapeInv, CountInv, Tag
      <4>3. ~Stale(store[p])
        BY <4>1, <4>2, <2>1 DEF Stale
      <4>4. PICK i \in 1..Len(store') : store'[i] = store[p]
        BY <4>3, <1>6
      <4> QED
        BY <3>3, <4>4 DEF Covered
    <3> QED
      BY <3>1, <3>2, <3>3 DEF Covered
  <2> QED
    BY <2>1, <1>1 DEF SInv, CountInv
<1> QED
  BY <1>4, <1>6, <1>8, <1>9 DEF SInv

\* What Set does to the entries: the new one is in front, no other is new, and
\* another key's entry goes only as the last of a full list.
LEMMA SetKeeps ==
    ASSUME ListInv, NEW k \in Keys, NEW stamps \in SUBSET Stamp, now \in Nat,
           store' = StoreSet(k, stamps), Use(k)
    PROVE  /\ ListInv'
           /\ 1 \in 1..Len(store') /\ store'[1] = NewItem(k, stamps)
           /\ \A i \in 1..Len(store') : i # 1 =>
                 \E p \in 1..Len(store) : store'[i] = store[p] /\ store[p].key # k
           /\ \A p \in 1..Len(store) :
                 \/ \E i \in 1..Len(store') : store'[i].key = store[p].key
                 \/ /\ Len(store) = Capacity /\ Len(store') = Capacity /\ p = Len(store)
                    /\ \A q \in 1..Len(store) : store[q].key # k
<1>t. /\ Len(store) \in Nat /\ Len(store) <= Capacity /\ Capacity \in Nat \ {0}
      /\ store \in Seq(Item) /\ Distinct
  BY SessionConstants DEF ListInv
<1>n. NewItem(k, stamps) \in Item /\ NewItem(k, stamps).key = k
  BY SessionConstants DEF NewItem, Item
<1>1. ASSUME NEW R \in Seq(Item), Within(R, store), \A j \in 1..Len(R) : R[j].key # k,
             store' = <<NewItem(k, stamps)>> \o R, Len(R) < Capacity
      PROVE  /\ ListInv' /\ Len(store') = Len(R) + 1
             /\ 1 \in 1..Len(store') /\ store'[1] = NewItem(k, stamps)
             /\ \A i \in 1..Len(store') : i # 1 =>
                   \E p \in 1..Len(store) : store'[i] = store[p] /\ store[p].key # k
             /\ \A j \in 1..Len(R) : \E i \in 1..Len(store') : store'[i] = R[j]
  <2>1. store' \in Seq(Item) /\ Distinct' /\ OrderInv' /\ recent' \in Seq(Keys)
    BY <1>1, <1>n, ListStep DEF ListInv
  <2> DEFINE n == Len(R)
  <2>2. /\ Len(store') = n + 1 /\ store'[1] = NewItem(k, stamps)
        /\ \A j \in 2..(n + 1) : store'[j] = R[j - 1]
    BY <1>1, <1>n, InFront
  <2>3. n \in Nat /\ n < Capacity
    BY <1>1
  <2>4. \A j \in 1..n : R[j].key # k /\ \E p \in 1..Len(store) : R[j] = store[p]
    BY <1>1 DEF Within
  <2> HIDE DEF n
  <2>5. \A j \in 1..n : j + 1 \in 1..(n + 1) /\ store'[j + 1] = R[j]
    BY <2>2, <2>3
  <2>6. \A i \in 1..(n + 1) : i # 1 => i - 1 \in 1..n /\ store'[i] = R[i - 1]
    <3>1. \A i \in 1..(n + 1) : i # 1 => i \in 2..(n + 1) /\ i - 1 \in 1..n
      BY <2>3
    <3> QED
      BY <3>1, <2>2
  <2>7. \A i \in 1..(n + 1) : i # 1 =>
           \E p \in 1..Len(store) : store'[i] = store[p] /\ store[p].key # k
    BY <2>4, <2>6
  <2>8. n + 1 <= Capacity /\ 1 \in 1..(n + 1)
    BY <2>3, <1>t
  <2>9. ListInv'
    BY <2>1, <2>2, <2>8 DEF ListInv
  <2>10. \A j \in 1..n : \E i \in 1..(n + 1) : store'[i] = R[j]
    BY <2>5
  <2> QED
    BY <2>2, <2>7, <2>8, <2>9, <2>10 DEF n
<1>2. CASE /\ store' = <<NewItem(k, stamps)>> \o Others(k)
           /\ Len(Others(k)) < Capacity
  <2>1. /\ Others(k) \in Seq(Item) /\ Within(Others(k), store)
        /\ \A j \in 1..Len(Others(k)) : Others(k)[j].key # k
        /\ \A p \in 1..Len(store) : store[p].key # k =>
              \E j \in 1..Len(Others(k)) : Others(k)[j] = store[p]
    BY <1>t, OthersList
  <2>2. /\ ListInv' /\ 1 \in 1..Len(store') /\ store'[1] = NewItem(k, stamps)
        /\ \A i \in 1..Len(store') : i # 1 =>
              \E p \in 1..Len(store) : store'[i] = store[p] /\ store[p].key # k
        /\ \A j \in 1..Len(Others(k)) : \E i \in 1..Len(store') : store'[i] = Others(k)[j]
    BY <2>1, <1>1, <1>2
  <2>3. ASSUME NEW p \in 1..Len(store)
        PROVE  \E i \in 1..Len(store') : store'[i].key = store[p].key
    <3>1. CASE store[p].key = k
      BY <3>1, <2>2, <1>n
    <3>2. CASE store[p].key # k
      BY <3>2, <2>1, <2>2
    <3> QED
      BY <3>1, <3>2
  <2> QED
    BY <2>2, <2>3
<1>3. CASE /\ store' = <<NewItem(k, stamps)>> \o Front(store)
           /\ Len(store) = Capacity /\ \A p \in 1..Len(store) : store[p].key # k
  <2> DEFINE R == Front(store)
             n == Len(store)
  <2>1. R \in Seq(Item) /\ Len(R) = n - 1 /\ \A j \in 1..(n - 1) : R[j] = store[j]
    <3>1. Len(store) > 0
      BY <1>t, <1>3
    <3> QED
      BY <3>1, <1>t, FrontElements
  <2>2. n \in Nat \ {0} /\ n = Capacity
    BY <1>t, <1>3
  <2> HIDE DEF R, n
  <2>3. \A j \in 1..(n - 1) : j \in 1..n
    BY <2>2
  <2>4. Within(R, store) /\ Len(R) < Capacity
    <3>1. Len(R) <= n /\ Len(R) < Capacity
      BY <2>1, <2>2
    <3> QED
      <4>1. Len(R) = n - 1 /\ \A j \in 1..Len(R) : j \in 1..n /\ R[j] = store[j]
        BY <2>1, <2>3
      <4>2. \A x, y \in 1..Len(R) : x < y =>
               \E p, q \in 1..n : p < q /\ R[x] = store[p] /\ R[y] = store[q]
        BY <4>1
      <4>3. \A x \in 1..Len(R) : \E p \in 1..n : R[x] = store[p]
        BY <4>1
      <4> QED
        BY <3>1, <4>2, <4>3 DEF Within, n
  <2>5. \A j \in 1..Len(R) : R[j].key # k
    BY <2>1, <2>3, <1>3 DEF n
  <2>6. /\ ListInv' /\ Len(store') = Len(R) + 1
        /\ 1 \in 1..Len(store') /\ store'[1] = NewItem(k, stamps)
        /\ \A i \in 1..Len(store') : i # 1 =>
              \E p \in 1..Len(store) : store'[i] = store[p] /\ store[p].key # k
        /\ \A j \in 1..Len(R) : \E i \in 1..Len(store') : store'[i] = R[j]
    BY <2>1, <2>4, <2>5, <1>1, <1>3 DEF R
  <2>7. Len(store') = Capacity
    BY <2>1, <2>2, <2>6
  <2>8. ASSUME NEW p \in 1..n, p # n
        PROVE  \E i \in 1..Len(store') : store'[i].key = store[p].key
    <3>1. p \in 1..(n - 1)
      BY <2>2, <2>8
    <3>2. p \in 1..Len(R) /\ R[p] = store[p]
      BY <3>1, <2>1, <2>2
    <3>3. PICK i \in 1..Len(store') : store'[i] = R[p]
      BY <3>2, <2>6
    <3> QED
      BY <3>2, <3>3
  <2> QED
    BY <2>6, <2>7, <2>8, <1>3 DEF n
<1> QED
  BY <1>t, <1>2, <1>3, StoreSetIs

\* The stamp of the turn being admitted: the next one of this moment.
LEMMA NewStampType ==
    ASSUME SInv
    PROVE  /\ NewStamp \in Stamp /\ NewStamp.at = now
           /\ IsFiniteSet({x \in admitted : x.at = now})
           /\ Cardinality({x \in admitted : x.at = now}) \in Nat
           /\ NewStamp.n = Cardinality({x \in admitted : x.at = now}) + 1
<1>1. {x \in admitted : x.at = now} \in SUBSET admitted /\ now \in Nat
  BY DEF SInv, ShapeInv
<1>2. IsFiniteSet({x \in admitted : x.at = now})
  BY <1>1, FS_Subset DEF SInv, CountInv
<1>3. Cardinality({x \in admitted : x.at = now}) \in Nat
  BY <1>2, FS_CardinalityType
<1> QED
  BY <1>1, <1>2, <1>3 DEF NewStamp, Stamp

\* The second half: store.Set with the list read before, and one stamp more.
LEMMA AdmitStep ==
    ASSUME SInv, NEW c \in Conns, Admit(c)
    PROVE  SInv'
<1> DEFINE k == Key(c)
           stamp == NewStamp
           stamps == conn[c].valid \cup {stamp}
<1>t. /\ conn \in [Conns -> ConnState] /\ conn[c] \in ConnState /\ k \in Keys
      /\ conn[c].valid \in SUBSET Stamp /\ now \in Nat /\ Window \in Nat \ {0} /\ Limit \in Nat \ {0}
  BY ConnFields, KeyType, SessionConstants DEF SInv, ShapeInv
<1>1. /\ conn[c].pc = "write" /\ Cardinality(conn[c].valid) < Limit
      /\ store' = StoreSet(k, stamps) /\ Use(k)
      /\ admitted' = admitted \cup Tagged(k, {stamp})
      /\ UNCHANGED <<scope, now, created, turns, managers>>
  BY DEF Admit
<1>2. lost' = lost \cup UNION {Tagged(e.key, e.stamps \
                                 UNION {y.stamps : y \in {z \in ToSet(store') : z.key = e.key}}) :
                                 e \in ToSet(store)}
  BY DEF Admit
<1>3. conn' = [conn EXCEPT ![c] = [@ EXCEPT !.pc = "run", !.sess = conn[c].sess, !.valid = {}]]
  BY <1>t DEF Admit, ConnState
<1>4. /\ ShapeInv' /\ SessInv' /\ conn'[c].pc = "run"
      /\ \A d \in Conns \ {c} : conn'[d] = conn[d]
  <2>1. conn[c].sess \in {0, conn[c].sess} /\ {} \in SUBSET Stamp /\ conn[c].pc # "idle"
    BY <1>1
  <2> QED
    BY <2>1, <1>1, <1>3, WorkerMove DEF SInv
<1>5. stamp \in Stamp /\ stamp.at = now
  BY NewStampType
<1> HIDE DEF stamp, k
<1>6. StampsOf(k, conn[c].valid)
  BY <1>1 DEF SInv, StampInv, k
<1>7. admitted' = admitted \cup {TagOf(k, stamp)}
  <2>1. now > now - Window
    BY <1>t
  <2> QED
    BY <2>1, <1>1, <1>5 DEF Tagged, Live, TagOf
<1>8. /\ stamps \in SUBSET Stamp /\ IsFiniteSet(stamps) /\ Cardinality(stamps) \in 1..Limit
      /\ \A s \in stamps : s.at <= now /\ s.at \in Nat /\ s.at + Window <= now + Window
      /\ \A s \in stamps : s.at > now - Window => TagOf(k, s) \in admitted'
  <2>1. stamps \in SUBSET Stamp
    BY <1>t, <1>5
  <2>2. IsFiniteSet(stamps) /\ Cardinality(conn[c].valid) \in Nat
        /\ Cardinality(stamps) = IF stamp \in conn[c].valid THEN Cardinality(conn[c].valid)
                                 ELSE Cardinality(conn[c].valid) + 1
    BY <1>6, FS_AddElement, FS_CardinalityType DEF StampsOf
  <2>3. Cardinality(stamps) \in Nat /\ Cardinality(stamps) <= Limit
    BY <2>2, <1>1, <1>t
  <2>4. Cardinality(stamps) # 0
    BY <2>2, FS_EmptySet
  <2>5. \A s \in stamps : s.at <= now /\ s.at \in Nat
    BY <1>5, <1>6, <1>t DEF StampsOf, Stamp
  <2>6. \A s \in stamps : s.at + Window <= now + Window
    BY <2>5, <1>t
  <2>7. \A s \in stamps : s.at > now - Window => TagOf(k, s) \in admitted'
    BY <1>6, <1>7 DEF StampsOf
  <2> QED
    BY <2>1, <2>2, <2>3, <2>4, <2>5, <2>6, <2>7, <1>t
<1> HIDE DEF stamps
<1>9. /\ ListInv'
      /\ 1 \in 1..Len(store') /\ store'[1] = NewItem(k, stamps)
      /\ \A i \in 1..Len(store') : i # 1 =>
            \E p \in 1..Len(store) : store'[i] = store[p] /\ store[p].key # k
  BY <1>t, <1>1, <1>8, SetKeeps DEF SInv
<1>10. ASSUME NEW a, NEW st, StampsOf(a, st) PROVE StampsOf(a, st)'
  BY <1>1, <1>7, <1>10 DEF StampsOf
<1>11. StampInv'
  <2>1. ASSUME NEW i \in 1..Len(store')
        PROVE  /\ StampsOf(store[i].key, store[i].stamps)'
               /\ Cardinality(store'[i].stamps) \in 1..Limit
               /\ \A s \in store'[i].stamps : s.at + Window <= store'[i].expires
    <3>1. CASE i = 1
      <4>1. store'[i].key = k /\ store'[i].stamps = stamps /\ store'[i].expires = now + Window
        BY <3>1, <1>9 DEF NewItem
      <4> QED
        BY <4>1, <1>1, <1>8 DEF StampsOf
    <3>2. CASE i # 1
      <4>1. PICK p \in 1..Len(store) : store'[i] = store[p]
        BY <3>2, <1>9
      <4>2. PICK a, st : a = store[p].key /\ st = store[p].stamps
        OBVIOUS
      <4>3. StampsOf(a, st)'
        BY <4>2, <1>10 DEF SInv, StampInv
      <4> QED
        BY <4>1, <4>2, <4>3 DEF SInv, StampInv, StampsOf
    <3> QED
      BY <3>1, <3>2
  <2>2. ASSUME NEW d \in Conns, conn'[d].pc = "write" PROVE StampsOf(Key(d), conn[d].valid)'
    <3>1. d # c /\ conn'[d] = conn[d] /\ Key(d)' = Key(d)
      BY <2>2, <1>1, <1>4 DEF Key
    <3>2. PICK a, st : a = Key(d) /\ st = conn[d].valid
      OBVIOUS
    <3>3. StampsOf(a, st)'
      BY <3>1, <3>2, <2>2, <1>10 DEF SInv, StampInv
    <3> QED
      BY <3>1, <3>2, <3>3 DEF StampsOf
  <2> QED
    BY <2>1, <2>2 DEF StampInv
<1>12. DOMAIN store = 1..Len(store) /\ DOMAIN store' = 1..Len(store')
  BY <1>9 DEF SInv, ListInv
<1>13. CountInv'
  <2>1. TagOf(k, stamp) \in Tag
    BY <1>t, <1>5 DEF TagOf, Tag, Stamp
  <2>2. admitted' \in SUBSET Tag /\ IsFiniteSet(admitted')
    BY <2>1, <1>7, FS_AddElement DEF SInv, CountInv
  <2>3. lost' \subseteq admitted'
    <3> SUFFICES ASSUME NEW x \in lost', x \notin lost PROVE x \in admitted'
      BY <1>7 DEF SInv, CountInv
    <3>0. PICK e \in ToSet(store) :
             \E s \in e.stamps : s.at > now - Window /\ x = TagOf(e.key, s)
      BY <1>2 DEF Tagged, Live, TagOf
    <3>1. PICK s \in e.stamps : s.at > now - Window /\ x = TagOf(e.key, s)
      BY <3>0
    <3>2. PICK p \in 1..Len(store) : e = store[p]
      BY <1>12 DEF ToSet
    <3>3. TagOf(e.key, s) \in admitted
      BY <3>1, <3>2 DEF SInv, StampInv, StampsOf
    <3> QED
      BY <3>1, <3>3, <1>7
  <2>4. ASSUME NEW x \in admitted', x.at > now - Window PROVE Covered(x)'
    <3>1. CASE x = TagOf(k, stamp)
      <4>1. x.key = k /\ x.at = stamp.at /\ x.n = stamp.n
        BY <3>1 DEF TagOf
      <4>2. [at |-> x.at, n |-> x.n] = stamp
        BY <4>1, <1>5 DEF Stamp
      <4>3. stamp \in stamps
        BY DEF stamps
      <4> QED
        BY <4>1, <4>2, <4>3, <1>9 DEF Covered, NewItem
    <3>2. CASE x \in admitted
      <4>1. Covered(x)
        BY <3>2, <2>4 DEF SInv, CountInv
      <4>2. CASE x \in lost
        BY <4>2, <1>2 DEF Covered
      <4>3. ASSUME NEW p \in 1..Len(store), store[p].key = x.key,
                   [at |-> x.at, n |-> x.n] \in store[p].stamps
            PROVE  Covered(x)'
        <5> DEFINE s == [at |-> x.at, n |-> x.n]
                   kept == UNION {y.stamps : y \in {z \in ToSet(store') : z.key = store[p].key}}
        <5>1. CASE s \in kept
          <6>1. PICK i \in 1..Len(store') : store'[i].key = store[p].key /\ s \in store'[i].stamps
            BY <5>1, <1>12 DEF ToSet
          <6> QED
            BY <6>1, <4>3 DEF Covered
        <5>2. CASE s \notin kept
          <6>1. store[p] \in ToSet(store)
            BY <1>12 DEF ToSet
          <6>2. TagOf(store[p].key, s) \in Tagged(store[p].key, store[p].stamps \ kept)
            BY <5>2, <4>3, <2>4 DEF Tagged, Live, TagOf
          <6>3. TagOf(store[p].key, s) = x
            BY <4>3, <3>2 DEF TagOf, SInv, CountInv, Tag
          <6>4. x \in lost'
            BY <6>1, <6>2, <6>3, <1>2
          <6> QED
            BY <6>4 DEF Covered
        <5> QED
          BY <5>1, <5>2
      <4> QED
        BY <4>1, <4>2, <4>3 DEF Covered
    <3> QED
      BY <3>1, <3>2, <1>7
  <2> QED
    BY <2>2, <2>3, <2>4, <1>1 DEF CountInv
<1> QED
  BY <1>4, <1>9, <1>11, <1>13 DEF SInv

-----------------------------------------------------------------------------
(* The theorems.                                                           *)

\* The invariant holds when the server starts.
LEMMA SInit == Init => SInv
<1> SUFFICES ASSUME Init PROVE SInv
  OBVIOUS
<1>1. /\ scope \in Scopes /\ now = 0 /\ created = 0 /\ turns = 0 /\ store = <<>> /\ recent = <<>>
      /\ managers = [c \in Conns |-> <<>>] /\ conn = [c \in Conns |-> Closed]
      /\ admitted = {} /\ lost = {}
  BY DEF Init
<1>2. Closed \in ConnState /\ Closed.id = 0 /\ Closed.sess = 0 /\ Closed.pc = "idle" /\ Closed.open = FALSE
  BY DEF Closed, ConnState
<1>3. \A c \in Conns : conn[c] = Closed /\ managers[c] = <<>>
  BY <1>1
<1>4. ShapeInv
  <2>1. managers \in [Conns -> SessionMap] /\ conn \in [Conns -> ConnState]
    BY <1>1, <1>2, NoSessions
  <2>2. 0 \in 0..MaxTime /\ 0 \in 0..MaxSessions /\ 0 \in 0..MaxTurns /\ 0 \in 0..0
    BY SessionConstants
  <2> QED
    BY <2>1, <2>2, <1>1, <1>2, <1>3, NoSessions DEF ShapeInv
<1>5. ListInv
  <2>1. store \in Seq(Item) /\ recent \in Seq(Keys) /\ Len(store) = 0 /\ Len(recent) = 0
    BY <1>1
  <2>2. \A i \in 1..0 : FALSE
    OBVIOUS
  <2>3. Capacity \in Nat
    BY SessionConstants
  <2> QED
    BY <2>1, <2>2, <2>3 DEF ListInv, Distinct, OrderInv
<1>6. StampInv
  <2>1. Len(store) = 0 /\ \A i \in 1..0 : FALSE
    BY <1>1
  <2> QED
    BY <2>1, <1>2, <1>3 DEF StampInv
<1>7. CountInv
  BY <1>1, FS_EmptySet DEF CountInv
<1>8. SessInv
  BY <1>2, <1>3 DEF SessInv
<1> QED
  BY <1>4, <1>5, <1>6, <1>7, <1>8 DEF SInv

\* Every step keeps it.
LEMMA SNext == SInv /\ [Next]_vars => SInv'
<1> SUFFICES ASSUME SInv, [Next]_vars PROVE SInv'
  OBVIOUS
<1>1. CASE Tick
  BY <1>1, TickStep
<1>2. ASSUME NEW c \in Conns,
             Connect(c) \/ StartTurn(c) \/ Close(c) \/ EndTurn(c) \/ ReadStamps(c) \/ Refuse(c) \/ Admit(c)
      PROVE  SInv'
  BY <1>2, ConnectStep, StartStep, CloseStep, EndStep, ReadStampsStep, AdmitStep
<1>3. CASE UNCHANGED vars
  <2>1. UNCHANGED <<rateVars, now, scope>> /\ UNCHANGED <<created, turns, managers, conn>>
    BY <1>3 DEF vars
  <2>2. ListInv' /\ StampInv' /\ CountInv'
    BY <2>1, RateKept DEF SInv
  <2> QED
    BY <2>1, <2>2 DEF SInv, ShapeInv, SessInv
<1> QED
  BY <1>1, <1>2, <1>3 DEF Next

\* It holds in every reachable state.
LEMMA SAlways == Spec => []SInv
BY SInit, SNext, PTL DEF Spec

\* The store stays within its capacity with one list per key, no list holds more
\* than Limit stamps, and no id is used that was never made (lruStore.Set,
\* CheckRateLimit, SessionManager.New).
THEOREM SessionsTypeOK == Spec => []TypeOK
<1>1. SInv => TypeOK
  <2> SUFFICES ASSUME SInv PROVE TypeOK
    OBVIOUS
  <2>1. DOMAIN store = 1..Len(store)
    BY DEF SInv, ListInv
  <2>2. Len(store) <= Capacity /\ \A i, j \in DOMAIN store : store[i].key = store[j].key => i = j
    BY <2>1 DEF SInv, ListInv, Distinct
  <2>3. ASSUME NEW e \in ToSet(store)
        PROVE  e.stamps \subseteq Stamp /\ Cardinality(e.stamps) \in 1..Limit /\ e.expires \in Nat
    <3>1. PICK i \in 1..Len(store) : e = store[i]
      BY <2>1 DEF ToSet
    <3> QED
      BY <3>1, ItemFields DEF SInv, StampInv
  <2>4. ASSUME NEW c \in Conns
        PROVE  /\ DOMAIN managers[c] \subseteq 1..created
               /\ conn[c].pc \in {"idle", "read", "write", "run"}
               /\ conn[c].id \in 0..created /\ conn[c].sess \in 0..created
    BY ConnFields DEF SInv, ShapeInv
  <2> QED
    BY <2>2, <2>3, <2>4 DEF SInv, ShapeInv, TypeOK
<1> QED
  BY <1>1, SAlways, PTL

\* The stamps of one entry, tagged: no more of them than stamps.
LEMMA TagsOfEntry ==
    ASSUME NEW k, NEW stamps, IsFiniteSet(stamps)
    PROVE  /\ IsFiniteSet({TagOf(k, s) : s \in stamps})
           /\ Cardinality({TagOf(k, s) : s \in stamps}) <= Cardinality(stamps)
<1> DEFINE T == {TagOf(k, s) : s \in stamps}
           f == [s \in stamps |-> TagOf(k, s)]
<1>1. f \in [stamps -> T] /\ \A t \in T : \E s \in stamps : f[s] = t
  OBVIOUS
<1>2. f \in Surjection(stamps, T)
  <2> HIDE DEF f, T
  <2> QED
    BY <1>1 DEF Surjection
<1> HIDE DEF f, T
<1>3. IsFiniteSet(T) /\ Cardinality(T) <= Cardinality(stamps)
  BY <1>2, FS_Surjection
<1> QED
  BY <1>3 DEF T

\* Whatever checks interleave, a key's turns of one window number at most the
\* limit plus the stamps that another check's Set overwrote or the full store
\* evicted (CheckRateLimit reads and writes the store in two steps, with no lock
\* around them): pruning, expiry and the recency order lose nothing that counts.
THEOREM SlidingWindow == Spec => []RateAccounted
<1>1. SInv => RateAccounted
  <2> SUFFICES ASSUME SInv, NEW k
               PROVE  Cardinality({x \in admitted : x.key = k /\ x.at > now - Window}) <=
                        Limit + Cardinality({x \in lost : x.key = k /\ x.at > now - Window})
    BY DEF RateAccounted
  <2> DEFINE A == {x \in admitted : x.key = k /\ x.at > now - Window}
             L == {x \in lost : x.key = k /\ x.at > now - Window}
  <2>1. A \in SUBSET admitted /\ L \in SUBSET admitted /\ IsFiniteSet(admitted)
    BY DEF SInv, CountInv
  <2>2. IsFiniteSet(A) /\ IsFiniteSet(L) /\ Cardinality(A) \in Nat /\ Cardinality(L) \in Nat
    BY <2>1, FS_Subset, FS_CardinalityType
  <2>3. Limit \in Nat
    BY SessionConstants
  <2>4. \A x \in A : x \in L \/ \E i \in 1..Len(store) :
           store[i].key = k /\ [at |-> x.at, n |-> x.n] \in store[i].stamps
    BY DEF SInv, CountInv, Covered
  <2>5. CASE \A i \in 1..Len(store) : store[i].key # k
    <3>1. A \in SUBSET L
      BY <2>4, <2>5
    <3>2. Cardinality(A) <= Cardinality(L)
      BY <3>1, <2>2, FS_Subset
    <3> HIDE DEF A, L
    <3>3. Cardinality(A) <= Limit + Cardinality(L)
      BY <3>2, <2>2, <2>3
    <3> QED
      BY <3>3 DEF A, L
  <2>6. ASSUME NEW p \in 1..Len(store), store[p].key = k
        PROVE  Cardinality(A) <= Limit + Cardinality(L)
    <3> DEFINE T == {TagOf(k, s) : s \in store[p].stamps}
    <3>1. \A i \in 1..Len(store) : store[i].key = k => i = p
      BY <2>6 DEF SInv, ListInv, Distinct
    <3>2. IsFiniteSet(store[p].stamps) /\ Cardinality(store[p].stamps) \in 1..Limit
      BY DEF SInv, StampInv, StampsOf
    <3>3. IsFiniteSet(T) /\ Cardinality(T) <= Cardinality(store[p].stamps)
      BY <3>2, TagsOfEntry
    <3>4. ASSUME NEW x \in A PROVE x \in L \/ x \in T
      <4>1. CASE x \in L
        BY <4>1
      <4>2. CASE x \notin L
        <5>1. [at |-> x.at, n |-> x.n] \in store[p].stamps
          BY <4>2, <3>1, <2>4
        <5>2. x = TagOf(k, [at |-> x.at, n |-> x.n])
          <6>1. x \in Tag /\ x.key = k
            BY DEF SInv, CountInv
          <6> QED
            BY <6>1 DEF Tag, TagOf
        <5> QED
          BY <5>1, <5>2
      <4> QED
        BY <4>1, <4>2
    <3> HIDE DEF A, L, T
    <3>5. A \in SUBSET (L \cup T)
      BY <3>4
    <3>6. /\ IsFiniteSet(L \cup T) /\ IsFiniteSet(L \cap T)
          /\ Cardinality(L \cup T) = Cardinality(L) + Cardinality(T) - Cardinality(L \cap T)
      BY <2>2, <3>3, FS_Union, FS_Intersection
    <3>7. Cardinality(A) <= Cardinality(L \cup T)
      BY <3>5, <3>6, FS_Subset
    <3>8. Cardinality(T) \in Nat /\ Cardinality(L \cap T) \in Nat
      BY <3>3, <3>6, FS_CardinalityType
    <3> QED
      BY <3>2, <3>3, <3>6, <3>7, <3>8, <2>2, <2>3
  <2> QED
    BY <2>5, <2>6
<1> QED
  BY <1>1, SAlways, PTL

\* As long as no two turns of a connection start more than SessionTTL apart, they
\* all run in the session of its context: only a lapse sends a turn to another
\* one (sessionFor, SessionManager.Get).
THEOREM SessionContinues == Spec => []ContinuesUntilLapse
<1>1. SInv => ContinuesUntilLapse
  <2> SUFFICES ASSUME SInv, NEW c \in Conns, conn[c].open, conn[c].pc # "idle",
                      conn[c].sess # conn[c].id, ~conn[c].lapsed
               PROVE  FALSE
    BY ConnFields DEF ContinuesUntilLapse, SInv
  <2> QED
    BY DEF SInv, SessInv
<1> QED
  BY <1>1, SAlways, PTL

\* What the step that stores a list does to an entry that disappears.
LEMMA EvictStep ==
    ASSUME SInv, NEW c \in Conns, Admit(c), NEW e \in ToSet(store),
           \A x \in ToSet(store') : x.key # e.key
    PROVE  /\ Len(store') = Capacity
           /\ \A x \in ToSet(store') : Before(x.key, e.key)'
<1> DEFINE stamps == conn[c].valid \cup {NewStamp}
<1>0. PICK k : k = Key(c)
  OBVIOUS
<1>1. SInv'
  BY AdmitStep
<1>2. DOMAIN store = 1..Len(store) /\ DOMAIN store' = 1..Len(store') /\ Len(store) \in Nat
  BY <1>1 DEF SInv, ListInv
<1>3. PICK p \in 1..Len(store) : e = store[p]
  BY <1>2 DEF ToSet
<1>4. k \in Keys /\ now \in Nat /\ stamps \in SUBSET Stamp
  <2>1. now \in Nat /\ conn[c].valid \in SUBSET Stamp
    BY ConnFields DEF SInv
  <2> QED
    BY <2>1, <1>0, NewStampType, KeyType DEF SInv
<1>5. store' = StoreSet(k, stamps) /\ Use(k)
  BY <1>0 DEF Admit
<1> HIDE DEF stamps
<1>6. /\ store'[1] = NewItem(k, stamps)
      /\ \A i \in 1..Len(store') : i # 1 =>
            \E q \in 1..Len(store) : store'[i] = store[q] /\ store[q].key # k
      /\ \A q \in 1..Len(store) :
            \/ \E i \in 1..Len(store') : store'[i].key = store[q].key
            \/ /\ Len(store) = Capacity /\ Len(store') = Capacity /\ q = Len(store)
               /\ \A r \in 1..Len(store) : store[r].key # k
  BY <1>4, <1>5, SetKeeps DEF SInv
<1>7. \A i \in 1..Len(store') : store'[i].key # e.key
  BY <1>2 DEF ToSet
<1>8. Len(store') = Capacity /\ p = Len(store) /\ e.key # k
  BY <1>3, <1>6, <1>7
<1>9. /\ \A a, b : a # k /\ b # k /\ Before(a, b) => Before(a, b)'
      /\ \A b : b # k /\ Used(b) => Before(k, b)'
  BY <1>4, <1>5, UseOrders DEF SInv, ListInv, OrderInv
<1>10. ASSUME NEW i \in 1..Len(store') PROVE Before(store[i].key, e.key)'
  <2>1. CASE i = 1
    <3>1. store'[i].key = k /\ Used(e.key)
      BY <2>1, <1>3, <1>6 DEF NewItem, SInv, ListInv, OrderInv
    <3> QED
      BY <3>1, <1>8, <1>9
  <2>2. CASE i # 1
    <3>1. PICK q \in 1..Len(store) : store'[i] = store[q] /\ store[q].key # k
      BY <2>2, <1>6
    <3>2. q # p
      BY <3>1, <1>3, <1>7
    <3>3. q < p
      <4>1. q \in 1..p /\ p \in Nat
        BY <1>2, <1>8
      <4> QED
        BY <4>1, <3>2
    <3>4. Before(store[q].key, store[p].key)
      BY <3>3 DEF SInv, ListInv, OrderInv
    <3> QED
      BY <3>1, <3>4, <1>3, <1>8, <1>9
  <2> QED
    BY <2>1, <2>2
<1>11. \A x \in ToSet(store') : \E i \in 1..Len(store') : x = store'[i]
  BY <1>2 DEF ToSet
<1> QED
  BY <1>8, <1>10, <1>11

\* A list that still counts leaves the store only when it is full and every key
\* left in it was used later, whatever the interleaving of reads and writes
\* (lruStore.Get moves a hit to the front, lruStore.Set evicts the back).
THEOREM EvictionIsLru == Spec => EvictsLeastRecent
<1> DEFINE Gone(e) == ~Stale(e) /\ \A x \in ToSet(store') : x.key # e.key
           Lru(e) == /\ Len(store') = Capacity
                     /\ \A x \in ToSet(store') : \E i, j \in DOMAIN recent' :
                           i < j /\ recent'[i] = x.key /\ recent'[j] = e.key
<1>1. ASSUME SInv, [Next]_vars, NEW e \in ToSet(store), Gone(e) PROVE Lru(e)
  <2>1. SInv'
    BY <1>1, SNext
  <2>2. /\ DOMAIN store = 1..Len(store) /\ DOMAIN store' = 1..Len(store')
        /\ DOMAIN recent' = 1..Len(recent')
    BY <2>1, <1>1 DEF SInv, ListInv
  <2>3. store' # store
    BY <1>1
  <2>4. ASSUME NEW c \in Conns, ReadStamps(c) PROVE FALSE
    <3>1. PICK p \in 1..Len(store) : e = store[p]
      BY <2>2 DEF ToSet
    <3>2. PICK i \in 1..Len(store') : store'[i] = store[p]
      <4>1. Key(c) \in Keys /\ store' = StoreGet(Key(c)) /\ Use(Key(c))
        BY <1>1, <2>4, KeyType DEF ReadStamps, SInv
      <4>2. \A q \in 1..Len(store) : ~Stale(store[q]) => \E j \in 1..Len(store') : store'[j] = store[q]
        BY <4>1, <1>1, GetKeeps DEF SInv
      <4> QED
        BY <4>2, <3>1, <1>1
    <3>3. e \in ToSet(store')
      BY <3>1, <3>2, <2>2 DEF ToSet
    <3> QED
      BY <3>3, <1>1
  <2>5. ASSUME NEW c \in Conns, Admit(c) PROVE Lru(e)
    <3>1. Len(store') = Capacity /\ \A x \in ToSet(store') : Before(x.key, e.key)'
      BY <1>1, <2>5, EvictStep
    <3>2. \A x \in ToSet(store') : \E i, j \in DOMAIN recent' :
             i < j /\ recent'[i] = x.key /\ recent'[j] = e.key
      BY <3>1, <2>2 DEF Before
    <3> QED
      BY <3>1, <3>2
  <2>6. \E c \in Conns : ReadStamps(c) \/ Admit(c)
    BY <2>3, <1>1 DEF Next, vars, rateVars, Tick, Connect, StartTurn, Close, EndTurn, Refuse
  <2> QED
    BY <2>4, <2>5, <2>6
<1>2. SInv /\ [Next]_vars => [\A e \in ToSet(store) : Gone(e) => Lru(e)]_vars
  BY <1>1
<1> QED
  BY <1>2, SAlways, PTL DEF Spec, EvictsLeastRecent

\* Stamps of one moment are numbered without a gap, so a new one is new.
AtTime(t) == {y \in admitted : y.at = t}
NumInv == \A x \in admitted : x.n <= Cardinality(AtTime(x.at))

\* Admitting a turn records one stamp.
LEMMA AdmitRecords ==
    ASSUME SInv, NumInv, NEW c \in Conns, Admit(c)
    PROVE  /\ admitted' = admitted \cup {TagOf(Key(c), NewStamp)}
           /\ TagOf(Key(c), NewStamp) \notin admitted
<1> DEFINE t == TagOf(Key(c), NewStamp)
<1>1. now \in Nat /\ Window \in Nat \ {0}
  BY SessionConstants DEF SInv, ShapeInv
<1>2. /\ NewStamp.at = now /\ Cardinality(AtTime(now)) \in Nat
      /\ NewStamp.n = Cardinality(AtTime(now)) + 1
  BY NewStampType DEF AtTime
<1>3. admitted' = admitted \cup {t}
  <2>1. now > now - Window
    BY <1>1
  <2> QED
    BY <2>1, <1>2 DEF Admit, Tagged, Live, TagOf
<1>4. t.at = now /\ t.n = Cardinality(AtTime(now)) + 1
  BY <1>2 DEF TagOf
<1>5. ASSUME t \in admitted PROVE FALSE
  <2>1. t.n <= Cardinality(AtTime(now))
    BY <1>4, <1>5 DEF NumInv
  <2> QED
    BY <2>1, <1>2, <1>4
<1> QED
  BY <1>3, <1>5

\* The numbering is kept.
LEMMA NumNext == SInv /\ NumInv /\ [Next]_vars => NumInv'
<1> SUFFICES ASSUME SInv, NumInv, [Next]_vars, NEW x \in admitted'
             PROVE  x.n <= Cardinality(AtTime(x.at)')
  BY DEF NumInv
<1>1. CASE Tick
  <2>1. x \in admitted /\ x.at > now' - Window
    BY <1>1 DEF Tick
  <2>2. AtTime(x.at)' = AtTime(x.at)
    BY <1>1, <2>1 DEF Tick, AtTime
  <2> QED
    BY <2>1, <2>2 DEF NumInv
<1>2. ASSUME NEW c \in Conns, Admit(c) PROVE x.n <= Cardinality(AtTime(x.at)')
  <2> DEFINE t == TagOf(Key(c), NewStamp)
             N == AtTime(now)
  <2>1. admitted' = admitted \cup {t} /\ t \notin admitted
    BY <1>2, AdmitRecords
  <2>2. /\ t.at = now /\ t.n = Cardinality(N) + 1
        /\ IsFiniteSet(N) /\ Cardinality(N) \in Nat
    BY NewStampType DEF TagOf, AtTime
  <2> HIDE DEF t
  <2>3. CASE x.at # now
    <3>1. x \in admitted /\ AtTime(x.at)' = AtTime(x.at)
      BY <2>1, <2>2, <2>3 DEF AtTime
    <3> QED
      BY <3>1 DEF NumInv
  <2>4. CASE x.at = now
    <3>1. AtTime(x.at)' = N \cup {t} /\ t \notin N
      BY <2>1, <2>2, <2>4 DEF AtTime
    <3>2. x = t \/ x.n <= Cardinality(N)
      BY <2>1, <2>4 DEF NumInv
    <3> HIDE DEF N
    <3>3. Cardinality(N \cup {t}) = Cardinality(N) + 1
      BY <3>1, <2>2, FS_AddElement
    <3>4. x.n \in Nat
      BY SNext DEF SInv, CountInv, Tag
    <3> QED
      BY <3>1, <3>2, <3>3, <3>4, <2>2
  <2> QED
    BY <2>3, <2>4
<1>3. CASE admitted' = admitted
  BY <1>3 DEF NumInv, AtTime
<1>4. Tick \/ (\E c \in Conns : Admit(c)) \/ admitted' = admitted
  BY DEF Next, vars, rateVars, Connect, StartTurn, Close, EndTurn, Refuse, ReadStamps
<1> QED
  BY <1>1, <1>2, <1>3, <1>4

\* Every turn that CheckRateLimit lets through is counted once and nothing else
\* is, also when several are let through in the same moment: what SlidingWindow
\* bounds is the number of turns.
THEOREM TurnsAreCounted ==
    Spec => [][/\ \A c \in Conns : Admit(c) => Cardinality(admitted') = Cardinality(admitted) + 1
               /\ (~\E c \in Conns : Admit(c)) => admitted' \subseteq admitted]_vars
<1> DEFINE Counted == /\ \A c \in Conns : Admit(c) => Cardinality(admitted') = Cardinality(admitted) + 1
                      /\ (~\E c \in Conns : Admit(c)) => admitted' \subseteq admitted
<1>1. Init => NumInv
  BY DEF Init, NumInv
<1>2. SInv /\ NumInv /\ [Next]_vars => Counted
  <2> SUFFICES ASSUME SInv, NumInv, [Next]_vars PROVE Counted
    OBVIOUS
  <2>1. ASSUME NEW c \in Conns, Admit(c) PROVE Cardinality(admitted') = Cardinality(admitted) + 1
    <3>1. IsFiniteSet(admitted)
      BY DEF SInv, CountInv
    <3> DEFINE t == TagOf(Key(c), NewStamp)
    <3>2. admitted' = admitted \cup {t} /\ t \notin admitted
      BY <2>1, AdmitRecords
    <3> HIDE DEF t
    <3> QED
      BY <3>1, <3>2, FS_AddElement
  <2>2. (~\E c \in Conns : Admit(c)) => admitted' \subseteq admitted
    BY DEF Next, vars, rateVars, Tick, Connect, StartTurn, Close, EndTurn, Refuse, ReadStamps
  <2> QED
    BY <2>1, <2>2
<1>3. SInv /\ NumInv /\ [Next]_vars => [Counted]_vars
  BY <1>2
<1>4. Spec => []NumInv
  BY <1>1, NumNext, SAlways, PTL DEF Spec
<1> QED
  BY <1>3, <1>4, SAlways, PTL DEF Spec
=============================================================================
