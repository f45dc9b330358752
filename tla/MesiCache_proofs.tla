-------------------------- MODULE MesiCache_proofs --------------------------
(***************************************************************************)
(* What the operators of QueueOps return, for every queue, and what the    *)
(* operations of a cache preserve, for every cache.                        *)
(***************************************************************************)
EXTENDS MesiCache, TLAPS, FiniteSetTheorems, SequenceTheorems, WellFoundedInduction

-----------------------------------------------------------------------------
\* The queues.

\* A nonempty set of naturals has a least element.
LEMMA LeastNatural ==
    ASSUME NEW T \in SUBSET Nat, T # {}
    PROVE  \E j \in T : \A k \in T : j <= k
  <1>1. PICK j \in T : \A k \in T : <<k, j>> \notin OpToRel(<, Nat)
    BY WFMin, NatLessThanWellFounded, Zenon
  <1>2. \A k \in T : ~(k < j)
    BY <1>1, Zenon DEF OpToRel
  <1> QED  BY <1>2

-----------------------------------------------------------------------------
LEMMA BoundedIsFinite ==
    ASSUME NEW L \in Nat, NEW K, K \subseteq 0..L
    PROVE  K \in SUBSET Nat /\ IsFiniteSet(K) /\ Cardinality(K) \in Nat
  <1>1. IsFiniteSet(0..L)
    BY FS_Interval
  <1>2. IsFiniteSet(K)
    BY <1>1, FS_Subset
  <1>3. Cardinality(K) \in Nat
    BY <1>2, FS_CardinalityType
  <1>4. 0..L \subseteq Nat
    OBVIOUS
  <1> QED  BY <1>2, <1>3, <1>4

\* The elements of K up to k.
Upto(K, k) == {m \in K : m <= k}

LEMMA UptoFinite ==
    ASSUME NEW K \in SUBSET Nat, IsFiniteSet(K), NEW k
    PROVE  IsFiniteSet(Upto(K, k)) /\ Cardinality(Upto(K, k)) \in Nat
           /\ Cardinality(Upto(K, k)) <= Cardinality(K) /\ Cardinality(K) \in Nat
  BY FS_Subset, FS_CardinalityType DEF Upto

\* Counting up to a larger element of K counts more.
LEMMA UptoIncreasing ==
    ASSUME NEW K \in SUBSET Nat, IsFiniteSet(K), NEW j \in K, NEW k \in K, j < k
    PROVE  Cardinality(Upto(K, j)) < Cardinality(Upto(K, k))
  <1>1. IsFiniteSet(Upto(K, j)) /\ IsFiniteSet(Upto(K, k))
    BY UptoFinite
  <1>2. Upto(K, j) \in SUBSET Upto(K, k)
    <2>1. ASSUME NEW x \in Upto(K, j) PROVE x \in Upto(K, k)
      <3>1. x \in K /\ x <= j /\ x \in Nat /\ j \in Nat /\ k \in Nat
        BY DEF Upto
      <3> QED  BY <3>1 DEF Upto
    <2> QED  BY <2>1
  <1>3. k \in Upto(K, k) /\ k \notin Upto(K, j)
    BY DEF Upto
  <1>4. Cardinality(Upto(K, j)) <= Cardinality(Upto(K, k))
        /\ Cardinality(Upto(K, j)) # Cardinality(Upto(K, k))
    BY <1>1, <1>2, <1>3, FS_Subset
  <1>5. Cardinality(Upto(K, j)) \in Nat /\ Cardinality(Upto(K, k)) \in Nat
    BY UptoFinite
  <1> QED  BY <1>4, <1>5

LEMMA UptoInjective ==
    ASSUME NEW K \in SUBSET Nat, IsFiniteSet(K), NEW j \in K, NEW k \in K
    PROVE  /\ j < k <=> Cardinality(Upto(K, j)) < Cardinality(Upto(K, k))
           /\ j = k <=> Cardinality(Upto(K, j)) = Cardinality(Upto(K, k))
  <1>1. Cardinality(Upto(K, j)) \in Nat /\ Cardinality(Upto(K, k)) \in Nat
    BY UptoFinite
  <1>2. CASE j < k
    BY <1>1, <1>2, UptoIncreasing
  <1>3. CASE k < j
    BY <1>1, <1>3, UptoIncreasing
  <1>4. CASE j = k
    BY <1>1, <1>4
  <1> QED  BY <1>2, <1>3, <1>4

\* Nth(K, n) is the element of K with n elements of K up to it.
LEMMA NthProperty ==
    ASSUME NEW K \in SUBSET Nat, NEW L \in Nat, K \subseteq 0..L,
           NEW n \in 1..Cardinality(K)
    PROVE  Nth(K, n) \in K /\ Cardinality(Upto(K, Nth(K, n))) = n
  <1> DEFINE T == {j \in Nat : Cardinality(Upto(K, j)) >= n}
  <1>1. IsFiniteSet(K)
    BY BoundedIsFinite
  <1>2. Cardinality(K) \in Nat /\ n \in Nat /\ n >= 1 /\ n <= Cardinality(K)
    BY <1>1, FS_CardinalityType
  <1>3. \A k : Cardinality(Upto(K, k)) \in Nat /\ IsFiniteSet(Upto(K, k))
    BY <1>1, UptoFinite
  <1>4. L \in T
    <2>1. \A x \in K : x \in Upto(K, L)
      BY DEF Upto
    <2>2. Upto(K, L) \subseteq K
      BY DEF Upto
    <2>3. Upto(K, L) = K
      BY <2>1, <2>2
    <2> QED  BY <2>3, <1>2
  <1>5. PICK j \in T : \A k \in T : j <= k
    <2>1. T \in SUBSET Nat /\ T # {}
      BY <1>4
    <2> HIDE DEF T
    <2> QED  BY <2>1, LeastNatural
  <1>6. j \in K /\ Cardinality(Upto(K, j)) = n
    <2>1. CASE j = 0
      <3>1. ASSUME NEW x \in Upto(K, j) PROVE x = 0
        BY <2>1 DEF Upto
      <3>2. Upto(K, j) # {}
        <4>1. Cardinality(Upto(K, j)) # 0
          BY <1>2, <1>3, <1>5
        <4> QED  BY <4>1, FS_EmptySet
      <3>3. Upto(K, j) = {0} /\ 0 \in K
        BY <3>1, <3>2 DEF Upto
      <3>4. Cardinality(Upto(K, j)) = 1
        BY <3>3, FS_Singleton
      <3> QED  BY <3>3, <3>4, <2>1, <1>5, <1>2
    <2>2. CASE j # 0
      <3>1. j - 1 \in Nat /\ j - 1 \notin T
        BY <2>2, <1>5
      <3>2. Cardinality(Upto(K, j - 1)) < n
        BY <3>1, <1>3, <1>2
      <3>3. j \in K
        <4>1. SUFFICES ASSUME j \notin K PROVE FALSE
          OBVIOUS
        <4>2. ASSUME NEW x \in K PROVE x <= j <=> x <= j - 1
          BY <4>1, <2>2, <1>5
        <4>3. Upto(K, j) = Upto(K, j - 1)
          BY <4>2, Zenon DEF Upto
        <4> QED  BY <4>3, <3>2, <1>5, <1>3, <1>2
      <3>4. Upto(K, j) = Upto(K, j - 1) \cup {j} /\ j \notin Upto(K, j - 1)
        <4>1. ASSUME NEW x \in K PROVE x <= j <=> x <= j - 1 \/ x = j
          BY <3>3, <2>2, <1>5
        <4>2. ~(j <= j - 1)
          BY <1>5
        <4> QED  BY <4>1, <4>2, <3>3, Zenon DEF Upto
      <3>5. Cardinality(Upto(K, j)) = Cardinality(Upto(K, j - 1)) + 1
        BY <3>4, <1>3, FS_AddElement
      <3> QED  BY <3>2, <3>3, <3>5, <1>2, <1>3, <1>5
    <2> QED  BY <2>1, <2>2
  <1>7. \E k \in K : Cardinality({m \in K : m <= k}) = n
    BY <1>6 DEF Upto
  <1> QED  BY <1>7 DEF Nth, Upto

LEMMA NthIncreasing ==
    ASSUME NEW K \in SUBSET Nat, NEW L \in Nat, K \subseteq 0..L,
           NEW m \in 1..Cardinality(K), NEW n \in 1..Cardinality(K), m < n
    PROVE  Nth(K, m) < Nth(K, n)
  <1>1. IsFiniteSet(K)
    BY BoundedIsFinite
  <1>2. Cardinality(K) \in Nat /\ m \in Nat /\ n \in Nat
    BY <1>1, FS_CardinalityType
  <1>3. /\ Nth(K, m) \in K /\ Cardinality(Upto(K, Nth(K, m))) = m
        /\ Nth(K, n) \in K /\ Cardinality(Upto(K, Nth(K, n))) = n
    BY NthProperty
  <1>4. Nth(K, m) < Nth(K, n)
          <=> Cardinality(Upto(K, Nth(K, m))) < Cardinality(Upto(K, Nth(K, n)))
    BY <1>1, <1>3, UptoInjective
  <1> QED  BY <1>2, <1>3, <1>4

\* Every element of K is the n-th one for some n.
LEMMA NthOnto ==
    ASSUME NEW K \in SUBSET Nat, NEW L \in Nat, K \subseteq 0..L, NEW k \in K
    PROVE  \E n \in 1..Cardinality(K) : Nth(K, n) = k
  <1> DEFINE n == Cardinality(Upto(K, k))
  <1>1. IsFiniteSet(K)
    BY BoundedIsFinite
  <1>2. n \in Nat /\ n <= Cardinality(K) /\ Cardinality(K) \in Nat
    BY <1>1, UptoFinite
  <1>3. n # 0
    <2>1. k \in Upto(K, k) /\ IsFiniteSet(Upto(K, k))
      BY <1>1, UptoFinite DEF Upto
    <2> QED  BY <2>1, FS_EmptySet
  <1>4. n \in 1..Cardinality(K)
    BY <1>2, <1>3
  <1>5. Nth(K, n) \in K /\ Cardinality(Upto(K, Nth(K, n))) = n
    <2> HIDE DEF n
    <2> QED  BY <1>4, NthProperty
  <1>6. Nth(K, n) = k
    BY <1>1, <1>5, UptoInjective
  <1> QED  BY <1>4, <1>6

-----------------------------------------------------------------------------

LEMMA SubsequenceProperties ==
    ASSUME NEW S, NEW s \in Seq(S), NEW kept \in SUBSET (DOMAIN s)
    PROVE  /\ Cardinality(kept) \in Nat
           /\ Subsequence(s, kept) \in Seq(S)
           /\ Len(Subsequence(s, kept)) = Cardinality(kept)
           /\ DOMAIN Subsequence(s, kept) = 1..Cardinality(kept)
           /\ \A n \in 1..Cardinality(kept) :
                 Nth(kept, n) \in kept /\ Subsequence(s, kept)[n] = s[Nth(kept, n)]
           /\ Elements(Subsequence(s, kept)) = {s[k] : k \in kept}
  <1> DEFINE q == Subsequence(s, kept)
             c == Cardinality(kept)
  <1>1. Len(s) \in Nat /\ kept \subseteq 0..Len(s) /\ DOMAIN s = 1..Len(s)
    OBVIOUS
  <1>2. kept \in SUBSET Nat /\ c \in Nat
    BY <1>1, BoundedIsFinite
  <1>3. \A n \in 1..c : Nth(kept, n) \in kept
    BY <1>1, <1>2, NthProperty
  <1>4. \A k \in kept : \E n \in 1..c : Nth(kept, n) = k
    BY <1>1, <1>2, NthOnto
  <1>5. q = [n \in 1..c |-> s[Nth(kept, n)]]
    BY DEF Subsequence
  <1>6. \A k \in kept : s[k] \in S
    BY <1>1
  <1> HIDE DEF q, c
  <1>7. q \in [1..c -> S]
    BY <1>3, <1>5, <1>6
  <1>8. q \in Seq(S) /\ Len(q) = c /\ DOMAIN q = 1..c
    BY <1>2, <1>7
  <1>9. Elements(q) = {s[k] : k \in kept}
    BY <1>3, <1>4, <1>5, <1>8 DEF Elements
  <1> QED  BY <1>2, <1>3, <1>5, <1>8, <1>9 DEF q, c

LEMMA SubsequenceNoRepeats ==
    ASSUME NEW S, NEW s \in Seq(S), NEW kept \in SUBSET (DOMAIN s), NoRepeats(s)
    PROVE  NoRepeats(Subsequence(s, kept))
  <1> DEFINE q == Subsequence(s, kept)
             c == Cardinality(kept)
  <1>1. Len(s) \in Nat /\ kept \subseteq 0..Len(s) /\ DOMAIN s = 1..Len(s)
    OBVIOUS
  <1>2. kept \in SUBSET Nat /\ c \in Nat
    BY <1>1, BoundedIsFinite
  <1>3. \A m, n \in 1..c : m < n => Nth(kept, m) < Nth(kept, n)
    BY <1>1, <1>2, NthIncreasing
  <1>4. /\ DOMAIN q = 1..c
        /\ \A n \in 1..c : Nth(kept, n) \in kept /\ q[n] = s[Nth(kept, n)]
    BY SubsequenceProperties
  <1> HIDE DEF q, c
  <1>5. ASSUME NEW m \in 1..c, NEW n \in 1..c, q[m] = q[n]
        PROVE  m = n
    <2>1. Nth(kept, m) = Nth(kept, n)
      BY <1>4, <1>5 DEF NoRepeats
    <2>2. Nth(kept, m) \in Nat /\ m \in Nat /\ n \in Nat
      BY <1>2, <1>4
    <2> QED  BY <1>3, <2>1, <2>2
  <1> QED  BY <1>4, <1>5 DEF NoRepeats, q

LEMMA WithoutProperties ==
    ASSUME NEW S, NEW s \in Seq(S), NEW x
    PROVE  /\ Without(s, x) \in Seq(S)
           /\ Elements(Without(s, x)) = Elements(s) \ {x}
           /\ NoRepeats(s) => NoRepeats(Without(s, x))
  <1> DEFINE kept == {n \in DOMAIN s : s[n] # x}
  <1>1. Without(s, x) = Subsequence(s, kept)
    BY DEF Without
  <1>2. kept \in SUBSET (DOMAIN s)
    OBVIOUS
  <1>3. {s[k] : k \in kept} = Elements(s) \ {x}
    BY DEF Elements
  <1> HIDE DEF kept
  <1> QED  BY <1>1, <1>2, <1>3, SubsequenceProperties, SubsequenceNoRepeats

\* Leaving out the first index gives the tail.
LEMMA SubsequenceTail ==
    ASSUME NEW S, NEW s \in Seq(S), s # << >>
    PROVE  Subsequence(s, 2..Len(s)) = Tail(s)
  <1> DEFINE kept == 2..Len(s)
             q == Subsequence(s, kept)
  <1>1. Len(s) \in Nat /\ Len(s) >= 1 /\ DOMAIN s = 1..Len(s)
    BY EmptySeq, LenProperties
  <1>2. kept \in SUBSET (DOMAIN s) /\ kept \subseteq 0..Len(s) /\ kept \in SUBSET Nat
    BY <1>1
  <1>3. Cardinality(kept) = Len(s) - 1 /\ IsFiniteSet(kept)
    <2>1. Len(s) \in Int /\ 2 \in Int
      BY <1>1
    <2>2. IsFiniteSet(2..Len(s)) /\ Cardinality(2..Len(s)) = IF 2 > Len(s) THEN 0 ELSE Len(s) - 2 + 1
      BY <2>1, FS_Interval
    <2> QED  BY <2>2, <1>1
  <1>4. ASSUME NEW n \in 1..Len(s) - 1
        PROVE  Nth(kept, n) = n + 1
    <2>1. n + 1 \in kept /\ Upto(kept, n + 1) = 2..n + 1
      BY <1>1 DEF Upto
    <2>2. Cardinality(2..n + 1) = n
      <3>1. 2 \in Int /\ n + 1 \in Int /\ ~(2 > n + 1) /\ n + 1 - 2 + 1 = n
        OBVIOUS
      <3> QED  BY <3>1, FS_Interval
    <2>3. Nth(kept, n) \in kept /\ Cardinality(Upto(kept, Nth(kept, n))) = n
      <3>1. n \in 1..Cardinality(kept)
        BY <1>3
      <3> QED  BY <3>1, <1>1, <1>2, NthProperty
    <2> HIDE DEF kept
    <2> QED  BY <1>2, <1>3, <2>1, <2>2, <2>3, UptoInjective
  <1>5. /\ q \in Seq(S) /\ Len(q) = Len(s) - 1
        /\ \A n \in 1..Len(s) - 1 : q[n] = s[n + 1]
    <2> HIDE DEF kept
    <2> QED  BY <1>2, <1>3, <1>4, SubsequenceProperties
  <1>6. /\ Tail(s) \in Seq(S) /\ Len(Tail(s)) = Len(s) - 1
        /\ \A n \in 1..Len(s) - 1 : Tail(s)[n] = s[n + 1]
    BY HeadTailProperties
  <1> HIDE DEF q
  <1>7. q = Tail(s)
    BY <1>5, <1>6, SeqEqual
  <1> QED  BY <1>7 DEF q

\* Removing what is not there changes nothing.
LEMMA WithoutAbsent ==
    ASSUME NEW S, NEW s \in Seq(S), NEW x, x \notin Elements(s)
    PROVE  Without(s, x) = s
  <1> DEFINE K == DOMAIN s
             q == Subsequence(s, K)
  <1>1. Len(s) \in Nat /\ K = 1..Len(s)
    BY LenProperties
  <1>2. Without(s, x) = q
    BY DEF Without, Elements
  <1>3. K \in SUBSET Nat /\ K \subseteq 0..Len(s)
    BY <1>1
  <1>4. Cardinality(K) = Len(s)
    <2>1. Cardinality(1..Len(s)) = IF 1 > Len(s) THEN 0 ELSE Len(s) - 1 + 1
      BY <1>1, FS_Interval
    <2> QED  BY <1>1, <2>1
  <1>5. ASSUME NEW n \in 1..Len(s) PROVE Nth(K, n) = n
    <2> DEFINE k == Nth(K, n)
    <2>1. k \in K /\ Cardinality(Upto(K, k)) = n
      BY <1>1, <1>3, <1>4, <1>5, NthProperty
    <2> HIDE DEF k
    <2>2. k \in Nat /\ k >= 1 /\ Upto(K, k) = 1..k
      BY <1>1, <2>1 DEF Upto
    <2>3. Cardinality(1..k) = IF 1 > k THEN 0 ELSE k - 1 + 1
      BY <2>2, FS_Interval
    <2>4. k = n
      BY <2>1, <2>2, <2>3, <1>5
    <2> QED  BY <2>4 DEF k
  <1>6. /\ q \in Seq(S) /\ Len(q) = Len(s)
        /\ \A n \in 1..Len(s) : q[n] = s[Nth(K, n)]
    BY <1>1, <1>4, SubsequenceProperties
  <1> HIDE DEF K, q
  <1>7. \A n \in 1..Len(s) : q[n] = s[n]
    BY <1>5, <1>6
  <1> QED  BY <1>2, <1>6, <1>7, SeqEqual

-----------------------------------------------------------------------------
\* The lines and the list of a cache.

LEMMA PartialFunction ==
    ASSUME NEW A, NEW X, NEW f
    PROVE  f \in UNION {[S -> X] : S \in SUBSET A}
           <=> /\ f = [x \in DOMAIN f |-> f[x]]
               /\ DOMAIN f \subseteq A
               /\ \A x \in DOMAIN f : f[x] \in X
  OBVIOUS

\* c.lru and c.data match but possibly at a, the address being moved up.
MatchesBut(c, a) ==
    /\ NoRepeats(c.lru)
    /\ Elements(c.lru) \ {a} = DOMAIN c.data \ {a}

\* updateLRUOrder puts a at the front and keeps what it does not evict.
LEMMA UpdateLRUOrderProperties ==
    ASSUME NEW A, NEW D, NEW c \in CacheOf(A, D), NEW a \in A, MatchesBut(c, a),
           NEW u, u = UpdateLRUOrder(c, a)
    PROVE  /\ u \in CacheOf(A, D)
           /\ MatchesBut(u, a)
           /\ a \in Elements(u.lru)
           /\ Len(u.lru) <= MaxCacheLines
           /\ a \in DOMAIN c.data <=> a \in DOMAIN u.data
           /\ DOMAIN u.data \subseteq DOMAIN c.data
           /\ \A b \in DOMAIN u.data : u.data[b] = c.data[b]
  <1> DEFINE rest == Without(c.lru, a)
             order == <<a>> \o rest
             kept == {n \in DOMAIN order : n <= MaxCacheLines}
             evicted == {order[n] : n \in DOMAIN order \ kept}
             lru == [n \in kept |-> order[n]]
             data == [b \in DOMAIN c.data \ evicted |-> c.data[b]]
             m == IF Len(order) <= MaxCacheLines THEN Len(order) ELSE MaxCacheLines
  <1>1. c.lru \in Seq(A) /\ MaxCacheLines \in Nat /\ MaxCacheLines >= 1
    BY CacheAssumption DEF CacheOf
  <1>2. /\ rest \in Seq(A)
        /\ Elements(rest) = Elements(c.lru) \ {a}
        /\ NoRepeats(rest)
    BY <1>1, WithoutProperties DEF MatchesBut
  <1>3. /\ order \in Seq(A) /\ Len(order) = Len(rest) + 1 /\ Len(rest) \in Nat
        /\ order[1] = a
        /\ \A n \in 2..Len(order) : order[n] = rest[n - 1]
    <2> HIDE DEF rest
    <2> QED  BY <1>2
  <1>4. NoRepeats(order)
    <2>1. \A n \in 1..Len(rest) : rest[n] # a
      <3>1. a \notin Elements(rest)
        BY <1>2
      <3> HIDE DEF rest
      <3> QED  BY <3>1, <1>2 DEF Elements
    <2> HIDE DEF rest, order
    <2>2. ASSUME NEW j \in 1..Len(order), NEW k \in 1..Len(order), order[j] = order[k]
          PROVE  j = k
      <3>1. CASE j = 1 /\ k = 1
        BY <3>1
      <3>2. CASE j = 1 /\ k # 1
        <4>1. k - 1 \in 1..Len(rest) /\ order[k] = rest[k - 1] /\ order[j] = a
          BY <3>2, <1>3
        <4> QED  BY <4>1, <2>1, <2>2
      <3>3. CASE j # 1 /\ k = 1
        <4>1. j - 1 \in 1..Len(rest) /\ order[j] = rest[j - 1] /\ order[k] = a
          BY <3>3, <1>3
        <4> QED  BY <4>1, <2>1, <2>2
      <3>4. CASE j # 1 /\ k # 1
        <4>1. j - 1 \in 1..Len(rest) /\ k - 1 \in 1..Len(rest) /\ rest[j - 1] = rest[k - 1]
          BY <3>4, <1>3, <2>2
        <4>2. j - 1 = k - 1
          BY <4>1, <1>2 DEF NoRepeats
        <4> QED  BY <4>2
      <3> QED  BY <3>1, <3>2, <3>3, <3>4
    <2>3. DOMAIN order = 1..Len(order)
      BY <1>3
    <2> QED  BY <2>2, <2>3 DEF NoRepeats
  <1>5. Elements(order) = Elements(c.lru) \cup {a}
    <2>1. Elements(order) = {a} \cup Elements(rest)
      <3> HIDE DEF rest, order
      <3>1. DOMAIN order = 1..Len(order) /\ DOMAIN rest = 1..Len(rest)
        BY <1>2, <1>3
      <3>2. ASSUME NEW x \in Elements(order) PROVE x \in {a} \cup Elements(rest)
        BY <3>1, <3>2, <1>3 DEF Elements
      <3>3. a \in Elements(order)
        BY <3>1, <1>3 DEF Elements
      <3>4. ASSUME NEW n \in 1..Len(rest) PROVE rest[n] \in Elements(order)
        <4>1. n + 1 \in 2..Len(order) /\ (n + 1) - 1 = n
          BY <1>3
        <4>2. order[n + 1] = rest[n]
          BY <4>1, <1>3
        <4> QED  BY <4>1, <4>2, <3>1, <1>3 DEF Elements
      <3> QED  BY <3>1, <3>2, <3>3, <3>4 DEF Elements
    <2> QED  BY <2>1, <1>2
  <1> HIDE DEF rest
  <1>6. DOMAIN order = 1..Len(order) /\ Len(order) \in Nat
    BY <1>3
  <1> HIDE DEF order
  <1>7. kept = 1..m /\ m \in Nat /\ m >= 1 /\ m <= MaxCacheLines /\ m <= Len(order)
    <2>1. m \in Nat /\ m >= 1 /\ m <= MaxCacheLines /\ m <= Len(order)
      BY <1>1, <1>3, <1>6
    <2>2. \A n \in 1..Len(order) : n <= MaxCacheLines <=> n <= m
      BY <1>1, <1>6
    <2>3. kept = 1..m
      <3> HIDE DEF m
      <3> QED  BY <2>1, <2>2, <1>6
    <2> QED  BY <2>1, <2>3
  <1> HIDE DEF m, kept
  <1>8. /\ lru \in Seq(A) /\ Len(lru) = m /\ DOMAIN lru = 1..m
        /\ \A n \in 1..m : lru[n] = order[n]
    <2>1. \A n \in 1..m : order[n] \in A
      BY <1>3, <1>6, <1>7
    <2>2. lru \in [1..m -> A]
      BY <2>1, <1>7
    <2>3. lru \in Seq(A)
      BY <2>2, <1>7
    <2> QED  BY <2>2, <2>3, <1>7
  <1> HIDE DEF lru
  <1>9. NoRepeats(lru)
    BY <1>4, <1>6, <1>7, <1>8 DEF NoRepeats
  <1>10. a \in Elements(lru) /\ a \notin evicted
    <2>1. 1 \in 1..m /\ 1 \in DOMAIN order /\ 1 \in kept
      BY <1>6, <1>7
    <2>2. lru[1] = a
      BY <2>1, <1>3, <1>8
    <2>3. a \in Elements(lru)
      BY <2>1, <2>2, <1>8 DEF Elements
    <2>4. ASSUME NEW k \in DOMAIN order, k \notin kept PROVE order[k] # a
      BY <2>1, <2>4, <1>3, <1>4 DEF NoRepeats
    <2> QED  BY <2>3, <2>4
  <1>11. Elements(lru) = (Elements(c.lru) \cup {a}) \ evicted
    <2>1. ASSUME NEW x \in Elements(lru)
          PROVE  x \in Elements(order) /\ x \notin evicted
      <3>1. PICK k \in 1..m : x = order[k]
        BY <1>8, <2>1 DEF Elements
      <3>2. k \in DOMAIN order /\ k \in kept
        BY <1>6, <1>7
      <3> QED  BY <3>1, <3>2, <1>4 DEF Elements, NoRepeats
    <2>2. ASSUME NEW x \in Elements(order), x \notin evicted
          PROVE  x \in Elements(lru)
      <3>1. PICK k \in DOMAIN order : x = order[k]
        BY <2>2 DEF Elements
      <3>2. k \in 1..m
        BY <3>1, <2>2, <1>7
      <3> QED  BY <3>1, <3>2, <1>8 DEF Elements
    <2> HIDE DEF evicted
    <2> QED  BY <2>1, <2>2, <1>5
  <1> HIDE DEF evicted
  <1>12. data \in UNION {[S -> LineOf(D)] : S \in SUBSET A}
    <2>1. c.data \in UNION {[S -> LineOf(D)] : S \in SUBSET A}
      BY DEF CacheOf
    <2>2. DOMAIN c.data \subseteq A /\ \A b \in DOMAIN c.data : c.data[b] \in LineOf(D)
      BY <2>1, PartialFunction
    <2>3. data \in [DOMAIN c.data \ evicted -> LineOf(D)]
      BY <2>2
    <2>4. DOMAIN c.data \ evicted \in SUBSET A
      BY <2>2
    <2> HIDE DEF data
    <2> QED  BY <2>3, <2>4
  <1>13. UpdateLRUOrder(c, a) = [data |-> data, lru |-> lru]
    BY Zenon DEF UpdateLRUOrder, lru, data, evicted, kept, order, rest
  <1>14. DOMAIN data = DOMAIN c.data \ evicted /\ \A b \in DOMAIN data : data[b] = c.data[b]
    OBVIOUS
  <1> HIDE DEF data
  <1>15. u.data = data /\ u.lru = lru /\ u \in CacheOf(A, D)
    BY <1>8, <1>12, <1>13 DEF CacheOf
  <1>16. MatchesBut(u, a)
    BY <1>9, <1>11, <1>14, <1>15 DEF MatchesBut
  <1> QED  BY <1>7, <1>8, <1>10, <1>13, <1>14, <1>15, <1>16

-----------------------------------------------------------------------------
\* c is a cache over A and D in the state its own operations leave it in.
Sound(c, A, D) == c \in CacheOf(A, D) /\ LruMatches(c)

\* Going from c to u, no line but that of a changes state, unless evicted.
OthersKept(c, u, a) ==
    \A b : b # a => GetCurrentState(u, b) \in {GetCurrentState(c, b), "INVALID"}

\* The lines of u, but for that of a, are lines of c.
LinesKept(c, u, a) ==
    \A b \in DOMAIN u.data : b # a => b \in DOMAIN c.data /\ u.data[b] = c.data[b]

LEMMA CacheFields ==
    ASSUME NEW A, NEW D, NEW c \in CacheOf(A, D)
    PROVE  /\ c = [data |-> c.data, lru |-> c.lru]
           /\ c.lru \in Seq(A)
           /\ c.data = [b \in DOMAIN c.data |-> c.data[b]]
           /\ DOMAIN c.data \subseteq A
           /\ \A b \in DOMAIN c.data : c.data[b] \in LineOf(D)
  <1>1. c.data \in UNION {[S -> LineOf(D)] : S \in SUBSET A} /\ c.lru \in Seq(A)
    BY DEF CacheOf
  <1>2. c = [data |-> c.data, lru |-> c.lru]
    BY DEF CacheOf
  <1> QED  BY <1>1, <1>2, PartialFunction

LEMMA PutLineProperties ==
    ASSUME NEW A, NEW D, NEW c \in CacheOf(A, D), NEW a \in A, NEW line \in LineOf(D),
           NEW u, u = PutLine(c, a, line)
    PROVE  /\ u \in CacheOf(A, D)
           /\ u.lru = c.lru
           /\ DOMAIN u.data = DOMAIN c.data \cup {a}
           /\ u.data[a] = line
           /\ \A b \in DOMAIN c.data : b # a => u.data[b] = c.data[b]
  <1>1. /\ u.data \in [DOMAIN c.data \cup {a} -> LineOf(D)]
        /\ u.lru = c.lru
        /\ DOMAIN u.data = DOMAIN c.data \cup {a}
        /\ u.data[a] = line
        /\ \A b \in DOMAIN c.data : b # a => u.data[b] = c.data[b]
    BY CacheFields DEF PutLine
  <1>2. DOMAIN c.data \cup {a} \in SUBSET A /\ c.lru \in Seq(A)
    BY CacheFields
  <1>3. u.data \in UNION {[S -> LineOf(D)] : S \in SUBSET A}
    BY <1>1, <1>2
  <1>4. u = [data |-> u.data, lru |-> u.lru]
    BY DEF PutLine
  <1>5. u \in CacheOf(A, D)
    BY <1>1, <1>2, <1>3, <1>4 DEF CacheOf
  <1> QED  BY <1>1, <1>5

\* setCurrentState moves the line of a to newState, resident or not.
LEMMA SetCurrentStateProperties ==
    ASSUME NEW A, NEW D, 0 \in D, NEW c, Sound(c, A, D), NEW a \in A,
           NEW newState \in LineState
    PROVE  LET u == SetCurrentState(c, a, newState)
           IN  /\ Sound(u, A, D)
               /\ GetCurrentState(u, a) = newState
               /\ OthersKept(c, u, a) /\ LinesKept(c, u, a)
               /\ a \in DOMAIN u.data
               /\ a \in DOMAIN c.data => u.data[a].data = c.data[a].data
  <1>0. c \in CacheOf(A, D) /\ LruMatches(c)
    BY DEF Sound
  <1>1. CASE a \in DOMAIN c.data
    <2> DEFINE line == [state |-> newState, data |-> c.data[a].data]
               u == PutLine(c, a, line)
    <2>1. line \in LineOf(D) /\ line.state = newState /\ line.data = c.data[a].data
      BY <1>0, <1>1, CacheFields DEF LineOf
    <2> HIDE DEF line
    <2>2. /\ u \in CacheOf(A, D)
          /\ u.lru = c.lru
          /\ DOMAIN u.data = DOMAIN c.data \cup {a}
          /\ u.data[a] = line
          /\ \A b \in DOMAIN c.data : b # a => u.data[b] = c.data[b]
      BY <1>0, <2>1, PutLineProperties
    <2>3. SetCurrentState(c, a, newState) = u
      BY <1>1, Zenon DEF SetCurrentState, line
    <2> HIDE DEF u
    <2>4. Sound(u, A, D)
      BY <1>0, <1>1, <2>2 DEF Sound, LruMatches
    <2>5. GetCurrentState(u, a) = newState
      BY <2>1, <2>2 DEF GetCurrentState
    <2>6. OthersKept(c, u, a) /\ LinesKept(c, u, a)
      BY <2>2 DEF OthersKept, LinesKept, GetCurrentState
    <2> QED  BY <2>1, <2>2, <2>3, <2>4, <2>5, <2>6
  <1>2. CASE a \notin DOMAIN c.data
    <2> DEFINE line == [state |-> newState, data |-> 0]
               v == PutLine(c, a, line)
               u == UpdateLRUOrder(v, a)
    <2>1. line \in LineOf(D) /\ line.state = newState
      BY DEF LineOf
    <2> HIDE DEF line
    <2>2. /\ v \in CacheOf(A, D)
          /\ v.lru = c.lru
          /\ DOMAIN v.data = DOMAIN c.data \cup {a}
          /\ v.data[a] = line
          /\ \A b \in DOMAIN c.data : b # a => v.data[b] = c.data[b]
      BY <1>0, <2>1, PutLineProperties
    <2>3. SetCurrentState(c, a, newState) = u
      BY <1>2, Zenon DEF SetCurrentState, line
    <2> HIDE DEF v
    <2>4. MatchesBut(v, a)
      BY <1>0, <1>2, <2>2 DEF LruMatches, MatchesBut
    <2>5. /\ u \in CacheOf(A, D)
          /\ MatchesBut(u, a)
          /\ a \in Elements(u.lru)
          /\ Len(u.lru) <= MaxCacheLines
          /\ a \in DOMAIN v.data <=> a \in DOMAIN u.data
          /\ DOMAIN u.data \subseteq DOMAIN v.data
          /\ \A b \in DOMAIN u.data : u.data[b] = v.data[b]
      BY <2>2, <2>4, UpdateLRUOrderProperties
    <2> HIDE DEF u
    <2>6. Sound(u, A, D)
      BY <2>2, <2>5 DEF Sound, LruMatches, MatchesBut
    <2>7. GetCurrentState(u, a) = newState
      BY <2>1, <2>2, <2>5 DEF GetCurrentState
    <2>8. OthersKept(c, u, a) /\ LinesKept(c, u, a)
      BY <2>2, <2>5 DEF OthersKept, LinesKept, GetCurrentState
    <2> QED  BY <1>2, <2>2, <2>3, <2>5, <2>6, <2>7, <2>8
  <1> QED  BY <1>1, <1>2

\* readFromCache of a resident line changes no line, but may evict others.
LEMMA ReadFromCacheProperties ==
    ASSUME NEW A, NEW D, NEW c, Sound(c, A, D), NEW a \in DOMAIN c.data
    PROVE  LET u == ReadFromCache(c, a)
           IN  /\ Sound(u, A, D)
               /\ GetCurrentState(u, a) = GetCurrentState(c, a)
               /\ OthersKept(c, u, a) /\ LinesKept(c, u, a)
               /\ a \in DOMAIN u.data /\ u.data[a] = c.data[a]
               /\ ReadValue(c, a) = c.data[a].data
               /\ ReadValue(c, a) \in D
  <1> DEFINE u == UpdateLRUOrder(c, a)
  <1>1. c \in CacheOf(A, D) /\ LruMatches(c) /\ MatchesBut(c, a) /\ a \in A
    BY CacheFields DEF Sound, LruMatches, MatchesBut
  <1>2. /\ u \in CacheOf(A, D)
        /\ MatchesBut(u, a)
        /\ a \in Elements(u.lru)
        /\ Len(u.lru) <= MaxCacheLines
        /\ a \in DOMAIN c.data <=> a \in DOMAIN u.data
        /\ DOMAIN u.data \subseteq DOMAIN c.data
        /\ \A b \in DOMAIN u.data : u.data[b] = c.data[b]
    BY <1>1, UpdateLRUOrderProperties
  <1>3. ReadFromCache(c, a) = u
    BY Zenon DEF ReadFromCache
  <1>4. ReadValue(c, a) = IF a \in DOMAIN u.data THEN u.data[a].data ELSE -1
    BY Zenon DEF ReadValue
  <1> HIDE DEF u
  <1>5. Sound(u, A, D)
    BY <1>2 DEF Sound, LruMatches, MatchesBut
  <1>6. /\ GetCurrentState(u, a) = GetCurrentState(c, a)
        /\ OthersKept(c, u, a) /\ LinesKept(c, u, a)
        /\ a \in DOMAIN u.data /\ u.data[a] = c.data[a]
    BY <1>2 DEF GetCurrentState, OthersKept, LinesKept
  <1>7. ReadValue(c, a) = c.data[a].data /\ c.data[a] \in LineOf(D)
    BY <1>1, <1>2, <1>4, CacheFields
  <1> QED  BY <1>3, <1>5, <1>6, <1>7 DEF LineOf

\* writeToCache leaves the line of a resident, in the state it had.
LEMMA WriteToCacheProperties ==
    ASSUME NEW A, NEW D, NEW c, Sound(c, A, D), NEW a \in A, NEW d \in D
    PROVE  LET w == WriteToCache(c, a, d)
           IN  /\ Sound(w, A, D)
               /\ GetCurrentState(w, a) = GetCurrentState(c, a)
               /\ OthersKept(c, w, a) /\ LinesKept(c, w, a)
               /\ a \in DOMAIN w.data /\ w.data[a].data = d
  <1> DEFINE u == UpdateLRUOrder(c, a)
             line == [state |-> GetCurrentState(u, a), data |-> d]
             w == PutLine(u, a, line)
  <1>1. c \in CacheOf(A, D) /\ LruMatches(c) /\ MatchesBut(c, a)
    BY DEF Sound, LruMatches, MatchesBut
  <1>2. /\ u \in CacheOf(A, D)
        /\ MatchesBut(u, a)
        /\ a \in Elements(u.lru)
        /\ Len(u.lru) <= MaxCacheLines
        /\ a \in DOMAIN c.data <=> a \in DOMAIN u.data
        /\ DOMAIN u.data \subseteq DOMAIN c.data
        /\ \A b \in DOMAIN u.data : u.data[b] = c.data[b]
    BY <1>1, UpdateLRUOrderProperties
  <1>3. WriteToCache(c, a, d) = w
    BY Zenon DEF WriteToCache
  <1> HIDE DEF u
  <1>4. line \in LineOf(D) /\ line.state = GetCurrentState(c, a) /\ line.data = d
    BY <1>1, <1>2, CacheFields DEF GetCurrentState, LineOf, LineState, CacheState
  <1> HIDE DEF line
  <1>5. /\ w \in CacheOf(A, D)
        /\ w.lru = u.lru
        /\ DOMAIN w.data = DOMAIN u.data \cup {a}
        /\ w.data[a] = line
        /\ \A b \in DOMAIN u.data : b # a => w.data[b] = u.data[b]
    BY <1>2, <1>4, PutLineProperties
  <1> HIDE DEF w
  <1>6. Sound(w, A, D)
    BY <1>2, <1>5 DEF Sound, LruMatches, MatchesBut
  <1>7. GetCurrentState(w, a) = GetCurrentState(c, a)
    BY <1>4, <1>5 DEF GetCurrentState
  <1>8. OthersKept(c, w, a) /\ LinesKept(c, w, a)
    BY <1>2, <1>5 DEF OthersKept, LinesKept, GetCurrentState
  <1> QED  BY <1>3, <1>4, <1>5, <1>6, <1>7, <1>8

=============================================================================
