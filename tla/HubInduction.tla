------------------------------ MODULE HubInduction ------------------------------
(***************************************************************************)
(* Induction over the naturals for sets, and the functions an iteration    *)
(* defines: what the proofs about Rebuild and about the walks of a thread  *)
(* need of the loops of the code.                                          *)
(***************************************************************************)
EXTENDS Queues, WellFoundedInduction, FiniteSetTheorems, TLAPS

Less == {ss \in Nat \X Nat : ss[1] < ss[2]}

\* The order of the naturals has no infinite descent.
LEMMA LessWF == IsWellFoundedOn(Less, Nat)
  <1>1. IsWellFoundedOn({ss \in Nat \X Nat : ss[1] < ss[2]}, Nat)
    BY NatLessThanWellFounded DEF OpToRel
  <1> QED
    BY <1>1 DEF Less

\* A set of naturals has a least one.
LEMMA Least ==
    ASSUME NEW S, S \subseteq Nat, S # {}
    PROVE  \E n \in S : \A m \in S : n <= m
  <1>1. PICK n \in S : \A m \in S : <<m, n>> \notin Less
    BY LessWF, WFMin
  <1>2. ASSUME NEW m \in S PROVE n <= m
    <2>1. m \in Nat /\ n \in Nat /\ <<m, n>> \notin Less
      BY <1>1
    <2>2. ~ (m < n)
      BY <2>1 DEF Less
    <2> QED
      BY <2>1, <2>2
  <1> QED
    BY <1>2

\* A set that holds nought, and n + 1 with n, holds every natural.
LEMMA Induction ==
    ASSUME NEW S, 0 \in S, \A n \in Nat : n \in S => n + 1 \in S
    PROVE  \A n \in Nat : n \in S
  <1>1. SUFFICES ASSUME Nat \ S # {} PROVE FALSE
    OBVIOUS
  <1>2. PICK n \in Nat \ S : \A m \in Nat \ S : n <= m
    BY <1>1, Least
  <1>3. n # 0 /\ n - 1 \in Nat /\ n - 1 \notin Nat \ S
    BY <1>2
  <1> QED
    BY <1>3, <1>2

\* The values an iteration takes in its first k steps, g[<<n, x>>] being what
\* the n-th step makes of x.
Iterates(f, D, e, k, g) ==
    /\ f \in [0 .. k -> D]
    /\ f[0] = e
    /\ \A n \in 1 .. k : f[n] = g[<<n, f[n - 1]>>]

LEMMA Iteration ==
    ASSUME NEW D, NEW e \in D, NEW k \in Nat, NEW g,
           \A n \in 1 .. k, x \in D : g[<<n, x>>] \in D
    PROVE  \E f : Iterates(f, D, e, k, g)
  <1> DEFINE Upto(j) == \E f : Iterates(f, D, e, j, g)
             S == {j \in Nat : j <= k => Upto(j)}
  <1>1. 0 \in S
    <2> DEFINE z == [n \in 0 .. 0 |-> e]
    <2>1. z \in [0 .. 0 -> D] /\ z[0] = e
      OBVIOUS
    <2> HIDE DEF z
    <2>2. Iterates(z, D, e, 0, g)
      BY <2>1 DEF Iterates
    <2> QED
      BY <2>2
  <1>2. ASSUME NEW j \in Nat, j \in S PROVE j + 1 \in S
    <2>1. SUFFICES ASSUME j + 1 <= k PROVE Upto(j + 1)
      OBVIOUS
    <2>2. PICK f : Iterates(f, D, e, j, g)
      BY <1>2, <2>1
    <2> DEFINE h == [n \in 0 .. j + 1 |-> IF n <= j THEN f[n] ELSE g[<<j + 1, f[j]>>]]
    <2>3. g[<<j + 1, f[j]>>] \in D
      <3>1. f[j] \in D /\ j + 1 \in 1 .. k
        BY <2>1, <2>2 DEF Iterates
      <3> QED
        BY <3>1
    <2>4. h \in [0 .. j + 1 -> D]
      BY <2>2, <2>3 DEF Iterates
    <2>5. h[0] = e /\ \A n \in 1 .. j + 1 : h[n] = g[<<n, h[n - 1]>>]
      <3>1. h[0] = e
        BY <2>2 DEF Iterates
      <3>2. ASSUME NEW n \in 1 .. j + 1 PROVE h[n] = g[<<n, h[n - 1]>>]
        <4>1. h[n - 1] = f[n - 1]
          OBVIOUS
        <4>2. CASE n <= j
          BY <4>1, <4>2, <2>2 DEF Iterates
        <4>3. CASE ~ (n <= j)
          <5>1. n = j + 1 /\ n - 1 = j
            BY <4>3
          <5>2. h[n - 1] = f[j]
            BY <4>1, <5>1
          <5>3. h[n] = g[<<j + 1, f[j]>>]
            BY <4>3
          <5> QED
            BY <5>1, <5>2, <5>3
        <4> QED
          BY <4>2, <4>3
      <3> QED
        BY <3>1, <3>2
    <2> HIDE DEF h
    <2>6. Iterates(h, D, e, j + 1, g)
      BY <2>4, <2>5 DEF Iterates
    <2> QED
      BY <2>6
  <1>3. k \in S
    <2> HIDE DEF S
    <2> QED
      BY <1>1, <1>2, Induction
  <1> QED
    BY <1>3

-----------------------------------------------------------------------------
(* The places of a queue.                                                  *)

\* How many of K stand before i.
Below(K, i) == {j \in K : j < i}

\* Every rank below the size of a finite set of naturals is some member's.
LEMMA Ranks ==
    ASSUME NEW K, K \subseteq Nat, IsFiniteSet(K)
    PROVE  \A n \in Nat : n < Cardinality(K) => \E i \in K : Cardinality(Below(K, i)) = n
  <1> DEFINE Has(n) == \E i \in K : Cardinality(Below(K, i)) = n
             S == {n \in Nat : n < Cardinality(K) => Has(n)}
  <1>0. Cardinality(K) \in Nat
    BY FS_CardinalityType
  <1>1. 0 \in S
    <2> SUFFICES ASSUME 0 < Cardinality(K) PROVE Has(0)
      OBVIOUS
    <2>1. K # {}
      BY FS_EmptySet
    <2>2. PICK i \in K : \A m \in K : i <= m
      BY <2>1, Least
    <2>3. Below(K, i) = {}
      <3>1. \A m \in K : ~ (m < i)
        BY <2>2
      <3> QED
        BY <3>1 DEF Below
    <2> QED
      BY <2>3, FS_EmptySet
  <1>2. ASSUME NEW n \in Nat, n \in S PROVE n + 1 \in S
    <2> SUFFICES ASSUME n + 1 < Cardinality(K) PROVE Has(n + 1)
      OBVIOUS
    <2>1. PICK i \in K : Cardinality(Below(K, i)) = n
      BY <1>0, <1>2
    <2>2. Below(K, i) \subseteq K /\ i \notin Below(K, i)
      BY DEF Below
    <2>3. IsFiniteSet(Below(K, i))
      BY <2>2, FS_Subset
    <2>4. Cardinality(Below(K, i) \cup {i}) = n + 1
      BY <2>1, <2>2, <2>3, FS_AddElement
    <2> DEFINE T == {j \in K : i < j}
    <2>5. T # {}
      <3> SUFFICES ASSUME T = {} PROVE FALSE
        OBVIOUS
      <3>1. \A j \in K : j < i \/ j = i
        <4> TAKE j \in K
        <4>1. ~ (i < j) /\ i \in Nat /\ j \in Nat
          OBVIOUS
        <4> QED
          BY <4>1
      <3>2. Below(K, i) \cup {i} = K
        BY <3>1 DEF Below
      <3>3. Cardinality(K) = n + 1
        BY <2>4, <3>2, Zenon
      <3> QED
        BY <1>0, <3>3
    <2>6. PICK k \in T : \A m \in T : k <= m
      <3>1. T \subseteq Nat
        OBVIOUS
      <3> QED
        BY <2>5, <3>1, Least
    <2>7. Below(K, k) = Below(K, i) \cup {i}
      <3>1. ASSUME NEW j \in K PROVE j < k <=> j < i \/ j = i
        <4>1. j \in Nat /\ i \in Nat /\ k \in Nat /\ i < k /\ (i < j => k <= j)
          BY <2>6
        <4> QED
          BY <4>1
      <3> QED
        BY <2>6, <3>1 DEF Below
    <2> QED
      BY <2>4, <2>6, <2>7
  <1> HIDE DEF S
  <1>3. \A n \in Nat : n \in S
    BY <1>1, <1>2, Induction
  <1> QED
    BY <1>3 DEF S

\* A finite set of naturals has a greatest one.
LEMMA Greatest ==
    ASSUME NEW K, K \subseteq Nat, IsFiniteSet(K), K # {}
    PROVE  \E i \in K : \A j \in K : j <= i
  <1>1. PICK k : k = Cardinality(K) /\ k \in Nat /\ k # 0
    BY FS_CardinalityType, FS_EmptySet
  <1>2. k - 1 \in Nat /\ k - 1 < k
    BY <1>1
  <1>3. PICK i \in K : Cardinality(Below(K, i)) = k - 1
    BY <1>1, <1>2, Ranks
  <1>4. IsFiniteSet(K \ {i}) /\ Cardinality(K \ {i}) = k - 1
    BY <1>1, FS_RemoveElement
  <1>5. Below(K, i) \in SUBSET (K \ {i})
    BY DEF Below
  <1>6. Below(K, i) = K \ {i}
    BY <1>3, <1>4, <1>5, FS_Subset
  <1>7. \A j \in K : j <= i
    BY <1>6 DEF Below
  <1> QED
    BY <1>7

\* A finite set in order is a sequence of its members.
LEMMA RankedOf ==
    ASSUME NEW S, S \subseteq Nat, IsFiniteSet(S)
    PROVE  Ranked(S) \in Seq(S) /\ Len(Ranked(S)) = Cardinality(S)
  <1> DEFINE k == Cardinality(S)
             rank == [n \in 1 .. k |-> CHOOSE i \in S : Cardinality(Below(S, i)) = n - 1]
  <1>1. k \in Nat
    BY FS_CardinalityType
  <1>2. ASSUME NEW n \in 1 .. k PROVE rank[n] \in S
    <2>1. n - 1 \in Nat /\ n - 1 < k
      BY <1>1
    <2>2. \E i \in S : Cardinality(Below(S, i)) = n - 1
      BY <2>1, Ranks
    <2> QED
      BY <2>2
  <1>3. Ranked(S) = rank
    BY DEF Ranked, Below
  <1>4. DOMAIN rank = 1 .. k
    OBVIOUS
  <1> HIDE DEF rank, k
  <1>5. rank = [n \in 1 .. k |-> rank[n]]
    BY <1>4 DEF rank
  <1>6. rank \in Seq(S) /\ Len(rank) = k
    BY <1>1, <1>2, <1>5
  <1> QED
    BY <1>3, <1>6 DEF k

\* What is kept of a queue is a queue, and of its entries.
LEMMA PickedOf ==
    ASSUME NEW D, NEW queue \in Seq(D), NEW K, K \subseteq DOMAIN queue
    PROVE  /\ Picked(queue, K) \in Seq(D)
           /\ \A n \in DOMAIN Picked(queue, K) : \E i \in K : Picked(queue, K)[n] = queue[i]
  <1>1. K \subseteq Nat /\ IsFiniteSet(K) /\ K \subseteq 1 .. Len(queue) /\ Len(queue) \in Nat
    <2>1. DOMAIN queue = 1 .. Len(queue) /\ Len(queue) \in Nat
      OBVIOUS
    <2>2. IsFiniteSet(1 .. Len(queue))
      BY <2>1, FS_Interval
    <2> QED
      BY <2>1, <2>2, FS_Subset
  <1>2. PICK k, rank : k = Cardinality(K) /\ rank = Ranked(K)
    OBVIOUS
  <1>3. k \in Nat /\ \A n \in 1 .. k : rank[n] \in K
    <2>1. rank \in Seq(K) /\ Len(rank) = k /\ k \in Nat
      BY <1>1, <1>2, RankedOf, FS_CardinalityType
    <2> QED
      BY <2>1
  <1>4. Picked(queue, K) = [n \in 1 .. k |-> queue[rank[n]]]
    BY <1>2 DEF Picked
  <1>5. \A n \in 1 .. k : queue[rank[n]] \in D
    BY <1>1, <1>3
  <1> QED
    BY <1>3, <1>4, <1>5

\* ... of all its members.
LEMMA RankedAll ==
    ASSUME NEW S, S \subseteq Nat, IsFiniteSet(S), NEW i \in S
    PROVE  \E n \in 1 .. Cardinality(S) : Ranked(S)[n] = i
  <1>1. ASSUME NEW j \in S
        PROVE  /\ Cardinality(Below(S, j)) \in Nat /\ IsFiniteSet(Below(S, j))
               /\ Cardinality(Below(S, j) \cup {j}) = Cardinality(Below(S, j)) + 1
               /\ IsFiniteSet(Below(S, j) \cup {j}) /\ Below(S, j) \cup {j} \subseteq S
    <2>1. Below(S, j) \subseteq S /\ j \notin Below(S, j) /\ j \in Nat
      BY DEF Below
    <2>2. IsFiniteSet(Below(S, j))
      BY <2>1, FS_Subset
    <2> QED
      BY <2>1, <2>2, FS_AddElement, FS_CardinalityType
  <1>2. PICK k : k = Cardinality(Below(S, i))
    OBVIOUS
  <1>3. k \in Nat /\ k + 1 <= Cardinality(S) /\ Cardinality(S) \in Nat
    BY <1>1, <1>2, FS_Subset, FS_CardinalityType
  <1>4. k + 1 \in 1 .. Cardinality(S) /\ (k + 1) - 1 = k
    BY <1>3
  <1>5. PICK j : j = CHOOSE x \in S : Cardinality(Below(S, x)) = k
    OBVIOUS
  <1>6. j \in S /\ Cardinality(Below(S, j)) = k
    BY <1>2, <1>5
  <1>7. ASSUME NEW x \in S, NEW y \in S, Cardinality(Below(S, x)) = k, Cardinality(Below(S, y)) = k
        PROVE  ~ (x < y)
    <2> SUFFICES ASSUME x < y PROVE FALSE
      OBVIOUS
    <2>1. Below(S, x) \cup {x} \subseteq Below(S, y)
      <3>1. x \in Nat /\ y \in Nat /\ \A z \in S : z \in Nat /\ (z < x => z < y)
        OBVIOUS
      <3> QED
        BY <3>1 DEF Below
    <2>2. k + 1 <= k
      BY <1>1, <1>7, <2>1, FS_Subset
    <2> QED
      BY <1>3, <2>2
  <1>8. j = i
    <2>1. ~ (i < j) /\ ~ (j < i)
      BY <1>2, <1>6, <1>7
    <2> QED
      BY <1>6, <2>1
  <1>9. Ranked(S)[k + 1] = j
    <2>1. Ranked(S)[k + 1] = CHOOSE x \in S : Cardinality({y \in S : y < x}) = (k + 1) - 1
      BY <1>4 DEF Ranked
    <2> QED
      BY <1>4, <1>5, <2>1 DEF Below
  <1> QED
    BY <1>4, <1>8, <1>9

\* Everything that is kept of a queue is in what is left.
LEMMA PickedAll ==
    ASSUME NEW D, NEW queue \in Seq(D), NEW K, K \subseteq DOMAIN queue, NEW i \in K
    PROVE  \E n \in DOMAIN Picked(queue, K) : Picked(queue, K)[n] = queue[i]
  <1>1. K \subseteq Nat /\ IsFiniteSet(K)
    <2>1. DOMAIN queue = 1 .. Len(queue) /\ Len(queue) \in Nat
      OBVIOUS
    <2>2. IsFiniteSet(1 .. Len(queue)) /\ 1 .. Len(queue) \subseteq Nat
      BY <2>1, FS_Interval
    <2> QED
      BY <2>1, <2>2, FS_Subset
  <1>2. PICK n \in 1 .. Cardinality(K) : Ranked(K)[n] = i
    BY <1>1, RankedAll
  <1>3. DOMAIN Picked(queue, K) = 1 .. Cardinality(K) /\ Picked(queue, K)[n] = queue[Ranked(K)[n]]
    BY <1>2 DEF Picked
  <1> QED
    BY <1>2, <1>3
=============================================================================
