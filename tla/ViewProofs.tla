------------------------------ MODULE ViewProofs ------------------------------
(***************************************************************************)
(* The vectors of a program, for any keys, edges and cohorts, identities   *)
(* in any order and pushes in any order: the published vectors are in      *)
(* order, and find() and nodes_for() say what is in them.                  *)
(***************************************************************************)
EXTENDS ProgramView, FiniteSetTheorems, WellFoundedInduction, TLAPS

-----------------------------------------------------------------------------
(* Sorting.                                                                *)

(* i goes before k: it has the lesser key, or the same and is the first.   *)
Goes(key, i, k) == key[i] < key[k] \/ (key[i] = key[k] /\ i < k)

(* How many indices go no later than i: where i is to go.                  *)
Place(I, key, i) == Cardinality({j \in I : ~Goes(key, i, j)})

LEMMA PlaceIn ==
  ASSUME NEW I \in SUBSET Int, IsFiniteSet(I), NEW key \in [I -> Int], NEW i \in I
  PROVE  Place(I, key, i) \in 1..Cardinality(I)
<1> DEFINE J == {j \in I : ~Goes(key, i, j)}
<1>1. i \in J /\ J \in SUBSET I
  BY DEF Goes
<1>2. IsFiniteSet(J) /\ Cardinality(J) <= Cardinality(I)
  BY <1>1, FS_Subset
<1>3. Cardinality(J) # 0
  BY <1>1, <1>2, FS_EmptySet
<1>4. Cardinality(J) \in Nat /\ Cardinality(I) \in Nat
  BY <1>2, FS_CardinalityType
<1> QED
  BY <1>2, <1>3, <1>4 DEF Place

LEMMA PlaceRises ==
  ASSUME NEW I \in SUBSET Int, IsFiniteSet(I), NEW key \in [I -> Int],
         NEW i \in I, NEW k \in I, Goes(key, i, k)
  PROVE  Place(I, key, i) < Place(I, key, k)
<1> DEFINE J == {j \in I : ~Goes(key, i, j)}
           K == {j \in I : ~Goes(key, k, j)}
<1>1. \A j \in I : key[j] \in Int /\ j \in Int
  OBVIOUS
<1>2. ASSUME NEW j \in J PROVE j \in K
  <2>1. key[i] \in Int /\ key[j] \in Int /\ key[k] \in Int /\ i \in Int /\ j \in Int /\ k \in Int
    BY <1>1
  <2> QED
    BY <2>1 DEF Goes
<1>3. k \in K /\ k \notin J
  <2>1. key[k] \in Int /\ k \in Int
    BY <1>1
  <2> QED
    BY <2>1 DEF Goes
<1>4. IsFiniteSet(K)
  BY FS_Subset
<1>5. IsFiniteSet(J) /\ Cardinality(J) <= Cardinality(K) /\ Cardinality(J) # Cardinality(K)
  <2> HIDE DEF J, K
  <2>1. J \in SUBSET K /\ J # K
    BY <1>2, <1>3
  <2> QED
    BY <1>4, <2>1, FS_Subset
<1>6. Cardinality(J) \in Nat /\ Cardinality(K) \in Nat
  BY <1>4, <1>5, FS_CardinalityType
<1> QED
  BY <1>5, <1>6 DEF Place

(* Indices can be arranged by any keys, each once.                         *)
LEMMA ArrangementSorts ==
  ASSUME NEW I \in SUBSET Int, IsFiniteSet(I), NEW key \in [I -> Int]
  PROVE  /\ Arrangement(I, key) \in [1..Cardinality(I) -> I]
         /\ \A i \in I : \E n \in 1..Cardinality(I) : Arrangement(I, key)[n] = i
         /\ \A m, n \in 1..Cardinality(I) :
              Arrangement(I, key)[m] = Arrangement(I, key)[n] => m = n
         /\ \A m, n \in 1..Cardinality(I) :
              m < n => key[Arrangement(I, key)[m]] <= key[Arrangement(I, key)[n]]
<1> DEFINE N == 1..Cardinality(I)
           place == [i \in I |-> Place(I, key, i)]
           Rises(p) == \A i, j \in N : i < j => key[p[i]] <= key[p[j]]
<1>1. Cardinality(I) \in Nat
  BY FS_CardinalityType
<1>2. IsFiniteSet(N) /\ Cardinality(N) = Cardinality(I)
  BY <1>1, FS_Interval
<1>3. \A i \in I : key[i] \in Int /\ i \in Int
  OBVIOUS
<1>4. \A i, k \in I : i # k => Goes(key, i, k) \/ Goes(key, k, i)
  BY <1>3 DEF Goes
<1>5. \A i \in I : place[i] \in N
  BY PlaceIn
<1>6. \A i, k \in I : Goes(key, i, k) => place[i] < place[k]
  BY PlaceRises
<1>7. place \in Injection(I, N)
  <2>1. place \in [I -> N]
    BY <1>5
  <2>2. ASSUME NEW i \in I, NEW k \in I, place[i] = place[k] PROVE i = k
    BY <1>4, <1>5, <1>6, <2>2
  <2> QED
    BY <2>1, <2>2 DEF Injection, IsInjective
<1>8. place \in Surjection(I, N)
  BY <1>2, <1>7, FS_Injection
<1> DEFINE q == [n \in N |-> CHOOSE i \in I : place[i] = n]
<1>9. \A n \in N : q[n] \in I /\ place[q[n]] = n
  BY <1>8 DEF Surjection
<1>10. \A i \in I : q[place[i]] = i
  BY <1>5, <1>7, <1>9 DEF Injection, IsInjective
<1>11. q \in Bijection(N, I)
  <2>1. q \in [N -> I]
    BY <1>9
  <2>2. \A m, n \in N : q[m] = q[n] => m = n
    BY <1>9
  <2>3. \A i \in I : \E n \in N : q[n] = i
    BY <1>5, <1>10
  <2> HIDE DEF q, N
  <2> QED
    BY <2>1, <2>2, <2>3 DEF Bijection, Injection, Surjection, IsInjective
<1>12. Rises(q)
  <2> HIDE DEF q, place
  <2>1. SUFFICES ASSUME NEW i \in N, NEW j \in N, i < j, ~(key[q[i]] <= key[q[j]]) PROVE FALSE
    OBVIOUS
  <2>2. Goes(key, q[j], q[i])
    <3>1. key[q[i]] \in Int /\ key[q[j]] \in Int
      BY <1>3, <1>9
    <3> QED
      BY <2>1, <3>1 DEF Goes
  <2>3. place[q[j]] < place[q[i]]
    BY <1>6, <1>9, <2>1, <2>2
  <2>4. j < i
    BY <1>9, <2>1, <2>3
  <2> QED
    BY <1>1, <2>1, <2>4
<1> DEFINE p == Arrangement(I, key)
<1>13. p \in Bijection(N, I) /\ Rises(p)
  <2> HIDE DEF q
  <2>1. \E f \in Bijection(N, I) : Rises(f)
    BY <1>11, <1>12
  <2> QED
    BY <2>1 DEF Arrangement
<1>14. p \in [N -> I] /\ \A m, n \in N : p[m] = p[n] => m = n
  BY <1>13 DEF Bijection, Injection, IsInjective
<1>15. \A i \in I : \E n \in N : p[n] = i
  BY <1>13 DEF Bijection, Surjection
<1> QED
  BY <1>13, <1>14, <1>15

(* Nothing is in s twice.                                                  *)
Once(s, T) == s \in Seq(T) /\ \A i, j \in DOMAIN s : s[i] = s[j] => i = j

(* Identities tell the elements of T apart.                                *)
Tells(rank, T) ==
  /\ \A v \in T : rank[v] \in Int
  /\ \A v, w \in T : rank[v] = rank[w] => v = w

InOrder(s, rank) == \A i, j \in DOMAIN s : i < j => rank[s[i]] < rank[s[j]]

(* The same, where there may be copies.                                    *)
Rising(s, rank) == \A i, j \in DOMAIN s : i < j => rank[s[i]] <= rank[s[j]]

LEMMA IndicesFinite ==
  ASSUME NEW T, NEW s \in Seq(T)
  PROVE  /\ DOMAIN s = 1..Len(s) /\ Len(s) \in Nat
         /\ IsFiniteSet(DOMAIN s) /\ Cardinality(DOMAIN s) = Len(s)
<1>1. DOMAIN s = 1..Len(s) /\ Len(s) \in Nat
  OBVIOUS
<1>2. IsFiniteSet(1..Len(s)) /\ Cardinality(1..Len(s)) = Len(s)
  <2>1. \A n \in Nat : IsFiniteSet(1..n) /\ Cardinality(1..n) = n
    BY FS_Interval
  <2> QED
    BY <1>1, <2>1
<1> QED
  BY <1>1, <1>2

LEMMA SortedIs ==
  ASSUME NEW T, NEW s \in Seq(T), NEW rank, \A v \in T : rank[v] \in Int
  PROVE  /\ Sorted(s, rank) \in Seq(T)
         /\ ToSet(Sorted(s, rank)) = ToSet(s)
         /\ Rising(Sorted(s, rank), rank)
         /\ Once(s, T) => Once(Sorted(s, rank), T)
<1> DEFINE key == [i \in DOMAIN s |-> rank[s[i]]]
           p == Arrangement(DOMAIN s, key)
           t == Sorted(s, rank)
<1>1. /\ DOMAIN s = 1..Len(s) /\ Len(s) \in Nat
      /\ IsFiniteSet(DOMAIN s) /\ Cardinality(DOMAIN s) = Len(s)
  BY IndicesFinite
<1>2. \A i \in DOMAIN s : s[i] \in T
  OBVIOUS
<1>3. key \in [DOMAIN s -> Int] /\ DOMAIN s \in SUBSET Int
  BY <1>1, <1>2
<1>4. \A i \in DOMAIN s : key[i] = rank[s[i]]
  OBVIOUS
<1> HIDE DEF key
<1>5. /\ p \in [DOMAIN s -> DOMAIN s]
      /\ \A i \in DOMAIN s : \E n \in DOMAIN s : p[n] = i
      /\ \A m, n \in DOMAIN s : p[m] = p[n] => m = n
      /\ \A m, n \in DOMAIN s : m < n => key[p[m]] <= key[p[n]]
  <2>1. /\ p \in [1..Cardinality(DOMAIN s) -> DOMAIN s]
        /\ \A i \in DOMAIN s : \E n \in 1..Cardinality(DOMAIN s) : p[n] = i
        /\ \A m, n \in 1..Cardinality(DOMAIN s) : p[m] = p[n] => m = n
        /\ \A m, n \in 1..Cardinality(DOMAIN s) : m < n => key[p[m]] <= key[p[n]]
    BY <1>1, <1>3, ArrangementSorts
  <2> HIDE DEF p
  <2>2. 1..Cardinality(DOMAIN s) = DOMAIN s
    BY <1>1
  <2> QED
    BY <2>1, <2>2
<1> HIDE DEF p
<1>6. t = [i \in DOMAIN s |-> s[p[i]]]
  BY DEF Sorted, p, key
<1>7. DOMAIN t = DOMAIN s /\ \A i \in DOMAIN s : p[i] \in DOMAIN s /\ t[i] = s[p[i]]
  BY <1>5, <1>6
<1>8. t \in [1..Len(s) -> T]
  BY <1>1, <1>2, <1>5, <1>6
<1> HIDE DEF t
<1>9. t \in Seq(T)
  BY <1>1, <1>8
<1>10. ToSet(t) = ToSet(s)
  BY <1>5, <1>7 DEF ToSet
<1>11. Rising(t, rank)
  <2>1. \A i \in DOMAIN s : rank[t[i]] = key[p[i]]
    BY <1>4, <1>7
  <2> QED
    BY <1>5, <1>7, <2>1 DEF Rising
<1>12. Once(s, T) => Once(t, T)
  BY <1>5, <1>7, <1>9 DEF Once
<1> QED
  BY <1>9, <1>10, <1>11, <1>12 DEF t

(* What rises and has no copies is in order, and the other way round.      *)
LEMMA OnceIsInOrder ==
  ASSUME NEW T, NEW s \in Seq(T), NEW rank, Tells(rank, T)
  PROVE  /\ Once(s, T) /\ Rising(s, rank) => InOrder(s, rank)
         /\ InOrder(s, rank) => Once(s, T)
<1>1. DOMAIN s = 1..Len(s) /\ Len(s) \in Nat
  BY IndicesFinite
<1>2. \A i \in DOMAIN s : s[i] \in T /\ rank[s[i]] \in Int
  BY DEF Tells
<1>3. ASSUME Once(s, T), Rising(s, rank), NEW i \in DOMAIN s, NEW j \in DOMAIN s, i < j
      PROVE  rank[s[i]] < rank[s[j]]
  <2>1. i # j
    BY <1>1, <1>3
  <2>2. s[i] # s[j] /\ rank[s[i]] <= rank[s[j]]
    BY <1>3, <2>1 DEF Once, Rising
  <2>3. rank[s[i]] # rank[s[j]]
    BY <1>2, <2>2 DEF Tells
  <2> QED
    BY <1>2, <2>2, <2>3
<1>4. ASSUME InOrder(s, rank), NEW i \in DOMAIN s, NEW j \in DOMAIN s, s[i] = s[j], i # j
      PROVE  FALSE
  <2>1. i < j \/ j < i
    BY <1>1, <1>4
  <2>2. rank[s[i]] < rank[s[i]]
    BY <1>4, <2>1 DEF InOrder
  <2> QED
    BY <1>2, <2>2
<1> QED
  BY <1>3, <1>4 DEF InOrder, Once

LEMMA OnceSorted ==
  ASSUME NEW T, NEW s, Once(s, T), NEW rank, Tells(rank, T)
  PROVE  /\ Once(Sorted(s, rank), T)
         /\ ToSet(Sorted(s, rank)) = ToSet(s)
         /\ InOrder(Sorted(s, rank), rank)
<1>1. s \in Seq(T) /\ \A v \in T : rank[v] \in Int
  BY DEF Once, Tells
<1>2. /\ Once(Sorted(s, rank), T) /\ ToSet(Sorted(s, rank)) = ToSet(s)
      /\ Rising(Sorted(s, rank), rank) /\ Sorted(s, rank) \in Seq(T)
  BY <1>1, SortedIs
<1> QED
  BY <1>2, OnceIsInOrder

LEMMA PickedIs ==
  ASSUME NEW T, NEW s \in Seq(T), NEW I \in SUBSET DOMAIN s
  PROVE  /\ Picked(s, I) \in Seq(T)
         /\ ToSet(Picked(s, I)) = {s[i] : i \in I}
         /\ \A m, n \in DOMAIN Picked(s, I) : m < n =>
              \E i, j \in I : i < j /\ Picked(s, I)[m] = s[i] /\ Picked(s, I)[n] = s[j]
<1> DEFINE key == [i \in I |-> i]
           p == Arrangement(I, key)
           N == 1..Cardinality(I)
           t == Picked(s, I)
<1>1. /\ DOMAIN s = 1..Len(s) /\ Len(s) \in Nat /\ IsFiniteSet(DOMAIN s)
  BY IndicesFinite
<1>2. IsFiniteSet(I) /\ Cardinality(I) \in Nat
  BY <1>1, FS_Subset, FS_CardinalityType
<1>3. key \in [I -> Int] /\ I \in SUBSET Int /\ \A i \in I : key[i] = i
  BY <1>1
<1>4. /\ p \in [N -> I] /\ (\A i \in I : \E n \in N : p[n] = i)
      /\ \A m, n \in N : p[m] = p[n] => m = n
      /\ \A m, n \in N : m < n => key[p[m]] <= key[p[n]]
  <2> HIDE DEF key
  <2> QED
    BY <1>2, <1>3, ArrangementSorts
<1> HIDE DEF p, key
<1>5. ASSUME NEW m \in N, NEW n \in N, m < n PROVE p[m] < p[n]
  <2>1. p[m] \in I /\ p[n] \in I /\ p[m] \in Int /\ p[n] \in Int
    BY <1>3, <1>4
  <2>2. p[m] <= p[n]
    BY <1>3, <1>4, <1>5, <2>1
  <2>3. p[m] # p[n]
    BY <1>2, <1>4, <1>5
  <2> QED
    BY <2>1, <2>2, <2>3
<1>6. t = [n \in N |-> s[p[n]]]
  BY DEF Picked, p, key
<1>7. DOMAIN t = N /\ \A n \in N : p[n] \in I /\ t[n] = s[p[n]]
  BY <1>4, <1>6
<1>8. t \in [N -> T]
  <2>1. \A i \in I : s[i] \in T
    OBVIOUS
  <2> QED
    BY <1>4, <1>6, <2>1
<1> HIDE DEF t
<1>9. t \in Seq(T)
  BY <1>2, <1>8
<1>10. ToSet(t) = {s[i] : i \in I}
  BY <1>4, <1>7 DEF ToSet
<1>11. \A m, n \in DOMAIN t : m < n => \E i, j \in I : i < j /\ t[m] = s[i] /\ t[n] = s[j]
  BY <1>5, <1>7
<1> QED
  BY <1>9, <1>10, <1>11 DEF t

(* What is picked of a vector in order is in order.                        *)
LEMMA PickedInOrder ==
  ASSUME NEW T, NEW s \in Seq(T), NEW I \in SUBSET DOMAIN s, NEW rank,
         \A i, j \in I : i < j => rank[s[i]] < rank[s[j]]
  PROVE  InOrder(Picked(s, I), rank)
BY PickedIs DEF InOrder

LEMMA LeastIndex ==
  ASSUME NEW I, I \subseteq Nat, I # {}
  PROVE  \E m \in I : \A n \in I : m <= n
<1>1. PICK m \in I : \A n \in I : <<n, m>> \notin OpToRel(<, Nat)
  BY NatLessThanWellFounded, WFMin
<1>2. \A n \in I : ~(n < m)
  BY <1>1 DEF OpToRel
<1> QED
  BY <1>2

(* On a sorted vector, where the copies of an element are neighbours,      *)
(* unique() leaves each element once.                                      *)
LEMMA UniqueIs ==
  ASSUME NEW T, NEW s \in Seq(T), NEW rank, Tells(rank, T), Rising(s, rank)
  PROVE  /\ Unique(s, rank) \in Seq(T)
         /\ ToSet(Unique(s, rank)) = ToSet(s)
         /\ InOrder(Unique(s, rank), rank)
<1> DEFINE I == {i \in DOMAIN s : i = 1 \/ rank[s[i - 1]] # rank[s[i]]}
           t == Unique(s, rank)
<1>1. DOMAIN s = 1..Len(s) /\ Len(s) \in Nat
  BY IndicesFinite
<1>2. \A i \in DOMAIN s : s[i] \in T /\ rank[s[i]] \in Int
  BY DEF Tells
<1>3. ASSUME NEW i \in DOMAIN s PROVE \E j \in I : s[j] = s[i]
  <2> DEFINE E == {j \in DOMAIN s : rank[s[j]] = rank[s[i]]}
  <2>1. E \subseteq Nat /\ E # {}
    BY <1>1
  <2>2. PICK j \in E : \A k \in E : j <= k
    BY <2>1, LeastIndex
  <2>3. j \in DOMAIN s /\ s[j] = s[i] /\ rank[s[j]] = rank[s[i]]
    BY <1>2 DEF Tells
  <2>4. j = 1 \/ rank[s[j - 1]] # rank[s[j]]
    <3>1. SUFFICES ASSUME j # 1, rank[s[j - 1]] = rank[s[j]] PROVE FALSE
      OBVIOUS
    <3>2. j - 1 \in DOMAIN s /\ j \in Nat
      BY <1>1, <2>3, <3>1
    <3>3. j - 1 \in E
      BY <2>3, <3>1, <3>2
    <3> QED
      BY <2>2, <3>2, <3>3
  <2> QED
    BY <2>3, <2>4
<1>4. ASSUME NEW i \in I, NEW j \in I, i < j PROVE rank[s[i]] < rank[s[j]]
  <2>1. i \in DOMAIN s /\ j \in DOMAIN s /\ j # 1 /\ rank[s[j - 1]] # rank[s[j]]
    BY <1>1, <1>4
  <2>2. j - 1 \in DOMAIN s /\ (i = j - 1 \/ i < j - 1) /\ j - 1 < j
    BY <1>1, <1>4, <2>1
  <2>3. rank[s[i]] <= rank[s[j - 1]] /\ rank[s[j - 1]] <= rank[s[j]]
    BY <1>2, <2>1, <2>2 DEF Rising
  <2>4. rank[s[i]] \in Int /\ rank[s[j - 1]] \in Int /\ rank[s[j]] \in Int
    BY <1>2, <2>1, <2>2
  <2> QED
    BY <2>1, <2>3, <2>4
<1>5. I \in SUBSET DOMAIN s
  OBVIOUS
<1> HIDE DEF I
<1>6. {s[i] : i \in I} = ToSet(s)
  BY <1>3, <1>5 DEF ToSet
<1>7. t = Picked(s, I)
  BY DEF Unique, I
<1>8. t \in Seq(T) /\ ToSet(t) = ToSet(s)
  <2>1. Picked(s, I) \in Seq(T) /\ ToSet(Picked(s, I)) = {s[i] : i \in I}
    BY <1>5, PickedIs
  <2> QED
    BY <1>7, <1>6, <2>1
<1>9. InOrder(t, rank)
  <2>1. InOrder(Picked(s, I), rank)
    BY <1>4, <1>5, PickedInOrder
  <2> QED
    BY <1>7, <2>1
<1> QED
  BY <1>8, <1>9

-----------------------------------------------------------------------------
(* The lookup.                                                             *)

(* Whatever place std::lower_bound returns of a vector in order, the node  *)
(* there has the identity looked for if any has.                           *)
LEMMA PlaceFound ==
  ASSUME Once(nodes, Key), Tells(id, Key), InOrder(nodes, id),
         NEW v \in Int, NEW p \in LowerBound(v)
  PROVE  /\ p \in 1..(Len(nodes) + 1)
         /\ p <= Len(nodes) => p \in DOMAIN nodes
         /\ (\E k \in ToSet(nodes) : id[k] = v) => p <= Len(nodes) /\ id[nodes[p]] = v
<1> DEFINE Splits(q) == /\ \A i \in 1..(q - 1) : id[nodes[i]] < v
                        /\ \A i \in q..Len(nodes) : id[nodes[i]] >= v
           places == 1..(Len(nodes) + 1)
<1>1. DOMAIN nodes = 1..Len(nodes) /\ Len(nodes) \in Nat
  BY IndicesFinite DEF Once
<1>2. \A i \in DOMAIN nodes : id[nodes[i]] \in Int
  BY DEF Once, Tells
<1>3. p \in places /\ ((\E q \in places : Splits(q)) => Splits(p))
  BY DEF LowerBound
<1>4. p \in Nat /\ p >= 1
  BY <1>1, <1>3
<1>5. ASSUME NEW k \in ToSet(nodes), id[k] = v
      PROVE  p <= Len(nodes) /\ id[nodes[p]] = v
  <2>1. PICK i \in DOMAIN nodes : nodes[i] = k
    BY <1>5 DEF ToSet
  <2>2. i \in 1..Len(nodes) /\ i \in Nat /\ id[nodes[i]] = v
    BY <1>1, <1>5, <2>1
  <2>3. \A j \in DOMAIN nodes : (j < i => id[nodes[j]] < v) /\ (i < j => v < id[nodes[j]])
    BY <2>1, <2>2 DEF InOrder
  <2>4. Splits(i)
    <3>1. \A j \in 1..(i - 1) : id[nodes[j]] < v
      BY <1>1, <2>2, <2>3
    <3>2. ASSUME NEW j \in i..Len(nodes) PROVE id[nodes[j]] >= v
      <4>1. j \in DOMAIN nodes /\ (j = i \/ i < j)
        BY <1>1, <2>2
      <4> QED
        BY <1>2, <2>2, <2>3, <4>1
    <3> QED
      BY <3>1, <3>2
  <2>5. Splits(p)
    BY <1>1, <1>3, <2>2, <2>4
  <2>6. p <= i
    BY <1>4, <2>2, <2>5
  <2>7. p \in DOMAIN nodes /\ id[nodes[p]] >= v
    BY <1>1, <1>4, <2>2, <2>5, <2>6
  <2>8. ~(p < i)
    BY <1>2, <2>3, <2>7
  <2> QED
    BY <1>1, <1>4, <2>2, <2>6, <2>8
<1> QED
  BY <1>1, <1>3, <1>4, <1>5

-----------------------------------------------------------------------------
(* The invariant.                                                          *)

GraphInv ==
  /\ Tells(id, Key) /\ (\A k \in Key : id[k] \in Identity)
  /\ Tells(edge_id, Edge) /\ Tells(cohort_id, Cohort)
  /\ Once(nodes, Key) /\ edges \in Seq(Edge) /\ Once(cohorts, Cohort)
  /\ ToSet(nodes) = node_by_key
  /\ asked = [nodes |-> ToSet(nodes), edges |-> ToSet(edges), cohorts |-> ToSet(cohorts)]
  /\ \A e \in ToSet(edges) : {e.before, e.after} \subseteq node_by_key
  /\ stage \in {"composing", "published"}

PublishedInv ==
  stage = "published" =>
    /\ InOrder(nodes, id) /\ InOrder(edges, edge_id) /\ InOrder(cohorts, cohort_id)
    /\ identity = [nodes |-> Ids(nodes, id), edges |-> Ids(edges, edge_id),
                   cohorts |-> Ids(cohorts, cohort_id)]

Exact(f, v) ==
  IF \E k \in node_by_key : id[k] = v THEN f[v] \in node_by_key /\ id[f[v]] = v
  ELSE f[v] = "none"

NodesOf(p) == Picked(nodes, {i \in DOMAIN nodes : PackageOf[nodes[i]] = p})

AnswersInv ==
  /\ stage = "composing" => DOMAIN found = {} /\ DOMAIN matched = {}
  /\ \A v \in DOMAIN found : Exact(found, v)
  /\ DOMAIN matched # {} => DOMAIN found = Identity
  /\ \A p \in DOMAIN matched : matched[p] = NodesOf(p)

ViewInv == GraphInv /\ PublishedInv /\ AnswersInv

LEMMA OneMore ==
  ASSUME NEW T, NEW s \in Seq(T), NEW x \in T
  PROVE  /\ Append(s, x) \in Seq(T)
         /\ ToSet(Append(s, x)) = ToSet(s) \cup {x}
         /\ Once(s, T) /\ x \notin ToSet(s) => Once(Append(s, x), T)
<1> DEFINE t == Append(s, x)
<1>1. t \in Seq(T) /\ Len(s) \in Nat
  OBVIOUS
<1>2. /\ DOMAIN s = 1..Len(s) /\ DOMAIN t = 1..(Len(s) + 1)
      /\ t[Len(s) + 1] = x /\ \A i \in DOMAIN s : t[i] = s[i]
  BY <1>1
<1> HIDE DEF t
<1>3. DOMAIN t = DOMAIN s \cup {Len(s) + 1}
  BY <1>1, <1>2
<1>4. ToSet(t) = ToSet(s) \cup {x}
  BY <1>2, <1>3 DEF ToSet
<1>5. ASSUME Once(s, T), x \notin ToSet(s) PROVE \A i, j \in DOMAIN t : t[i] = t[j] => i = j
  <2>1. \A i \in DOMAIN s : s[i] # x
    BY <1>5 DEF ToSet
  <2> QED
    BY <1>2, <1>3, <1>5, <2>1 DEF Once
<1> QED
  BY <1>1, <1>4, <1>5 DEF Once, t

LEMMA OnceNone ==
  ASSUME NEW T
  PROVE  Once(<<>>, T) /\ ToSet(<<>>) = {}
<1>1. <<>> \in Seq(T) /\ DOMAIN <<>> = {}
  OBVIOUS
<1> QED
  BY <1>1 DEF Once, ToSet

LEMMA IdentitiesTell ==
  ASSUME NEW T, NEW a, NEW rank \in Injection(T, 1..a)
  PROVE  Tells(rank, T) /\ \A v \in T : rank[v] \in 1..a
<1>1. rank \in [T -> 1..a] /\ \A v, w \in T : rank[v] = rank[w] => v = w
  BY DEF Injection, IsInjective
<1>2. \A v \in T : rank[v] \in 1..a
  BY <1>1
<1>3. 1..a \subseteq Int
  OBVIOUS
<1> QED
  BY <1>1, <1>2, <1>3 DEF Tells

LEMMA ViewInit == Init => ViewInv
<1> SUFFICES ASSUME Init PROVE ViewInv
  OBVIOUS
<1>1. Tells(id, Key) /\ \A k \in Key : id[k] \in Identity
  BY IdentitiesTell DEF Init, Identity
<1>2. Tells(edge_id, Edge) /\ Tells(cohort_id, Cohort)
  BY IdentitiesTell DEF Init
<1>3. Once(nodes, Key) /\ edges \in Seq(Edge) /\ Once(cohorts, Cohort)
  BY OnceNone DEF Init, Once
<1>4. ToSet(nodes) = {} /\ ToSet(edges) = {} /\ ToSet(cohorts) = {}
  BY OnceNone DEF Init
<1>5. GraphInv
  BY <1>1, <1>2, <1>3, <1>4 DEF Init, GraphInv
<1>6. PublishedInv
  BY DEF Init, PublishedInv
<1>7. DOMAIN found = {} /\ DOMAIN matched = {}
  BY DEF Init
<1>8. AnswersInv
  BY <1>7 DEF AnswersInv
<1> QED
  BY <1>5, <1>6, <1>8 DEF ViewInv

LEMMA AddNodePreserves ==
  ASSUME ViewInv, NEW k \in Key, AddNode(k)
  PROVE  ViewInv'
<1>1. GraphInv /\ PublishedInv /\ AnswersInv
  BY DEF ViewInv
<1>2. /\ stage = "composing" /\ UNCHANGED <<ids, edges, cohorts, stage, found, matched>>
  BY DEF AddNode
<1>3. /\ Once(nodes', Key) /\ ToSet(nodes') = node_by_key'
      /\ node_by_key' = node_by_key \cup {k}
  <2>1. Once(nodes, Key) /\ ToSet(nodes) = node_by_key
    BY <1>1 DEF GraphInv
  <2>2. CASE k \in node_by_key
    BY <2>1, <2>2 DEF AddNode, PushNode
  <2>3. CASE k \notin node_by_key
    <3>1. nodes' = Append(nodes, k) /\ node_by_key' = node_by_key \cup {k}
      BY <2>3 DEF AddNode, PushNode
    <3>2. Once(Append(nodes, k), Key) /\ ToSet(Append(nodes, k)) = ToSet(nodes) \cup {k}
      <4>1. nodes \in Seq(Key)
        BY <2>1 DEF Once
      <4> QED
        BY <2>1, <2>3, <4>1, OneMore
    <3> QED
      BY <2>1, <3>1, <3>2
  <2> QED
    BY <2>2, <2>3
<1>4. asked' = [nodes |-> ToSet(nodes'), edges |-> ToSet(edges'), cohorts |-> ToSet(cohorts')]
  BY <1>1, <1>2, <1>3 DEF AddNode, GraphInv
<1>5. GraphInv'
  BY <1>1, <1>2, <1>3, <1>4 DEF GraphInv, ids, Identity
<1>6. PublishedInv'
  BY <1>2 DEF PublishedInv
<1>7. AnswersInv'
  BY <1>1, <1>2 DEF AnswersInv
<1> QED
  BY <1>5, <1>6, <1>7 DEF ViewInv

LEMMA AddCohortPreserves ==
  ASSUME ViewInv, NEW c \in Cohort, AddCohort(c)
  PROVE  ViewInv'
<1>1. GraphInv /\ PublishedInv /\ AnswersInv
  BY DEF ViewInv
<1>2. /\ stage = "composing" /\ UNCHANGED <<ids, nodes, node_by_key, edges, stage, found, matched>>
  BY DEF AddCohort
<1>3. Once(cohorts', Cohort) /\ ToSet(cohorts') = ToSet(cohorts) \cup {c}
  <2>1. Once(cohorts, Cohort) /\ cohorts \in Seq(Cohort)
    BY <1>1 DEF GraphInv, Once
  <2> QED
    BY <2>1, OneMore DEF AddCohort
<1>4. asked' = [nodes |-> ToSet(nodes'), edges |-> ToSet(edges'), cohorts |-> ToSet(cohorts')]
  BY <1>1, <1>2, <1>3 DEF AddCohort, GraphInv
<1>5. GraphInv'
  BY <1>1, <1>2, <1>3, <1>4 DEF GraphInv, ids, Identity
<1>6. PublishedInv'
  BY <1>2 DEF PublishedInv
<1>7. AnswersInv'
  BY <1>1, <1>2 DEF AnswersInv
<1> QED
  BY <1>5, <1>6, <1>7 DEF ViewInv

LEMMA AddEdgePreserves ==
  ASSUME ViewInv, NEW e \in Edge, AddEdge(e)
  PROVE  ViewInv'
<1>1. GraphInv /\ PublishedInv /\ AnswersInv
  BY DEF ViewInv
<1>2. /\ stage = "composing" /\ UNCHANGED <<ids, nodes, node_by_key, cohorts, stage, found, matched>>
  BY DEF AddEdge
<1>3. edges' \in Seq(Edge) /\ ToSet(edges') = ToSet(edges) \cup {e}
  BY <1>1, OneMore DEF AddEdge, GraphInv
<1>4. \A d \in ToSet(edges') : {d.before, d.after} \subseteq node_by_key
  BY <1>1, <1>3 DEF AddEdge, GraphInv
<1>5. asked' = [nodes |-> ToSet(nodes'), edges |-> ToSet(edges'), cohorts |-> ToSet(cohorts')]
  BY <1>1, <1>2, <1>3 DEF AddEdge, GraphInv
<1>6. GraphInv'
  BY <1>1, <1>2, <1>3, <1>4, <1>5 DEF GraphInv, ids, Identity
<1>7. PublishedInv'
  BY <1>2 DEF PublishedInv
<1>8. AnswersInv'
  BY <1>1, <1>2 DEF AnswersInv
<1> QED
  BY <1>6, <1>7, <1>8 DEF ViewInv

LEMMA PublishPreserves ==
  ASSUME ViewInv, Publish
  PROVE  ViewInv'
<1>1. GraphInv /\ PublishedInv /\ AnswersInv
  BY DEF ViewInv
<1>2. stage = "composing" /\ UNCHANGED <<ids, node_by_key, found, matched, asked>>
  BY DEF Publish
<1>3. Tells(id, Key) /\ Tells(edge_id, Edge) /\ Tells(cohort_id, Cohort)
  BY <1>1 DEF GraphInv
<1>4. Once(nodes', Key) /\ ToSet(nodes') = ToSet(nodes) /\ InOrder(nodes', id)
  BY <1>1, <1>3, OnceSorted DEF GraphInv, Publish, CanonicalNodes
<1>5. /\ Once(cohorts', Cohort) /\ ToSet(cohorts') = ToSet(cohorts)
      /\ InOrder(cohorts', cohort_id)
  BY <1>1, <1>3, OnceSorted DEF GraphInv, Publish
<1>6. edges' \in Seq(Edge) /\ ToSet(edges') = ToSet(edges) /\ InOrder(edges', edge_id)
  <2> DEFINE s == Sorted(edges, edge_id)
  <2>1. s \in Seq(Edge) /\ ToSet(s) = ToSet(edges) /\ Rising(s, edge_id)
    BY <1>1, <1>3, SortedIs DEF GraphInv, Tells
  <2>2. edges' = Unique(s, edge_id)
    BY DEF Publish, CanonicalEdges
  <2> HIDE DEF s
  <2> QED
    BY <1>3, <2>1, <2>2, UniqueIs
<1>7. GraphInv'
  BY <1>1, <1>2, <1>4, <1>5, <1>6 DEF GraphInv, ids, Identity, Publish
<1>8. PublishedInv'
  BY <1>2, <1>4, <1>5, <1>6 DEF PublishedInv, ids, Publish
<1>9. AnswersInv'
  BY <1>1, <1>2 DEF AnswersInv, Publish
<1> QED
  BY <1>7, <1>8, <1>9 DEF ViewInv

(* Neither call touches the program: what else was answered stays right.   *)
LEMMA FindPreserves ==
  ASSUME ViewInv, NEW v \in Identity, Find(v)
  PROVE  ViewInv'
<1>1. GraphInv /\ PublishedInv /\ AnswersInv
  BY DEF ViewInv
<1>2. /\ stage = "published"
      /\ UNCHANGED <<id, edge_id, cohort_id, nodes, node_by_key, edges, cohorts,
                     identity, stage, matched, asked>>
  BY DEF Find, ids, graph
<1>3. v \notin DOMAIN found /\ v \in Int
  BY DEF Find, Identity
<1>4. PICK p \in LowerBound(v) :
        found' = [u \in DOMAIN found \cup {v} |->
                    IF u # v THEN found[u]
                    ELSE IF p <= Len(nodes) /\ id[nodes[p]] = v THEN nodes[p]
                    ELSE "none"]
  BY DEF Find
<1>5. /\ p <= Len(nodes) => p \in DOMAIN nodes
      /\ (\E k \in node_by_key : id[k] = v) => p <= Len(nodes) /\ id[nodes[p]] = v
  BY <1>1, <1>2, <1>3, PlaceFound DEF GraphInv, PublishedInv
<1>6. \A i \in DOMAIN nodes : nodes[i] \in node_by_key
  BY <1>1 DEF GraphInv, ToSet
<1>7. DOMAIN found' = DOMAIN found \cup {v} /\ \A u \in DOMAIN found : found'[u] = found[u]
  BY <1>3, <1>4
<1>8. found'[v] = IF p <= Len(nodes) /\ id[nodes[p]] = v THEN nodes[p] ELSE "none"
  BY <1>4
<1>9. Exact(found', v)
  BY <1>5, <1>6, <1>8 DEF Exact
<1>10. \A u \in DOMAIN found' : Exact(found', u)
  BY <1>1, <1>7, <1>9 DEF AnswersInv, Exact
<1>11. DOMAIN matched = {}
  BY <1>1, <1>3 DEF AnswersInv
<1>12. AnswersInv'
  BY <1>2, <1>10, <1>11 DEF AnswersInv, Exact
<1>13. GraphInv' /\ PublishedInv'
  BY <1>1, <1>2 DEF GraphInv, PublishedInv, Identity
<1> QED
  BY <1>12, <1>13 DEF ViewInv

LEMMA NodesForPreserves ==
  ASSUME ViewInv, NEW p \in Package, NodesFor(p)
  PROVE  ViewInv'
<1>1. GraphInv /\ PublishedInv /\ AnswersInv
  BY DEF ViewInv
<1>2. /\ stage = "published" /\ DOMAIN found = Identity
      /\ UNCHANGED <<id, edge_id, cohort_id, nodes, node_by_key, edges, cohorts,
                     identity, stage, found, asked>>
  BY DEF NodesFor, ids, graph
<1>3. matched' = [q \in DOMAIN matched \cup {p} |-> IF q # p THEN matched[q] ELSE NodesOf(p)]
  BY DEF NodesFor, NodesOf
<1>4. \A q \in DOMAIN matched' : matched'[q] = NodesOf(q)
  BY <1>1, <1>3 DEF AnswersInv
<1>5. AnswersInv'
  BY <1>1, <1>2, <1>4 DEF AnswersInv, Exact, Identity, NodesOf
<1>6. GraphInv' /\ PublishedInv'
  BY <1>1, <1>2 DEF GraphInv, PublishedInv, Identity
<1> QED
  BY <1>5, <1>6 DEF ViewInv

LEMMA ViewNext == ViewInv /\ [Next]_vars => ViewInv'
<1> SUFFICES ASSUME ViewInv, [Next]_vars PROVE ViewInv'
  OBVIOUS
<1>1. CASE Next
  BY <1>1, AddNodePreserves, AddCohortPreserves, AddEdgePreserves, PublishPreserves,
     FindPreserves, NodesForPreserves DEF Next
<1>2. CASE UNCHANGED vars
  BY <1>2 DEF vars, ViewInv, GraphInv, PublishedInv, AnswersInv, Exact, Identity, NodesOf
<1> QED
  BY <1>1, <1>2

LEMMA ViewAlways == Spec => []ViewInv
<1>1. Init => ViewInv
  BY ViewInit
<1>2. ViewInv /\ [Next]_vars => ViewInv'
  BY ViewNext
<1> QED
  BY <1>1, <1>2, PTL DEF Spec

-----------------------------------------------------------------------------
(* The identities of a vector in order ascend.                             *)
LEMMA IdsAscend ==
  ASSUME NEW s, NEW rank, InOrder(s, rank)
  PROVE  /\ Ascending(Ids(s, rank))
         /\ ToSet(Ids(s, rank)) = {rank[x] : x \in ToSet(s)}
<1> DEFINE t == Ids(s, rank)
<1>1. DOMAIN t = DOMAIN s /\ \A i \in DOMAIN s : t[i] = rank[s[i]]
  BY DEF Ids
<1> HIDE DEF t
<1>2. Ascending(t)
  BY <1>1 DEF Ascending, InOrder
<1>3. ToSet(t) = {rank[x] : x \in ToSet(s)}
  BY <1>1 DEF ToSet
<1> QED
  BY <1>2, <1>3 DEF t

(* Compose, sort, take the identity: for any keys, edges and cohorts, any  *)
(* order of the identities and of the pushes, the identity that compose()  *)
(* publishes lists all that its loops asked for and nothing else, each     *)
(* once in ascending order, and the vectors hold what it lists.            *)
THEOREM PublishedIsCanonical == Spec => []CanonicalProgram
<1>1. ViewInv => CanonicalProgram
  <2> SUFFICES ASSUME ViewInv, stage = "published" PROVE CanonicalProgram
    BY DEF CanonicalProgram
  <2>1. /\ InOrder(nodes, id) /\ InOrder(edges, edge_id) /\ InOrder(cohorts, cohort_id)
        /\ identity.nodes = Ids(nodes, id) /\ identity.edges = Ids(edges, edge_id)
        /\ identity.cohorts = Ids(cohorts, cohort_id)
    BY DEF ViewInv, PublishedInv
  <2>2. /\ asked.nodes = ToSet(nodes) /\ asked.edges = ToSet(edges)
        /\ asked.cohorts = ToSet(cohorts)
    BY DEF ViewInv, GraphInv
  <2>3. Lists(identity.nodes, id, asked.nodes)
    BY <2>1, <2>2, IdsAscend DEF Lists
  <2>4. Lists(identity.edges, edge_id, asked.edges)
    BY <2>1, <2>2, IdsAscend DEF Lists
  <2>5. Lists(identity.cohorts, cohort_id, asked.cohorts)
    BY <2>1, <2>2, IdsAscend DEF Lists
  <2> QED
    BY <2>1, <2>3, <2>4, <2>5 DEF CanonicalProgram
<1> QED
  BY <1>1, ViewAlways, PTL

LEMMA FoundAll ==
  ASSUME ViewInv, DOMAIN found = Identity
  PROVE  node_by_key = ToSet(found) \ {"none"}
<1>1. /\ Tells(id, Key) /\ node_by_key \subseteq Key /\ "none" \notin node_by_key
      /\ \A k \in node_by_key : id[k] \in Identity
  BY KeyAssumption DEF ViewInv, GraphInv, Once, ToSet
<1>2. \A v \in Identity : Exact(found, v)
  BY DEF ViewInv, AnswersInv
<1>3. ASSUME NEW k \in node_by_key PROVE k \in ToSet(found) /\ k # "none"
  <2>1. found[id[k]] \in node_by_key /\ id[found[id[k]]] = id[k] /\ id[k] \in DOMAIN found
    BY <1>1, <1>2 DEF Exact
  <2>2. found[id[k]] = k
    BY <1>1, <2>1 DEF Tells
  <2> QED
    BY <1>1, <2>1, <2>2 DEF ToSet
<1>4. \A v \in Identity : found[v] \in node_by_key \/ found[v] = "none"
  BY <1>2 DEF Exact
<1> QED
  BY <1>3, <1>4 DEF ToSet

(* std::lower_bound over the sorted nodes, whatever the identities: find() *)
(* gives the node of an identity and nothing for another, and an edge of a *)
(* program never has an end that find() does not give.                     *)
THEOREM FindGivesWhatIsThere == Spec => []FindIsExact
<1>1. ViewInv => FindIsExact
  <2> SUFFICES ASSUME ViewInv PROVE FindIsExact
    OBVIOUS
  <2>1. \A v \in DOMAIN found : Exact(found, v)
    BY DEF ViewInv, AnswersInv
  <2>2. \A i \in DOMAIN edges : {edges[i].before, edges[i].after} \subseteq node_by_key
    BY DEF ViewInv, GraphInv, ToSet
  <2>3. DOMAIN found = Identity => node_by_key \subseteq ToSet(found)
    BY FoundAll
  <2> QED
    BY <2>1, <2>2, <2>3 DEF FindIsExact, Exact
<1> QED
  BY <1>1, ViewAlways, PTL

LEMMA NodesOfIs ==
  ASSUME ViewInv, NEW p
  PROVE  /\ ToSet(NodesOf(p)) = {k \in node_by_key : PackageOf[k] = p}
         /\ stage = "published" => InOrder(NodesOf(p), id)
<1> DEFINE I == {i \in DOMAIN nodes : PackageOf[nodes[i]] = p}
<1>1. nodes \in Seq(Key) /\ ToSet(nodes) = node_by_key
  BY DEF ViewInv, GraphInv, Once
<1>2. I \in SUBSET DOMAIN nodes
  OBVIOUS
<1>3. ToSet(NodesOf(p)) = {nodes[i] : i \in I}
  <2> HIDE DEF I
  <2>1. ToSet(Picked(nodes, I)) = {nodes[i] : i \in I}
    BY <1>1, <1>2, PickedIs
  <2> QED
    BY <2>1 DEF NodesOf, I
<1>4. {nodes[i] : i \in I} = {k \in node_by_key : PackageOf[k] = p}
  BY <1>1 DEF ToSet
<1>5. stage = "published" => InOrder(NodesOf(p), id)
  <2>1. stage = "published" => InOrder(nodes, id)
    BY DEF ViewInv, PublishedInv
  <2> HIDE DEF I
  <2>2. stage = "published" => InOrder(Picked(nodes, I), id)
    BY <1>1, <1>2, <2>1, PickedInOrder DEF InOrder
  <2> QED
    BY <2>2 DEF NodesOf, I
<1> QED
  BY <1>3, <1>4, <1>5

(* nodes_for() over all packages and find() over all identities are two    *)
(* views of one program, whatever nodes there are and of what packages.    *)
THEOREM ViewsAreOne == Spec => []ViewsAgree
<1>1. ViewInv => ViewsAgree
  <2> SUFFICES ASSUME ViewInv, DOMAIN matched = Package PROVE ViewsAgree
    BY DEF ViewsAgree
  <2>1. \A p \in Package : matched[p] = NodesOf(p)
    BY DEF ViewInv, AnswersInv
  <2>2. node_by_key \subseteq Key
    BY DEF ViewInv, GraphInv, Once, ToSet
  <2>3. UNION {ToSet(matched[p]) : p \in Package} = node_by_key
    <3>1. \A p \in Package : ToSet(matched[p]) = {k \in node_by_key : PackageOf[k] = p}
      BY <2>1, NodesOfIs
    <3>2. \A k \in node_by_key : PackageOf[k] \in Package
      BY <2>2 DEF Package
    <3> QED
      BY <3>1, <3>2
  <2>4. ToSet(found) \ {"none"} = node_by_key
    <3>1. CASE Package = {}
      <4>1. node_by_key = {}
        BY <2>2, <3>1 DEF Package
      <4>2. \A v \in DOMAIN found : found[v] = "none"
        BY <4>1 DEF ViewInv, AnswersInv, Exact
      <4> QED
        BY <4>1, <4>2 DEF ToSet
    <3>2. CASE Package # {}
      BY <3>2, FoundAll DEF ViewInv, AnswersInv
    <3> QED
      BY <3>1, <3>2
  <2>5. ASSUME NEW p \in Package PROVE Ascending(Ids(matched[p], id))
    <3>1. DOMAIN matched # {}
      OBVIOUS
    <3>2. stage = "published"
      BY <3>1 DEF ViewInv, GraphInv, AnswersInv
    <3> QED
      BY <2>1, <3>2, NodesOfIs, IdsAscend
  <2> QED
    BY <2>3, <2>4, <2>5 DEF ViewsAgree
<1> QED
  BY <1>1, ViewAlways, PTL

=============================================================================
