-------------------------- MODULE CondensationProofs --------------------------
(***************************************************************************)
(* What holds of reachability and of strongly connected components in      *)
(* every digraph: the facts that the proofs about the composer and about   *)
(* its search share.                                                       *)
(***************************************************************************)
EXTENDS Condensation, FiniteSetTheorems, TLAPS

-----------------------------------------------------------------------------
(* Reachability.                                                           *)

LEMMA ReachesItself ==
  ASSUME NEW G, NEW v
  PROVE  Reaches(G, v, v)
BY DEF Reaches

LEMMA ReachedVertex ==
  ASSUME NEW G, NEW v, NEW w, Reaches(G, v, w)
  PROVE  w = v \/ w \in Vertices(G)
<1>1. Closed(G, Vertices(G) \cup {v})
  BY DEF Closed, Vertices
<1> QED
  BY <1>1 DEF Reaches

LEMMA ReachesTransitive ==
  ASSUME NEW G, NEW u, NEW v, NEW w, Reaches(G, u, v), Reaches(G, v, w)
  PROVE  Reaches(G, u, w)
<1> SUFFICES ASSUME NEW C \in SUBSET (Vertices(G) \cup {u}), u \in C, Closed(G, C)
             PROVE  w \in C
  BY DEF Reaches
<1>1. v \in C
  BY DEF Reaches
<1>2. C \cap (Vertices(G) \cup {v}) \in SUBSET (Vertices(G) \cup {v})
  OBVIOUS
<1>3. Closed(G, C \cap (Vertices(G) \cup {v}))
  BY DEF Closed, Vertices
<1> QED
  BY <1>1, <1>2, <1>3 DEF Reaches

LEMMA ReachesAlongArc ==
  ASSUME NEW G, NEW e \in G
  PROVE  Reaches(G, e[1], e[2])
BY DEF Reaches, Closed

(* To leave a vertex is to take one of its arcs first.                     *)
LEMMA ReachesByAnArc ==
  ASSUME NEW G, NEW v, NEW w, Reaches(G, v, w), w # v
  PROVE  \E e \in G : e[1] = v /\ Reaches(G, e[2], w)
<1> DEFINE D == {v} \cup {x \in Vertices(G) : \E e \in G : e[1] = v /\ Reaches(G, e[2], x)}
<1>1. ASSUME NEW e \in G, e[1] \in D PROVE e[2] \in D
  <2>1. e[2] \in Vertices(G)
    BY DEF Vertices
  <2>2. CASE e[1] = v
    BY <2>1, <2>2, ReachesItself
  <2>3. CASE e[1] # v
    <3>1. PICK f \in G : f[1] = v /\ Reaches(G, f[2], e[1])
      BY <1>1, <2>3
    <3>2. Reaches(G, f[2], e[2])
      BY <3>1, ReachesAlongArc, ReachesTransitive
    <3> QED
      BY <2>1, <3>1, <3>2
  <2> QED
    BY <2>2, <2>3
<1>2. Closed(G, D)
  BY <1>1 DEF Closed
<1>3. w \in D
  BY <1>2 DEF Reaches
<1> QED
  BY <1>3

-----------------------------------------------------------------------------
(* Components.                                                             *)

LEMMA InItsComponent ==
  ASSUME NEW G, NEW v \in Vertices(G)
  PROVE  v \in ComponentOf(G, v)
BY ReachesItself DEF ComponentOf

(* Components partition the vertices: one that shares a vertex with        *)
(* another is the other.                                                   *)
LEMMA SameComponent ==
  ASSUME NEW G, NEW v, NEW w \in ComponentOf(G, v)
  PROVE  ComponentOf(G, w) = ComponentOf(G, v)
<1>1. Reaches(G, v, w) /\ Reaches(G, w, v)
  BY DEF ComponentOf
<1>2. \A x : Reaches(G, v, x) <=> Reaches(G, w, x)
  BY <1>1, ReachesTransitive
<1>3. \A x : Reaches(G, x, v) <=> Reaches(G, x, w)
  BY <1>1, ReachesTransitive
<1> QED
  BY <1>2, <1>3 DEF ComponentOf

LEMMA StronglyConnectedOf ==
  ASSUME NEW G, NEW C \in StronglyConnected(G), NEW v \in C
  PROVE  /\ v \in Vertices(G)
         /\ C = ComponentOf(G, v)
<1>1. PICK u \in Vertices(G) : C = ComponentOf(G, u)
  BY DEF StronglyConnected
<1>2. v \in Vertices(G)
  BY <1>1 DEF ComponentOf
<1> QED
  BY <1>1, <1>2, SameComponent

LEMMA ComponentsDisjoint ==
  ASSUME NEW G, NEW C \in StronglyConnected(G), NEW D \in StronglyConnected(G),
         C \cap D # {}
  PROVE  C = D
BY StronglyConnectedOf

LEMMA ComponentsInhabited ==
  ASSUME NEW G, NEW C \in StronglyConnected(G)
  PROVE  C # {}
BY InItsComponent DEF StronglyConnected

(* What cyclic_component() tests by the size of a component and by a loop: *)
(* each vertex has an arc that stays inside.                               *)
LEMMA CyclicHasInnerArc ==
  ASSUME NEW G, NEW C \in StronglyConnected(G), CyclicComponent(C, G), NEW v \in C
  PROVE  \E e \in G : e[1] = v /\ e[2] \in C
<1>1. v \in Vertices(G) /\ C = ComponentOf(G, v)
  BY StronglyConnectedOf
<1>2. CASE \E w \in C : w # v
  <2>1. PICK w \in C : w # v
    BY <1>2
  <2>2. Reaches(G, v, w) /\ Reaches(G, w, v)
    BY <1>1 DEF ComponentOf
  <2>3. PICK e \in G : e[1] = v /\ Reaches(G, e[2], w)
    BY <2>1, <2>2, ReachesByAnArc
  <2>4. Reaches(G, v, e[2]) /\ Reaches(G, e[2], v)
    BY <2>2, <2>3, ReachesAlongArc, ReachesTransitive
  <2>5. e[2] \in Vertices(G)
    BY DEF Vertices
  <2> QED
    BY <1>1, <2>3, <2>4, <2>5 DEF ComponentOf
<1>3. CASE \A w \in C : w = v
  <2>1. C = {v}
    BY <1>3
  <2>2. Cardinality(C) = 1
    BY <2>1, FS_Singleton
  <2>3. <<v, v>> \in G
    BY <2>1, <2>2 DEF CyclicComponent
  <2> QED
    BY <2>3
<1> QED
  BY <1>2, <1>3

LEMMA VerticesFinite ==
  ASSUME NEW G, IsFiniteSet(G)
  PROVE  IsFiniteSet(Vertices(G))
<1> DEFINE from == [e \in G |-> e[1]]
           to == [e \in G |-> e[2]]
<1>1. from \in Surjection(G, {e[1] : e \in G}) /\ to \in Surjection(G, {e[2] : e \in G})
  BY DEF Surjection
<1> HIDE DEF from, to
<1>2. IsFiniteSet({e[1] : e \in G}) /\ IsFiniteSet({e[2] : e \in G})
  BY <1>1, FS_Surjection
<1> QED
  BY <1>2, FS_Union DEF Vertices

(* And the test misses none: in a finite graph an arc that stays inside    *)
(* makes its component cyclic.                                             *)
LEMMA InnerArcIsCyclic ==
  ASSUME NEW G, IsFiniteSet(G), NEW C \in StronglyConnected(G),
         NEW e \in G, e[1] \in C, e[2] \in C, G \subseteq Vertices(G) \X Vertices(G)
  PROVE  CyclicComponent(C, G)
<1>1. CASE e[1] = e[2]
  <2>1. e = <<e[1], e[1]>>
    BY <1>1
  <2> QED
    BY <2>1 DEF CyclicComponent
<1>2. CASE e[1] # e[2]
  <2>1. IsFiniteSet(C)
    <3>1. C \subseteq Vertices(G)
      BY StronglyConnectedOf
    <3> QED
      BY <3>1, VerticesFinite, FS_Subset
  <2>2. Cardinality(C) \in Nat /\ Cardinality(C) # 0 /\ Cardinality(C) # 1
    BY <1>2, <2>1, FS_CardinalityType, FS_EmptySet, FS_Singleton
  <2> QED
    BY <2>2 DEF CyclicComponent
<1> QED
  BY <1>1, <1>2

LEMMA AcyclicComponent ==
  ASSUME NEW G, IsFiniteSet(G), G \subseteq Vertices(G) \X Vertices(G),
         NEW v \in Vertices(G), ComponentOf(G, v) \notin CyclicComponents(G)
  PROVE  ComponentOf(G, v) = {v} /\ <<v, v>> \notin G
<1> DEFINE C == ComponentOf(G, v)
<1>1. C \in StronglyConnected(G) /\ v \in C
  BY InItsComponent DEF StronglyConnected
<1>2. ~CyclicComponent(C, G)
  BY <1>1 DEF CyclicComponents
<1>3. ASSUME NEW w \in C, w # v PROVE FALSE
  <2>1. Reaches(G, v, w) /\ Reaches(G, w, v)
    BY DEF ComponentOf
  <2>2. PICK e \in G : e[1] = v /\ Reaches(G, e[2], w)
    BY <1>3, <2>1, ReachesByAnArc
  <2>3. Reaches(G, v, e[2]) /\ Reaches(G, e[2], v)
    BY <2>1, <2>2, ReachesAlongArc, ReachesTransitive
  <2>4. e[2] \in C
    BY <2>3 DEF ComponentOf, Vertices
  <2> QED
    BY <1>1, <1>2, <2>2, <2>4, InnerArcIsCyclic
<1> QED
  BY <1>1, <1>2, <1>3 DEF CyclicComponent

(* To reach a vertex is to take one of its arcs last.                      *)
LEMMA ReachesByALastArc ==
  ASSUME NEW G, NEW v, NEW w, Reaches(G, v, w), w # v
  PROVE  \E e \in G : e[2] = w /\ Reaches(G, v, e[1])
<1> DEFINE D == {x \in Vertices(G) \cup {v} : Reaches(G, v, x) /\ x # w}
<1> SUFFICES ASSUME ~\E e \in G : e[2] = w /\ Reaches(G, v, e[1])
             PROVE  FALSE
  OBVIOUS
<1>1. v \in D
  BY ReachesItself
<1>2. ASSUME NEW e \in G, e[1] \in D PROVE e[2] \in D
  <2>1. e[2] \in Vertices(G)
    BY DEF Vertices
  <2>2. Reaches(G, v, e[2])
    BY <1>2, ReachesAlongArc, ReachesTransitive
  <2> QED
    BY <1>2, <2>1, <2>2
<1>3. Closed(G, D)
  BY <1>2 DEF Closed
<1>4. D \in SUBSET (Vertices(G) \cup {v})
  OBVIOUS
<1> HIDE DEF D
<1>5. w \in D
  BY <1>1, <1>3, <1>4 DEF Reaches
<1> QED
  BY <1>5 DEF D

LEMMA CyclicHasArcInto ==
  ASSUME NEW G, NEW C \in StronglyConnected(G), CyclicComponent(C, G), NEW v \in C
  PROVE  \E e \in G : e[2] = v
<1>1. PICK a \in G : a[1] = v /\ a[2] \in C
  BY CyclicHasInnerArc
<1>2. CASE a[2] = v
  BY <1>2
<1>3. CASE a[2] # v
  <2>1. C = ComponentOf(G, v)
    BY StronglyConnectedOf
  <2>2. Reaches(G, a[2], v)
    BY <1>1, <2>1 DEF ComponentOf
  <2> QED
    BY <1>3, <2>2, ReachesByALastArc
<1> QED
  BY <1>2, <1>3

-----------------------------------------------------------------------------
(* Reaching further along more arcs, and staying in a closed set.          *)

LEMMA ReachesAlongMore ==
  ASSUME NEW F, NEW G, F \subseteq G, NEW v, NEW w, Reaches(F, v, w)
  PROVE  Reaches(G, v, w)
<1> SUFFICES ASSUME NEW C \in SUBSET (Vertices(G) \cup {v}), v \in C, Closed(G, C)
             PROVE  w \in C
  BY DEF Reaches
<1> DEFINE D == C \cap (Vertices(F) \cup {v})
<1>1. Closed(F, D)
  BY DEF Closed, Vertices
<1> QED
  BY <1>1 DEF Reaches

LEMMA ReachesWithin ==
  ASSUME NEW G, NEW D, Closed(G, D), NEW v \in D, NEW w, Reaches(G, v, w)
  PROVE  w \in D
<1> DEFINE C == D \cap (Vertices(G) \cup {v})
<1>1. Closed(G, C)
  BY DEF Closed, Vertices
<1> QED
  BY <1>1 DEF Reaches

LEMMA ArcEnds ==
  ASSUME NEW G, NEW v, NEW w, <<v, w>> \in G
  PROVE  v \in Vertices(G) /\ w \in Vertices(G) /\ Reaches(G, v, w)
<1>1. <<v, w>>[1] = v /\ <<v, w>>[2] = w
  OBVIOUS
<1>2. v \in Vertices(G) /\ w \in Vertices(G)
  BY <1>1 DEF Vertices
<1>3. Reaches(G, v, w)
  BY <1>1, ReachesAlongArc
<1> QED
  BY <1>2, <1>3

(* A way back from the end of an arc closes a cycle.                       *)
LEMMA WayBackIsCycle ==
  ASSUME NEW G, IsFiniteSet(G), G \subseteq Vertices(G) \X Vertices(G),
         NEW v, NEW w, <<v, w>> \in G, Reaches(G, w, v)
  PROVE  HasCycle(G)
<1>1. v \in Vertices(G) /\ w \in Vertices(G) /\ Reaches(G, v, w)
  BY ArcEnds
<1> DEFINE C == ComponentOf(G, v)
<1>2. C \in StronglyConnected(G) /\ v \in C /\ w \in C
  BY <1>1, InItsComponent DEF StronglyConnected, ComponentOf
<1>3. SUFFICES CyclicComponent(C, G)
  BY <1>2 DEF HasCycle, CyclicComponents
<1> DEFINE e == <<v, w>>
<1>4. e \in G /\ e[1] \in C /\ e[2] \in C
  BY <1>2
<1> HIDE DEF C, e
<1> QED
  BY <1>2, <1>3, <1>4, InnerArcIsCyclic

=============================================================================
