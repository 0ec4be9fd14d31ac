----------------------------- MODULE Condensation -----------------------------
(***************************************************************************)
(* Strongly connected components, as the composer uses them: the meaning   *)
(* of strongly_connected() and cyclic_component() in src/composer.cpp.     *)
(* A digraph is a set of pairs <<from, to>>; its vertices are the ends of  *)
(* its pairs, as in the adjacency maps the composer fills edge by edge.    *)
(* Reachability is stated through closed sets, so that no definition here  *)
(* is recursive and every one can be reasoned about.                       *)
(***************************************************************************)
EXTENDS Naturals, FiniteSets

Vertices(G) == {e[1] : e \in G} \cup {e[2] : e \in G}

Successors(G, v) == {e[2] : e \in {f \in G : f[1] = v}}

(* C is closed when no pair of G leaves it.                                *)
Closed(G, C) == \A e \in G : e[1] \in C => e[2] \in C

(* w is reachable from v, in zero or more steps.                           *)
Reaches(G, v, w) ==
  \A C \in SUBSET (Vertices(G) \cup {v}) : v \in C /\ Closed(G, C) => w \in C

ComponentOf(G, v) == {w \in Vertices(G) : Reaches(G, v, w) /\ Reaches(G, w, v)}

StronglyConnected(G) == {ComponentOf(G, v) : v \in Vertices(G)}

(* A variant for the mutants: one vertex is never a cycle.                 *)
ManyVertices(C, G) == Cardinality(C) > 1

(* More than one vertex, or one that points to itself.                     *)
CyclicComponent(C, G) == Cardinality(C) > 1 \/ \E v \in C : <<v, v>> \in G

CyclicComponents(G) == {C \in StronglyConnected(G) : CyclicComponent(C, G)}

HasCycle(G) == CyclicComponents(G) # {}

=============================================================================
