--------------------------- MODULE TarjanProperties ---------------------------
(***************************************************************************)
(* What is true of the depth-first search of module Tarjan while it runs,  *)
(* and that it implements ComponentSearch.                                 *)
(***************************************************************************)
EXTENDS Tarjan

Search == INSTANCE ComponentSearch

Emitted == UNION Search!Found

CallNodes == {calls[i].node : i \in DOMAIN calls}

-----------------------------------------------------------------------------
(* The maps cover the vertices visited, whose indices are all those below  *)
(* next; low links and calls are of visited vertices.                      *)
TypeOK ==
  /\ graph \in Graphs
  /\ DOMAIN index \subseteq Vertices(graph)
  /\ next = Cardinality(DOMAIN index)
  /\ index \in [DOMAIN index -> 0..(next - 1)]
  /\ low \in [DOMAIN index -> 0..(next - 1)]
  /\ stack \in Seq(DOMAIN index)
  /\ on_stack \subseteq DOMAIN index
  /\ calls \in Seq(Frame)
  /\ result \in Seq(SUBSET DOMAIN index)

(* A vertex that was visited is on the stack or in one component, never in *)
(* both; the stack is in order of visit, and on_stack says what is on it.  *)
StackHoldsUnfinished ==
  /\ on_stack = {stack[i] : i \in DOMAIN stack}
  /\ DOMAIN index = on_stack \cup Emitted
  /\ on_stack \cap Emitted = {}
  /\ \A i, j \in DOMAIN stack : i < j => index[stack[i]] < index[stack[j]]

(* The recursion is as deep as a simple path of the graph is long, and all *)
(* of the path is on the stack: the depth never exceeds the number of      *)
(* vertices (src/composer.cpp:357 has no other bound).                     *)
CallsAreSimplePath ==
  /\ CallNodes \subseteq on_stack
  /\ \A i, j \in DOMAIN calls : i < j => index[calls[i].node] < index[calls[j].node]
  /\ \A i \in 1..(Len(calls) - 1) :
       calls[i + 1].node \in Successors(graph, calls[i].node)

(* A low link names a vertex of the stack that can be reached.  A vertex   *)
(* whose call has returned and that is still on the stack has one below    *)
(* itself, which is why it waits there; all that a call under way found    *)
(* since it began can be reached from it, and an arc that leaves a         *)
(* component leads to one that is out.                                     *)
LowLinksReach ==
  /\ \A v \in on_stack :
       /\ \E w \in on_stack :
            index[w] = low[v] /\ low[v] <= index[v] /\ Reaches(graph, v, w)
       /\ v \notin CallNodes => low[v] < index[v]
       /\ \A u \in CallNodes : index[u] <= index[v] => Reaches(graph, u, v)
  /\ \A e \in graph : e[1] \in Emitted => e[2] \in Emitted

(* cyclic_component() recognises by its shape whether a component that was *)
(* found lies on a cycle: whether its vertices can return to themselves.   *)
CyclesRecognised ==
  \A i \in DOMAIN result : \A v \in result[i] :
    CyclicComponent(result[i], graph)
      <=> \E w \in Successors(graph, v) : Reaches(graph, w, v)

(* The search finds exactly the strongly connected components, each once   *)
(* and after those it points to, and finds them all.                       *)
ImplementsSearch == Search!Spec

=============================================================================
