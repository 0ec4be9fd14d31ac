---------------------------- MODULE ComponentSearch ----------------------------
(***************************************************************************)
(* What strongly_connected() of src/composer.cpp promises, without its     *)
(* stack: the strongly connected components of the graph come out one by   *)
(* one, each once, each after every component it points to, until there is *)
(* none left.                                                              *)
(***************************************************************************)
EXTENDS Condensation, Sequences

CONSTANT Graphs   \* the digraphs to be searched

VARIABLES graph, result

Found == {result[i] : i \in DOMAIN result}

Init == graph \in Graphs /\ result = <<>>

(* Every arc that leaves the component ends in one that is out already.    *)
Emit(C) ==
  /\ C \notin Found
  /\ \A v \in C : Successors(graph, v) \subseteq C \cup UNION Found
  /\ result' = Append(result, C)
  /\ UNCHANGED graph

Next == \E C \in StronglyConnected(graph) : Emit(C)

Spec == Init /\ [][Next]_<<graph, result>> /\ WF_<<graph, result>>(Next)

=============================================================================
