-------------------------------- MODULE Tarjan --------------------------------
(***************************************************************************)
(* strongly_connected() of src/composer.cpp: a depth-first search that     *)
(* numbers the vertices, keeps those whose component is not complete on a  *)
(* stack, and remembers how far down the stack each can reach.  A call of  *)
(* the recursive lambda `visit' is a frame of `calls'; a step is a call, a *)
(* target looked at, or a return.  The adjacency map and its vectors are   *)
(* ordered by identities, so roots and targets come in any order.          *)
(***************************************************************************)
EXTENDS Condensation, Naturals, Sequences, FiniteSets

CONSTANTS Vertex,   \* the selections that requirements name
          Graphs    \* the digraphs to be searched

ASSUME GraphsAssumption == \A G \in Graphs : G \subseteq Vertex \X Vertex

VARIABLES graph,     \* the arcs of the adjacency map
          index, low,
          next,      \* the index the next vertex gets
          stack, on_stack,
          calls,     \* the calls of visit() under way, the innermost last
          result     \* the components found

searchVars == <<index, low, next, stack, on_stack>>
vars == <<graph, index, low, next, stack, on_stack, calls, result>>

Frame == [node : Vertex, targets : SUBSET Vertex]

Least(m, n) == IF m <= n THEN m ELSE n

Top == calls[Len(calls)]
Returned == SubSeq(calls, 1, Len(calls) - 1)

-----------------------------------------------------------------------------
Init ==
  /\ graph \in Graphs
  /\ index = <<>> /\ low = <<>> /\ next = 0
  /\ stack = <<>> /\ on_stack = {}
  /\ calls = <<>>
  /\ result = <<>>

(* A variant for the mutants: a vertex is new until its component is out.  *)
NotEmitted(v) == \A i \in DOMAIN result : v \notin result[i]

IsNew(v) == v \notin DOMAIN index

With(f, v, n) == [u \in DOMAIN f \cup {v} |-> IF u = v THEN n ELSE f[u]]

(* visit(v) is called, and numbers v before it looks at a target.          *)
Visit(v, caller) ==
  /\ index' = With(index, v, next)
  /\ low' = With(low, v, next)
  /\ next' = next + 1
  /\ stack' = Append(stack, v)
  /\ on_stack' = on_stack \cup {v}
  /\ calls' = Append(caller, [node |-> v, targets |-> Successors(graph, v)])
  /\ UNCHANGED <<graph, result>>

VisitRoot(v) ==
  /\ calls = <<>>
  /\ IsNew(v)
  /\ Visit(v, calls)

LookedAt(t) == [calls EXCEPT ![Len(calls)].targets = @ \ {t}]

VisitTarget(t) ==
  /\ IsNew(t)
  /\ Visit(t, LookedAt(t))

(* A variant for the mutants: an arc into a finished component counts.     *)
EveryArcReaches(v, t) == Least(low[v], index[t])

(* An arc to a vertex on the stack lowers the link, any other does not.    *)
LowAfterArc(v, t) == IF t \in on_stack THEN Least(low[v], index[t]) ELSE low[v]

SkipTarget(t) ==
  /\ ~IsNew(t)
  /\ low' = [low EXCEPT ![Top.node] = LowAfterArc(Top.node, t)]
  /\ calls' = LookedAt(t)
  /\ UNCHANGED <<graph, index, next, stack, on_stack, result>>

LookAtTarget ==
  /\ calls # <<>>
  /\ \E t \in Top.targets : VisitTarget(t) \/ SkipTarget(t)

(* A variant for the mutants: what the callee reached is forgotten.        *)
LowForgotten(v) == low

(* visit(v) returns: its caller, if it is one, takes over what v reached.  *)
LowAfterReturn(v) ==
  IF Returned = <<>> THEN low
  ELSE LET u == Returned[Len(Returned)].node
       IN [low EXCEPT ![u] = Least(low[u], low[v])]

Return(v) ==
  /\ low' = LowAfterReturn(v)
  /\ calls' = Returned
  /\ UNCHANGED <<graph, index, next>>

(* The part of the stack from its element i on is popped.                  *)
Popped(i) ==
  LET component == {stack[j] : j \in i..Len(stack)} IN
  /\ stack' = SubSeq(stack, 1, i - 1)
  /\ on_stack' = on_stack \ component
  /\ result' = Append(result, component)

(* A variant for the mutants: a popped vertex stays marked.                *)
PoppedStillMarked(v) ==
  \E i \in DOMAIN stack :
    /\ stack[i] = v
    /\ stack' = SubSeq(stack, 1, i - 1)
    /\ result' = Append(result, {stack[j] : j \in i..Len(stack)})
    /\ UNCHANGED on_stack

(* The stack is popped down to the topmost v, which must be on it.         *)
PopComponent(v) ==
  \E i \in DOMAIN stack :
    /\ stack[i] = v
    /\ \A j \in (i + 1)..Len(stack) : stack[j] # v
    /\ Popped(i)

FinishVisit ==
  /\ calls # <<>>
  /\ Top.targets = {}
  /\ Return(Top.node)
  /\ IF low[Top.node] = index[Top.node]
       THEN PopComponent(Top.node)
       ELSE UNCHANGED <<stack, on_stack, result>>

Next ==
  \/ \E v \in Vertices(graph) : VisitRoot(v)
  \/ LookAtTarget
  \/ FinishVisit

(* A function that was called goes on.                                     *)
Spec == Init /\ [][Next]_vars /\ WF_vars(Next)

=============================================================================
