----------------------------- MODULE TarjanProofs -----------------------------
(***************************************************************************)
(* The depth-first search of module Tarjan finds the strongly connected    *)
(* components of every graph: its invariants, and each of its steps as a   *)
(* step of ComponentSearch or none.                                        *)
(***************************************************************************)
EXTENDS TarjanProperties, CondensationProofs, SequenceTheorems, WellFoundedInduction

-----------------------------------------------------------------------------
(* What the invariants of the runs need to be inductive.                   *)

IndexDistinct == \A u, v \in DOMAIN index : index[u] = index[v] => u = v

TargetsAreArcs ==
  \A i \in DOMAIN calls : calls[i].targets \subseteq Successors(graph, calls[i].node)

(* A call of v that is under way has looked at t, and has its answer.      *)
Followed(v, t) ==
  \A i \in DOMAIN calls :
    calls[i].node = v => /\ t \notin calls[i].targets
                         /\ i < Len(calls) => calls[i + 1].node # t

(* An arc that was followed leads to a vertex that was visited, and the    *)
(* low link of its source knows of it as long as both are on the stack.    *)
ArcsFollowed ==
  \A e \in graph :
    e[1] \in DOMAIN index /\ Followed(e[1], e[2]) =>
      /\ e[2] \in DOMAIN index
      /\ e[1] \in on_stack /\ e[2] \in on_stack => low[e[1]] <= index[e[2]]

(* u is the last vertex before w, in order of visit, that is being visited *)
LastCalledBefore(u, w) ==
  /\ index[u] < index[w]
  /\ \A c \in CallNodes : index[c] < index[w] => index[c] <= index[u]

(* A call has taken over what the calls that it made have found.           *)
LowCovers ==
  \A w \in on_stack \ CallNodes : \A u \in CallNodes :
    LastCalledBefore(u, w) => low[u] <= low[w]

FoundComponents == Search!Found \subseteq StronglyConnected(graph)

SearchInv ==
  /\ TypeOK
  /\ IsFiniteSet(DOMAIN index)
  /\ IndexDistinct
  /\ StackHoldsUnfinished
  /\ CallsAreSimplePath
  /\ LowLinksReach
  /\ TargetsAreArcs
  /\ ArcsFollowed
  /\ LowCovers
  /\ FoundComponents

LEMMA SearchInit == Init => SearchInv
<1> SUFFICES ASSUME Init PROVE SearchInv
  OBVIOUS
<1>1. /\ DOMAIN index = {} /\ DOMAIN low = {}
      /\ DOMAIN calls = {} /\ DOMAIN stack = {} /\ DOMAIN result = {}
  BY DEF Init
<1>2. Cardinality({}) = 0 /\ IsFiniteSet({})
  BY FS_EmptySet
<1>3. TypeOK /\ IsFiniteSet(DOMAIN index)
  BY <1>1, <1>2 DEF Init, TypeOK
<1>4. Search!Found = {} /\ Emitted = {} /\ CallNodes = {}
  BY <1>1 DEF Search!Found, Emitted, CallNodes
<1>5. StackHoldsUnfinished /\ CallsAreSimplePath
  BY <1>1, <1>4 DEF Init, StackHoldsUnfinished, CallsAreSimplePath
<1>6. LowLinksReach /\ LowCovers /\ FoundComponents
  BY <1>4 DEF Init, LowLinksReach, LowCovers, FoundComponents
<1>7. IndexDistinct /\ TargetsAreArcs /\ ArcsFollowed
  BY <1>1 DEF IndexDistinct, TargetsAreArcs, ArcsFollowed
<1> QED
  BY <1>3, <1>5, <1>6, <1>7 DEF SearchInv

-----------------------------------------------------------------------------
(* A vertex is visited.                                                    *)

(* The calls under way when v is called: the innermost has v as a target   *)
(* and looks at it no more.                                                *)
Calling(caller, v) ==
  /\ v \in Vertices(graph) /\ IsNew(v)
  /\ caller \in Seq(Frame) /\ Len(caller) = Len(calls)
  /\ \A i \in 1..Len(calls) :
       /\ caller[i].node = calls[i].node
       /\ caller[i].targets = IF i = Len(calls) THEN calls[i].targets \ {v}
                              ELSE calls[i].targets
  /\ Len(calls) > 0 => <<calls[Len(calls)].node, v>> \in graph

LEMMA VertexOfGraph ==
  ASSUME TypeOK
  PROVE  /\ Vertices(graph) \subseteq Vertex
         /\ \A v : Successors(graph, v) \subseteq Vertices(graph) \cap Vertex
         /\ graph \subseteq Vertices(graph) \X Vertices(graph)
<1>1. graph \subseteq Vertex \X Vertex
  BY GraphsAssumption DEF TypeOK
<1>2. \A e \in graph : e[1] \in Vertex /\ e[2] \in Vertex
  BY <1>1
<1> QED
  BY <1>1, <1>2 DEF Vertices, Successors

LEMMA ArcOf ==
  ASSUME TypeOK, NEW v, NEW t
  PROVE  t \in Successors(graph, v) <=> <<v, t>> \in graph
<1>1. graph \subseteq Vertex \X Vertex
  BY GraphsAssumption DEF TypeOK
<1>2. \A e \in graph : e = <<e[1], e[2]>>
  BY <1>1
<1> QED
  BY <1>2 DEF Successors

LEMMA RootCalled ==
  ASSUME SearchInv, NEW v \in Vertices(graph), VisitRoot(v)
  PROVE  Calling(calls, v) /\ Visit(v, calls)
<1>1. Len(calls) = 0 /\ calls \in Seq(Frame)
  BY DEF SearchInv, TypeOK, VisitRoot
<1> QED
  BY <1>1 DEF VisitRoot, Calling

LEMMA LookedAtIs ==
  ASSUME SearchInv, calls # <<>>, NEW t \in Top.targets
  PROVE  /\ Len(calls) > 0 /\ Top = calls[Len(calls)]
         /\ <<Top.node, t>> \in graph /\ t \in Vertices(graph)
         /\ LookedAt(t) \in Seq(Frame) /\ Len(LookedAt(t)) = Len(calls)
         /\ DOMAIN LookedAt(t) = 1..Len(calls)
         /\ \A i \in 1..Len(calls) :
              /\ LookedAt(t)[i].node = calls[i].node
              /\ LookedAt(t)[i].targets = IF i = Len(calls) THEN calls[i].targets \ {t}
                                          ELSE calls[i].targets
<1>1. /\ TypeOK /\ calls \in Seq(Frame)
      /\ Len(calls) \in 1..Len(calls) /\ DOMAIN calls = 1..Len(calls)
  BY DEF SearchInv, TypeOK
<1>2. calls[Len(calls)] \in Frame
  BY <1>1
<1>3. t \in Successors(graph, Top.node)
  BY <1>1 DEF SearchInv, TargetsAreArcs, Top
<1>4. <<Top.node, t>> \in graph /\ t \in Vertices(graph)
  BY <1>1, <1>3, ArcOf, VertexOfGraph
<1>5. [calls[Len(calls)] EXCEPT !.targets = calls[Len(calls)].targets \ {t}] \in Frame
  BY <1>2 DEF Frame
<1>6. LookedAt(t) = [calls EXCEPT ![Len(calls)] =
                       [calls[Len(calls)] EXCEPT !.targets = calls[Len(calls)].targets \ {t}]]
  BY DEF LookedAt
<1>7. LookedAt(t) \in Seq(Frame) /\ Len(LookedAt(t)) = Len(calls)
  BY <1>1, <1>5, <1>6, ExceptSeq
<1>8. \A i \in 1..Len(calls) :
        /\ LookedAt(t)[i].node = calls[i].node
        /\ LookedAt(t)[i].targets = IF i = Len(calls) THEN calls[i].targets \ {t}
                                    ELSE calls[i].targets
  BY <1>1, <1>2, <1>6 DEF Frame
<1>9. DOMAIN LookedAt(t) = 1..Len(calls) /\ Len(calls) > 0
  BY <1>1, <1>7
<1> QED
  BY <1>4, <1>7, <1>8, <1>9 DEF Top

LEMMA TargetCalled ==
  ASSUME SearchInv, calls # <<>>, NEW t \in Top.targets, VisitTarget(t)
  PROVE  Calling(LookedAt(t), t) /\ Visit(t, LookedAt(t))
BY LookedAtIs DEF Calling, VisitTarget

LEMMA Numbers ==
  ASSUME SearchInv
  PROVE  /\ next \in Nat
         /\ \A u \in DOMAIN index : /\ index[u] \in Nat /\ index[u] < next
                                    /\ low[u] \in Nat /\ low[u] < next
         /\ on_stack \subseteq DOMAIN index /\ CallNodes \subseteq on_stack
         /\ Emitted \subseteq DOMAIN index
         /\ DOMAIN low = DOMAIN index
         /\ DOMAIN calls = 1..Len(calls) /\ Len(calls) \in Nat
         /\ DOMAIN stack = 1..Len(stack) /\ Len(stack) \in Nat
<1>1. /\ TypeOK /\ StackHoldsUnfinished /\ CallsAreSimplePath
      /\ IsFiniteSet(DOMAIN index)
  BY DEF SearchInv
<1>2. next \in Nat
  BY <1>1, FS_CardinalityType DEF TypeOK
<1>3. \A u \in DOMAIN index : index[u] \in 0..(next - 1) /\ low[u] \in 0..(next - 1)
  BY <1>1 DEF TypeOK
<1>4. on_stack \subseteq DOMAIN index /\ CallNodes \subseteq on_stack
      /\ Emitted \subseteq DOMAIN index
  BY <1>1 DEF TypeOK, StackHoldsUnfinished, CallsAreSimplePath
<1>5. /\ DOMAIN low = DOMAIN index
      /\ DOMAIN calls = 1..Len(calls) /\ Len(calls) \in Nat
      /\ DOMAIN stack = 1..Len(stack) /\ Len(stack) \in Nat
  BY <1>1 DEF TypeOK
<1> QED
  BY <1>2, <1>3, <1>4, <1>5

LEMMA VisitedMaps ==
  ASSUME SearchInv, NEW caller, NEW v, Calling(caller, v), Visit(v, caller)
  PROVE  /\ DOMAIN index' = DOMAIN index \cup {v} /\ DOMAIN low' = DOMAIN index \cup {v}
         /\ index'[v] = next /\ low'[v] = next /\ v \notin DOMAIN index
         /\ \A u \in DOMAIN index : index'[u] = index[u] /\ low'[u] = low[u]
         /\ on_stack' = on_stack \cup {v} /\ next' = next + 1
         /\ graph' = graph /\ result' = result
<1>1. DOMAIN low = DOMAIN index
  BY Numbers
<1> QED
  BY <1>1 DEF Visit, With, Calling, IsNew

LEMMA VisitedSequences ==
  ASSUME SearchInv, NEW caller, NEW v, Calling(caller, v), Visit(v, caller)
  PROVE  /\ Len(stack') = Len(stack) + 1 /\ DOMAIN stack' = 1..(Len(stack) + 1)
         /\ \A i \in 1..Len(stack) : stack'[i] = stack[i]
         /\ stack'[Len(stack) + 1] = v
         /\ stack' \in Seq(DOMAIN index \cup {v})
         /\ Len(calls') = Len(calls) + 1 /\ DOMAIN calls' = 1..(Len(calls) + 1)
         /\ \A i \in 1..Len(calls) :
              /\ calls'[i].node = calls[i].node
              /\ calls'[i].targets = IF i = Len(calls) THEN calls[i].targets \ {v}
                                     ELSE calls[i].targets
         /\ calls'[Len(calls) + 1].node = v
         /\ calls'[Len(calls) + 1].targets = Successors(graph, v)
         /\ calls' \in Seq(Frame)
<1>1. TypeOK
  BY DEF SearchInv
<1>2. stack \in Seq(DOMAIN index \cup {v}) /\ Len(stack) \in Nat
  BY <1>1 DEF TypeOK
<1>3. stack' = Append(stack, v)
  BY DEF Visit
<1>4. /\ stack' \in Seq(DOMAIN index \cup {v}) /\ Len(stack') = Len(stack) + 1
      /\ DOMAIN stack' = 1..(Len(stack) + 1)
      /\ \A i \in 1..Len(stack) : stack'[i] = stack[i]
      /\ stack'[Len(stack) + 1] = v
  BY <1>2, <1>3, AppendProperties, LenProperties
<1> DEFINE f == [node |-> v, targets |-> Successors(graph, v)]
<1>5. f \in Frame
  BY <1>1, VertexOfGraph DEF Frame, Calling
<1>6. caller \in Seq(Frame) /\ calls' = Append(caller, f) /\ Len(caller) = Len(calls)
  BY DEF Visit, Calling
<1>7. /\ calls' \in Seq(Frame) /\ Len(calls') = Len(calls) + 1
      /\ DOMAIN calls' = 1..(Len(calls) + 1)
      /\ \A i \in 1..Len(calls) : calls'[i] = caller[i]
      /\ calls'[Len(calls) + 1] = f
  <2> HIDE DEF f
  <2> QED
    BY <1>5, <1>6, AppendProperties, LenProperties
<1>8. f.node = v /\ f.targets = Successors(graph, v)
  OBVIOUS
<1>9. \A i \in 1..Len(calls) :
        /\ caller[i].node = calls[i].node
        /\ caller[i].targets = IF i = Len(calls) THEN calls[i].targets \ {v}
                               ELSE calls[i].targets
  BY DEF Calling
<1> HIDE DEF f
<1> QED
  BY <1>4, <1>7, <1>8, <1>9

LEMMA VisitedCallNodes ==
  ASSUME SearchInv, NEW caller, NEW v, Calling(caller, v), Visit(v, caller)
  PROVE  CallNodes' = CallNodes \cup {v}
<1>1. DOMAIN calls = 1..Len(calls) /\ Len(calls) \in Nat
  BY Numbers
<1>2. \A i \in 1..(Len(calls) + 1) : i \in 1..Len(calls) \/ i = Len(calls) + 1
  BY <1>1
<1>3. Len(calls) + 1 \in 1..(Len(calls) + 1) /\ 1..Len(calls) \subseteq 1..(Len(calls) + 1)
  BY <1>1
<1>4. /\ DOMAIN calls' = 1..(Len(calls) + 1)
      /\ \A i \in 1..Len(calls) : calls'[i].node = calls[i].node
      /\ calls'[Len(calls) + 1].node = v
  BY VisitedSequences
<1> QED
  BY <1>1, <1>2, <1>3, <1>4 DEF CallNodes

(* All that a call of visit(v) changes, up to its first target.            *)
VisitEffect(v) ==
  /\ v \in Vertices(graph) /\ v \notin DOMAIN index
  /\ Len(calls) > 0 => <<calls[Len(calls)].node, v>> \in graph
  /\ DOMAIN index' = DOMAIN index \cup {v} /\ DOMAIN low' = DOMAIN index \cup {v}
  /\ index' = [u \in DOMAIN index' |-> index'[u]] /\ low' = [u \in DOMAIN index' |-> low'[u]]
  /\ index'[v] = next /\ low'[v] = next
  /\ \A u \in DOMAIN index : index'[u] = index[u] /\ low'[u] = low[u]
  /\ on_stack' = on_stack \cup {v} /\ next' = next + 1
  /\ graph' = graph /\ result' = result
  /\ Len(stack') = Len(stack) + 1 /\ DOMAIN stack' = 1..(Len(stack) + 1)
  /\ \A i \in 1..Len(stack) : stack'[i] = stack[i]
  /\ stack'[Len(stack) + 1] = v
  /\ stack' \in Seq(DOMAIN index \cup {v})
  /\ Len(calls') = Len(calls) + 1 /\ DOMAIN calls' = 1..(Len(calls) + 1)
  /\ \A i \in 1..Len(calls) :
       /\ calls'[i].node = calls[i].node
       /\ calls'[i].targets = IF i = Len(calls) THEN calls[i].targets \ {v}
                              ELSE calls[i].targets
  /\ calls'[Len(calls) + 1].node = v
  /\ calls'[Len(calls) + 1].targets = Successors(graph, v)
  /\ calls' \in Seq(Frame)
  /\ CallNodes' = CallNodes \cup {v}

LEMMA WithIsFunction ==
  ASSUME NEW f, NEW v, NEW n
  PROVE  With(f, v, n) = [u \in DOMAIN With(f, v, n) |-> With(f, v, n)[u]]
BY DEF With

LEMMA VisitHasEffect ==
  ASSUME SearchInv, NEW caller, NEW v, Calling(caller, v), Visit(v, caller)
  PROVE  VisitEffect(v)
<1>1. index' = [u \in DOMAIN index' |-> index'[u]] /\ low' = [u \in DOMAIN low' |-> low'[u]]
  BY WithIsFunction DEF Visit
<1> QED
  BY <1>1, VisitedMaps, VisitedSequences, VisitedCallNodes DEF VisitEffect, Calling

LEMMA VisitTyped ==
  ASSUME SearchInv, NEW v, VisitEffect(v)
  PROVE  TypeOK' /\ IsFiniteSet(DOMAIN index')
<1>1. TypeOK /\ IsFiniteSet(DOMAIN index) /\ next \in Nat
  BY Numbers DEF SearchInv
<1>2. DOMAIN index' = DOMAIN index \cup {v} /\ v \notin DOMAIN index
  BY DEF VisitEffect
<1>3. IsFiniteSet(DOMAIN index') /\ Cardinality(DOMAIN index') = next + 1
  <2>1. /\ IsFiniteSet(DOMAIN index \cup {v})
        /\ Cardinality(DOMAIN index \cup {v}) = Cardinality(DOMAIN index) + 1
    BY <1>1, <1>2, FS_AddElement
  <2> QED
    BY <1>1, <1>2, <2>1 DEF TypeOK
<1>4. \A u \in DOMAIN index' : index'[u] \in 0..next /\ low'[u] \in 0..next
  BY <1>1, <1>2, Numbers DEF VisitEffect
<1>5. /\ index' \in [DOMAIN index' -> 0..(next' - 1)]
      /\ low' \in [DOMAIN index' -> 0..(next' - 1)]
  <2>1. next' - 1 = next
    BY <1>1 DEF VisitEffect
  <2> QED
    BY <1>4, <2>1 DEF VisitEffect
<1>6. result' \in Seq(SUBSET DOMAIN index')
  BY <1>1, <1>2 DEF TypeOK, VisitEffect
<1>7. v \in Vertices(graph)
  BY DEF VisitEffect
<1> QED
  BY <1>1, <1>2, <1>3, <1>5, <1>6, <1>7 DEF TypeOK, VisitEffect

LEMMA VisitKeepsOrder ==
  ASSUME SearchInv, NEW v, VisitEffect(v)
  PROVE  IndexDistinct' /\ StackHoldsUnfinished' /\ CallsAreSimplePath' /\ TargetsAreArcs'
<1>1. /\ IndexDistinct /\ StackHoldsUnfinished /\ CallsAreSimplePath /\ TargetsAreArcs
      /\ TypeOK
  BY DEF SearchInv
<1>2. IndexDistinct'
  BY <1>1, Numbers DEF IndexDistinct, VisitEffect
<1>3. Emitted' = Emitted
  BY DEF Emitted, Search!Found, VisitEffect
<1>4. \A i \in 1..Len(stack) : stack[i] \in on_stack /\ stack[i] \in DOMAIN index
  BY <1>1, Numbers DEF StackHoldsUnfinished
<1>5. on_stack' = {stack'[i] : i \in DOMAIN stack'}
  <2>1. \A i \in DOMAIN stack' : i \in 1..Len(stack) \/ i = Len(stack) + 1
    BY Numbers DEF VisitEffect
  <2>2. Len(stack) + 1 \in DOMAIN stack' /\ 1..Len(stack) \subseteq DOMAIN stack'
    BY Numbers DEF VisitEffect
  <2>3. on_stack = {stack[i] : i \in 1..Len(stack)}
    BY <1>1, Numbers DEF StackHoldsUnfinished
  <2> QED
    BY <2>1, <2>2, <2>3 DEF VisitEffect
<1>6. \A i, j \in DOMAIN stack' : i < j => index'[stack'[i]] < index'[stack'[j]]
  <2> SUFFICES ASSUME NEW i \in 1..(Len(stack) + 1), NEW j \in 1..(Len(stack) + 1), i < j
               PROVE  index'[stack'[i]] < index'[stack'[j]]
    BY DEF VisitEffect
  <2>1. i \in 1..Len(stack) /\ stack'[i] = stack[i] /\ index'[stack[i]] = index[stack[i]]
    BY <1>4, Numbers DEF VisitEffect
  <2>2. CASE j = Len(stack) + 1
    BY <1>4, <2>1, <2>2, Numbers DEF VisitEffect
  <2>3. CASE j \in 1..Len(stack)
    <3>1. index[stack[i]] < index[stack[j]]
      BY <1>1, <2>1, <2>3, Numbers DEF StackHoldsUnfinished
    <3> QED
      BY <1>4, <2>1, <2>3, <3>1 DEF VisitEffect
  <2> QED
    BY <2>2, <2>3, Numbers
<1>7. StackHoldsUnfinished'
  BY <1>1, <1>3, <1>5, <1>6, Numbers DEF StackHoldsUnfinished, VisitEffect
<1>8. \A i \in 1..Len(calls) : calls[i].node \in on_stack /\ calls[i].node \in DOMAIN index
  BY Numbers DEF CallNodes
<1>9. \A i, j \in DOMAIN calls' : i < j => index'[calls'[i].node] < index'[calls'[j].node]
  <2> SUFFICES ASSUME NEW i \in 1..(Len(calls) + 1), NEW j \in 1..(Len(calls) + 1), i < j
               PROVE  index'[calls'[i].node] < index'[calls'[j].node]
    BY DEF VisitEffect
  <2>1. i \in 1..Len(calls)
    BY Numbers
  <2> /\ calls'[i].node = calls[i].node /\ calls[i].node \in DOMAIN index
      /\ index'[calls[i].node] = index[calls[i].node]
    BY <1>8, <2>1 DEF VisitEffect
  <2>2. CASE j = Len(calls) + 1
    BY <1>8, <2>1, <2>2, Numbers DEF VisitEffect
  <2>3. CASE j \in 1..Len(calls)
    <3>1. index[calls[i].node] < index[calls[j].node]
      BY <1>1, <2>1, <2>3, Numbers DEF CallsAreSimplePath
    <3> QED
      BY <1>8, <2>1, <2>3, <3>1 DEF VisitEffect
  <2>4. Len(calls) \in Nat
    BY Numbers
  <2> QED
    BY <2>2, <2>3, <2>4
<1>10. ASSUME NEW i \in 1..(Len(calls') - 1)
       PROVE  calls'[i + 1].node \in Successors(graph', calls'[i].node)
  <2>0. Len(calls) \in Nat /\ Len(calls') = Len(calls) + 1
    BY Numbers DEF VisitEffect
  <2>1. i \in 1..Len(calls)
    BY <2>0
  <2> graph' = graph /\ calls'[i].node = calls[i].node
    BY <2>1 DEF VisitEffect
  <2>2. CASE i = Len(calls)
    <3>1. <<calls[Len(calls)].node, v>> \in graph
      BY <2>2, <2>1 DEF VisitEffect
    <3> QED
      BY <1>1, <2>1, <2>2, <3>1, ArcOf DEF VisitEffect
  <2>3. CASE i \in 1..(Len(calls) - 1)
    <3>1. i + 1 \in 1..Len(calls)
      BY <2>3, Numbers
    <3>2. calls[i + 1].node \in Successors(graph, calls[i].node)
      BY <1>1, <2>3 DEF CallsAreSimplePath
    <3> QED
      BY <2>1, <3>1, <3>2 DEF VisitEffect
  <2> QED
    BY <2>0, <2>1, <2>2, <2>3
<1>11. CallsAreSimplePath'
  BY <1>9, <1>10, Numbers DEF CallsAreSimplePath, VisitEffect
<1>12. TargetsAreArcs'
  <2> SUFFICES ASSUME NEW i \in 1..(Len(calls) + 1)
               PROVE  calls'[i].targets \subseteq Successors(graph', calls'[i].node)
    BY DEF TargetsAreArcs, VisitEffect
  <2>1. CASE i = Len(calls) + 1
    BY <2>1 DEF VisitEffect
  <2>2. CASE i \in 1..Len(calls)
    BY <1>1, <2>2, Numbers DEF TargetsAreArcs, VisitEffect
  <2> QED
    BY <2>1, <2>2, Numbers
<1> QED
  BY <1>2, <1>7, <1>11, <1>12

(* The innermost call is the last one that was made.                       *)
LEMMA TopIsLast ==
  ASSUME SearchInv, Len(calls) > 0
  PROVE  /\ Len(calls) \in DOMAIN calls /\ Top = calls[Len(calls)]
         /\ Top.node \in CallNodes /\ Top.node \in on_stack /\ Top.node \in DOMAIN index
         /\ \A u \in CallNodes : index[u] <= index[Top.node]
         /\ \A u \in CallNodes : u # Top.node => index[u] < index[Top.node]
<1>1. CallsAreSimplePath /\ DOMAIN calls = 1..Len(calls) /\ Len(calls) \in Nat
  BY Numbers DEF SearchInv
<1>2. Len(calls) \in DOMAIN calls /\ Top = calls[Len(calls)]
  BY <1>1 DEF Top
<1>3. Top.node \in CallNodes /\ Top.node \in on_stack /\ Top.node \in DOMAIN index
  BY <1>2, Numbers DEF CallNodes
<1>4. ASSUME NEW u \in CallNodes, u # Top.node PROVE index[u] < index[Top.node]
  <2>1. PICK i \in DOMAIN calls : u = calls[i].node
    BY DEF CallNodes
  <2>2. i < Len(calls)
    BY <1>1, <1>2, <1>4, <2>1
  <2> QED
    BY <1>1, <1>2, <2>1, <2>2 DEF CallsAreSimplePath
<1>5. \A u \in CallNodes : index[u] \in Nat
  BY Numbers
<1> QED
  BY <1>2, <1>3, <1>4, <1>5

LEMMA VisitKeepsLinks ==
  ASSUME SearchInv, NEW v, VisitEffect(v)
  PROVE  LowLinksReach' /\ ArcsFollowed' /\ LowCovers' /\ FoundComponents'
<1>1. LowLinksReach /\ ArcsFollowed /\ LowCovers /\ FoundComponents /\ TypeOK
  BY DEF SearchInv
<1>2. /\ CallNodes' = CallNodes \cup {v} /\ on_stack' = on_stack \cup {v}
      /\ index'[v] = next /\ low'[v] = next /\ v \notin DOMAIN index
      /\ \A u \in DOMAIN index : index'[u] = index[u] /\ low'[u] = low[u]
      /\ graph' = graph /\ result' = result
      /\ DOMAIN index' = DOMAIN index \cup {v}
  BY DEF VisitEffect
<1>3. Emitted' = Emitted /\ (Search!Found)' = Search!Found
  BY <1>2 DEF Emitted, Search!Found
<1>4. /\ next \in Nat
      /\ \A u \in DOMAIN index : index[u] \in Nat /\ index[u] < next
      /\ on_stack \subseteq DOMAIN index /\ CallNodes \subseteq on_stack
  BY Numbers
<1>5. ASSUME NEW x \in on_stack'
      PROVE  /\ \E w \in on_stack' :
                  index'[w] = low'[x] /\ low'[x] <= index'[x] /\ Reaches(graph, x, w)
             /\ x \notin CallNodes' => low'[x] < index'[x]
  <2>1. CASE x = v
    BY <1>2, <1>4, <2>1, ReachesItself
  <2>2. CASE x # v
    <3>1. x \in on_stack /\ x \in DOMAIN index
      BY <1>2, <1>4, <2>2
    <3>2. PICK w \in on_stack :
            index[w] = low[x] /\ low[x] <= index[x] /\ Reaches(graph, x, w)
      BY <1>1, <3>1 DEF LowLinksReach
    <3>3. x \notin CallNodes => low[x] < index[x]
      BY <1>1, <3>1 DEF LowLinksReach
    <3> QED
      BY <1>2, <1>4, <3>1, <3>2, <3>3
  <2> QED
    BY <2>1, <2>2
<1>6. ASSUME NEW x \in on_stack', NEW u \in CallNodes', index'[u] <= index'[x]
      PROVE  Reaches(graph, u, x)
  <2>1. CASE u = v
    <3>1. x = v
      BY <1>2, <1>4, <1>6, <2>1
    <3> QED
      BY <2>1, <3>1, ReachesItself
  <2>2. CASE u # v /\ x # v
    <3>1. u \in CallNodes /\ x \in on_stack /\ index[u] <= index[x]
      BY <1>2, <1>4, <1>6, <2>2
    <3> QED
      BY <1>1, <3>1 DEF LowLinksReach
  <2>3. CASE u # v /\ x = v
    <3>0. u \in CallNodes
      BY <1>2, <2>3
    <3>1. u \in CallNodes /\ Len(calls) > 0
      <4>1. PICK i \in DOMAIN calls : u = calls[i].node
        BY <3>0 DEF CallNodes
      <4>2. DOMAIN calls = 1..Len(calls) /\ Len(calls) \in Nat
        BY Numbers
      <4> QED
        BY <3>0, <4>1, <4>2
    <3>2. Top.node \in on_stack /\ index[u] <= index[Top.node]
      BY <3>1, TopIsLast
    <3>3. Reaches(graph, u, Top.node)
      BY <1>1, <3>1, <3>2 DEF LowLinksReach
    <3>4. <<Top.node, v>> \in graph
      BY <3>1 DEF VisitEffect, Top
    <3> QED
      BY <2>3, <3>3, <3>4, ArcEnds, ReachesTransitive
  <2> QED
    BY <2>1, <2>2, <2>3
<1>7. LowLinksReach'
  BY <1>1, <1>2, <1>3, <1>5, <1>6 DEF LowLinksReach
<1>8. ASSUME NEW e \in graph, e[1] \in DOMAIN index', Followed(e[1], e[2])'
      PROVE  /\ e[2] \in DOMAIN index'
             /\ e[1] \in on_stack' /\ e[2] \in on_stack' => low'[e[1]] <= index'[e[2]]
  <2>0. Len(calls) \in Nat /\ DOMAIN calls = 1..Len(calls)
    BY Numbers
  <2>1. e[1] # v
    <3>1. SUFFICES ASSUME e[1] = v PROVE FALSE
      OBVIOUS
    <3>2. /\ Len(calls) + 1 \in DOMAIN calls' /\ calls'[Len(calls) + 1].node = v
          /\ calls'[Len(calls) + 1].targets = Successors(graph, v)
      BY <2>0 DEF VisitEffect
    <3>3. e[2] \in Successors(graph, v)
      BY <3>1 DEF Successors
    <3> QED
      BY <1>8, <3>1, <3>2, <3>3 DEF Followed
  <2>2. Followed(e[1], e[2])
    <3> SUFFICES ASSUME NEW i \in 1..Len(calls), calls[i].node = e[1]
                 PROVE  /\ e[2] \notin calls[i].targets
                        /\ i < Len(calls) => calls[i + 1].node # e[2]
      BY <2>0 DEF Followed
    <3>0. DOMAIN calls' = 1..(Len(calls) + 1) /\ Len(calls') = Len(calls) + 1
      BY DEF VisitEffect
    <3>1. i \in DOMAIN calls' /\ i < Len(calls')
      BY <2>0, <3>0
    <3> calls'[i].node = e[1]
      BY DEF VisitEffect
    <3>2. e[2] \notin calls'[i].targets /\ calls'[i + 1].node # e[2]
      BY <1>8, <3>1 DEF Followed
    <3>3. CASE i = Len(calls)
      <4>1. calls'[i + 1].node = v /\ calls'[i].targets = calls[i].targets \ {v}
        BY <3>3 DEF VisitEffect
      <4> QED
        BY <3>2, <3>3, <4>1
    <3>4. CASE i < Len(calls)
      <4>1. i + 1 \in 1..Len(calls)
        BY <2>0, <3>4
      <4>2. i # Len(calls)
        BY <2>0, <3>4
      <4> calls'[i + 1].node = calls[i + 1].node /\ calls'[i].targets = calls[i].targets
        BY <4>1, <4>2 DEF VisitEffect
      <4> QED
        BY <3>2, <4>2
    <3>5. i = Len(calls) \/ i < Len(calls)
      <4>1. Len(calls) \in Nat
        BY <2>0
      <4>2. i \in Int /\ i <= Len(calls)
        BY <4>1
      <4> QED
        BY <4>1, <4>2
    <3> QED
      BY <3>3, <3>4, <3>5
  <2>3. /\ e[2] \in DOMAIN index
        /\ e[1] \in on_stack /\ e[2] \in on_stack => low[e[1]] <= index[e[2]]
    BY <1>1, <1>2, <1>8, <2>1, <2>2 DEF ArcsFollowed
  <2> QED
    BY <1>2, <1>4, <2>1, <2>3
<1>9. ArcsFollowed'
  BY <1>2, <1>8 DEF ArcsFollowed
<1>10. ASSUME NEW w \in on_stack' \ CallNodes', NEW u \in CallNodes', LastCalledBefore(u, w)'
       PROVE  low'[u] <= low'[w]
  <2>1. w \in on_stack \ CallNodes /\ index'[u] < index'[w]
        /\ \A c \in CallNodes' : index'[c] < index'[w] => index'[c] <= index'[u]
    BY <1>2, <1>10 DEF LastCalledBefore
  <2>2. u \in CallNodes
    BY <1>2, <1>4, <2>1
  <2>3. LastCalledBefore(u, w)
    BY <1>2, <1>4, <2>1, <2>2 DEF LastCalledBefore
  <2>4. low[u] <= low[w]
    BY <1>1, <2>1, <2>2, <2>3 DEF LowCovers
  <2> QED
    BY <1>2, <1>4, <2>1, <2>2, <2>4
<1>11. LowCovers'
  BY <1>10 DEF LowCovers
<1>12. FoundComponents'
  BY <1>1, <1>2, <1>3 DEF FoundComponents
<1> QED
  BY <1>7, <1>9, <1>11, <1>12

LEMMA VisitKeeps ==
  ASSUME SearchInv, NEW caller, NEW v, Calling(caller, v), Visit(v, caller)
  PROVE  SearchInv' /\ UNCHANGED <<graph, result>>
<1>1. VisitEffect(v)
  BY VisitHasEffect
<1>2. graph' = graph /\ result' = result
  BY <1>1 DEF VisitEffect
<1> QED
  BY <1>1, <1>2, VisitTyped, VisitKeepsOrder, VisitKeepsLinks DEF SearchInv

-----------------------------------------------------------------------------
(* A target that was visited before is looked at.                          *)

SkipEffect(t) ==
  /\ Len(calls) > 0 /\ Top = calls[Len(calls)]
  /\ <<Top.node, t>> \in graph /\ t \in DOMAIN index
  /\ calls' \in Seq(Frame) /\ Len(calls') = Len(calls) /\ DOMAIN calls' = 1..Len(calls)
  /\ \A i \in 1..Len(calls) :
       /\ calls'[i].node = calls[i].node
       /\ calls'[i].targets = IF i = Len(calls) THEN calls[i].targets \ {t}
                              ELSE calls[i].targets
  /\ CallNodes' = CallNodes
  /\ DOMAIN low' = DOMAIN low /\ low' = [u \in DOMAIN low |-> low'[u]]
  /\ \A u \in DOMAIN low : u # Top.node => low'[u] = low[u]
  /\ low'[Top.node] \in Nat /\ low'[Top.node] <= low[Top.node]
  /\ t \in on_stack => low'[Top.node] <= index[t]
  /\ low'[Top.node] = low[Top.node] \/ (t \in on_stack /\ low'[Top.node] = index[t])
  /\ UNCHANGED <<graph, index, next, stack, on_stack, result>>

LEMMA SkipHasEffect ==
  ASSUME SearchInv, calls # <<>>, NEW t \in Top.targets, SkipTarget(t)
  PROVE  SkipEffect(t)
<1>1. /\ t \in DOMAIN index /\ calls' = LookedAt(t)
      /\ low' = [low EXCEPT ![Top.node] = LowAfterArc(Top.node, t)]
      /\ UNCHANGED <<graph, index, next, stack, on_stack, result>>
  BY DEF SkipTarget, IsNew
<1>2. CallNodes' = CallNodes
  <2>1. DOMAIN calls = 1..Len(calls)
    BY Numbers
  <2>2. DOMAIN calls' = 1..Len(calls) /\ \A i \in 1..Len(calls) : calls'[i].node = calls[i].node
    BY <1>1, LookedAtIs
  <2> QED
    BY <2>1, <2>2 DEF CallNodes
<1>3. Top.node \in DOMAIN low /\ low[Top.node] \in Nat /\ index[t] \in Nat
  BY <1>1, LookedAtIs, TopIsLast, Numbers
<1> DEFINE l == LowAfterArc(Top.node, t)
<1>4. /\ l \in Nat /\ l <= low[Top.node]
      /\ t \in on_stack => l <= index[t]
      /\ l = low[Top.node] \/ (t \in on_stack /\ l = index[t])
  BY <1>3 DEF LowAfterArc, Least
<1>5. /\ DOMAIN low' = DOMAIN low /\ low' = [u \in DOMAIN low |-> low'[u]]
      /\ \A u \in DOMAIN low : u # Top.node => low'[u] = low[u]
      /\ low'[Top.node] = l
  <2> HIDE DEF l
  <2>1. low' = [low EXCEPT ![Top.node] = l]
    BY <1>1 DEF l
  <2> QED
    BY <1>3, <2>1
<1> HIDE DEF l
<1> QED
  BY <1>1, <1>2, <1>4, <1>5, LookedAtIs DEF SkipEffect

LEMMA SkipKeeps ==
  ASSUME SearchInv, NEW t, SkipEffect(t)
  PROVE  SearchInv'
<1>1. /\ TypeOK /\ IsFiniteSet(DOMAIN index) /\ IndexDistinct /\ StackHoldsUnfinished
      /\ CallsAreSimplePath /\ LowLinksReach /\ TargetsAreArcs /\ ArcsFollowed
      /\ LowCovers /\ FoundComponents
  BY DEF SearchInv
<1>2. /\ UNCHANGED <<graph, index, next, stack, on_stack, result>>
      /\ CallNodes' = CallNodes
      /\ DOMAIN low' = DOMAIN index
      /\ \A u \in DOMAIN index : u # Top.node => low'[u] = low[u]
      /\ low'[Top.node] \in Nat /\ low'[Top.node] <= low[Top.node]
  BY Numbers DEF SkipEffect
<1>3. /\ next \in Nat
      /\ \A u \in DOMAIN index : /\ index[u] \in Nat /\ index[u] < next
                                 /\ low[u] \in Nat /\ low[u] < next
      /\ on_stack \subseteq DOMAIN index /\ CallNodes \subseteq on_stack
      /\ DOMAIN calls = 1..Len(calls) /\ Len(calls) \in Nat
  BY Numbers
<1>4. Emitted' = Emitted /\ (Search!Found)' = Search!Found
  BY <1>2 DEF Emitted, Search!Found
<1>5. /\ Top.node \in CallNodes /\ Top.node \in on_stack /\ Top.node \in DOMAIN index
      /\ Top = calls[Len(calls)]
  BY TopIsLast DEF SkipEffect
<1>6. \A u \in DOMAIN index : low'[u] \in Nat /\ low'[u] <= low[u]
  BY <1>2, <1>3, <1>5
<1>7. TypeOK' /\ IsFiniteSet(DOMAIN index')
  <2>1. \A u \in DOMAIN index : low'[u] \in 0..(next - 1)
    BY <1>3, <1>6
  <2>2. low' \in [DOMAIN index -> 0..(next - 1)]
    <3>1. low' = [u \in DOMAIN index |-> low'[u]]
      BY <1>1 DEF SkipEffect, TypeOK
    <3> QED
      BY <2>1, <3>1
  <2>3. calls' \in Seq(Frame)
    BY DEF SkipEffect
  <2> QED
    BY <1>1, <1>2, <2>2, <2>3 DEF TypeOK
<1>8. IndexDistinct' /\ StackHoldsUnfinished'
  BY <1>1, <1>2, <1>4 DEF IndexDistinct, StackHoldsUnfinished
<1>9. DOMAIN calls' = 1..Len(calls) /\ Len(calls') = Len(calls)
      /\ \A i \in 1..Len(calls) : calls'[i].node = calls[i].node
  BY DEF SkipEffect
<1>10. CallsAreSimplePath'
  <2>1. \A i \in 1..(Len(calls) - 1) : i \in 1..Len(calls) /\ i + 1 \in 1..Len(calls)
    BY <1>3
  <2>2. \A i \in 1..(Len(calls') - 1) :
          calls'[i + 1].node \in Successors(graph', calls'[i].node)
    BY <1>1, <1>2, <1>9, <2>1 DEF CallsAreSimplePath
  <2>3. \A i, j \in DOMAIN calls' : i < j => index'[calls'[i].node] < index'[calls'[j].node]
    BY <1>1, <1>2, <1>3, <1>9 DEF CallsAreSimplePath
  <2> QED
    BY <1>2, <1>3, <2>2, <2>3 DEF CallsAreSimplePath
<1>11. TargetsAreArcs'
  <2> SUFFICES ASSUME NEW i \in 1..Len(calls)
               PROVE  calls'[i].targets \subseteq Successors(graph, calls[i].node)
    BY <1>2, <1>9 DEF TargetsAreArcs
  <2>1. calls'[i].targets \subseteq calls[i].targets
    BY DEF SkipEffect
  <2> QED
    BY <1>1, <1>3, <2>1 DEF TargetsAreArcs
<1>12. LowLinksReach'
  <2>1. ASSUME NEW x \in on_stack
        PROVE  /\ \E w \in on_stack :
                    index[w] = low'[x] /\ low'[x] <= index[x] /\ Reaches(graph, x, w)
               /\ x \notin CallNodes => low'[x] < index[x]
    <3>1. PICK w \in on_stack :
            index[w] = low[x] /\ low[x] <= index[x] /\ Reaches(graph, x, w)
      BY <1>1 DEF LowLinksReach
    <3>2. x \notin CallNodes => low[x] < index[x]
      BY <1>1 DEF LowLinksReach
    <3>3. CASE low'[x] = low[x]
      BY <3>1, <3>2, <3>3
    <3>4. CASE low'[x] # low[x]
      <4>1. x = Top.node /\ t \in on_stack /\ low'[x] = index[t] /\ <<x, t>> \in graph
        BY <1>2, <1>3, <3>4 DEF SkipEffect
      <4>2. Reaches(graph, x, t)
        BY <4>1, ArcEnds
      <4>3. low'[x] <= index[x]
        BY <1>3, <1>6, <3>1
      <4> QED
        BY <1>5, <4>1, <4>2, <4>3
    <3> QED
      BY <3>3, <3>4
  <2> QED
    BY <1>1, <1>2, <1>4, <2>1 DEF LowLinksReach
<1>13. ASSUME NEW e \in graph, e[1] \in DOMAIN index, Followed(e[1], e[2])'
       PROVE  /\ e[2] \in DOMAIN index
              /\ e[1] \in on_stack /\ e[2] \in on_stack => low'[e[1]] <= index[e[2]]
  <2>1. CASE e[1] = Top.node /\ e[2] = t
    BY <2>1 DEF SkipEffect
  <2>2. CASE ~(e[1] = Top.node /\ e[2] = t)
    <3>1. Followed(e[1], e[2])
      <4> SUFFICES ASSUME NEW i \in 1..Len(calls), calls[i].node = e[1]
                   PROVE  /\ e[2] \notin calls[i].targets
                          /\ i < Len(calls) => calls[i + 1].node # e[2]
        BY <1>3 DEF Followed
      <4>1. /\ e[2] \notin calls'[i].targets
            /\ i < Len(calls) => calls'[i + 1].node # e[2]
        BY <1>9, <1>13 DEF Followed
      <4>2. e[2] \notin calls[i].targets
        <5>1. i = Len(calls) => e[2] # t
          BY <1>5, <2>2
        <5>2. calls'[i].targets = IF i = Len(calls) THEN calls[i].targets \ {t}
                                  ELSE calls[i].targets
          BY DEF SkipEffect
        <5> QED
          BY <4>1, <5>1, <5>2
      <4>3. i < Len(calls) => i + 1 \in 1..Len(calls)
        BY <1>3
      <4> QED
        BY <1>9, <4>1, <4>2, <4>3
    <3>2. /\ e[2] \in DOMAIN index
          /\ e[1] \in on_stack /\ e[2] \in on_stack => low[e[1]] <= index[e[2]]
      BY <1>1, <1>13, <3>1 DEF ArcsFollowed
    <3>3. low'[e[1]] \in Nat /\ low'[e[1]] <= low[e[1]] /\ low[e[1]] \in Nat
      BY <1>3, <1>6, <1>13
    <3> QED
      BY <1>3, <3>2, <3>3
  <2> QED
    BY <2>1, <2>2
<1>14. ArcsFollowed'
  BY <1>2, <1>13 DEF ArcsFollowed
<1>15. LowCovers'
  <2> SUFFICES ASSUME NEW w \in on_stack \ CallNodes, NEW u \in CallNodes,
                      LastCalledBefore(u, w)'
               PROVE  low'[u] <= low'[w]
    BY <1>2 DEF LowCovers
  <2>1. LastCalledBefore(u, w)
    BY <1>2 DEF LastCalledBefore
  <2>2. low[u] <= low[w]
    BY <1>1, <2>1 DEF LowCovers
  <2>3. low'[w] = low[w]
    BY <1>2, <1>3, <1>5
  <2> QED
    BY <1>3, <1>6, <2>2, <2>3
<1> QED
  BY <1>1, <1>2, <1>4, <1>7, <1>8, <1>10, <1>11, <1>12, <1>14, <1>15
     DEF SearchInv, FoundComponents

-----------------------------------------------------------------------------
(* A call returns.                                                         *)

ReturnEffect(v) ==
  /\ Len(calls) > 0 /\ Top = calls[Len(calls)] /\ v = Top.node /\ Top.targets = {}
  /\ calls' \in Seq(Frame) /\ Len(calls') = Len(calls) - 1
  /\ DOMAIN calls' = 1..(Len(calls) - 1)
  /\ \A i \in 1..(Len(calls) - 1) : calls'[i] = calls[i]
  /\ CallNodes' = CallNodes \ {v}
  /\ DOMAIN low' = DOMAIN index /\ low' = [u \in DOMAIN index |-> low'[u]]
  /\ \A u \in DOMAIN index : low'[u] \in Nat /\ low'[u] <= low[u]
  /\ \A u \in DOMAIN index :
       Len(calls) = 1 \/ u # calls[Len(calls) - 1].node => low'[u] = low[u]
  /\ Len(calls) > 1 =>
       LET u == calls[Len(calls) - 1].node
       IN low'[u] <= low[v] /\ low'[u] \in {low[u], low[v]}
  /\ UNCHANGED <<graph, index, next>>

LEMMA ReturnedIs ==
  ASSUME SearchInv, Len(calls) > 0
  PROVE  /\ Returned \in Seq(Frame) /\ Len(Returned) = Len(calls) - 1
         /\ DOMAIN Returned = 1..(Len(calls) - 1)
         /\ \A i \in 1..(Len(calls) - 1) : Returned[i] = calls[i]
<1>1. calls \in Seq(Frame) /\ Len(calls) \in Nat
  BY DEF SearchInv, TypeOK
<1> DEFINE n == Len(calls) - 1
<1>2. n \in Nat
  BY <1>1
<1>3. \A i \in 1..n : calls[i] \in Frame
  BY <1>1
<1>4. /\ SubSeq(calls, 1, n) \in Seq(Frame)
      /\ Len(SubSeq(calls, 1, n)) = IF 1 <= n THEN n - 1 + 1 ELSE 0
      /\ \A i \in 1..(n - 1 + 1) : SubSeq(calls, 1, n)[i] = calls[1 + i - 1]
  BY <1>2, <1>3, SubSeqProperties
<1>5. Len(SubSeq(calls, 1, n)) = n /\ n - 1 + 1 = n
  <2> HIDE DEF n
  <2>1. n - 1 + 1 = n /\ (IF 1 <= n THEN n - 1 + 1 ELSE 0) = n
    BY <1>2
  <2> QED
    BY <1>4, <2>1
<1>6. \A i \in 1..n : SubSeq(calls, 1, n)[i] = calls[i]
  <2> SUFFICES ASSUME NEW i \in 1..n PROVE SubSeq(calls, 1, n)[i] = calls[i]
    OBVIOUS
  <2>1. 1 + i - 1 = i
    BY <1>2
  <2> QED
    BY <1>4, <1>5, <2>1
<1> QED
  BY <1>4, <1>5, <1>6 DEF Returned

LEMMA ReturnHasEffect ==
  ASSUME SearchInv, calls # <<>>, Top.targets = {}, Return(Top.node)
  PROVE  ReturnEffect(Top.node)
<1>1. /\ calls' = Returned /\ low' = LowAfterReturn(Top.node)
      /\ UNCHANGED <<graph, index, next>>
  BY DEF Return
<1>2. Len(calls) \in Nat /\ Len(calls) > 0 /\ DOMAIN calls = 1..Len(calls)
  BY EmptySeq DEF SearchInv, TypeOK
<1>3. /\ Returned \in Seq(Frame) /\ Len(Returned) = Len(calls) - 1
      /\ DOMAIN Returned = 1..(Len(calls) - 1)
      /\ \A i \in 1..(Len(calls) - 1) : Returned[i] = calls[i]
  BY <1>2, ReturnedIs
<1>4. /\ Top = calls[Len(calls)] /\ Top.node \in DOMAIN index
      /\ \A u \in CallNodes : u # Top.node => index[u] < index[Top.node]
  BY <1>2, TopIsLast
<1>5. CallNodes' = CallNodes \ {Top.node}
  <2>1. CallNodes' = {calls[i].node : i \in 1..(Len(calls) - 1)}
    BY <1>1, <1>3 DEF CallNodes
  <2>2. \A i \in 1..(Len(calls) - 1) : i \in 1..Len(calls) /\ i < Len(calls)
    BY <1>2
  <2>3. \A i \in 1..Len(calls) : i \in 1..(Len(calls) - 1) \/ i = Len(calls)
    BY <1>2
  <2>4. ASSUME NEW i \in 1..(Len(calls) - 1)
        PROVE  calls[i].node # Top.node
    <3>1. index[calls[i].node] < index[calls[Len(calls)].node]
      <4>1. CallsAreSimplePath
        BY DEF SearchInv
      <4>2. i \in DOMAIN calls /\ Len(calls) \in DOMAIN calls /\ i < Len(calls)
        BY <1>2, <2>2
      <4> QED
        BY <4>1, <4>2 DEF CallsAreSimplePath
    <3>2. index[Top.node] \in Nat
      BY <1>4, Numbers
    <3> QED
      BY <1>4, <3>1, <3>2
  <2>5. CallNodes = {calls[i].node : i \in 1..Len(calls)}
    BY <1>2 DEF CallNodes
  <2>6. {calls[i].node : i \in 1..Len(calls)} \ {calls[Len(calls)].node}
           = {calls[i].node : i \in 1..(Len(calls) - 1)}
    BY <1>4, <2>2, <2>3, <2>4
  <2> QED
    BY <1>4, <2>1, <2>5, <2>6
<1>6. /\ DOMAIN low = DOMAIN index /\ low = [x \in DOMAIN index |-> low[x]]
      /\ \A x \in DOMAIN index : low[x] \in Nat
  <2>1. low = [x \in DOMAIN index |-> low[x]]
    BY DEF SearchInv, TypeOK
  <2> QED
    BY <2>1, Numbers
<1> DEFINE u == calls[Len(calls) - 1].node
<1>7. CASE Len(calls) = 1
  <2>1. Returned = <<>>
    BY <1>3, <1>7, EmptySeq
  <2>2. low' = low
    BY <1>1, <2>1 DEF LowAfterReturn
  <2> QED
    BY <1>1, <1>2, <1>3, <1>4, <1>5, <1>6, <1>7, <2>2 DEF ReturnEffect
<1>8. CASE Len(calls) > 1
  <2>1. Returned # <<>> /\ Returned[Len(Returned)].node = u
    BY <1>2, <1>3, <1>8
  <2>2. u \in DOMAIN index
    <3>1. Len(calls) - 1 \in DOMAIN calls
      BY <1>2, <1>8
    <3> QED
      BY <3>1, Numbers DEF CallNodes
  <2> DEFINE l == Least(low[u], low[Top.node])
  <2>3. l \in Nat /\ l <= low[u] /\ l <= low[Top.node] /\ l \in {low[u], low[Top.node]}
    BY <1>4, <1>6, <2>2 DEF Least
  <2>4. low' = [low EXCEPT ![u] = l]
    BY <1>1, <2>1 DEF LowAfterReturn
  <2> HIDE DEF l, u
  <2>5. /\ DOMAIN low' = DOMAIN index /\ low' = [x \in DOMAIN index |-> low'[x]]
        /\ low'[u] = l
        /\ \A x \in DOMAIN index : x # u => low'[x] = low[x]
    BY <1>6, <2>2, <2>4
  <2>6. \A x \in DOMAIN index : low'[x] \in Nat /\ low'[x] <= low[x]
    BY <1>6, <2>3, <2>5
  <2> QED
    BY <1>1, <1>2, <1>3, <1>4, <1>5, <1>8, <2>3, <2>5, <2>6 DEF ReturnEffect, u
<1> QED
  BY <1>2, <1>7, <1>8

(* The call that v returns to, if there is one.                            *)
LEMMA CallerIs ==
  ASSUME SearchInv, NEW v, ReturnEffect(v), Len(calls) > 1
  PROVE  LET u == calls[Len(calls) - 1].node
         IN /\ u \in CallNodes' /\ u \in CallNodes /\ u \in on_stack /\ u \in DOMAIN index
            /\ u # v /\ index[u] < index[v]
            /\ <<u, v>> \in graph
            /\ \A c \in CallNodes' : index[c] <= index[u]
<1> DEFINE n == Len(calls) - 1
           u == calls[n].node
<1>1. /\ CallsAreSimplePath /\ TypeOK /\ Len(calls) \in Nat /\ DOMAIN calls = 1..Len(calls)
  BY Numbers DEF SearchInv
<1>2. n \in 1..(Len(calls) - 1) /\ n \in DOMAIN calls /\ Len(calls) \in DOMAIN calls
      /\ n < Len(calls) /\ n + 1 = Len(calls)
  BY <1>1
<1>3. v = calls[Len(calls)].node
  BY DEF ReturnEffect
<1>4. index[u] < index[v]
  BY <1>1, <1>2, <1>3 DEF CallsAreSimplePath
<1>5. u \in CallNodes /\ u \in on_stack /\ u \in DOMAIN index /\ v \in DOMAIN index
  BY <1>2, <1>3, Numbers DEF CallNodes
<1>6. u # v
  BY <1>4, <1>5, Numbers
<1>7. <<u, v>> \in graph
  <2>1. v \in Successors(graph, u)
    BY <1>1, <1>2, <1>3 DEF CallsAreSimplePath
  <2> QED
    BY <1>1, <2>1, ArcOf
<1>8. u \in CallNodes'
  BY <1>5, <1>6 DEF ReturnEffect
<1>9. ASSUME NEW c \in CallNodes' PROVE index[c] <= index[u]
  <2>1. c \in CallNodes /\ c # v
    BY DEF ReturnEffect
  <2>2. PICK i \in DOMAIN calls : c = calls[i].node
    BY <2>1 DEF CallNodes
  <2>3. i = n \/ i < n
    BY <1>1, <1>2, <1>3, <2>1, <2>2
  <2>4. i < n => index[c] < index[u]
    BY <1>1, <1>2, <2>2 DEF CallsAreSimplePath
  <2>5. index[c] \in Nat /\ index[u] \in Nat
    BY <1>5, <2>1, Numbers
  <2> QED
    BY <2>2, <2>3, <2>4, <2>5
<1> QED
  BY <1>4, <1>5, <1>6, <1>7, <1>8, <1>9

(* What is true after a return whether or not a component is popped.       *)
LEMMA ReturnKeepsPath ==
  ASSUME SearchInv, NEW v, ReturnEffect(v)
  PROVE  /\ IndexDistinct' /\ TargetsAreArcs'
         /\ \A i, j \in DOMAIN calls' : i < j => index'[calls'[i].node] < index'[calls'[j].node]
         /\ \A i \in 1..(Len(calls') - 1) :
              calls'[i + 1].node \in Successors(graph', calls'[i].node)
<1>1. IndexDistinct /\ CallsAreSimplePath /\ TargetsAreArcs
  BY DEF SearchInv
<1>2. Len(calls) \in Nat /\ DOMAIN calls = 1..Len(calls)
  BY Numbers
<1>3. /\ Len(calls') = Len(calls) - 1 /\ DOMAIN calls' = 1..(Len(calls) - 1)
      /\ \A i \in 1..(Len(calls) - 1) : calls'[i] = calls[i]
      /\ UNCHANGED <<graph, index, next>>
  BY DEF ReturnEffect
<1>4. \A i \in 1..(Len(calls) - 1) : i \in 1..Len(calls)
  BY <1>2
<1>5. \A i \in 1..(Len(calls') - 1) :
        i \in 1..(Len(calls) - 1) /\ i + 1 \in 1..(Len(calls) - 1)
  BY <1>2, <1>3
<1>6. IndexDistinct'
  BY <1>1, <1>3 DEF IndexDistinct
<1>7. TargetsAreArcs'
  BY <1>1, <1>2, <1>3, <1>4 DEF TargetsAreArcs
<1>8. \A i, j \in DOMAIN calls' : i < j => index'[calls'[i].node] < index'[calls'[j].node]
  BY <1>1, <1>2, <1>3, <1>4 DEF CallsAreSimplePath
<1>9. \A i \in 1..(Len(calls') - 1) :
        calls'[i + 1].node \in Successors(graph', calls'[i].node)
  BY <1>1, <1>3, <1>5 DEF CallsAreSimplePath
<1> QED
  BY <1>6, <1>7, <1>8, <1>9

LEMMA ReturnFollows ==
  ASSUME SearchInv, NEW v, ReturnEffect(v), on_stack' \subseteq on_stack
  PROVE  ArcsFollowed'
<1>1. ArcsFollowed /\ LowLinksReach
  BY DEF SearchInv
<1>2. Len(calls) \in Nat /\ DOMAIN calls = 1..Len(calls)
  BY Numbers
<1>3. /\ Len(calls') = Len(calls) - 1 /\ DOMAIN calls' = 1..(Len(calls) - 1)
      /\ \A i \in 1..(Len(calls) - 1) : calls'[i] = calls[i]
      /\ graph' = graph /\ index' = index
      /\ Top = calls[Len(calls)] /\ v = Top.node /\ Top.targets = {}
  BY DEF ReturnEffect
<1>4. /\ \A x \in DOMAIN index : /\ low'[x] \in Nat /\ low'[x] <= low[x]
                                 /\ low[x] \in Nat /\ index[x] \in Nat
      /\ v \in DOMAIN index /\ v \in on_stack
  BY <1>3, Numbers, TopIsLast DEF ReturnEffect
<1> SUFFICES ASSUME NEW e \in graph, e[1] \in DOMAIN index, Followed(e[1], e[2])'
             PROVE  /\ e[2] \in DOMAIN index
                    /\ e[1] \in on_stack' /\ e[2] \in on_stack' => low'[e[1]] <= index[e[2]]
  BY <1>3 DEF ArcsFollowed
<1>5. CASE Len(calls) > 1 /\ e[1] = calls[Len(calls) - 1].node /\ e[2] = v
  <2>1. low'[e[1]] <= low[v] /\ low'[e[1]] \in Nat
    BY <1>4, <1>5 DEF ReturnEffect
  <2>2. low[v] <= index[v]
    BY <1>1, <1>4 DEF LowLinksReach
  <2> QED
    BY <1>4, <1>5, <2>1, <2>2
<1>6. CASE ~(Len(calls) > 1 /\ e[1] = calls[Len(calls) - 1].node /\ e[2] = v)
  <2>1. Followed(e[1], e[2])
    <3> SUFFICES ASSUME NEW i \in 1..Len(calls), calls[i].node = e[1]
                 PROVE  /\ e[2] \notin calls[i].targets
                        /\ i < Len(calls) => calls[i + 1].node # e[2]
      BY <1>2 DEF Followed
    <3>1. CASE i = Len(calls)
      BY <1>2, <1>3, <3>1
    <3>2. CASE i < Len(calls)
      <4>1. i \in 1..(Len(calls) - 1)
        BY <1>2, <3>2
      <4>2. /\ e[2] \notin calls[i].targets
            /\ i < Len(calls) - 1 => calls'[i + 1].node # e[2]
        BY <1>3, <4>1 DEF Followed
      <4>3. CASE i < Len(calls) - 1
        <5>1. i + 1 \in 1..(Len(calls) - 1)
          BY <1>2, <4>3
        <5> QED
          BY <1>3, <4>2, <4>3, <5>1
      <4>4. CASE i = Len(calls) - 1
        <5>1. Len(calls) > 1 /\ i + 1 = Len(calls)
          <6>1. Len(calls) \in Nat
            BY <1>2
          <6> QED
            BY <4>1, <4>4, <6>1
        <5>2. e[2] # v
          BY <1>6, <4>4, <5>1
        <5> QED
          BY <1>3, <4>2, <5>1, <5>2
      <4>5. i < Len(calls) - 1 \/ i = Len(calls) - 1
        <5>1. Len(calls) \in Nat
          BY <1>2
        <5> QED
          BY <4>1, <5>1
      <4> QED
        BY <4>3, <4>4, <4>5
    <3>3. i = Len(calls) \/ i < Len(calls)
      BY <1>2
    <3> QED
      BY <3>1, <3>2, <3>3
  <2>2. /\ e[2] \in DOMAIN index
        /\ e[1] \in on_stack /\ e[2] \in on_stack => low[e[1]] <= index[e[2]]
    BY <1>1, <2>1 DEF ArcsFollowed
  <2> QED
    BY <1>4, <2>2
<1> QED
  BY <1>5, <1>6

LEMMA ReturnCovers ==
  ASSUME SearchInv, NEW v, ReturnEffect(v), on_stack' \subseteq on_stack
  PROVE  LowCovers'
<1>1. LowCovers /\ IndexDistinct
  BY DEF SearchInv
<1>2. /\ \A x \in DOMAIN index : /\ low'[x] \in Nat /\ low'[x] <= low[x]
                                 /\ low[x] \in Nat /\ index[x] \in Nat
      /\ v \in DOMAIN index /\ v \in on_stack /\ v \in CallNodes
      /\ \A c \in CallNodes : index[c] <= index[v]
      /\ on_stack \subseteq DOMAIN index /\ CallNodes \subseteq on_stack
  BY Numbers, TopIsLast DEF ReturnEffect
<1>3. CallNodes' = CallNodes \ {v} /\ index' = index
  BY DEF ReturnEffect
<1> SUFFICES ASSUME NEW w \in on_stack' \ CallNodes', NEW u \in CallNodes',
                    LastCalledBefore(u, w)'
             PROVE  low'[u] <= low'[w]
  BY DEF LowCovers
<1>4. /\ index[u] < index[w]
      /\ \A c \in CallNodes' : index[c] < index[w] => index[c] <= index[u]
  BY <1>3 DEF LastCalledBefore
<1>5. u \in CallNodes /\ u # v /\ w \in on_stack /\ (w = v \/ w \notin CallNodes)
  BY <1>3
<1>6. Len(calls) > 1
  <2>1. Len(calls) \in Nat /\ DOMAIN calls = 1..Len(calls)
    BY Numbers
  <2>2. PICK i \in 1..Len(calls) : u = calls[i].node
    BY <1>5, <2>1 DEF CallNodes
  <2>3. Len(calls) > 0 /\ v = calls[Len(calls)].node
    BY DEF ReturnEffect
  <2>4. i # Len(calls)
    BY <1>5, <2>2, <2>3
  <2>5. Len(calls) \in Nat
    BY <2>1
  <2> QED
    BY <2>3, <2>4, <2>5
<1> DEFINE p == calls[Len(calls) - 1].node
<1>7. /\ p \in CallNodes' /\ p \in DOMAIN index /\ index[p] < index[v]
      /\ \A c \in CallNodes' : index[c] <= index[p]
  BY <1>6, CallerIs
<1>8. low'[p] <= low[v]
  BY <1>6 DEF ReturnEffect
<1>9. low'[w] = low[w]
  <2>1. p # w
    BY <1>7
  <2> QED
    BY <1>2, <1>5, <2>1 DEF ReturnEffect
<1> HIDE DEF p
<1>10. index[v] <= index[w] => u = p
  <2>1. SUFFICES ASSUME index[v] <= index[w] PROVE index[u] = index[p]
    BY <1>1, <1>2, <1>5, <1>7 DEF IndexDistinct
  <2>2. index[p] <= index[u]
    BY <1>2, <1>4, <1>5, <1>7, <2>1
  <2> QED
    BY <1>2, <1>5, <1>7, <2>2
<1>11. CASE w = v
  BY <1>2, <1>8, <1>9, <1>10, <1>11
<1>12. CASE w # v /\ index[v] < index[w]
  <2>1. LastCalledBefore(v, w)
    BY <1>2, <1>12 DEF LastCalledBefore
  <2>2. low[v] <= low[w]
    BY <1>1, <1>2, <1>5, <1>12, <2>1 DEF LowCovers
  <2>3. u = p
    BY <1>2, <1>5, <1>10, <1>12
  <2>4. low'[p] \in Nat /\ low[v] \in Nat /\ low[w] \in Nat
    BY <1>2, <1>5, <1>7
  <2> QED
    BY <1>8, <1>9, <2>2, <2>3, <2>4
<1>13. CASE w # v /\ ~(index[v] < index[w])
  <2>1. ~(index[v] < index[w]) /\ u \in CallNodes
    BY <1>5, <1>13
  <2>2. LastCalledBefore(u, w)
    BY <1>3, <1>4, <1>13 DEF LastCalledBefore
  <2>3. low[u] <= low[w]
    BY <1>1, <1>5, <1>13, <2>2 DEF LowCovers
  <2> QED
    BY <1>2, <1>5, <1>9, <2>3
<1> QED
  BY <1>11, <1>12, <1>13

-----------------------------------------------------------------------------
(* When the low link of v is its own index, what is on the stack from v on *)
(* is the component of v.                                                  *)

LEMMA LeastNumber ==
  ASSUME NEW T, T \subseteq Nat, T # {}
  PROVE  \E m \in T : \A n \in T : m <= n
<1>1. PICK m \in T : \A n \in T : <<n, m>> \notin OpToRel(<, Nat)
  BY NatLessThanWellFounded, WFMin
<1>2. \A n \in T : ~(n < m)
  BY <1>1 DEF OpToRel
<1> QED
  BY <1>2

FromOn(v) == {x \in on_stack : index[v] <= index[x]}

(* Nothing that v can reach is on the stack below v.                       *)
LEMMA FromOnIsClosed ==
  ASSUME SearchInv, Len(calls) > 0, Top.targets = {}, low[Top.node] = index[Top.node]
  PROVE  /\ Closed(graph, FromOn(Top.node) \cup Emitted)
         /\ \A x \in FromOn(Top.node) : index[Top.node] <= low[x]
<1> DEFINE v == Top.node
<1>1. /\ ArcsFollowed /\ LowCovers /\ LowLinksReach /\ StackHoldsUnfinished
      /\ CallsAreSimplePath
  BY DEF SearchInv
<1>2. /\ Len(calls) \in DOMAIN calls /\ Top = calls[Len(calls)]
      /\ v \in CallNodes /\ v \in on_stack /\ v \in DOMAIN index
      /\ \A u \in CallNodes : index[u] <= index[v]
      /\ \A u \in CallNodes : u # v => index[u] < index[v]
  BY TopIsLast
<1>3. /\ \A x \in DOMAIN index : low[x] \in Nat /\ index[x] \in Nat
      /\ on_stack \subseteq DOMAIN index /\ CallNodes \subseteq on_stack
  BY Numbers
<1>4. ASSUME NEW x \in FromOn(v) PROVE index[v] <= low[x]
  <2>1. x \in on_stack /\ x \in DOMAIN index /\ index[v] <= index[x]
    BY <1>3 DEF FromOn
  <2>2. CASE x = v
    BY <1>2, <1>3, <2>2
  <2>3. CASE x # v
    <3>1. x \notin CallNodes
      BY <1>2, <1>3, <2>1, <2>3
    <3>2. index[v] < index[x]
      <4>1. index[x] # index[v]
        BY <1>2, <2>1, <2>3 DEF SearchInv, IndexDistinct
      <4> QED
        BY <1>2, <1>3, <2>1, <4>1
    <3>3. LastCalledBefore(v, x)
      BY <1>2, <3>2 DEF LastCalledBefore
    <3>4. low[v] <= low[x]
      BY <1>1, <1>2, <2>1, <3>1, <3>3 DEF LowCovers
    <3> QED
      BY <3>4
  <2> QED
    BY <2>2, <2>3
<1>5. ASSUME NEW e \in graph, e[1] \in FromOn(v)
      PROVE  e[2] \in FromOn(v) \cup Emitted
  <2>1. e[1] \in on_stack /\ e[1] \in DOMAIN index /\ index[v] <= index[e[1]]
    BY <1>3, <1>5 DEF FromOn
  <2>2. Followed(e[1], e[2])
    <3> SUFFICES ASSUME NEW i \in DOMAIN calls, calls[i].node = e[1]
                 PROVE  /\ e[2] \notin calls[i].targets
                        /\ i < Len(calls) => calls[i + 1].node # e[2]
      BY DEF Followed
    <3>1. e[1] \in CallNodes
      BY DEF CallNodes
    <3>2. e[1] = v
      BY <1>2, <1>3, <2>1, <3>1
    <3>3. ~(i < Len(calls))
      <4>1. SUFFICES ASSUME i < Len(calls) PROVE FALSE
        OBVIOUS
      <4>2. index[calls[i].node] < index[calls[Len(calls)].node]
        BY <1>1, <1>2, <4>1 DEF CallsAreSimplePath
      <4> QED
        BY <1>2, <1>3, <3>2, <4>2
    <3>4. i = Len(calls)
      <4>1. DOMAIN calls = 1..Len(calls)
        BY Numbers
      <4>2. Len(calls) \in Nat
        BY Numbers
      <4> QED
        BY <3>3, <4>1, <4>2
    <3> QED
      BY <1>2, <3>3, <3>4
  <2>3. /\ e[2] \in DOMAIN index
        /\ e[2] \in on_stack => low[e[1]] <= index[e[2]]
    BY <1>1, <2>1, <2>2 DEF ArcsFollowed
  <2>4. e[2] \in on_stack \/ e[2] \in Emitted
    BY <1>1, <2>3 DEF StackHoldsUnfinished
  <2>5. e[2] \in on_stack => index[v] <= index[e[2]]
    BY <1>2, <1>3, <1>4, <1>5, <2>1, <2>3
  <2> QED
    BY <2>4, <2>5 DEF FromOn
<1>6. \A e \in graph : e[1] \in Emitted => e[2] \in Emitted
  BY <1>1 DEF LowLinksReach
<1>7. Closed(graph, FromOn(v) \cup Emitted)
  BY <1>5, <1>6 DEF Closed
<1> QED
  BY <1>4, <1>7

(* All that is on the stack from v on reaches v: each vertex but v has a   *)
(* low link below itself, and none of them links below v.                  *)
LEMMA FromOnReaches ==
  ASSUME SearchInv, Len(calls) > 0, Top.targets = {}, low[Top.node] = index[Top.node],
         NEW x \in FromOn(Top.node)
  PROVE  Reaches(graph, x, Top.node)
<1> DEFINE v == Top.node
           Bad == {y \in FromOn(v) : ~Reaches(graph, y, v)}
           T == {index[y] : y \in Bad}
<1>1. /\ v \in CallNodes /\ v \in DOMAIN index
      /\ \A u \in CallNodes : u # v => index[u] < index[v]
  BY TopIsLast
<1>2. /\ \A y \in DOMAIN index : low[y] \in Nat /\ index[y] \in Nat
      /\ on_stack \subseteq DOMAIN index
  BY Numbers
<1>3. SUFFICES ASSUME Bad # {} PROVE FALSE
  OBVIOUS
<1>4. T \subseteq Nat /\ T # {}
  BY <1>2, <1>3 DEF FromOn
<1>5. PICK m \in T : \A n \in T : m <= n
  <2> HIDE DEF T
  <2> QED
    BY <1>4, LeastNumber
<1>6. PICK y \in Bad : m = index[y]
  BY <1>5
<1>7. /\ y \in on_stack /\ y \in DOMAIN index /\ index[v] <= index[y]
      /\ ~Reaches(graph, y, v) /\ index[v] <= low[y]
  BY <1>2, <1>6, FromOnIsClosed DEF FromOn
<1>8. y # v
  BY <1>7, ReachesItself
<1>9. y \notin CallNodes
  BY <1>1, <1>2, <1>7, <1>8
<1>10. low[y] < index[y]
  BY <1>7, <1>9 DEF SearchInv, LowLinksReach
<1>11. PICK w \in on_stack : index[w] = low[y] /\ Reaches(graph, y, w)
  BY <1>7 DEF SearchInv, LowLinksReach
<1>12. w \in FromOn(v)
  BY <1>7, <1>11 DEF FromOn
<1>13. w \notin Bad
  <2>1. SUFFICES ASSUME w \in Bad PROVE FALSE
    OBVIOUS
  <2>2. m <= index[w]
    BY <1>5, <2>1
  <2> QED
    BY <1>2, <1>6, <1>7, <1>10, <1>11, <2>2
<1>14. Reaches(graph, w, v)
  BY <1>12, <1>13
<1> QED
  BY <1>7, <1>11, <1>14, ReachesTransitive

LEMMA FromOnIsComponent ==
  ASSUME SearchInv, Len(calls) > 0, Top.targets = {}, low[Top.node] = index[Top.node]
  PROVE  /\ FromOn(Top.node) = ComponentOf(graph, Top.node)
         /\ FromOn(Top.node) \in StronglyConnected(graph)
<1> DEFINE v == Top.node
<1>1. v \in CallNodes /\ v \in on_stack /\ v \in DOMAIN index
  BY TopIsLast
<1>2. /\ DOMAIN index \subseteq Vertices(graph) /\ on_stack \subseteq DOMAIN index
      /\ \A x \in DOMAIN index : index[x] \in Nat
  BY Numbers DEF SearchInv, TypeOK
<1>3. v \in FromOn(v)
  BY <1>1, <1>2 DEF FromOn
<1>4. ASSUME NEW x \in FromOn(v) PROVE x \in ComponentOf(graph, v)
  <2>1. x \in on_stack /\ index[v] <= index[x]
    BY DEF FromOn
  <2>2. Reaches(graph, v, x)
    BY <1>1, <2>1 DEF SearchInv, LowLinksReach
  <2>3. Reaches(graph, x, v)
    BY <1>4, FromOnReaches
  <2> QED
    BY <1>2, <2>1, <2>2, <2>3 DEF ComponentOf
<1>5. ASSUME NEW x \in ComponentOf(graph, v) PROVE x \in FromOn(v)
  <2>1. Reaches(graph, v, x) /\ Reaches(graph, x, v)
    BY <1>5 DEF ComponentOf
  <2>2. x \in FromOn(v) \cup Emitted
    BY <1>3, <2>1, FromOnIsClosed, ReachesWithin
  <2>3. x \notin Emitted
    <3>1. SUFFICES ASSUME x \in Emitted PROVE FALSE
      OBVIOUS
    <3>2. Closed(graph, Emitted)
      BY DEF SearchInv, LowLinksReach, Closed
    <3>3. v \in Emitted
      BY <2>1, <3>1, <3>2, ReachesWithin
    <3> QED
      BY <1>1, <3>3 DEF SearchInv, StackHoldsUnfinished
  <2> QED
    BY <2>2, <2>3
<1>6. FromOn(v) = ComponentOf(graph, v)
  BY <1>4, <1>5
<1> QED
  BY <1>1, <1>2, <1>6 DEF StronglyConnected

-----------------------------------------------------------------------------
(* A vertex that can reach below itself stays on the stack.                *)

LEMMA LowTyped ==
  ASSUME SearchInv, NEW v, ReturnEffect(v)
  PROVE  low' \in [DOMAIN index -> 0..(next - 1)]
<1>1. \A x \in DOMAIN index : low'[x] \in Nat /\ low'[x] <= low[x]
  BY DEF ReturnEffect
<1>2. \A x \in DOMAIN index : low[x] \in Nat /\ low[x] < next
  BY Numbers
<1>3. next \in Nat
  BY Numbers
<1>4. \A x \in DOMAIN index : low'[x] \in 0..(next - 1)
  BY <1>1, <1>2, <1>3
<1>5. low' = [u \in DOMAIN index |-> low'[u]]
  BY DEF ReturnEffect
<1> QED
  BY <1>4, <1>5

LEMMA MoreThanOne ==
  ASSUME NEW n \in Nat, n > 0, n # 1
  PROVE  n > 1
OBVIOUS

LEMMA StayKeeps ==
  ASSUME SearchInv, NEW v, ReturnEffect(v), low[v] # index[v],
         UNCHANGED <<stack, on_stack, result>>
  PROVE  SearchInv'
<1>1. /\ TypeOK /\ IsFiniteSet(DOMAIN index) /\ StackHoldsUnfinished
      /\ CallsAreSimplePath /\ LowLinksReach /\ FoundComponents
  BY DEF SearchInv
<1>2. /\ UNCHANGED <<graph, index, next, stack, on_stack, result>>
      /\ CallNodes' = CallNodes \ {v} /\ calls' \in Seq(Frame)
  BY DEF ReturnEffect
<1>3. Emitted' = Emitted /\ (Search!Found)' = Search!Found
  BY <1>2 DEF Emitted, Search!Found
<1>4. /\ \A x \in DOMAIN index : /\ low'[x] \in Nat /\ low'[x] <= low[x]
                                 /\ low[x] \in Nat /\ index[x] \in Nat
      /\ v \in on_stack /\ v \in DOMAIN index
      /\ on_stack \subseteq DOMAIN index /\ CallNodes \subseteq on_stack
  BY Numbers, TopIsLast DEF ReturnEffect
<1>5. TypeOK' /\ IsFiniteSet(DOMAIN index')
  BY <1>1, <1>2, LowTyped DEF TypeOK
<1>6. StackHoldsUnfinished'
  BY <1>1, <1>2, <1>3 DEF StackHoldsUnfinished
<1>7. CallsAreSimplePath'
  BY <1>2, <1>4, ReturnKeepsPath DEF CallsAreSimplePath
<1>8. low[v] < index[v]
  BY <1>1, <1>4 DEF LowLinksReach
<1>9. ASSUME NEW x \in on_stack
      PROVE  /\ \E w \in on_stack :
                  index[w] = low'[x] /\ low'[x] <= index[x] /\ Reaches(graph, x, w)
             /\ x \notin CallNodes' => low'[x] < index[x]
  <2>1. PICK w \in on_stack :
          index[w] = low[x] /\ low[x] <= index[x] /\ Reaches(graph, x, w)
    BY <1>1 DEF LowLinksReach
  <2>2. low'[x] <= index[x]
    BY <1>4, <2>1
  <2>3. x \notin CallNodes' => low'[x] < index[x]
    <3>1. x \notin CallNodes => low[x] < index[x]
      BY <1>1 DEF LowLinksReach
    <3> QED
      BY <1>2, <1>4, <1>8, <3>1
  <2>4. CASE low'[x] = low[x]
    BY <2>1, <2>2, <2>3, <2>4
  <2>5. CASE low'[x] # low[x]
    <3>1. /\ Len(calls) > 1 /\ x = calls[Len(calls) - 1].node /\ low'[x] = low[v]
      <4>1. ~(Len(calls) = 1 \/ x # calls[Len(calls) - 1].node)
        BY <1>4, <2>5 DEF ReturnEffect
      <4>2. Len(calls) \in Nat
        BY Numbers
      <4>3. Len(calls) # 1 /\ Len(calls) > 0
        BY <4>1 DEF ReturnEffect
      <4>4. Len(calls) > 1
        BY <4>2, <4>3, MoreThanOne
      <4> QED
        BY <2>5, <4>1, <4>4 DEF ReturnEffect
    <3>2. <<x, v>> \in graph
      BY <3>1, CallerIs
    <3>3. PICK u \in on_stack : index[u] = low[v] /\ Reaches(graph, v, u)
      BY <1>1, <1>4 DEF LowLinksReach
    <3>4. Reaches(graph, x, u)
      BY <3>2, <3>3, ArcEnds, ReachesTransitive
    <3> QED
      BY <2>2, <2>3, <3>1, <3>3, <3>4
  <2> QED
    BY <2>4, <2>5
<1>10. LowLinksReach'
  BY <1>1, <1>2, <1>3, <1>9 DEF LowLinksReach
<1> QED
  BY <1>1, <1>2, <1>3, <1>5, <1>6, <1>7, <1>10, ReturnKeepsPath, ReturnFollows,
     ReturnCovers DEF SearchInv, FoundComponents

-----------------------------------------------------------------------------
(* A component is popped.                                                  *)

PopEffect(v) ==
  /\ on_stack' = on_stack \ FromOn(v)
  /\ result' = Append(result, FromOn(v))
  /\ stack' \in Seq(DOMAIN index)
  /\ on_stack' = {stack'[i] : i \in DOMAIN stack'}
  /\ \A i, j \in DOMAIN stack' : i < j => index[stack'[i]] < index[stack'[j]]

LEMMA PopHasEffect ==
  ASSUME SearchInv, NEW v \in DOMAIN index, PopComponent(v)
  PROVE  PopEffect(v)
<1>1. PICK k \in DOMAIN stack : stack[k] = v /\ Popped(k)
  BY DEF PopComponent
<1>2. /\ StackHoldsUnfinished /\ stack \in Seq(DOMAIN index) /\ Len(stack) \in Nat
      /\ DOMAIN stack = 1..Len(stack)
      /\ \A x \in DOMAIN index : index[x] \in Nat
  BY Numbers DEF SearchInv, TypeOK
<1>3. k \in 1..Len(stack) /\ k \in Nat /\ k - 1 \in Nat
  BY <1>1, <1>2
<1>4. \A i, j \in 1..Len(stack) : i < j => index[stack[i]] < index[stack[j]]
  BY <1>2 DEF StackHoldsUnfinished
<1>5. \A i \in 1..Len(stack) : stack[i] \in DOMAIN index /\ stack[i] \in on_stack
  BY <1>2 DEF StackHoldsUnfinished
<1>6. \A i \in 1..Len(stack) : index[v] <= index[stack[i]] <=> i \in k..Len(stack)
  <2> SUFFICES ASSUME NEW i \in 1..Len(stack)
               PROVE  index[v] <= index[stack[i]] <=> i \in k..Len(stack)
    OBVIOUS
  <2>1. index[v] \in Nat /\ index[stack[i]] \in Nat
    BY <1>2, <1>5
  <2>2. CASE i < k
    <3>1. index[stack[i]] < index[v]
      BY <1>1, <1>3, <1>4, <2>2
    <3> QED
      BY <1>3, <2>1, <2>2, <3>1
  <2>3. CASE i = k
    BY <1>1, <1>3, <2>1, <2>3
  <2>4. CASE k < i
    <3>1. index[v] < index[stack[i]]
      BY <1>1, <1>3, <1>4, <2>4
    <3> QED
      BY <1>2, <1>3, <2>1, <2>4, <3>1
  <2>5. i < k \/ i = k \/ k < i
    BY <1>3
  <2> QED
    BY <2>2, <2>3, <2>4, <2>5
<1>7. k..Len(stack) \subseteq 1..Len(stack)
  BY <1>2, <1>3
<1>8. {stack[j] : j \in k..Len(stack)} = FromOn(v)
  <2>1. on_stack = {stack[j] : j \in 1..Len(stack)}
    BY <1>2 DEF StackHoldsUnfinished
  <2>2. ASSUME NEW j \in k..Len(stack) PROVE stack[j] \in FromOn(v)
    BY <1>5, <1>6, <1>7 DEF FromOn
  <2>3. ASSUME NEW x \in FromOn(v) PROVE \E j \in k..Len(stack) : x = stack[j]
    <3>1. x \in on_stack /\ index[v] <= index[x]
      BY DEF FromOn
    <3>2. PICK j \in 1..Len(stack) : x = stack[j]
      BY <2>1, <3>1
    <3> QED
      BY <1>6, <3>1, <3>2
  <2> QED
    BY <2>2, <2>3
<1>9. /\ stack' = SubSeq(stack, 1, k - 1) /\ on_stack' = on_stack \ FromOn(v)
      /\ result' = Append(result, FromOn(v))
  BY <1>1, <1>8 DEF Popped
<1> DEFINE n == k - 1
<1>10. /\ stack' \in Seq(DOMAIN index) /\ DOMAIN stack' = 1..n
       /\ \A i \in 1..n : stack'[i] = stack[i]
  <2>1. \A i \in 1..n : stack[i] \in DOMAIN index
    BY <1>2, <1>3, <1>5
  <2>2. n \in Nat
    BY <1>3
  <2> HIDE DEF n
  <2>3. /\ SubSeq(stack, 1, n) \in Seq(DOMAIN index)
        /\ Len(SubSeq(stack, 1, n)) = IF 1 <= n THEN n - 1 + 1 ELSE 0
        /\ \A i \in 1..(n - 1 + 1) : SubSeq(stack, 1, n)[i] = stack[1 + i - 1]
    BY <2>1, <2>2, SubSeqProperties
  <2>4. n - 1 + 1 = n /\ (IF 1 <= n THEN n - 1 + 1 ELSE 0) = n
    BY <2>2
  <2>5. Len(SubSeq(stack, 1, n)) = n
    BY <2>3, <2>4
  <2>6. \A i \in 1..n : SubSeq(stack, 1, n)[i] = stack[i]
    <3> SUFFICES ASSUME NEW i \in 1..n PROVE SubSeq(stack, 1, n)[i] = stack[i]
      OBVIOUS
    <3>1. 1 + i - 1 = i
      BY <2>2
    <3> QED
      BY <2>3, <2>4, <3>1
  <2> QED
    BY <1>9, <2>3, <2>5, <2>6, LenProperties DEF n
<1>11. \A i \in 1..n : i \in 1..Len(stack) /\ i \notin k..Len(stack)
  BY <1>2, <1>3
<1>12. \A i, j \in DOMAIN stack' : i < j => index[stack'[i]] < index[stack'[j]]
  BY <1>4, <1>10, <1>11
<1>13. on_stack' = {stack'[i] : i \in DOMAIN stack'}
  <2>1. on_stack = {stack[j] : j \in 1..Len(stack)}
    BY <1>2 DEF StackHoldsUnfinished
  <2>2. ASSUME NEW i \in 1..n PROVE stack[i] \in on_stack'
    BY <1>5, <1>6, <1>9, <1>11 DEF FromOn
  <2>3. ASSUME NEW x \in on_stack' PROVE \E i \in 1..n : x = stack[i]
    <3>1. x \in on_stack /\ ~(index[v] <= index[x])
      BY <1>9 DEF FromOn
    <3>2. PICK j \in 1..Len(stack) : x = stack[j]
      BY <2>1, <3>1
    <3>3. j \notin k..Len(stack)
      BY <1>6, <3>1, <3>2
    <3>4. j \in 1..n
      BY <1>2, <1>3, <3>3
    <3> QED
      BY <3>2, <3>4
  <2> HIDE DEF n
  <2> QED
    BY <1>10, <2>2, <2>3
<1> QED
  BY <1>9, <1>10, <1>12, <1>13 DEF PopEffect

LEMMA PopFound ==
  ASSUME SearchInv, NEW v, PopEffect(v)
  PROVE  /\ (Search!Found)' = Search!Found \cup {FromOn(v)}
         /\ Emitted' = Emitted \cup FromOn(v)
         /\ result' \in Seq(SUBSET DOMAIN index)
<1>1. result \in Seq(SUBSET DOMAIN index) /\ Len(result) \in Nat
  BY DEF SearchInv, TypeOK
<1>2. FromOn(v) \in SUBSET DOMAIN index
  BY Numbers DEF FromOn
<1>3. result' = Append(result, FromOn(v))
  BY DEF PopEffect
<1> DEFINE C == FromOn(v)
<1>4. /\ result' \in Seq(SUBSET DOMAIN index) /\ Len(result') = Len(result) + 1
      /\ DOMAIN result' = 1..(Len(result) + 1) /\ DOMAIN result = 1..Len(result)
      /\ \A i \in 1..Len(result) : result'[i] = result[i]
      /\ result'[Len(result) + 1] = C
  <2> HIDE DEF C
  <2> QED
    BY <1>1, <1>2, <1>3, AppendProperties, LenProperties DEF C
<1>5. /\ \A i \in 1..(Len(result) + 1) : i \in 1..Len(result) \/ i = Len(result) + 1
      /\ Len(result) + 1 \in 1..(Len(result) + 1)
      /\ 1..Len(result) \subseteq 1..(Len(result) + 1)
  BY <1>1
<1>6. (Search!Found)' = Search!Found \cup {C}
  <2> HIDE DEF C
  <2> QED
    BY <1>4, <1>5 DEF Search!Found
<1>7. Emitted' = Emitted \cup C
  BY <1>6 DEF Emitted
<1> QED
  BY <1>4, <1>6, <1>7

LEMMA PopKeeps ==
  ASSUME SearchInv, NEW v, ReturnEffect(v), low[v] = index[v], PopEffect(v)
  PROVE  SearchInv'
<1>1. /\ TypeOK /\ IsFiniteSet(DOMAIN index) /\ StackHoldsUnfinished
      /\ CallsAreSimplePath /\ LowLinksReach /\ FoundComponents /\ IndexDistinct
  BY DEF SearchInv
<1>2. /\ UNCHANGED <<graph, index, next>>
      /\ CallNodes' = CallNodes \ {v} /\ calls' \in Seq(Frame)
      /\ Len(calls) > 0 /\ v = Top.node /\ Top.targets = {}
  BY DEF ReturnEffect
<1>3. /\ (Search!Found)' = Search!Found \cup {FromOn(v)}
      /\ Emitted' = Emitted \cup FromOn(v)
      /\ result' \in Seq(SUBSET DOMAIN index)
  BY PopFound
<1>4. /\ on_stack' = on_stack \ FromOn(v) /\ stack' \in Seq(DOMAIN index)
      /\ on_stack' = {stack'[i] : i \in DOMAIN stack'}
      /\ \A i, j \in DOMAIN stack' : i < j => index[stack'[i]] < index[stack'[j]]
  BY DEF PopEffect
<1>5. /\ \A x \in DOMAIN index : /\ low'[x] \in Nat /\ low'[x] <= low[x]
                                 /\ low[x] \in Nat /\ index[x] \in Nat
      /\ v \in on_stack /\ v \in DOMAIN index
      /\ on_stack \subseteq DOMAIN index /\ CallNodes \subseteq on_stack
      /\ \A u \in CallNodes : u # v => index[u] < index[v]
  BY <1>2, Numbers, TopIsLast DEF ReturnEffect
<1>6. FromOn(v) \subseteq on_stack /\ v \in FromOn(v)
  BY <1>5 DEF FromOn
<1>7. TypeOK' /\ IsFiniteSet(DOMAIN index')
  BY <1>1, <1>2, <1>3, <1>4, <1>5, LowTyped DEF TypeOK
<1>8. StackHoldsUnfinished'
  <2>1. DOMAIN index = on_stack \cup Emitted /\ on_stack \cap Emitted = {}
    BY <1>1 DEF StackHoldsUnfinished
  <2>2. DOMAIN index' = on_stack' \cup Emitted' /\ on_stack' \cap Emitted' = {}
    BY <1>2, <1>3, <1>4, <1>6, <2>1
  <2> QED
    BY <1>2, <1>4, <2>2 DEF StackHoldsUnfinished
<1>9. CallNodes' \subseteq on_stack'
  BY <1>2, <1>4, <1>5 DEF FromOn
<1>10. CallsAreSimplePath'
  BY <1>9, ReturnKeepsPath DEF CallsAreSimplePath
<1>11. ASSUME NEW x \in on_stack'
       PROVE  x \in on_stack /\ x \in DOMAIN index /\ x # v /\ index[x] < index[v]
  BY <1>4, <1>5, <1>6 DEF FromOn
(* What v reached is below no other vertex that stays.                     *)
<1>12. ASSUME NEW x \in on_stack' PROVE low'[x] = low[x]
  <2>1. SUFFICES ASSUME low'[x] # low[x] PROVE FALSE
    OBVIOUS
  <2>2. ~(Len(calls) = 1 \/ x # calls[Len(calls) - 1].node)
    BY <1>11, <2>1 DEF ReturnEffect
  <2>3. Len(calls) \in Nat
    BY Numbers
  <2>4. Len(calls) > 1
    BY <1>2, <2>2, <2>3, MoreThanOne
  <2>5. low'[x] = low[v]
    BY <2>1, <2>2, <2>4 DEF ReturnEffect
  <2>6. low[x] <= index[x]
    BY <1>1, <1>11 DEF LowLinksReach
  <2>7. low'[x] <= low[x] /\ index[x] < index[v]
    BY <1>5, <1>11
  <2> QED
    BY <1>5, <1>11, <2>5, <2>6, <2>7
<1>13. ASSUME NEW x \in on_stack'
       PROVE  /\ \E w \in on_stack' :
                   index[w] = low'[x] /\ low'[x] <= index[x] /\ Reaches(graph, x, w)
              /\ x \notin CallNodes' => low'[x] < index[x]
              /\ \A u \in CallNodes' : index[u] <= index[x] => Reaches(graph, u, x)
  <2>1. PICK w \in on_stack :
          index[w] = low[x] /\ low[x] <= index[x] /\ Reaches(graph, x, w)
    BY <1>1, <1>11 DEF LowLinksReach
  <2>2. w \in on_stack'
    <3>1. ~(index[v] <= index[w])
      BY <1>5, <1>11, <2>1
    <3> QED
      BY <1>4, <3>1 DEF FromOn
  <2>3. x \notin CallNodes' => x \notin CallNodes
    BY <1>2, <1>11
  <2>4. x \notin CallNodes => low[x] < index[x]
    BY <1>1, <1>11 DEF LowLinksReach
  <2>5. \A u \in CallNodes : index[u] <= index[x] => Reaches(graph, u, x)
    BY <1>1, <1>11 DEF LowLinksReach
  <2> QED
    BY <1>2, <1>12, <2>1, <2>2, <2>3, <2>4, <2>5
<1>14. \A e \in graph : e[1] \in Emitted' => e[2] \in Emitted'
  <2>1. Closed(graph, FromOn(v) \cup Emitted)
    BY <1>2, FromOnIsClosed
  <2> QED
    BY <1>3, <2>1 DEF Closed
<1>15. LowLinksReach'
  BY <1>2, <1>13, <1>14 DEF LowLinksReach
<1>16. FoundComponents'
  <2>1. FromOn(v) \in StronglyConnected(graph)
    BY <1>2, FromOnIsComponent
  <2> QED
    BY <1>1, <1>2, <1>3, <2>1 DEF FoundComponents
<1>17. on_stack' \subseteq on_stack
  BY <1>4
<1> QED
  BY <1>7, <1>8, <1>10, <1>15, <1>16, <1>17, ReturnKeepsPath, ReturnFollows,
     ReturnCovers DEF SearchInv

-----------------------------------------------------------------------------
(* Every step keeps the invariant.                                         *)

LEMMA FinishKeeps ==
  ASSUME SearchInv, FinishVisit
  PROVE  SearchInv'
<1>1. ReturnEffect(Top.node) /\ Top.node \in DOMAIN index
  <2>1. calls # <<>> /\ Top.targets = {} /\ Return(Top.node)
    BY DEF FinishVisit
  <2>2. ReturnEffect(Top.node)
    BY <2>1, ReturnHasEffect
  <2> QED
    BY <2>2, TopIsLast DEF ReturnEffect
<1>2. CASE low[Top.node] = index[Top.node]
  <2>1. PopComponent(Top.node)
    BY <1>2 DEF FinishVisit
  <2>2. PopEffect(Top.node)
    BY <1>1, <2>1, PopHasEffect
  <2> QED
    BY <1>1, <1>2, <2>2, PopKeeps
<1>3. CASE low[Top.node] # index[Top.node]
  <2>1. UNCHANGED <<stack, on_stack, result>>
    BY <1>3 DEF FinishVisit
  <2> QED
    BY <1>1, <1>3, <2>1, StayKeeps
<1> QED
  BY <1>2, <1>3

LEMMA SearchUnchanged ==
  ASSUME SearchInv, UNCHANGED vars
  PROVE  SearchInv'
<1>1. /\ TypeOK' /\ (IsFiniteSet(DOMAIN index))' /\ IndexDistinct'
      /\ TargetsAreArcs'
  BY DEF SearchInv, vars, TypeOK, IndexDistinct, TargetsAreArcs
<1>2. CallNodes' = CallNodes /\ Emitted' = Emitted /\ (Search!Found)' = Search!Found
  BY DEF vars, CallNodes, Emitted, Search!Found
<1>3. StackHoldsUnfinished' /\ CallsAreSimplePath' /\ LowLinksReach'
  BY <1>2 DEF SearchInv, vars, StackHoldsUnfinished, CallsAreSimplePath, LowLinksReach
<1>4. ArcsFollowed'
  BY DEF SearchInv, vars, ArcsFollowed, Followed
<1>5. LowCovers' /\ FoundComponents'
  BY <1>2 DEF SearchInv, vars, LowCovers, LastCalledBefore, FoundComponents
<1> QED
  BY <1>1, <1>3, <1>4, <1>5 DEF SearchInv

LEMMA SearchStep ==
  ASSUME SearchInv, [Next]_vars
  PROVE  SearchInv'
<1>1. ASSUME NEW v \in Vertices(graph), VisitRoot(v) PROVE SearchInv'
  BY <1>1, RootCalled, VisitKeeps
<1>2. ASSUME calls # <<>>, NEW t \in Top.targets, VisitTarget(t) PROVE SearchInv'
  BY <1>2, TargetCalled, VisitKeeps
<1>3. ASSUME calls # <<>>, NEW t \in Top.targets, SkipTarget(t) PROVE SearchInv'
  BY <1>3, SkipHasEffect, SkipKeeps
<1>4. ASSUME FinishVisit PROVE SearchInv'
  BY <1>4, FinishKeeps
<1>5. ASSUME UNCHANGED vars PROVE SearchInv'
  BY <1>5, SearchUnchanged
<1> QED
  BY <1>1, <1>2, <1>3, <1>4, <1>5 DEF Next, LookAtTarget

LEMMA SearchAlways == Spec => []SearchInv
<1>1. SearchInv /\ [Next]_vars => SearchInv'
  BY SearchStep
<1> QED
  BY SearchInit, <1>1, PTL DEF Spec

-----------------------------------------------------------------------------
(* The invariants of the runs, for every set of digraphs.                  *)

(* Each map and each sequence of strongly_connected() holds what it is     *)
(* declared to hold, and no index is given twice.                          *)
THEOREM SearchTypeCorrect == Spec => []TypeOK
BY SearchAlways, PTL DEF SearchInv

(* A vertex that was visited is on the stack or in one component, and      *)
(* on_stack is the set of those on the stack.                              *)
THEOREM StackCorrect == Spec => []StackHoldsUnfinished
BY SearchAlways, PTL DEF SearchInv

(* The calls of visit() that are under way are a simple path of the graph, *)
(* all of it on the stack: the recursion is no deeper than that.           *)
THEOREM RecursionBounded == Spec => []CallsAreSimplePath
BY SearchAlways, PTL DEF SearchInv

(* A low link names a vertex of the stack that can be reached, and a       *)
(* vertex waits on the stack only while it can reach below itself.         *)
THEOREM LowLinksCorrect == Spec => []LowLinksReach
BY SearchAlways, PTL DEF SearchInv

LEMMA FoundIsFinite ==
  ASSUME SearchInv, NEW i \in DOMAIN result
  PROVE  result[i] \in StronglyConnected(graph) /\ IsFiniteSet(result[i])
<1>1. result[i] \in StronglyConnected(graph)
  BY DEF SearchInv, FoundComponents, Search!Found
<1>2. result \in Seq(SUBSET DOMAIN index) /\ IsFiniteSet(DOMAIN index)
  BY DEF SearchInv, TypeOK
<1>3. result[i] \subseteq DOMAIN index
  BY <1>2
<1> QED
  BY <1>1, <1>2, <1>3, FS_Subset

LEMMA SearchRecognises == SearchInv => CyclesRecognised
<1> SUFFICES ASSUME SearchInv, NEW i \in DOMAIN result, NEW v \in result[i]
             PROVE  CyclicComponent(result[i], graph)
                      <=> \E w \in Successors(graph, v) : Reaches(graph, w, v)
  BY DEF CyclesRecognised
<1> DEFINE C == result[i]
<1>1. C \in StronglyConnected(graph) /\ IsFiniteSet(C)
  BY FoundIsFinite
<1>2. C = ComponentOf(graph, v)
  BY <1>1, StronglyConnectedOf
<1>3. ASSUME CyclicComponent(C, graph)
      PROVE  \E w \in Successors(graph, v) : Reaches(graph, w, v)
  <2>1. PICK e \in graph : e[1] = v /\ e[2] \in C
    BY <1>1, <1>3, CyclicHasInnerArc
  <2>2. Reaches(graph, e[2], v)
    BY <1>2, <2>1 DEF ComponentOf
  <2> QED
    BY <2>1, <2>2 DEF Successors
<1>4. ASSUME NEW w \in Successors(graph, v), Reaches(graph, w, v)
      PROVE  CyclicComponent(C, graph)
  <2>1. <<v, w>> \in graph
    BY ArcOf DEF SearchInv
  <2>2. CASE w = v
    BY <2>1, <2>2 DEF CyclicComponent
  <2>3. CASE w # v
    <3>1. w \in C
      BY <1>2, <1>4, <2>1, ArcEnds DEF ComponentOf
    <3>2. Cardinality(C) \in Nat /\ Cardinality(C) # 0 /\ Cardinality(C) # 1
      BY <1>1, <2>3, <3>1, FS_CardinalityType, FS_EmptySet, FS_Singleton
    <3> QED
      BY <3>2 DEF CyclicComponent
  <2> QED
    BY <2>2, <2>3
<1> QED
  BY <1>3, <1>4

(* cyclic_component() tells by its size and its loops whether a component  *)
(* that strongly_connected() returned lies on a cycle.                     *)
THEOREM CyclesAreRecognised == Spec => []CyclesRecognised
BY SearchAlways, SearchRecognises, PTL

-----------------------------------------------------------------------------
(* What the search promises.                                               *)

LEMMA SearchedAlike ==
  ASSUME NEW G
  PROVE  /\ Search!StronglyConnected(G) = StronglyConnected(G)
         /\ \A v : Search!Successors(G, v) = Successors(G, v)
<1>1. Search!Vertices(G) = Vertices(G)
  BY DEF Search!Vertices, Vertices
<1>2. \A C : Search!Closed(G, C) <=> Closed(G, C)
  BY DEF Search!Closed, Closed
<1>3. \A v, w : Search!Reaches(G, v, w) <=> Reaches(G, v, w)
  BY <1>1, <1>2 DEF Search!Reaches, Reaches
<1>4. \A v : Search!ComponentOf(G, v) = ComponentOf(G, v)
  BY <1>1, <1>3 DEF Search!ComponentOf, ComponentOf
<1> QED
  BY <1>1, <1>4 DEF Search!StronglyConnected, StronglyConnected, Search!Successors, Successors

LEMMA PopEmits ==
  ASSUME SearchInv, FinishVisit, low[Top.node] = index[Top.node]
  PROVE  Search!Next
<1> DEFINE C == FromOn(Top.node)
<1>1. ReturnEffect(Top.node) /\ PopComponent(Top.node)
  BY ReturnHasEffect DEF FinishVisit
<1>2. Len(calls) > 0 /\ Top.targets = {} /\ UNCHANGED graph
  BY <1>1 DEF ReturnEffect
<1>3. Top.node \in DOMAIN index /\ Top.node \in on_stack
  BY <1>2, TopIsLast
<1>4. result' = Append(result, C)
  BY <1>1, <1>3, PopHasEffect DEF PopEffect
<1>5. C \in StronglyConnected(graph)
  BY <1>2, FromOnIsComponent
<1>6. C \notin Search!Found
  <2>1. Top.node \in C
    BY <1>3, Numbers DEF FromOn
  <2>2. Top.node \notin Emitted
    BY <1>3 DEF SearchInv, StackHoldsUnfinished
  <2> QED
    BY <2>1, <2>2 DEF Emitted
<1>7. \A v \in C : Successors(graph, v) \subseteq C \cup UNION Search!Found
  <2>1. Closed(graph, C \cup Emitted)
    BY <1>2, FromOnIsClosed
  <2> QED
    BY <2>1 DEF Closed, Successors, Emitted
<1> HIDE DEF C
<1> QED
  BY <1>2, <1>4, <1>5, <1>6, <1>7, SearchedAlike DEF Search!Next, Search!Emit

LEMMA SearchStepMaps ==
  ASSUME SearchInv, [Next]_vars
  PROVE  [Search!Next]_<<graph, result>>
<1>1. ASSUME NEW v \in Vertices(graph), VisitRoot(v) PROVE UNCHANGED <<graph, result>>
  BY <1>1, RootCalled, VisitKeeps
<1>2. ASSUME calls # <<>>, NEW t \in Top.targets, VisitTarget(t)
      PROVE  UNCHANGED <<graph, result>>
  BY <1>2, TargetCalled, VisitKeeps
<1>3. ASSUME NEW t, SkipTarget(t) PROVE UNCHANGED <<graph, result>>
  BY <1>3 DEF SkipTarget
<1>4. ASSUME FinishVisit PROVE Search!Next \/ UNCHANGED <<graph, result>>
  <2>1. CASE low[Top.node] = index[Top.node]
    BY <1>4, <2>1, PopEmits
  <2>2. CASE low[Top.node] # index[Top.node]
    BY <1>4, <2>2 DEF FinishVisit, Return
  <2> QED
    BY <2>1, <2>2
<1>5. ASSUME UNCHANGED vars PROVE UNCHANGED <<graph, result>>
  BY <1>5 DEF vars
<1> QED
  BY <1>1, <1>2, <1>3, <1>4, <1>5 DEF Next, LookAtTarget

(* The search finds strongly connected components only, each once and      *)
(* after those it points to: every step of strongly_connected() is a step  *)
(* of its promise or none.                                                 *)
THEOREM SearchIsSafe == Spec => Search!Init /\ [][Search!Next]_<<graph, result>>
<1>1. Init => Search!Init
  BY DEF Init, Search!Init
<1>2. SearchInv /\ [Next]_vars => [Search!Next]_<<graph, result>>
  BY SearchStepMaps
<1> QED
  BY <1>1, <1>2, SearchAlways, PTL DEF Spec

(* The loop over the vertices is through and no call is left.              *)
Ended == calls = <<>> /\ Vertices(graph) \subseteq DOMAIN index

FoundAll == Ended => Search!Found = StronglyConnected(graph)

LEMMA EndsWithAll == SearchInv => FoundAll
<1> SUFFICES ASSUME SearchInv, Ended PROVE Search!Found = StronglyConnected(graph)
  BY DEF FoundAll
<1>1. /\ StackHoldsUnfinished /\ LowLinksReach /\ FoundComponents
      /\ Search!Found \subseteq StronglyConnected(graph)
  BY DEF SearchInv, FoundComponents
<1>2. CallNodes = {}
  BY DEF Ended, CallNodes
(* Each vertex of the stack would have one below it.                       *)
<1>3. on_stack = {}
  <2> DEFINE T == {index[x] : x \in on_stack}
  <2>1. SUFFICES ASSUME on_stack # {} PROVE FALSE
    OBVIOUS
  <2>2. on_stack \subseteq DOMAIN index /\ \A x \in DOMAIN index : index[x] \in Nat
    BY Numbers
  <2>3. T \subseteq Nat /\ T # {}
    BY <2>1, <2>2
  <2>4. PICK m \in T : \A n \in T : m <= n
    <3> HIDE DEF T
    <3> QED
      BY <2>3, LeastNumber
  <2>5. PICK x \in on_stack : m = index[x]
    BY <2>4
  <2>6. low[x] < index[x]
    BY <1>1, <1>2, <2>5 DEF LowLinksReach
  <2>7. PICK w \in on_stack : index[w] = low[x]
    BY <1>1 DEF LowLinksReach
  <2>8. m <= index[w]
    BY <2>4
  <2> QED
    BY <2>2, <2>5, <2>6, <2>7, <2>8
<1>4. ASSUME NEW C \in StronglyConnected(graph) PROVE C \in Search!Found
  <2>1. PICK v \in Vertices(graph) : C = ComponentOf(graph, v)
    BY DEF StronglyConnected
  <2>2. v \in Emitted /\ v \in C
    BY <1>1, <1>3, <2>1, InItsComponent DEF Ended, StackHoldsUnfinished
  <2>3. PICK D \in Search!Found : v \in D
    BY <2>2 DEF Emitted
  <2>4. C = D
    BY <1>1, <2>2, <2>3, ComponentsDisjoint
  <2> QED
    BY <2>3, <2>4
<1> QED
  BY <1>1, <1>4

(* When strongly_connected() returns, it returns all the components.       *)
THEOREM SearchIsComplete == Spec => []FoundAll
BY SearchAlways, EndsWithAll, PTL

=============================================================================
