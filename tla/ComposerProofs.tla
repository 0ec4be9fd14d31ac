---------------------------- MODULE ComposerProofs ----------------------------
(***************************************************************************)
(* What holds of every request and every program, for every resolution and *)
(* every set of packages: the composer keeps its types, never dereferences *)
(* a missing removal, and removes nothing that the target wants.  Then its *)
(* inductive invariant: each variable is exactly what the loops have made  *)
(* of it so far.                                                           *)
(***************************************************************************)
EXTENDS TransactionProperties, CondensationProofs, TLAPS

(* What a loop has still to visit is of the kind its iterations expect.    *)
TodoOK ==
  /\ stage = "seal" => todo \subseteq policy.removals
  /\ stage \in {"classify", "phases"} => todo \subseteq DOMAIN resolution.selections
  /\ stage = "goals" => todo \subseteq resolution.goals
  /\ stage = "removals" => todo \subseteq Package
  /\ stage = "cohorts" => todo \subseteq SUBSET SelectionId
  /\ stage = "requirements" => todo \subseteq resolution.edges
  /\ stage = "removal_phases" => todo \subseteq DOMAIN resolution.installed

TypeInv == TypeOK /\ TodoOK

Stage == {"policy", "seal", "sealed", "classify", "goals", "removals", "bind",
          "cycles", "cohorts", "requirements", "phases", "removal_phases",
          "complete", "failed", "undefined"}

ErrorValue == Contract!ErrorCode
                \cup {"none", "invalid_request", "duplicate_removal", "identity_failed"}

-----------------------------------------------------------------------------
(* The operators that make nodes, edges and cohorts make them of their     *)
(* types.                                                                  *)

LEMMA SelectedNodeType ==
  ASSUME TypeOK, NEW s \in DOMAIN resolution.selections,
         NEW action \in Action, NEW lifecycle \in LifecycleAction \cup {"none"}
  PROVE  SelectedNode(s, action, lifecycle) \in Node
<1>1. Selected(s) \in Selection /\ s \in SelectionId
  BY DEF TypeOK, IsResolution, Selected
<1> QED
  BY <1>1 DEF SelectedNode, Node, Selection

LEMMA ClassifiedNodesType ==
  ASSUME TypeOK, NEW s \in DOMAIN resolution.selections
  PROVE  ClassifiedNodes(s) \subseteq Node
<1>1. CatalogActions(s) \subseteq Action
  BY DEF CatalogActions, TargetAction, Action
<1>2. InstalledActions(s) \subseteq Action
  BY DEF InstalledActions, Action
<1>3. ASSUME NEW a \in Action PROVE SelectedNode(s, a, "none") \in Node
  BY SelectedNodeType
<1> QED
  BY <1>1, <1>2, <1>3 DEF ClassifiedNodes

LEMMA GoalNodesType ==
  ASSUME TypeOK, NEW g \in resolution.goals,
         g.selection \in DOMAIN resolution.selections
  PROVE  GoalNodes(g) \subseteq Node
<1>1. SelectedNode(g.selection, "check", "none") \in Node
  BY SelectedNodeType DEF Action
<1>2. ASSUME g.scope \in LifecycleAction
      PROVE  SelectedNode(g.selection, "lifecycle", g.scope) \in Node
  BY <1>2, SelectedNodeType DEF Action
<1> QED
  BY <1>1, <1>2 DEF GoalNodes

LEMMA RemoveNodeType ==
  ASSUME NEW p \in Package
  PROVE  RemoveNode(p) \in Node
BY DEF RemoveNode, Node, Action, Environment

LEMMA CohortOfType ==
  ASSUME TypeOK, NEW C
  PROVE  CohortOf(C) \in Cohort
<1>1. \A s : CompletionNode(s) \subseteq Node
  BY DEF TypeOK, CompletionNode
<1>2. EdgesOf({"run"}) \subseteq RequirementEdge
  BY DEF TypeOK, IsResolution, EdgesOf
<1> QED
  BY <1>1, <1>2 DEF CohortOf, Cohort

LEMMA RuntimeBoundaryType ==
  ASSUME TypeOK, NEW s
  PROVE  RuntimeBoundary(s) \subseteq Node
<1>1. CompletionNode(s) \subseteq Node
  BY DEF TypeOK, CompletionNode
<1>2. ASSUME s \in DOMAIN runtime_component
      PROVE  cohorts[runtime_component[s]].members \subseteq Node
  <2>1. runtime_component[s] \in 1..Len(cohorts)
    BY <1>2 DEF TypeOK
  <2>2. cohorts[runtime_component[s]] \in Cohort
    BY <2>1 DEF TypeOK
  <2> QED
    BY <2>2 DEF Cohort
<1> QED
  BY <1>1, <1>2 DEF RuntimeBoundary

LEMMA RequirementEdgesType ==
  ASSUME TypeOK, NEW e \in resolution.edges
  PROVE  RequirementEdges(e) \subseteq Edge
<1>1. e \in RequirementEdge
  BY DEF TypeOK, IsResolution
<1>2. CompletionNode(e.required) \subseteq Node /\ Consumer(e) \subseteq Node
  BY DEF TypeOK, CompletionNode, Consumer, Lookup, LookupLifecycle
<1>3. RuntimeBoundary(e.required) \subseteq Node /\ RuntimeBoundary(e.issuer) \subseteq Node
  BY RuntimeBoundaryType
<1>4. RequirementPairs(e) \subseteq Node \X Node
  BY <1>2, <1>3 DEF RequirementPairs
<1> QED
  BY <1>1, <1>4 DEF RequirementEdges, Edge

LEMMA PhaseEdgesBetweenType ==
  ASSUME NEW B \in SUBSET Node, NEW A \in SUBSET Node, NEW order \in PhaseOrder
  PROVE  PhaseEdgesBetween(B, A, order) \subseteq Edge
BY DEF PhaseEdgesBetween, Edge

LEMMA PhaseEdgesType ==
  ASSUME TypeOK, NEW s
  PROVE  PhaseEdges(s) \subseteq Edge
<1>1. \A action : Lookup(s, action) \subseteq Node /\ LookupLifecycle(s, action) \subseteq Node
  BY DEF TypeOK, Lookup, LookupLifecycle
<1>2. MutationOf(s) \subseteq Node
  BY <1>1 DEF MutationOf
<1>3. \A B, A \in SUBSET Node : \A order \in PhaseOrder :
        PhaseEdgesBetween(B, A, order) \subseteq Edge
  BY PhaseEdgesBetweenType
<1> QED
  BY <1>1, <1>2, <1>3 DEF PhaseEdges, PhaseOrder

LEMMA RemovalPhaseEdgesType ==
  ASSUME TypeOK, NEW p, NEW T \in SUBSET Node
  PROVE  RemovalPhaseEdges(p, T) \subseteq Edge
<1>1. \A s, action : LookupLifecycle(s, action) \subseteq Node
  BY DEF TypeOK, Lookup, LookupLifecycle
<1>2. \A B, A \in SUBSET Node : \A order \in PhaseOrder :
        PhaseEdgesBetween(B, A, order) \subseteq Edge
  BY PhaseEdgesBetweenType
<1> QED
  BY <1>1, <1>2 DEF RemovalPhaseEdges, PhaseOrder

LEMMA RuntimeComponentsType ==
  ASSUME TypeOK
  PROVE  CyclicComponents(RuntimeGraph) \subseteq SUBSET SelectionId
<1>1. Vertices(RuntimeGraph) \subseteq SelectionId
  BY DEF TypeOK, IsResolution, RuntimeGraph, EdgesOf, RequirementEdge, Vertices
<1>2. \A v : ComponentOf(RuntimeGraph, v) \subseteq SelectionId
  BY <1>1 DEF ComponentOf
<1> QED
  BY <1>2 DEF CyclicComponents, StronglyConnected

-----------------------------------------------------------------------------
(* The three ways a step ends: an error, one element less, the next loop.  *)

LEMMA ThrowKeepsTypes ==
  ASSUME TypeInv, NEW code \in ErrorValue, Throw(code),
         UNCHANGED <<resolution, policy>>, UNCHANGED graphVars
  PROVE  TypeInv'
BY DEF TypeInv, TypeOK, TodoOK, ErrorValue, Throw, graphVars

(* An error inside compose() leaves the state of a call not yet made.       *)
LEMMA FailKeepsTypes ==
  ASSUME TypeInv, NEW code \in ErrorValue, Fail(code)
  PROVE  TypeInv'
<1>1. cohorts' = <<>> /\ runtime_component' = <<>>
  BY DEF Fail
<1>2. cohorts' \in Seq(Cohort) /\ DOMAIN runtime_component' = {}
  BY <1>1
<1>3. runtime_component' \in [DOMAIN runtime_component' -> 1..Len(cohorts')]
  BY <1>1, <1>2
<1> QED
  BY <1>2, <1>3 DEF TypeInv, TypeOK, TodoOK, ErrorValue, Fail, Throw

LEMMA IdentityFailsKeepsTypes ==
  ASSUME TypeInv, IdentityFails
  PROVE  TypeInv'
<1>1. "identity_failed" \in ErrorValue
  BY DEF ErrorValue
<1> QED
  BY <1>1, FailKeepsTypes DEF IdentityFails

LEMMA VisitedKeepsTypes ==
  ASSUME TypeInv, NEW x, Visited(x), UNCHANGED <<resolution, policy>>,
         nodes' \subseteq Node, edges' \subseteq Edge,
         UNCHANGED <<cohorts, runtime_component>>
  PROVE  TypeInv'
BY DEF TypeInv, TypeOK, TodoOK, Visited

LEMMA AddNodesKeepsTypes ==
  ASSUME TypeInv, NEW x, NEW N \in SUBSET Node, AddNodes(x, N)
  PROVE  TypeInv'
<1>1. CASE Fail("inconsistent_authority")
  <2>1. "inconsistent_authority" \in ErrorValue
    BY DEF ErrorValue, Contract!ErrorCode
  <2> QED
    BY <1>1, <2>1, FailKeepsTypes
<1>2. CASE /\ nodes' = nodes \cup N /\ Visited(x)
           /\ UNCHANGED <<resolution, policy, edges, cohorts, runtime_component>>
  <2>1. nodes' \subseteq Node /\ edges' \subseteq Edge
    BY <1>2 DEF TypeInv, TypeOK
  <2> QED
    BY <1>2, <2>1, VisitedKeepsTypes
<1> QED
  BY <1>1, <1>2, IdentityFailsKeepsTypes DEF AddNodes

LEMMA AddEdgesKeepsTypes ==
  ASSUME TypeInv, NEW x, NEW E \in SUBSET Edge, AddEdges(x, E)
  PROVE  TypeInv'
<1>1. CASE /\ edges' = edges \cup E /\ Visited(x)
           /\ UNCHANGED <<resolution, policy, nodes, cohorts, runtime_component>>
  <2>1. nodes' \subseteq Node /\ edges' \subseteq Edge
    BY <1>1 DEF TypeInv, TypeOK
  <2> QED
    BY <1>1, <2>1, VisitedKeepsTypes
<1> QED
  BY <1>1, IdentityFailsKeepsTypes DEF AddEdges

LEMMA LoopKeepsTypes ==
  ASSUME TypeInv, NEW from, NEW next \in Stage, NEW work, Loop(from, next, work),
         next = "seal" => work \subseteq policy.removals,
         next \in {"classify", "phases"} => work \subseteq DOMAIN resolution.selections,
         next = "goals" => work \subseteq resolution.goals,
         next = "removals" => work \subseteq Package,
         next = "cohorts" => work \subseteq SUBSET SelectionId,
         next = "requirements" => work \subseteq resolution.edges,
         next = "removal_phases" => work \subseteq DOMAIN resolution.installed
  PROVE  TypeInv'
BY DEF TypeInv, TypeOK, TodoOK, Stage, Loop, Enter, graphVars

-----------------------------------------------------------------------------
(* Each step of sealing keeps the types.                                   *)

LEMMA RequestKeepsTypes ==
  ASSUME TypeInv, RequestNext, UNCHANGED graphVars
  PROVE  TypeInv'
<1> USE DEF graphVars
<1>1. ASSUME NEW p \in Policy, Choose(p) PROVE TypeInv'
  BY <1>1 DEF TypeInv, TypeOK, TodoOK, Choose, Policy
<1>2. \A code \in {"invalid_request", "duplicate_removal",
                   "unknown_installed_package", "selected_for_removal",
                   "identity_failed"} : code \in ErrorValue
  BY DEF ErrorValue, Contract!ErrorCode
<1>3. CASE PreserveUnselected
  BY <1>1, <1>3 DEF PreserveUnselected, Policy, Mode
<1>4. CASE ConvergeExact
  BY <1>1, <1>4 DEF ConvergeExact, Policy, Mode
<1>5. ASSUME NEW packages \in RemovalLists, RemoveExplicit(packages)
      PROVE  TypeInv'
  <2>1. [mode |-> "remove_explicit", removals |-> RemovalSet(packages)] \in Policy
    BY <1>5, RemovalListsAssumption DEF RemovalSet, Policy, Mode
  <2>2. CASE Throw("invalid_request") /\ UNCHANGED <<resolution, policy>>
    BY <2>2, <1>2, ThrowKeepsTypes
  <2>3. CASE Throw("duplicate_removal") /\ UNCHANGED <<resolution, policy>>
    BY <2>3, <1>2, ThrowKeepsTypes
  <2>4. CASE Choose([mode |-> "remove_explicit", removals |-> RemovalSet(packages)])
    BY <2>1, <2>4, <1>1
  <2> QED
    BY <1>5, <2>2, <2>3, <2>4 DEF RemoveExplicit
<1>6. ASSUME NEW p \in todo, CheckRemoval(p)
      PROVE  TypeInv'
  <2> USE <1>6 DEF CheckRemoval
  <2>1. CASE Throw("unknown_installed_package")
    BY <2>1, <1>2, ThrowKeepsTypes
  <2>2. CASE Throw("selected_for_removal")
    BY <2>2, <1>2, ThrowKeepsTypes
  <2>3. CASE todo' = todo \ {p} /\ UNCHANGED <<stage, error>>
    BY <2>3 DEF TypeInv, TypeOK, TodoOK
  <2> QED
    BY <2>1, <2>2, <2>3
<1>7. CASE FinishSeal
  <2>1. CASE Throw("identity_failed")
    BY <1>2, <1>7, <2>1, ThrowKeepsTypes DEF FinishSeal
  <2>2. CASE stage' = "sealed" /\ UNCHANGED <<error, todo>>
    BY <1>7, <2>2 DEF FinishSeal, TypeInv, TypeOK, TodoOK
  <2> QED
    BY <1>7, <2>1, <2>2 DEF FinishSeal
<1> QED
  BY <1>3, <1>4, <1>5, <1>6, <1>7 DEF RequestNext

(* Each iteration of a loop of compose() keeps the types.                  *)
LEMMA IterateKeepsTypes ==
  ASSUME TypeInv, Iterate
  PROVE  TypeInv'
<1> USE DEF TypeInv
<1>1. PICK x \in todo :
        \/ Classify(x) \/ VisitGoal(x) \/ RemoveInstalled(x) \/ Bind(x)
        \/ GatherCohort(x) \/ OrderRequirement(x) \/ OrderPhases(x)
        \/ OrderRemovalPhases(x)
  BY DEF Iterate
<1>2. {"inconsistent_authority", "missing_check_program", "unbound_lifecycle"}
        \subseteq ErrorValue
  BY DEF ErrorValue, Contract!ErrorCode
<1>3. CASE Classify(x)
  <2>1. ClassifiedNodes(x) \in SUBSET Node
    BY <1>3, ClassifiedNodesType DEF Classify, TodoOK
  <2> QED
    BY <1>3, <2>1, AddNodesKeepsTypes DEF Classify
<1>4. CASE VisitGoal(x)
  <2>1. x \in resolution.goals
    BY <1>4 DEF VisitGoal, TodoOK
  <2>2. \A s : CheckAuthorityError(s) \in {"inconsistent_authority",
                                          "missing_check_program", "none"}
    BY DEF CheckAuthorityError
  <2>3. CASE /\ x.selection \in DOMAIN resolution.selections
             /\ AddNodes(x, GoalNodes(x))
    BY <2>1, <2>3, GoalNodesType, AddNodesKeepsTypes
  <2>4. CASE Fail("inconsistent_authority")
    BY <2>4, <1>2, FailKeepsTypes
  <2>5. CASE /\ CheckAuthorityError(x.selection) # "none"
             /\ Fail(CheckAuthorityError(x.selection))
    BY <2>2, <2>5, <1>2, FailKeepsTypes
  <2> QED
    BY <1>4, <2>3, <2>4, <2>5 DEF VisitGoal
<1>5. CASE RemoveInstalled(x)
  <2>1. {RemoveNode(x)} \in SUBSET Node
    BY <1>5, RemoveNodeType DEF RemoveInstalled, TodoOK
  <2>2. CASE AddNodes(x, {RemoveNode(x)})
    BY <2>1, <2>2, AddNodesKeepsTypes
  <2>3. CASE /\ stage' = "undefined" /\ todo' = {}
             /\ UNCHANGED <<resolution, policy, error>> /\ UNCHANGED graphVars
    BY <2>3 DEF TypeOK, TodoOK, graphVars
  <2> QED
    BY <1>5, <2>2, <2>3 DEF RemoveInstalled
<1>6. CASE Bind(x)
  <2>1. CASE Fail("unbound_lifecycle") \/ Fail("inconsistent_authority")
    BY <1>2, <2>1, FailKeepsTypes
  <2>2. CASE Visited(x) /\ UNCHANGED <<resolution, policy, graphVars>>
    <3>1. nodes' \subseteq Node /\ edges' \subseteq Edge
      BY <2>2 DEF graphVars, TypeOK
    <3> QED
      BY <2>2, <3>1, VisitedKeepsTypes DEF graphVars
  <2> QED
    BY <1>6, <2>1, <2>2 DEF Bind
<1>7. CASE GatherCohort(x)
  <2>1. x \subseteq SelectionId
    BY <1>7 DEF GatherCohort, TodoOK
  <2>2. CASE Fail("inconsistent_authority") \/ IdentityFails
    BY <1>2, <2>2, FailKeepsTypes, IdentityFailsKeepsTypes
  <2>3. CASE /\ cohorts' = Append(cohorts, CohortOf(x))
             /\ runtime_component' =
                  [s \in DOMAIN runtime_component \cup x |->
                     IF s \in x THEN CohortIndex ELSE runtime_component[s]]
             /\ Visited(x)
             /\ UNCHANGED <<resolution, policy, nodes, edges>>
    <3>1. CohortOf(x) \in Cohort
      BY CohortOfType
    <3>2. cohorts' \in Seq(Cohort) /\ Len(cohorts') = Len(cohorts) + 1 /\ Len(cohorts) \in Nat
      BY <2>3, <3>1 DEF TypeOK
    <3>3. DOMAIN runtime_component' \subseteq SelectionId
      BY <2>1, <2>3 DEF TypeOK
    <3>4. runtime_component' \in [DOMAIN runtime_component' -> 1..Len(cohorts')]
      BY <2>3, <3>2 DEF TypeOK, CohortIndex
    <3> QED
      BY <1>7, <2>3, <3>2, <3>3, <3>4 DEF GatherCohort, TypeOK, TodoOK, Visited
  <2> QED
    BY <1>7, <2>2, <2>3 DEF GatherCohort
<1>8. CASE OrderRequirement(x)
  <2>1. RequirementEdges(x) \in SUBSET Edge
    BY <1>8, RequirementEdgesType DEF OrderRequirement, TodoOK
  <2> QED
    BY <1>8, <2>1, AddEdgesKeepsTypes DEF OrderRequirement
<1>9. CASE OrderPhases(x)
  <2>1. PhaseEdges(x) \in SUBSET Edge
    BY PhaseEdgesType
  <2> QED
    BY <1>9, <2>1, AddEdgesKeepsTypes DEF OrderPhases
<1>10. CASE OrderRemovalPhases(x)
  <2> DEFINE T == RemovalLifecycleTarget(x, resolution.installed[x])
  <2>1. T \in SUBSET Node
    BY DEF TypeOK, RemovalLifecycleTarget, RemoveOf, TargetUpgradeNode
  <2>2. RemovalPhaseEdges(x, T) \in SUBSET Edge
    BY <2>1, RemovalPhaseEdgesType
  <2>3. CASE AddEdges(x, RemovalPhaseEdges(x, T))
    BY <2>2, <2>3, AddEdgesKeepsTypes
  <2>4. CASE Fail("inconsistent_authority")
    BY <1>2, <2>4, FailKeepsTypes
  <2> QED
    BY <1>10, <2>3, <2>4 DEF OrderRemovalPhases
<1> QED
  BY <1>1, <1>3, <1>4, <1>5, <1>6, <1>7, <1>8, <1>9, <1>10

(* Each passage from one loop of compose() to the next keeps the types.    *)
LEMMA ProceedKeepsTypes ==
  ASSUME TypeInv, BeginCompose \/ Proceed
  PROVE  TypeInv'
<1>1. IsResolution(resolution)
  BY DEF TypeInv, TypeOK
<1>2. CASE BeginCompose
  BY <1>2, LoopKeepsTypes DEF BeginCompose, Stage
<1>3. CASE BeginGoals
  BY <1>3, LoopKeepsTypes DEF BeginGoals, Stage
<1>4. CASE BeginRemovals
  <2>1. Removals \subseteq Package
    BY <1>1 DEF Removals, TypeInv, TypeOK, Policy, NoPolicy, IsResolution
  <2> QED
    BY <1>4, <2>1, LoopKeepsTypes DEF BeginRemovals, Stage
<1>5. CASE BeginBind
  BY <1>5, LoopKeepsTypes DEF BeginBind, Stage
<1>6. CASE BeginCycles
  BY <1>6, LoopKeepsTypes DEF BeginCycles, Stage
<1>7. CASE RefuseCycle
  <2>1. "construction_cycle" \in ErrorValue /\ "lifecycle_cycle" \in ErrorValue
    BY DEF ErrorValue, Contract!ErrorCode
  <2> QED
    BY <1>7, <2>1, FailKeepsTypes DEF RefuseCycle
<1>8. CASE BeginCohorts
  <2>1. CyclicComponents(RuntimeGraph) \subseteq SUBSET SelectionId
    BY RuntimeComponentsType DEF TypeInv
  <2> QED
    BY <1>8, <2>1, LoopKeepsTypes DEF BeginCohorts, Stage
<1>9. CASE BeginRequirements
  BY <1>9, LoopKeepsTypes DEF BeginRequirements, Stage
<1>10. CASE BeginPhases
  BY <1>10, LoopKeepsTypes DEF BeginPhases, Stage
<1>11. CASE BeginRemovalPhases
  BY <1>11, LoopKeepsTypes DEF BeginRemovalPhases, Stage
<1>12. CASE Publish
  BY <1>12, LoopKeepsTypes, IdentityFailsKeepsTypes DEF Publish, Stage
<1> QED
  BY <1>2, <1>3, <1>4, <1>5, <1>6, <1>7, <1>8, <1>9, <1>10, <1>11, <1>12 DEF Proceed

LEMMA InitTypes == Init => TypeInv
<1> SUFFICES ASSUME Init PROVE TypeInv
  OBVIOUS
<1>1. IsResolution(resolution)
  BY ResolutionsAssumption DEF Init, RequestInit
<1>2. cohorts = <<>> /\ runtime_component = <<>>
  BY DEF Init
<1>3. cohorts \in Seq(Cohort) /\ DOMAIN runtime_component = {}
  BY <1>2
<1>4. runtime_component \in [DOMAIN runtime_component -> 1..Len(cohorts)]
  BY <1>2, <1>3
<1> QED
  BY <1>1, <1>3, <1>4 DEF Init, RequestInit, TypeInv, TypeOK, TodoOK

LEMMA StepTypes == TypeInv /\ [Next]_vars => TypeInv'
<1> SUFFICES ASSUME TypeInv, [Next]_vars PROVE TypeInv'
  OBVIOUS
<1>1. CASE UNCHANGED vars
  BY <1>1 DEF vars, TypeInv, TypeOK, TodoOK
<1>2. CASE Next
  BY <1>2, RequestKeepsTypes, IterateKeepsTypes, ProceedKeepsTypes DEF Next
<1> QED
  BY <1>1, <1>2

(* Through every stage of sealing and composing, every variable has its    *)
(* type, and a selection's cohort index points at a cohort that is there.  *)
THEOREM TypeCorrect == Spec => []TypeOK
<1>1. TypeInv => TypeOK
  BY DEF TypeInv
<1> QED
  BY InitTypes, StepTypes, <1>1, PTL DEF Spec

-----------------------------------------------------------------------------
(* Removals.  What makes the dereference in the removal loop safe, and a   *)
(* removal exclusive, is established element by element while the request  *)
(* is sealed and has to survive up to the removal loop; and each node has  *)
(* to be traced back to the reasons it was made for.                       *)

Removable(p) == IsInstalled(p) /\ ~SelectedForNonremovalTarget(p)

RemovalsSealed ==
  policy.mode = "remove_explicit" /\ stage # "failed" =>
    \A p \in policy.removals : (stage = "seal" /\ p \in todo) \/ Removable(p)

(* A selection that has the target do something with its package.          *)
Operates(s, p) ==
  /\ s \in DOMAIN resolution.selections
  /\ Selected(s).package = p
  /\ InTarget(resolution, s)
  /\ TargetOperationRequired(s)
  /\ FromCatalog(resolution, s) \/ ~RemovalOnly(s)

Justified(n) ==
  /\ n.action = "remove" => n.package \in Removals
  /\ n.environment = "target" /\ n.action \in {"install", "upgrade", "retain"} =>
       \E s \in DOMAIN resolution.selections : Operates(s, n.package)

RemovalInv ==
  /\ TypeInv
  /\ stage = "policy" => nodes = {}
  /\ stage # "undefined"
  /\ RemovalsSealed
  /\ stage = "removals" => todo \subseteq Removals
  /\ \A n \in nodes : Justified(n)

(* A request and its resolution do not change once it is sealed, nor does  *)
(* what the invariant says of them.                                        *)
LEMMA RequestFrame ==
  ASSUME UNCHANGED <<resolution, policy>>
  PROVE  /\ Removals' = Removals
         /\ \A p : Removable(p)' <=> Removable(p)
         /\ \A n : Justified(n)' <=> Justified(n)
<1>1. Removals' = Removals
  BY DEF Removals, DesiredTarget, Selected, TargetOperationRequired, RemovalOnly, Reasons
<1>2. \A p : Removable(p)' <=> Removable(p)
  BY DEF Removable, IsInstalled, SelectedForNonremovalTarget, Reasons
<1>3. \A s, p : Operates(s, p)' <=> Operates(s, p)
  BY DEF Operates, Selected, TargetOperationRequired, RemovalOnly, Reasons
<1> QED
  BY <1>1, <1>2, <1>3 DEF Justified

LEMMA QuietStep ==
  ASSUME RemovalInv, TypeInv', UNCHANGED <<resolution, policy, nodes>>,
         stage' \notin {"policy", "seal", "removals", "undefined"},
         stage \notin {"seal", "failed"} \/ stage' = "failed"
  PROVE  RemovalInv'
<1>1. UNCHANGED <<resolution, policy>>
  OBVIOUS
<1>2. /\ \A p : Removable(p)' <=> Removable(p)
      /\ \A n : Justified(n)' <=> Justified(n)
  BY <1>1, RequestFrame
<1>3. RemovalsSealed'
  BY <1>2 DEF RemovalInv, RemovalsSealed
<1> QED
  BY <1>2, <1>3 DEF RemovalInv

LEMMA FailedStep ==
  ASSUME TypeInv', NEW code, Fail(code)
  PROVE  RemovalInv'
BY DEF RemovalInv, RemovalsSealed, Fail, Throw

LEMMA AddJustifiedNodes ==
  ASSUME RemovalInv, TypeInv', NEW x, NEW N, AddNodes(x, N),
         \A n \in N : Justified(n), stage \notin {"policy", "seal"}
  PROVE  RemovalInv'
<1>1. CASE \E code : Fail(code)
  BY <1>1, FailedStep
<1>2. CASE nodes' = nodes \cup N /\ Visited(x) /\ UNCHANGED <<resolution, policy>>
  BY <1>2, RequestFrame DEF RemovalInv, RemovalsSealed, Visited
<1> QED
  BY <1>1, <1>2 DEF AddNodes, IdentityFails

LEMMA ClassifiedNodesJustified ==
  ASSUME TypeInv, NEW s \in DOMAIN resolution.selections,
         NEW n \in ClassifiedNodes(s)
  PROVE  Justified(n)
<1>1. PICK a \in IF FromCatalog(resolution, s) THEN CatalogActions(s)
                                              ELSE InstalledActions(s) :
        n = SelectedNode(s, a, "none")
  BY DEF ClassifiedNodes
<1>2. /\ n.action = a
      /\ n.package = Selected(s).package
      /\ n.environment = Selected(s).environment
  BY <1>1 DEF SelectedNode
<1>3. a # "remove"
  BY <1>1 DEF CatalogActions, InstalledActions, TargetAction
<1>4. ASSUME n.environment = "target", a \in {"install", "upgrade", "retain"}
      PROVE  Operates(s, n.package)
  <2>1. InTarget(resolution, s)
    BY <1>2, <1>4 DEF InTarget, Selected
  <2>2. TargetOperationRequired(s)
    BY <1>1, <1>4, <2>1 DEF CatalogActions, InstalledActions, TargetAction
  <2>3. FromCatalog(resolution, s) \/ ~RemovalOnly(s)
    BY <1>1 DEF InstalledActions
  <2> QED
    BY <1>2, <2>1, <2>2, <2>3 DEF Operates
<1> QED
  BY <1>2, <1>3, <1>4 DEF Justified

(* Nothing that is removed is missing: the argument of the code, whose     *)
(* pointer at src/composer.cpp:464 is checked at src/request.cpp:72.       *)
LEMMA RemovalsInstalled ==
  ASSUME RemovalInv, stage # "failed", stage # "seal"
  PROVE  Removals \subseteq DOMAIN resolution.installed
BY DEF RemovalInv, RemovalsSealed, Removable, IsInstalled, Removals

LEMMA RequestKeepsRemovals ==
  ASSUME RemovalInv, TypeInv', RequestNext, UNCHANGED graphVars
  PROVE  RemovalInv'
<1> USE DEF RemovalInv, graphVars
<1>1. ASSUME NEW p \in Policy, stage = "policy", Choose(p) PROVE RemovalInv'
  BY <1>1 DEF Choose, RemovalsSealed
<1>2. ASSUME NEW code, stage = "policy", Throw(code), UNCHANGED <<resolution, policy>>
      PROVE  RemovalInv'
  BY <1>2 DEF Throw, RemovalsSealed
<1>3. CASE PreserveUnselected
  BY <1>1, <1>3 DEF PreserveUnselected, Policy, Mode
<1>4. CASE ConvergeExact
  BY <1>1, <1>4 DEF ConvergeExact, Policy, Mode
<1>5. ASSUME NEW packages \in RemovalLists, RemoveExplicit(packages)
      PROVE  RemovalInv'
  <2>1. [mode |-> "remove_explicit", removals |-> RemovalSet(packages)] \in Policy
    BY <1>5, RemovalListsAssumption DEF RemovalSet, Policy, Mode
  <2> QED
    BY <1>1, <1>2, <1>5, <2>1 DEF RemoveExplicit
<1>6. ASSUME NEW p \in todo, CheckRemoval(p)
      PROVE  RemovalInv'
  <2>1. CASE \E code : Throw(code)
    BY <1>6, <2>1, QuietStep DEF CheckRemoval, Throw
  <2>2. CASE ~\E code : Throw(code)
    <3>1. todo' = todo \ {p} /\ UNCHANGED <<stage, error, resolution, policy>>
      BY <1>6, <2>2 DEF CheckRemoval
    <3>2. Removable(p)
      BY <1>6, <2>2 DEF CheckRemoval, Removable
    <3> QED
      BY <1>6, <3>1, <3>2, RequestFrame DEF CheckRemoval, RemovalsSealed
  <2> QED
    BY <2>1, <2>2
<1>7. CASE FinishSeal
  BY <1>7, RequestFrame DEF FinishSeal, RemovalsSealed, Throw
<1> QED
  BY <1>3, <1>4, <1>5, <1>6, <1>7 DEF RequestNext

LEMMA IterateKeepsRemovals ==
  ASSUME RemovalInv, TypeInv', Iterate
  PROVE  RemovalInv'
<1>1. PICK x \in todo :
        \/ Classify(x) \/ VisitGoal(x) \/ RemoveInstalled(x) \/ Bind(x)
        \/ GatherCohort(x) \/ OrderRequirement(x) \/ OrderPhases(x)
        \/ OrderRemovalPhases(x)
  BY DEF Iterate
<1>2. CASE Classify(x)
  <2>1. x \in DOMAIN resolution.selections
    BY <1>2 DEF Classify, RemovalInv, TypeInv, TodoOK
  <2>2. \A n \in ClassifiedNodes(x) : Justified(n)
    BY <2>1, ClassifiedNodesJustified DEF RemovalInv
  <2> QED
    BY <1>2, <2>2, AddJustifiedNodes DEF Classify
<1>3. CASE VisitGoal(x)
  <2>1. \A n \in GoalNodes(x) : n.action \in {"check", "lifecycle"}
    BY DEF GoalNodes, SelectedNode
  <2>2. CASE AddNodes(x, GoalNodes(x))
    BY <1>3, <2>1, <2>2, AddJustifiedNodes DEF VisitGoal, Justified
  <2>3. CASE \E code : Fail(code)
    BY <2>3, FailedStep
  <2> QED
    BY <1>3, <2>2, <2>3 DEF VisitGoal
<1>4. CASE RemoveInstalled(x)
  <2>1. x \in Removals
    BY <1>4 DEF RemoveInstalled, RemovalInv
  <2>2. AddNodes(x, {RemoveNode(x)})
    BY <1>4, <2>1, RemovalsInstalled DEF RemoveInstalled
  <2>3. Justified(RemoveNode(x))
    BY <2>1 DEF Justified, RemoveNode
  <2> QED
    BY <1>4, <2>2, <2>3, AddJustifiedNodes DEF RemoveInstalled
<1>5. ASSUME Bind(x) \/ GatherCohort(x) \/ OrderRequirement(x) \/ OrderPhases(x)
               \/ OrderRemovalPhases(x),
             ~\E code : Fail(code)
      PROVE  /\ UNCHANGED <<resolution, policy, nodes>>
             /\ stage \in {"bind", "cohorts", "requirements", "phases", "removal_phases"}
             /\ stage' = stage
  BY <1>5 DEF Bind, GatherCohort, OrderRequirement, OrderPhases, OrderRemovalPhases,
              AddEdges, IdentityFails, Visited, graphVars
<1>6. CASE Bind(x) \/ GatherCohort(x) \/ OrderRequirement(x) \/ OrderPhases(x)
             \/ OrderRemovalPhases(x)
  BY <1>5, <1>6, QuietStep, FailedStep
<1> QED
  BY <1>1, <1>2, <1>3, <1>4, <1>6

LEMMA ProceedKeepsRemovals ==
  ASSUME RemovalInv, TypeInv', BeginCompose \/ Proceed
  PROVE  RemovalInv'
<1>1. CASE BeginRemovals
  BY <1>1, RequestFrame
  DEF BeginRemovals, Loop, Enter, graphVars, RemovalInv, RemovalsSealed
<1>2. ASSUME BeginCompose \/ Proceed, ~BeginRemovals, ~\E code : Fail(code)
      PROVE  /\ UNCHANGED <<resolution, policy, nodes>>
             /\ stage \notin {"policy", "seal", "failed"}
             /\ stage' \notin {"policy", "seal", "removals", "undefined"}
  BY <1>2
  DEF Proceed, BeginCompose, BeginGoals, BeginBind, BeginCycles, RefuseCycle,
      BeginCohorts, BeginRequirements, BeginPhases, BeginRemovalPhases, Publish,
      IdentityFails, Loop, Enter, graphVars
<1>3. CASE ~BeginRemovals
  BY <1>2, <1>3, QuietStep, FailedStep
<1> QED
  BY <1>1, <1>3

LEMMA InitRemovals == Init => RemovalInv
BY InitTypes DEF Init, RequestInit, RemovalInv, RemovalsSealed, NoPolicy

LEMMA StepRemovals == RemovalInv /\ [Next]_vars => RemovalInv'
<1> SUFFICES ASSUME RemovalInv, [Next]_vars PROVE RemovalInv'
  OBVIOUS
<1>1. TypeInv'
  BY StepTypes DEF RemovalInv
<1>2. CASE UNCHANGED vars
  BY <1>1, <1>2, RequestFrame DEF vars, RemovalInv, RemovalsSealed
<1>3. CASE Next
  BY <1>1, <1>3, RequestKeepsRemovals, IterateKeepsRemovals, ProceedKeepsRemovals
  DEF Next
<1> QED
  BY <1>2, <1>3

(* Composition never dereferences a removal that is not installed: the     *)
(* unchecked pointer at src/composer.cpp:464 is safe for every request     *)
(* that seal() lets through.                                               *)
THEOREM RemovalDefined == Spec => []NoUndefinedRemoval
<1>1. RemovalInv => NoUndefinedRemoval
  BY DEF RemovalInv, NoUndefinedRemoval
<1> QED
  BY InitRemovals, StepRemovals, <1>1, PTL DEF Spec

(* The two copies of the removal-only test agree: what the target operates *)
(* on for any other reason is never a removal.                             *)
LEMMA RemovalsUnwanted ==
  ASSUME RemovalInv, stage \notin {"failed", "seal"},
         NEW p \in Removals, NEW s, Operates(s, p)
  PROVE  FromCatalog(resolution, s) /\ RemovalOnly(s)
<1>1. /\ s \in DOMAIN resolution.selections
      /\ resolution.selections[s].package = p
      /\ InTarget(resolution, s)
      /\ TargetOperationRequired(s)
      /\ FromCatalog(resolution, s) \/ ~RemovalOnly(s)
  BY DEF Operates, Selected
<1>2. SUFFICES ASSUME ~RemovalOnly(s) PROVE FALSE
  BY <1>1
<1>3. CASE policy.mode = "remove_explicit"
  <2>1. ~SelectedForNonremovalTarget(p)
    BY <1>3 DEF RemovalInv, RemovalsSealed, Removals, Removable
  <2>2. SelectedForNonremovalTarget(p)
    BY <1>1, <1>2 DEF SelectedForNonremovalTarget, RemovalOnly, Reasons
  <2> QED
    BY <2>1, <2>2
<1>4. CASE policy.mode = "converge_exact"
  <2>1. p \notin DesiredTarget
    BY <1>4 DEF Removals
  <2>2. p \in DesiredTarget
    BY <1>1, <1>2 DEF DesiredTarget, Selected
  <2> QED
    BY <2>1, <2>2
<1> QED
  BY <1>3, <1>4 DEF Removals

-----------------------------------------------------------------------------
(* What the loops have made so far.  For the elements a loop has visited   *)
(* each variable has all that they bring, and nothing else; what a loop    *)
(* checks of an element holds of those it has visited.                     *)

AfterRemovalPhases == {"complete"}
AfterPhases == {"removal_phases"} \cup AfterRemovalPhases
AfterRequirements == {"phases"} \cup AfterPhases
AfterCohorts == {"requirements"} \cup AfterRequirements
AfterCycles == {"cohorts"} \cup AfterCohorts
AfterBind == {"cycles"} \cup AfterCycles
AfterRemovals == {"bind"} \cup AfterBind
AfterGoals == {"removals"} \cup AfterRemovals
AfterClassify == {"goals"} \cup AfterGoals

(* What the named loop has visited of what it visits.                      *)
Seen(loop, later, all) ==
  IF stage = loop THEN all \ todo ELSE IF stage \in later THEN all ELSE {}

Programs == {n \in nodes : n.action = "lifecycle"}
RunCycles == CyclicComponents(RuntimeGraph)

SeenSelections == Seen("classify", AfterClassify, Selections)
SeenGoals == Seen("goals", AfterGoals, resolution.goals)
SeenRemovals == Seen("removals", AfterRemovals, Removals)
SeenPrograms == Seen("bind", AfterBind, Programs)
SeenCycles == Seen("cohorts", AfterCohorts, RunCycles)
SeenRequirements == Seen("requirements", AfterRequirements, resolution.edges)
SeenPhases == Seen("phases", AfterPhases, Selections)
SeenInstalled == Seen("removal_phases", AfterRemovalPhases, DOMAIN resolution.installed)

NodesOf(S, G, P) ==
  (UNION {ClassifiedNodes(s) : s \in S}) \cup (UNION {GoalNodes(g) : g \in G})
    \cup {RemoveNode(p) : p \in P}

Fates(p) == RemovalLifecycleTarget(p, resolution.installed[p])

OrderingOf(E, S, P) ==
  (UNION {RequirementEdges(e) : e \in E}) \cup (UNION {PhaseEdges(s) : s \in S})
    \cup (UNION {RemovalPhaseEdges(p, Fates(p)) : p \in P})

(* A goal that the loop over the goals let pass.                           *)
Sound(g) ==
  /\ g.selection \in Selections
  /\ g.scope = "check" => CheckAuthorityError(g.selection) = "none"
  /\ \A n \in GoalNodes(g) : NodeAdmitted(n)

Bound(n) == \A s \in n.selection : BindTargets(n, s) # {}

OneFate(p) == \A t, u \in Fates(p) : t = u

(* The cohorts found are those of the cycles D, each under one index that  *)
(* all of its selections have and no other selection has.                  *)
CohortsMatch(D) ==
  /\ DOMAIN runtime_component = UNION D
  /\ \A C \in D : \E i \in DOMAIN cohorts :
       cohorts[i] = CohortOf(C) /\ \A s \in C : runtime_component[s] = i
  /\ \A i \in DOMAIN cohorts : \E C \in D :
       cohorts[i] = CohortOf(C) /\ \A s \in C : runtime_component[s] = i
  /\ \A C \in D : /\ CohortOf(C).members # {}
                  /\ CohortOf(C).witnesses \cap resolution.repeated = {}

PolicyMade ==
  /\ stage = "policy" => policy = NoPolicy
  /\ stage \notin {"policy", "failed"} => policy \in Policy
  /\ policy.mode # "remove_explicit" => policy.removals = {}

NodesMade ==
  /\ nodes = NodesOf(SeenSelections, SeenGoals, SeenRemovals)
  /\ \A g \in SeenGoals : Sound(g)

ProgramsBound == \A n \in SeenPrograms : Bound(n)

CyclesRefused ==
  stage \in AfterCycles => ~HasCycle(ConstructionGraph) /\ ~HasCycle(LifecycleGraph)

EdgesMade ==
  /\ edges = OrderingOf(SeenRequirements, SeenPhases, SeenInstalled)
  /\ \A p \in SeenInstalled : OneFate(p)

WorkLeft ==
  /\ stage = "bind" => todo \subseteq Programs
  /\ stage = "cohorts" => todo \subseteq RunCycles

Made ==
  /\ PolicyMade
  /\ WorkLeft
  /\ NodesMade
  /\ ProgramsBound
  /\ CyclesRefused
  /\ CohortsMatch(SeenCycles)
  /\ EdgesMade

ContractInv == RemovalInv /\ Made

-----------------------------------------------------------------------------
(* What a step that leaves the request, the nodes or the cohorts alone     *)
(* leaves alone with them.                                                 *)

LEMMA RequestFixed ==
  ASSUME UNCHANGED <<resolution, policy>>
  PROVE  /\ Removals' = Removals
         /\ \A s : ClassifiedNodes(s)' = ClassifiedNodes(s)
         /\ \A g : GoalNodes(g)' = GoalNodes(g)
         /\ \A g : Sound(g)' <=> Sound(g)
         /\ RunCycles' = RunCycles
         /\ ConstructionGraph' = ConstructionGraph
         /\ LifecycleGraph' = LifecycleGraph
<1>1. Removals' = Removals
  BY RequestFrame
<1>2. \A s : Selected(s)' = Selected(s)
  BY DEF Selected
<1>3. \A s, action, lifecycle :
        SelectedNode(s, action, lifecycle)' = SelectedNode(s, action, lifecycle)
  BY <1>2 DEF SelectedNode
<1>4. \A s : /\ TargetOperationRequired(s)' <=> TargetOperationRequired(s)
             /\ RemovalOnly(s)' <=> RemovalOnly(s)
             /\ ExplicitConstruction(s)' <=> ExplicitConstruction(s)
             /\ ExactInstalled(s)' <=> ExactInstalled(s)
  BY <1>2 DEF TargetOperationRequired, RemovalOnly, ExplicitConstruction, ExactInstalled,
              Reasons
<1>5. \A s : TargetAction(s)' = TargetAction(s)
  BY <1>2, <1>4 DEF TargetAction
<1>6. \A s : CatalogActions(s)' = CatalogActions(s)
  BY <1>4, <1>5 DEF CatalogActions
<1>7. \A s : InstalledActions(s)' = InstalledActions(s)
  BY <1>4 DEF InstalledActions
<1>8. \A s : ClassifiedNodes(s)' = ClassifiedNodes(s)
  BY <1>3, <1>6, <1>7 DEF ClassifiedNodes
<1>9. \A g : GoalNodes(g)' = GoalNodes(g)
  BY <1>3 DEF GoalNodes
<1>10. \A s : CheckAuthorityError(s)' = CheckAuthorityError(s)
  BY <1>2 DEF CheckAuthorityError
<1>11. \A n : NodeAdmitted(n)' <=> NodeAdmitted(n)
  BY DEF NodeAdmitted
<1>12. \A g : Sound(g)' <=> Sound(g)
  BY <1>9, <1>10, <1>11 DEF Sound, Selections
<1>13. \A S : EdgesOf(S)' = EdgesOf(S)
  BY DEF EdgesOf
<1>14. RunCycles' = RunCycles
  BY <1>13 DEF RunCycles, RuntimeGraph
<1>15. ConstructionGraph' = ConstructionGraph
  BY <1>13 DEF ConstructionGraph
<1>16. LifecycleGraph' = LifecycleGraph
  BY <1>13 DEF LifecycleGraph
<1> QED
  BY <1>1, <1>8, <1>9, <1>12, <1>14, <1>15, <1>16

LEMMA NodesFixed ==
  ASSUME UNCHANGED <<resolution, nodes>>
  PROVE  /\ Programs' = Programs
         /\ \A n : Bound(n)' <=> Bound(n)
         /\ \A s : CompletionNode(s)' = CompletionNode(s)
         /\ \A C : CohortOf(C)' = CohortOf(C)
         /\ \A p : Fates(p)' = Fates(p)
         /\ \A s : PhaseEdges(s)' = PhaseEdges(s)
         /\ \A p, T : RemovalPhaseEdges(p, T)' = RemovalPhaseEdges(p, T)
<1>1. Programs' = Programs
  BY DEF Programs
<1>2. \A s, action : Lookup(s, action)' = Lookup(s, action)
  BY DEF Lookup
<1>3. \A s, action : LookupLifecycle(s, action)' = LookupLifecycle(s, action)
  BY <1>2 DEF LookupLifecycle
<1>4. \A s : MutationOf(s)' = MutationOf(s)
  BY <1>2 DEF MutationOf
<1>5. \A p, version : RemovalLifecycleTarget(p, version)' = RemovalLifecycleTarget(p, version)
  BY DEF RemovalLifecycleTarget, RemoveOf, TargetUpgradeNode
<1>6. \A n, s : BindTargets(n, s)' = BindTargets(n, s)
  BY <1>4, <1>5 DEF BindTargets, Selected
<1>7. \A n : Bound(n)' <=> Bound(n)
  BY <1>6 DEF Bound
<1>8. \A s : CompletionNode(s)' = CompletionNode(s)
  BY DEF CompletionNode
<1>9. \A C : CohortOf(C)' = CohortOf(C)
  BY <1>8 DEF CohortOf, EdgesOf
<1>10. \A p : Fates(p)' = Fates(p)
  BY <1>5 DEF Fates
<1>11. \A s : PhaseEdges(s)' = PhaseEdges(s)
  BY <1>2, <1>3, <1>4 DEF PhaseEdges
<1>12. \A p, T : RemovalPhaseEdges(p, T)' = RemovalPhaseEdges(p, T)
  BY <1>3 DEF RemovalPhaseEdges, InstalledSelections, Selected
<1> QED
  BY <1>1, <1>7, <1>8, <1>9, <1>10, <1>11, <1>12

LEMMA CohortsFixed ==
  ASSUME UNCHANGED <<resolution, nodes, cohorts, runtime_component>>
  PROVE  /\ \A D : CohortsMatch(D)' <=> CohortsMatch(D)
         /\ \A e : RequirementEdges(e)' = RequirementEdges(e)
<1>1. /\ \A s : CompletionNode(s)' = CompletionNode(s)
      /\ \A C : CohortOf(C)' = CohortOf(C)
  BY NodesFixed
<1>2. \A s, action : Lookup(s, action)' = Lookup(s, action)
  BY DEF Lookup
<1>3. \A e : Consumer(e)' = Consumer(e)
  BY <1>2 DEF Consumer, LookupLifecycle
<1>4. \A s : RuntimeBoundary(s)' = RuntimeBoundary(s)
  BY <1>1 DEF RuntimeBoundary
<1>5. \A e : SameCohort(e)' <=> SameCohort(e)
  BY DEF SameCohort
<1>6. \A e : RequirementPairs(e)' = RequirementPairs(e)
  BY <1>1, <1>3, <1>4, <1>5 DEF RequirementPairs
<1>7. \A e : RequirementEdges(e)' = RequirementEdges(e)
  BY <1>6 DEF RequirementEdges
<1>8. \A D : CohortsMatch(D)' <=> CohortsMatch(D)
  BY <1>1 DEF CohortsMatch
<1> QED
  BY <1>7, <1>8

-----------------------------------------------------------------------------
(* Before composition starts, and after an error, nothing is made.         *)

Idle == {"policy", "seal", "sealed", "failed"}

LEMMA IdleMadeNothing ==
  ASSUME Made, stage \in Idle
  PROVE  nodes = {} /\ edges = {} /\ DOMAIN cohorts = {} /\ DOMAIN runtime_component = {}
<1>1. \A loop, later, all : loop \notin Idle /\ later \cap Idle = {} =>
        Seen(loop, later, all) = {}
  BY DEF Seen
<1>2. /\ SeenSelections = {} /\ SeenGoals = {} /\ SeenRemovals = {} /\ SeenCycles = {}
      /\ SeenRequirements = {} /\ SeenPhases = {} /\ SeenInstalled = {}
  BY <1>1
  DEF SeenSelections, SeenGoals, SeenRemovals, SeenCycles, SeenRequirements, SeenPhases,
      SeenInstalled, AfterRemovalPhases, AfterPhases, AfterRequirements, AfterCohorts,
      AfterCycles, AfterBind, AfterRemovals, AfterGoals, AfterClassify, Idle
<1> QED
  BY <1>2 DEF Made, NodesMade, NodesOf, EdgesMade, OrderingOf, CohortsMatch

LEMMA NothingIsMade ==
  ASSUME stage' \in Idle, PolicyMade', nodes' = {}, edges' = {}, DOMAIN cohorts' = {},
         DOMAIN runtime_component' = {}
  PROVE  Made'
<1>1. /\ SeenSelections' = {} /\ SeenGoals' = {} /\ SeenRemovals' = {}
      /\ SeenPrograms' = {} /\ SeenCycles' = {}
      /\ SeenRequirements' = {} /\ SeenPhases' = {} /\ SeenInstalled' = {}
      /\ stage' \notin AfterCycles
  BY DEF Seen, SeenSelections, SeenGoals, SeenRemovals, SeenPrograms, SeenCycles,
      SeenRequirements, SeenPhases, SeenInstalled, AfterRemovalPhases, AfterPhases,
      AfterRequirements, AfterCohorts, AfterCycles, AfterBind, AfterRemovals, AfterGoals,
      AfterClassify, Idle
<1>2. NodesMade'
  BY <1>1 DEF NodesMade, NodesOf
<1>3. EdgesMade'
  BY <1>1 DEF EdgesMade, OrderingOf
<1>4. CohortsMatch(SeenCycles)'
  BY <1>1 DEF CohortsMatch
<1> QED
  BY <1>1, <1>2, <1>3, <1>4 DEF Made, ProgramsBound, CyclesRefused, WorkLeft, Idle

LEMMA FailMadeNothing ==
  ASSUME Made, NEW code, Fail(code)
  PROVE  Made'
<1>1. PolicyMade'
  BY DEF Fail, Throw, Made, PolicyMade
<1>2. cohorts' = <<>> /\ runtime_component' = <<>>
  BY DEF Fail
<1>3. DOMAIN cohorts' = {} /\ DOMAIN runtime_component' = {}
  BY <1>2
<1> QED
  BY <1>1, <1>3, NothingIsMade DEF Fail, Throw, Idle

(* Making a policy and sealing the request make nothing of the graph.      *)
LEMMA RequestMakesNothing ==
  ASSUME ContractInv, RequestNext, UNCHANGED graphVars
  PROVE  Made'
<1>1. stage \in {"policy", "seal"} /\ stage' \in Idle
  BY DEF RequestNext, PreserveUnselected, ConvergeExact, RemoveExplicit, CheckRemoval,
         FinishSeal, Choose, Throw, Idle
<1>2. PolicyMade
  BY DEF ContractInv, Made
<1>3. ASSUME NEW q \in Policy, Choose(q), q.mode # "remove_explicit" => q.removals = {}
      PROVE  PolicyMade'
  BY <1>3 DEF PolicyMade, Choose
<1>4. ASSUME PreserveUnselected \/ ConvergeExact PROVE PolicyMade'
  BY <1>3, <1>4 DEF PreserveUnselected, ConvergeExact, Policy, Mode
<1>5. ASSUME NEW packages \in RemovalLists, RemoveExplicit(packages) PROVE PolicyMade'
  <2>1. [mode |-> "remove_explicit", removals |-> RemovalSet(packages)] \in Policy
    BY <1>5, RemovalListsAssumption DEF RemovalSet, Policy, Mode
  <2>2. CASE Choose([mode |-> "remove_explicit", removals |-> RemovalSet(packages)])
    BY <1>3, <2>1, <2>2
  <2>3. CASE \E code : Throw(code) /\ UNCHANGED <<resolution, policy>>
    BY <1>2, <2>3 DEF PolicyMade, Throw
  <2> QED
    BY <1>5, <2>2, <2>3 DEF RemoveExplicit
<1>6. ASSUME (\E q \in todo : CheckRemoval(q)) \/ FinishSeal PROVE PolicyMade'
  BY <1>2, <1>6 DEF PolicyMade, CheckRemoval, FinishSeal, Throw
<1>7. PolicyMade'
  BY <1>4, <1>5, <1>6 DEF RequestNext
<1>8. nodes = {} /\ edges = {} /\ DOMAIN cohorts = {} /\ DOMAIN runtime_component = {}
  BY <1>1, IdleMadeNothing DEF ContractInv, Idle
<1> QED
  BY <1>1, <1>7, <1>8, NothingIsMade DEF graphVars

-----------------------------------------------------------------------------
(* From one loop to the next: what a loop has left nothing of it has seen  *)
(* all of.                                                                 *)

LEMMA LoopKeepsMade ==
  ASSUME Made, BeginCompose \/ Proceed, ~\E code : Fail(code)
  PROVE  Made'
<1>1. /\ UNCHANGED <<resolution, policy, nodes, edges, cohorts, runtime_component>>
      /\ \/ /\ stage = "sealed" /\ todo = {}
            /\ stage' = "classify" /\ todo' = Selections
         \/ /\ stage = "classify" /\ todo = {}
            /\ stage' = "goals" /\ todo' = resolution.goals
         \/ stage = "goals" /\ todo = {} /\ stage' = "removals" /\ todo' = Removals
         \/ stage = "removals" /\ todo = {} /\ stage' = "bind" /\ todo' = Programs
         \/ stage = "bind" /\ todo = {} /\ stage' = "cycles" /\ todo' = {}
         \/ /\ stage = "cycles" /\ stage' = "cohorts" /\ todo' = RunCycles
            /\ ~HasCycle(ConstructionGraph) /\ ~HasCycle(LifecycleGraph)
         \/ /\ stage = "cohorts" /\ todo = {}
            /\ stage' = "requirements" /\ todo' = resolution.edges
         \/ /\ stage = "requirements" /\ todo = {}
            /\ stage' = "phases" /\ todo' = Selections
         \/ /\ stage = "phases" /\ todo = {}
            /\ stage' = "removal_phases" /\ todo' = DOMAIN resolution.installed
         \/ stage = "removal_phases" /\ todo = {} /\ stage' = "complete" /\ todo' = {}
  BY DEF Proceed, BeginCompose, BeginGoals, BeginRemovals, BeginBind, BeginCycles,
         RefuseCycle, BeginCohorts, BeginRequirements, BeginPhases, BeginRemovalPhases,
         Publish, IdentityFails, Loop, Enter, graphVars, Selections, Programs, RunCycles
<1>2. UNCHANGED <<resolution, policy>>
  BY <1>1
<1>3. UNCHANGED <<resolution, nodes>>
  BY <1>1
<1>4. UNCHANGED <<resolution, nodes, cohorts, runtime_component>>
  BY <1>1
<1>5. Removals' = Removals /\ RunCycles' = RunCycles /\ Programs' = Programs
  BY <1>2, <1>3, RequestFixed, NodesFixed
<1> USE DEF Seen, AfterRemovalPhases, AfterPhases, AfterRequirements, AfterCohorts,
            AfterCycles, AfterBind, AfterRemovals, AfterGoals, AfterClassify
<1>6. SeenSelections' = SeenSelections /\ SeenPhases' = SeenPhases
  BY <1>1 DEF SeenSelections, SeenPhases, Selections
<1>7. SeenGoals' = SeenGoals /\ SeenRequirements' = SeenRequirements
        /\ SeenInstalled' = SeenInstalled
  BY <1>1 DEF SeenGoals, SeenRequirements, SeenInstalled
<1>8. SeenRemovals' = SeenRemovals /\ SeenPrograms' = SeenPrograms
  BY <1>1, <1>5 DEF SeenRemovals, SeenPrograms
<1>9. SeenCycles' = SeenCycles
  BY <1>1, <1>5 DEF SeenCycles
<1>10. CyclesRefused'
  <2>1. HasCycle(ConstructionGraph)' = HasCycle(ConstructionGraph)
    BY <1>2, RequestFixed DEF HasCycle, CyclicComponents, StronglyConnected
  <2>2. HasCycle(LifecycleGraph)' = HasCycle(LifecycleGraph)
    BY <1>2, RequestFixed DEF HasCycle, CyclicComponents, StronglyConnected
  <2> QED
    BY <1>1, <2>1, <2>2 DEF Made, CyclesRefused
<1>11. PolicyMade'
  BY <1>1 DEF Made, PolicyMade
<1>12. NodesMade'
  BY <1>1, <1>2, <1>6, <1>7, <1>8, RequestFixed DEF Made, NodesMade, NodesOf
<1>13. ProgramsBound'
  BY <1>3, <1>8, NodesFixed DEF Made, ProgramsBound
<1>14. CohortsMatch(SeenCycles)'
  BY <1>4, <1>9, CohortsFixed DEF Made
<1>15. EdgesMade'
  BY <1>1, <1>3, <1>4, <1>6, <1>7, NodesFixed, CohortsFixed
  DEF Made, EdgesMade, OrderingOf, OneFate
<1>16. WorkLeft'
  BY <1>1, <1>5 DEF WorkLeft
<1> QED
  BY <1>10, <1>11, <1>12, <1>13, <1>14, <1>15, <1>16 DEF Made

-----------------------------------------------------------------------------
(* An iteration adds what its element brings to what its loop made, and    *)
(* the other loops see nothing of it.                                      *)

LEMMA VisitSees ==
  ASSUME TodoOK, NEW x \in todo, Visited(x), UNCHANGED <<resolution, policy>>
  PROVE  /\ stage = "classify" => SeenSelections' = SeenSelections \cup {x}
         /\ stage # "classify" => SeenSelections' = SeenSelections
         /\ stage = "goals" => SeenGoals' = SeenGoals \cup {x}
         /\ stage # "goals" => SeenGoals' = SeenGoals
         /\ stage = "phases" => SeenPhases' = SeenPhases \cup {x}
         /\ stage # "phases" => SeenPhases' = SeenPhases
         /\ stage = "requirements" => SeenRequirements' = SeenRequirements \cup {x}
         /\ stage # "requirements" => SeenRequirements' = SeenRequirements
         /\ stage = "removal_phases" => SeenInstalled' = SeenInstalled \cup {x}
         /\ stage # "removal_phases" => SeenInstalled' = SeenInstalled
         /\ stage # "removals" => SeenRemovals' = SeenRemovals
         /\ stage = "removals" /\ x \in Removals => SeenRemovals' = SeenRemovals \cup {x}
         /\ stage # "cohorts" => SeenCycles' = SeenCycles
         /\ stage = "cohorts" /\ x \in RunCycles => SeenCycles' = SeenCycles \cup {x}
         /\ stage \in {"classify", "goals", "removals"} => SeenPrograms' = {}
         /\ nodes' = nodes /\ stage # "bind" => SeenPrograms' = SeenPrograms
         /\ nodes' = nodes /\ stage = "bind" => SeenPrograms' \subseteq SeenPrograms \cup {x}
<1> USE DEF Seen, AfterRemovalPhases, AfterPhases, AfterRequirements, AfterCohorts,
            AfterCycles, AfterBind, AfterRemovals, AfterGoals, AfterClassify, TodoOK, Visited
<1>1. Removals' = Removals /\ RunCycles' = RunCycles
  BY RequestFixed
<1>2. nodes' = nodes => Programs' = Programs
  BY DEF Programs
<1>3. /\ stage = "classify" => SeenSelections' = SeenSelections \cup {x}
      /\ stage # "classify" => SeenSelections' = SeenSelections
      /\ stage = "phases" => SeenPhases' = SeenPhases \cup {x}
      /\ stage # "phases" => SeenPhases' = SeenPhases
  BY DEF SeenSelections, SeenPhases, Selections
<1>4. /\ stage = "goals" => SeenGoals' = SeenGoals \cup {x}
      /\ stage # "goals" => SeenGoals' = SeenGoals
      /\ stage = "requirements" => SeenRequirements' = SeenRequirements \cup {x}
      /\ stage # "requirements" => SeenRequirements' = SeenRequirements
      /\ stage = "removal_phases" => SeenInstalled' = SeenInstalled \cup {x}
      /\ stage # "removal_phases" => SeenInstalled' = SeenInstalled
  BY DEF SeenGoals, SeenRequirements, SeenInstalled
<1>5. /\ stage # "removals" => SeenRemovals' = SeenRemovals
      /\ stage = "removals" /\ x \in Removals => SeenRemovals' = SeenRemovals \cup {x}
  BY <1>1 DEF SeenRemovals
<1>6. /\ stage # "cohorts" => SeenCycles' = SeenCycles
      /\ stage = "cohorts" /\ x \in RunCycles => SeenCycles' = SeenCycles \cup {x}
  BY <1>1 DEF SeenCycles
<1>7. /\ stage \in {"classify", "goals", "removals"} => SeenPrograms' = {}
      /\ nodes' = nodes /\ stage # "bind" => SeenPrograms' = SeenPrograms
      /\ nodes' = nodes /\ stage = "bind" => SeenPrograms' \subseteq SeenPrograms \cup {x}
  BY <1>2 DEF SeenPrograms
<1> QED
  BY <1>3, <1>4, <1>5, <1>6, <1>7

(* In the first three loops there are no edges and no cohorts yet.         *)
LEMMA NodesLoopSeesNoMore ==
  ASSUME stage \in {"classify", "goals", "removals"}
  PROVE  SeenCycles = {} /\ SeenRequirements = {} /\ SeenPhases = {} /\ SeenInstalled = {}
BY DEF SeenCycles, SeenRequirements, SeenPhases, SeenInstalled, Seen,
       AfterRemovalPhases, AfterPhases, AfterRequirements, AfterCohorts

LEMMA NodesOfOneMore ==
  ASSUME NEW x
  PROVE  /\ \A S, G, P : NodesOf(S \cup {x}, G, P) = NodesOf(S, G, P) \cup ClassifiedNodes(x)
         /\ \A S, G, P : NodesOf(S, G \cup {x}, P) = NodesOf(S, G, P) \cup GoalNodes(x)
         /\ \A S, G, P : NodesOf(S, G, P \cup {x}) = NodesOf(S, G, P) \cup {RemoveNode(x)}
BY DEF NodesOf

LEMMA OrderingOfOneMore ==
  ASSUME NEW x
  PROVE  /\ \A E, S, P : OrderingOf(E \cup {x}, S, P)
                           = OrderingOf(E, S, P) \cup RequirementEdges(x)
         /\ \A E, S, P : OrderingOf(E, S \cup {x}, P)
                           = OrderingOf(E, S, P) \cup PhaseEdges(x)
         /\ \A E, S, P : OrderingOf(E, S, P \cup {x})
                           = OrderingOf(E, S, P) \cup RemovalPhaseEdges(x, Fates(x))
BY DEF OrderingOf

LEMMA AddNodesKeepsMade ==
  ASSUME Made, TodoOK, NEW x \in todo, NEW N, AddNodes(x, N),
         stage \in {"classify", "goals", "removals"},
         stage = "classify" => N = ClassifiedNodes(x),
         stage = "goals" => N = GoalNodes(x) /\ ((\A n \in N : NodeAdmitted(n)) => Sound(x)),
         stage = "removals" => N = {RemoveNode(x)} /\ x \in Removals
  PROVE  Made'
<1>1. CASE \E code : Fail(code)
  BY <1>1, FailMadeNothing
<1>2. CASE ~\E code : Fail(code)
  <2>1. /\ \A n \in N : NodeAdmitted(n)
        /\ nodes' = nodes \cup N
        /\ Visited(x)
        /\ UNCHANGED <<resolution, policy, edges, cohorts, runtime_component>>
        /\ UNCHANGED <<resolution, policy>>
    BY <1>2 DEF AddNodes, IdentityFails
  <2>2. PolicyMade'
    BY <2>1 DEF Made, PolicyMade, Visited
  <2>3. NodesMade'
    <3>1. \A g \in SeenGoals' : Sound(g)'
      BY <2>1, VisitSees, RequestFixed DEF Made, NodesMade
    <3>2. \A S, G, P : NodesOf(S, G, P)' = NodesOf(S, G, P)
      BY <2>1, RequestFixed DEF NodesOf, RemoveNode
    <3>3. nodes' = NodesOf(SeenSelections', SeenGoals', SeenRemovals')
      <4>1. CASE stage = "classify"
        <5>1. /\ SeenSelections' = SeenSelections \cup {x}
              /\ SeenGoals' = SeenGoals /\ SeenRemovals' = SeenRemovals
          BY <2>1, <4>1, VisitSees
        <5>2. NodesOf(SeenSelections \cup {x}, SeenGoals, SeenRemovals)
                = NodesOf(SeenSelections, SeenGoals, SeenRemovals) \cup ClassifiedNodes(x)
          BY NodesOfOneMore
        <5> QED
          BY <2>1, <4>1, <5>1, <5>2 DEF Made, NodesMade
      <4>2. CASE stage = "goals"
        <5>1. /\ SeenGoals' = SeenGoals \cup {x}
              /\ SeenSelections' = SeenSelections /\ SeenRemovals' = SeenRemovals
          BY <2>1, <4>2, VisitSees
        <5>2. NodesOf(SeenSelections, SeenGoals \cup {x}, SeenRemovals)
                = NodesOf(SeenSelections, SeenGoals, SeenRemovals) \cup GoalNodes(x)
          BY NodesOfOneMore
        <5> QED
          BY <2>1, <4>2, <5>1, <5>2 DEF Made, NodesMade
      <4>3. CASE stage = "removals"
        <5>1. /\ SeenRemovals' = SeenRemovals \cup {x}
              /\ SeenSelections' = SeenSelections /\ SeenGoals' = SeenGoals
          BY <2>1, <4>3, VisitSees
        <5>2. NodesOf(SeenSelections, SeenGoals, SeenRemovals \cup {x})
                = NodesOf(SeenSelections, SeenGoals, SeenRemovals) \cup {RemoveNode(x)}
          BY NodesOfOneMore
        <5> QED
          BY <2>1, <4>3, <5>1, <5>2 DEF Made, NodesMade
      <4> QED
        BY <4>1, <4>2, <4>3
    <3> QED
      BY <3>1, <3>2, <3>3 DEF NodesMade
  <2>4. stage' \in {"classify", "goals", "removals"}
    BY <2>1 DEF Visited
  <2>5. /\ SeenCycles' = {} /\ SeenRequirements' = {} /\ SeenPhases' = {}
        /\ SeenInstalled' = {} /\ SeenPrograms' = {}
    BY <2>1, VisitSees, NodesLoopSeesNoMore
  <2>6. DOMAIN runtime_component = {} /\ DOMAIN cohorts = {} /\ edges = {}
    BY NodesLoopSeesNoMore DEF Made, CohortsMatch, EdgesMade, OrderingOf
  <2>7. CyclesRefused'
    BY <2>4 DEF CyclesRefused, AfterRemovalPhases, AfterPhases, AfterRequirements,
                AfterCohorts, AfterCycles
  <2>8. CohortsMatch(SeenCycles)'
    BY <2>1, <2>5, <2>6 DEF CohortsMatch
  <2>9. EdgesMade'
    BY <2>1, <2>5, <2>6 DEF EdgesMade, OrderingOf
  <2> QED
    BY <2>2, <2>3, <2>4, <2>5, <2>7, <2>8, <2>9 DEF Made, ProgramsBound, WorkLeft
<1> QED
  BY <1>1, <1>2

LEMMA AddEdgesKeepsMade ==
  ASSUME Made, TodoOK, NEW x \in todo, NEW E, AddEdges(x, E),
         stage \in {"requirements", "phases", "removal_phases"},
         stage = "requirements" => E = RequirementEdges(x),
         stage = "phases" => E = PhaseEdges(x),
         stage = "removal_phases" => E = RemovalPhaseEdges(x, Fates(x)) /\ OneFate(x)
  PROVE  Made'
<1>1. CASE \E code : Fail(code)
  BY <1>1, FailMadeNothing
<1>2. CASE ~\E code : Fail(code)
  <2>1. /\ edges' = edges \cup E
        /\ Visited(x)
        /\ UNCHANGED <<resolution, policy, nodes, cohorts, runtime_component>>
        /\ UNCHANGED <<resolution, policy>>
        /\ UNCHANGED <<resolution, nodes>>
        /\ UNCHANGED <<resolution, nodes, cohorts, runtime_component>>
    BY <1>2 DEF AddEdges, IdentityFails
  <2>2. /\ SeenSelections' = SeenSelections /\ SeenGoals' = SeenGoals
        /\ SeenRemovals' = SeenRemovals /\ SeenPrograms' = SeenPrograms
        /\ SeenCycles' = SeenCycles
    BY <2>1, VisitSees
  <2>3. PolicyMade'
    BY <2>1 DEF Made, PolicyMade, Visited
  <2>4. NodesMade'
    BY <2>1, <2>2, RequestFixed DEF Made, NodesMade, NodesOf, RemoveNode
  <2>5. ProgramsBound'
    BY <2>1, <2>2, NodesFixed DEF Made, ProgramsBound
  <2>6. CohortsMatch(SeenCycles)'
    BY <2>1, <2>2, CohortsFixed DEF Made
  <2>7. CyclesRefused'
    <3>1. /\ HasCycle(ConstructionGraph)' = HasCycle(ConstructionGraph)
          /\ HasCycle(LifecycleGraph)' = HasCycle(LifecycleGraph)
      BY <2>1, RequestFixed DEF HasCycle, CyclicComponents, StronglyConnected
    <3> QED
      BY <2>1, <3>1 DEF Made, CyclesRefused, Visited
  <2>8. /\ \A F, S, P : OrderingOf(F, S, P)' = OrderingOf(F, S, P)
        /\ \A p : OneFate(p)' <=> OneFate(p)
    BY <2>1, NodesFixed, CohortsFixed DEF OrderingOf, OneFate
  <2>9. \A p \in SeenInstalled' : OneFate(p)'
    BY <2>1, <2>8, VisitSees DEF Made, EdgesMade
  <2>10. edges' = OrderingOf(SeenRequirements', SeenPhases', SeenInstalled')
    <3>1. CASE stage = "requirements"
      <4>1. /\ SeenRequirements' = SeenRequirements \cup {x}
            /\ SeenPhases' = SeenPhases /\ SeenInstalled' = SeenInstalled
        BY <2>1, <3>1, VisitSees
      <4>2. OrderingOf(SeenRequirements \cup {x}, SeenPhases, SeenInstalled)
              = OrderingOf(SeenRequirements, SeenPhases, SeenInstalled)
                  \cup RequirementEdges(x)
        BY OrderingOfOneMore
      <4> QED
        BY <2>1, <3>1, <4>1, <4>2 DEF Made, EdgesMade
    <3>2. CASE stage = "phases"
      <4>1. /\ SeenPhases' = SeenPhases \cup {x}
            /\ SeenRequirements' = SeenRequirements /\ SeenInstalled' = SeenInstalled
        BY <2>1, <3>2, VisitSees
      <4>2. OrderingOf(SeenRequirements, SeenPhases \cup {x}, SeenInstalled)
              = OrderingOf(SeenRequirements, SeenPhases, SeenInstalled)
                  \cup PhaseEdges(x)
        BY OrderingOfOneMore
      <4> QED
        BY <2>1, <3>2, <4>1, <4>2 DEF Made, EdgesMade
    <3>3. CASE stage = "removal_phases"
      <4>1. /\ SeenInstalled' = SeenInstalled \cup {x}
            /\ SeenRequirements' = SeenRequirements /\ SeenPhases' = SeenPhases
        BY <2>1, <3>3, VisitSees
      <4>2. OrderingOf(SeenRequirements, SeenPhases, SeenInstalled \cup {x})
              = OrderingOf(SeenRequirements, SeenPhases, SeenInstalled)
                  \cup RemovalPhaseEdges(x, Fates(x))
        BY OrderingOfOneMore
      <4> QED
        BY <2>1, <3>3, <4>1, <4>2 DEF Made, EdgesMade
    <3> QED
      BY <3>1, <3>2, <3>3
  <2>11. EdgesMade'
    BY <2>8, <2>9, <2>10 DEF EdgesMade
  <2> QED
    BY <2>1, <2>3, <2>4, <2>5, <2>6, <2>7, <2>11 DEF Made, WorkLeft, Visited
<1> QED
  BY <1>1, <1>2

(* A step that visits x and makes no node and no edge.                     *)
LEMMA VisitKeepsTheRest ==
  ASSUME Made, TodoOK, NEW x \in todo, Visited(x), stage \in {"bind", "cohorts"},
         UNCHANGED <<resolution, policy, nodes, edges>>
  PROVE  PolicyMade' /\ NodesMade' /\ CyclesRefused' /\ WorkLeft' /\ EdgesMade'
<1>1. UNCHANGED <<resolution, policy>> /\ UNCHANGED <<resolution, nodes>>
  OBVIOUS
<1>2. /\ SeenSelections' = SeenSelections /\ SeenGoals' = SeenGoals
      /\ SeenRemovals' = SeenRemovals
      /\ SeenRequirements' = SeenRequirements /\ SeenPhases' = SeenPhases
      /\ SeenInstalled' = SeenInstalled
  BY <1>1, VisitSees
<1>3. PolicyMade'
  BY DEF Made, PolicyMade, Visited
<1>4. NodesMade'
  BY <1>1, <1>2, RequestFixed DEF Made, NodesMade, NodesOf, RemoveNode
<1>5. CyclesRefused'
  <2>1. /\ HasCycle(ConstructionGraph)' = HasCycle(ConstructionGraph)
        /\ HasCycle(LifecycleGraph)' = HasCycle(LifecycleGraph)
    BY <1>1, RequestFixed DEF HasCycle, CyclicComponents, StronglyConnected
  <2> QED
    BY <2>1 DEF Made, CyclesRefused, Visited
<1>6. WorkLeft'
  BY <1>1, RequestFixed, NodesFixed DEF Made, WorkLeft, Visited
<1>7. EdgesMade'
  <2>1. SeenRequirements = {} /\ SeenPhases = {} /\ SeenInstalled = {}
    BY DEF SeenRequirements, SeenPhases, SeenInstalled, Seen, AfterRemovalPhases,
           AfterPhases, AfterRequirements
  <2> QED
    BY <1>2, <2>1 DEF Made, EdgesMade, OrderingOf
<1> QED
  BY <1>3, <1>4, <1>5, <1>6, <1>7

(* The components that are left share no selection with those seen, so a   *)
(* cohort index, once given, is never given anew.                          *)
LEMMA GatherKeepsMade ==
  ASSUME Made, TypeInv, NEW C \in todo, GatherCohort(C)
  PROVE  Made'
<1>1. CASE \E code : Fail(code)
  BY <1>1, FailMadeNothing
<1>2. CASE ~\E code : Fail(code)
  <2>1. /\ stage = "cohorts"
        /\ CohortAdmitted(CohortOf(C))
        /\ cohorts' = Append(cohorts, CohortOf(C))
        /\ runtime_component' =
             [s \in DOMAIN runtime_component \cup C |->
                IF s \in C THEN CohortIndex ELSE runtime_component[s]]
        /\ Visited(C)
        /\ UNCHANGED <<resolution, policy, nodes, edges>>
        /\ UNCHANGED <<resolution, policy>>
        /\ UNCHANGED <<resolution, nodes>>
    BY <1>2 DEF GatherCohort, IdentityFails
  <2>2. C \in RunCycles
    BY <2>1 DEF Made, WorkLeft
  <2>3. SeenCycles' = SeenCycles \cup {C} /\ SeenPrograms' = SeenPrograms
    BY <2>1, <2>2, VisitSees DEF TypeInv
  <2>4. PolicyMade' /\ NodesMade' /\ CyclesRefused' /\ WorkLeft' /\ EdgesMade'
    BY <2>1, VisitKeepsTheRest DEF TypeInv
  <2>5. ProgramsBound'
    BY <2>1, <2>3, NodesFixed DEF Made, ProgramsBound
  <2>6. \A D \in SeenCycles : D \cap C = {}
    <3>1. ASSUME NEW D \in SeenCycles PROVE D \in RunCycles /\ D # C
      BY <2>1 DEF SeenCycles, Seen
    <3>2. RunCycles \subseteq StronglyConnected(RuntimeGraph)
      BY DEF RunCycles, CyclicComponents
    <3> QED
      BY <2>2, <3>1, <3>2, ComponentsDisjoint
  <2>7. /\ DOMAIN cohorts = 1..Len(cohorts) /\ Len(cohorts) \in Nat
        /\ CohortIndex = Len(cohorts) + 1
        /\ DOMAIN cohorts' = 1..(Len(cohorts) + 1)
        /\ \A i \in DOMAIN cohorts : cohorts'[i] = cohorts[i]
        /\ cohorts'[CohortIndex] = CohortOf(C)
    BY <2>1, CohortOfType DEF CohortIndex, TypeInv, TypeOK
  <2>8. CohortsMatch(SeenCycles)
    BY DEF Made
  <2>9. \A D \in SeenCycles : \A s \in D : runtime_component'[s] = runtime_component[s]
    BY <2>1, <2>6, <2>8 DEF CohortsMatch
  <2>10. \A s \in C : runtime_component'[s] = CohortIndex
    BY <2>1
  <2>11. DOMAIN runtime_component' = UNION (SeenCycles \cup {C})
    BY <2>1, <2>8 DEF CohortsMatch
  <2>12. ASSUME NEW D \in SeenCycles \cup {C}
         PROVE  \E i \in DOMAIN cohorts' :
                  cohorts'[i] = CohortOf(D) /\ \A s \in D : runtime_component'[s] = i
    <3>1. CASE D = C
      BY <2>7, <2>10, <3>1
    <3>2. CASE D \in SeenCycles
      BY <2>7, <2>8, <2>9, <3>2 DEF CohortsMatch
    <3> QED
      BY <3>1, <3>2
  <2>13. ASSUME NEW i \in DOMAIN cohorts'
         PROVE  \E D \in SeenCycles \cup {C} :
                  cohorts'[i] = CohortOf(D) /\ \A s \in D : runtime_component'[s] = i
    <3>1. CASE i = CohortIndex
      BY <2>7, <2>10, <3>1
    <3>2. CASE i \in DOMAIN cohorts
      BY <2>7, <2>8, <2>9, <3>2 DEF CohortsMatch
    <3> QED
      BY <2>7, <3>1, <3>2
  <2>14. ASSUME NEW D \in SeenCycles \cup {C}
         PROVE  /\ CohortOf(D).members # {}
                /\ CohortOf(D).witnesses \cap resolution.repeated = {}
    <3>1. CASE D = C
      BY <2>1, <3>1 DEF CohortAdmitted
    <3>2. CASE D \in SeenCycles
      BY <2>8, <3>2 DEF CohortsMatch
    <3> QED
      BY <3>1, <3>2
  <2>15. \A D : CohortOf(D)' = CohortOf(D)
    BY <2>1, NodesFixed
  <2>16. \A D \in SeenCycles' : /\ CohortOf(D)'.members # {}
                                /\ CohortOf(D)'.witnesses \cap resolution'.repeated = {}
    BY <2>1, <2>3, <2>14, <2>15
  <2>17. CohortsMatch(SeenCycles)'
    BY <2>3, <2>11, <2>12, <2>13, <2>15, <2>16 DEF CohortsMatch
  <2> QED
    BY <2>4, <2>5, <2>17 DEF Made
<1> QED
  BY <1>1, <1>2

LEMMA MadeFromOneSelection ==
  ASSUME Made, NEW n \in nodes, NEW s \in n.selection
  PROVE  n.selection = {s}
<1>1. n \in NodesOf(SeenSelections, SeenGoals, SeenRemovals)
  BY DEF Made, NodesMade
<1>2. CASE \E t : n \in ClassifiedNodes(t)
  BY <1>2 DEF ClassifiedNodes, SelectedNode
<1>3. CASE \E g : n \in GoalNodes(g)
  BY <1>3 DEF GoalNodes, SelectedNode
<1>4. CASE \E p : n = RemoveNode(p)
  BY <1>4 DEF RemoveNode
<1> QED
  BY <1>1, <1>2, <1>3, <1>4 DEF NodesOf

LEMMA BindKeepsMade ==
  ASSUME Made, TypeInv, NEW n \in todo, Bind(n)
  PROVE  Made'
<1>1. CASE \E code : Fail(code)
  BY <1>1, FailMadeNothing
<1>2. CASE ~\E code : Fail(code)
  <2>1. PICK s \in n.selection :
          /\ BindTargets(n, s) # {}
          /\ stage = "bind"
          /\ Visited(n)
          /\ UNCHANGED <<resolution, policy, graphVars>>
    BY <1>2 DEF Bind
  <2>2. /\ UNCHANGED <<resolution, policy>> /\ UNCHANGED <<resolution, nodes>>
        /\ UNCHANGED <<resolution, nodes, cohorts, runtime_component>>
        /\ UNCHANGED <<resolution, policy, nodes, edges>>
    BY <2>1 DEF graphVars
  <2>3. SeenCycles' = SeenCycles /\ SeenPrograms' \subseteq SeenPrograms \cup {n}
    BY <2>1, <2>2, VisitSees DEF TypeInv
  <2>4. PolicyMade' /\ NodesMade' /\ CyclesRefused' /\ WorkLeft' /\ EdgesMade'
    BY <2>1, <2>2, VisitKeepsTheRest DEF TypeInv
  <2>5. ProgramsBound'
    <3>1. n \in SeenPrograms' => n \in nodes
      BY <2>2 DEF SeenPrograms, Programs, Seen
    <3>2. n \in nodes => Bound(n)
      BY <2>1, MadeFromOneSelection DEF Bound
    <3> QED
      BY <2>2, <2>3, <3>1, <3>2, NodesFixed DEF Made, ProgramsBound
  <2>6. CohortsMatch(SeenCycles)'
    BY <2>2, <2>3, CohortsFixed DEF Made
  <2> QED
    BY <2>4, <2>5, <2>6 DEF Made
<1> QED
  BY <1>1, <1>2

LEMMA IterateKeepsMade ==
  ASSUME ContractInv, Iterate
  PROVE  Made'
<1> USE DEF ContractInv, RemovalInv
<1>1. PICK x \in todo :
        \/ Classify(x) \/ VisitGoal(x) \/ RemoveInstalled(x) \/ Bind(x)
        \/ GatherCohort(x) \/ OrderRequirement(x) \/ OrderPhases(x)
        \/ OrderRemovalPhases(x)
  BY DEF Iterate
<1>2. TodoOK
  BY DEF TypeInv
<1>3. CASE \E code : Fail(code)
  BY <1>3, FailMadeNothing
<1>4. CASE Classify(x)
  BY <1>2, <1>4, AddNodesKeepsMade DEF Classify
<1>5. CASE VisitGoal(x) /\ ~\E code : Fail(code)
  <2>1. /\ stage = "goals"
        /\ x.selection \in Selections
        /\ x.scope = "check" => CheckAuthorityError(x.selection) = "none"
        /\ AddNodes(x, GoalNodes(x))
    BY <1>5 DEF VisitGoal, Selections
  <2>2. (\A n \in GoalNodes(x) : NodeAdmitted(n)) => Sound(x)
    BY <2>1 DEF Sound
  <2> QED
    BY <1>2, <2>1, <2>2, AddNodesKeepsMade
<1>6. CASE RemoveInstalled(x)
  <2>1. stage = "removals" /\ x \in Removals
    BY <1>6 DEF RemoveInstalled
  <2>2. AddNodes(x, {RemoveNode(x)})
    BY <1>6, <2>1, RemovalsInstalled DEF RemoveInstalled
  <2> QED
    BY <1>2, <2>1, <2>2, AddNodesKeepsMade
<1>7. CASE Bind(x)
  BY <1>7, BindKeepsMade
<1>8. CASE GatherCohort(x)
  BY <1>8, GatherKeepsMade
<1>9. CASE OrderRequirement(x)
  BY <1>2, <1>9, AddEdgesKeepsMade DEF OrderRequirement
<1>10. CASE OrderPhases(x)
  BY <1>2, <1>10, AddEdgesKeepsMade DEF OrderPhases
<1>11. CASE OrderRemovalPhases(x) /\ ~\E code : Fail(code)
  <2>1. /\ stage = "removal_phases"
        /\ AddEdges(x, RemovalPhaseEdges(x, Fates(x)))
        /\ OneFate(x)
    BY <1>11 DEF OrderRemovalPhases, Fates, OneFate
  <2> QED
    BY <1>2, <2>1, AddEdgesKeepsMade
<1> QED
  BY <1>1, <1>3, <1>4, <1>5, <1>6, <1>7, <1>8, <1>9, <1>10, <1>11

LEMMA InitMade == Init => ContractInv
<1> SUFFICES ASSUME Init PROVE ContractInv
  OBVIOUS
<1>1. /\ SeenSelections = {} /\ SeenGoals = {} /\ SeenRemovals = {}
      /\ SeenPrograms = {} /\ SeenCycles = {}
      /\ SeenRequirements = {} /\ SeenPhases = {} /\ SeenInstalled = {}
  BY DEF Init, RequestInit, Seen, SeenSelections, SeenGoals, SeenRemovals, SeenPrograms,
      SeenCycles, SeenRequirements, SeenPhases, SeenInstalled, AfterRemovalPhases,
      AfterPhases, AfterRequirements, AfterCohorts, AfterCycles, AfterBind, AfterRemovals,
      AfterGoals, AfterClassify
<1>2. NodesMade /\ ProgramsBound
  BY <1>1 DEF NodesMade, NodesOf, ProgramsBound, Init
<1>3. EdgesMade
  BY <1>1 DEF EdgesMade, OrderingOf, Init
<1>4. cohorts = <<>> /\ runtime_component = <<>>
  BY DEF Init
<1>5. DOMAIN cohorts = {} /\ DOMAIN runtime_component = {}
  BY <1>4
<1>6. CohortsMatch(SeenCycles)
  BY <1>1, <1>5 DEF CohortsMatch
<1>7. PolicyMade /\ CyclesRefused /\ WorkLeft
  BY DEF Init, RequestInit, PolicyMade, NoPolicy, CyclesRefused, WorkLeft,
      AfterRemovalPhases, AfterPhases, AfterRequirements, AfterCohorts, AfterCycles
<1> QED
  BY <1>2, <1>3, <1>6, <1>7, InitRemovals DEF ContractInv, Made

LEMMA StepMade == ContractInv /\ [Next]_vars => ContractInv'
<1> SUFFICES ASSUME ContractInv, [Next]_vars PROVE ContractInv'
  OBVIOUS
<1>1. RemovalInv'
  BY StepRemovals DEF ContractInv
<1>2. CASE Next
  <2>1. CASE RequestNext /\ UNCHANGED graphVars
    BY <1>1, <2>1, RequestMakesNothing DEF ContractInv
  <2>2. CASE BeginCompose \/ Proceed
    BY <1>1, <2>2, LoopKeepsMade, FailMadeNothing DEF ContractInv
  <2>3. CASE Iterate
    BY <1>1, <2>3, IterateKeepsMade DEF ContractInv
  <2> QED
    BY <1>2, <2>1, <2>2, <2>3 DEF Next
<1>3. CASE UNCHANGED vars
  <2>1. /\ UNCHANGED <<resolution, policy>> /\ UNCHANGED <<resolution, nodes>>
        /\ UNCHANGED <<resolution, nodes, cohorts, runtime_component>>
        /\ UNCHANGED <<resolution, policy, stage, error, todo, nodes, edges, cohorts,
                      runtime_component>>
    BY <1>3 DEF vars
  <2>2. Removals' = Removals /\ RunCycles' = RunCycles /\ Programs' = Programs
    BY <2>1, RequestFixed, NodesFixed
  <2>3. /\ SeenSelections' = SeenSelections /\ SeenGoals' = SeenGoals
        /\ SeenRemovals' = SeenRemovals /\ SeenPrograms' = SeenPrograms
        /\ SeenCycles' = SeenCycles
        /\ SeenRequirements' = SeenRequirements /\ SeenPhases' = SeenPhases
        /\ SeenInstalled' = SeenInstalled
    BY <2>1, <2>2
    DEF Seen, SeenSelections, SeenGoals, SeenRemovals, SeenPrograms, SeenCycles,
        SeenRequirements, SeenPhases, SeenInstalled, Selections
  <2>4. PolicyMade' /\ WorkLeft'
    BY <2>1, <2>2 DEF ContractInv, Made, PolicyMade, WorkLeft
  <2>5. NodesMade'
    BY <2>1, <2>3, RequestFixed DEF ContractInv, Made, NodesMade, NodesOf, RemoveNode
  <2>6. ProgramsBound'
    BY <2>1, <2>3, NodesFixed DEF ContractInv, Made, ProgramsBound
  <2>7. CyclesRefused'
    <3>1. /\ HasCycle(ConstructionGraph)' = HasCycle(ConstructionGraph)
          /\ HasCycle(LifecycleGraph)' = HasCycle(LifecycleGraph)
      BY <2>1, RequestFixed DEF HasCycle, CyclicComponents, StronglyConnected
    <3> QED
      BY <2>1, <3>1 DEF ContractInv, Made, CyclesRefused
  <2>8. CohortsMatch(SeenCycles)'
    BY <2>1, <2>3, CohortsFixed DEF ContractInv, Made
  <2>9. EdgesMade'
    BY <2>1, <2>3, NodesFixed, CohortsFixed
    DEF ContractInv, Made, EdgesMade, OrderingOf, OneFate
  <2> QED
    BY <1>1, <2>4, <2>5, <2>6, <2>7, <2>8, <2>9 DEF ContractInv, Made
<1> QED
  BY <1>2, <1>3

=============================================================================
