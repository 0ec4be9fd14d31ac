------------------------------- MODULE Composer -------------------------------
(***************************************************************************)
(* compose() of src/composer.cpp: from a sealed request to a published     *)
(* transaction_program, or to the error that refuses it.  Each loop of the *)
(* code is a stage, each iteration a step, and the element an iteration    *)
(* visits is any one left, because the vectors it walks are ordered by     *)
(* identities that are hashes.  A lookup that returns an optional node is  *)
(* a set of at most one node.                                              *)
(***************************************************************************)
EXTENDS TransactionRequest, Condensation, Naturals

VARIABLES nodes,             \* graph_state.nodes, keyed as node_by_key is
          edges,             \* the ordering edges
          cohorts,           \* the runtime cohorts, in the order they are found
          runtime_component  \* selection |-> the index of its cohort

graphVars == <<nodes, edges, cohorts, runtime_component>>
vars == <<resolution, policy, stage, error, todo,
          nodes, edges, cohorts, runtime_component>>

Action == {"build", "check", "install", "upgrade", "retain", "remove", "lifecycle"}

(* A node's authority is one selection, or for a removal none: then it is  *)
(* the installed package of that name in the snapshot.                     *)
Node == [action : Action, package : Package, environment : Environment,
         selection : SUBSET SelectionId, lifecycle : LifecycleAction \cup {"none"}]

PhaseOrder == {"build_before_check", "build_before_target", "check_before_target",
               "pre_lifecycle_before_action", "action_before_post_lifecycle"}

Edge == [before : Node, after : Node,
         witness : SUBSET RequirementEdge, phase : PhaseOrder \cup {"none"}]

Cohort == [members : SUBSET Node, witnesses : SUBSET RequirementEdge]

Selected(s) == resolution.selections[s]
EdgesOf(scopes) == {e \in resolution.edges : e.scope \in scopes}

-----------------------------------------------------------------------------
(* Moving through the loops.                                               *)

Visited(x) == todo' = todo \ {x} /\ UNCHANGED <<stage, error>>

Enter(next, work) == stage' = next /\ todo' = work /\ UNCHANGED error

Loop(from, next, work) ==
  /\ stage = from
  /\ todo = {}
  /\ Enter(next, work)
  /\ UNCHANGED <<resolution, policy>>
  /\ UNCHANGED graphVars

(* An error on the way destroys the locals of compose().                   *)
Fail(code) ==
  /\ Throw(code)
  /\ nodes' = {}
  /\ edges' = {}
  /\ cohorts' = <<>>
  /\ runtime_component' = <<>>
  /\ UNCHANGED <<resolution, policy>>

(* Every identity is taken through OpenSSL, which may fail each time       *)
(* (module IdentityWriter).                                                *)
IdentityFails == Fail("identity_failed")

-----------------------------------------------------------------------------
(* Reading the reasons of a selection, and of what is installed.           *)

TargetOperationRequired(s) ==
  \E q \in Reasons(s) : q.scope \in {"run"} \cup LifecycleAction

RemovalOnly(s) ==
  /\ Reasons(s) # {}
  /\ \A q \in Reasons(s) : q.kind \in GoalReason /\ q.scope \in RemovalAction

(* A variant for the mutants: the source snapshot is not compared.         *)
SameRelease(s) ==
  Selected(s).version.release
    = resolution.installed[Selected(s).package].release

ExactInstalled(s) == Selected(s).version = resolution.installed[Selected(s).package]

-----------------------------------------------------------------------------
(* Nodes.                                                                  *)

SelectedNode(s, action, lifecycle) ==
  [action |-> action, package |-> Selected(s).package,
   environment |-> Selected(s).environment, selection |-> {s},
   lifecycle |-> lifecycle]

RemoveNode(p) ==
  [action |-> "remove", package |-> p, environment |-> "target",
   selection |-> {}, lifecycle |-> "none"]

(* What the constructor of transaction_node accepts.                       *)
NodeAdmitted(n) ==
  /\ (n.action = "lifecycle") = (n.lifecycle # "none")
  /\ (n.action = "remove") = (n.selection = {})
  /\ n.action \in {"build", "check", "install", "upgrade"} =>
       \A s \in n.selection : FromCatalog(resolution, s)
  /\ n.action \in {"install", "upgrade", "lifecycle"} => n.environment = "target"

(* A node that is there already is not identified again.                   *)
AddNodes(x, N) ==
  \/ /\ \A n \in N : NodeAdmitted(n)
     /\ nodes' = nodes \cup N
     /\ Visited(x)
     /\ UNCHANGED <<resolution, policy, edges, cohorts, runtime_component>>
  \/ (\E n \in N : ~NodeAdmitted(n)) /\ Fail("inconsistent_authority")
  \/ ~(N \subseteq nodes) /\ IdentityFails

Lookup(s, action) == {n \in nodes : n.selection = {s} /\ n.action = action}

LookupLifecycle(s, action) == {n \in Lookup(s, "lifecycle") : n.lifecycle = action}

MutationOf(s) == Lookup(s, "install") \cup Lookup(s, "upgrade")

CompletionRank == [install |-> 1, upgrade |-> 2, retain |-> 3, build |-> 4]

(* The node that makes the selection available.                            *)
CompletionNode(s) ==
  LET C == {n \in nodes : n.selection = {s} /\ n.action \in DOMAIN CompletionRank}
  IN {n \in C : \A m \in C : CompletionRank[n.action] <= CompletionRank[m.action]}

RemoveOf(p, version) ==
  {n \in nodes : n = RemoveNode(p) /\ resolution.installed[p] = version}

TargetUpgradeNode(p) ==
  {n \in nodes :
     n.environment = "target" /\ n.action = "upgrade" /\ n.package = p}

(* A variant for the mutants: an upgrade takes nothing away (before 1.1.0). *)
RemoveOnlyTarget(p, version) == RemoveOf(p, version)

(* More than one is the contradiction that removal_lifecycle_target throws *)
(* for: two upgrades of a package, or a removal with an upgrade.           *)
RemovalLifecycleTarget(p, version) == RemoveOf(p, version) \cup TargetUpgradeNode(p)

-----------------------------------------------------------------------------
(* What each iteration adds.                                               *)

TargetAction(s) ==
  IF ~(InTarget(resolution, s) /\ TargetOperationRequired(s)) THEN {}
  ELSE IF Selected(s).package \notin DOMAIN resolution.installed THEN {"install"}
  ELSE IF ExactInstalled(s) THEN {"retain"}
  ELSE {"upgrade"}

(* Construction that no target action asks for.                            *)
ExplicitConstruction(s) ==
  ~InTarget(resolution, s) \/ \E q \in Reasons(s) : q.scope \in {"build", "check"}

CatalogActions(s) ==
  TargetAction(s) \cup
  {a \in {"build"} : ExplicitConstruction(s) \/ TargetAction(s) \ {"retain"} # {}}

InstalledActions(s) ==
  {a \in {"retain"} : /\ ~InTarget(resolution, s) \/ TargetOperationRequired(s)
                      /\ ~RemovalOnly(s)}

ClassifiedNodes(s) ==
  {SelectedNode(s, a, "none") :
     a \in IF FromCatalog(resolution, s) THEN CatalogActions(s) ELSE InstalledActions(s)}

(* The error_code require_check_authority throws, or "none".               *)
CheckAuthorityError(s) ==
  LET sel == Selected(s) IN
  IF \/ ~FromCatalog(resolution, s)
     \/ sel.authority.package # sel.package
     \/ sel.authority.version # sel.version
    THEN "inconsistent_authority"
  ELSE IF ~sel.authority.check_program
    THEN "missing_check_program"
  ELSE "none"

GoalNodes(g) ==
  IF g.scope = "check" THEN {SelectedNode(g.selection, "check", "none")}
  ELSE IF g.scope \in LifecycleAction
    THEN {SelectedNode(g.selection, "lifecycle", g.scope)}
  ELSE {}

DesiredTarget ==
  {Selected(s).package : s \in
     {t \in DOMAIN resolution.selections :
        InTarget(resolution, t) /\ TargetOperationRequired(t) /\ ~RemovalOnly(t)}}

RuntimeGraph == {<<e.issuer, e.required>> : e \in EdgesOf({"run"})}
LifecycleGraph == {<<e.issuer, e.required>> : e \in EdgesOf(LifecycleAction)}

(* A variant for the mutants: only what the target asks to build counts.   *)
TargetConstructionGraph ==
  {<<e.issuer, e.required>> : e \in
     {f \in EdgesOf({"build"}) :
        \A s \in {f.issuer, f.required} :
          s \in DOMAIN resolution.selections /\ InTarget(resolution, s)}}

(* An installed selection is not constructed, so it breaks a build cycle.  *)
ConstructionGraph ==
  {<<e.issuer, e.required>> : e \in
     {f \in EdgesOf({"build"}) :
        \A s \in {f.issuer, f.required} :
          s \in DOMAIN resolution.selections /\ FromCatalog(resolution, s)}}

(* A variant for the mutants: cohorts.size() is read after the push.       *)
IndexAfterPush == Len(cohorts) + 2

(* cohorts.size() before the push; sequences count from 1.                 *)
CohortIndex == Len(cohorts) + 1

CohortOf(C) ==
  [members |-> UNION {CompletionNode(s) : s \in C \cap DOMAIN resolution.selections},
   witnesses |-> {e \in EdgesOf({"run"}) : {e.issuer, e.required} \subseteq C}]

(* A variant for the mutants: a cohort is entered through one member only. *)
MemberBoundary(s) == CompletionNode(s)

RuntimeBoundary(s) ==
  IF s \in DOMAIN runtime_component
    THEN cohorts[runtime_component[s]].members
    ELSE CompletionNode(s)

(* A variant for the mutants: no edge counts as internal.                  *)
NoSameCohort(e) == FALSE

SameCohort(e) ==
  /\ {e.issuer, e.required} \subseteq DOMAIN runtime_component
  /\ runtime_component[e.issuer] = runtime_component[e.required]

(* A variant for the mutants: check inputs gate construction (2.1.0).      *)
ConstructionConsumer(e) ==
  IF e.scope \in LifecycleAction
    THEN LookupLifecycle(e.issuer, e.scope)
    ELSE Lookup(e.issuer, "build")

(* The node of the issuer that a build, check or lifecycle input gates.    *)
Consumer(e) ==
  IF e.scope \in LifecycleAction
    THEN LookupLifecycle(e.issuer, e.scope)
    ELSE Lookup(e.issuer, e.scope)

(* A variant for the mutants: an input that is retained is not waited for. *)
ConstructedPairs(e) ==
  IF e.scope # "run" THEN Lookup(e.required, "build") \X Consumer(e)
  ELSE IF SameCohort(e) THEN {}
  ELSE RuntimeBoundary(e.required) \X RuntimeBoundary(e.issuer)

RequirementPairs(e) ==
  IF e.scope # "run" THEN CompletionNode(e.required) \X Consumer(e)
  ELSE IF SameCohort(e) THEN {}
  ELSE RuntimeBoundary(e.required) \X RuntimeBoundary(e.issuer)

RequirementEdges(e) ==
  {[before |-> x[1], after |-> x[2], witness |-> {e}, phase |-> "none"] :
     x \in {y \in RequirementPairs(e) : y[1] # y[2]}}

PhaseEdgesBetween(B, A, order) ==
  {[before |-> x[1], after |-> x[2], witness |-> {}, phase |-> order] : x \in B \X A}

PhaseEdges(s) ==
  LET build == Lookup(s, "build")
      check == Lookup(s, "check")
      target == MutationOf(s)
  IN PhaseEdgesBetween(build, check, "build_before_check")
     \cup PhaseEdgesBetween(build, target, "build_before_target")
     \cup PhaseEdgesBetween(check, target, "check_before_target")
     \cup PhaseEdgesBetween(LookupLifecycle(s, "pre_install"), target,
                            "pre_lifecycle_before_action")
     \cup PhaseEdgesBetween(target, LookupLifecycle(s, "post_install"),
                            "action_before_post_lifecycle")

(* The selections made from the installed package p of the snapshot.       *)
InstalledSelections(p) ==
  {s \in DOMAIN resolution.selections :
     /\ FromInstalled(resolution, s)
     /\ Selected(s).authority.package = p
     /\ Selected(s).authority.version = resolution.installed[p]}

(* A variant for the mutants: the removal program of an upgrade floats.    *)
RemovePhaseEdges(p, target) ==
  UNION {PhaseEdgesBetween(LookupLifecycle(s, "pre_remove"),
                           target \cap {RemoveNode(p)}, "pre_lifecycle_before_action")
         \cup PhaseEdgesBetween(target \cap {RemoveNode(p)},
                                LookupLifecycle(s, "post_remove"),
                                "action_before_post_lifecycle")
         : s \in InstalledSelections(p)}

RemovalPhaseEdges(p, target) ==
  UNION {PhaseEdgesBetween(LookupLifecycle(s, "pre_remove"), target,
                           "pre_lifecycle_before_action")
         \cup PhaseEdgesBetween(target, LookupLifecycle(s, "post_remove"),
                                "action_before_post_lifecycle")
         : s \in InstalledSelections(p)}

-----------------------------------------------------------------------------
(* The stages of compose().                                                *)

BeginCompose == Loop("sealed", "classify", DOMAIN resolution.selections)

Classify(s) ==
  /\ stage = "classify"
  /\ s \in todo
  /\ AddNodes(s, ClassifiedNodes(s))

BeginGoals == Loop("classify", "goals", resolution.goals)

VisitGoal(g) ==
  /\ stage = "goals"
  /\ g \in todo
  /\ IF g.selection \notin DOMAIN resolution.selections
       THEN Fail("inconsistent_authority")
     ELSE IF g.scope = "check" /\ CheckAuthorityError(g.selection) # "none"
       THEN Fail(CheckAuthorityError(g.selection))
     ELSE AddNodes(g, GoalNodes(g))

Removals ==
  IF policy.mode = "remove_explicit" THEN policy.removals
  ELSE IF policy.mode = "converge_exact"
    THEN DOMAIN resolution.installed \ DesiredTarget
  ELSE {}

BeginRemovals == Loop("goals", "removals", Removals)

(* The code dereferences the result of find_package without looking at it. *)
RemoveInstalled(p) ==
  /\ stage = "removals"
  /\ p \in todo
  /\ IF p \in DOMAIN resolution.installed
       THEN AddNodes(p, {RemoveNode(p)})
       ELSE /\ stage' = "undefined"
            /\ todo' = {}
            /\ UNCHANGED <<resolution, policy, error>>
            /\ UNCHANGED graphVars

BeginBind == Loop("removals", "bind", {n \in nodes : n.action = "lifecycle"})

(* A variant for the mutants: any selection may carry a removal program.   *)
BindAnyAuthority(n, s) ==
  IF n.lifecycle \in InstallAction THEN MutationOf(s)
  ELSE RemovalLifecycleTarget(Selected(s).authority.package,
                              Selected(s).authority.version)

(* A lifecycle node s is the selection of is bound to the node that        *)
(* changes the installed package, or refused.                              *)
BindTargets(n, s) ==
  IF n.lifecycle \in InstallAction THEN MutationOf(s)
  ELSE IF FromInstalled(resolution, s)
    THEN RemovalLifecycleTarget(Selected(s).authority.package,
                                Selected(s).authority.version)
  ELSE {}

Bind(n) ==
  /\ stage = "bind"
  /\ n \in todo
  /\ \E s \in n.selection :
       LET T == BindTargets(n, s) IN
       IF T = {} THEN Fail("unbound_lifecycle")
       ELSE IF \E t, u \in T : t # u THEN Fail("inconsistent_authority")
       ELSE Visited(n) /\ UNCHANGED <<resolution, policy, graphVars>>

BeginCycles == Loop("bind", "cycles", {})

RefuseCycle ==
  /\ stage = "cycles"
  /\ \/ HasCycle(ConstructionGraph) /\ Fail("construction_cycle")
     \/ /\ ~HasCycle(ConstructionGraph)
        /\ HasCycle(LifecycleGraph)
        /\ Fail("lifecycle_cycle")

BeginCohorts ==
  /\ ~HasCycle(ConstructionGraph)
  /\ ~HasCycle(LifecycleGraph)
  /\ Loop("cycles", "cohorts", CyclicComponents(RuntimeGraph))

(* What the constructor of runtime_cohort accepts: the vectors are sorted  *)
(* before, and of the members only are repetitions taken out.              *)
CohortAdmitted(cohort) ==
  /\ cohort.members # {}
  /\ cohort.witnesses # {}
  /\ cohort.witnesses \cap resolution.repeated = {}

GatherCohort(C) ==
  /\ stage = "cohorts"
  /\ C \in todo
  /\ \/ /\ CohortAdmitted(CohortOf(C))
        /\ cohorts' = Append(cohorts, CohortOf(C))
        /\ runtime_component' =
             [s \in DOMAIN runtime_component \cup C |->
                IF s \in C THEN CohortIndex ELSE runtime_component[s]]
        /\ Visited(C)
        /\ UNCHANGED <<resolution, policy, nodes, edges>>
     \/ ~CohortAdmitted(CohortOf(C)) /\ Fail("inconsistent_authority")
     \/ IdentityFails

BeginRequirements == Loop("cohorts", "requirements", resolution.edges)

AddEdges(x, E) ==
  \/ /\ edges' = edges \cup E
     /\ Visited(x)
     /\ UNCHANGED <<resolution, policy, nodes, cohorts, runtime_component>>
  \/ E # {} /\ IdentityFails

OrderRequirement(e) ==
  /\ stage = "requirements"
  /\ e \in todo
  /\ AddEdges(e, RequirementEdges(e))

BeginPhases == Loop("requirements", "phases", DOMAIN resolution.selections)

OrderPhases(s) ==
  /\ stage = "phases"
  /\ s \in todo
  /\ AddEdges(s, PhaseEdges(s))

BeginRemovalPhases == Loop("phases", "removal_phases", DOMAIN resolution.installed)

OrderRemovalPhases(p) ==
  /\ stage = "removal_phases"
  /\ p \in todo
  /\ LET T == RemovalLifecycleTarget(p, resolution.installed[p]) IN
     IF \E t, u \in T : t # u
       THEN Fail("inconsistent_authority")
       ELSE AddEdges(p, RemovalPhaseEdges(p, T))

(* The vectors are sorted, the identities taken and the program returned.  *)
Publish ==
  \/ Loop("removal_phases", "complete", {})
  \/ stage = "removal_phases" /\ todo = {} /\ IdentityFails

-----------------------------------------------------------------------------
Init ==
  /\ RequestInit
  /\ nodes = {}
  /\ edges = {}
  /\ cohorts = <<>>
  /\ runtime_component = <<>>

Iterate ==
  \E x \in todo :
    \/ Classify(x)
    \/ VisitGoal(x)
    \/ RemoveInstalled(x)
    \/ Bind(x)
    \/ GatherCohort(x)
    \/ OrderRequirement(x)
    \/ OrderPhases(x)
    \/ OrderRemovalPhases(x)

Proceed ==
  \/ BeginGoals
  \/ BeginRemovals
  \/ BeginBind
  \/ BeginCycles
  \/ RefuseCycle
  \/ BeginCohorts
  \/ BeginRequirements
  \/ BeginPhases
  \/ BeginRemovalPhases
  \/ Publish

Next ==
  \/ RequestNext /\ UNCHANGED graphVars
  \/ BeginCompose
  \/ Iterate
  \/ Proceed

Spec == Init /\ [][Next]_vars

=============================================================================
