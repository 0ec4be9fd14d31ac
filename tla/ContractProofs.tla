---------------------------- MODULE ContractProofs ----------------------------
(***************************************************************************)
(* The composer keeps its contract, for every resolution: whatever it      *)
(* publishes is the one program of the request, nothing is published of a  *)
(* request that has a reason to be refused, and an error names a reason    *)
(* that the request has.                                                   *)
(***************************************************************************)
EXTENDS ComposerProofs

(* The operations the contract asks for.                                   *)
Wanting == Contract!Operations(resolution, policy)

ActionsOf(s) == IF FromCatalog(resolution, s) THEN CatalogActions(s) ELSE InstalledActions(s)

-----------------------------------------------------------------------------
(* The contract and the composer read the reasons of a selection alike.    *)

LEMMA ReasonsReadAlike ==
  ASSUME TypeOK, NEW s \in Selections
  PROVE  /\ InTarget(resolution, s) /\ TargetOperationRequired(s)
              <=> Contract!Demanded(resolution, s)
         /\ RemovalOnly(s) <=> Contract!RemovalRoot(resolution, s)
<1>1. resolution.reasons[s] \subseteq Reason
  BY DEF TypeOK, IsResolution, Selections
<1>2. \A q \in resolution.reasons[s] : q.scope \in Scope
        /\ (q.kind \notin GoalReason <=> q.kind = "requirement")
  BY <1>1 DEF Reason, GoalReason
<1>3. InTarget(resolution, s) <=> Contract!InTarget(resolution, s)
  BY DEF InTarget, Contract!InTarget
<1>4. TargetOperationRequired(s)
        <=> \E q \in resolution.reasons[s] : q.scope \notin {"build", "check"}
  BY <1>2 DEF TargetOperationRequired, Reasons, Scope, LifecycleAction, InstallAction,
              RemovalAction
<1>5. RemovalOnly(s) <=> Contract!RemovalRoot(resolution, s)
  BY <1>2 DEF RemovalOnly, Reasons, Contract!RemovalRoot, Contract!RemovalAction,
              RemovalAction
<1> QED
  BY <1>3, <1>4, <1>5 DEF Contract!Demanded

LEMMA ActionsAgree ==
  ASSUME TypeOK, NEW s \in Selections
  PROVE  LET r == resolution
             demanded == s \in Contract!Incoming(r)
             here == Contract!PackageOf(r, s) \in DOMAIN r.installed
         IN /\ ActionsOf(s) \subseteq {"build", "install", "upgrade", "retain"}
            /\ "build" \in ActionsOf(s) <=> Contract!Built(r, s)
            /\ "install" \in ActionsOf(s) <=> demanded /\ ~here
            /\ "upgrade" \in ActionsOf(s) <=> demanded /\ here /\ ~Contract!Present(r, s)
            /\ "retain" \in ActionsOf(s) <=> Contract!Kept(r, s)
<1>1. /\ InTarget(resolution, s) /\ TargetOperationRequired(s)
           <=> Contract!Demanded(resolution, s)
      /\ RemovalOnly(s) <=> Contract!RemovalRoot(resolution, s)
  BY ReasonsReadAlike
<1>2. /\ FromCatalog(resolution, s) <=> Contract!FromCatalog(resolution, s)
      /\ FromInstalled(resolution, s) <=> Contract!FromInstalled(resolution, s)
      /\ InTarget(resolution, s) <=> Contract!InTarget(resolution, s)
      /\ FromInstalled(resolution, s) <=> ~FromCatalog(resolution, s)
  <2>1. resolution.selections[s].authority.kind \in {"catalog_candidate", "installed_package"}
    BY DEF TypeOK, IsResolution, Selections, Selection, Authority
  <2> QED
    BY <2>1 DEF FromCatalog, FromInstalled, AuthorityKind, InTarget, Contract!FromCatalog,
       Contract!FromInstalled, Contract!AuthorityKind, Contract!InTarget
<1>3. s \in Contract!Incoming(resolution)
        <=> FromCatalog(resolution, s) /\ Contract!Demanded(resolution, s)
  BY <1>2 DEF Contract!Incoming, Selections
<1>4. Selected(s).package \in DOMAIN resolution.installed
        => (ExactInstalled(s) <=> Contract!Present(resolution, s))
  BY DEF ExactInstalled, Contract!Present, Contract!PackageOf, Selected
<1>5. Contract!Present(resolution, s) => Selected(s).package \in DOMAIN resolution.installed
  BY DEF Contract!Present, Contract!PackageOf, Selected
<1>6. Selected(s).package = Contract!PackageOf(resolution, s)
  BY DEF Contract!PackageOf, Selected
<1>7. ~InTarget(resolution, s) \/ TargetOperationRequired(s)
        <=> ~Contract!InTarget(resolution, s) \/ Contract!Demanded(resolution, s)
  BY <1>1, <1>2 DEF Contract!Demanded
<1>8. CASE FromCatalog(resolution, s)
  <2>1. ActionsOf(s) = CatalogActions(s)
    BY <1>8 DEF ActionsOf
  <2>2. TargetAction(s) =
          IF s \notin Contract!Incoming(resolution) THEN {}
          ELSE IF Contract!PackageOf(resolution, s) \notin DOMAIN resolution.installed
            THEN {"install"}
          ELSE IF Contract!Present(resolution, s) THEN {"retain"} ELSE {"upgrade"}
    BY <1>1, <1>3, <1>4, <1>6, <1>8 DEF TargetAction
  <2>3. ExplicitConstruction(s) <=>
          \/ ~Contract!InTarget(resolution, s)
          \/ \E q \in resolution.reasons[s] : q.scope \in {"build", "check"}
    BY <1>2 DEF ExplicitConstruction, Reasons
  <2>4. TargetAction(s) \ {"retain"} # {} <=>
          s \in Contract!Incoming(resolution) /\ ~Contract!Present(resolution, s)
    BY <2>2, <1>5, <1>6
  <2>5. "build" \in CatalogActions(s) <=> Contract!Built(resolution, s)
    BY <1>2, <1>8, <2>2, <2>3, <2>4 DEF CatalogActions, Contract!Built
  <2>6. "retain" \in CatalogActions(s) <=> Contract!Kept(resolution, s)
    BY <1>2, <1>5, <1>6, <1>8, <2>2 DEF CatalogActions, Contract!Kept
  <2> QED
    BY <2>1, <2>2, <2>5, <2>6 DEF CatalogActions
<1>9. CASE ~FromCatalog(resolution, s)
  <2>1. ActionsOf(s) = InstalledActions(s)
    BY <1>9 DEF ActionsOf
  <2>2. "retain" \in InstalledActions(s) <=> Contract!Kept(resolution, s)
    BY <1>1, <1>2, <1>3, <1>7, <1>9 DEF InstalledActions, Contract!Kept
  <2>3. ~Contract!Built(resolution, s)
    BY <1>2, <1>9 DEF Contract!Built
  <2> QED
    BY <1>3, <1>9, <2>1, <2>2, <2>3 DEF InstalledActions
<1> QED
  BY <1>8, <1>9

-----------------------------------------------------------------------------
(* The nodes are the operations of the contract.                           *)

LEMMA RemovalsAgree ==
  ASSUME TypeOK, policy \in Policy
  PROVE  Removals = Contract!Removed(resolution, policy)
<1>1. DesiredTarget =
        {Contract!PackageOf(resolution, s) : s \in
           {t \in Selections : /\ Contract!Demanded(resolution, t)
                               /\ ~Contract!RemovalRoot(resolution, t)}}
  BY ReasonsReadAlike DEF DesiredTarget, Contract!PackageOf, Selected, Selections
<1>2. policy.mode \in Mode
  BY DEF Policy
<1> QED
  BY <1>1, <1>2 DEF Removals, Contract!Removed, Mode, Selections

LEMMA OperationIsNode ==
  ASSUME NEW s, NEW action, NEW lifecycle
  PROVE  SelectedNode(s, action, lifecycle)
           = Contract!Operation(resolution, s, action, lifecycle)
BY DEF SelectedNode, Selected, Contract!Operation, Contract!PackageOf

LEMMA RemovalIsNode ==
  ASSUME NEW p
  PROVE  RemoveNode(p) = Contract!Removal(p)
BY DEF RemoveNode, Contract!Removal

(* The operations of the contract, one by one.                             *)
LEMMA WantingIs ==
  ASSUME TypeOK, NEW n
  PROVE  n \in Wanting <=>
           \/ \E s \in Selections : \E a \in ActionsOf(s) : n = SelectedNode(s, a, "none")
           \/ \E g \in resolution.goals : g.selection \in Selections /\ n \in GoalNodes(g)
           \/ \E p \in Contract!Removed(resolution, policy) : n = RemoveNode(p)
<1> DEFINE r == resolution
           absent == {s \in Contract!Incoming(r) : Contract!PackageOf(r, s) \notin DOMAIN r.installed}
           changed == {s \in Contract!Incoming(r) : s \notin absent /\ ~Contract!Present(r, s)}
<1>1. n \in Wanting <=>
        \/ \E s \in Selections : Contract!Built(r, s) /\ n = SelectedNode(s, "build", "none")
        \/ \E s \in absent : n = SelectedNode(s, "install", "none")
        \/ \E s \in changed : n = SelectedNode(s, "upgrade", "none")
        \/ \E s \in Selections : Contract!Kept(r, s) /\ n = SelectedNode(s, "retain", "none")
        \/ \E g \in Contract!Goals(r) :
             g.scope = "check" /\ n = SelectedNode(g.selection, "check", "none")
        \/ \E g \in Contract!Goals(r) :
             g.scope \in Contract!LifecycleAction
               /\ n = SelectedNode(g.selection, "lifecycle", g.scope)
        \/ \E p \in Contract!Removed(resolution, policy) : n = RemoveNode(p)
  BY OperationIsNode, RemovalIsNode DEF Wanting, Contract!Operations, Selections
<1>2. \A s \in Contract!Incoming(r) : s \in Selections
  BY DEF Contract!Incoming, Selections
<1>3. \A s : s \in absent <=> s \in Selections /\ "install" \in ActionsOf(s)
  BY <1>2, ActionsAgree
<1>4. \A s : s \in changed <=> s \in Selections /\ "upgrade" \in ActionsOf(s)
  BY <1>2, ActionsAgree
<1>5. \A s \in Selections :
        /\ Contract!Built(r, s) <=> "build" \in ActionsOf(s)
        /\ Contract!Kept(r, s) <=> "retain" \in ActionsOf(s)
        /\ ActionsOf(s) \subseteq {"build", "install", "upgrade", "retain"}
  BY ActionsAgree
<1> HIDE DEF absent, changed
<1>6. (\E s \in Selections : \E a \in ActionsOf(s) : n = SelectedNode(s, a, "none")) <=>
        \/ \E s \in Selections : Contract!Built(r, s) /\ n = SelectedNode(s, "build", "none")
        \/ \E s \in absent : n = SelectedNode(s, "install", "none")
        \/ \E s \in changed : n = SelectedNode(s, "upgrade", "none")
        \/ \E s \in Selections : Contract!Kept(r, s) /\ n = SelectedNode(s, "retain", "none")
  BY <1>3, <1>4, <1>5
<1>7. \A g : g \in Contract!Goals(r) <=> g \in r.goals /\ g.selection \in Selections
  BY DEF Contract!Goals, Selections
<1>8. Contract!LifecycleAction = LifecycleAction /\ "check" \notin LifecycleAction
  BY DEF Contract!LifecycleAction, LifecycleAction, Contract!InstallAction, InstallAction,
         Contract!RemovalAction, RemovalAction
<1>9. (\E g \in resolution.goals : g.selection \in Selections /\ n \in GoalNodes(g)) <=>
        \/ \E g \in Contract!Goals(r) :
             g.scope = "check" /\ n = SelectedNode(g.selection, "check", "none")
        \/ \E g \in Contract!Goals(r) :
             g.scope \in Contract!LifecycleAction
               /\ n = SelectedNode(g.selection, "lifecycle", g.scope)
  BY <1>7, <1>8 DEF GoalNodes
<1> QED
  BY <1>1, <1>6, <1>9

(* Whatever has been made is wanted; and once the goals have been visited  *)
(* without an error, all that is wanted gets made.                         *)
LEMMA NodesWanted ==
  ASSUME TypeOK, policy \in Policy, NEW n \in NodesOf(Selections, Contract!Goals(resolution), Removals)
  PROVE  n \in Wanting
<1>1. \/ \E s \in Selections : n \in ClassifiedNodes(s)
      \/ \E g \in Contract!Goals(resolution) : n \in GoalNodes(g)
      \/ \E p \in Removals : n = RemoveNode(p)
  BY DEF NodesOf
<1> QED
  BY <1>1, WantingIs, RemovalsAgree
  DEF ClassifiedNodes, ActionsOf, Contract!Goals, Selections

LEMMA NodesAreOperations ==
  ASSUME TypeOK, policy \in Policy, \A g \in resolution.goals : g.selection \in Selections
  PROVE  NodesOf(Selections, resolution.goals, Removals) = Wanting
<1>1. Contract!Goals(resolution) = resolution.goals
  BY DEF Contract!Goals, Selections
<1>2. ASSUME NEW n \in Wanting PROVE n \in NodesOf(Selections, resolution.goals, Removals)
  BY <1>2, WantingIs, RemovalsAgree DEF NodesOf, ClassifiedNodes, ActionsOf
<1> QED
  BY <1>1, <1>2, NodesWanted

(* The nodes of a program, once its loops over selections, goals and       *)
(* removals are done.                                                      *)
LEMMA NodesDone ==
  ASSUME ContractInv, stage \in AfterRemovals
  PROVE  nodes = Wanting
<1>1. SeenSelections = Selections /\ SeenGoals = resolution.goals /\ SeenRemovals = Removals
  BY DEF SeenSelections, SeenGoals, SeenRemovals, Seen, AfterRemovals, AfterGoals,
         AfterClassify, AfterBind, AfterCycles, AfterCohorts, AfterRequirements, AfterPhases,
         AfterRemovalPhases
<1>2. \A g \in resolution.goals : g.selection \in Selections
  BY <1>1 DEF ContractInv, Made, NodesMade, Sound
<1>3. policy \in Policy
  BY DEF ContractInv, Made, PolicyMade, AfterRemovals, AfterBind, AfterCycles, AfterCohorts,
         AfterRequirements, AfterPhases, AfterRemovalPhases
<1>4. nodes = NodesOf(Selections, resolution.goals, Removals)
  BY <1>1 DEF ContractInv, Made, NodesMade
<1> QED
  BY <1>2, <1>3, <1>4, NodesAreOperations DEF ContractInv, RemovalInv, TypeInv

-----------------------------------------------------------------------------
(* The contract and the composer condense the same graphs.                 *)

LEMMA GraphsAlike ==
  /\ Contract!RunGraph(resolution) = RuntimeGraph
  /\ Contract!BuildGraph(resolution) = ConstructionGraph
  /\ Contract!ProgramGraph(resolution) = LifecycleGraph
<1>1. Contract!LifecycleAction = LifecycleAction
  BY DEF Contract!LifecycleAction, LifecycleAction, Contract!InstallAction, InstallAction,
         Contract!RemovalAction, RemovalAction
<1>2. Contract!RunGraph(resolution) = RuntimeGraph
  BY DEF Contract!RunGraph, RuntimeGraph, EdgesOf
<1>3. Contract!ProgramGraph(resolution) = LifecycleGraph
  BY <1>1 DEF Contract!ProgramGraph, LifecycleGraph, EdgesOf
<1>4. \A s : Contract!FromCatalog(resolution, s) <=> FromCatalog(resolution, s)
  BY DEF Contract!FromCatalog, FromCatalog, Contract!AuthorityKind, AuthorityKind
<1>5. {f \in EdgesOf({"build"}) :
         \A s \in {f.issuer, f.required} :
           s \in DOMAIN resolution.selections /\ FromCatalog(resolution, s)}
      = {f \in resolution.edges :
           /\ f.scope = "build"
           /\ \A s \in {f.issuer, f.required} :
                s \in DOMAIN resolution.selections /\ Contract!FromCatalog(resolution, s)}
  BY <1>4 DEF EdgesOf
<1>6. Contract!BuildGraph(resolution) = ConstructionGraph
  BY <1>5 DEF Contract!BuildGraph, ConstructionGraph
<1> QED
  BY <1>2, <1>3, <1>6

LEMMA CondensedAlike ==
  ASSUME NEW G
  PROVE  /\ \A v : Contract!ComponentOf(G, v) = ComponentOf(G, v)
         /\ Contract!CyclicComponents(G) = CyclicComponents(G)
         /\ Contract!HasCycle(G) <=> HasCycle(G)
<1>1. Contract!Vertices(G) = Vertices(G)
  BY DEF Contract!Vertices, Vertices
<1>2. \A C : Contract!Closed(G, C) <=> Closed(G, C)
  BY DEF Contract!Closed, Closed
<1>3. \A v, w : Contract!Reaches(G, v, w) <=> Reaches(G, v, w)
  BY <1>1, <1>2 DEF Contract!Reaches, Reaches
<1>4. \A v : Contract!ComponentOf(G, v) = ComponentOf(G, v)
  BY <1>1, <1>3 DEF Contract!ComponentOf, ComponentOf
<1>5. Contract!StronglyConnected(G) = StronglyConnected(G)
  BY <1>1, <1>4 DEF Contract!StronglyConnected, StronglyConnected
<1>6. \A C : Contract!CyclicComponent(C, G) <=> CyclicComponent(C, G)
  <2>1. \A C : Contract!Cardinality(C) = Cardinality(C)
    BY DEF Contract!Cardinality, Cardinality
  <2> QED
    BY <2>1 DEF Contract!CyclicComponent, CyclicComponent
<1>7. Contract!CyclicComponents(G) = CyclicComponents(G)
  BY <1>5, <1>6 DEF Contract!CyclicComponents, CyclicComponents
<1> QED
  BY <1>4, <1>7 DEF Contract!HasCycle, HasCycle

-----------------------------------------------------------------------------
(* What a wanted node can be.                                              *)

Placing == {"install", "upgrade", "retain"}

LEMMA WantedShape ==
  ASSUME TypeOK, policy \in Policy, NEW n \in Wanting
  PROVE  \/ \E s \in Selections : /\ n.action \in ActionsOf(s)
                                 /\ n = SelectedNode(s, n.action, "none")
         \/ \E g \in resolution.goals :
              /\ g.selection \in Selections
              /\ g.scope = "check"
              /\ n = SelectedNode(g.selection, "check", "none")
         \/ \E g \in resolution.goals :
              /\ g.selection \in Selections
              /\ g.scope \in LifecycleAction
              /\ n = SelectedNode(g.selection, "lifecycle", g.scope)
         \/ \E p \in Removals : n = RemoveNode(p)
BY WantingIs, RemovalsAgree DEF GoalNodes, SelectedNode

LEMMA WantedSelection ==
  ASSUME TypeOK, policy \in Policy, NEW n \in Wanting
  PROVE  /\ n.action = "remove" => /\ n.package \in Removals /\ n = RemoveNode(n.package)
                                   /\ n.selection = {}
         /\ n.action # "remove" =>
              \E s \in Selections : /\ n.selection = {s}
                                    /\ n.package = Selected(s).package
                                    /\ n.environment = Selected(s).environment
         /\ n.action # "lifecycle" => n.lifecycle = "none"
         /\ n.action = "lifecycle" => n.lifecycle \in LifecycleAction
<1>1. CASE \E s \in Selections : /\ n.action \in ActionsOf(s)
                                 /\ n = SelectedNode(s, n.action, "none")
  BY <1>1, ActionsAgree DEF SelectedNode
<1>2. CASE \E g \in resolution.goals :
             /\ g.selection \in Selections
             /\ g.scope = "check"
             /\ n = SelectedNode(g.selection, "check", "none")
  BY <1>2 DEF SelectedNode
<1>3. CASE \E g \in resolution.goals :
             /\ g.selection \in Selections
             /\ g.scope \in LifecycleAction
             /\ n = SelectedNode(g.selection, "lifecycle", g.scope)
  BY <1>3 DEF SelectedNode
<1>4. CASE \E p \in Removals : n = RemoveNode(p)
  BY <1>4 DEF RemoveNode
<1> QED
  BY <1>1, <1>2, <1>3, <1>4, WantedShape

(* A lifecycle program was asked for by a goal.                            *)
LEMMA WantedProgram ==
  ASSUME TypeOK, policy \in Policy, NEW n \in Wanting, n.action = "lifecycle"
  PROVE  \E g \in resolution.goals :
           /\ g.selection \in Selections
           /\ g.scope \in LifecycleAction
           /\ n = SelectedNode(g.selection, "lifecycle", g.scope)
           /\ n \in GoalNodes(g)
<1>1. \A s \in Selections : "lifecycle" \notin ActionsOf(s)
  BY ActionsAgree
<1>2. \A g : SelectedNode(g.selection, "check", "none").action # "lifecycle"
  BY DEF SelectedNode
<1>3. \A p : RemoveNode(p).action # "lifecycle"
  BY DEF RemoveNode
<1>4. PICK g \in resolution.goals :
        /\ g.selection \in Selections
        /\ g.scope \in LifecycleAction
        /\ n = SelectedNode(g.selection, "lifecycle", g.scope)
  BY <1>1, <1>2, <1>3, WantedShape
<1>5. g.scope # "check"
  BY <1>4 DEF LifecycleAction, InstallAction, RemovalAction
<1> QED
  BY <1>4, <1>5 DEF GoalNodes

(* An action that the classification gave a selection.                     *)
LEMMA WantedAction ==
  ASSUME TypeOK, policy \in Policy, NEW n \in Wanting, NEW s, n.selection = {s},
         n.action \in Placing \cup {"build"}
  PROVE  s \in Selections /\ n.action \in ActionsOf(s) /\ n = SelectedNode(s, n.action, "none")
BY WantedShape DEF SelectedNode, RemoveNode, Placing

(* A selection is placed in at most one way.                               *)
LEMMA PlacedOnce ==
  ASSUME TypeOK, policy \in Policy, NEW n \in Wanting, NEW m \in Wanting,
         n.action \in Placing, m.action \in Placing, NEW s,
         n.selection = {s}, m.selection = {s}
  PROVE  n = m
<1>1. /\ s \in Selections
      /\ n.action \in ActionsOf(s) /\ n = SelectedNode(s, n.action, "none")
      /\ m.action \in ActionsOf(s) /\ m = SelectedNode(s, m.action, "none")
  BY WantedAction
<1>2. Contract!FromCatalog(resolution, s) => ~Contract!FromInstalled(resolution, s)
  BY DEF Contract!FromCatalog, Contract!FromInstalled
<1>3. s \in Contract!Incoming(resolution) => Contract!FromCatalog(resolution, s)
  BY DEF Contract!Incoming
<1>4. Contract!Present(resolution, s) =>
        Contract!PackageOf(resolution, s) \in DOMAIN resolution.installed
  BY DEF Contract!Present
<1>5. n.action = m.action
  BY <1>1, <1>2, <1>3, <1>4, ActionsAgree DEF Placing, Contract!Kept
<1> QED
  BY <1>1, <1>5

LEMMA AvailableAgrees ==
  ASSUME TypeOK, policy \in Policy, nodes = Wanting, NEW s
  PROVE  CompletionNode(s) = Contract!Available(nodes, s)
<1> DEFINE placed == Contract!Doing(nodes, s, Placing)
           built == Contract!Doing(nodes, s, {"build"})
           C == {n \in nodes : n.selection = {s} /\ n.action \in DOMAIN CompletionRank}
<1>1. DOMAIN CompletionRank = {"install", "upgrade", "retain", "build"}
  BY DEF CompletionRank
<1>2. /\ CompletionRank["install"] = 1 /\ CompletionRank["upgrade"] = 2
      /\ CompletionRank["retain"] = 3 /\ CompletionRank["build"] = 4
  BY DEF CompletionRank
<1>3. C = placed \cup built
  BY <1>1 DEF Contract!Doing, Placing
<1>4. \A n, m \in placed : n = m
  BY PlacedOnce DEF Contract!Doing
<1>5. \A n \in placed : CompletionRank[n.action] < 4
  BY <1>2 DEF Contract!Doing, Placing
<1>6. \A n \in placed : CompletionRank[n.action] \in Nat
  BY <1>2 DEF Contract!Doing, Placing
<1>7. \A n \in built : CompletionRank[n.action] = 4
  BY <1>2 DEF Contract!Doing
<1>8. CompletionNode(s) = {n \in C : \A m \in C : CompletionRank[n.action] <= CompletionRank[m.action]}
  BY DEF CompletionNode
<1>9. Contract!Available(nodes, s) = IF placed # {} THEN placed ELSE built
  BY DEF Contract!Available, Placing
<1> HIDE DEF placed, built, C
<1>10. CASE placed = {}
  BY <1>3, <1>7, <1>8, <1>9, <1>10
<1>11. CASE placed # {}
  BY <1>3, <1>4, <1>5, <1>6, <1>7, <1>8, <1>9, <1>11
<1> QED
  BY <1>10, <1>11

-----------------------------------------------------------------------------
(* The cohorts are those of the contract.                                  *)

LEMMA AvailableIsSelected ==
  ASSUME TypeOK, policy \in Policy, nodes = Wanting, NEW s, s \notin Selections
  PROVE  CompletionNode(s) = {}
<1>1. \A n \in nodes : n.selection # {s}
  BY WantedSelection
<1> QED
  BY <1>1 DEF CompletionNode

LEMMA CohortAgrees ==
  ASSUME TypeOK, policy \in Policy, nodes = Wanting, NEW C
  PROVE  CohortOf(C) =
           [members |-> UNION {Contract!Available(nodes, s) : s \in C},
            witnesses |-> {e \in resolution.edges :
                             e.scope = "run" /\ {e.issuer, e.required} \subseteq C}]
<1>1. \A s \in C : Contract!Available(nodes, s) = CompletionNode(s)
  BY AvailableAgrees
<1>2. UNION {Contract!Available(nodes, s) : s \in C}
        = UNION {CompletionNode(s) : s \in C \cap Selections}
  BY <1>1, AvailableIsSelected
<1>3. {e \in EdgesOf({"run"}) : {e.issuer, e.required} \subseteq C}
        = {e \in resolution.edges : e.scope = "run" /\ {e.issuer, e.required} \subseteq C}
  BY DEF EdgesOf
<1> QED
  BY <1>2, <1>3 DEF CohortOf, Selections

LEMMA CohortsAgree ==
  ASSUME TypeOK, policy \in Policy, nodes = Wanting
  PROVE  {CohortOf(C) : C \in RunCycles} = Contract!Cohorts(resolution, nodes)
<1>1. RunCycles = Contract!CyclicComponents(Contract!RunGraph(resolution))
  BY GraphsAlike, CondensedAlike DEF RunCycles
<1> DEFINE cohort(C) ==
      [members |-> UNION {Contract!Available(nodes, s) : s \in C},
       witnesses |-> {e \in resolution.edges :
                        e.scope = "run" /\ {e.issuer, e.required} \subseteq C}]
<1>2. \A C : CohortOf(C) = cohort(C)
  BY CohortAgrees
<1>3. Contract!Cohorts(resolution, nodes) = {cohort(C) : C \in RunCycles}
  BY <1>1 DEF Contract!Cohorts
<1> HIDE DEF cohort
<1> QED
  BY <1>2, <1>3

LEMMA RuntimeGraphFinite ==
  ASSUME TypeOK
  PROVE  /\ IsFiniteSet(RuntimeGraph)
         /\ RuntimeGraph \subseteq Vertices(RuntimeGraph) \X Vertices(RuntimeGraph)
<1> DEFINE arc == [e \in EdgesOf({"run"}) |-> <<e.issuer, e.required>>]
<1>1. IsFiniteSet(EdgesOf({"run"}))
  <2>1. IsFiniteSet(resolution.edges) /\ EdgesOf({"run"}) \subseteq resolution.edges
    BY DEF TypeOK, IsResolution, EdgesOf
  <2> QED
    BY <2>1, FS_Subset
<1>2. arc \in Surjection(EdgesOf({"run"}), RuntimeGraph)
  BY DEF Surjection, RuntimeGraph
<1> HIDE DEF arc
<1>3. IsFiniteSet(RuntimeGraph)
  BY <1>1, <1>2, FS_Surjection
<1>4. \A a \in RuntimeGraph : a = <<a[1], a[2]>>
  BY DEF RuntimeGraph
<1>5. \A a \in RuntimeGraph : a[1] \in Vertices(RuntimeGraph) /\ a[2] \in Vertices(RuntimeGraph)
  BY DEF Vertices
<1> QED
  BY <1>3, <1>4, <1>5

(* Each run cycle has a run requirement inside, so that no cohort is       *)
(* without a witness and no two cycles have the same cohort.               *)
LEMMA CohortWitnessed ==
  ASSUME TypeOK, NEW C \in RunCycles
  PROVE  \E e \in CohortOf(C).witnesses : e.issuer \in C /\ e.required \in C
<1>1. C \in StronglyConnected(RuntimeGraph) /\ CyclicComponent(C, RuntimeGraph)
  BY DEF RunCycles, CyclicComponents
<1>2. PICK v \in C : TRUE
  BY <1>1, ComponentsInhabited
<1>3. PICK a \in RuntimeGraph : a[1] = v /\ a[2] \in C
  BY <1>1, <1>2, CyclicHasInnerArc
<1>4. PICK e \in EdgesOf({"run"}) : a = <<e.issuer, e.required>>
  BY DEF RuntimeGraph
<1> QED
  BY <1>2, <1>3, <1>4 DEF CohortOf

LEMMA SameCohortSameCycle ==
  ASSUME TypeOK, NEW C \in RunCycles, NEW D \in RunCycles, CohortOf(C) = CohortOf(D)
  PROVE  C = D
<1>1. PICK e \in CohortOf(C).witnesses : e.issuer \in C
  BY CohortWitnessed
<1>2. e.issuer \in D
  BY <1>1 DEF CohortOf
<1>3. C \in StronglyConnected(RuntimeGraph) /\ D \in StronglyConnected(RuntimeGraph)
  BY DEF RunCycles, CyclicComponents
<1> QED
  BY <1>1, <1>2, <1>3, ComponentsDisjoint

(* A run requirement is internal exactly if it lies on a cycle.            *)
LEMMA SameCohortAgrees ==
  ASSUME TypeOK, CohortsMatch(RunCycles), NEW e \in resolution.edges, e.scope = "run"
  PROVE  SameCohort(e) <=> e.required \in ComponentOf(RuntimeGraph, e.issuer)
<1> DEFINE arc == <<e.issuer, e.required>>
           C == ComponentOf(RuntimeGraph, e.issuer)
<1>1. arc \in RuntimeGraph
  BY DEF RuntimeGraph, EdgesOf
<1>2. arc[1] = e.issuer /\ arc[2] = e.required
  OBVIOUS
<1>3. e.issuer \in Vertices(RuntimeGraph) /\ e.required \in Vertices(RuntimeGraph)
  BY <1>1, <1>2 DEF Vertices
<1>4. e.issuer \in C /\ C \in StronglyConnected(RuntimeGraph)
  BY <1>3, InItsComponent DEF StronglyConnected
<1>5. ASSUME e.required \in C PROVE SameCohort(e)
  <2>1. CyclicComponent(C, RuntimeGraph)
    BY <1>1, <1>2, <1>4, <1>5, RuntimeGraphFinite, InnerArcIsCyclic
  <2>2. C \in RunCycles
    BY <1>4, <2>1 DEF RunCycles, CyclicComponents
  <2> HIDE DEF C
  <2> QED
    BY <1>4, <1>5, <2>2 DEF SameCohort, CohortsMatch
<1>6. ASSUME SameCohort(e) PROVE e.required \in C
  <2>1. /\ e.issuer \in DOMAIN runtime_component /\ e.required \in DOMAIN runtime_component
        /\ runtime_component[e.issuer] = runtime_component[e.required]
    BY <1>6 DEF SameCohort
  <2>2. PICK A \in RunCycles, B \in RunCycles : e.issuer \in A /\ e.required \in B
    BY <2>1 DEF CohortsMatch
  <2>3. CohortOf(A) = CohortOf(B)
    BY <2>1, <2>2 DEF CohortsMatch
  <2>4. e.required \in A
    BY <2>2, <2>3, SameCohortSameCycle
  <2>5. A \in StronglyConnected(RuntimeGraph)
    BY DEF RunCycles, CyclicComponents
  <2> QED
    BY <2>2, <2>4, <2>5, StronglyConnectedOf
<1> QED
  BY <1>5, <1>6

(* A selection is waited for through its whole cohort, or through itself.  *)
LEMMA BoundaryAgrees ==
  ASSUME TypeOK, policy \in Policy, nodes = Wanting, CohortsMatch(RunCycles),
         NEW s \in Vertices(RuntimeGraph)
  PROVE  RuntimeBoundary(s) = Contract!Group(resolution, nodes, s)
<1> DEFINE C == ComponentOf(RuntimeGraph, s)
<1>1. Contract!Group(resolution, nodes, s) = UNION {Contract!Available(nodes, t) : t \in C}
  BY GraphsAlike, CondensedAlike DEF Contract!Group
<1>2. s \in C
  BY InItsComponent
<1>3. CASE C \in RunCycles
  <2>1. s \in DOMAIN runtime_component /\ cohorts[runtime_component[s]] = CohortOf(C)
    BY <1>2, <1>3 DEF CohortsMatch
  <2>2. CohortOf(C).members = UNION {Contract!Available(nodes, t) : t \in C}
    BY CohortAgrees
  <2> QED
    BY <1>1, <2>1, <2>2 DEF RuntimeBoundary
<1>4. CASE C \notin RunCycles
  <2>1. C = {s}
    BY <1>4, RuntimeGraphFinite, AcyclicComponent DEF RunCycles
  <2>2. s \notin DOMAIN runtime_component
    <3>1. ASSUME NEW D \in RunCycles, s \in D PROVE FALSE
      <4>1. D \in StronglyConnected(RuntimeGraph)
        BY DEF RunCycles, CyclicComponents
      <4>2. D = C
        BY <3>1, <4>1, StronglyConnectedOf
      <4> QED
        BY <1>4, <4>2
    <3> QED
      BY <3>1 DEF CohortsMatch
  <2>3. UNION {Contract!Available(nodes, t) : t \in C} = Contract!Available(nodes, s)
    BY <2>1
  <2> QED
    BY <1>1, <2>2, <2>3, AvailableAgrees DEF RuntimeBoundary
<1> QED
  BY <1>3, <1>4

-----------------------------------------------------------------------------
(* The requirements order the nodes as the contract says.                  *)

LEMMA GatesAgree ==
  ASSUME TypeOK, NEW e \in resolution.edges, e.scope # "run"
  PROVE  Consumer(e) = Contract!Gate(nodes, e)
<1>1. e.scope \in Scope
  BY DEF TypeOK, IsResolution, RequirementEdge
<1>2. e.scope \in LifecycleAction <=> e.scope \notin {"build", "check"}
  BY <1>1 DEF Scope, LifecycleAction, InstallAction, RemovalAction
<1> QED
  BY <1>2 DEF Consumer, Lookup, LookupLifecycle, Contract!Gate, Contract!Doing

LEMMA PairsAgree ==
  ASSUME TypeOK, policy \in Policy, nodes = Wanting, CohortsMatch(RunCycles),
         NEW e \in resolution.edges, NEW n, NEW m
  PROVE  <<n, m>> \in RequirementPairs(e) <=>
           /\ n \in nodes
           /\ m \in nodes
           /\ IF e.scope = "run"
                THEN /\ e.required \notin ComponentOf(RuntimeGraph, e.issuer)
                     /\ n \in Contract!Group(resolution, nodes, e.required)
                     /\ m \in Contract!Group(resolution, nodes, e.issuer)
                ELSE /\ n \in Contract!Available(nodes, e.required)
                     /\ m \in Contract!Gate(nodes, e)
<1>1. \A s : Contract!Available(nodes, s) \subseteq nodes
  BY DEF Contract!Available, Contract!Doing
<1>2. \A s : Contract!Group(resolution, nodes, s) \subseteq nodes
  BY <1>1 DEF Contract!Group
<1>3. Contract!Gate(nodes, e) \subseteq nodes
  BY DEF Contract!Gate, Contract!Doing
<1>4. CASE e.scope = "run"
  <2>1. e.issuer \in Vertices(RuntimeGraph) /\ e.required \in Vertices(RuntimeGraph)
    <3>1. <<e.issuer, e.required>> \in RuntimeGraph
      BY <1>4 DEF RuntimeGraph, EdgesOf
    <3>2. <<e.issuer, e.required>>[1] = e.issuer /\ <<e.issuer, e.required>>[2] = e.required
      OBVIOUS
    <3> QED
      BY <3>1, <3>2 DEF Vertices
  <2>2. /\ RuntimeBoundary(e.issuer) = Contract!Group(resolution, nodes, e.issuer)
        /\ RuntimeBoundary(e.required) = Contract!Group(resolution, nodes, e.required)
    BY <2>1, BoundaryAgrees
  <2>3. SameCohort(e) <=> e.required \in ComponentOf(RuntimeGraph, e.issuer)
    BY <1>4, SameCohortAgrees
  <2> QED
    BY <1>2, <1>4, <2>2, <2>3 DEF RequirementPairs
<1>5. CASE e.scope # "run"
  BY <1>1, <1>3, <1>5, GatesAgree, AvailableAgrees DEF RequirementPairs
<1> QED
  BY <1>4, <1>5

LEMMA RequirementsAgree ==
  ASSUME TypeOK, policy \in Policy, nodes = Wanting, CohortsMatch(RunCycles)
  PROVE  UNION {RequirementEdges(e) : e \in resolution.edges}
           = Contract!RequirementOrder(resolution, nodes)
<1> DEFINE ordered(e, n, m) ==
             IF e.scope = "run"
               THEN /\ e.required \notin ComponentOf(RuntimeGraph, e.issuer)
                    /\ n \in Contract!Group(resolution, nodes, e.required)
                    /\ m \in Contract!Group(resolution, nodes, e.issuer)
               ELSE /\ n \in Contract!Available(nodes, e.required)
                    /\ m \in Contract!Gate(nodes, e)
           edge(e, n, m) == [before |-> n, after |-> m, witness |-> {e}, phase |-> "none"]
<1>1. \A e \in resolution.edges : \A n, m :
        <<n, m>> \in RequirementPairs(e) <=> n \in nodes /\ m \in nodes /\ ordered(e, n, m)
  BY PairsAgree
<1>2. \A e, x : x \in RequirementEdges(e) <=>
                  \E y \in RequirementPairs(e) : y[1] # y[2] /\ x = edge(e, y[1], y[2])
  BY DEF RequirementEdges
<1>3. \A e : \A y \in RequirementPairs(e) : y = <<y[1], y[2]>>
  BY DEF RequirementPairs
<1>4. \A x : x \in Contract!RequirementOrder(resolution, nodes) <=>
        /\ x \in [before : nodes, after : nodes,
                  witness : {{e} : e \in resolution.edges}, phase : {"none"}]
        /\ x.before # x.after
        /\ \A e \in x.witness : ordered(e, x.before, x.after)
  <2>1. \A v : ComponentOf(Contract!RunGraph(resolution), v) = ComponentOf(RuntimeGraph, v)
    BY GraphsAlike
  <2>2. \A v : Contract!ComponentOf(Contract!RunGraph(resolution), v)
                 = ComponentOf(RuntimeGraph, v)
    BY <2>1, CondensedAlike
  <2> QED
    BY <2>2 DEF Contract!RequirementOrder
<1> HIDE DEF ordered
<1>5. ASSUME NEW e \in resolution.edges, NEW x \in RequirementEdges(e)
      PROVE  x \in Contract!RequirementOrder(resolution, nodes)
  <2>1. PICK y \in RequirementPairs(e) : y[1] # y[2] /\ x = edge(e, y[1], y[2])
    BY <1>2, <1>5
  <2>2. y[1] \in nodes /\ y[2] \in nodes /\ ordered(e, y[1], y[2])
    BY <1>1, <1>3
  <2> QED
    BY <1>4, <2>1, <2>2
<1>6. ASSUME NEW x \in Contract!RequirementOrder(resolution, nodes)
      PROVE  \E e \in resolution.edges : x \in RequirementEdges(e)
  <2>1. PICK e \in resolution.edges : x.witness = {e}
    BY <1>4
  <2>2. x = edge(e, x.before, x.after) /\ x.before # x.after
    BY <1>4, <2>1
  <2>3. <<x.before, x.after>> \in RequirementPairs(e)
    BY <1>1, <1>4, <2>1
  <2>4. <<x.before, x.after>>[1] = x.before /\ <<x.before, x.after>>[2] = x.after
    OBVIOUS
  <2> HIDE DEF edge
  <2> QED
    BY <1>2, <2>2, <2>3, <2>4
<1> QED
  BY <1>5, <1>6

-----------------------------------------------------------------------------
(* The phases order the nodes as the contract says.                        *)

LEMMA FatesAre ==
  ASSUME TypeOK, policy \in Policy, nodes = Wanting, NEW p, NEW m
  PROVE  m \in Fates(p) <=>
           m \in nodes /\ m.package = p /\ Contract!Mutates(m, {"upgrade", "remove"})
<1>1. m \in nodes /\ m.action = "remove" => m = RemoveNode(m.package)
  BY WantedSelection
<1>2. RemoveNode(p).action = "remove" /\ RemoveNode(p).package = p
        /\ RemoveNode(p).environment = "target"
  BY DEF RemoveNode
<1> QED
  BY <1>1, <1>2
  DEF Fates, RemovalLifecycleTarget, RemoveOf, TargetUpgradeNode, Contract!Mutates

LEMMA WantedInTarget ==
  ASSUME TypeOK, policy \in Policy, NEW n \in Wanting, n.action \in {"install", "upgrade"}
  PROVE  n.environment = "target"
<1>1. PICK s \in Selections : n.selection = {s}
  BY WantedSelection
<1>2. n.action \in ActionsOf(s) /\ n = SelectedNode(s, n.action, "none")
  BY <1>1, WantedAction DEF Placing
<1>3. s \in Contract!Incoming(resolution)
  BY <1>2, ActionsAgree
<1> QED
  BY <1>2, <1>3 DEF Contract!Incoming, Contract!Demanded, Contract!InTarget, SelectedNode,
                    Selected

(* Each pair of nodes has at most one phase order.                         *)
LEMMA PhaseKinds ==
  ASSUME TypeOK, policy \in Policy, NEW n \in Wanting, NEW m \in Wanting
  PROVE  LET phase == Contract!PhaseOf(resolution, n, m)
             same == n.selection = m.selection
             brings == m.action \in {"install", "upgrade"}
             brought == n.action \in {"install", "upgrade"}
         IN /\ phase = "build_before_check"
                 <=> same /\ n.action = "build" /\ m.action = "check"
            /\ phase = "build_before_target" <=> same /\ n.action = "build" /\ brings
            /\ phase = "check_before_target" <=> same /\ n.action = "check" /\ brings
            /\ phase = "pre_lifecycle_before_action" <=>
                 \/ n.lifecycle = "pre_install" /\ same /\ brings
                 \/ n.lifecycle = "pre_remove" /\ Contract!TakesAway(resolution, n, m)
            /\ phase = "action_before_post_lifecycle" <=>
                 \/ m.lifecycle = "post_install" /\ same /\ brought
                 \/ m.lifecycle = "post_remove" /\ Contract!TakesAway(resolution, m, n)
<1>1. /\ Contract!Mutates(m, {"install", "upgrade"}) <=> m.action \in {"install", "upgrade"}
      /\ Contract!Mutates(n, {"install", "upgrade"}) <=> n.action \in {"install", "upgrade"}
  BY WantedInTarget DEF Contract!Mutates
<1>2. /\ n.lifecycle \in {"pre_install", "pre_remove"} => n.action = "lifecycle"
      /\ m.lifecycle \in {"post_install", "post_remove"} => m.action = "lifecycle"
  BY WantedSelection
<1>3. /\ Contract!TakesAway(resolution, n, m) => m.action \in {"upgrade", "remove"}
      /\ Contract!TakesAway(resolution, m, n) => n.action \in {"upgrade", "remove"}
  BY DEF Contract!TakesAway, Contract!Mutates
<1> DEFINE same == n.selection = m.selection
           brings == m.action \in {"install", "upgrade"}
           brought == n.action \in {"install", "upgrade"}
           pre == \/ n.lifecycle = "pre_install" /\ same /\ brings
                  \/ n.lifecycle = "pre_remove" /\ Contract!TakesAway(resolution, n, m)
           post == \/ m.lifecycle = "post_install" /\ same /\ brought
                   \/ m.lifecycle = "post_remove" /\ Contract!TakesAway(resolution, m, n)
<1>4. Contract!PhaseOf(resolution, n, m) =
        IF same /\ n.action = "build" /\ m.action = "check" THEN "build_before_check"
        ELSE IF same /\ n.action = "build" /\ brings THEN "build_before_target"
        ELSE IF same /\ n.action = "check" /\ brings THEN "check_before_target"
        ELSE IF pre THEN "pre_lifecycle_before_action"
        ELSE IF post THEN "action_before_post_lifecycle"
        ELSE "none"
  BY <1>1 DEF Contract!PhaseOf
<1>5. /\ pre => n.action = "lifecycle"
      /\ post => m.action = "lifecycle" /\ n.action \in {"install", "upgrade", "remove"}
  BY <1>2, <1>3
<1>6. /\ Contract!PhaseOf(resolution, n, m) = "build_before_check"
           <=> same /\ n.action = "build" /\ m.action = "check"
      /\ Contract!PhaseOf(resolution, n, m) = "build_before_target"
           <=> same /\ n.action = "build" /\ brings
      /\ Contract!PhaseOf(resolution, n, m) = "check_before_target"
           <=> same /\ n.action = "check" /\ brings
      /\ Contract!PhaseOf(resolution, n, m) = "pre_lifecycle_before_action" <=> pre
      /\ Contract!PhaseOf(resolution, n, m) = "action_before_post_lifecycle" <=> post
  <2> HIDE DEF same, pre, post
  <2> QED
    BY <1>4, <1>5
<1> QED
  BY <1>6

PhaseEdge(n, m, order) ==
  [before |-> n, after |-> m, witness |-> {}, phase |-> order]

LEMMA EdgesBetween ==
  ASSUME NEW B, NEW A, NEW order, NEW x
  PROVE  x \in PhaseEdgesBetween(B, A, order)
           <=> \E n \in B, m \in A : x = PhaseEdge(n, m, order)
<1>1. x \in PhaseEdgesBetween(B, A, order)
        <=> \E y \in B \X A : x = PhaseEdge(y[1], y[2], order)
  BY DEF PhaseEdgesBetween, PhaseEdge
<1>2. ASSUME NEW n \in B, NEW m \in A, x = PhaseEdge(n, m, order)
      PROVE  \E y \in B \X A : x = PhaseEdge(y[1], y[2], order)
  <2>1. <<n, m>> \in B \X A /\ <<n, m>>[1] = n /\ <<n, m>>[2] = m
    OBVIOUS
  <2> QED
    BY <1>2, <2>1
<1>3. ASSUME NEW y \in B \X A, x = PhaseEdge(y[1], y[2], order)
      PROVE  \E n \in B, m \in A : x = PhaseEdge(n, m, order)
  <2>1. y[1] \in B /\ y[2] \in A
    OBVIOUS
  <2> QED
    BY <1>3, <2>1
<1> QED
  BY <1>1, <1>2, <1>3

LEMMA LookupsAre ==
  ASSUME NEW s, NEW n
  PROVE  /\ \A action : n \in Lookup(s, action)
                          <=> n \in nodes /\ n.selection = {s} /\ n.action = action
         /\ \A action : n \in LookupLifecycle(s, action)
                          <=> /\ n \in nodes /\ n.selection = {s}
                              /\ n.action = "lifecycle" /\ n.lifecycle = action
         /\ n \in MutationOf(s)
              <=> n \in nodes /\ n.selection = {s} /\ n.action \in {"install", "upgrade"}
BY DEF Lookup, LookupLifecycle, MutationOf

(* The phases of one selection, node by node.                              *)
LEMMA PhaseEdgesAre ==
  ASSUME NEW s, NEW x
  PROVE  x \in PhaseEdges(s) <=>
           \E n \in nodes, m \in nodes :
             /\ n.selection = {s}
             /\ m.selection = {s}
             /\ \/ /\ n.action = "build" /\ m.action = "check"
                   /\ x = PhaseEdge(n, m, "build_before_check")
                \/ /\ n.action = "build" /\ m.action \in {"install", "upgrade"}
                   /\ x = PhaseEdge(n, m, "build_before_target")
                \/ /\ n.action = "check" /\ m.action \in {"install", "upgrade"}
                   /\ x = PhaseEdge(n, m, "check_before_target")
                \/ /\ n.action = "lifecycle" /\ n.lifecycle = "pre_install"
                   /\ m.action \in {"install", "upgrade"}
                   /\ x = PhaseEdge(n, m, "pre_lifecycle_before_action")
                \/ /\ m.action = "lifecycle" /\ m.lifecycle = "post_install"
                   /\ n.action \in {"install", "upgrade"}
                   /\ x = PhaseEdge(n, m, "action_before_post_lifecycle")
<1>1. x \in PhaseEdges(s) <=>
        \/ \E n \in Lookup(s, "build"), m \in Lookup(s, "check") :
             x = PhaseEdge(n, m, "build_before_check")
        \/ \E n \in Lookup(s, "build"), m \in MutationOf(s) :
             x = PhaseEdge(n, m, "build_before_target")
        \/ \E n \in Lookup(s, "check"), m \in MutationOf(s) :
             x = PhaseEdge(n, m, "check_before_target")
        \/ \E n \in LookupLifecycle(s, "pre_install"), m \in MutationOf(s) :
             x = PhaseEdge(n, m, "pre_lifecycle_before_action")
        \/ \E n \in MutationOf(s), m \in LookupLifecycle(s, "post_install") :
             x = PhaseEdge(n, m, "action_before_post_lifecycle")
  BY EdgesBetween DEF PhaseEdges
<1> QED
  BY <1>1, LookupsAre

LEMMA RemovalPhaseEdgesAre ==
  ASSUME NEW p, NEW T, NEW x
  PROVE  x \in RemovalPhaseEdges(p, T) <=>
           \E s \in InstalledSelections(p) :
             \/ \E n \in LookupLifecycle(s, "pre_remove"), m \in T :
                  x = PhaseEdge(n, m, "pre_lifecycle_before_action")
             \/ \E n \in T, m \in LookupLifecycle(s, "post_remove") :
                  x = PhaseEdge(n, m, "action_before_post_lifecycle")
<1>1. \A s : x \in PhaseEdgesBetween(LookupLifecycle(s, "pre_remove"), T,
                                     "pre_lifecycle_before_action")
               <=> \E n \in LookupLifecycle(s, "pre_remove"), m \in T :
                     x = PhaseEdge(n, m, "pre_lifecycle_before_action")
  BY EdgesBetween
<1>2. \A s : x \in PhaseEdgesBetween(T, LookupLifecycle(s, "post_remove"),
                                     "action_before_post_lifecycle")
               <=> \E n \in T, m \in LookupLifecycle(s, "post_remove") :
                     x = PhaseEdge(n, m, "action_before_post_lifecycle")
  BY EdgesBetween
<1> QED
  BY <1>1, <1>2 DEF RemovalPhaseEdges

(* A removal program meets what takes its package away.                    *)
LEMMA TakesAwayIs ==
  ASSUME TypeOK, policy \in Policy, nodes = Wanting, NEW n \in nodes, NEW m \in nodes,
         n.action = "lifecycle"
  PROVE  Contract!TakesAway(resolution, n, m) <=>
           \E p \in DOMAIN resolution.installed :
             /\ m \in Fates(p)
             /\ \E s \in InstalledSelections(p) : n.selection = {s}
<1>1. PICK s \in Selections : n.selection = {s}
  BY WantedSelection
<1>2. \A p : m \in Fates(p) <=>
               m.package = p /\ Contract!Mutates(m, {"upgrade", "remove"})
  BY FatesAre
<1>3. \A p : s \in InstalledSelections(p) <=>
               /\ FromInstalled(resolution, s)
               /\ resolution.selections[s].authority.package = p
               /\ resolution.selections[s].authority.version = resolution.installed[p]
  BY DEF InstalledSelections, Selections, Selected
<1>4. \A t : Contract!FromInstalled(resolution, t) <=> FromInstalled(resolution, t)
  BY DEF Contract!FromInstalled, FromInstalled, Contract!AuthorityKind, AuthorityKind
<1>5. Contract!TakesAway(resolution, n, m) <=>
        /\ Contract!Mutates(m, {"upgrade", "remove"})
        /\ FromInstalled(resolution, s)
        /\ resolution.selections[s].authority.package = m.package
        /\ m.package \in DOMAIN resolution.installed
        /\ resolution.selections[s].authority.version = resolution.installed[m.package]
  BY <1>1, <1>4 DEF Contract!TakesAway
<1>6. (\E p \in DOMAIN resolution.installed :
         /\ m \in Fates(p)
         /\ \E t \in InstalledSelections(p) : n.selection = {t})
      <=> /\ m.package \in DOMAIN resolution.installed
          /\ m \in Fates(m.package)
          /\ s \in InstalledSelections(m.package)
  BY <1>1, <1>2
<1> QED
  BY <1>2, <1>3, <1>5, <1>6

LEMMA PhasesAgree ==
  ASSUME TypeOK, policy \in Policy, nodes = Wanting
  PROVE  (UNION {PhaseEdges(s) : s \in Selections})
           \cup (UNION {RemovalPhaseEdges(p, Fates(p)) : p \in DOMAIN resolution.installed})
           = Contract!PhaseOrdering(resolution, nodes)
<1> DEFINE ordered(n, m, order) == Contract!PhaseOf(resolution, n, m) = order
           removing(n, m) == Contract!TakesAway(resolution, n, m)
<1>1. \A x : x \in Contract!PhaseOrdering(resolution, nodes) <=>
               \E n \in nodes, m \in nodes : \E order \in Contract!PhaseKind :
                 ordered(n, m, order) /\ x = PhaseEdge(n, m, order)
  BY DEF Contract!PhaseOrdering, PhaseEdge
<1>2. \A n \in nodes : \/ \E s \in Selections : n.selection = {s}
                       \/ n.action = "remove" /\ n.lifecycle = "none"
  BY WantedSelection
<1>3. \A n \in nodes : n.lifecycle \in LifecycleAction <=> n.action = "lifecycle"
  BY WantedSelection DEF LifecycleAction, InstallAction, RemovalAction
<1>4. \A n, m \in nodes :
        /\ ordered(n, m, "build_before_check")
             <=> n.selection = m.selection /\ n.action = "build" /\ m.action = "check"
        /\ ordered(n, m, "build_before_target")
             <=> n.selection = m.selection /\ n.action = "build"
                   /\ m.action \in {"install", "upgrade"}
        /\ ordered(n, m, "check_before_target")
             <=> n.selection = m.selection /\ n.action = "check"
                   /\ m.action \in {"install", "upgrade"}
        /\ ordered(n, m, "pre_lifecycle_before_action") <=>
             \/ n.lifecycle = "pre_install" /\ n.selection = m.selection
                  /\ m.action \in {"install", "upgrade"}
             \/ n.lifecycle = "pre_remove" /\ removing(n, m)
        /\ ordered(n, m, "action_before_post_lifecycle") <=>
             \/ m.lifecycle = "post_install" /\ n.selection = m.selection
                  /\ n.action \in {"install", "upgrade"}
             \/ m.lifecycle = "post_remove" /\ removing(m, n)
  BY PhaseKinds
<1>5. \A n, m \in nodes : n.action = "lifecycle" =>
        (removing(n, m) <=> \E p \in DOMAIN resolution.installed :
                              /\ m \in Fates(p)
                              /\ \E s \in InstalledSelections(p) : n.selection = {s})
  BY TakesAwayIs
<1>6. /\ \A p : Fates(p) \subseteq nodes
      /\ \A p : InstalledSelections(p) \subseteq Selections
  BY DEF Fates, RemovalLifecycleTarget, RemoveOf, TargetUpgradeNode, InstalledSelections,
         Selections
<1> HIDE DEF ordered, removing
<1>7. \A n \in nodes, m \in nodes : \A order \in Contract!PhaseKind :
         ordered(n, m, order)
           => PhaseEdge(n, m, order) \in Contract!PhaseOrdering(resolution, nodes)
  BY <1>1
<1>8. /\ "build_before_check" \in Contract!PhaseKind
       /\ "build_before_target" \in Contract!PhaseKind
       /\ "check_before_target" \in Contract!PhaseKind
       /\ "pre_lifecycle_before_action" \in Contract!PhaseKind
       /\ "action_before_post_lifecycle" \in Contract!PhaseKind
  BY DEF Contract!PhaseKind
<1>9. ASSUME NEW s \in Selections, NEW x \in PhaseEdges(s)
      PROVE  x \in Contract!PhaseOrdering(resolution, nodes)
  <2>1. PICK n \in nodes, m \in nodes :
             /\ n.selection = m.selection
             /\ \/ /\ n.action = "build" /\ m.action = "check"
                   /\ x = PhaseEdge(n, m, "build_before_check")
                \/ /\ n.action = "build" /\ m.action \in {"install", "upgrade"}
                   /\ x = PhaseEdge(n, m, "build_before_target")
                \/ /\ n.action = "check" /\ m.action \in {"install", "upgrade"}
                   /\ x = PhaseEdge(n, m, "check_before_target")
                \/ /\ n.lifecycle = "pre_install" /\ m.action \in {"install", "upgrade"}
                   /\ x = PhaseEdge(n, m, "pre_lifecycle_before_action")
                \/ /\ m.lifecycle = "post_install" /\ n.action \in {"install", "upgrade"}
                   /\ x = PhaseEdge(n, m, "action_before_post_lifecycle")
    <3>1. PICK n \in nodes, m \in nodes :
             /\ n.selection = {s}
             /\ m.selection = {s}
             /\ \/ /\ n.action = "build" /\ m.action = "check"
                   /\ x = PhaseEdge(n, m, "build_before_check")
                \/ /\ n.action = "build" /\ m.action \in {"install", "upgrade"}
                   /\ x = PhaseEdge(n, m, "build_before_target")
                \/ /\ n.action = "check" /\ m.action \in {"install", "upgrade"}
                   /\ x = PhaseEdge(n, m, "check_before_target")
                \/ /\ n.action = "lifecycle" /\ n.lifecycle = "pre_install"
                   /\ m.action \in {"install", "upgrade"}
                   /\ x = PhaseEdge(n, m, "pre_lifecycle_before_action")
                \/ /\ m.action = "lifecycle" /\ m.lifecycle = "post_install"
                   /\ n.action \in {"install", "upgrade"}
                   /\ x = PhaseEdge(n, m, "action_before_post_lifecycle")
      BY <1>9, PhaseEdgesAre
    <3> QED
      BY <3>1
  <2> QED
    BY <1>4, <1>7, <1>8, <2>1
<1>10. ASSUME NEW p \in DOMAIN resolution.installed, NEW x \in RemovalPhaseEdges(p, Fates(p))
      PROVE  x \in Contract!PhaseOrdering(resolution, nodes)
  <2>1. PICK s \in InstalledSelections(p) :
          \/ \E n \in LookupLifecycle(s, "pre_remove"), m \in Fates(p) :
               x = PhaseEdge(n, m, "pre_lifecycle_before_action")
          \/ \E n \in Fates(p), m \in LookupLifecycle(s, "post_remove") :
               x = PhaseEdge(n, m, "action_before_post_lifecycle")
    BY <1>10, RemovalPhaseEdgesAre
  <2>2. CASE \E n \in LookupLifecycle(s, "pre_remove"), m \in Fates(p) :
               x = PhaseEdge(n, m, "pre_lifecycle_before_action")
    <3>1. PICK n \in LookupLifecycle(s, "pre_remove"), m \in Fates(p) :
            x = PhaseEdge(n, m, "pre_lifecycle_before_action")
      BY <2>2
    <3>2. /\ n \in nodes /\ m \in nodes /\ n.selection = {s}
          /\ n.action = "lifecycle" /\ n.lifecycle = "pre_remove"
      BY <1>6, LookupsAre
    <3>3. removing(n, m)
      BY <1>5, <3>2
    <3> QED
      BY <1>4, <1>7, <1>8, <3>1, <3>2, <3>3
  <2>3. CASE \E n \in Fates(p), m \in LookupLifecycle(s, "post_remove") :
               x = PhaseEdge(n, m, "action_before_post_lifecycle")
    <3>1. PICK n \in Fates(p), m \in LookupLifecycle(s, "post_remove") :
            x = PhaseEdge(n, m, "action_before_post_lifecycle")
      BY <2>3
    <3>2. /\ n \in nodes /\ m \in nodes /\ m.selection = {s}
          /\ m.action = "lifecycle" /\ m.lifecycle = "post_remove"
      BY <1>6, LookupsAre
    <3>3. removing(m, n)
      BY <1>5, <3>2
    <3> QED
      BY <1>4, <1>7, <1>8, <3>1, <3>2, <3>3
  <2> QED
    BY <2>1, <2>2, <2>3
<1>11. ASSUME NEW x \in Contract!PhaseOrdering(resolution, nodes)
      PROVE  \/ \E s \in Selections : x \in PhaseEdges(s)
             \/ \E p \in DOMAIN resolution.installed : x \in RemovalPhaseEdges(p, Fates(p))
  <2>1. PICK n \in nodes, m \in nodes, order \in Contract!PhaseKind :
          ordered(n, m, order) /\ x = PhaseEdge(n, m, order)
    BY <1>1, <1>11
  <2>2. CASE n.lifecycle = "pre_remove" /\ removing(n, m)
               /\ order = "pre_lifecycle_before_action"
    <3>1. n.action = "lifecycle"
      BY <1>3, <2>2 DEF LifecycleAction, RemovalAction
    <3>2. PICK p \in DOMAIN resolution.installed :
            m \in Fates(p) /\ \E s \in InstalledSelections(p) : n.selection = {s}
      BY <1>5, <2>2, <3>1
    <3>3. PICK s \in InstalledSelections(p) : n.selection = {s}
      BY <3>2
    <3>4. n \in LookupLifecycle(s, "pre_remove")
      BY <2>2, <3>1, <3>3, LookupsAre
    <3> QED
      BY <2>1, <2>2, <3>2, <3>3, <3>4, RemovalPhaseEdgesAre
  <2>3. CASE m.lifecycle = "post_remove" /\ removing(m, n)
               /\ order = "action_before_post_lifecycle"
    <3>1. m.action = "lifecycle"
      BY <1>3, <2>3 DEF LifecycleAction, RemovalAction
    <3>2. PICK p \in DOMAIN resolution.installed :
            n \in Fates(p) /\ \E s \in InstalledSelections(p) : m.selection = {s}
      BY <1>5, <2>3, <3>1
    <3>3. PICK s \in InstalledSelections(p) : m.selection = {s}
      BY <3>2
    <3>4. m \in LookupLifecycle(s, "post_remove")
      BY <2>3, <3>1, <3>3, LookupsAre
    <3> QED
      BY <2>1, <2>3, <3>2, <3>3, <3>4, RemovalPhaseEdgesAre
  <2>4. CASE /\ n.selection = m.selection
             /\ \/ /\ n.action = "build" /\ m.action = "check"
                   /\ order = "build_before_check"
                \/ /\ n.action = "build" /\ m.action \in {"install", "upgrade"}
                   /\ order = "build_before_target"
                \/ /\ n.action = "check" /\ m.action \in {"install", "upgrade"}
                   /\ order = "check_before_target"
                \/ /\ n.lifecycle = "pre_install" /\ m.action \in {"install", "upgrade"}
                   /\ order = "pre_lifecycle_before_action"
                \/ /\ m.lifecycle = "post_install" /\ n.action \in {"install", "upgrade"}
                   /\ order = "action_before_post_lifecycle"
    <3>1. n.lifecycle = "pre_install" => n.action = "lifecycle"
      BY <1>3 DEF LifecycleAction, InstallAction
    <3>2. m.lifecycle = "post_install" => m.action = "lifecycle"
      BY <1>3 DEF LifecycleAction, InstallAction
    <3>3. PICK s \in Selections : n.selection = {s}
      BY <1>2, <2>4
    <3>4. n.selection = {s} /\ m.selection = {s} /\ x = PhaseEdge(n, m, order)
      BY <2>1, <2>4, <3>3
    <3>5. x \in PhaseEdges(s)
      BY <2>4, <3>1, <3>2, <3>4, PhaseEdgesAre
    <3> QED
      BY <3>5
  <2> QED
    BY <1>4, <2>1, <2>2, <2>3, <2>4 DEF Contract!PhaseKind
<1> QED
  BY <1>9, <1>10, <1>11

-----------------------------------------------------------------------------
(* What a step decides of the request is what the contract decides.        *)

(* A lifecycle program is bound unless the contract calls it unattached.   *)
LEMMA AttachedAgrees ==
  ASSUME TypeOK, policy \in Policy, nodes = Wanting, Removals \subseteq DOMAIN resolution.installed,
         NEW n \in nodes, n.action = "lifecycle", NEW s, n.selection = {s}
  PROVE  BindTargets(n, s) = {} <=> Contract!Unattached(resolution, nodes, n)
<1> DEFINE p == Selected(s).authority.package
           version == Selected(s).authority.version
<1>1. Contract!Unattached(resolution, nodes, n) <=>
        IF n.lifecycle \in InstallAction
          THEN Contract!Doing(nodes, s, {"install", "upgrade"}) = {}
        ELSE \/ ~FromInstalled(resolution, s)
             \/ ~\E m \in nodes :
                  \/ Contract!TakesAway(resolution, n, m)
                  \/ Contract!Mutates(m, {"upgrade"}) /\ m.package = p
  BY DEF Contract!Unattached, Contract!InstallAction, InstallAction, Selected,
         Contract!FromInstalled, FromInstalled, Contract!AuthorityKind, AuthorityKind
<1>2. CASE n.lifecycle \in InstallAction
  <2>1. MutationOf(s) = Contract!Doing(nodes, s, {"install", "upgrade"})
    BY DEF MutationOf, Lookup, Contract!Doing
  <2> QED
    BY <1>1, <1>2, <2>1 DEF BindTargets
<1>3. CASE n.lifecycle \notin InstallAction /\ FromInstalled(resolution, s)
  <2>1. \A m \in nodes : Contract!TakesAway(resolution, n, m) <=>
          /\ Contract!Mutates(m, {"upgrade", "remove"})
          /\ p = m.package
          /\ m.package \in DOMAIN resolution.installed
          /\ version = resolution.installed[m.package]
    BY <1>3 DEF Contract!TakesAway, Contract!FromInstalled, FromInstalled, Selected,
       Contract!AuthorityKind, AuthorityKind
  <2>2. \A m \in nodes :
          m.action = "remove" => /\ m = RemoveNode(m.package)
                                 /\ m.package \in DOMAIN resolution.installed
    BY WantedSelection
  <2>3. RemoveNode(p).action = "remove" /\ RemoveNode(p).package = p
          /\ RemoveNode(p).environment = "target"
    BY DEF RemoveNode
  <2>4. BindTargets(n, s) = RemovalLifecycleTarget(p, version)
    BY <1>3 DEF BindTargets
  <2>5. \A m : m \in RemovalLifecycleTarget(p, version) <=>
          /\ m \in nodes
          /\ \/ m = RemoveNode(p) /\ resolution.installed[p] = version
             \/ m.environment = "target" /\ m.action = "upgrade" /\ m.package = p
    BY DEF RemovalLifecycleTarget, RemoveOf, TargetUpgradeNode
  <2> HIDE DEF p, version
  <2>6. \A m \in nodes : m \in RemovalLifecycleTarget(p, version) <=>
          \/ Contract!TakesAway(resolution, n, m)
          \/ Contract!Mutates(m, {"upgrade"}) /\ m.package = p
    BY <2>1, <2>2, <2>3, <2>5 DEF Contract!Mutates
  <2> QED
    BY <1>1, <1>3, <2>4, <2>5, <2>6
<1>4. CASE n.lifecycle \notin InstallAction /\ ~FromInstalled(resolution, s)
  BY <1>1, <1>4 DEF BindTargets
<1> QED
  BY <1>2, <1>3, <1>4

(* A goal for a check is sound where the contract finds nothing wrong.     *)
LEMMA CheckAuthorityAgrees ==
  ASSUME NEW s
  PROVE  /\ CheckAuthorityError(s) \in {"none", "inconsistent_authority", "missing_check_program"}
         /\ CheckAuthorityError(s) = "inconsistent_authority"
              <=> Contract!Unchecked(resolution, s)
         /\ CheckAuthorityError(s) = "missing_check_program"
              => ~resolution.selections[s].authority.check_program
         /\ CheckAuthorityError(s) = "none"
              => resolution.selections[s].authority.check_program
BY DEF CheckAuthorityError, Selected, Contract!Unchecked, FromCatalog,
       Contract!FromCatalog, AuthorityKind, Contract!AuthorityKind

(* What loops over the removals and the policy leave to the composer.      *)
LEMMA RemovalsAdmitted ==
  ASSUME ContractInv, stage \notin {"policy", "seal", "failed"}
  PROVE  /\ TypeOK
         /\ policy \in Policy
         /\ Removals \subseteq DOMAIN resolution.installed
         /\ ~Contract!Applies(resolution, policy, "unknown_installed_package")
         /\ ~Contract!Applies(resolution, policy, "selected_for_removal")
<1>1. TypeOK /\ policy \in Policy /\ (policy.mode # "remove_explicit" => policy.removals = {})
  BY DEF ContractInv, RemovalInv, TypeInv, Made, PolicyMade
<1>2. Removals \subseteq DOMAIN resolution.installed
  BY RemovalsInstalled DEF ContractInv
<1>3. ~Contract!Applies(resolution, policy, "unknown_installed_package")
  BY <1>2 DEF Contract!Applies, Removals
<1>4. ASSUME NEW s \in Selections, Contract!InTarget(resolution, s),
             ~Contract!RemovalRoot(resolution, s),
             Contract!PackageOf(resolution, s) \in policy.removals
      PROVE  FALSE
  <2>1. ~SelectedForNonremovalTarget(Contract!PackageOf(resolution, s))
    BY <1>1, <1>4 DEF ContractInv, RemovalInv, RemovalsSealed, Removable
  <2>2. ~RemovalOnly(s)
    BY <1>1, <1>4, ReasonsReadAlike
  <2> QED
    BY <1>4, <2>1, <2>2 DEF SelectedForNonremovalTarget, RemovalOnly, Contract!PackageOf,
       Contract!InTarget, InTarget, Selections
<1>5. ~Contract!Applies(resolution, policy, "selected_for_removal")
  BY <1>4 DEF Contract!Applies, Selections
<1> QED
  BY <1>1, <1>2, <1>3, <1>5

-----------------------------------------------------------------------------
(* What is about to be published is the program of the request, and the    *)
(* request has no reason to be refused.                                    *)

Composed == Published \/ (stage = "removal_phases" /\ todo = {})

LEMMA ComposedMade ==
  ASSUME ContractInv, Composed
  PROVE  /\ nodes = Wanting
         /\ CohortsMatch(RunCycles)
         /\ edges = OrderingOf(resolution.edges, Selections, DOMAIN resolution.installed)
         /\ \A g \in resolution.goals : Sound(g)
         /\ \A n \in Programs : Bound(n)
         /\ \A p \in DOMAIN resolution.installed : OneFate(p)
         /\ ~HasCycle(ConstructionGraph) /\ ~HasCycle(LifecycleGraph)
<1> USE DEF AfterRemovalPhases, AfterPhases, AfterRequirements, AfterCohorts, AfterCycles,
            AfterBind, AfterRemovals, AfterGoals, AfterClassify
<1>1. nodes = Wanting
  BY NodesDone DEF Composed, Published
<1>2. /\ SeenCycles = RunCycles /\ SeenRequirements = resolution.edges
      /\ SeenPhases = Selections /\ SeenInstalled = DOMAIN resolution.installed
      /\ SeenGoals = resolution.goals /\ SeenPrograms = Programs
  BY DEF Seen, SeenCycles, SeenRequirements, SeenPhases, SeenInstalled, SeenGoals,
         SeenPrograms, Composed, Published
<1>3. CohortsMatch(SeenCycles) /\ ProgramsBound
  BY DEF ContractInv, Made
<1>4. /\ edges = OrderingOf(SeenRequirements, SeenPhases, SeenInstalled)
      /\ \A p \in SeenInstalled : OneFate(p)
  BY DEF ContractInv, Made, EdgesMade
<1>5. \A g \in SeenGoals : Sound(g)
  BY DEF ContractInv, Made, NodesMade
<1>6. ~HasCycle(ConstructionGraph) /\ ~HasCycle(LifecycleGraph)
  BY DEF ContractInv, Made, CyclesRefused, Composed, Published
<1>7. \A n \in Programs : Bound(n)
  BY <1>2, <1>3 DEF ProgramsBound
<1> QED
  BY <1>1, <1>2, <1>3, <1>4, <1>5, <1>6, <1>7

LEMMA ComposedAsPromised ==
  ASSUME ContractInv, Composed
  PROVE  [status |-> "program", nodes |-> nodes, edges |-> edges,
          cohorts |-> {cohorts[i] : i \in DOMAIN cohorts}]
           = Contract!Program(resolution, policy)
<1>1. TypeOK /\ policy \in Policy
  BY RemovalsAdmitted DEF Composed, Published
<1>2. nodes = Wanting /\ CohortsMatch(RunCycles)
  BY ComposedMade
<1>3. edges = Contract!RequirementOrder(resolution, nodes)
                \cup Contract!PhaseOrdering(resolution, nodes)
  <2>1. edges = OrderingOf(resolution.edges, Selections, DOMAIN resolution.installed)
    BY ComposedMade
  <2>2. UNION {RequirementEdges(e) : e \in resolution.edges}
          = Contract!RequirementOrder(resolution, nodes)
    BY <1>1, <1>2, RequirementsAgree
  <2>3. (UNION {PhaseEdges(s) : s \in Selections})
           \cup (UNION {RemovalPhaseEdges(p, Fates(p)) : p \in DOMAIN resolution.installed})
           = Contract!PhaseOrdering(resolution, nodes)
    BY <1>1, <1>2, PhasesAgree
  <2> QED
    BY <2>1, <2>2, <2>3 DEF OrderingOf
<1>4. {cohorts[i] : i \in DOMAIN cohorts} = Contract!Cohorts(resolution, nodes)
  <2>1. {cohorts[i] : i \in DOMAIN cohorts} = {CohortOf(C) : C \in RunCycles}
    BY <1>2 DEF CohortsMatch
  <2> QED
    BY <1>1, <1>2, <2>1, CohortsAgree
<1> QED
  BY <1>2, <1>3, <1>4 DEF Contract!Program, Wanting

LEMMA ComposedUnrefused ==
  ASSUME ContractInv, Composed
  PROVE  Contract!Refusals(resolution, policy) = {}
<1>1. /\ TypeOK /\ policy \in Policy
      /\ Removals \subseteq DOMAIN resolution.installed
      /\ ~Contract!Applies(resolution, policy, "unknown_installed_package")
      /\ ~Contract!Applies(resolution, policy, "selected_for_removal")
  BY RemovalsAdmitted DEF Composed, Published
<1>2. /\ nodes = Wanting
      /\ CohortsMatch(RunCycles)
      /\ \A g \in resolution.goals : Sound(g)
      /\ \A n \in Programs : Bound(n)
      /\ \A p \in DOMAIN resolution.installed : OneFate(p)
      /\ ~HasCycle(ConstructionGraph) /\ ~HasCycle(LifecycleGraph)
  BY ComposedMade
<1>3. Contract!Operations(resolution, policy) = nodes
  BY <1>2 DEF Wanting
<1>4. Contract!Goals(resolution) = resolution.goals
  BY <1>2 DEF Contract!Goals, Sound, Selections
<1>5. \A g \in resolution.goals : g.scope = "check" =>
        /\ ~Contract!Unchecked(resolution, g.selection)
        /\ resolution.selections[g.selection].authority.check_program
  BY <1>2, CheckAuthorityAgrees DEF Sound
<1>6. ~Contract!Applies(resolution, policy, "missing_check_program")
  BY <1>4, <1>5 DEF Contract!Applies
<1>7. ~Contract!Applies(resolution, policy, "inconsistent_authority")
  <2>1. ASSUME NEW n \in nodes, n.action = "lifecycle" PROVE n.environment = "target"
    <3>1. PICK g \in resolution.goals : n \in GoalNodes(g)
      BY <1>1, <1>2, <2>1, WantedProgram
    <3> QED
      BY <1>2, <2>1, <3>1 DEF Sound, NodeAdmitted
  <2>2. ~Contract!TwoFates(resolution, policy)
    <3>1. \A n, m \in nodes :
            /\ n.package = m.package
            /\ n.package \in DOMAIN resolution.installed
            /\ Contract!Mutates(n, {"upgrade"})
            /\ Contract!Mutates(m, {"upgrade", "remove"})
            => n \in Fates(n.package) /\ m \in Fates(n.package)
      BY <1>1, <1>2, FatesAre DEF Contract!Mutates
    <3> QED
      BY <1>2, <1>3, <3>1 DEF Contract!TwoFates, OneFate
  <2>3. \A c \in Contract!Cohorts(resolution, nodes) :
          c.members # {} /\ c.witnesses \cap resolution.repeated = {}
    <3>1. Contract!Cohorts(resolution, nodes) = {CohortOf(C) : C \in RunCycles}
      BY <1>1, <1>2, CohortsAgree
    <3> QED
      BY <1>2, <3>1 DEF CohortsMatch
  <2> QED
    BY <1>3, <1>4, <1>5, <2>1, <2>2, <2>3 DEF Contract!Applies
<1>8. ~Contract!Applies(resolution, policy, "unbound_lifecycle")
  <2>1. ASSUME NEW n \in nodes, n.action = "lifecycle"
        PROVE  ~Contract!Unattached(resolution, nodes, n)
    <3>1. PICK s \in Selections : n.selection = {s}
      BY <1>1, <1>2, <2>1, WantedSelection
    <3>2. BindTargets(n, s) # {}
      BY <1>2, <2>1, <3>1 DEF Programs, Bound
    <3> QED
      BY <1>1, <1>2, <2>1, <3>1, <3>2, AttachedAgrees
  <2> QED
    BY <1>3, <2>1 DEF Contract!Applies
<1>9. /\ ~Contract!Applies(resolution, policy, "construction_cycle")
      /\ ~Contract!Applies(resolution, policy, "lifecycle_cycle")
  BY <1>2, GraphsAlike, CondensedAlike DEF Contract!Applies
<1> QED
  BY <1>1, <1>6, <1>7, <1>8, <1>9 DEF Contract!Refusals, Contract!ErrorCode

-----------------------------------------------------------------------------
(* Each error names a reason that the request has.                         *)

Refutes(code) ==
  \/ code = "identity_failed"
  \/ code \in Contract!ErrorCode /\ Contract!Applies(resolution, policy, code)

LEMMA ErrorSettles ==
  ASSUME ContractInv, stage \notin {"policy", "complete", "failed"},
         NEW code, Throw(code), UNCHANGED <<resolution, policy>>, Refutes(code)
  PROVE  Contract!Next
<1>1. policy.mode # "none"
  BY DEF ContractInv, Made, PolicyMade, Policy, Mode
<1>2. Outcome = Contract!Pending
  BY DEF Outcome, Published, Contract!Pending
<1>3. Outcome' = Contract!Refused(code)
  BY DEF Throw, Outcome, Published, Contract!Refused
<1>4. Contract!Settle
  BY <1>1, <1>2, <1>3 DEF Contract!Settle, Contract!Pending, Contract!Refused
<1> QED
  BY <1>3, <1>4 DEF Refutes, Contract!Next, Contract!Refuse, Contract!Break

(* A step that publishes nothing and throws nothing shows nothing.         *)
LEMMA QuietSettles ==
  ASSUME stage \notin {"complete", "failed"}, stage' \notin {"complete", "failed"},
         UNCHANGED <<resolution, policy>>
  PROVE  UNCHANGED <<resolution, policy, Outcome>>
BY DEF Outcome, Published

LEMMA RepeatsIs ==
  ASSUME NEW list \in Seq(Package)
  PROVE  Contract!Repeats(list) <=> Cardinality(RemovalSet(list)) # Len(list)
<1> DEFINE I == 1..Len(list)
<1>1. Len(list) \in Nat /\ list \in [I -> Package] /\ DOMAIN list = I
  OBVIOUS
<1>2. IsFiniteSet(I) /\ Cardinality(I) = Len(list)
  BY <1>1, FS_Interval
<1>3. list \in Surjection(I, RemovalSet(list))
  BY <1>1 DEF Surjection, RemovalSet
<1>4. Cardinality(RemovalSet(list)) = Cardinality(I) <=> list \in Injection(I, RemovalSet(list))
  BY <1>2, <1>3, FS_Surjection
<1>5. list \in Injection(I, RemovalSet(list)) <=> ~Contract!Repeats(list)
  BY <1>1 DEF Injection, IsInjective, RemovalSet, Contract!Repeats
<1> QED
  BY <1>2, <1>4, <1>5

(* Making a policy.                                                        *)
LEMMA PolicySettles ==
  ASSUME ContractInv, stage = "policy", RequestNext
  PROVE  Contract!Next
<1>1. policy.mode = "none" /\ Outcome = Contract!Pending
  BY DEF ContractInv, Made, PolicyMade, NoPolicy, Outcome, Published, Contract!Pending
<1>2. ASSUME NEW q \in Contract!Policies, Choose(q) PROVE Contract!Next
  <2>1. UNCHANGED <<resolution, Outcome>>
    BY <1>2 DEF Choose, Outcome, Published
  <2> QED
    BY <1>1, <1>2, <2>1 DEF Choose, Contract!Next, Contract!ChoosePolicy
<1>3. CASE PreserveUnselected \/ ConvergeExact
  <2>1. \A mode \in {"preserve_unselected", "converge_exact"} :
          [mode |-> mode, removals |-> {}] \in Contract!Policies
    BY DEF Contract!Policies
  <2> QED
    BY <1>2, <1>3, <2>1 DEF PreserveUnselected, ConvergeExact
<1>4. ASSUME NEW list \in RemovalLists, RemoveExplicit(list) PROVE Contract!Next
  <2>1. Contract!Repeats(list) <=> Cardinality(RemovalSet(list)) # Len(list)
    BY RepeatsIs, RemovalListsAssumption
  <2>2. ASSUME NEW code, Throw(code) PROVE Outcome' = Contract!Refused(code)
    BY <2>2 DEF Throw, Outcome, Published, Contract!Refused
  <2>3. CASE list = <<>>
    BY <1>1, <1>4, <2>2, <2>3 DEF RemoveExplicit, Contract!Next, Contract!RefusePolicy
  <2>4. CASE list # <<>> /\ Contract!Repeats(list)
    BY <1>1, <1>4, <2>1, <2>2, <2>4 DEF RemoveExplicit, Contract!Next, Contract!RefusePolicy
  <2>5. CASE list # <<>> /\ ~Contract!Repeats(list)
    <3>1. [mode |-> "remove_explicit", removals |-> RemovalSet(list)] \in Contract!Policies
      BY <2>5 DEF Contract!Policies, RemovalSet
    <3> QED
      BY <1>2, <1>4, <2>1, <2>5, <3>1 DEF RemoveExplicit
  <2> QED
    BY <2>3, <2>4, <2>5
<1> QED
  BY <1>3, <1>4 DEF RequestNext, CheckRemoval, FinishSeal

(* Sealing the request.                                                    *)
LEMMA SealSettles ==
  ASSUME ContractInv, stage = "seal", RequestNext
  PROVE  Contract!Next \/ UNCHANGED <<resolution, policy, Outcome>>
<1>1. TypeOK /\ (policy.mode # "remove_explicit" => policy.removals = {})
        /\ todo \subseteq policy.removals
  BY DEF ContractInv, RemovalInv, TypeInv, TodoOK, Made, PolicyMade
<1>2. CASE FinishSeal
  BY <1>2, ErrorSettles, QuietSettles DEF FinishSeal, Refutes
<1>3. ASSUME NEW p \in todo, CheckRemoval(p)
      PROVE  Contract!Next \/ UNCHANGED <<resolution, policy, Outcome>>
  <2>1. UNCHANGED <<resolution, policy>> /\ p \in policy.removals
          /\ policy.mode = "remove_explicit"
    BY <1>1, <1>3 DEF CheckRemoval
  <2>2. CASE ~IsInstalled(p)
    <3>1. Refutes("unknown_installed_package")
      BY <2>1, <2>2 DEF Refutes, Contract!ErrorCode, Contract!Applies, IsInstalled
    <3> QED
      BY <1>3, <2>1, <2>2, <3>1, ErrorSettles DEF CheckRemoval
  <2>3. CASE IsInstalled(p) /\ SelectedForNonremovalTarget(p)
    <3>1. PICK s \in Selections :
            /\ InTarget(resolution, s)
            /\ resolution.selections[s].package = p
            /\ ~RemovalOnly(s)
      BY <2>3 DEF SelectedForNonremovalTarget, RemovalOnly, Selections
    <3>2. ~Contract!RemovalRoot(resolution, s)
      BY <1>1, <3>1, ReasonsReadAlike
    <3>3. Contract!Applies(resolution, policy, "selected_for_removal")
      BY <2>1, <3>1, <3>2 DEF Contract!Applies, Contract!InTarget, InTarget,
         Contract!PackageOf, Selections
    <3>4. Refutes("selected_for_removal")
      BY <3>3 DEF Refutes, Contract!ErrorCode
    <3> QED
      BY <1>3, <2>1, <2>3, <3>4, ErrorSettles DEF CheckRemoval
  <2>4. CASE IsInstalled(p) /\ ~SelectedForNonremovalTarget(p)
    BY <1>3, <2>1, <2>4, QuietSettles DEF CheckRemoval
  <2> QED
    BY <2>2, <2>3, <2>4
<1> QED
  BY <1>2, <1>3 DEF RequestNext, PreserveUnselected, ConvergeExact, RemoveExplicit

(* The loops over selections, goals and removals.                          *)
LEMMA ClassifiedNodesAdmitted ==
  ASSUME TypeOK, policy \in Policy, NEW s \in Selections, NEW n \in ClassifiedNodes(s)
  PROVE  NodeAdmitted(n)
<1>1. PICK a \in ActionsOf(s) : n = SelectedNode(s, a, "none")
  BY DEF ClassifiedNodes, ActionsOf
<1>2. n \in Wanting
  BY <1>1, WantingIs
<1>3. /\ n.action = a /\ n.selection = {s} /\ n.lifecycle = "none"
      /\ n.environment = Selected(s).environment
  BY <1>1 DEF SelectedNode
<1>4. a \in {"build", "install", "upgrade", "retain"}
  BY ActionsAgree
<1>5. a \in {"build", "install", "upgrade"} => FromCatalog(resolution, s)
  <2>1. ~FromCatalog(resolution, s) => a = "retain"
    BY <1>1 DEF ActionsOf, InstalledActions
  <2> QED
    BY <2>1
<1>6. a \in {"install", "upgrade"} => n.environment = "target"
  BY <1>2, <1>3, WantedInTarget
<1> QED
  BY <1>3, <1>4, <1>5, <1>6 DEF NodeAdmitted

(* A goal that the composer refuses is refused by the contract.            *)
LEMMA GoalSettles ==
  ASSUME ContractInv, NEW g \in todo, VisitGoal(g)
  PROVE  Contract!Next \/ UNCHANGED <<resolution, policy, Outcome>>
<1>1. /\ stage = "goals" /\ g \in resolution.goals
      /\ TypeOK /\ policy \in Policy
  BY RemovalsAdmitted DEF VisitGoal, ContractInv, RemovalInv, TypeInv, TodoOK
<1>2. ASSUME NEW code, Fail(code), Refutes(code) PROVE Contract!Next
  BY <1>1, <1>2, ErrorSettles DEF Fail
<1>3. CASE g.selection \notin Selections
  <2>1. Contract!Goals(resolution) # resolution.goals
    BY <1>1, <1>3 DEF Contract!Goals, Selections
  <2>2. Refutes("inconsistent_authority")
    BY <2>1 DEF Refutes, Contract!ErrorCode, Contract!Applies
  <2> QED
    BY <1>2, <1>3, <2>2 DEF VisitGoal, Selections
<1>4. CASE /\ g.selection \in Selections
           /\ g.scope = "check"
           /\ CheckAuthorityError(g.selection) # "none"
  <2>1. g \in Contract!Goals(resolution)
    BY <1>1, <1>4 DEF Contract!Goals, Selections
  <2>2. \/ /\ CheckAuthorityError(g.selection) = "inconsistent_authority"
           /\ Contract!Unchecked(resolution, g.selection)
        \/ /\ CheckAuthorityError(g.selection) = "missing_check_program"
           /\ ~resolution.selections[g.selection].authority.check_program
    BY <1>4, CheckAuthorityAgrees
  <2>3. Refutes(CheckAuthorityError(g.selection))
    BY <1>4, <2>1, <2>2 DEF Refutes, Contract!ErrorCode, Contract!Applies
  <2> QED
    BY <1>2, <1>4, <2>3 DEF VisitGoal, Selections
<1>5. CASE /\ g.selection \in Selections
           /\ g.scope = "check" => CheckAuthorityError(g.selection) = "none"
  <2>1. AddNodes(g, GoalNodes(g))
    BY <1>5 DEF VisitGoal, Selections
  <2>2. CASE IdentityFails
    BY <1>2, <2>2 DEF IdentityFails, Refutes
  <2>3. CASE Visited(g) /\ UNCHANGED <<resolution, policy>>
    BY <1>1, <2>3, QuietSettles DEF Visited
  <2>4. CASE (\E n \in GoalNodes(g) : ~NodeAdmitted(n)) /\ Fail("inconsistent_authority")
    <3>1. PICK n \in GoalNodes(g) : ~NodeAdmitted(n)
      BY <2>4
    <3>2. n \in Wanting
      BY <1>1, <1>5, WantingIs
    <3>3. CASE g.scope = "check"
      <4>1. n = SelectedNode(g.selection, "check", "none")
        BY <3>1, <3>3 DEF GoalNodes
      <4>2. FromCatalog(resolution, g.selection)
        BY <1>5, <3>3 DEF CheckAuthorityError
      <4> QED
        BY <3>1, <4>1, <4>2 DEF NodeAdmitted, SelectedNode
    <3>4. CASE g.scope # "check"
      <4>1. g.scope \in LifecycleAction /\ n = SelectedNode(g.selection, "lifecycle", g.scope)
        BY <3>1, <3>4 DEF GoalNodes
      <4>2. n.action = "lifecycle" /\ n.lifecycle # "none" /\ n.selection = {g.selection}
        BY <4>1 DEF SelectedNode, LifecycleAction, InstallAction, RemovalAction
      <4>3. n.environment # "target"
        BY <3>1, <4>2 DEF NodeAdmitted
      <4>4. Refutes("inconsistent_authority")
        BY <3>2, <4>2, <4>3 DEF Refutes, Contract!ErrorCode, Contract!Applies, Wanting
      <4> QED
        BY <1>2, <2>4, <4>4
    <3> QED
      BY <3>3, <3>4
  <2> QED
    BY <2>1, <2>2, <2>3, <2>4 DEF AddNodes
<1> QED
  BY <1>3, <1>4, <1>5

LEMMA NodesSettle ==
  ASSUME ContractInv, NEW x \in todo, Classify(x) \/ RemoveInstalled(x)
  PROVE  Contract!Next \/ UNCHANGED <<resolution, policy, Outcome>>
<1>1. /\ stage \in {"classify", "removals"}
      /\ stage = "classify" => x \in Selections
      /\ stage = "removals" => x \in Removals
      /\ TypeOK /\ policy \in Policy /\ Removals \subseteq DOMAIN resolution.installed
  BY RemovalsAdmitted
  DEF Classify, RemoveInstalled, ContractInv, RemovalInv, TypeInv, TodoOK, Selections
<1>2. PICK N : AddNodes(x, N) /\ \A n \in N : NodeAdmitted(n)
  <2>1. CASE Classify(x)
    BY <1>1, <2>1, ClassifiedNodesAdmitted DEF Classify
  <2>2. CASE RemoveInstalled(x)
    <3>1. AddNodes(x, {RemoveNode(x)})
      BY <1>1, <2>2 DEF RemoveInstalled
    <3>2. NodeAdmitted(RemoveNode(x))
      BY DEF NodeAdmitted, RemoveNode
    <3> QED
      BY <3>1, <3>2
  <2> QED
    BY <2>1, <2>2
<1>3. CASE IdentityFails
  BY <1>1, <1>3, ErrorSettles DEF IdentityFails, Fail, Refutes
<1>4. CASE Visited(x) /\ UNCHANGED <<resolution, policy>>
  BY <1>1, <1>4, QuietSettles DEF Visited
<1> QED
  BY <1>2, <1>3, <1>4 DEF AddNodes

(* A package with two fates has an upgrade among them.                     *)
LEMMA TwoFatesRefuse ==
  ASSUME TypeOK, policy \in Policy, nodes = Wanting, Removals \subseteq DOMAIN resolution.installed,
         NEW p, NEW version, NEW t \in RemovalLifecycleTarget(p, version),
         NEW u \in RemovalLifecycleTarget(p, version), t # u
  PROVE  Refutes("inconsistent_authority")
<1>1. \A m \in RemovalLifecycleTarget(p, version) :
        /\ m \in nodes /\ m.package = p /\ m.environment = "target"
        /\ m = RemoveNode(p) \/ m.action = "upgrade"
  BY DEF RemovalLifecycleTarget, RemoveOf, TargetUpgradeNode, RemoveNode
<1>2. RemoveNode(p).action = "remove"
  BY DEF RemoveNode
<1>3. PICK n \in nodes, m \in nodes :
        /\ n # m /\ n.package = p /\ m.package = p
        /\ Contract!Mutates(n, {"upgrade"}) /\ Contract!Mutates(m, {"upgrade", "remove"})
  BY <1>1, <1>2 DEF Contract!Mutates
<1>4. p \in DOMAIN resolution.installed
  <2>1. n.action = "upgrade"
    BY <1>3 DEF Contract!Mutates
  <2>2. PICK s \in Selections : n.selection = {s} /\ n.package = Selected(s).package
    BY <2>1, WantedSelection
  <2>3. "upgrade" \in ActionsOf(s)
    BY <2>1, <2>2, WantedAction DEF Placing
  <2>4. Contract!PackageOf(resolution, s) \in DOMAIN resolution.installed
    BY <2>3, ActionsAgree
  <2> QED
    BY <1>3, <2>2, <2>4 DEF Contract!PackageOf, Selected
<1>5. Contract!TwoFates(resolution, policy)
  BY <1>3, <1>4 DEF Contract!TwoFates, Wanting
<1> QED
  BY <1>5 DEF Refutes, Contract!ErrorCode, Contract!Applies

LEMMA BindSettles ==
  ASSUME ContractInv, NEW n \in todo, Bind(n)
  PROVE  Contract!Next \/ UNCHANGED <<resolution, policy, Outcome>>
<1>1. /\ stage = "bind" /\ n \in nodes /\ n.action = "lifecycle"
      /\ TypeOK /\ policy \in Policy /\ Removals \subseteq DOMAIN resolution.installed
      /\ nodes = Wanting
  BY RemovalsAdmitted, NodesDone
  DEF Bind, ContractInv, Made, WorkLeft, Programs, AfterRemovals
<1>2. PICK s \in n.selection :
        LET T == BindTargets(n, s) IN
          \/ T = {} /\ Fail("unbound_lifecycle")
          \/ (\E t, u \in T : t # u) /\ Fail("inconsistent_authority")
          \/ Visited(n) /\ UNCHANGED <<resolution, policy, graphVars>>
  BY DEF Bind
<1>3. n.selection = {s}
  BY <1>1, <1>2, WantedSelection
<1>4. ASSUME NEW code, Fail(code), Refutes(code) PROVE Contract!Next
  BY <1>1, <1>4, ErrorSettles DEF Fail
<1>5. CASE BindTargets(n, s) = {} /\ Fail("unbound_lifecycle")
  <2>1. Contract!Unattached(resolution, nodes, n)
    BY <1>1, <1>3, <1>5, AttachedAgrees
  <2>2. Refutes("unbound_lifecycle")
    BY <1>1, <2>1 DEF Refutes, Contract!ErrorCode, Contract!Applies, Wanting
  <2> QED
    BY <1>4, <1>5, <2>2
<1>6. CASE (\E t, u \in BindTargets(n, s) : t # u) /\ Fail("inconsistent_authority")
  <2>1. PICK t \in BindTargets(n, s), u \in BindTargets(n, s) : t # u
    BY <1>6
  <2>2. ~(n.lifecycle \in InstallAction)
    <3>1. \A m \in MutationOf(s) :
            m \in Wanting /\ m.selection = {s} /\ m.action \in Placing
      BY <1>1, LookupsAre DEF Placing
    <3>2. \A m, k \in MutationOf(s) : m = k
      BY <1>1, <3>1, PlacedOnce
    <3> QED
      BY <2>1, <3>2 DEF BindTargets
  <2>3. BindTargets(n, s) \subseteq
          RemovalLifecycleTarget(Selected(s).authority.package, Selected(s).authority.version)
    BY <2>2 DEF BindTargets
  <2>4. Refutes("inconsistent_authority")
    BY <1>1, <2>1, <2>3, TwoFatesRefuse
  <2> QED
    BY <1>4, <1>6, <2>4
<1>7. CASE Visited(n) /\ UNCHANGED <<resolution, policy, graphVars>>
  BY <1>1, <1>7, QuietSettles DEF Visited
<1> QED
  BY <1>2, <1>5, <1>6, <1>7

(* The loops over cohorts, requirements and phases.                        *)
LEMMA GatherSettles ==
  ASSUME ContractInv, NEW C \in todo, GatherCohort(C)
  PROVE  Contract!Next \/ UNCHANGED <<resolution, policy, Outcome>>
<1>1. /\ stage = "cohorts" /\ C \in RunCycles
      /\ TypeOK /\ policy \in Policy /\ nodes = Wanting
  BY RemovalsAdmitted, NodesDone
  DEF GatherCohort, ContractInv, Made, WorkLeft, AfterRemovals, AfterBind, AfterCycles
<1>2. ASSUME NEW code, Fail(code), Refutes(code) PROVE Contract!Next
  BY <1>1, <1>2, ErrorSettles DEF Fail
<1>3. CASE Visited(C) /\ UNCHANGED <<resolution, policy>>
  BY <1>1, <1>3, QuietSettles DEF Visited
<1>4. CASE IdentityFails
  BY <1>2, <1>4 DEF IdentityFails, Refutes
<1>5. CASE ~CohortAdmitted(CohortOf(C)) /\ Fail("inconsistent_authority")
  <2>1. CohortOf(C).witnesses # {}
    BY <1>1, CohortWitnessed
  <2>2. \/ CohortOf(C).members = {}
        \/ CohortOf(C).witnesses \cap resolution.repeated # {}
    BY <1>5, <2>1 DEF CohortAdmitted
  <2>3. CohortOf(C) \in Contract!Cohorts(resolution, nodes)
    BY <1>1, CohortsAgree
  <2>4. Refutes("inconsistent_authority")
    BY <1>1, <2>2, <2>3 DEF Refutes, Contract!ErrorCode, Contract!Applies, Wanting
  <2> QED
    BY <1>2, <1>5, <2>4
<1> QED
  BY <1>3, <1>4, <1>5 DEF GatherCohort

LEMMA EdgesSettle ==
  ASSUME ContractInv, NEW x \in todo,
         OrderRequirement(x) \/ OrderPhases(x) \/ OrderRemovalPhases(x)
  PROVE  Contract!Next \/ UNCHANGED <<resolution, policy, Outcome>>
<1>1. stage \in {"requirements", "phases", "removal_phases"}
  BY DEF OrderRequirement, OrderPhases, OrderRemovalPhases
<1>2. TypeOK /\ policy \in Policy /\ nodes = Wanting /\ Removals \subseteq DOMAIN resolution.installed
  BY <1>1, RemovalsAdmitted, NodesDone
  DEF AfterRemovals, AfterBind, AfterCycles, AfterCohorts, AfterRequirements, AfterPhases
<1>3. CASE \E E : AddEdges(x, E)
  BY <1>1, <1>3, ErrorSettles, QuietSettles DEF AddEdges, IdentityFails, Fail, Visited, Refutes
<1>4. CASE /\ \E t, u \in Fates(x) : t # u
           /\ Fail("inconsistent_authority")
  <2>1. Refutes("inconsistent_authority")
    BY <1>2, <1>4, TwoFatesRefuse DEF Fates
  <2> QED
    BY <1>1, <1>4, <2>1, ErrorSettles DEF Fail
<1> QED
  BY <1>3, <1>4 DEF OrderRequirement, OrderPhases, OrderRemovalPhases, Fates

(* From one loop to the next, and out of the last one.                     *)
LEMMA ProceedSettles ==
  ASSUME ContractInv, BeginCompose \/ Proceed
  PROVE  Contract!Next \/ UNCHANGED <<resolution, policy, Outcome>>
<1>1. CASE Loop("removal_phases", "complete", {})
  <2>1. /\ Composed
        /\ stage = "removal_phases" /\ stage' = "complete"
        /\ UNCHANGED <<resolution, policy, nodes, edges, cohorts>>
    BY <1>1 DEF Loop, Enter, graphVars, Composed
  <2>2. Outcome = Contract!Pending
    BY <2>1 DEF Outcome, Published, Contract!Pending
  <2>3. Outcome' = Contract!Program(resolution, policy)
    BY <2>1, ComposedAsPromised DEF Outcome, Published
  <2>4. Contract!Refusals(resolution, policy) = {}
    BY <2>1, ComposedUnrefused
  <2>5. policy.mode # "none"
    BY <2>1, RemovalsAdmitted DEF Policy, Mode
  <2>6. Contract!Program(resolution, policy) # Contract!Pending
    BY DEF Contract!Program, Contract!Pending
  <2> QED
    BY <2>1, <2>2, <2>3, <2>4, <2>5, <2>6
    DEF Contract!Next, Contract!PublishProgram, Contract!Settle
<1>2. CASE RefuseCycle
  <2>1. stage = "cycles"
    BY <1>2 DEF RefuseCycle
  <2>2. PICK code \in {"construction_cycle", "lifecycle_cycle"} :
          /\ Fail(code)
          /\ code = "construction_cycle" => HasCycle(ConstructionGraph)
          /\ code = "lifecycle_cycle" => HasCycle(LifecycleGraph)
    BY <1>2 DEF RefuseCycle
  <2>3. Refutes(code)
    BY <2>2, GraphsAlike, CondensedAlike DEF Refutes, Contract!ErrorCode, Contract!Applies
  <2> QED
    BY <2>1, <2>2, <2>3, ErrorSettles DEF Fail
<1>3. CASE stage = "removal_phases" /\ IdentityFails
  BY <1>3, ErrorSettles DEF IdentityFails, Fail, Refutes
<1>4. CASE /\ stage \notin {"complete", "failed"}
           /\ stage' \notin {"complete", "failed"}
           /\ UNCHANGED <<resolution, policy>>
  BY <1>4, QuietSettles
<1> QED
  BY <1>1, <1>2, <1>3, <1>4
  DEF BeginCompose, Proceed, BeginGoals, BeginRemovals, BeginBind, BeginCycles,
      BeginCohorts, BeginRequirements, BeginPhases, BeginRemovalPhases, Publish, Loop, Enter

-----------------------------------------------------------------------------
(* The whole composer, step by step.                                       *)
LEMMA InitSettles == Init => Contract!Init
<1> SUFFICES ASSUME Init PROVE Contract!Init
  OBVIOUS
<1>1. Contract!Reason = Reason /\ Contract!Scope = Scope
  BY DEF Contract!Reason, Reason, Contract!GoalReason, GoalReason, Contract!Scope, Scope,
     Contract!LifecycleAction, LifecycleAction, Contract!InstallAction, InstallAction,
     Contract!RemovalAction, RemovalAction
<1>2. Contract!Version = Version /\ Contract!Authority = Authority
  BY DEF Contract!Version, Version, Contract!Authority, Authority
<1>3. Contract!Selection = Selection
  BY <1>2 DEF Contract!Selection, Selection, Contract!Environment, Environment
<1>4. Contract!RequirementEdge = RequirementEdge /\ Contract!GoalMember = GoalMember
  BY <1>1 DEF Contract!RequirementEdge, RequirementEdge, Contract!GoalMember, GoalMember
<1>5. \A S : Contract!IsFiniteSet(S) <=> IsFiniteSet(S)
  BY DEF Contract!IsFiniteSet, IsFiniteSet
<1>6. IsResolution(resolution)
  BY ResolutionsAssumption DEF Init, RequestInit
<1>7. Contract!IsResolution(resolution)
  BY <1>1, <1>2, <1>3, <1>4, <1>5, <1>6 DEF Contract!IsResolution, IsResolution
<1> QED
  BY <1>7 DEF Init, RequestInit, NoPolicy, Contract!Init, Contract!Pending, Outcome, Published

LEMMA StepSettles ==
  ContractInv /\ [Next]_vars => [Contract!Next]_<<resolution, policy, Outcome>>
<1> SUFFICES ASSUME ContractInv, [Next]_vars
             PROVE  Contract!Next \/ UNCHANGED <<resolution, policy, Outcome>>
  OBVIOUS
<1>1. CASE UNCHANGED vars
  BY <1>1 DEF vars, Outcome, Published
<1>2. CASE RequestNext
  BY <1>2, PolicySettles, SealSettles
  DEF RequestNext, PreserveUnselected, ConvergeExact, RemoveExplicit, CheckRemoval, FinishSeal
<1>3. CASE BeginCompose \/ Proceed
  BY <1>3, ProceedSettles
<1>4. CASE Iterate
  BY <1>4, NodesSettle, GoalSettles, BindSettles, GatherSettles, EdgesSettle DEF Iterate
<1> QED
  BY <1>1, <1>2, <1>3, <1>4 DEF Next

(* The composer implements its contract: in whatever order the loops visit *)
(* their elements, the outcome of a request is the one program it has, or  *)
(* a refusal whose reason it has; and a program is published only of a     *)
(* request that has no reason to be refused.                               *)
THEOREM ContractKept == Spec => ImplementsContract
<1> QED
  BY InitMade, StepMade, InitSettles, StepSettles, PTL
  DEF Spec, ImplementsContract, Contract!Spec

=============================================================================
