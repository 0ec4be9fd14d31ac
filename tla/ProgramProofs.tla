----------------------------- MODULE ProgramProofs -----------------------------
(***************************************************************************)
(* What every published program is like, for every resolution that the     *)
(* resolver gives: it leaves the target as it was asked to, it brackets    *)
(* the one change of a package with the lifecycle programs of that         *)
(* package, it condenses each run cycle into one cohort, it orders its     *)
(* nodes by what they need, and that is a partial order unless needs of    *)
(* several kinds mix.  All of it follows from ContractInv, which says what *)
(* a published program is made of, and from what the resolver guarantees   *)
(* of its results.                                                         *)
(***************************************************************************)
EXTENDS ContractProofs

LEMMA PublishedMade ==
  ASSUME ContractInv, Published
  PROVE  /\ TypeOK /\ policy \in Policy /\ nodes = Wanting
         /\ RemovalInv /\ stage \notin {"failed", "seal"}
         /\ CohortsMatch(RunCycles)
         /\ \A n \in nodes : n.action = "lifecycle" => Bound(n)
         /\ \A p \in DOMAIN resolution.installed : OneFate(p)
         /\ edges = Contract!RequirementOrder(resolution, nodes)
                      \cup Contract!PhaseOrdering(resolution, nodes)
<1>1. Composed /\ stage = "complete"
  BY DEF Composed, Published
<1>2. TypeOK /\ policy \in Policy
  BY <1>1, RemovalsAdmitted
<1>3. /\ nodes = Wanting
      /\ CohortsMatch(RunCycles)
      /\ \A n \in Programs : Bound(n)
      /\ \A p \in DOMAIN resolution.installed : OneFate(p)
  BY <1>1, ComposedMade
<1>4. [status |-> "program", nodes |-> nodes, edges |-> edges,
       cohorts |-> {cohorts[i] : i \in DOMAIN cohorts}]
        = Contract!Program(resolution, policy)
  BY <1>1, ComposedAsPromised
<1>5. edges = Contract!RequirementOrder(resolution, nodes)
                \cup Contract!PhaseOrdering(resolution, nodes)
  BY <1>3, <1>4 DEF Contract!Program, Wanting
<1> QED
  BY <1>1, <1>2, <1>3, <1>5 DEF Programs, ContractInv

-----------------------------------------------------------------------------
(* What a program brings into the target is wanted there.                  *)

LEMMA WantedIs ==
  ASSUME NEW s
  PROVE  Wanted(resolution, s) <=>
           Contract!Demanded(resolution, s) /\ ~Contract!RemovalRoot(resolution, s)
BY DEF Wanted, Contract!Demanded, Contract!RemovalRoot, Contract!InTarget, InTarget,
   Contract!RemovalAction, RemovalAction

LEMMA RemovalIsWanted ==
  ASSUME TypeOK, policy \in Policy, NEW p
  PROVE  RemoveNode(p) \in Wanting <=> p \in Removals
<1>1. p \in Removals => RemoveNode(p) \in Wanting
  BY WantingIs, RemovalsAgree
<1>2. RemoveNode(p).action = "remove" /\ RemoveNode(p).package = p
  BY DEF RemoveNode
<1> QED
  BY <1>1, <1>2, WantedSelection

(* Only removal programs brought a selection from the catalog into the     *)
(* target: one of them is a node, and it has nothing to be bound to.       *)
LEMMA NoRemovalRootComes ==
  ASSUME ContractInv, Published, GoalsJustify(resolution),
         NEW s \in Selections, FromCatalog(resolution, s)
  PROVE  ~Contract!RemovalRoot(resolution, s)
<1> SUFFICES ASSUME Contract!RemovalRoot(resolution, s) PROVE FALSE
  OBVIOUS
<1>1. TypeOK /\ policy \in Policy /\ nodes = Wanting
  BY PublishedMade
<1>2. PICK q \in resolution.reasons[s] :
        q.kind # "requirement" /\ q.scope \in RemovalAction
  BY DEF Contract!RemovalRoot, Contract!RemovalAction, RemovalAction
<1>3. q.kind \in GoalReason
  BY <1>1, <1>2 DEF TypeOK, IsResolution, Reason, Selections
<1>4. [scope |-> q.scope, selection |-> s] \in resolution.goals
  BY <1>3 DEF GoalsJustify, Selections
<1> DEFINE n == SelectedNode(s, "lifecycle", q.scope)
<1>5. q.scope \in LifecycleAction /\ q.scope # "check" /\ q.scope \notin InstallAction
  BY <1>2 DEF LifecycleAction, InstallAction, RemovalAction
<1>6. n \in Wanting
  <2>1. n \in GoalNodes([scope |-> q.scope, selection |-> s])
    BY <1>5 DEF GoalNodes
  <2> QED
    BY <1>1, <1>4, <2>1, WantingIs
<1>7. n.action = "lifecycle" /\ n.lifecycle = q.scope /\ n.selection = {s}
  BY DEF SelectedNode
<1>8. BindTargets(n, s) # {}
  BY <1>1, <1>6, <1>7, PublishedMade DEF Bound
<1> HIDE DEF n
<1>9. FromInstalled(resolution, s)
  BY <1>5, <1>7, <1>8 DEF BindTargets
<1> QED
  BY <1>9 DEF FromInstalled, FromCatalog

(* No published program removes a package and also installs, upgrades or   *)
(* retains it in the target: seal() and compose() decide separately, in    *)
(* two functions, and what the one lets through and the other makes an     *)
(* operation of has a removal program that compose() cannot bind.          *)
THEOREM RemovalsExclusive == Spec => []RemovalExclusive
<1>1. ContractInv => RemovalExclusive
  <2>1. SUFFICES ASSUME ContractInv, Published, GoalsJustify(resolution),
                        NEW n \in nodes, NEW m \in nodes,
                        n.action = "remove", m.package = n.package,
                        m.environment = "target",
                        m.action \in {"install", "upgrade", "retain"}
                 PROVE  FALSE
    BY DEF RemovalExclusive
  <2>2. TypeOK /\ RemovalInv /\ stage \notin {"failed", "seal"}
    BY <2>1, PublishedMade
  <2>3. n.package \in Removals
    BY <2>1, <2>2 DEF RemovalInv, Justified
  <2>4. PICK s \in Selections : Operates(s, n.package)
    BY <2>1, <2>2 DEF RemovalInv, Justified, Selections
  <2>5. FromCatalog(resolution, s) /\ RemovalOnly(s)
    BY <2>2, <2>3, <2>4, RemovalsUnwanted
  <2>6. Contract!RemovalRoot(resolution, s)
    BY <2>2, <2>5, ReasonsReadAlike
  <2> QED
    BY <2>1, <2>5, <2>6, NoRemovalRootComes
<1> QED
  BY InitMade, StepMade, <1>1, PTL DEF Spec

LEMMA IncomingIsWanted ==
  ASSUME ContractInv, Published, Genuine(resolution), NEW n \in nodes,
         n.action \in {"install", "upgrade"}
  PROVE  \E s \in Selections :
           /\ n.selection = {s} /\ n.package = Selected(s).package
           /\ n = SelectedNode(s, n.action, "none")
           /\ Wanted(resolution, s) /\ FromCatalog(resolution, s)
           /\ ~Contract!Present(resolution, s)
           /\ n.action = "install" <=> n.package \notin DOMAIN resolution.installed
<1>1. TypeOK /\ policy \in Policy /\ nodes = Wanting
  BY PublishedMade
<1>2. PICK s \in Selections : n.selection = {s} /\ n.package = Selected(s).package
  BY <1>1, WantedSelection
<1>3. n.action \in ActionsOf(s) /\ n = SelectedNode(s, n.action, "none")
  BY <1>1, <1>2, WantedAction DEF Placing
<1>4. /\ s \in Contract!Incoming(resolution) /\ ~Contract!Present(resolution, s)
      /\ n.action = "install" <=> n.package \notin DOMAIN resolution.installed
  BY <1>1, <1>2, <1>3, ActionsAgree DEF Contract!Present, Contract!PackageOf, Selected
<1>5. FromCatalog(resolution, s) /\ Contract!Demanded(resolution, s)
  BY <1>4 DEF Contract!Incoming, Contract!FromCatalog, FromCatalog,
     Contract!AuthorityKind, AuthorityKind
<1> QED
  BY <1>2, <1>3, <1>4, <1>5, NoRemovalRootComes, WantedIs DEF Genuine

LEMMA WantedIsNotRemoved ==
  ASSUME ContractInv, Published, NEW s \in Selections, Wanted(resolution, s)
  PROVE  Selected(s).package \notin Removals
<1>1. TypeOK /\ RemovalInv /\ stage \notin {"failed", "seal"}
  BY PublishedMade
<1>2. InTarget(resolution, s) /\ TargetOperationRequired(s) /\ ~RemovalOnly(s)
  BY <1>1, WantedIs, ReasonsReadAlike
<1>3. Selected(s).package \in DesiredTarget
  BY <1>2 DEF DesiredTarget, Selections
<1>4. SelectedForNonremovalTarget(Selected(s).package)
  BY <1>2 DEF SelectedForNonremovalTarget, RemovalOnly, Selected, Selections
<1>5. policy.mode = "remove_explicit" => Selected(s).package \notin policy.removals
  BY <1>1, <1>4 DEF RemovalInv, RemovalsSealed, Removable
<1> QED
  BY <1>3, <1>5 DEF Removals

-----------------------------------------------------------------------------
(* The state a program leaves the target in.                               *)

LEMMA AfterWanted ==
  ASSUME ContractInv, Published, Genuine(resolution), NEW s \in Selections,
         Wanted(resolution, s)
  PROVE  After(Selected(s).package) = {Selected(s).version}
<1> DEFINE p == Selected(s).package
           incoming == {n \in nodes : n.package = p /\ n.action \in {"install", "upgrade"}}
<1>1. TypeOK /\ policy \in Policy /\ nodes = Wanting
  BY PublishedMade
<1>2. \A n \in incoming : n.selection = {s} /\ FromCatalog(resolution, s)
                            /\ ~Contract!Present(resolution, s)
  <2>1. \A t \in Selections : Wanted(resolution, t) /\ Selected(t).package = p => t = s
    BY DEF Genuine, TargetUnambiguous, Selected, Selections
  <2> QED
    BY <2>1, IncomingIsWanted
<1>3. CASE FromCatalog(resolution, s) /\ ~Contract!Present(resolution, s)
  <2>1. s \in Contract!Incoming(resolution)
    BY <1>3, WantedIs DEF Contract!Incoming, Contract!FromCatalog, FromCatalog,
       Contract!AuthorityKind, AuthorityKind, Selections
  <2>2. "install" \in ActionsOf(s) \/ "upgrade" \in ActionsOf(s)
    BY <1>1, <1>3, <2>1, ActionsAgree
  <2>3. PICK a \in {"install", "upgrade"} : a \in ActionsOf(s)
    BY <2>2
  <2>4. SelectedNode(s, a, "none") \in nodes
    BY <1>1, <2>3, WantingIs
  <2>5. SelectedNode(s, a, "none") \in incoming
    BY <2>4 DEF SelectedNode
  <2> HIDE DEF incoming
  <2>6. UNION {n.selection : n \in incoming} = {s}
    BY <1>2, <2>5
  <2> USE DEF incoming
  <2> QED
    BY <2>5, <2>6 DEF After
<1>4. CASE ~(FromCatalog(resolution, s) /\ ~Contract!Present(resolution, s))
  <2>1. incoming = {}
    BY <1>2, <1>4
  <2>2. p \in DOMAIN resolution.installed /\ Selected(s).version = resolution.installed[p]
    <3>1. CASE FromCatalog(resolution, s)
      BY <1>4, <3>1 DEF Contract!Present, Contract!PackageOf, Selected
    <3>2. CASE ~FromCatalog(resolution, s)
      <4>1. FromInstalled(resolution, s)
        BY <1>1, <3>2 DEF TypeOK, IsResolution, Selections, Selection, Authority,
           FromInstalled, FromCatalog, AuthorityKind
      <4> QED
        BY <4>1 DEF Genuine, AuthoritiesExact, Selected, Selections
    <3> QED
      BY <3>1, <3>2
  <2>3. RemoveNode(p) \notin nodes
    BY <1>1, RemovalIsWanted, WantedIsNotRemoved
  <2> QED
    BY <2>1, <2>2, <2>3 DEF After
<1> QED
  BY <1>3, <1>4

LEMMA AfterUnwanted ==
  ASSUME ContractInv, Published, Genuine(resolution), NEW p,
         ~\E s \in Selections : Wanted(resolution, s) /\ Selected(s).package = p
  PROVE  After(p) = {resolution.installed[q] : q \in {p} \cap
                       {x \in DOMAIN resolution.installed : Kept(x)}}
<1>1. TypeOK /\ policy \in Policy /\ nodes = Wanting
  BY PublishedMade
<1>2. {n \in nodes : n.package = p /\ n.action \in {"install", "upgrade"}} = {}
  BY IncomingIsWanted
<1>3. p \notin DesiredTarget
  BY <1>1, WantedIs, ReasonsReadAlike DEF DesiredTarget, Selections
<1>4. p \in DOMAIN resolution.installed => (p \in Removals <=> ~Kept(p))
  BY <1>1, <1>3 DEF Removals, Kept, Policy, Mode
<1>5. After(p) = IF p \in DOMAIN resolution.installed /\ RemoveNode(p) \notin nodes
                   THEN {resolution.installed[p]} ELSE {}
  BY <1>2 DEF After
<1> QED
  BY <1>1, <1>4, <1>5, RemovalIsWanted

(* Carrying a published program out leaves each wanted package at exactly  *)
(* the version that was selected, and each other package as the policy     *)
(* says: whatever is installed, whatever the goals, and in whatever order  *)
(* compose() visits them.                                                  *)
THEOREM StateFulfilled == Spec => []FulfilledState
<1>1. ContractInv => FulfilledState
  <2>1. SUFFICES ASSUME ContractInv, Published, Genuine(resolution), NEW p \in Package
                 PROVE  LET wanted == {s \in Selections :
                                         Wanted(resolution, s) /\ Selected(s).package = p}
                        IN After(p) =
                             IF wanted # {} THEN {Selected(s).version : s \in wanted}
                             ELSE {resolution.installed[q] : q \in {p} \cap
                                     {x \in DOMAIN resolution.installed : Kept(x)}}
    BY DEF FulfilledState
  <2> DEFINE wanted == {s \in Selections :
                          Wanted(resolution, s) /\ Selected(s).package = p}
  <2>2. CASE wanted = {}
    <3>1. ~\E s \in Selections : Wanted(resolution, s) /\ Selected(s).package = p
      BY <2>2
    <3> QED
      BY <2>1, <2>2, <3>1, AfterUnwanted
  <2>3. CASE wanted # {}
    <3>1. PICK s \in Selections : Wanted(resolution, s) /\ Selected(s).package = p
      BY <2>3
    <3>2. wanted = {s}
      BY <2>1, <3>1 DEF Genuine, TargetUnambiguous, Selected, Selections
    <3>3. After(p) = {Selected(s).version}
      BY <2>1, <3>1, AfterWanted
    <3> QED
      BY <3>2, <3>3
  <2> QED
    BY <2>2, <2>3
<1> QED
  BY InitMade, StepMade, <1>1, PTL DEF Spec

-----------------------------------------------------------------------------
(* The one change of a package, and the lifecycle programs around it.      *)

Changing == {"install", "upgrade", "remove"}

(* A phase order of the contract is an edge of the program.                *)
LEMMA PhaseIsEdge ==
  ASSUME ContractInv, Published, NEW n \in nodes, NEW m \in nodes,
         Contract!PhaseOf(resolution, n, m) \in Contract!PhaseKind
  PROVE  \E e \in edges : e.before = n /\ e.after = m /\ e.phase # "none"
<1> DEFINE e == PhaseEdge(n, m, Contract!PhaseOf(resolution, n, m))
<1>1. e \in Contract!PhaseOrdering(resolution, nodes)
  BY DEF Contract!PhaseOrdering, PhaseEdge
<1>2. e \in edges
  BY <1>1, PublishedMade
<1>3. e.before = n /\ e.after = m /\ e.phase # "none"
  BY DEF PhaseEdge, Contract!PhaseKind
<1> QED
  BY <1>2, <1>3

(* An installation program has the node that brings its own selection in.  *)
LEMMA InstallBracketed ==
  ASSUME ContractInv, Published, Genuine(resolution), NEW n \in nodes,
         n.action = "lifecycle", n.lifecycle \in InstallAction
  PROVE  \E t \in nodes :
           /\ t.package = n.package
           /\ \A u \in nodes : /\ u.package = n.package
                               /\ u.environment = "target"
                               /\ u.action \in Changing
                               <=> u = t
           /\ t.selection = n.selection
           /\ t.action \in {"install", "upgrade"}
<1>1. TypeOK /\ policy \in Policy /\ nodes = Wanting /\ Bound(n)
  BY PublishedMade
<1>2. PICK s \in Selections : n.selection = {s} /\ n.package = Selected(s).package
  BY <1>1, WantedSelection
<1>3. PICK t \in MutationOf(s) : TRUE
  BY <1>1, <1>2 DEF Bound, BindTargets
<1>4. t \in nodes /\ t.selection = {s} /\ t.action \in {"install", "upgrade"}
  BY <1>3, LookupsAre
<1>5. t.package = Selected(s).package /\ Wanted(resolution, s)
  BY <1>4, IncomingIsWanted
<1>6. t.environment = "target"
  BY <1>1, <1>4, WantedInTarget
<1>7. ASSUME NEW u \in nodes, u.package = n.package, u.action \in {"install", "upgrade"}
      PROVE  u = t
  <2>1. PICK v \in Selections :
          u.selection = {v} /\ u.package = Selected(v).package /\ Wanted(resolution, v)
    BY <1>7, IncomingIsWanted
  <2>2. v = s
    BY <1>2, <1>5, <1>7, <2>1 DEF Genuine, TargetUnambiguous, Selected, Selections
  <2> QED
    BY <1>1, <1>4, <1>7, <2>1, <2>2, PlacedOnce DEF Placing
<1>8. ASSUME NEW u \in nodes, u.package = n.package, u.action = "remove"
      PROVE  FALSE
  <2>1. n.package \in Removals
    BY <1>1, <1>8, WantedSelection
  <2> QED
    BY <1>2, <1>5, <2>1, WantedIsNotRemoved
<1> QED
  BY <1>2, <1>4, <1>5, <1>6, <1>7, <1>8 DEF Changing

(* A removal program has the node that takes the installed package away,   *)
(* be it a removal or the upgrade to another selection.                    *)
LEMMA RemovalBracketed ==
  ASSUME ContractInv, Published, Genuine(resolution), NEW n \in nodes,
         n.action = "lifecycle", n.lifecycle \notin InstallAction
  PROVE  \E t \in nodes :
           /\ t.package = n.package
           /\ \A u \in nodes : /\ u.package = n.package
                               /\ u.environment = "target"
                               /\ u.action \in Changing
                               <=> u = t
           /\ Contract!TakesAway(resolution, n, t)
<1>1. TypeOK /\ policy \in Policy /\ nodes = Wanting /\ Bound(n)
  BY PublishedMade
<1>2. PICK s \in Selections : n.selection = {s} /\ n.package = Selected(s).package
  BY <1>1, WantedSelection
<1> DEFINE p == n.package
<1>3. /\ FromInstalled(resolution, s)
      /\ RemovalLifecycleTarget(Selected(s).authority.package,
                                Selected(s).authority.version) # {}
  BY <1>1, <1>2 DEF Bound, BindTargets
<1>4. /\ p \in DOMAIN resolution.installed
      /\ Selected(s).authority.package = p
      /\ Selected(s).authority.version = resolution.installed[p]
  BY <1>2, <1>3 DEF Genuine, AuthoritiesExact, Selected, Selections
<1>5. PICK t \in Fates(p) : TRUE
  BY <1>3, <1>4 DEF Fates
<1>6. \A u : u \in Fates(p) <=>
        u \in nodes /\ u.package = p /\ Contract!Mutates(u, {"upgrade", "remove"})
  BY <1>1, FatesAre
<1>7. \A u \in Fates(p) : u = t
  BY <1>4, <1>5, PublishedMade DEF OneFate
<1>8. ASSUME NEW u \in nodes, u.package = p, u.environment = "target",
             u.action \in Changing
      PROVE  u = t
  <2>1. u.action # "install"
    BY <1>4, <1>8, IncomingIsWanted
  <2> QED
    BY <1>6, <1>7, <1>8, <2>1 DEF Contract!Mutates, Changing
<1>9. /\ t \in nodes /\ t.package = p /\ t.environment = "target" /\ t.action \in Changing
      /\ Contract!Mutates(t, {"upgrade", "remove"})
  BY <1>5, <1>6 DEF Contract!Mutates, Changing
<1>10. Contract!TakesAway(resolution, n, t)
  BY <1>2, <1>3, <1>4, <1>9 DEF Contract!TakesAway, Contract!FromInstalled, FromInstalled,
     Contract!AuthorityKind, AuthorityKind, Selected, Selections
<1> QED
  BY <1>8, <1>9, <1>10

(* Every lifecycle program of a published program is phase-ordered around  *)
(* the one node that changes its package in the target.                    *)
THEOREM ProgramsBracketed == Spec => []LifecycleBracketed
<1>1. ContractInv => LifecycleBracketed
  <2>1. SUFFICES ASSUME ContractInv, Published, Genuine(resolution),
                        NEW n \in nodes, n.action = "lifecycle"
                 PROVE  \E t \in nodes :
                          /\ t.package = n.package
                          /\ \A u \in nodes : /\ u.package = n.package
                                              /\ u.environment = "target"
                                              /\ u.action \in Changing
                                              <=> u = t
                          /\ IF n.lifecycle \in {"pre_install", "pre_remove"}
                               THEN \E e \in edges :
                                      e.before = n /\ e.after = t /\ e.phase # "none"
                               ELSE \E e \in edges :
                                      e.before = t /\ e.after = n /\ e.phase # "none"
    BY DEF LifecycleBracketed, Changing
  <2>2. n.lifecycle \in LifecycleAction /\ TypeOK /\ policy \in Policy /\ nodes = Wanting
    BY <2>1, PublishedMade, WantedSelection
  <2>3. CASE n.lifecycle \in InstallAction
    <3>1. PICK t \in nodes :
           /\ t.package = n.package
           /\ \A u \in nodes : /\ u.package = n.package
                               /\ u.environment = "target"
                               /\ u.action \in Changing
                               <=> u = t
           /\ t.selection = n.selection
           /\ t.action \in {"install", "upgrade"}
      BY <2>1, <2>3, InstallBracketed
    <3>2. CASE n.lifecycle = "pre_install"
      <4>1. Contract!PhaseOf(resolution, n, t) = "pre_lifecycle_before_action"
        BY <2>1, <2>2, <3>1, <3>2, PhaseKinds
      <4> QED
        BY <2>1, <3>1, <3>2, <4>1, PhaseIsEdge DEF Contract!PhaseKind
    <3>3. CASE n.lifecycle = "post_install"
      <4>1. Contract!PhaseOf(resolution, t, n) = "action_before_post_lifecycle"
        BY <2>1, <2>2, <3>1, <3>3, PhaseKinds
      <4> QED
        BY <2>1, <3>1, <3>3, <4>1, PhaseIsEdge DEF Contract!PhaseKind
    <3> QED
      BY <2>3, <3>2, <3>3 DEF InstallAction
  <2>4. CASE n.lifecycle \notin InstallAction
    <3>1. PICK t \in nodes :
           /\ t.package = n.package
           /\ \A u \in nodes : /\ u.package = n.package
                               /\ u.environment = "target"
                               /\ u.action \in Changing
                               <=> u = t
           /\ Contract!TakesAway(resolution, n, t)
      BY <2>1, <2>4, RemovalBracketed
    <3>2. CASE n.lifecycle = "pre_remove"
      <4>1. Contract!PhaseOf(resolution, n, t) = "pre_lifecycle_before_action"
        BY <2>1, <2>2, <3>1, <3>2, PhaseKinds
      <4> QED
        BY <2>1, <3>1, <3>2, <4>1, PhaseIsEdge DEF Contract!PhaseKind
    <3>3. CASE n.lifecycle = "post_remove"
      <4>1. Contract!PhaseOf(resolution, t, n) = "action_before_post_lifecycle"
        BY <2>1, <2>2, <3>1, <3>3, PhaseKinds
      <4> QED
        BY <2>1, <3>1, <3>3, <4>1, PhaseIsEdge DEF Contract!PhaseKind
    <3> QED
      BY <2>2, <2>4, <3>2, <3>3 DEF LifecycleAction, InstallAction, RemovalAction
  <2> QED
    BY <2>3, <2>4
<1> QED
  BY InitMade, StepMade, <1>1, PTL DEF Spec

-----------------------------------------------------------------------------
(* The cohorts of a program.                                               *)

LEMMA AvailableIsOf ==
  ASSUME NEW s, NEW n \in Contract!Available(nodes, s)
  PROVE  n \in nodes /\ n.selection = {s}
BY DEF Contract!Available, Contract!Doing

(* A selection that something requires to run is placed, retained or       *)
(* built: the resolver gives it a reason, and the reason an operation.     *)
LEMMA RequiredIsAvailable ==
  ASSUME ContractInv, Published, Genuine(resolution),
         NEW e \in resolution.edges
  PROVE  e.scope \in {"run"} \cup LifecycleAction \/ ~InTarget(resolution, e.required)
           => Contract!Available(nodes, e.required) # {}
<1> DEFINE s == e.required
           why == [kind |-> "requirement", scope |-> e.scope]
<1>1. TypeOK /\ policy \in Policy /\ nodes = Wanting
  BY PublishedMade
<1>2. s \in Selections /\ why \in resolution.reasons[s]
  BY DEF Genuine, EdgesJustify, Selections
<1>3. ~RemovalOnly(s)
  BY <1>2 DEF RemovalOnly, Reasons, GoalReason
<1>4. e.scope \in {"run"} \cup LifecycleAction => TargetOperationRequired(s)
  BY <1>2 DEF TargetOperationRequired, Reasons
<1> SUFFICES ASSUME ~InTarget(resolution, s) \/ TargetOperationRequired(s)
             PROVE  Contract!Available(nodes, s) # {}
  BY <1>4
<1>5. PICK a \in ActionsOf(s) : a \in {"install", "upgrade", "retain", "build"}
  <2>1. CASE ~FromCatalog(resolution, s)
    <3>1. FromInstalled(resolution, s)
      BY <1>1, <1>2, <2>1 DEF TypeOK, IsResolution, Selections, Selection, Authority,
         FromInstalled, FromCatalog, AuthorityKind
    <3>2. "retain" \in ActionsOf(s)
      BY <1>3, <2>1 DEF ActionsOf, InstalledActions
    <3> QED
      BY <3>2
  <2>2. CASE FromCatalog(resolution, s) /\ ~InTarget(resolution, s)
    <3>1. "build" \in ActionsOf(s)
      BY <2>2 DEF ActionsOf, CatalogActions, ExplicitConstruction
    <3> QED
      BY <3>1
  <2>3. CASE FromCatalog(resolution, s) /\ InTarget(resolution, s)
    <3>1. TargetAction(s) # {} /\ TargetAction(s) \subseteq {"install", "upgrade", "retain"}
      BY <2>3 DEF TargetAction
    <3>2. TargetAction(s) \subseteq ActionsOf(s)
      BY <2>3 DEF ActionsOf, CatalogActions
    <3> QED
      BY <3>1, <3>2
  <2> QED
    BY <2>1, <2>2, <2>3
<1> DEFINE n == SelectedNode(s, a, "none")
<1>6. n \in nodes /\ n.selection = {s} /\ n.action = a
  BY <1>1, <1>2, WantingIs DEF SelectedNode
<1> QED
  BY <1>5, <1>6 DEF Contract!Available, Contract!Doing

LEMMA RunVertexSelected ==
  ASSUME Genuine(resolution), NEW v \in Vertices(RuntimeGraph)
  PROVE  v \in Selections
<1>1. ASSUME NEW a \in RuntimeGraph
      PROVE  a[1] \in Selections /\ a[2] \in Selections
  <2>1. PICK e \in resolution.edges : a = <<e.issuer, e.required>>
    BY DEF RuntimeGraph, EdgesOf
  <2>2. a[1] = e.issuer /\ a[2] = e.required
    BY <2>1
  <2>3. e.issuer \in Selections /\ e.required \in Selections
    BY DEF Genuine, EdgesJustify, Selections
  <2> QED
    BY <2>2, <2>3
<1> QED
  BY <1>1 DEF Vertices

(* Each selection of a run cycle has a node in its cohort.                 *)
LEMMA CycleIsAvailable ==
  ASSUME ContractInv, Published, Genuine(resolution), NEW C \in RunCycles, NEW s \in C
  PROVE  Contract!Available(nodes, s) # {}
<1>1. C \in StronglyConnected(RuntimeGraph) /\ CyclicComponent(C, RuntimeGraph)
  BY DEF RunCycles, CyclicComponents
<1>2. PICK a \in RuntimeGraph : a[2] = s
  BY <1>1, CyclicHasArcInto
<1>3. PICK e \in resolution.edges : e.scope = "run" /\ e.required = s
  BY <1>2 DEF RuntimeGraph, EdgesOf
<1> QED
  BY <1>3, RequiredIsAvailable

(* An edge that a run requirement is the witness of leads from one         *)
(* component of the run requirements to another.                           *)
LEMMA RunEdgeCrosses ==
  ASSUME ContractInv, Published, NEW x \in edges, NEW w \in x.witness, w.scope = "run",
         NEW b, x.before.selection = {b}, NEW a, x.after.selection = {a}
  PROVE  /\ b \in ComponentOf(RuntimeGraph, w.required)
         /\ a \in ComponentOf(RuntimeGraph, w.issuer)
         /\ w.required \notin ComponentOf(RuntimeGraph, w.issuer)
<1>1. x \in Contract!RequirementOrder(resolution, nodes)
  <2>1. \A y \in Contract!PhaseOrdering(resolution, nodes) : y.witness = {}
    BY DEF Contract!PhaseOrdering
  <2> QED
    BY <2>1, PublishedMade
<1>2. \A v : Contract!ComponentOf(Contract!RunGraph(resolution), v) = ComponentOf(RuntimeGraph, v)
  BY GraphsAlike, CondensedAlike
<1>3. /\ w.required \notin ComponentOf(RuntimeGraph, w.issuer)
      /\ x.before \in Contract!Group(resolution, nodes, w.required)
      /\ x.after \in Contract!Group(resolution, nodes, w.issuer)
  BY <1>1, <1>2 DEF Contract!RequirementOrder
<1>4. \A v : \A n \in Contract!Group(resolution, nodes, v) :
        \E t \in ComponentOf(RuntimeGraph, v) : n.selection = {t}
  BY <1>2, AvailableIsOf DEF Contract!Group
<1>5. b \in ComponentOf(RuntimeGraph, w.required) /\ a \in ComponentOf(RuntimeGraph, w.issuer)
  BY <1>3, <1>4
<1> QED
  BY <1>3, <1>5

(* Each run cycle is one cohort with a node for every selection of it,     *)
(* cohorts share no node, and no run requirement orders two members of a   *)
(* cohort.                                                                 *)
THEOREM CyclesCondensed == Spec => []CohortsCondense
<1>1. ContractInv => CohortsCondense
  <2>1. SUFFICES ASSUME ContractInv, Published, Genuine(resolution)
                 PROVE  /\ \A C \in RunCycles : \E i \in DOMAIN cohorts :
                             {s \in SelectionId :
                                \E n \in cohorts[i].members : n.selection = {s}} = C
                        /\ \A i, j \in DOMAIN cohorts :
                             i # j => cohorts[i].members \cap cohorts[j].members = {}
                        /\ \A i \in DOMAIN cohorts : \A e \in edges :
                             {e.before, e.after} \subseteq cohorts[i].members
                               => \A w \in e.witness : w.scope # "run"
    BY DEF CohortsCondense, RunCycles
  <2>2. TypeOK /\ policy \in Policy /\ nodes = Wanting /\ CohortsMatch(RunCycles)
    BY <2>1, PublishedMade
  <2>3. \A C : CohortOf(C).members = UNION {Contract!Available(nodes, s) : s \in C}
    BY <2>2, CohortAgrees
  <2>4. ASSUME NEW C, NEW n \in CohortOf(C).members
        PROVE  \E s \in C : n.selection = {s}
    BY <2>3, AvailableIsOf
  <2>5. ASSUME NEW C \in RunCycles
        PROVE  \E i \in DOMAIN cohorts :
                 {s \in SelectionId : \E n \in cohorts[i].members : n.selection = {s}} = C
    <3>1. PICK i \in DOMAIN cohorts : cohorts[i] = CohortOf(C)
      BY <2>2 DEF CohortsMatch
    <3>2. C \subseteq SelectionId
      BY <2>2, RuntimeComponentsType DEF RunCycles
    <3>3. ASSUME NEW s \in C PROVE \E n \in CohortOf(C).members : n.selection = {s}
      BY <2>1, <2>3, CycleIsAvailable, AvailableIsOf
    <3>4. ASSUME NEW s, NEW n \in CohortOf(C).members, n.selection = {s}
          PROVE  s \in C
      <4>1. PICK t \in C : n.selection = {t}
        BY <2>4
      <4> QED
        BY <3>4, <4>1
    <3>5. {s \in SelectionId : \E n \in cohorts[i].members : n.selection = {s}} = C
      BY <3>1, <3>2, <3>3, <3>4
    <3> QED
      BY <3>5
  <2>6. ASSUME NEW i \in DOMAIN cohorts, NEW j \in DOMAIN cohorts,
               NEW n \in cohorts[i].members, n \in cohorts[j].members
        PROVE  i = j
    <3>1. PICK C \in RunCycles : cohorts[i] = CohortOf(C) /\ \A s \in C : runtime_component[s] = i
      BY <2>2 DEF CohortsMatch
    <3>2. PICK D \in RunCycles : cohorts[j] = CohortOf(D) /\ \A s \in D : runtime_component[s] = j
      BY <2>2 DEF CohortsMatch
    <3>3. PICK s \in C : n.selection = {s}
      BY <2>4, <2>6, <3>1
    <3>4. s \in D
      BY <2>4, <2>6, <3>2, <3>3
    <3> QED
      BY <3>1, <3>2, <3>3, <3>4
  <2>7. ASSUME NEW i \in DOMAIN cohorts, NEW e \in edges,
               e.before \in cohorts[i].members, e.after \in cohorts[i].members,
               NEW w \in e.witness, w.scope = "run"
        PROVE  FALSE
    <3>1. PICK C \in RunCycles : cohorts[i] = CohortOf(C)
      BY <2>2 DEF CohortsMatch
    <3>2. PICK b \in C : e.before.selection = {b}
      BY <2>4, <2>7, <3>1
    <3>3. PICK a \in C : e.after.selection = {a}
      BY <2>4, <2>7, <3>1
    <3>4. /\ b \in ComponentOf(RuntimeGraph, w.required)
          /\ a \in ComponentOf(RuntimeGraph, w.issuer)
          /\ w.required \notin ComponentOf(RuntimeGraph, w.issuer)
      BY <2>1, <2>7, <3>2, <3>3, RunEdgeCrosses
    <3>5. C \in StronglyConnected(RuntimeGraph)
      BY DEF RunCycles, CyclicComponents
    <3>6. C = ComponentOf(RuntimeGraph, b) /\ C = ComponentOf(RuntimeGraph, a)
      BY <3>2, <3>3, <3>5, StronglyConnectedOf
    <3>7. ComponentOf(RuntimeGraph, w.required) = ComponentOf(RuntimeGraph, w.issuer)
      BY <3>4, <3>6, SameComponent
    <3>8. w.required \in ComponentOf(RuntimeGraph, w.required)
      <4>1. b \in Vertices(RuntimeGraph) /\ Reaches(RuntimeGraph, b, w.required)
        BY <3>4 DEF ComponentOf
      <4>2. w.required \in Vertices(RuntimeGraph)
        BY <4>1, ReachedVertex
      <4> QED
        BY <4>2, InItsComponent
    <3> QED
      BY <3>4, <3>7, <3>8
  <2> QED
    BY <2>5, <2>6, <2>7
<1> QED
  BY InitMade, StepMade, <1>1, PTL DEF Spec

-----------------------------------------------------------------------------
(* Order: a selection follows all that it needs to run, directly or not,   *)
(* a program follows its inputs and theirs, and a build waits for nothing  *)
(* else.                                                                   *)

(* A path among the vertices V is a path of the graph.                     *)
LEMMA PathsReach ==
  ASSUME NEW V, NEW E, E \subseteq V \X V, NEW v \in V, NEW w \in V
  PROVE  Paths(V, E)[<<v, w>>] <=> Reaches(E, v, w)
<1>1. Paths(V, E)[<<v, w>>] <=> \A C \in SUBSET V : Closed(E, C) /\ v \in C => w \in C
  BY DEF Paths
<1>2. Vertices(E) \cup {v} \subseteq V
  <2>1. \A e \in E : e[1] \in V /\ e[2] \in V
    OBVIOUS
  <2> QED
    BY <2>1 DEF Vertices
<1>3. ASSUME NEW C \in SUBSET V, Closed(E, C), v \in C, Reaches(E, v, w)
      PROVE  w \in C
  <2> DEFINE D == C \cap (Vertices(E) \cup {v})
  <2>1. Closed(E, D)
    BY <1>3 DEF Closed, Vertices
  <2> QED
    BY <1>3, <2>1 DEF Reaches
<1>4. ASSUME \A C \in SUBSET V : Closed(E, C) /\ v \in C => w \in C
      PROVE  Reaches(E, v, w)
  BY <1>2, <1>4 DEF Reaches
<1> QED
  BY <1>1, <1>3, <1>4

-----------------------------------------------------------------------------
(* The arcs between the nodes, and those that a requirement is witness of. *)

Witnessed == {e \in edges : e.witness # {}}

GroupOf(v) == UNION {Contract!Available(nodes, t) : t \in ComponentOf(RuntimeGraph, v)}

LEMMA GroupIs ==
  ASSUME NEW v
  PROVE  Contract!Group(resolution, nodes, v) = GroupOf(v)
BY GraphsAlike, CondensedAlike DEF Contract!Group, GroupOf

LEMMA OrderBetweenNodes ==
  ASSUME ContractInv, Published
  PROVE  /\ OrderOf(edges) \subseteq nodes \X nodes
         /\ OrderOf(Witnessed) \subseteq nodes \X nodes
         /\ OrderOf(Witnessed) \subseteq OrderOf(edges)
<1>1. \A x \in Contract!RequirementOrder(resolution, nodes) :
        x.before \in nodes /\ x.after \in nodes
  BY DEF Contract!RequirementOrder
<1>2. \A x \in Contract!PhaseOrdering(resolution, nodes) :
        x.before \in nodes /\ x.after \in nodes
  BY DEF Contract!PhaseOrdering
<1>3. \A x \in edges : x.before \in nodes /\ x.after \in nodes
  BY <1>1, <1>2, PublishedMade
<1> QED
  BY <1>3 DEF OrderOf, Witnessed

LEMMA RunGraphSelected ==
  ASSUME Genuine(resolution)
  PROVE  RuntimeGraph \subseteq Selections \X Selections
<1>1. \A e \in resolution.edges : e.issuer \in Selections /\ e.required \in Selections
  BY DEF Genuine, EdgesJustify, Selections
<1> QED
  BY <1>1 DEF RuntimeGraph, EdgesOf

(* A run requirement that leaves its component puts every node of the      *)
(* required component before every node of the requiring one.              *)
LEMMA RunRequirementOrders ==
  ASSUME ContractInv, Published,
         NEW e \in resolution.edges, e.scope = "run",
         e.required \notin ComponentOf(RuntimeGraph, e.issuer),
         NEW n \in GroupOf(e.required), NEW m \in GroupOf(e.issuer)
  PROVE  <<n, m>> \in OrderOf(Witnessed)
<1> DEFINE x == [before |-> n, after |-> m, witness |-> {e}, phase |-> "none"]
<1>1. PICK t \in ComponentOf(RuntimeGraph, e.required) : n \in Contract!Available(nodes, t)
  BY DEF GroupOf
<1>2. PICK u \in ComponentOf(RuntimeGraph, e.issuer) : m \in Contract!Available(nodes, u)
  BY DEF GroupOf
<1>3. n \in nodes /\ m \in nodes /\ n.selection = {t} /\ m.selection = {u}
  BY <1>1, <1>2, AvailableIsOf
<1>4. n # m
  <2>1. SUFFICES ASSUME t = u PROVE FALSE
    BY <1>3
  <2>2. ComponentOf(RuntimeGraph, e.required) = ComponentOf(RuntimeGraph, e.issuer)
    BY <1>1, <1>2, <2>1, SameComponent
  <2>3. <<e.issuer, e.required>> \in RuntimeGraph
    BY DEF RuntimeGraph, EdgesOf
  <2>4. e.required \in ComponentOf(RuntimeGraph, e.required)
    BY <2>3, InItsComponent, ArcEnds
  <2> QED
    BY <2>2, <2>4
<1>5. x \in Contract!RequirementOrder(resolution, nodes)
  <2>1. Contract!ComponentOf(Contract!RunGraph(resolution), e.issuer)
          = ComponentOf(RuntimeGraph, e.issuer)
    BY GraphsAlike, CondensedAlike
  <2>2. \A f \in x.witness : f = e
    OBVIOUS
  <2>3. x.before \in Contract!Group(resolution, nodes, e.required)
        /\ x.after \in Contract!Group(resolution, nodes, e.issuer)
    BY GroupIs
  <2>4. x \in [before : nodes, after : nodes,
               witness : {{f} : f \in resolution.edges}, phase : {"none"}]
    BY <1>3
  <2> QED
    BY <1>4, <2>1, <2>2, <2>3, <2>4 DEF Contract!RequirementOrder
<1>6. x \in Witnessed
  BY <1>5, PublishedMade DEF Witnessed
<1> QED
  BY <1>6 DEF OrderOf

(* What is required to run is available, and so is its component.          *)
LEMMA RequiredGroup ==
  ASSUME ContractInv, Published, Genuine(resolution),
         NEW e \in resolution.edges, e.scope = "run"
  PROVE  /\ e.required \in Vertices(RuntimeGraph) /\ e.issuer \in Vertices(RuntimeGraph)
         /\ Contract!Available(nodes, e.required) # {}
         /\ Contract!Available(nodes, e.required) \subseteq GroupOf(e.required)
<1>1. <<e.issuer, e.required>> \in RuntimeGraph
  BY DEF RuntimeGraph, EdgesOf
<1>2. e.required \in ComponentOf(RuntimeGraph, e.required)
  BY <1>1, ArcEnds, InItsComponent
<1>3. Contract!Available(nodes, e.required) # {}
  BY RequiredIsAvailable
<1> QED
  BY <1>1, <1>2, <1>3, ArcEnds DEF GroupOf

(* What s needs to run outside its own component is, node for node, before *)
(* the nodes that make s available.                                        *)
LEMMA ClosureIsOrdered ==
  ASSUME ContractInv, Published, Genuine(resolution), NEW s, NEW t,
         Reaches(RuntimeGraph, s, t), ~Reaches(RuntimeGraph, t, s),
         NEW m \in Contract!Available(nodes, s), NEW n \in Contract!Available(nodes, t)
  PROVE  Reaches(OrderOf(Witnessed), n, m)
<1> DEFINE G == RuntimeGraph
           O == OrderOf(Witnessed)
           Before(v) == \A k \in GroupOf(v) : Reaches(O, k, m)
           D == {v \in Vertices(G) : /\ Reaches(G, s, v)
                                     /\ Reaches(G, v, s) \/ Before(v)}
<1>1. s # t
  BY ReachesItself
<1>2. s \in Vertices(G)
  <2>1. PICK a \in G : a[1] = s
    BY <1>1, ReachesByAnArc
  <2> QED
    BY <2>1 DEF Vertices
<1>3. s \in D
  BY <1>2, ReachesItself
<1>4. ASSUME NEW a \in G, a[1] \in D PROVE a[2] \in D
  <2>1. PICK e \in resolution.edges : e.scope = "run" /\ a = <<e.issuer, e.required>>
    BY DEF RuntimeGraph, EdgesOf
  <2>2. a[1] = e.issuer /\ a[2] = e.required /\ <<e.issuer, e.required>> \in G
    BY <2>1
  <2>3. /\ e.required \in Vertices(G) /\ e.issuer \in Vertices(G)
        /\ Reaches(G, e.issuer, e.required)
    BY <2>2, ArcEnds
  <2>4. Reaches(G, s, e.required)
    BY <1>4, <2>2, <2>3, ReachesTransitive
  <2>5. SUFFICES ASSUME ~Reaches(G, e.required, s) PROVE Before(e.required)
    BY <2>2, <2>3, <2>4
  <2>6. CASE Reaches(G, e.issuer, s)
    <3>1. s \in ComponentOf(G, e.issuer)
      BY <1>2, <1>4, <2>2, <2>6 DEF ComponentOf
    <3>2. e.required \notin ComponentOf(G, e.issuer)
      BY <2>5, <2>6, ReachesTransitive DEF ComponentOf
    <3>3. m \in GroupOf(e.issuer)
      BY <3>1 DEF GroupOf
    <3> QED
      BY <2>1, <3>2, <3>3, RunRequirementOrders, ArcEnds
  <2>7. CASE ~Reaches(G, e.issuer, s) /\ e.required \in ComponentOf(G, e.issuer)
    <3>1. ComponentOf(G, e.required) = ComponentOf(G, e.issuer)
      BY <2>7, SameComponent
    <3> QED
      BY <1>4, <2>2, <2>7, <3>1 DEF GroupOf
  <2>8. CASE ~Reaches(G, e.issuer, s) /\ e.required \notin ComponentOf(G, e.issuer)
    <3>1. Before(e.issuer)
      BY <1>4, <2>2, <2>8
    <3>2. e.issuer # s /\ Reaches(G, s, e.issuer)
      BY <1>4, <2>2, <2>8, ReachesItself
    <3>3. PICK c \in G : c[2] = e.issuer
      BY <3>2, ReachesByALastArc
    <3>4. PICK f \in resolution.edges : f.scope = "run" /\ f.required = e.issuer
      BY <3>3 DEF RuntimeGraph, EdgesOf
    <3>5. PICK k \in GroupOf(e.issuer) : TRUE
      BY <3>4, RequiredGroup
    <3>6. Reaches(O, k, m)
      BY <3>1, <3>5
    <3> SUFFICES ASSUME NEW j \in GroupOf(e.required) PROVE Reaches(O, j, m)
      OBVIOUS
    <3>7. Reaches(O, j, k)
      BY <2>1, <2>8, <3>5, RunRequirementOrders, ArcEnds
    <3> QED
      BY <3>6, <3>7, ReachesTransitive
  <2> QED
    BY <2>6, <2>7, <2>8
<1>5. t \in D
  BY <1>3, <1>4, ReachesWithin DEF Closed
<1>6. Before(t)
  BY <1>5
<1>7. n \in GroupOf(t)
  BY <1>5, InItsComponent DEF GroupOf
<1> QED
  BY <1>6, <1>7

(* What a selection needs to run, directly or not, and does not need it in *)
(* turn, is available before the selection is.                             *)
THEOREM ClosureOrdered == Spec => []RuntimeClosureOrdered
<1>1. ContractInv => RuntimeClosureOrdered
  <2>1. SUFFICES ASSUME ContractInv, Published, Genuine(resolution),
                        NEW s \in Selections, NEW t \in Selections,
                        RunPaths[<<s, t>>], ~RunPaths[<<t, s>>],
                        NEW m \in Available(s), NEW n \in Available(t)
                 PROVE  Paths(nodes, OrderOf(Witnessed))[<<n, m>>]
    BY DEF RuntimeClosureOrdered, Witnessed
  <2>2. Reaches(RuntimeGraph, s, t) /\ ~Reaches(RuntimeGraph, t, s)
    BY <2>1, RunGraphSelected, PathsReach DEF RunPaths
  <2>3. Reaches(OrderOf(Witnessed), n, m)
    BY <2>1, <2>2, ClosureIsOrdered DEF Available
  <2>4. n \in nodes /\ m \in nodes
    BY <2>1, AvailableIsOf DEF Available
  <2> QED
    BY <2>1, <2>3, <2>4, OrderBetweenNodes, PathsReach
<1> QED
  BY InitMade, StepMade, <1>1, PTL DEF Spec

-----------------------------------------------------------------------------
(* The inputs of builds, checks and lifecycle programs.                    *)

LEMMA GateIsOf ==
  ASSUME NEW e, NEW m \in Contract!Gate(nodes, e)
  PROVE  /\ m \in nodes /\ m.selection = {e.issuer}
         /\ e.scope \in {"build", "check"} => m.action = e.scope
         /\ e.scope \notin {"build", "check"} =>
              m.action = "lifecycle" /\ m.lifecycle = e.scope
BY DEF Contract!Gate, Contract!Doing

(* A requirement that is not to run puts what it names before the program  *)
(* it is for.                                                              *)
LEMMA InputOrders ==
  ASSUME ContractInv, Published, NEW e \in resolution.edges, e.scope # "run",
         NEW n \in Contract!Available(nodes, e.required),
         NEW m \in Contract!Gate(nodes, e)
  PROVE  Reaches(OrderOf(Witnessed), n, m)
<1> DEFINE x == [before |-> n, after |-> m, witness |-> {e}, phase |-> "none"]
<1>1. CASE n = m
  BY <1>1, ReachesItself
<1>2. CASE n # m
  <2>1. n \in nodes /\ m \in nodes
    BY AvailableIsOf, GateIsOf
  <2>2. \A f \in x.witness : f = e
    OBVIOUS
  <2>3. x \in [before : nodes, after : nodes,
               witness : {{f} : f \in resolution.edges}, phase : {"none"}]
    BY <2>1
  <2>4. x \in Contract!RequirementOrder(resolution, nodes)
    BY <1>2, <2>2, <2>3 DEF Contract!RequirementOrder
  <2>5. x \in Witnessed
    BY <2>4, PublishedMade DEF Witnessed
  <2>6. <<n, m>> \in OrderOf(Witnessed)
    BY <2>5 DEF OrderOf
  <2> QED
    BY <2>6, ArcEnds
<1> QED
  BY <1>1, <1>2

LEMMA InputIsAvailable ==
  ASSUME ContractInv, Published, Genuine(resolution), NEW e \in resolution.edges
  PROVE  Contract!Available(nodes, e.required) # {}
<1>1. TypeOK
  BY PublishedMade
<1>2. e.scope \in {"build", "check", "run"} \cup LifecycleAction
  BY <1>1 DEF TypeOK, IsResolution, RequirementEdge, Scope
<1>3. e.scope \in {"build", "check"} => ~InTarget(resolution, e.required)
  BY DEF Genuine, EnvironmentsSeparate
<1> QED
  BY <1>2, <1>3, RequiredIsAvailable

(* A build, check or lifecycle program starts after each of its inputs is  *)
(* available, and after all that the input needs to run outside its own    *)
(* cohort.                                                                 *)
THEOREM InputsOrdered == Spec => []InputClosureOrdered
<1>1. ContractInv => InputClosureOrdered
  <2>1. SUFFICES ASSUME ContractInv, Published, Genuine(resolution),
                        NEW e \in resolution.edges, e.scope # "run",
                        NEW m \in Contract!Gate(nodes, e)
                 PROVE  /\ Available(e.required) # {}
                        /\ \A t \in Selections :
                             (t = e.required \/ (RunPaths[<<e.required, t>>]
                                                 /\ ~RunPaths[<<t, e.required>>])) =>
                               \A n \in Available(t) : Paths(nodes, OrderOf(edges))[<<n, m>>]
    BY DEF InputClosureOrdered
  <2>2. Available(e.required) # {}
    BY <2>1, InputIsAvailable DEF Available
  <2>3. ASSUME NEW t \in Selections, NEW n \in Available(t),
               t = e.required \/ (RunPaths[<<e.required, t>>] /\ ~RunPaths[<<t, e.required>>])
        PROVE  Paths(nodes, OrderOf(edges))[<<n, m>>]
    <3>1. t = e.required => Reaches(OrderOf(Witnessed), n, m)
      BY <2>1, <2>3, InputOrders DEF Available
    <3>2. ASSUME t # e.required PROVE Reaches(OrderOf(Witnessed), n, m)
      <4>1. e.required \in Selections
        BY <2>1 DEF Genuine, EdgesJustify, Selections
      <4>2. Reaches(RuntimeGraph, e.required, t) /\ ~Reaches(RuntimeGraph, t, e.required)
        BY <2>1, <2>3, <3>2, <4>1, RunGraphSelected, PathsReach DEF RunPaths
      <4>3. PICK k \in Contract!Available(nodes, e.required) : TRUE
        BY <2>1, InputIsAvailable
      <4>4. Reaches(OrderOf(Witnessed), n, k)
        BY <2>1, <2>3, <4>2, <4>3, ClosureIsOrdered DEF Available
      <4>5. Reaches(OrderOf(Witnessed), k, m)
        BY <2>1, <4>3, InputOrders
      <4> QED
        BY <4>4, <4>5, ReachesTransitive
    <3>3. Reaches(OrderOf(Witnessed), n, m)
      BY <3>1, <3>2
    <3>4. n \in nodes /\ m \in nodes
      BY <2>1, <2>3, AvailableIsOf, GateIsOf DEF Available
    <3> QED
      BY <2>1, <3>3, <3>4, OrderBetweenNodes, PathsReach, ReachesAlongMore
  <2> QED
    BY <2>2, <2>3
<1> QED
  BY InitMade, StepMade, <1>1, PTL DEF Spec

-----------------------------------------------------------------------------
(* What a build waits for.                                                 *)

BuildArcs == {<<e.issuer, e.required>> : e \in EdgesOf({"build"})}

InputGraph == RuntimeGraph \cup BuildArcs

LEMMA OneOfTwoEnvironments ==
  ASSUME TypeOK, NEW s \in Selections
  PROVE  Selected(s).environment = IF InTarget(resolution, s) THEN "target" ELSE "build"
<1>1. Selected(s).environment \in {"build", "target"}
  BY DEF TypeOK, IsResolution, Selection, Environment, Selected, Selections
<1> QED
  BY <1>1 DEF InTarget, Selected

LEMMA RunStaysInEnvironment ==
  ASSUME Genuine(resolution), NEW u \in Selections, NEW v, Reaches(RuntimeGraph, u, v)
  PROVE  v \in Selections /\ Selected(v).environment = Selected(u).environment
<1> DEFINE D == {w \in Selections : Selected(w).environment = Selected(u).environment}
<1>1. ASSUME NEW a \in RuntimeGraph, a[1] \in D PROVE a[2] \in D
  <2>1. PICK e \in resolution.edges : e.scope = "run" /\ a = <<e.issuer, e.required>>
    BY DEF RuntimeGraph, EdgesOf
  <2>2. a[1] = e.issuer /\ a[2] = e.required
    BY <2>1
  <2>3. e.required \in Selections
    BY DEF Genuine, EdgesJustify, Selections
  <2>4. resolution.selections[e.issuer].environment
          = resolution.selections[e.required].environment
    BY <2>1 DEF Genuine, EnvironmentsSeparate
  <2> QED
    BY <1>1, <2>2, <2>3, <2>4 DEF Selected
<1>2. Closed(RuntimeGraph, D)
  BY <1>1 DEF Closed
<1>3. v \in D
  <2> HIDE DEF D
  <2>1. u \in D
    BY DEF D
  <2> QED
    BY <1>2, <2>1, ReachesWithin
<1> QED
  BY <1>3

(* Only a build, and what is retained, is in the build environment.        *)
LEMMA NodesOfEnvironment ==
  ASSUME ContractInv, Published, Genuine(resolution), NEW n \in nodes,
         n.action \notin {"build", "retain"}
  PROVE  n.environment = "target"
<1>1. TypeOK /\ policy \in Policy /\ nodes = Wanting
  BY PublishedMade
<1>2. CASE n.action \in {"check", "lifecycle"}
  <2>1. PICK g \in resolution.goals : g.selection \in Selections /\ n \in GoalNodes(g)
    <3>1. ~\E s \in Selections : \E a \in ActionsOf(s) : n = SelectedNode(s, a, "none")
      BY <1>1, <1>2, ActionsAgree DEF SelectedNode
    <3>2. ~\E p \in Contract!Removed(resolution, policy) : n = RemoveNode(p)
      BY <1>2 DEF RemoveNode
    <3> QED
      BY <1>1, <3>1, <3>2, WantingIs
  <2>2. n.environment = Selected(g.selection).environment
    BY <2>1 DEF GoalNodes, SelectedNode
  <2>3. InTarget(resolution, g.selection)
    BY DEF Genuine, GoalsJustify
  <2> QED
    BY <2>2, <2>3 DEF InTarget, Selected
<1>3. CASE n.action \notin {"check", "lifecycle"}
  <2>1. n.action \in {"install", "upgrade", "remove"}
    BY <1>1, <1>3 DEF TypeOK, Node, Action
  <2>2. n.action = "remove" => n.environment = "target"
    BY <1>1, WantedSelection DEF RemoveNode
  <2> QED
    BY <1>1, <2>1, <2>2, WantedInTarget
<1> QED
  BY <1>2, <1>3

(* A selection that is wanted in the target is not only built.             *)
LEMMA WantedIsPlaced ==
  ASSUME ContractInv, Published, Genuine(resolution), NEW u \in Selections,
         Wanted(resolution, u), NEW m \in Contract!Available(nodes, u)
  PROVE  m.action # "build"
<1>1. TypeOK /\ policy \in Policy /\ nodes = Wanting
  BY PublishedMade
<1>2. InTarget(resolution, u) /\ TargetOperationRequired(u) /\ ~RemovalOnly(u)
  BY <1>1, WantedIs, ReasonsReadAlike
<1>3. PICK a \in ActionsOf(u) : a \in {"install", "upgrade", "retain"}
  <2>1. CASE FromCatalog(resolution, u)
    <3>1. TargetAction(u) # {} /\ TargetAction(u) \subseteq {"install", "upgrade", "retain"}
      BY <1>2 DEF TargetAction
    <3> QED
      BY <2>1, <3>1 DEF ActionsOf, CatalogActions
  <2>2. CASE ~FromCatalog(resolution, u)
    BY <1>2, <2>2 DEF ActionsOf, InstalledActions
  <2> QED
    BY <2>1, <2>2
<1> DEFINE n == SelectedNode(u, a, "none")
<1>4. n \in nodes /\ n.selection = {u} /\ n.action = a
  BY <1>1, <1>3, WantingIs DEF SelectedNode
<1> QED
  BY <1>3, <1>4 DEF Contract!Available, Contract!Doing

(* An arc into a build, or into a node of the build environment, comes     *)
(* from an input of it that is in the build environment.                   *)
LEMMA WaitsForInput ==
  ASSUME ContractInv, Published, Genuine(resolution), RunIsWanted(resolution),
         NEW x \in edges, x.after.action = "build" \/ x.after.environment = "build"
  PROVE  /\ x.before \in nodes /\ x.before.environment = "build"
         /\ \E u \in x.after.selection, t \in x.before.selection :
              Reaches(InputGraph, u, t)
<1> DEFINE y == x.after
           n == x.before
<1>1. TypeOK /\ policy \in Policy /\ nodes = Wanting
  BY PublishedMade
<1>2. x \in Contract!RequirementOrder(resolution, nodes)
  <2>1. SUFFICES ASSUME x \in Contract!PhaseOrdering(resolution, nodes) PROVE FALSE
    BY PublishedMade
  <2>2. n \in nodes /\ y \in nodes
    BY <2>1 DEF Contract!PhaseOrdering
  <2>3. Contract!PhaseOf(resolution, n, y) \in Contract!PhaseKind
    BY <2>1 DEF Contract!PhaseOrdering
  <2>4. \/ y.action \in {"check", "install", "upgrade"}
        \/ Contract!TakesAway(resolution, n, y)
        \/ y.lifecycle \in {"post_install", "post_remove"}
    BY <1>1, <2>2, <2>3, PhaseKinds DEF Contract!PhaseKind
  <2>5. Contract!TakesAway(resolution, n, y) => y.action \in {"upgrade", "remove"}
    BY DEF Contract!TakesAway, Contract!Mutates
  <2>6. y.lifecycle \in {"post_install", "post_remove"} => y.action = "lifecycle"
    BY <1>1, <2>2, WantedSelection
  <2>7. y.action \notin {"build", "retain"}
    BY <2>4, <2>5, <2>6
  <2> QED
    BY <2>2, <2>7, NodesOfEnvironment
<1>3. n \in nodes /\ y \in nodes
  BY <1>2 DEF Contract!RequirementOrder
<1>4. PICK e \in resolution.edges : x.witness = {e}
  BY <1>2 DEF Contract!RequirementOrder
<1>5. e.issuer \in Selections /\ e.required \in Selections
  BY DEF Genuine, EdgesJustify, Selections
<1>6. ASSUME NEW v \in Selections, NEW k \in nodes, k.selection = {v}
      PROVE  k.environment = Selected(v).environment
  <2>1. k.action # "remove"
    BY <1>1, <1>6, WantedSelection
  <2> QED
    BY <1>1, <1>6, <2>1, WantedSelection
<1>7. CASE e.scope = "run"
  <2>1. n \in GroupOf(e.required) /\ y \in GroupOf(e.issuer)
    BY <1>2, <1>4, <1>7, GroupIs DEF Contract!RequirementOrder
  <2>2. PICK t \in ComponentOf(RuntimeGraph, e.required) : n \in Contract!Available(nodes, t)
    BY <2>1 DEF GroupOf
  <2>3. PICK u \in ComponentOf(RuntimeGraph, e.issuer) : y \in Contract!Available(nodes, u)
    BY <2>1 DEF GroupOf
  <2>4. n.selection = {t} /\ y.selection = {u}
    BY <2>2, <2>3, AvailableIsOf
  <2>5. <<e.issuer, e.required>> \in RuntimeGraph
    BY <1>7 DEF RuntimeGraph, EdgesOf
  <2>6. u \in Vertices(RuntimeGraph) /\ u \in Selections
    BY <2>3, RunVertexSelected DEF ComponentOf
  <2>7. Reaches(RuntimeGraph, u, e.issuer) /\ Reaches(RuntimeGraph, u, t)
    BY <2>2, <2>3, <2>5, ArcEnds, ReachesTransitive DEF ComponentOf
  <2>8. t \in Selections /\ Selected(t).environment = Selected(u).environment
    BY <2>6, <2>7, RunStaysInEnvironment
  <2>9. Selected(u).environment = "build"
    <3>1. SUFFICES ASSUME y.action = "build", InTarget(resolution, u) PROVE FALSE
      BY <1>1, <1>3, <1>6, <2>4, <2>6, OneOfTwoEnvironments
    <3>2. \E f \in resolution.edges : f.scope = "run" /\ f.issuer = u
      <4>1. PICK c \in RuntimeGraph : c[1] = u
        BY <1>4, <2>5, <2>7, ReachesByAnArc
      <4> QED
        BY <4>1 DEF RuntimeGraph, EdgesOf
    <3>3. Wanted(resolution, u)
      BY <3>1, <3>2 DEF RunIsWanted
    <3> QED
      BY <2>3, <2>6, <3>1, <3>3, WantedIsPlaced
  <2>10. Reaches(InputGraph, u, t)
    BY <2>7, ReachesAlongMore DEF InputGraph
  <2> QED
    BY <1>3, <1>6, <2>4, <2>8, <2>9, <2>10
<1>8. CASE e.scope # "run"
  <2>1. n \in Contract!Available(nodes, e.required) /\ y \in Contract!Gate(nodes, e)
    BY <1>2, <1>4, <1>8 DEF Contract!RequirementOrder
  <2>2. n.selection = {e.required} /\ y.selection = {e.issuer}
    BY <2>1, AvailableIsOf, GateIsOf
  <2>3. y.action \in {"build", "retain"}
    BY <1>3, NodesOfEnvironment
  <2>4. e.scope = "build"
    BY <2>1, <2>3, GateIsOf
  <2>5. ~InTarget(resolution, e.required)
    BY <2>4 DEF Genuine, EnvironmentsSeparate
  <2>6. n.environment = "build"
    BY <1>1, <1>3, <1>5, <1>6, <2>2, <2>5, OneOfTwoEnvironments
  <2>7. <<e.issuer, e.required>> \in InputGraph
    BY <2>4 DEF InputGraph, BuildArcs, EdgesOf
  <2> QED
    BY <1>3, <2>2, <2>6, <2>7, ArcEnds
<1> QED
  BY <1>7, <1>8

(* Nothing delays a build but its build inputs and what those, or the      *)
(* package itself in the build environment, need to run.                   *)
THEOREM BuildsWaitForInputs == Spec => []ConstructionWaitsOnlyForInputs
<1>1. ContractInv => ConstructionWaitsOnlyForInputs
  <2>1. SUFFICES ASSUME ContractInv, Published, Genuine(resolution), RunIsWanted(resolution),
                        NEW b \in nodes, b.action = "build",
                        NEW n \in nodes, n # b, Paths(nodes, OrderOf(edges))[<<n, b>>]
                 PROVE  /\ n.environment = "build"
                        /\ \E s \in b.selection, t \in n.selection :
                             Paths(Selections, InputGraph)[<<s, t>>]
    BY DEF ConstructionWaitsOnlyForInputs, InputGraph, BuildArcs
  <2> DEFINE Input(k) == /\ k.environment = "build"
                         /\ \E s \in b.selection, t \in k.selection :
                              Reaches(InputGraph, s, t)
             D == {k \in nodes : k # b /\ ~Input(k)}
  <2>2. TypeOK /\ policy \in Policy /\ nodes = Wanting
    BY <2>1, PublishedMade
  <2>3. ASSUME NEW k \in nodes, k.action # "remove"
        PROVE  \E s \in Selections : k.selection = {s}
    BY <2>2, <2>3, WantedSelection
  <2>4. ASSUME NEW a \in OrderOf(edges), a[1] \in D PROVE a[2] \in D
    <3>1. PICK x \in edges : a = <<x.before, x.after>>
      BY DEF OrderOf
    <3>2. a[1] = x.before /\ a[2] = x.after
      BY <3>1
    <3>3. x.after \in nodes
      BY <2>1, <3>1, OrderBetweenNodes DEF OrderOf
    <3>4. SUFFICES ASSUME x.after = b \/ Input(x.after) PROVE FALSE
      BY <3>2, <3>3
    <3>5. x.before.environment = "build"
      BY <2>1, <3>4, WaitsForInput
    <3>6. PICK u \in x.after.selection, t \in x.before.selection : Reaches(InputGraph, u, t)
      BY <2>1, <3>4, WaitsForInput
    <3>7. \E s \in b.selection : Reaches(InputGraph, s, u)
      <4>1. CASE x.after = b
        BY <4>1, ReachesItself
      <4>2. CASE x.after # b
        <5>1. PICK s \in b.selection, v \in x.after.selection : Reaches(InputGraph, s, v)
          BY <3>4, <4>2
        <5>2. u = v
          <6>1. x.after.action # "remove"
            BY <2>2, <3>3, <5>1, WantedSelection
          <6> QED
            BY <2>3, <3>3, <5>1, <6>1
        <5> QED
          BY <5>1, <5>2
      <4> QED
        BY <4>1, <4>2
    <3>8. Input(x.before)
      BY <3>5, <3>6, <3>7, ReachesTransitive
    <3> QED
      BY <2>4, <3>2, <3>8
  <2>5. Closed(OrderOf(edges), D)
    BY <2>4 DEF Closed
  <2>6. Reaches(OrderOf(edges), n, b)
    BY <2>1, OrderBetweenNodes, PathsReach
  <2>7. n \notin D
    <3>1. b \notin D
      OBVIOUS
    <3> HIDE DEF D
    <3> QED
      BY <2>5, <2>6, <3>1, ReachesWithin
  <2>8. Input(n)
    BY <2>1, <2>7
  <2>9. InputGraph \subseteq Selections \X Selections
    <3>1. \A e \in resolution.edges : e.issuer \in Selections /\ e.required \in Selections
      BY <2>1 DEF Genuine, EdgesJustify, Selections
    <3>2. BuildArcs \subseteq Selections \X Selections
      BY <3>1 DEF BuildArcs, EdgesOf
    <3> QED
      BY <2>1, <3>2, RunGraphSelected DEF InputGraph
  <2>10. PICK s \in b.selection, t \in n.selection : Reaches(InputGraph, s, t)
    BY <2>8
  <2>11. s \in Selections /\ t \in Selections
    <3>1. n.action # "remove"
      BY <2>1, <2>2, <2>10, WantedSelection
    <3> QED
      BY <2>1, <2>3, <2>10, <3>1
  <2> QED
    BY <2>8, <2>9, <2>10, <2>11, PathsReach
<1> QED
  BY InitMade, StepMade, <1>1, PTL DEF Spec

-----------------------------------------------------------------------------
(* The partial order.  A cycle of nodes is followed back to a cycle of     *)
(* what selections need.                                                   *)

NeedGraph == {<<e.issuer, e.required>> : e \in resolution.edges} \cup Replacements

Need(s, t) == Reaches(NeedGraph, s, t)

(* The selection that a node stands for: its own, or the installed one     *)
(* that a removal takes away.                                              *)
StandsFor(n, s) ==
  /\ s \in Selections
  /\ \/ n.selection = {s}
     \/ /\ n.selection = {}
        /\ FromInstalled(resolution, s) /\ InTarget(resolution, s)
        /\ Selected(s).package = n.package

LEMMA NeedsSelections ==
  ASSUME Genuine(resolution)
  PROVE  NeedGraph \subseteq Selections \X Selections
<1>1. \A e \in resolution.edges : e.issuer \in Selections /\ e.required \in Selections
  BY DEF Genuine, EdgesJustify, Selections
<1> QED
  BY <1>1 DEF NeedGraph, Replacements

LEMMA NeedOfEdge ==
  ASSUME NEW e \in resolution.edges
  PROVE  Need(e.issuer, e.required)
<1>1. <<e.issuer, e.required>> \in NeedGraph
  BY DEF NeedGraph
<1> QED
  BY <1>1, ArcEnds DEF Need

(* What a requirement orders stands for the two ends of the requirement,   *)
(* or for a selection of the run cycle of an end.                          *)
LEMMA RequirementStands ==
  ASSUME ContractInv, Published, Genuine(resolution),
         NEW x \in Contract!RequirementOrder(resolution, nodes)
  PROVE  \E e \in resolution.edges : \E s, t \in Selections :
           /\ x.witness = {e}
           /\ x.before \in Contract!Available(nodes, s) /\ x.after.selection = {t}
           /\ Need(t, e.issuer) /\ Need(e.required, s)
           /\ e.scope = "run" => e.required \notin ComponentOf(RuntimeGraph, e.issuer)
           /\ e.scope # "run" => /\ s = e.required /\ t = e.issuer
                                 /\ x.after \in Contract!Gate(nodes, e)
<1>1. PICK e \in resolution.edges : x.witness = {e}
  BY DEF Contract!RequirementOrder
<1>2. e.issuer \in Selections /\ e.required \in Selections
  BY DEF Genuine, EdgesJustify, Selections
<1>3. CASE e.scope = "run"
  <2>1. /\ x.before \in GroupOf(e.required) /\ x.after \in GroupOf(e.issuer)
        /\ e.required \notin ComponentOf(RuntimeGraph, e.issuer)
    BY <1>1, <1>3, GroupIs, GraphsAlike, CondensedAlike DEF Contract!RequirementOrder
  <2>2. PICK s \in ComponentOf(RuntimeGraph, e.required) : x.before \in Contract!Available(nodes, s)
    BY <2>1 DEF GroupOf
  <2>3. PICK t \in ComponentOf(RuntimeGraph, e.issuer) : x.after \in Contract!Available(nodes, t)
    BY <2>1 DEF GroupOf
  <2>4. RuntimeGraph \subseteq NeedGraph
    BY DEF RuntimeGraph, EdgesOf, NeedGraph
  <2>5. Need(t, e.issuer) /\ Need(e.required, s)
    BY <2>2, <2>3, <2>4, ReachesAlongMore DEF ComponentOf, Need
  <2>6. s \in Selections /\ t \in Selections
    BY <2>2, <2>3, RunVertexSelected DEF ComponentOf
  <2> QED
    BY <1>1, <1>3, <2>1, <2>2, <2>3, <2>5, <2>6, AvailableIsOf
<1>4. CASE e.scope # "run"
  <2>1. x.before \in Contract!Available(nodes, e.required) /\ x.after \in Contract!Gate(nodes, e)
    BY <1>1, <1>4 DEF Contract!RequirementOrder
  <2>2. x.after.selection = {e.issuer}
    BY <2>1, GateIsOf
  <2>3. Need(e.issuer, e.issuer) /\ Need(e.required, e.required)
    BY ReachesItself DEF Need
  <2> QED
    BY <1>1, <1>2, <1>4, <2>1, <2>2, <2>3
<1> QED
  BY <1>3, <1>4

(* The removal program and the operation it belongs to are of one package  *)
(* in the target.                                                          *)
LEMMA TakenAwayStands ==
  ASSUME ContractInv, Published, Genuine(resolution), NEW n \in nodes, NEW m \in nodes,
         n.action = "lifecycle", Contract!TakesAway(resolution, n, m)
  PROVE  \E s \in Selections :
           /\ n.selection = {s}
           /\ \A t : StandsFor(m, t) => Need(t, s) /\ Need(s, t)
           /\ \E t : StandsFor(m, t)
<1>1. TypeOK /\ policy \in Policy /\ nodes = Wanting
  BY PublishedMade
<1>2. PICK s \in Selections : n.selection = {s} /\ n.environment = Selected(s).environment
  BY <1>1, WantedSelection
<1>3. FromInstalled(resolution, s) /\ Selected(s).authority.package = m.package
  BY <1>2 DEF Contract!TakesAway, Contract!FromInstalled, FromInstalled,
              Contract!AuthorityKind, AuthorityKind, Selected
<1>4. InTarget(resolution, s)
  BY <1>2, NodesOfEnvironment DEF InTarget, Selected
<1>5. Selected(s).package = m.package
  BY <1>3 DEF Genuine, AuthoritiesExact, Selections, Selected
<1>6. m.action \in {"upgrade", "remove"}
  BY DEF Contract!TakesAway, Contract!Mutates
<1>7. CASE m.action = "remove"
  <2>1. m.selection = {}
    BY <1>1, <1>7, WantedSelection
  <2>2. StandsFor(m, s)
    BY <1>3, <1>4, <1>5, <2>1 DEF StandsFor
  <2>3. ASSUME NEW t, StandsFor(m, t) PROVE t = s
    <3>1. /\ t \in Selections /\ FromInstalled(resolution, t) /\ InTarget(resolution, t)
          /\ Selected(t).package = Selected(s).package
      BY <1>5, <2>1, <2>3 DEF StandsFor
    <3> QED
      BY <1>3, <1>4, <3>1 DEF Genuine, SelectionsDistinct, Selections, Selected, InTarget,
                              FromInstalled
  <2>4. Need(s, s)
    BY ReachesItself DEF Need
  <2> QED
    BY <1>2, <2>2, <2>3, <2>4
<1>8. CASE m.action = "upgrade"
  <2>1. PICK t \in Selections :
          /\ m.selection = {t} /\ m.package = Selected(t).package
          /\ Wanted(resolution, t) /\ FromCatalog(resolution, t)
    BY <1>8, IncomingIsWanted
  <2>2. t # s
    BY <1>3, <2>1 DEF FromCatalog, FromInstalled
  <2>3. <<s, t>> \in Replacements /\ <<t, s>> \in Replacements
    BY <1>4, <1>5, <2>1, <2>2 DEF Replacements, Wanted
  <2>4. Need(t, s) /\ Need(s, t)
    BY <2>3, ArcEnds DEF NeedGraph, Need
  <2>5. \A u : StandsFor(m, u) <=> u = t
    BY <2>1 DEF StandsFor
  <2> QED
    BY <1>2, <2>4, <2>5
<1> QED
  BY <1>6, <1>7, <1>8

(* What comes after something in the program stands for what needs it.     *)
LEMMA ArcNeeds ==
  ASSUME ContractInv, Published, Genuine(resolution),
         NEW x \in edges, NEW t, StandsFor(x.after, t)
  PROVE  \E s : StandsFor(x.before, s) /\ Need(t, s)
<1> DEFINE n == x.before
           m == x.after
<1>1. TypeOK /\ policy \in Policy /\ nodes = Wanting
  BY PublishedMade
<1>2. CASE x \in Contract!RequirementOrder(resolution, nodes)
  <2>1. PICK e \in resolution.edges : \E s, u \in Selections :
           /\ n \in Contract!Available(nodes, s) /\ m.selection = {u}
           /\ Need(u, e.issuer) /\ Need(e.required, s)
    BY <1>2, RequirementStands
  <2>2. PICK s \in Selections, u \in Selections :
           /\ n \in Contract!Available(nodes, s) /\ m.selection = {u}
           /\ Need(u, e.issuer) /\ Need(e.required, s)
    BY <2>1
  <2>3. u = t
    BY <2>2 DEF StandsFor
  <2>4. Need(t, s)
    BY <2>2, <2>3, NeedOfEdge, ReachesTransitive DEF Need
  <2>5. StandsFor(n, s)
    BY <2>2, AvailableIsOf DEF StandsFor
  <2> QED
    BY <2>4, <2>5
<1>3. CASE x \in Contract!PhaseOrdering(resolution, nodes)
  <2>1. n \in nodes /\ m \in nodes
    BY <1>3 DEF Contract!PhaseOrdering
  <2>2. Contract!PhaseOf(resolution, n, m) \in Contract!PhaseKind
    BY <1>3 DEF Contract!PhaseOrdering
  <2>3. \/ n.selection = m.selection /\ n.action # "remove"
        \/ n.lifecycle = "pre_remove" /\ Contract!TakesAway(resolution, n, m)
        \/ m.lifecycle = "post_remove" /\ Contract!TakesAway(resolution, m, n)
    <3>1. \/ n.selection = m.selection
             /\ \/ n.action \in {"build", "check", "install", "upgrade"}
                \/ n.lifecycle = "pre_install"
          \/ n.lifecycle = "pre_remove" /\ Contract!TakesAway(resolution, n, m)
          \/ m.lifecycle = "post_remove" /\ Contract!TakesAway(resolution, m, n)
      BY <1>1, <2>1, <2>2, PhaseKinds DEF Contract!PhaseKind
    <3>2. n.lifecycle = "pre_install" => n.action = "lifecycle"
      BY <1>1, <2>1, WantedSelection
    <3> QED
      BY <3>1, <3>2
  <2>4. CASE n.selection = m.selection /\ n.action # "remove"
    <3>1. n.selection = {t}
      BY <1>1, <2>1, <2>4, WantedSelection DEF StandsFor
    <3>2. StandsFor(n, t) /\ Need(t, t)
      BY <3>1, ReachesItself DEF StandsFor, Need
    <3> QED
      BY <3>2
  <2>5. CASE n.lifecycle = "pre_remove" /\ Contract!TakesAway(resolution, n, m)
    <3>1. n.action = "lifecycle"
      BY <1>1, <2>1, <2>5, WantedSelection
    <3>2. PICK s \in Selections : n.selection = {s} /\ \A u : StandsFor(m, u) => Need(u, s)
      BY <2>1, <2>5, <3>1, TakenAwayStands
    <3> QED
      BY <3>2 DEF StandsFor
  <2>6. CASE m.lifecycle = "post_remove" /\ Contract!TakesAway(resolution, m, n)
    <3>1. m.action = "lifecycle"
      BY <1>1, <2>1, <2>6, WantedSelection
    <3>2. PICK u \in Selections :
             /\ m.selection = {u}
             /\ \A s : StandsFor(n, s) => Need(u, s)
             /\ \E s : StandsFor(n, s)
      BY <2>1, <2>6, <3>1, TakenAwayStands
    <3>3. u = t
      BY <3>2 DEF StandsFor
    <3> QED
      BY <3>2, <3>3
  <2> QED
    BY <2>3, <2>4, <2>5, <2>6
<1> QED
  BY <1>2, <1>3, PublishedMade

(* A requirement that orders two nodes of a cycle is on a cycle itself.    *)
LEMMA OrderCycleNeeds ==
  ASSUME ContractInv, Published, Genuine(resolution),
         NEW x \in edges, NEW e \in x.witness,
         Reaches(OrderOf(edges), x.after, x.before)
  PROVE  Need(e.required, e.issuer)
<1> DEFINE D == {k \in nodes : \A u : StandsFor(k, u) => Need(u, e.issuer)}
<1>1. x \in Contract!RequirementOrder(resolution, nodes)
  <2>1. \A y \in Contract!PhaseOrdering(resolution, nodes) : y.witness = {}
    BY DEF Contract!PhaseOrdering
  <2> QED
    BY <2>1, PublishedMade
<1>2. PICK s \in Selections, t \in Selections :
        /\ x.before \in Contract!Available(nodes, s) /\ x.after.selection = {t}
        /\ Need(t, e.issuer) /\ Need(e.required, s)
  <2>1. \E f \in resolution.edges : \E s, t \in Selections :
           /\ x.witness = {f}
           /\ x.before \in Contract!Available(nodes, s) /\ x.after.selection = {t}
           /\ Need(t, f.issuer) /\ Need(f.required, s)
    BY <1>1, RequirementStands
  <2> QED
    BY <2>1
<1>3. x.after \in D
  <2>1. x.after \in nodes
    BY <1>1 DEF Contract!RequirementOrder
  <2>2. \A u : StandsFor(x.after, u) => u = t
    BY <1>2 DEF StandsFor
  <2> QED
    BY <1>2, <2>1, <2>2
<1>4. ASSUME NEW a \in OrderOf(edges), a[1] \in D PROVE a[2] \in D
  <2>1. PICK y \in edges : a = <<y.before, y.after>>
    BY DEF OrderOf
  <2>2. a[1] = y.before /\ a[2] = y.after /\ y.after \in nodes
    BY <2>1, OrderBetweenNodes
  <2>3. ASSUME NEW u, StandsFor(y.after, u) PROVE Need(u, e.issuer)
    <3>1. PICK v : StandsFor(y.before, v) /\ Need(u, v)
      BY <2>3, ArcNeeds
    <3>2. Need(v, e.issuer)
      BY <1>4, <2>2, <3>1
    <3> QED
      BY <3>1, <3>2, ReachesTransitive DEF Need
  <2> QED
    BY <2>2, <2>3
<1>5. x.before \in D
  <2>1. Closed(OrderOf(edges), D)
    BY <1>4 DEF Closed
  <2> HIDE DEF D
  <2> QED
    BY <1>3, <2>1, ReachesWithin
<1>6. StandsFor(x.before, s)
  BY <1>2, AvailableIsOf DEF StandsFor
<1>7. Need(s, e.issuer)
  BY <1>5, <1>6
<1> QED
  BY <1>2, <1>7, ReachesTransitive DEF Need

(* The phases of a package run in one direction.                           *)
Rank(n) ==
  IF n.action = "build" THEN 0
  ELSE IF n.action = "check" \/ n.lifecycle \in {"pre_install", "pre_remove"} THEN 1
  ELSE IF n.action # "lifecycle" THEN 2
  ELSE 3

LEMMA PhaseRises ==
  ASSUME ContractInv, Published, NEW x \in Contract!PhaseOrdering(resolution, nodes)
  PROVE  Rank(x.before) < Rank(x.after)
<1> DEFINE n == x.before
           m == x.after
<1>1. TypeOK /\ policy \in Policy /\ nodes = Wanting
  BY PublishedMade
<1>2. n \in nodes /\ m \in nodes /\ Contract!PhaseOf(resolution, n, m) \in Contract!PhaseKind
  BY DEF Contract!PhaseOrdering
<1>3. \/ n.action = "build" /\ m.action \in {"check", "install", "upgrade"}
      \/ n.action = "check" /\ m.action \in {"install", "upgrade"}
      \/ n.lifecycle \in {"pre_install", "pre_remove"}
           /\ m.action \in {"install", "upgrade", "remove"}
      \/ m.lifecycle \in {"post_install", "post_remove"}
           /\ n.action \in {"install", "upgrade", "remove"}
  <2>1. \/ n.action = "build" /\ m.action \in {"check", "install", "upgrade"}
        \/ n.action = "check" /\ m.action \in {"install", "upgrade"}
        \/ n.lifecycle = "pre_install" /\ m.action \in {"install", "upgrade"}
        \/ n.lifecycle = "pre_remove" /\ Contract!TakesAway(resolution, n, m)
        \/ m.lifecycle = "post_install" /\ n.action \in {"install", "upgrade"}
        \/ m.lifecycle = "post_remove" /\ Contract!TakesAway(resolution, m, n)
    BY <1>1, <1>2, PhaseKinds DEF Contract!PhaseKind
  <2> QED
    BY <2>1 DEF Contract!TakesAway, Contract!Mutates
<1>4. \A k \in {n, m} : /\ k.action # "lifecycle" => k.lifecycle = "none"
                        /\ k.action = "lifecycle" => k.lifecycle \in LifecycleAction
  BY <1>1, <1>2, WantedSelection
<1>5. n.lifecycle \in {"pre_install", "pre_remove"} => n.action = "lifecycle"
  BY <1>4
<1>6. m.lifecycle \in {"post_install", "post_remove"} => m.action = "lifecycle"
  BY <1>4
<1>7. \A k \in {n, m} : /\ k.action = "build" => Rank(k) = 0
                        /\ k.action = "check" => Rank(k) = 1
                        /\ k.lifecycle \in {"pre_install", "pre_remove"} => Rank(k) = 1
                        /\ k.action \in {"install", "upgrade", "remove"} => Rank(k) = 2
                        /\ k.lifecycle \in {"post_install", "post_remove"} => Rank(k) = 3
  BY <1>4 DEF Rank
<1> QED
  BY <1>3, <1>7

(* So a cycle has a requirement in it.                                     *)
LEMMA CycleHasRequirement ==
  ASSUME ContractInv, Published, NEW y \in edges,
         Reaches(OrderOf(edges), y.after, y.before)
  PROVE  \E x \in Contract!RequirementOrder(resolution, nodes) :
            Reaches(OrderOf(edges), x.after, x.before)
<1> DEFINE O == OrderOf(edges)
           D == {k \in nodes : Reaches(O, y.after, k)
                                 /\ (Reaches(O, k, y.before) => Rank(y.after) <= Rank(k))}
<1>1. SUFFICES ASSUME \A x \in Contract!RequirementOrder(resolution, nodes) :
                        ~Reaches(O, x.after, x.before)
               PROVE  FALSE
  OBVIOUS
<1>2. ASSUME NEW x \in edges, Reaches(O, x.after, x.before)
      PROVE  Rank(x.before) < Rank(x.after)
  <2>1. x \in Contract!PhaseOrdering(resolution, nodes)
    BY <1>1, <1>2, PublishedMade
  <2> QED
    BY <2>1, PhaseRises
<1>3. \A k : Rank(k) \in Nat
  BY DEF Rank
<1>4. y.after \in nodes /\ <<y.before, y.after>> \in O
  <2>1. <<y.before, y.after>> \in O
    BY DEF OrderOf
  <2>2. <<y.before, y.after>> \in nodes \X nodes
    BY <2>1, OrderBetweenNodes
  <2> QED
    BY <2>1, <2>2
<1>5. y.after \in D
  BY <1>3, <1>4, ReachesItself
<1>6. ASSUME NEW a \in O, a[1] \in D PROVE a[2] \in D
  <2>1. PICK x \in edges : a = <<x.before, x.after>>
    BY DEF OrderOf
  <2>2. a[1] = x.before /\ a[2] = x.after /\ x.after \in nodes
    BY <2>1, OrderBetweenNodes
  <2>3. Reaches(O, x.before, x.after)
    BY <2>2, ReachesAlongArc
  <2>4. Reaches(O, y.after, x.after)
    BY <1>6, <2>2, <2>3, ReachesTransitive
  <2>5. ASSUME Reaches(O, x.after, y.before) PROVE Rank(y.after) <= Rank(x.after)
    <3>1. Reaches(O, x.before, y.before)
      BY <2>3, <2>5, ReachesTransitive
    <3>2. Rank(y.after) <= Rank(x.before)
      BY <1>6, <2>2, <3>1
    <3>3. Reaches(O, y.before, y.after)
      BY <1>4, ArcEnds
    <3>4. Reaches(O, y.after, x.before)
      BY <1>6, <2>2
    <3>5. Reaches(O, x.after, x.before)
      BY <2>5, <3>3, <3>4, ReachesTransitive
    <3>6. Rank(x.before) < Rank(x.after)
      BY <1>2, <3>5
    <3> QED
      BY <1>3, <3>2, <3>6
  <2> QED
    BY <2>2, <2>4, <2>5
<1>7. y.before \in D
  <2>1. Closed(O, D)
    BY <1>6 DEF Closed
  <2> HIDE DEF D
  <2> QED
    BY <1>5, <2>1, ReachesWithin
<1>8. Rank(y.after) <= Rank(y.before)
  BY <1>7, ReachesItself
<1>9. Rank(y.before) < Rank(y.after)
  BY <1>2
<1> QED
  BY <1>3, <1>8, <1>9

(* Requirements on one cycle are of one kind, and no replacement is on it. *)
LEMMA OneKind ==
  ASSUME Genuine(resolution), Unmixed,
         NEW e \in resolution.edges, Need(e.required, e.issuer)
  PROVE  /\ \A f \in resolution.edges :
              Need(f.required, f.issuer) /\ Need(e.issuer, f.issuer) /\ Need(f.issuer, e.issuer)
                => ScopeClass(f) = ScopeClass(e)
         /\ \A z \in Replacements : ~(Need(e.issuer, z[1]) /\ Need(z[1], e.issuer))
<1> DEFINE need == Paths(Selections, NeedGraph)
<1>1. \A f \in resolution.edges : f.issuer \in Selections /\ f.required \in Selections
  BY DEF Genuine, EdgesJustify, Selections
<1>2. \A u, v \in Selections : need[<<u, v>>] <=> Need(u, v)
  BY NeedsSelections, PathsReach DEF Need
<1>3. \A z \in Replacements : z[1] \in Selections
  BY DEF Replacements
<1> QED
  BY <1>1, <1>2, <1>3 DEF Unmixed, NeedGraph

(* On a cycle that mixes no kinds, a requirement is met by requirements of *)
(* its own kind all the way around.                                        *)
LEMMA OneKindAround ==
  ASSUME TypeOK, Genuine(resolution), Unmixed,
         NEW e \in resolution.edges, Need(e.required, e.issuer),
         NEW kind, kind = {<<f.issuer, f.required>> :
                             f \in {g \in resolution.edges : ScopeClass(g) = ScopeClass(e)}}
  PROVE  Reaches(kind, e.required, e.issuer)
<1> DEFINE D == {u \in Selections : Need(u, e.issuer) =>
                     Need(e.required, u) /\ Reaches(kind, e.required, u)}
<1>1. \A f \in resolution.edges : f.issuer \in Selections /\ f.required \in Selections
  BY DEF Genuine, EdgesJustify, Selections
<1>2. ASSUME NEW f \in resolution.edges, Need(f.required, f.issuer),
             Need(e.issuer, f.issuer), Need(f.issuer, e.issuer)
      PROVE  ScopeClass(f) = ScopeClass(e)
  BY <1>2, OneKind
<1>3. \A z \in Replacements : ~(Need(e.issuer, z[1]) /\ Need(z[1], e.issuer))
  BY OneKind
<1>4. Need(e.issuer, e.required)
  BY NeedOfEdge
<1>5. e.required \in D
  BY <1>1, ReachesItself DEF Need
<1>6. ASSUME NEW a \in NeedGraph, a[1] \in D PROVE a[2] \in D
  <2> DEFINE u == a[1]
             v == a[2]
  <2>1. u \in Selections /\ v \in Selections
    BY NeedsSelections
  <2>2. SUFFICES ASSUME Need(v, e.issuer)
                 PROVE  Need(e.required, v) /\ Reaches(kind, e.required, v)
    BY <2>1
  <2>3. Need(u, v)
    BY ReachesAlongArc DEF Need
  <2>4. Need(u, e.issuer)
    BY <2>2, <2>3, ReachesTransitive DEF Need
  <2>5. Need(e.required, u) /\ Reaches(kind, e.required, u)
    BY <1>6, <2>4
  <2>6. Need(e.required, v)
    BY <2>3, <2>5, ReachesTransitive DEF Need
  <2>7. Need(e.issuer, u)
    BY <1>4, <2>5, ReachesTransitive DEF Need
  <2>8. PICK f \in resolution.edges : a = <<f.issuer, f.required>>
    <3>1. a \notin Replacements
      BY <1>3, <2>4, <2>7
    <3> QED
      BY <3>1 DEF NeedGraph
  <2>9. u = f.issuer /\ v = f.required
    BY <2>8
  <2>10. Need(f.required, f.issuer)
    BY <2>2, <2>7, <2>9, ReachesTransitive DEF Need
  <2>11. ScopeClass(f) = ScopeClass(e)
    BY <1>2, <2>4, <2>7, <2>9, <2>10
  <2>12. Reaches(kind, u, v)
    <3>1. <<f.issuer, f.required>> \in kind
      BY <2>11
    <3> QED
      BY <2>9, <3>1, ArcEnds
  <2>13. Reaches(kind, e.required, v)
    BY <2>5, <2>12, ReachesTransitive
  <2> QED
    BY <2>6, <2>13
<1>7. e.issuer \in D
  <2>1. Closed(NeedGraph, D)
    BY <1>6 DEF Closed
  <2>2. Reaches(NeedGraph, e.required, e.issuer)
    BY DEF Need
  <2> HIDE DEF D
  <2> QED
    BY <1>5, <2>1, <2>2, ReachesWithin
<1>8. Need(e.issuer, e.issuer)
  BY ReachesItself DEF Need
<1> QED
  BY <1>7, <1>8

(* A program is published only when nothing needs itself to be built or to *)
(* run its lifecycle programs.                                             *)
LEMMA PublishedAcyclic ==
  ASSUME ContractInv, Published
  PROVE  ~HasCycle(ConstructionGraph) /\ ~HasCycle(LifecycleGraph)
<1>1. stage \in AfterCycles
  BY DEF Published, AfterCycles, AfterCohorts, AfterRequirements, AfterPhases, AfterRemovalPhases
<1> QED
  BY <1>1 DEF ContractInv, Made, CyclesRefused

(* Every graph of requirements is finite.                                  *)
LEMMA ArcsFinite ==
  ASSUME IsFiniteSet(resolution.edges), NEW E \in SUBSET resolution.edges
  PROVE  IsFiniteSet({<<e.issuer, e.required>> : e \in E})
<1> DEFINE A == {<<e.issuer, e.required>> : e \in E}
           arc == [e \in E |-> <<e.issuer, e.required>>]
<1>1. IsFiniteSet(E)
  BY FS_Subset
<1>2. arc \in Surjection(E, A)
  BY DEF Surjection
<1> HIDE DEF A, arc
<1> QED
  BY <1>1, <1>2, FS_Surjection DEF A

(* A cycle of the program is of the kind of one requirement in it: run     *)
(* cycles were condensed, lifecycle cycles refused.                        *)
LEMMA CycleIsOfInputs ==
  ASSUME ContractInv, Published, Genuine(resolution), Unmixed,
         NEW x \in edges, NEW e \in x.witness, Reaches(OrderOf(edges), x.after, x.before)
  PROVE  e.scope \in {"build", "check"}
<1>1. TypeOK
  BY PublishedMade
<1>2. e \in resolution.edges /\ x \in Contract!RequirementOrder(resolution, nodes)
  <2>1. \A y \in Contract!PhaseOrdering(resolution, nodes) : y.witness = {}
    BY DEF Contract!PhaseOrdering
  <2>2. x \in Contract!RequirementOrder(resolution, nodes)
    BY <2>1, PublishedMade
  <2> QED
    BY <2>2 DEF Contract!RequirementOrder
<1>3. Need(e.required, e.issuer)
  BY OrderCycleNeeds
<1>4. e.scope \in Scope /\ IsFiniteSet(resolution.edges)
  BY <1>1, <1>2 DEF TypeOK, IsResolution, RequirementEdge
<1>5. resolution.edges \subseteq RequirementEdge
  BY <1>1 DEF TypeOK, IsResolution
<1> DEFINE kind == {<<f.issuer, f.required>> :
                      f \in {g \in resolution.edges : ScopeClass(g) = ScopeClass(e)}}
<1>6. Reaches(kind, e.required, e.issuer)
  BY <1>1, <1>2, <1>3, OneKindAround
<1>7. CASE e.scope = "run"
  <2>1. \A g \in resolution.edges : ScopeClass(g) = ScopeClass(e) <=> g.scope \in {"run"}
    BY <1>7 DEF ScopeClass, LifecycleAction, InstallAction, RemovalAction
  <2>2. kind = RuntimeGraph
    BY <2>1 DEF RuntimeGraph, EdgesOf
  <2>3. <<e.issuer, e.required>> \in RuntimeGraph
    BY <1>2, <1>7 DEF RuntimeGraph, EdgesOf
  <2>4. e.required \in ComponentOf(RuntimeGraph, e.issuer)
    BY <1>6, <2>2, <2>3, ArcEnds DEF ComponentOf
  <2>5. e.required \notin ComponentOf(RuntimeGraph, e.issuer)
    <3>1. \E f \in resolution.edges :
             /\ x.witness = {f}
             /\ f.scope = "run" => f.required \notin ComponentOf(RuntimeGraph, f.issuer)
      BY <1>2, RequirementStands
    <3> QED
      BY <1>7, <3>1
  <2> QED
    BY <2>4, <2>5
<1>8. CASE e.scope \in LifecycleAction
  <2>1. \A g \in resolution.edges : ScopeClass(g) = ScopeClass(e) <=> g.scope \in LifecycleAction
    <3>1. "lifecycle" \notin Scope
      BY DEF Scope, LifecycleAction, InstallAction, RemovalAction
    <3>2. \A g \in resolution.edges : g.scope \in Scope
      BY <1>5 DEF RequirementEdge
    <3> QED
      BY <1>8, <3>1, <3>2 DEF ScopeClass
  <2>2. kind = LifecycleGraph
    BY <2>1 DEF LifecycleGraph, EdgesOf
  <2>3. <<e.issuer, e.required>> \in LifecycleGraph
    BY <1>2, <1>8 DEF LifecycleGraph, EdgesOf
  <2>4. LifecycleGraph \subseteq Vertices(LifecycleGraph) \X Vertices(LifecycleGraph)
    BY ArcEnds DEF LifecycleGraph
  <2>5. IsFiniteSet(LifecycleGraph)
    BY <1>4, ArcsFinite DEF LifecycleGraph, EdgesOf
  <2>6. HasCycle(LifecycleGraph)
    BY <1>6, <2>2, <2>3, <2>4, <2>5, WayBackIsCycle
  <2> QED
    BY <2>6, PublishedAcyclic
<1> QED
  BY <1>4, <1>7, <1>8 DEF Scope

(* No phase comes before a build or a retained package.                    *)
LEMMA NoPhaseInto ==
  ASSUME ContractInv, Published, NEW y \in edges, y.after.action \in {"build", "retain"}
  PROVE  y \in Contract!RequirementOrder(resolution, nodes)
<1>1. SUFFICES ASSUME y \in Contract!PhaseOrdering(resolution, nodes) PROVE FALSE
  BY PublishedMade
<1>2. TypeOK /\ policy \in Policy /\ nodes = Wanting
  BY PublishedMade
<1>3. /\ y.before \in nodes /\ y.after \in nodes
      /\ Contract!PhaseOf(resolution, y.before, y.after) \in Contract!PhaseKind
  BY <1>1 DEF Contract!PhaseOrdering
<1>4. y.after.lifecycle = "none"
  BY <1>2, <1>3, WantedSelection
<1>5. Contract!TakesAway(resolution, y.before, y.after) => y.after.action \in {"upgrade", "remove"}
  BY DEF Contract!TakesAway, Contract!Mutates
<1> QED
  BY <1>2, <1>3, <1>4, <1>5, PhaseKinds DEF Contract!PhaseKind

(* An input of a build or a check is in the build environment, where only  *)
(* a build can be on a cycle: so the cycle is one of builds.               *)
LEMMA CycleIsOfBuilds ==
  ASSUME ContractInv, Published, Genuine(resolution), Unmixed,
         NEW x \in edges, NEW e \in x.witness, Reaches(OrderOf(edges), x.after, x.before)
  PROVE  /\ x.before.action = "build" /\ x.before.selection = {e.required}
         /\ x.after.action = "build" /\ x.after.selection = {e.issuer}
         /\ e \in resolution.edges /\ e.scope = "build"
<1> DEFINE O == OrderOf(edges)
<1>1. TypeOK /\ policy \in Policy /\ nodes = Wanting
  BY PublishedMade
<1>2. ASSUME NEW y \in edges, NEW f \in y.witness, Reaches(O, y.after, y.before)
      PROVE  /\ f \in resolution.edges /\ f.scope \in {"build", "check"}
             /\ y.before \in Contract!Available(nodes, f.required)
             /\ y.after \in Contract!Gate(nodes, f)
             /\ y.before # y.after
  <2>1. f.scope \in {"build", "check"}
    BY <1>2, CycleIsOfInputs
  <2>2. y \in Contract!RequirementOrder(resolution, nodes)
    <3>1. \A z \in Contract!PhaseOrdering(resolution, nodes) : z.witness = {}
      BY DEF Contract!PhaseOrdering
    <3> QED
      BY <1>2, <3>1, PublishedMade
  <2>3. \E g \in resolution.edges : \E s, t \in Selections :
           /\ y.witness = {g} /\ y.before \in Contract!Available(nodes, s)
           /\ g.scope # "run" => s = g.required /\ y.after \in Contract!Gate(nodes, g)
    BY <2>2, RequirementStands
  <2>4. y.before # y.after
    BY <2>2 DEF Contract!RequirementOrder
  <2> QED
    BY <1>2, <2>1, <2>3, <2>4
<1>3. /\ e \in resolution.edges /\ e.scope \in {"build", "check"}
      /\ x.before \in Contract!Available(nodes, e.required)
      /\ x.after \in Contract!Gate(nodes, e) /\ x.before # x.after
  BY <1>2
<1>4. x.before \in nodes /\ x.before.selection = {e.required}
  BY <1>3, AvailableIsOf
<1>5. x.before.action \in {"build", "retain"}
  <2>1. e.required \in Selections /\ ~InTarget(resolution, e.required)
    BY <1>3 DEF Genuine, EdgesJustify, EnvironmentsSeparate, Selections
  <2>2. x.before.environment = Selected(e.required).environment
    BY <1>1, <1>4, WantedSelection
  <2> QED
    BY <1>4, <2>1, <2>2, NodesOfEnvironment DEF InTarget, Selected
<1>6. PICK y \in edges : y.after = x.before /\ Reaches(O, x.after, y.before)
  <2>1. PICK a \in O : a[2] = x.before /\ Reaches(O, x.after, a[1])
    BY <1>3, ReachesByALastArc
  <2>2. PICK y \in edges : a = <<y.before, y.after>>
    BY DEF OrderOf
  <2> QED
    BY <2>1, <2>2
<1>7. Reaches(O, y.after, y.before)
  <2>1. <<x.before, x.after>> \in O
    BY DEF OrderOf
  <2>2. Reaches(O, x.before, x.after)
    BY <2>1, ArcEnds
  <2> QED
    BY <1>6, <2>2, ReachesTransitive
<1>8. y \in Contract!RequirementOrder(resolution, nodes)
  BY <1>5, <1>6, NoPhaseInto
<1>9. PICK f \in resolution.edges : y.witness = {f}
  BY <1>8 DEF Contract!RequirementOrder
<1>10. f.scope \in {"build", "check"} /\ y.after \in Contract!Gate(nodes, f)
  BY <1>2, <1>7, <1>9
<1>11. y.after.action = f.scope /\ y.after.selection = {f.issuer}
  BY <1>10, GateIsOf
<1>12. f.scope = "build" /\ x.before.action = "build" /\ f.issuer = e.required
  BY <1>4, <1>5, <1>6, <1>10, <1>11
<1>13. e.scope = "build"
  <2>1. Need(e.required, e.issuer) /\ Need(f.required, f.issuer)
    BY <1>7, <1>9, OrderCycleNeeds
  <2>2. Need(e.issuer, e.required)
    BY <1>3, NeedOfEdge
  <2>3. ScopeClass(f) = ScopeClass(e)
    BY <1>3, <1>12, <2>1, <2>2, OneKind
  <2> QED
    BY <1>3, <1>12, <2>3 DEF ScopeClass, LifecycleAction, InstallAction, RemovalAction
<1> QED
  BY <1>3, <1>4, <1>12, <1>13, GateIsOf

(* Only what comes from the catalog is built.                              *)
LEMMA BuiltFromCatalog ==
  ASSUME ContractInv, Published, NEW n \in nodes, n.action = "build",
         NEW s, n.selection = {s}
  PROVE  s \in Selections /\ FromCatalog(resolution, s)
<1>1. TypeOK /\ policy \in Policy /\ nodes = Wanting
  BY PublishedMade
<1>2. s \in Selections /\ "build" \in ActionsOf(s)
  BY <1>1, WantedAction
<1>3. Contract!FromCatalog(resolution, s)
  BY <1>1, <1>2, ActionsAgree DEF Contract!Built
<1> QED
  BY <1>2, <1>3 DEF Contract!FromCatalog, FromCatalog, Contract!AuthorityKind, AuthorityKind

(* A cycle of builds is a construction cycle, which is refused.            *)
LEMMA RequirementsDoNotCycle ==
  ASSUME ContractInv, Published, Genuine(resolution), Unmixed,
         NEW x \in Contract!RequirementOrder(resolution, nodes)
  PROVE  ~Reaches(OrderOf(edges), x.after, x.before)
<1> DEFINE O == OrderOf(edges)
<1>1. SUFFICES ASSUME Reaches(O, x.after, x.before) PROVE FALSE
  OBVIOUS
<1>2. PICK e \in resolution.edges : x.witness = {e}
  BY DEF Contract!RequirementOrder
<1> DEFINE G == ConstructionGraph
           Good(k) == /\ k.action = "build" /\ Reaches(O, k, x.before)
                      /\ \A u : k.selection = {u} => Reaches(G, e.required, u)
           D == {k \in nodes : Reaches(O, x.after, k) /\ ~Good(k)}
<1>3. x \in edges
  BY PublishedMade
<1>4. ASSUME NEW y \in edges, NEW f \in y.witness, Reaches(O, y.after, y.before)
      PROVE  <<f.issuer, f.required>> \in G
  <2>1. /\ y.before.action = "build" /\ y.before.selection = {f.required}
        /\ y.after.action = "build" /\ y.after.selection = {f.issuer}
        /\ f \in resolution.edges /\ f.scope = "build"
    BY <1>4, CycleIsOfBuilds
  <2>2. y.before \in nodes /\ y.after \in nodes
    <3>1. <<y.before, y.after>> \in O
      BY DEF OrderOf
    <3>2. <<y.before, y.after>> \in nodes \X nodes
      BY <3>1, OrderBetweenNodes
    <3> QED
      BY <3>2
  <2>3. \A s \in {f.issuer, f.required} : s \in Selections /\ FromCatalog(resolution, s)
    BY <2>1, <2>2, BuiltFromCatalog
  <2> QED
    BY <2>1, <2>3 DEF ConstructionGraph, EdgesOf, Selections
<1>5. Good(x.before)
  <2>1. x.before.action = "build" /\ x.before.selection = {e.required}
    BY <1>1, <1>2, <1>3, CycleIsOfBuilds
  <2> QED
    BY <2>1, ReachesItself
(* What comes before a build of the cycle, on the cycle, is the build of   *)
(* an input of it.                                                         *)
<1>6. ASSUME NEW a \in O, a[1] \in D PROVE a[2] \in D
  <2>1. PICK y \in edges : a = <<y.before, y.after>>
    BY DEF OrderOf
  <2>2. a[1] = y.before /\ a[2] = y.after
    BY <2>1
  <2>3. y.after \in nodes /\ Reaches(O, y.before, y.after)
    BY <2>2, OrderBetweenNodes, ReachesAlongArc
  <2>4. Reaches(O, x.after, y.after)
    BY <1>6, <2>2, <2>3, ReachesTransitive
  <2>5. ASSUME Good(y.after) PROVE FALSE
    <3>1. Reaches(O, y.before, x.before)
      BY <2>3, <2>5, ReachesTransitive
    <3>2. Reaches(O, x.before, x.after)
      <4>1. <<x.before, x.after>> \in O
        BY <1>3 DEF OrderOf
      <4> QED
        BY <4>1, ArcEnds
    <3>3. Reaches(O, x.after, y.before)
      BY <1>6, <2>2
    <3>4. Reaches(O, y.after, y.before)
      BY <2>5, <3>2, <3>3, ReachesTransitive
    <3>5. y \in Contract!RequirementOrder(resolution, nodes)
      BY <2>5, NoPhaseInto
    <3>6. PICK f \in resolution.edges : y.witness = {f}
      BY <3>5 DEF Contract!RequirementOrder
    <3>7. /\ y.before.action = "build" /\ y.before.selection = {f.required}
          /\ y.after.selection = {f.issuer}
      BY <3>4, <3>6, CycleIsOfBuilds
    <3>8. Reaches(G, e.required, f.issuer)
      BY <2>5, <3>7
    <3>9. Reaches(G, f.issuer, f.required)
      BY <1>4, <3>4, <3>6, ArcEnds
    <3>10. Reaches(G, e.required, f.required)
      BY <3>8, <3>9, ReachesTransitive
    <3>11. Good(y.before)
      BY <3>1, <3>7, <3>10
    <3> QED
      BY <1>6, <2>2, <3>11
  <2> QED
    BY <2>2, <2>3, <2>4, <2>5
<1>7. Good(x.after)
  <2>1. SUFFICES ASSUME ~Good(x.after) PROVE FALSE
    OBVIOUS
  <2>2. x.after \in D
    BY <2>1, ReachesItself DEF Contract!RequirementOrder
  <2>3. Closed(O, D)
    BY <1>6 DEF Closed
  <2>4. x.before \notin D
    BY <1>5
  <2> HIDE DEF D
  <2> QED
    BY <1>1, <2>2, <2>3, <2>4, ReachesWithin
<1>8. Reaches(G, e.required, e.issuer) /\ <<e.issuer, e.required>> \in G
  <2>1. x.after.selection = {e.issuer}
    BY <1>1, <1>2, <1>3, CycleIsOfBuilds
  <2> QED
    BY <1>1, <1>2, <1>3, <1>4, <1>7, <2>1
<1>9. IsFiniteSet(G) /\ G \subseteq Vertices(G) \X Vertices(G)
  <2>1. IsFiniteSet(resolution.edges)
    BY PublishedMade DEF TypeOK, IsResolution
  <2>2. IsFiniteSet(G)
    BY <2>1, ArcsFinite DEF ConstructionGraph, EdgesOf
  <2> QED
    BY <2>2, ArcEnds DEF ConstructionGraph
<1>10. HasCycle(G)
  <2> HIDE DEF G
  <2> QED
    BY <1>8, <1>9, WayBackIsCycle
<1> QED
  BY <1>10, PublishedAcyclic

(* As long as no cycle of what selections need mixes kinds, a published    *)
(* program is a partial order.                                             *)
THEOREM UnmixedIsPartialOrder == Spec => []UnmixedPartialOrder
<1>1. ContractInv => UnmixedPartialOrder
  <2>1. SUFFICES ASSUME ContractInv, Published, Genuine(resolution), Unmixed,
                        NEW a \in OrderOf(edges),
                        Paths(nodes, OrderOf(edges))[<<a[2], a[1]>>]
                 PROVE  FALSE
    BY DEF UnmixedPartialOrder, Acyclic
  <2>2. PICK y \in edges : a = <<y.before, y.after>>
    BY DEF OrderOf
  <2>3. a[1] \in nodes /\ a[2] \in nodes /\ a[1] = y.before /\ a[2] = y.after
    BY <2>1, <2>2, OrderBetweenNodes
  <2>4. Reaches(OrderOf(edges), y.after, y.before)
    BY <2>1, <2>3, OrderBetweenNodes, PathsReach
  <2> QED
    BY <2>1, <2>4, CycleHasRequirement, RequirementsDoNotCycle
<1> QED
  BY InitMade, StepMade, <1>1, PTL DEF Spec

=============================================================================
