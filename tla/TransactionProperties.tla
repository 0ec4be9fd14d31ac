------------------------ MODULE TransactionProperties ------------------------
(***************************************************************************)
(* What is true of requests and programs, over the composer of module      *)
(* Composer.  A property that depends on what the resolver guarantees      *)
(* names that guarantee: Genuine(resolution) or a part of it.              *)
(***************************************************************************)
EXTENDS Composer

(* path[<<v, w>>]: w is reached from v in V along E, in zero or more steps *)
Paths(V, E) ==
  LET closed == {C \in SUBSET V : Closed(E, C)}
  IN [x \in V \X V |-> \A C \in closed : x[1] \in C => x[2] \in C]

Acyclic(V, E) == LET path == Paths(V, E) IN \A e \in E : ~path[<<e[2], e[1]>>]

Published == stage = "complete"

Outcome ==
  IF Published
    THEN [status |-> "program", nodes |-> nodes, edges |-> edges,
          cohorts |-> {cohorts[i] : i \in DOMAIN cohorts}]
  ELSE IF stage = "failed" THEN [status |-> "refused", code |-> error]
  ELSE [status |-> "pending"]

Contract == INSTANCE TransactionContract WITH outcome <- Outcome

Available(s) == Contract!Available(nodes, s)

Selections == DOMAIN resolution.selections

RunPaths == Paths(Selections, RuntimeGraph)

OrderOf(E) == {<<e.before, e.after>> : e \in E}

-----------------------------------------------------------------------------
(* Every variable keeps its type through every stage; in particular a      *)
(* selection's cohort index always points at a cohort that is there.       *)
TypeOK ==
  /\ IsResolution(resolution)
  /\ policy \in Policy \cup {NoPolicy}
  /\ stage \in {"policy", "seal", "sealed", "classify", "goals", "removals", "bind",
                "cycles", "cohorts", "requirements", "phases", "removal_phases",
                "complete", "failed", "undefined"}
  /\ error \in Contract!ErrorCode
                \cup {"none", "invalid_request", "duplicate_removal", "identity_failed"}
  /\ nodes \subseteq Node
  /\ edges \subseteq Edge
  /\ cohorts \in Seq(Cohort)
  /\ DOMAIN runtime_component \subseteq SelectionId
  /\ runtime_component \in [DOMAIN runtime_component -> 1..Len(cohorts)]

(* Composition never dereferences a removal that is not installed: the     *)
(* pointer at src/composer.cpp:464 is only as good as the check that       *)
(* src/request.cpp:72 made when the request was sealed.                    *)
NoUndefinedRemoval == stage # "undefined"

(* No published program removes a package and also installs, upgrades or   *)
(* retains it in the target. A selection that only removal goals brought,  *)
(* whatever its authority, has those goals; more is not assumed.           *)
RemovalExclusive ==
  Published /\ GoalsJustify(resolution) =>
    \A n, m \in nodes :
      /\ n.action = "remove"
      /\ m.package = n.package
      /\ m.environment = "target"
      => m.action \notin {"install", "upgrade", "retain"}

(* The versions of p in the target once the program has been carried out.  *)
After(p) ==
  LET incoming == {n \in nodes : n.package = p /\ n.action \in {"install", "upgrade"}}
  IN IF incoming # {}
       THEN {Selected(s).version : s \in UNION {n.selection : n \in incoming}}
     ELSE IF p \in DOMAIN resolution.installed /\ RemoveNode(p) \notin nodes
       THEN {resolution.installed[p]}
     ELSE {}

Kept(p) ==
  \/ policy.mode = "preserve_unselected"
  \/ policy.mode = "remove_explicit" /\ p \notin policy.removals

(* Carrying a program out leaves each wanted package at exactly the        *)
(* version that was selected, and each other package as the policy says:   *)
(* untouched, or gone.                                                     *)
FulfilledState ==
  Published /\ Genuine(resolution) =>
    \A p \in Package :
      LET wanted == {s \in Selections : Wanted(resolution, s) /\ Selected(s).package = p}
      IN After(p) =
           IF wanted # {} THEN {Selected(s).version : s \in wanted}
           ELSE {resolution.installed[q] : q \in {p} \cap
                   {x \in DOMAIN resolution.installed : Kept(x)}}

(* Every lifecycle program of a published program is phase-ordered around  *)
(* the one node that changes its package in the target: the old package's  *)
(* removal programs and the new one's install programs meet at the same    *)
(* upgrade.                                                                *)
LifecycleBracketed ==
  Published /\ Genuine(resolution) =>
    \A n \in {m \in nodes : m.action = "lifecycle"} :
      \E t \in nodes :
        /\ t.package = n.package
        /\ \A u \in nodes : /\ u.package = n.package
                            /\ u.environment = "target"
                            /\ u.action \in {"install", "upgrade", "remove"}
                            <=> u = t
        /\ IF n.lifecycle \in {"pre_install", "pre_remove"}
             THEN \E e \in edges : e.before = n /\ e.after = t /\ e.phase # "none"
             ELSE \E e \in edges : e.before = t /\ e.after = n /\ e.phase # "none"

-----------------------------------------------------------------------------
(* Each runtime cycle is one cohort with a node for every selection of it, *)
(* cohorts share no node, and no run requirement orders two members of a   *)
(* cohort.                                                                 *)
CohortsCondense ==
  Published /\ Genuine(resolution) =>
    /\ \A C \in CyclicComponents(RuntimeGraph) :
         \E i \in DOMAIN cohorts :
           {s \in SelectionId : \E n \in cohorts[i].members : n.selection = {s}} = C
    /\ \A i, j \in DOMAIN cohorts :
         i # j => cohorts[i].members \cap cohorts[j].members = {}
    /\ \A i \in DOMAIN cohorts : \A e \in edges :
         {e.before, e.after} \subseteq cohorts[i].members
           => \A w \in e.witness : w.scope # "run"

(* What a selection needs to run, directly or not, and does not need it in *)
(* turn, is available before the selection is: across cohort boundaries,   *)
(* for every member of a cohort alike.                                     *)
RuntimeClosureOrdered ==
  Published /\ Genuine(resolution) =>
    LET run == RunPaths
        before == Paths(nodes, OrderOf({e \in edges : e.witness # {}}))
    IN \A s, t \in Selections :
         run[<<s, t>>] /\ ~run[<<t, s>>] =>
           \A m \in Available(s), n \in Available(t) : before[<<n, m>>]

(* A build, check or lifecycle program starts after each of its inputs is  *)
(* available, and after all that the input needs to run outside its own    *)
(* cohort; no input is lost on the way.                                    *)
InputClosureOrdered ==
  Published /\ Genuine(resolution) =>
    LET run == RunPaths
        before == Paths(nodes, OrderOf(edges))
    IN \A e \in {f \in resolution.edges : f.scope # "run"} :
         \A m \in Contract!Gate(nodes, e) :
           /\ Available(e.required) # {}
           /\ \A t \in Selections :
                (t = e.required \/ (run[<<e.required, t>>] /\ ~run[<<t, e.required>>])) =>
                  \A n \in Available(t) : before[<<n, m>>]

(* Nothing delays a build but its build inputs and what those, or the      *)
(* package itself in the build environment, need to run: not a check, not  *)
(* a check input, not the target.                                          *)
ConstructionWaitsOnlyForInputs ==
  Published /\ Genuine(resolution) /\ RunIsWanted(resolution) =>
    LET before == Paths(nodes, OrderOf(edges))
        inputs == Paths(Selections, RuntimeGraph \cup
                          {<<e.issuer, e.required>> : e \in EdgesOf({"build"})})
    IN \A b \in {n \in nodes : n.action = "build"} :
         \A n \in nodes \ {b} : before[<<n, b>>] =>
           /\ n.environment = "build"
           /\ \E s \in b.selection, t \in n.selection : inputs[<<s, t>>]

ScopeClass(e) == IF e.scope \in LifecycleAction THEN "lifecycle" ELSE e.scope

(* The old and the new selection of a package in the target share the node *)
(* that replaces one by the other.                                         *)
Replacements ==
  {x \in Selections \X Selections :
     /\ x[1] # x[2]
     /\ InTarget(resolution, x[1]) /\ InTarget(resolution, x[2])
     /\ Selected(x[1]).package = Selected(x[2]).package}

(* Requirements of two kinds, or a requirement and a replacement, never    *)
(* lie on one cycle.                                                       *)
Unmixed ==
  LET need == Paths(Selections,
                    {<<e.issuer, e.required>> : e \in resolution.edges} \cup Replacements)
      cyclic == {e \in resolution.edges : need[<<e.required, e.issuer>>]}
  IN \A e \in cyclic :
       /\ \A f \in cyclic : need[<<e.issuer, f.issuer>>] /\ need[<<f.issuer, e.issuer>>]
                              => ScopeClass(e) = ScopeClass(f)
       /\ \A x \in Replacements : ~(need[<<e.issuer, x[1]>>] /\ need[<<x[1], e.issuer>>])

(* As long as no cycle mixes kinds of requirements, a published program is *)
(* a partial order: the cycles of one kind are condensed (run) or refused  *)
(* (build, lifecycle), and the phases add none.                            *)
UnmixedPartialOrder ==
  Published /\ Genuine(resolution) /\ Unmixed => Acyclic(nodes, OrderOf(edges))

-----------------------------------------------------------------------------
(* Three statements of the documentation that the code does not keep.      *)

(* DESIGN.md:90: "The graph is a partial order."                           *)
PartialOrder == Published => Acyclic(nodes, OrderOf(edges))

(* DESIGN.md:106: "Lifecycle-requirement cycles are refused."  Lifecycle   *)
(* requirements, with the phases of the packages they are between, never   *)
(* make a cycle in a published program.                                    *)
LifecycleCyclesRefused ==
  Published =>
    Acyclic(nodes, OrderOf({e \in edges : \A w \in e.witness : w.scope \in LifecycleAction}))

(* README.md:12-13: the program "projects requirements crossing a runtime  *)
(* cohort onto its complete condensation boundary".  A build, check or     *)
(* lifecycle program outside a cohort that requires one member of it       *)
(* follows every member.                                                   *)
RequirementsProjected ==
  Published =>
    \A e \in {f \in resolution.edges : f.scope # "run"}, i \in DOMAIN cohorts :
      Available(e.required) \cap cohorts[i].members # {} =>
        \A m \in Contract!Gate(nodes, e) \ cohorts[i].members :
          cohorts[i].members \X {m} \subseteq OrderOf(edges)

-----------------------------------------------------------------------------
(* The composer implements its contract: in whatever order the loops visit *)
(* their elements, the outcome is the one program of the request, or a     *)
(* refusal whose reason the request has.                                   *)
ImplementsContract == Contract!Spec

=============================================================================
