------------------------------ MODULE Resolution ------------------------------
(***************************************************************************)
(* The sealed input of the library: a libpkgresolve resolution_result and  *)
(* the libpkgstate snapshot it was resolved against, reduced to what       *)
(* src/request.cpp and src/composer.cpp read of them.  Both libraries are  *)
(* external; their values are modelled from their uses in src/ and from    *)
(* the fixtures and forged results of tests/.                              *)
(*                                                                         *)
(* A resolution r is a record:                                             *)
(*   selections  identity |-> selected_package                             *)
(*   reasons     identity |-> the set of its selection_reasons             *)
(*   edges       the requirement_edges; an edge is its own witness         *)
(*   repeated    those that the vector of edges holds more than once       *)
(*   goals       one record per member of a resolved goal                  *)
(*   installed   package |-> exact installed version, for what is installed*)
(***************************************************************************)
EXTENDS FiniteSets

CONSTANTS Package,       \* package names
          SelectionId,   \* package_selection_identity values
          Release,       \* package_release identities
          Source         \* source_snapshot identities

InstallAction == {"pre_install", "post_install"}
RemovalAction == {"pre_remove", "post_remove"}
LifecycleAction == InstallAction \cup RemovalAction

(* A requirement_scope: its kind, or for kind lifecycle the action.        *)
Scope == {"build", "check", "run"} \cup LifecycleAction

Environment == {"build", "target"}

Version == [release : Release, source : Source]

GoalReason == {"direct_goal", "profile_goal"}
Reason == [kind : GoalReason \cup {"requirement"}, scope : Scope]

(* The catalog_candidate or installed_package a selection was made from.   *)
Authority == [kind : {"catalog_candidate", "installed_package"},
              package : Package, version : Version, check_program : BOOLEAN]

Selection == [package : Package, environment : Environment,
              version : Version, authority : Authority]

RequirementEdge == [issuer : SelectionId, required : SelectionId, scope : Scope]

GoalMember == [scope : Scope, selection : SelectionId]

(* Everything the public constructors of the two libraries admit: a goal   *)
(* or an edge may name a selection that is not in the result, and a        *)
(* selection may disagree with its authority (tests/integration forges     *)
(* both).  The edges are those of a vector, so there are finitely many.    *)
IsResolution(r) ==
  /\ DOMAIN r.selections \subseteq SelectionId
  /\ r.selections \in [DOMAIN r.selections -> Selection]
  /\ r.reasons \in [DOMAIN r.selections -> SUBSET Reason]
  /\ r.edges \subseteq RequirementEdge
  /\ IsFiniteSet(r.edges)
  /\ r.repeated \subseteq r.edges
  /\ r.goals \subseteq GoalMember
  /\ DOMAIN r.installed \subseteq Package
  /\ r.installed \in [DOMAIN r.installed -> Version]

AuthorityKind(r, s) == r.selections[s].authority.kind
FromCatalog(r, s) == AuthorityKind(r, s) = "catalog_candidate"
FromInstalled(r, s) == AuthorityKind(r, s) = "installed_package"
InTarget(r, s) == r.selections[s].environment = "target"

-----------------------------------------------------------------------------
(* What resolve() of libpkgresolve is observed to guarantee of its own     *)
(* results.  No action depends on it; a property that needs it says so.    *)

EdgesJustify(r) ==
  \A e \in r.edges :
    /\ {e.issuer, e.required} \subseteq DOMAIN r.selections
    /\ [kind |-> "requirement", scope |-> e.scope] \in r.reasons[e.required]

GoalsJustify(r) ==
  /\ \A g \in r.goals : g.selection \in DOMAIN r.selections
  /\ \A g \in r.goals : InTarget(r, g.selection)
  /\ \A s \in DOMAIN r.selections : \A q \in r.reasons[s] :
       q.kind \in GoalReason => [scope |-> q.scope, selection |-> s] \in r.goals

(* Run edges stay in an environment, build and check inputs live in the    *)
(* build environment, lifecycle requirements in the target.                *)
EnvironmentsSeparate(r) ==
  \A e \in r.edges :
    /\ e.scope = "run" =>
         r.selections[e.issuer].environment = r.selections[e.required].environment
    /\ e.scope \in {"build", "check"} => ~InTarget(r, e.required)
    /\ e.scope \in LifecycleAction => InTarget(r, e.issuer) /\ InTarget(r, e.required)

AuthoritiesExact(r) ==
  \A s \in DOMAIN r.selections :
    LET sel == r.selections[s] IN
    /\ sel.package = sel.authority.package
    /\ sel.version = sel.authority.version
    /\ FromInstalled(r, s) =>
         /\ sel.package \in DOMAIN r.installed
         /\ sel.version = r.installed[sel.package]

(* Package, environment and authority kind name one selection.             *)
SelectionsDistinct(r) ==
  \A s, t \in DOMAIN r.selections :
    /\ r.selections[s].package = r.selections[t].package
    /\ r.selections[s].environment = r.selections[t].environment
    /\ AuthorityKind(r, s) = AuthorityKind(r, t)
    => s = t

(* Needed in the target to run or for a lifecycle program, and not only    *)
(* to carry removal programs.                                              *)
Wanted(r, s) ==
  /\ InTarget(r, s)
  /\ \E q \in r.reasons[s] : q.scope \notin {"build", "check"}
  /\ \E q \in r.reasons[s] : q.kind = "requirement" \/ q.scope \notin RemovalAction

(* One selection of a package is wanted in the target, and the removal     *)
(* programs of an installed package are those it was installed with.       *)
TargetUnambiguous(r) ==
  /\ \A s, t \in DOMAIN r.selections :
       /\ Wanted(r, s)
       /\ Wanted(r, t)
       /\ r.selections[s].package = r.selections[t].package
       => s = t
  /\ \A s \in DOMAIN r.selections :
       /\ InTarget(r, s)
       /\ ~Wanted(r, s)
       /\ \E q \in r.reasons[s] : q.scope \in RemovalAction
       /\ r.selections[s].package \in DOMAIN r.installed
       => FromInstalled(r, s)

(* What is only built or checked in the target, or is there to carry       *)
(* removal programs, brings in nothing to run with.                        *)
RunIsWanted(r) ==
  \A e \in r.edges : e.scope = "run" /\ InTarget(r, e.issuer) => Wanted(r, e.issuer)

Genuine(r) ==
  /\ EdgesJustify(r)
  /\ GoalsJustify(r)
  /\ EnvironmentsSeparate(r)
  /\ AuthoritiesExact(r)
  /\ SelectionsDistinct(r)
  /\ TargetUnambiguous(r)
  /\ \A s \in DOMAIN r.selections : r.reasons[s] # {}

=============================================================================
