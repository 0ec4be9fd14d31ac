------------------------------- MODULE Resolver -------------------------------
(***************************************************************************)
(* A stand-in for resolve() of libpkgresolve, which is external: it turns  *)
(* a small world into the resolution that world has, so that the runs      *)
(* start from results the composer is really given.  Modelled from what    *)
(* the tests of the library obtain from the resolver.                      *)
(*                                                                         *)
(* A world w is a record:                                                  *)
(*   declares   triples <<package, scope, required package>>               *)
(*   catalog    package |-> [version, check_program]                       *)
(*   installed  package |-> version                                        *)
(*   goals      pairs <<scope, package>>                                   *)
(*   prefers    the authority kind taken when a package has both           *)
(***************************************************************************)
EXTENDS Resolution

(* A selection is identified by package, environment and authority kind.   *)
ResolverIds ==
  Package \X Environment \X {"catalog_candidate", "installed_package"}

HasKind(w, p, kind) ==
  p \in IF kind = "installed_package" THEN DOMAIN w.installed ELSE DOMAIN w.catalog

(* Removal programs are those of the installed package; other work takes   *)
(* the preferred authority when there is one.                              *)
KindFor(w, p, scope, goal) ==
  IF goal /\ scope \in RemovalAction /\ HasKind(w, p, "installed_package")
    THEN "installed_package"
  ELSE IF HasKind(w, p, w.prefers) THEN w.prefers
  ELSE CHOOSE k \in {"catalog_candidate", "installed_package"} : HasKind(w, p, k)

GoalId(w, g) == <<g[2], "target", KindFor(w, g[2], g[1], TRUE)>>

RequiredId(w, id, d) ==
  <<d[3], IF d[2] \in {"build", "check"} THEN "build" ELSE id[2],
    KindFor(w, d[3], d[2], FALSE)>>

ReasonsOf(w, E, id) ==
  {[kind |-> "direct_goal", scope |-> g[1]] : g \in {h \in w.goals : GoalId(w, h) = id}}
  \cup {[kind |-> "requirement", scope |-> e.scope] : e \in {f \in E : f.required = id}}

(* The scopes of a selection's requirements that its reasons bring in.     *)
ActiveScopes(w, E, id) ==
  LET catalog == id[3] = "catalog_candidate"
      reasons == ReasonsOf(w, E, id)
      roots == {q.scope : q \in {x \in reasons : x.kind = "direct_goal"}}
  IN IF id[2] = "build" THEN {"run"} \cup {s \in {"build"} : catalog}
     ELSE {s \in {"run"} : \E q \in reasons :
             \/ q.scope \notin {"build", "check"} \cup RemovalAction
             \/ q.kind = "requirement" /\ q.scope \in RemovalAction}
          \cup {s \in {"build"} : catalog}
          \cup (roots \cap ({"check"} \cup LifecycleAction))

EdgesFrom(w, E, id) ==
  {[issuer |-> id, required |-> RequiredId(w, id, d), scope |-> d[2]] :
     d \in {x \in w.declares : x[1] = id[1] /\ x[2] \in ActiveScopes(w, E, id)}}

IdsOf(w, E) == {GoalId(w, g) : g \in w.goals} \cup {e.required : e \in E}

RECURSIVE Closure(_, _)
Closure(w, E) ==
  LET F == E \cup UNION {EdgesFrom(w, E, id) : id \in IdsOf(w, E)}
  IN IF F = E THEN E ELSE Closure(w, F)

SelectionOf(w, id) ==
  LET catalog == id[3] = "catalog_candidate"
      version == IF catalog THEN w.catalog[id[1]].version ELSE w.installed[id[1]]
  IN [package |-> id[1], environment |-> id[2], version |-> version,
      authority |->
        [kind |-> id[3], package |-> id[1], version |-> version,
         check_program |-> catalog /\ w.catalog[id[1]].check_program]]

Resolve(w) ==
  LET E == Closure(w, {})
      ids == IdsOf(w, E)
  IN [selections |-> [id \in ids |-> SelectionOf(w, id)],
      reasons |-> [id \in ids |-> ReasonsOf(w, E, id)],
      edges |-> E,
      repeated |-> {},
      goals |-> {[scope |-> g[1], selection |-> GoalId(w, g)] : g \in w.goals},
      installed |-> w.installed]

(* Every package named is somewhere to be had.                             *)
Resolvable(w) ==
  \A p \in {g[2] : g \in w.goals} \cup {d[3] : d \in w.declares} :
    p \in DOMAIN w.catalog \cup DOMAIN w.installed

=============================================================================
