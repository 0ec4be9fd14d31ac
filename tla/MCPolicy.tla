------------------------------- MODULE MCPolicy -------------------------------
(***************************************************************************)
(* Two packages under every policy: a is the one asked for, b is there     *)
(* beside it, sometimes needed by a.  What is installed of each ranges     *)
(* over nothing, the exact version, another release and another source.    *)
(***************************************************************************)
EXTENDS TransactionProperties, Resolver, TLC

CONSTANTS a, b, new, old

MCPackage == {a, b}
MCVersions == {new, old}

Exact == [release |-> new, source |-> new]

InstalledChoices(p) ==
  {<<>>} \cup {p :> v : v \in {Exact, [Exact EXCEPT !.release = old],
                               [Exact EXCEPT !.source = old]}}

Catalogs ==
  {[p \in ps |-> [version |-> Exact, check_program |-> TRUE]] : ps \in {{a, b}, {b}}}

GoalSets ==
  {{<<s, a>> : s \in ss} \cup gs :
     ss \in {x \in SUBSET Scope : Cardinality(x) \in 1..2} \cup {LifecycleAction \cup {"run"}},
     gs \in {{}, {<<"run", b>>}}}

Worlds ==
  {w \in [declares : {{}, {<<a, "run", b>>}, {<<a, "run", b>>, <<b, "run", a>>},
                      {<<a, "build", b>>}, {<<a, "pre_remove", b>>}},
          catalog : Catalogs,
          installed : {f @@ g : f \in InstalledChoices(a),
                                g \in InstalledChoices(b)},
          goals : GoalSets,
          prefers : {"catalog_candidate", "installed_package"}] : Resolvable(w)}

(* The removal program asked for is that of the catalog's a, which the     *)
(* resolver does not do when a is installed but a caller's result may.     *)
RemovalOfCatalog(w, s) ==
  LET id == <<a, "target", "catalog_candidate">>
      r == Resolve(w)
  IN [r EXCEPT !.selections = (id :> SelectionOf(w, id)) @@ @,
               !.reasons = (id :> {[kind |-> "direct_goal", scope |-> s]}) @@ @,
               !.goals = @ \cup {[scope |-> s, selection |-> id]}]

Forged ==
  {RemovalOfCatalog(w, s) :
     w \in {x \in Worlds : /\ x.declares = {}
                          /\ a \in DOMAIN x.catalog \cap DOMAIN x.installed
                          /\ x.prefers = "installed_package"
                          /\ Cardinality(x.goals) = 1},
     s \in RemovalAction}

MCResolutions == {Resolve(w) : w \in Worlds} \cup Forged

MCRemovalLists == {<<>>, <<a>>, <<b>>, <<a, b>>, <<b, b>>}

=============================================================================
