------------------------------ MODULE MCContract ------------------------------
(***************************************************************************)
(* Resolutions that bring every refusal about, beside ones that are        *)
(* composed: results the resolver gives, and results a caller builds with  *)
(* the public constructors by changing one of those in one place, as       *)
(* tests/integration does.                                                 *)
(***************************************************************************)
EXTENDS TransactionProperties, Resolver, TLC

CONSTANTS a, b, new, old

MCPackage == {a, b}
MCVersions == {new, old}

Exact == [release |-> new, source |-> new]
Other == [release |-> old, source |-> new]

Declares ==
  {{<<a, "run", b>>, <<b, "run", a>>},
   {<<a, "run", b>>, <<a, "check", b>>},
   {<<a, "build", b>>, <<b, "build", a>>},
   {<<a, "build", b>>, <<b, "run", b>>},
   {<<a, "pre_install", b>>, <<b, "pre_install", a>>},
   {<<a, "pre_remove", b>>}}

GoalSets ==
  {{<<"run", a>>},
   {<<"check", a>>},
   {<<"pre_remove", a>>, <<"post_remove", a>>},
   {<<"run", a>>} \cup {<<s, a>> : s \in LifecycleAction},
   {<<s, p>> : s \in {"run", "check", "pre_install"}, p \in {a, b}}}

(* Whether there is a check program matters to those who ask for a check.  *)
Worlds ==
  {w \in [declares : Declares,
          catalog : {[p \in MCPackage |-> [version |-> Exact, check_program |-> t]] :
                       t \in BOOLEAN},
          installed : {<<>>, a :> Other, a :> Exact, b :> Other,
                       (a :> Other) @@ (b :> Exact)},
          goals : GoalSets,
          prefers : {"catalog_candidate", "installed_package"}] :
     w.catalog[a].check_program \/ \E p \in MCPackage : <<"check", p>> \in w.goals}

Resolved == {Resolve(w) : w \in Worlds}

(* The goal asks for a selection that is not there, or for work that the   *)
(* selection is not fit for.                                               *)
GoalAdded(r) ==
  {[r EXCEPT !.goals = @ \cup {[scope |-> s, selection |-> id]}] :
     s \in {"check", "pre_remove"}, id \in ResolverIds}

(* A selection is not the one its authority describes.                     *)
SourceChanged(r) ==
  {[r EXCEPT !.selections[id].version.source = old] : id \in DOMAIN r.selections}

(* A selection is there only for a removal program.                        *)
ReasonsChanged(r) ==
  {[r EXCEPT !.reasons[id] = q] :
     id \in DOMAIN r.selections,
     q \in {{}, {[kind |-> "direct_goal", scope |-> "pre_remove"]}}}

(* A requirement is in the vector twice.                                   *)
EdgeRepeated(r) == {[r EXCEPT !.repeated = {e}] : e \in r.edges}

(* The snapshot is another one than the selections were made from.         *)
SnapshotChanged(r) == {[r EXCEPT !.installed = f] : f \in {<<>>, a :> Exact, b :> Other}}

ForgedFrom ==
  {r \in {Resolve(w) : w \in {x \in Worlds : x.prefers = "installed_package"}} :
     Cardinality(DOMAIN r.selections) <= 2}

MCResolutions ==
  Resolved \cup UNION {GoalAdded(r) \cup SourceChanged(r) \cup ReasonsChanged(r)
                         \cup EdgeRepeated(r) \cup SnapshotChanged(r) : r \in ForgedFrom}

MCRemovalLists == {<<>>, <<a>>, <<a, b>>, <<a, a>>}

=============================================================================
