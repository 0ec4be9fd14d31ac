------------------------------ MODULE MCOrdering ------------------------------
(***************************************************************************)
(* Three packages and every way a few requirements can hang together       *)
(* between them: chains, diamonds and cycles of run and build              *)
(* requirements, entered from the package that is asked for, with its      *)
(* check and lifecycle inputs.  Nothing is removed; b may be installed in  *)
(* the exact or in another version.                                        *)
(***************************************************************************)
EXTENDS TransactionProperties, Resolver, TLC

CONSTANTS a, b, c, new, old, MaxDeclarations

MCPackage == {a, b, c}
MCVersions == {new, old}

Exact == [release |-> new, source |-> new]
Other == [release |-> old, source |-> new]

Candidates ==
  {d \in MCPackage \X {"run", "build"} \X MCPackage : d[1] # d[3]}
  \cup ({a} \X {"check", "pre_install"} \X {b, c})
  \cup {<<b, "run", b>>}

Few(n) == {D \in SUBSET Candidates : Cardinality(D) <= n}

(* b and c are one cohort, whatever else there is.                         *)
Cohort2 == {<<b, "run", c>>, <<c, "run", b>>}

BInstalled == {<<>>, b :> Exact, b :> Other}

EveryProgram == {<<"run", a>>, <<"check", a>>, <<"pre_install", a>>}

WorldsOf(declares, installed, goals) ==
  [declares : declares,
   catalog : {[p \in MCPackage |-> [version |-> Exact, check_program |-> TRUE]]},
   installed : installed,
   goals : goals,
   prefers : {"catalog_candidate", "installed_package"}]

Worlds ==
  WorldsOf(Few(MaxDeclarations - 1), BInstalled, {{<<"run", a>>}})
  \cup WorldsOf(Few(MaxDeclarations), BInstalled, {EveryProgram})
  \cup WorldsOf({Cohort2 \cup D : D \in Few(MaxDeclarations - 1)}, {<<>>}, {EveryProgram})

MCResolutions == {Resolve(w) : w \in Worlds}

MCRemovalLists == {}

=============================================================================
