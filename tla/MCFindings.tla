------------------------------ MODULE MCFindings ------------------------------
(***************************************************************************)
(* The smallest worlds found in which a program does not keep what the     *)
(* documentation says of it.                                               *)
(***************************************************************************)
EXTENDS TransactionProperties, Resolver, TLC

CONSTANTS a, b, c, new, old

MCPackage == {a, b, c}
MCVersions == {new, old}

Exact == [release |-> new, source |-> new]
Other == [release |-> old, source |-> new]

World(declares, installed, goals) ==
  [declares |-> declares,
   catalog |-> [p \in MCPackage |-> [version |-> Exact, check_program |-> TRUE]],
   installed |-> installed, goals |-> goals, prefers |-> "catalog_candidate"]

(* To build a, b must run; to run b, c must be built; to build c, b again. *)
BuildNeedsRunNeedsBuild ==
  World({<<a, "build", b>>, <<b, "run", c>>, <<c, "build", b>>}, <<>>, {<<"run", a>>})

(* The a that goes needs b for its removal program, and the b that comes   *)
(* needs the a that comes for its installation program.                    *)
RemovalNeedsReplacement ==
  World({<<a, "pre_remove", b>>, <<b, "pre_install", a>>}, a :> Other,
        {<<"run", a>>, <<"pre_remove", a>>, <<"run", b>>, <<"pre_install", b>>})

(* a is built with b, which runs only together with c.                     *)
BuildNeedsCohort ==
  World({<<a, "build", b>>, <<b, "run", c>>, <<c, "run", b>>}, <<>>, {<<"run", a>>})

MCResolutions ==
  {Resolve(w) : w \in {BuildNeedsRunNeedsBuild, RemovalNeedsReplacement, BuildNeedsCohort}}

MCRemovalLists == {}

=============================================================================
