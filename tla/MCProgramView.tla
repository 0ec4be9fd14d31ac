---------------------------- MODULE MCProgramView ----------------------------
(***************************************************************************)
(* Three nodes of two packages, two cohorts and three edges, under every   *)
(* order of the nodes' identities, of the edges' and of the cohorts', and  *)
(* with one identity more, which is before, between or after the nodes'.   *)
(***************************************************************************)
EXTENDS ProgramView

MCPackageOf == [k \in Key |-> IF k = "build a" THEN "a"
                              ELSE IF k = "install a" THEN "a" ELSE "b"]

MCEdge ==
  {[before |-> "build a", after |-> "install a", witness |-> "none"],
   [before |-> "retain b", after |-> "install a", witness |-> "run a b"],
   [before |-> "retain b", after |-> "install a", witness |-> "run a b>=2"]}

=============================================================================
