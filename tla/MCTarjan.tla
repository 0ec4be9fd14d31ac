------------------------------- MODULE MCTarjan -------------------------------
(***************************************************************************)
(* Every digraph of three vertices, and those of four with ManyArcs arcs   *)
(* and no loop: chains, nested and disjoint cycles, cycles with a way out, *)
(* and arcs into finished components.                                      *)
(***************************************************************************)
EXTENDS TarjanProperties

CONSTANTS v1, v2, v3, v4, ManyArcs

MCVertex == {v1, v2, v3, v4}

Small == SUBSET ({v1, v2, v3} \X {v1, v2, v3})

Large ==
  {G \in SUBSET {e \in MCVertex \X MCVertex : e[1] # e[2]} :
     Cardinality(G) = ManyArcs}

MCGraphs == Small \cup Large

=============================================================================
