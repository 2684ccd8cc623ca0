--------------------------- MODULE MCPipelineRuns ---------------------------
(***************************************************************************)
(* An instance of PipelineRuns: every run has an entity of its own, and    *)
(* the limit of one makes them compete.                                    *)
(***************************************************************************)
EXTENDS PipelineRuns, TLC

Apart == [r \in Runs |-> r]

\* No choice depends on which run it is.
Symmetry == Permutations(Runs)
=============================================================================
