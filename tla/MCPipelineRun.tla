--------------------------- MODULE MCPipelineRun ---------------------------
(* Model-checking instance of PipelineRun. *)
EXTENDS PipelineRun, TLC

\* Runs and parked calls are interchangeable in the safety runs.
Symmetry == Permutations(Runs) \cup Permutations(Calls)
=============================================================================
