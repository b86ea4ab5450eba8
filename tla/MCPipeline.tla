------------------------------ MODULE MCPipeline ------------------------------
(* Instances of Pipeline for TLC. *)
EXTENDS Pipeline, TLC

\* Runs and heads differ only in what happens to them.
PipelineSymmetry == Permutations(Runs) \cup Permutations(Heads)

=============================================================================
