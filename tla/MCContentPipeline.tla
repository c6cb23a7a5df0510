-------------------------- MODULE MCContentPipeline --------------------------
(* Values for the model checker: runs are alike.                            *)
EXTENDS ContentPipeline, TLC

CONSTANTS r1, r2

RunSymmetry == Permutations(Runs)
=============================================================================
