---------------------------- MODULE MCPreparing ----------------------------
(* Bounds for model-checking Preparing.                                     *)
EXTENDS Preparing, TLC

CONSTANTS s1, s2

StmtSymmetry == Permutations({s1, s2})
=============================================================================
