------------------------------ MODULE MCGateway ------------------------------
(***************************************************************************)
(* Gateway for TLC.  The paths are model values and take no part in any    *)
(* comparison but equality, so they may be permuted in a safety run.       *)
(***************************************************************************)
EXTENDS Gateway, TLC

PathSymmetry == Permutations(Files)
=============================================================================
