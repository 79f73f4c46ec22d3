------------------------------- MODULE MCServe -------------------------------
(***************************************************************************)
(* Serve for TLC.                                                          *)
(***************************************************************************)
EXTENDS Serve

JobSymmetry == Permutations(Jobs)
=============================================================================
