------------------------------ MODULE MCSession ------------------------------
(***************************************************************************)
(* Session for TLC.                                                        *)
(***************************************************************************)
EXTENDS Session, TLC

IdentitySymmetry == Permutations(Sessions) \cup Permutations(Instances)
=============================================================================
