-------------------------------- MODULE MCCors ------------------------------
(* An instance of Cors for TLC. *)
EXTENDS Cors, TLC

OriginSymmetry == Permutations(Origins)
=============================================================================
