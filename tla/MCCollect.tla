------------------------------ MODULE MCCollect ------------------------------
(* Collect for TLC: one utility, a table of two rows and two images. *)
EXTENDS Collect, TLC

CONSTANTS a, b

ImageSymmetry == Permutations({a, b})
=============================================================================
