---------------------------- MODULE MCWritePath ----------------------------
(* WritePath for TLC: the calls are interchangeable. *)
EXTENDS WritePath, TLC

CallSymmetry == Permutations(Calls)
============================================================================
