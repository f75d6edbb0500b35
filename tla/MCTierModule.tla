---------------------------- MODULE MCTierModule ----------------------------
(* Instances of TierModule for TLC.                                         *)
EXTENDS TierModule

\* Pages are compared only for equality.
PageSymmetry == Permutations(Key)
=============================================================================
