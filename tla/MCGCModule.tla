----------------------------- MODULE MCGCModule -----------------------------
(* Instances of GCRequests for TLC.                                         *)
EXTENDS GCRequests

\* Addresses are compared only for equality.
AddressSymmetry == Permutations(LBA)
=============================================================================
