------------------------------ MODULE MCGcVec -------------------------------
(* Small instances of GcVec, and with it of RootRefs, for TLC. *)
EXTENDS GcVec, TLC

Symmetry == Permutations(Refs) \cup Permutations(Addresses) \cup Permutations(Data)
=============================================================================
