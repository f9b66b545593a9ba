---------------------------- MODULE MCEvacuation ----------------------------
(* Small instances of Evacuation for TLC. *)
EXTENDS Evacuation, TLC

Symmetry == Permutations(Contexts)
=============================================================================
