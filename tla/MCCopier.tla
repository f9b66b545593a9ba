------------------------------ MODULE MCCopier ------------------------------
\* Copier for TLC.  No symmetry: its run checks liveness.
EXTENDS Copier

CONSTANTS m1, m2  (* the mutators *)

=============================================================================
