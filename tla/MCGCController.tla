--------------------------- MODULE MCGCController ---------------------------
\* GCController for TLC.  No symmetry: its runs check liveness.
EXTENDS GCController

CONSTANTS m1, m2, m3  (* the mutators *)

=============================================================================
