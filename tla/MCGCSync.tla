------------------------------ MODULE MCGCSync ------------------------------
\* GCSync for TLC.  The writers also take shared guards, as the collector's
\* thread does.  No symmetry: the runs check liveness.
EXTENDS GCSync

CONSTANTS gc, m1, m2, m3  (* the threads *)

=============================================================================
