--------------------------- MODULE MCGCScheduler ----------------------------
(***************************************************************************)
(* Small instances of GCScheduler.                                         *)
(***************************************************************************)
EXTENDS GCScheduler

CONSTANTS c1, c2, w1, w2, d1, d2

Families == {c1, c2}
Workers  == {w1, w2}
Droppers == {d1, d2}

=============================================================================
