--------------------------- MODULE MCScheduledRuns ---------------------------
(* Two calls for the same scheduled run. *)
EXTENDS ScheduledRuns

CONSTANTS i1, i2
=============================================================================
