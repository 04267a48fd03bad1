----------------------------- MODULE MCScheduler -----------------------------
(* Scheduler for TLC: plain streams, one map_stream and one blocking caller. *)
EXTENDS Scheduler
=============================================================================
