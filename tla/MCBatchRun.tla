----------------------------- MODULE MCBatchRun -----------------------------
(* A batch of four jobs on a scheduler of capacity two; job 1 is endless.   *)
EXTENDS BatchRun
=============================================================================
