----------------------------- MODULE MCRunStore -----------------------------
(* Successive attempts for one job.                                         *)
EXTENDS RunStore
=============================================================================
