---------------------------- MODULE MCWorkerPool ----------------------------
(* Jobs that share a worker slot.                                          *)
EXTENDS WorkerPool

CONSTANTS j1, j2, j3
=============================================================================
