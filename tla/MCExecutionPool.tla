--------------------------- MODULE MCExecutionPool ---------------------------
(* A plain stream p and a map_stream m on a small pool, with two choices    *)
(* of how many submissions each one's source holds.                         *)
EXTENDS ExecutionPool, TLC

CONSTANTS p, m

OnlyMap == p :> 0 @@ m :> 2
OneAndTwo == p :> 1 @@ m :> 2
=============================================================================
