---------------------------- MODULE MCWorkerPool ----------------------------
(***************************************************************************)
(* Bounds for WorkerPool: every length from the empty list to one more     *)
(* than the widest pool, and a concurrency below, at and above one.        *)
(***************************************************************************)
EXTENDS WorkerPool

SomeLengths == 0 .. 4
SomeConcurrencies == {-1, 0, 1, 2, 3}
=============================================================================
