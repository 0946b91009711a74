--------------------------- MODULE MCWorkerCache ---------------------------
(***************************************************************************)
(* Model-checking instance of WorkerCache: the constants are in the cfg.   *)
(***************************************************************************)
EXTENDS WorkerCache
=============================================================================
