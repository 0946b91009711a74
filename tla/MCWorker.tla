------------------------------ MODULE MCWorker ------------------------------
(***************************************************************************)
(* Model-checking instance of Worker: the constants are in the cfg.        *)
(***************************************************************************)
EXTENDS Worker
=============================================================================
