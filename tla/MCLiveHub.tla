------------------------------ MODULE MCLiveHub ------------------------------
(***************************************************************************)
(* Model-checking instance of LiveHub: the constants are in the cfg.       *)
(***************************************************************************)
EXTENDS LiveHub
=============================================================================
