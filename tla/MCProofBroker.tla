--------------------------- MODULE MCProofBroker ---------------------------
(***************************************************************************)
(* Model-checking instance of ProofBroker: the constants are in the cfg.   *)
(***************************************************************************)
EXTENDS ProofBroker
=============================================================================
