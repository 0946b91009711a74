---------------------------- MODULE MCEventScan ----------------------------
(***************************************************************************)
(* Model-checking instance of EventScan and of the audit built on it: the  *)
(* constants are in the cfg.                                               *)
(***************************************************************************)
EXTENDS CoverageAudit
=============================================================================
