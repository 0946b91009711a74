---------------------------- MODULE MCDiscovery ----------------------------
(***************************************************************************)
(* Discovery for TLC.                                                      *)
(***************************************************************************)
EXTENDS Discovery
=============================================================================
