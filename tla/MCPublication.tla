--------------------------- MODULE MCPublication ---------------------------
(***************************************************************************)
(* Publication alone, for TLC.                                             *)
(***************************************************************************)
EXTENDS Publication
=============================================================================
