----------------------------- MODULE MCConsumer -----------------------------
(***************************************************************************)
(* Publication with one consumer, for TLC.                                 *)
(***************************************************************************)
EXTENDS Consumer
=============================================================================
