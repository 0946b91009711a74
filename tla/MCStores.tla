----------------------------- MODULE MCStores ------------------------------
(***************************************************************************)
(* Stores for TLC.                                                         *)
(***************************************************************************)
EXTENDS TrieWalk
=============================================================================
