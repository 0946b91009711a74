------------------------------- MODULE Chain -------------------------------
(***************************************************************************)
(* The Starknet chain as the indexer's RPC endpoints show it.  It is not   *)
(* part of the repository: its behaviour is taken from what ingest.rs,     *)
(* cutter.rs and recovery.rs guard against.                                *)
(*                                                                         *)
(* chain[n] is the canonical block at height n.  A block is identified by  *)
(* <<n, era>>: every reorganisation opens a new era, so two blocks of one  *)
(* height have the same era exactly when they have the same hash, and a    *)
(* block's era and height determine its whole ancestry.                    *)
(***************************************************************************)
EXTENDS Integers, Sequences

CONSTANTS
  MaxHeight,  \* bound: the tallest chain explored
  MaxEra,     \* bound: number of branches (1 means no reorganisation)
  Kinds       \* kinds of block that may be produced, see AllKinds

VARIABLES
  chain,      \* canonical chain, chain[n] = [era, kind]
  l1,         \* true height accepted on L1: no reorganisation reaches below it
  era         \* era of the blocks produced now

chainVars == <<chain, l1, era>>

(***************************************************************************)
(* What a block does to the pool: nothing, storage writes with events,     *)
(* storage writes without any event, or a replaced class (with its event). *)
(***************************************************************************)
AllKinds == {"quiet", "event", "silent", "upgrade"}
Eventful == {"event", "upgrade"}
Writing  == {"event", "silent", "upgrade"}

ASSUME ChainAssumption ==
  /\ MaxHeight \in Nat \ {0}
  /\ MaxEra \in Nat \ {0}
  /\ Kinds \subseteq AllKinds

Heights == 1..MaxHeight
Eras    == 1..MaxEra
NoEra   == 0   \* the hash of a block that is not there

Block == [era : Eras, kind : AllKinds]

(***************************************************************************)
(* getBlockWithTxHashes(n), reduced to its hash.                           *)
(***************************************************************************)
HashAt(n) == IF n \in 1..Len(chain) THEN chain[n].era ELSE NoEra

WritesPool(n) == n \in 1..Len(chain) /\ chain[n].kind \in Writing

(***************************************************************************)
(* A block header: number, hash, parent's hash (kind stands for the body). *)
(***************************************************************************)
Header == [num : 0..MaxHeight, era : Eras \cup {NoEra},
           parent : Eras \cup {NoEra}, kind : AllKinds]
NoHeader == [num |-> 0, era |-> NoEra, parent |-> NoEra, kind |-> "quiet"]
HeaderAt(n) == [num |-> n, era |-> chain[n].era, parent |-> HashAt(n - 1),
                kind |-> chain[n].kind]

ChainInit == chain = <<>> /\ l1 = 0 /\ era = 1

Extend(k) ==
  /\ Len(chain) < MaxHeight
  /\ chain' = Append(chain, [era |-> era, kind |-> k])
  /\ UNCHANGED <<l1, era>>

(***************************************************************************)
(* The blocks above a are abandoned; a is final or above the final height. *)
(***************************************************************************)
Reorg(a) ==
  /\ era < MaxEra
  /\ a < Len(chain)
  /\ chain' = SubSeq(chain, 1, a)
  /\ era' = era + 1
  /\ UNCHANGED l1

Finalize(n) ==
  /\ l1 < n /\ n <= Len(chain)
  /\ l1' = n
  /\ UNCHANGED <<chain, era>>

ChainTypeOK ==
  /\ chain \in Seq(Block)
  /\ Len(chain) <= MaxHeight
  /\ l1 \in 0..Len(chain)
  /\ era \in Eras
=============================================================================
