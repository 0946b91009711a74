-------------------------------- MODULE Db ---------------------------------
(***************************************************************************)
(* The indexer's SQLite store (indexerd/src/db.rs): the tables and meta    *)
(* keys the ingest loop and the cutter decide on, and the transactions     *)
(* they run.  Every operator below is one transaction.                     *)
(***************************************************************************)
EXTENDS Chain, FiniteSets

CONSTANTS
  EpochSize,  \* ChainConfig.epoch_size
  NumSlots,   \* bound: number of pool slots; block n writes slot SlotOf(n)
  AnchorKeep, \* ANCHOR_KEEP: anchors retained
  SnapshotKeep \* SNAPSHOT_KEEP: snapshots retained

VARIABLES
  blocks,     \* table blocks with its events: height -> Row
  frontier,   \* ingest_cursor.scan_frontier, 0 before the first ingest
  head,       \* meta head_number / head_hash, NoHead before the first cycle
  l1Meta,     \* meta l1_accepted_number, 0 before the first accepted answer
  classes,    \* table class_history: height -> era of the block that wrote it
  anchors,    \* table anchors: <<block, era>> pairs a proof agreed with
  epochs,     \* table epochs with the content of each epoch file, in order
  snapshots,  \* table snapshots: indices into epochs with their grounding
  probe,      \* meta anchor_probe_frontier, 0 when absent
  latch,      \* meta verify_root_failed
  recorded    \* recovery divergence fingerprint is on record

dbVars == <<blocks, frontier, head, l1Meta, classes, anchors, epochs,
            snapshots, probe, latch, recorded>>

ASSUME DbAssumption ==
  /\ EpochSize \in Nat \ {0}
  /\ NumSlots \in Nat \ {0}
  /\ AnchorKeep \in Nat \ {0}
  /\ SnapshotKeep \in Nat \ {0}

Genesis == 1
NoHead  == [num |-> 0, era |-> NoEra]

(***************************************************************************)
(* A row of blocks with its events and storage_log rows.  evs tells        *)
(* whether the block's events were stored, fin is blocks.status; a height  *)
(* without a row holds NoRow.                                              *)
(***************************************************************************)
Hashes == Eras \cup {NoEra}
Row    == [era : Hashes, kind : AllKinds, fin : BOOLEAN, evs : BOOLEAN]
NoRow  == [era |-> NoEra, kind |-> "quiet", fin |-> FALSE, evs |-> FALSE]
Stored == {n \in Heights : blocks[n].era # NoEra}
Never  == [n \in Heights |-> NoEra]

(***************************************************************************)
(* Epoch arithmetic of config.rs: epoch i covers i*size .. (i+1)*size - 1, *)
(* and the first epoch is the one that holds the genesis block.            *)
(***************************************************************************)
FirstEpoch     == Genesis \div EpochSize
EpochFrom(idx) == idx * EpochSize
EpochTo(idx)   == EpochFrom(idx) + EpochSize - 1

(***************************************************************************)
(* last_epoch(): the index the next cut uses, and the floor no rollback    *)
(* may cross (0 while no epoch is cut).                                    *)
(***************************************************************************)
NextEpoch == FirstEpoch + Len(epochs)
Floor     == IF epochs = <<>> THEN 0 ELSE epochs[Len(epochs)].to

(***************************************************************************)
(* class_as_of(n): the newest class_history row at or below n, if any; its *)
(* era names the class.                                                    *)
(***************************************************************************)
ClassAsOf(history, n) ==
  LET upTo == {k \in Heights : k <= n /\ history[k] # NoEra}
  IN  {<<k, history[k]>> : k \in {k \in upTo : \A j \in upTo : j <= k}}

(***************************************************************************)
(* storage_root_at(n) / the proof's storage_root: the last writer of each  *)
(* slot at or below n.  Block n writes slot SlotOf(n), so with few slots a *)
(* later write masks an earlier one.                                       *)
(***************************************************************************)
SlotOf(n) == n % NumSlots
Slots == 0..(NumSlots - 1)
LastIn(writers, s, n) ==
  LET W == {k \in writers : k <= n /\ SlotOf(k) = s}
  IN  IF W = {} THEN 0 ELSE CHOOSE k \in W : \A j \in W : j <= k
ChainWriters  == {n \in 1..Len(chain) : WritesPool(n)}
MirrorWriters == {n \in Stored : blocks[n].kind \in Writing}
\* Mutant: a slot the mirror lacks is not compared.
RootMatchesPresent(n) ==
  \A s \in Slots :
    LET c == LastIn(ChainWriters, s, n)
        m == LastIn(MirrorWriters, s, n)
    IN  m = 0 \/ (c = m /\ blocks[m].era = chain[c].era)
RootMatches(n) ==
  \A s \in Slots :
    LET c == LastIn(ChainWriters, s, n)
        m == LastIn(MirrorWriters, s, n)
    IN  c = m /\ (c # 0 => blocks[m].era = chain[c].era)

(***************************************************************************)
(* promote_l1(upto)                                                        *)
(***************************************************************************)
PromoteL1(bs, upto) ==
  [n \in Heights |-> IF n <= upto /\ bs[n].era # NoEra
                     THEN [bs[n] EXCEPT !.fin = TRUE] ELSE bs[n]]

(***************************************************************************)
(* rollback_above(a).  class_history has no foreign key on blocks and is   *)
(* left alone.                                                             *)
(***************************************************************************)
RollbackAbove(a) ==
  /\ blocks' = [n \in Heights |-> IF n <= a THEN blocks[n] ELSE NoRow]
  /\ anchors' = {x \in anchors : x[1] <= a}
  /\ frontier' = IF a < frontier THEN a ELSE frontier
  /\ probe' = 0
  /\ UNCHANGED <<head, l1Meta, classes, epochs, snapshots, latch, recorded>>

(***************************************************************************)
(* insert_block_data: replace the row, record a replaced class, and only   *)
(* ever advance the frontier.                                              *)
(***************************************************************************)
InsertBlockData(n, row) ==
  /\ blocks' = [blocks EXCEPT ![n] = row]
  /\ classes' = IF row.kind = "upgrade" THEN [classes EXCEPT ![n] = row.era] ELSE classes
  /\ frontier' = IF n > frontier THEN n ELSE frontier
  /\ UNCHANGED <<head, l1Meta, anchors, epochs, snapshots, probe, latch, recorded>>

(***************************************************************************)
(* insert_anchor then prune_anchors, and insert_snapshot then the prune of *)
(* maybe_publish_snapshot: replace by key, keep the newest.                *)
(***************************************************************************)
Newest(S, keep) == {x \in S : Cardinality({y \in S : y[1] > x[1]}) < keep}
WithAnchor(n) == Newest({x \in anchors : x[1] # n} \cup {<<n, HashAt(n)>>}, AnchorKeep)
WithSnapshot(e, grounding) == Newest(snapshots \cup {<<e, grounding>>}, SnapshotKeep)

DbInit ==
  /\ blocks = [n \in Heights |-> NoRow] /\ frontier = 0 /\ head = NoHead /\ l1Meta = 0
  /\ classes = Never /\ anchors = {} /\ epochs = <<>> /\ snapshots = {}
  /\ probe = 0 /\ latch = FALSE /\ recorded = FALSE

(***************************************************************************)
(* The content of an epoch file: its block lines and its footer class.     *)
(***************************************************************************)
Line  == [era : Hashes, evs : BOOLEAN]
Epoch == [from : Nat, to : Nat, lines : [Heights -> Line],
          class : SUBSET (Heights \X Hashes)]

DbTypeOK ==
  /\ blocks \in [Heights -> Row]
  /\ frontier \in 0..MaxHeight
  /\ head \in [num : 0..MaxHeight, era : Hashes]
  /\ l1Meta \in 0..MaxHeight
  /\ classes \in [Heights -> Hashes]
  /\ anchors \subseteq Heights \X Hashes
  /\ epochs \in Seq(Epoch)
  /\ snapshots \subseteq Nat \X {"basis", "reachability"}
  /\ probe \in 0..MaxHeight
  /\ latch \in BOOLEAN
  /\ recorded \in BOOLEAN
=============================================================================
