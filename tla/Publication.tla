---------------------------- MODULE Publication ----------------------------
(***************************************************************************)
(* The feed directory and the order in which it is written: head.ndjson,   *)
(* epoch files, snapshot files and the manifest that names them, by the    *)
(* main loop (indexerd/src/main.rs, cutter.rs) and by the operator's       *)
(* backward re-cut.  Every step is one atomic file replacement or one      *)
(* database statement, and the process may die between any two.            *)
(*                                                                         *)
(* An ingest cycle is one step here: what it may do to the mirror is the   *)
(* subject of Indexer.                                                     *)
(***************************************************************************)
EXTENDS Integers, Sequences, FiniteSets

CONSTANTS
  MaxHeight,     \* bound: the tallest chain explored
  MaxEra,        \* bound: number of branches (1 means no reorganisation)
  EpochSize,     \* ChainConfig.epoch_size
  SnapshotKeep,  \* SNAPSHOT_KEEP: snapshots retained
  Holes,         \* heights an events-first scan ingests incompletely
  MaxCrashes     \* bound: deaths of the publishing process

VARIABLES
  mirror,        \* stored blocks: height -> era of its hash, 0 above the head
  hole,          \* stored blocks whose rows are incomplete
  era,           \* era of the blocks ingested now
  head,          \* meta head_number / head_hash
  final,         \* meta l1_accepted_number
  rows,          \* table epochs: content hashes, in order
  snapRows,      \* table snapshots: Snapshot records
  files,         \* epochs/: index -> bytes of the file, NoFile if absent
  snapFiles,     \* snapshots/: index -> Snapshot, NoFile if absent
  headFile,      \* head.ndjson
  manifest,      \* manifest.json
  pc,            \* next step of the publishing process
  cut,           \* this iteration cut an epoch
  recut,         \* range of the last re-cut, [first, next], or NoRecut
  crashes

dbVars   == <<mirror, hole, era, head, final, rows, snapRows>>
feedVars == <<files, snapFiles, headFile, manifest>>
procVars == <<pc, cut, recut>>
pubVars  == <<dbVars, feedVars, procVars, crashes>>

ASSUME PublicationAssumption ==
  /\ MaxHeight \in Nat \ {0}
  /\ MaxEra \in Nat \ {0}
  /\ EpochSize \in Nat \ {0, 1}
  /\ SnapshotKeep \in Nat \ {0}
  /\ Holes \subseteq 1..MaxHeight
  /\ MaxCrashes \in Nat

Heights == 1..MaxHeight
Indices == 0..(MaxHeight \div EpochSize)
EpochOf(n) == n \div EpochSize
EpochEnd(idx) == idx * EpochSize + EpochSize - 1

(***************************************************************************)
(* What the feed says of a block: its hash and the rows stored for it.     *)
(***************************************************************************)
Line(n) == [era |-> mirror[n], whole |-> n \notin hole]
NoLine  == [era |-> 0, whole |-> TRUE]
Lines(from, to) ==
  [n \in Heights |-> IF from <= n /\ n <= to /\ mirror[n] # 0 THEN Line(n) ELSE NoLine]

(***************************************************************************)
(* The payload hash of an epoch stands for its lines and, through the prev *)
(* link in its header, for all epochs below: it is the sequence of their   *)
(* lines.                                                                  *)
(***************************************************************************)
NoFile == <<>>
EpochLines(idx) == Lines(idx * EpochSize, EpochEnd(idx))
EpochHash(idx, prev) == Append(prev, EpochLines(idx))
PrevOf(hash) == SubSeq(hash, 1, Len(hash) - 1)
HashOfRow(idx) == IF idx = 0 THEN <<>> ELSE rows[idx]   \* hash of epoch idx - 1

(***************************************************************************)
(* last_epoch(): the first height of the tail, the index of the next cut.  *)
(***************************************************************************)
NextIdx  == Len(rows)
TailFrom == NextIdx * EpochSize

(***************************************************************************)
(* A snapshot: its epoch, that epoch's hash, and the slots it folds.       *)
(***************************************************************************)
SnapshotOf(idx) ==
  [e |-> idx, hash |-> rows[idx + 1], slots |-> Lines(0, EpochEnd(idx))]

ManifestOfDb ==
  [epochs |-> rows,
   snapshot |-> {s \in snapRows : \A t \in snapRows : t.e <= s.e}]

HeadOfDb ==
  [from |-> TailFrom, num |-> head.num, lines |-> Lines(TailFrom, head.num),
   full |-> Lines(0, head.num)]  \* full: history only, the mirror it was written from

NoRecut == [first |-> 0, next |-> -1]
Init ==
  /\ mirror = [n \in Heights |-> 0] /\ hole = {} /\ era = 1
  /\ head = [num |-> 0, era |-> 0] /\ final = 0
  /\ rows = <<>> /\ snapRows = {}
  /\ files = [i \in Indices |-> NoFile] /\ snapFiles = [i \in Indices |-> NoFile]
  /\ headFile = [from |-> 0, num |-> 0, lines |-> Lines(1, 0), full |-> Lines(1, 0)]
  /\ manifest = [epochs |-> <<>>, snapshot |-> {}]
  /\ pc = "idle" /\ cut = FALSE /\ recut = NoRecut
  /\ crashes = 0

Goto(p) == pc' = p /\ UNCHANGED <<cut, recut, crashes>>
-----------------------------------------------------------------------------
(***************************************************************************)
(* run_cycle: the blocks up to a stay, those above are replaced by the     *)
(* chain's up to its head h, and the final height becomes f.               *)
(***************************************************************************)
FinalAdvances(h, f) == final <= f /\ f <= h
IngestCycle(a, h, f) ==
  /\ pc = "idle"
  /\ a <= head.num /\ a <= h
  /\ FinalAdvances(h, f)
  /\ (a < head.num => final <= a /\ era < MaxEra)
  /\ era' = IF a < head.num THEN era + 1 ELSE era
  /\ mirror' = [n \in Heights |-> IF n <= a THEN mirror[n]
                                  ELSE IF n <= h THEN era' ELSE 0]
  /\ hole' = {n \in hole : n <= a} \cup {n \in Holes : a < n /\ n <= h}
  /\ head' = [num |-> h, era |-> IF h = 0 THEN 0 ELSE mirror'[h]]
  /\ final' = f
  /\ Goto(IF head' # head THEN "head" ELSE "cut")
  /\ UNCHANGED <<rows, snapRows, feedVars>>

(***************************************************************************)
(* regen_head: head.ndjson, then the manifest.  Called before the cut when *)
(* the head changed, and after it when an epoch was cut.                   *)
(***************************************************************************)
WriteHead ==
  /\ pc \in {"head", "tail"}
  /\ headFile' = HeadOfDb
  /\ Goto(IF pc = "head" THEN "headManifest" ELSE "tailManifest")
  /\ UNCHANGED <<dbVars, files, snapFiles, manifest>>

RewriteManifest(p) ==
  /\ manifest' = ManifestOfDb
  /\ Goto(p)
  /\ UNCHANGED <<dbVars, files, snapFiles, headFile>>

HeadManifest == pc = "headManifest" /\ RewriteManifest("cut")

(***************************************************************************)
(* cut_ready_epochs: for each epoch that is final and ingested its file,   *)
(* then its row; the manifest once after the loop.                         *)
(***************************************************************************)
Ready == EpochEnd(NextIdx) <= final /\ EpochEnd(NextIdx) <= head.num
CutFile ==
  /\ pc = "cut"
  /\ Ready
  /\ files' = [files EXCEPT ![NextIdx] = EpochHash(NextIdx, HashOfRow(NextIdx))]
  /\ Goto("row")
  /\ UNCHANGED <<dbVars, snapFiles, headFile, manifest>>
CutRow ==
  /\ pc = "row"
  /\ rows' = Append(rows, EpochHash(NextIdx, HashOfRow(NextIdx)))
  /\ cut' = TRUE
  /\ pc' = "cut"
  /\ UNCHANGED <<mirror, hole, era, head, final, snapRows, feedVars, recut, crashes>>
CutDone ==
  /\ pc = "cut"
  /\ ~Ready
  /\ IF cut THEN RewriteManifest("snapshot")
     ELSE Goto("snapshot") /\ UNCHANGED <<dbVars, feedVars>>

(***************************************************************************)
(* A gate of the cut or of the snapshot halts the batch: the loop goes on  *)
(* as if nothing had been cut.                                             *)
(***************************************************************************)
Halt ==
  /\ pc \in {"cut", "row", "snapshot"}
  /\ (pc = "cut" => ~cut)
  /\ pc' = "idle" /\ cut' = FALSE
  /\ UNCHANGED <<dbVars, feedVars, recut, crashes>>

(***************************************************************************)
(* maybe_publish_snapshot: nothing to publish, or no grounding for it yet; *)
(* otherwise the file, the row, the prune and the manifest.                *)
(***************************************************************************)
AfterSnapshot == IF cut THEN "tail" ELSE "idle"
SnapshotSkip ==
  /\ pc = "snapshot"
  /\ Goto(AfterSnapshot)
  /\ UNCHANGED <<dbVars, feedVars>>
SnapshotFile ==
  /\ pc = "snapshot"
  /\ rows # <<>>
  /\ \A s \in snapRows : s.e # NextIdx - 1
  /\ snapFiles' = [snapFiles EXCEPT ![NextIdx - 1] = <<SnapshotOf(NextIdx - 1)>>]
  /\ Goto("snapshotRow")
  /\ UNCHANGED <<dbVars, files, headFile, manifest>>
SnapshotRow ==
  /\ pc = "snapshotRow"
  /\ snapRows' = {s \in snapRows : s.e # NextIdx - 1} \cup {SnapshotOf(NextIdx - 1)}
  /\ Goto("prune")
  /\ UNCHANGED <<mirror, hole, era, head, final, rows, feedVars>>

(***************************************************************************)
(* prune_snapshots removes what is older than the newest SnapshotKeep,     *)
(* oldest first, each file before its row.                                 *)
(***************************************************************************)
\* Mutant: the prune keeps one snapshot less.
ExcessKeepsOneLess ==
  {s \in snapRows : Cardinality({t \in snapRows : t.e > s.e}) >= SnapshotKeep - 1}
Excess == {s \in snapRows : Cardinality({t \in snapRows : t.e > s.e}) >= SnapshotKeep}
Oldest(S) == {s \in S : \A t \in S : s.e <= t.e}
RemoveFile(S) ==
  /\ \E s \in Oldest(S) : snapFiles' = [snapFiles EXCEPT ![s.e] = NoFile]
  /\ UNCHANGED <<dbVars, files, headFile, manifest>>
RemoveRow(S) ==
  /\ snapRows' = snapRows \ Oldest(S)
  /\ UNCHANGED <<mirror, hole, era, head, final, rows, feedVars>>
PruneFile == pc = "prune" /\ Excess # {} /\ RemoveFile(Excess) /\ Goto("pruneRow")
PruneRow == pc = "pruneRow" /\ RemoveRow(Excess) /\ Goto("prune")
SnapshotManifest == pc = "prune" /\ Excess = {} /\ RewriteManifest(AfterSnapshot)

TailManifest ==
  /\ pc = "tailManifest"
  /\ manifest' = ManifestOfDb
  /\ pc' = "idle" /\ cut' = FALSE
  /\ UNCHANGED <<dbVars, files, snapFiles, headFile, recut, crashes>>

(***************************************************************************)
(* The process dies; the next one starts at the top of the main loop.      *)
(***************************************************************************)
Crash ==
  /\ pc # "idle"
  /\ crashes < MaxCrashes
  /\ crashes' = crashes + 1
  /\ pc' = "idle" /\ cut' = FALSE
  /\ UNCHANGED <<dbVars, feedVars, recut>>
-----------------------------------------------------------------------------
(***************************************************************************)
(* The operator's repair (audit-coverage --repair, rescan) and re-cut, run *)
(* while the main loop is not.                                             *)
(***************************************************************************)
Repair(n) ==
  /\ pc = "idle"
  /\ n \in hole
  /\ hole' = hole \ {n}
  /\ UNCHANGED <<mirror, era, head, final, rows, snapRows, feedVars, procVars, crashes>>

(***************************************************************************)
(* recut_epochs_from(first): refused when an epoch below is stale too, or  *)
(* when none at or above is; the epochs before the first stale one are     *)
(* skipped, all above are rewritten.                                       *)
(***************************************************************************)
Stale(idx) == rows[idx + 1] # EpochHash(idx, HashOfRow(idx))
\* Mutant: the epochs below are not looked at.
RecutStartUnchecked(first) ==
  /\ pc = "idle"
  /\ first < NextIdx
  /\ \E next \in first..(NextIdx - 1) :
       /\ Stale(next)
       /\ \A idx \in first..(next - 1) : ~Stale(idx)
       /\ recut' = [first |-> first, next |-> next]
  /\ pc' = "withdraw"
  /\ UNCHANGED <<dbVars, feedVars, cut, crashes>>
RecutStart(first) ==
  /\ pc = "idle"
  /\ first < NextIdx
  /\ \A idx \in 0..(first - 1) : ~Stale(idx)
  /\ \E next \in first..(NextIdx - 1) :
       /\ Stale(next)
       /\ \A idx \in first..(next - 1) : ~Stale(idx)
       /\ recut' = [first |-> first, next |-> next]
  /\ pc' = "withdraw"
  /\ UNCHANGED <<dbVars, feedVars, cut, crashes>>

\* Mutant: the snapshot of the first epoch rewritten stays.
WithdrawnAbove == {s \in snapRows : s.e > recut.first}
Withdrawn == {s \in snapRows : s.e >= recut.first}
WithdrawFile == pc = "withdraw" /\ Withdrawn # {} /\ RemoveFile(Withdrawn) /\ Goto("withdrawRow")
WithdrawRow == pc = "withdrawRow" /\ RemoveRow(Withdrawn) /\ Goto("withdraw")
RecutHash == EpochHash(recut.next, HashOfRow(recut.next))
RecutFile ==
  /\ \/ pc = "withdraw" /\ Withdrawn = {}
     \/ pc = "recut"
  /\ files' = [files EXCEPT ![recut.next] = RecutHash]
  /\ Goto("recutRow")
  /\ UNCHANGED <<dbVars, snapFiles, headFile, manifest>>
RecutRow ==
  /\ pc = "recutRow"
  /\ rows' = [rows EXCEPT ![recut.next + 1] = RecutHash]
  /\ Goto("recutManifest")
  /\ UNCHANGED <<mirror, hole, era, head, final, snapRows, feedVars>>
RecutManifest ==
  /\ pc = "recutManifest"
  /\ manifest' = ManifestOfDb
  /\ recut' = [recut EXCEPT !.next = @ + 1]
  /\ pc' = IF recut'.next = NextIdx THEN "idle" ELSE "recut"
  /\ UNCHANGED <<dbVars, files, snapFiles, headFile, cut, crashes>>
-----------------------------------------------------------------------------
MainLoop ==
  \/ \E a \in 0..MaxHeight, h \in 0..MaxHeight, f \in 0..MaxHeight : IngestCycle(a, h, f)
  \/ WriteHead
  \/ HeadManifest
  \/ CutFile
  \/ CutRow
  \/ CutDone
  \/ Halt
  \/ SnapshotSkip
  \/ SnapshotFile
  \/ SnapshotRow
  \/ PruneFile
  \/ PruneRow
  \/ SnapshotManifest
  \/ TailManifest

Operator ==
  \/ \E n \in Heights : Repair(n)
  \/ \E first \in Indices : RecutStart(first)
  \/ WithdrawFile
  \/ WithdrawRow
  \/ RecutFile
  \/ RecutRow
  \/ RecutManifest

PublisherStep == MainLoop \/ Operator \/ Crash
PublisherSpec == Init /\ [][PublisherStep]_pubVars
-----------------------------------------------------------------------------
(***************************************************************************)
(* What every consumer checks of a manifest: each epoch file it lists is   *)
(* there with the bytes it names and links to the one below, and the       *)
(* snapshot it names is there and pins its epoch.                          *)
(***************************************************************************)
EpochsServable ==
  \A i \in 1..Len(manifest.epochs) :
    /\ files[i - 1] = manifest.epochs[i]
    /\ PrevOf(manifest.epochs[i]) = IF i = 1 THEN <<>> ELSE manifest.epochs[i - 1]
SnapshotServable(s) ==
  snapFiles[s.e] = <<s>> /\ s.hash = manifest.epochs[s.e + 1]

(***************************************************************************)
(* Without a re-cut, whatever a client reads from the manifest between any *)
(* two steps can be fetched and verified, deaths of the publisher          *)
(* included.  A named snapshot may go only when SnapshotKeep newer ones    *)
(* are on record, which takes one death per manifest they failed to reach. *)
(***************************************************************************)
AlwaysServable ==
  recut = NoRecut =>
  /\ EpochsServable
  /\ \A s \in manifest.snapshot :
       SnapshotServable(s) \/ Cardinality({t \in snapRows : t.e > s.e}) >= SnapshotKeep

(***************************************************************************)
(* A re-cut that was refused or that ended, and the cuts and snapshots     *)
(* before and after it, leave a feed that can be served when the process   *)
(* has not died on the way.                                                *)
(***************************************************************************)
FeedServable == EpochsServable /\ \A s \in manifest.snapshot : SnapshotServable(s)
ServableAtRest == pc = "idle" /\ crashes = 0 => FeedServable

(***************************************************************************)
(* The command epoch-verify: every row's file is there with the content    *)
(* the row names, and links to the file below.                             *)
(***************************************************************************)
EpochVerify ==
  \A i \in 1..Len(rows) :
    /\ files[i - 1] = rows[i]
    /\ PrevOf(files[i - 1]) = IF i = 1 THEN <<>> ELSE files[i - 2]

(***************************************************************************)
(* A re-cut that ends leaves no published epoch that differs from the      *)
(* repaired mirror, also when it finishes what an earlier one died in, and *)
(* epoch-verify, "what says the whole chain landed", passes.               *)
(***************************************************************************)
RecutLands ==
  [][RecutManifest /\ pc' = "idle" =>
       /\ \A idx \in 0..(NextIdx - 1) : ~Stale(idx)
       /\ manifest'.epochs = rows
       /\ EpochVerify]_pubVars
=============================================================================
