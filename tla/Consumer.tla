------------------------------ MODULE Consumer ------------------------------
(***************************************************************************)
(* A consumer that follows the feed while it is being written              *)
(* (consumer/src/apply.rs, apply_feed, over client/src/store.rs or         *)
(* consumer/src/mem.rs).  Manifest, snapshot, epochs and head are separate *)
(* requests; every store write is one transaction; a failed check or a     *)
(* death of the process ends the sync and keeps the store.                 *)
(***************************************************************************)
EXTENDS Publication

CONSTANTS
  ColdStart   \* TRUE: an empty store starts from a snapshot when one is named

VARIABLES
  store,      \* blocks with their slots: height -> Line
  blockRows,  \* heights with a block row (a snapshot installs slots only)
  applied,    \* meta last_epoch_hash, NoFile before the first epoch
  etag,       \* head.ndjson of meta head_etag, {} before the first
  gen,        \* meta tail_generation
  step,       \* next step of the sync
  named       \* manifest in hand

storeVars == <<store, blockRows, applied, etag, gen>>
consumerVars == <<storeVars, step, named>>
vars == <<pubVars, consumerVars>>

ASSUME ConsumerAssumption == ColdStart \in BOOLEAN

NoManifest == [epochs |-> <<>>, snapshot |-> {}]

(***************************************************************************)
(* last_epoch_to: end of the last applied epoch, 0 before the first.       *)
(***************************************************************************)
LastEpochTo == IF applied = NoFile THEN 0 ELSE EpochEnd(Len(applied) - 1)

ConsumerInit ==
  /\ store = [n \in Heights |-> NoLine] /\ blockRows = {}
  /\ applied = NoFile /\ etag = {} /\ gen = 0
  /\ step = "idle" /\ named = NoManifest

(***************************************************************************)
(* A sync that fails, or whose process dies, starts over later.            *)
(***************************************************************************)
Fail == step' = "idle" /\ named' = NoManifest /\ UNCHANGED storeVars

FetchManifest ==
  /\ step = "idle"
  /\ named' = manifest
  /\ step' = IF ColdStart /\ applied = NoFile /\ blockRows = {} /\ manifest.snapshot # {}
             THEN "snapshot" ELSE "check"
  /\ UNCHANGED storeVars

(***************************************************************************)
(* cold_start_from_snapshot: the file must be the one the manifest names   *)
(* and pin the hash the manifest lists for its epoch; then                 *)
(* install_snapshot.                                                       *)
(***************************************************************************)
SnapshotMatches(s) == snapFiles[s.e] = <<s>> /\ named.epochs[s.e + 1] = s.hash
FetchSnapshot ==
  /\ step = "snapshot"
  /\ \E s \in named.snapshot :
       IF SnapshotMatches(s)
       THEN /\ store' = s.slots
            /\ applied' = s.hash
            /\ step' = "check"
            /\ UNCHANGED <<blockRows, etag, gen, named>>
       ELSE Fail

(***************************************************************************)
(* "feed diverged": the manifest must list the last applied epoch under    *)
(* the hash it was applied with.                                           *)
(***************************************************************************)
CheckApplied ==
  /\ step = "check"
  /\ IF applied # NoFile /\ ~(Len(applied) <= Len(named.epochs)
                              /\ named.epochs[Len(applied)] = applied)
     THEN Fail
     ELSE step' = "epochs" /\ UNCHANGED <<storeVars, named>>

(***************************************************************************)
(* replace_range: the rows in range give way to the given lines, wherever  *)
(* those lie, and a contradicted row bumps the generation.                 *)
(***************************************************************************)
Given(lines) == {n \in Heights : lines[n].era # 0}
ReplaceRange(range, lines, contradiction) ==
  /\ store' = [n \in Heights |-> IF n \in Given(lines) THEN lines[n]
                                 ELSE IF n \in range THEN NoLine ELSE store[n]]
  /\ blockRows' = (blockRows \ range) \cup Given(lines)
  /\ gen' = IF contradiction THEN gen + 1 ELSE gen

(***************************************************************************)
(* The next epoch of the manifest in hand: verify_epoch_against_manifest,  *)
(* then it supersedes the stored rows of its range.                        *)
(***************************************************************************)
Covers(idx) == {n \in Heights : EpochOf(n) = idx}
Contradicts(range, lines) ==
  \E n \in blockRows \cap range : lines[n].era # store[n].era
EpochVerified(idx) ==
  files[idx] = named.epochs[idx + 1] /\ PrevOf(files[idx]) = applied
ApplyEpoch ==
  /\ step = "epochs"
  /\ Len(applied) < Len(named.epochs)
  /\ LET idx == Len(applied)
         lines == files[idx][idx + 1]
     IN  IF EpochVerified(idx)
         THEN /\ ReplaceRange(Covers(idx), lines, Contradicts(Covers(idx), lines))
              /\ applied' = files[idx]
              /\ UNCHANGED <<etag, step, named>>
         ELSE Fail

(***************************************************************************)
(* The head tail: not modified, or ahead of the epochs in hand ("feed      *)
(* advanced mid-sync"), or it replaces everything above the floor.         *)
(***************************************************************************)
\* Mutants: no guard against a tail that starts too high; a guard that is off by one.
TailGapsUnchecked == FALSE
TailGapsEarly == headFile.from > LastEpochTo
TailGaps == headFile.from > LastEpochTo + 1
AboveFloor == {n \in Heights : n > LastEpochTo}
\* Mutant: a row the new tail lacks is no contradiction.
TailContradictsPresentOnly ==
  \E n \in blockRows \cap AboveFloor : headFile.lines[n].era \notin {0, store[n].era}
TailContradicts ==
  \E n \in blockRows \cap AboveFloor :
    IF n \in Given(headFile.lines) THEN headFile.lines[n].era # store[n].era
    ELSE n >= headFile.from
ApplyHead ==
  /\ step = "epochs"
  /\ Len(applied) = Len(named.epochs)
  /\ \/ /\ etag = {headFile}
        /\ step' = "synced"
        /\ UNCHANGED <<storeVars, named>>
     \/ etag # {headFile} /\ TailGaps /\ Fail
     \/ /\ etag # {headFile}
        /\ ~TailGaps
        /\ ReplaceRange(AboveFloor, headFile.lines, TailContradicts)
        /\ etag' = {headFile}
        /\ step' = "synced"
        /\ UNCHANGED <<applied, named>>

Done == step = "synced" /\ Fail
ConsumerDies == step \in {"snapshot", "check", "epochs"} /\ Fail

SyncStep ==
  \/ FetchManifest
  \/ FetchSnapshot
  \/ CheckApplied
  \/ ApplyEpoch
  \/ ApplyHead
  \/ Done
ConsumerStep == SyncStep \/ ConsumerDies

FeedInit == Init /\ ConsumerInit
FeedNext ==
  \/ PublisherStep /\ UNCHANGED consumerVars
  \/ ConsumerStep /\ UNCHANGED pubVars
FeedSpec == FeedInit /\ [][FeedNext]_vars

(***************************************************************************)
(* The main loop never stops and the consumer keeps polling; no step of a  *)
(* sync is interrupted every time it is reached.                           *)
(***************************************************************************)
FeedFairness ==
  /\ WF_vars(MainLoop /\ UNCHANGED consumerVars)
  /\ WF_vars(SyncStep /\ UNCHANGED pubVars)
  /\ SF_vars(FetchSnapshot /\ UNCHANGED pubVars)
  /\ SF_vars(CheckApplied /\ UNCHANGED pubVars)
  /\ SF_vars(ApplyEpoch /\ UNCHANGED pubVars)
  /\ SF_vars(ApplyHead /\ UNCHANGED pubVars)
FeedLiveSpec == FeedSpec /\ FeedFairness
-----------------------------------------------------------------------------
(***************************************************************************)
(* What a completed sync leaves is the publisher's mirror as of the head   *)
(* file it reports, no gap under the tail and no row of an abandoned       *)
(* branch, however the requests interleave with the cut and however the    *)
(* store was started (apply_feed).                                         *)
(***************************************************************************)
SyncedIsMirror ==
  step = "synced" => \A f \in etag :
    store = [n \in Heights |-> IF n <= f.num THEN f.full[n] ELSE NoLine]


(***************************************************************************)
(* "Every tail replacement bumps the persisted tail_generation in the same *)
(* store write as the rebuild": no step takes away or replaces a block row *)
(* without it, or the owners' cursors would not rewind.                    *)
(***************************************************************************)
ReplacedBumps ==
  [][(\E n \in blockRows : store'[n].era # store[n].era) => gen' > gen]_vars

(***************************************************************************)
(* "Fail cleanly, the next sync heals" (apply_feed): a consumer that keeps *)
(* polling reaches the publisher's head again and again, whatever a cut    *)
(* between its requests or an interrupted sync did to it.                  *)
(***************************************************************************)
CatchesUp ==
  []<>(step = "synced" /\ \E f \in etag : f.num = head.num /\ f.full = Lines(0, head.num))
=============================================================================
