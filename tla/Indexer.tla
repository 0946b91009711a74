------------------------------ MODULE Indexer ------------------------------
(***************************************************************************)
(* The indexer's main loop: an ingest cycle, then the verify-root gate,    *)
(* the one-shot recovery, the epoch cut and the snapshot gate              *)
(* (indexerd/src/main.rs, cutter.rs, recovery.rs, trie_walk.rs), composed  *)
(* with the chain.  Files are the subject of module Publication; here an   *)
(* epoch is its table row together with the bytes it was built from.       *)
(***************************************************************************)
EXTENDS Ingest

CONSTANTS
  ReorgWhen,      \* "settled", "idle" or "any": when the chain may reorganise
  TornRollback,   \* TRUE: the process may die between the promotion of rows to
                  \* final and the rollback of the same cycle
  MaxFaults,      \* bound: crashes and failed calls
  ProofAnswers,   \* what a storage-proof request may come back with
  BasisBudget     \* BASIS_PROBE_ATTEMPTS

VARIABLES
  attempt,        \* iteration of cut_epochs_with_recovery, 0 or 1
  diverged,       \* block of the RootMismatch in hand, 0 if none
  repairs,        \* blocks the trie walk attributed missing slots to
  basisSpent,     \* meta snapshot basis probe: attempts spent on the last epoch
  faults,         \* faults so far
  closures        \* history: recovery attempts since verify-root last passed

cutVars == <<attempt, diverged, repairs, basisSpent>>
vars == <<chainVars, dbVars, stale, cycleVars, cutVars, faults, closures>>

ASSUME IndexerAssumption ==
  /\ ReorgWhen \in {"settled", "idle", "any"}
  /\ TornRollback \in BOOLEAN
  /\ MaxFaults \in Nat
  /\ ProofAnswers \subseteq {"bound", "unbound", "unavailable", "error"}
  /\ BasisBudget \in Nat

(***************************************************************************)
(* Steps outside the cut leave its state alone; leaving it goes back to    *)
(* the top of the main loop.                                               *)
(***************************************************************************)
OutsideCut == UNCHANGED <<chainVars, cutVars, faults, closures>>
SameCycle == UNCHANGED <<latest, announced, supplied, reorg, deep, winEnd, active, updates>>
Return ==
  /\ pc' = "idle" /\ attempt' = 0 /\ diverged' = 0 /\ repairs' = {}
  /\ SameCycle

(***************************************************************************)
(* verify_and_capture, first half of cut_ready_epochs.                     *)
(***************************************************************************)
VerifySkipped ==
  /\ pc = "verify"
  /\ frontier = 0 \/ probe = frontier
  /\ pc' = "cut"
  /\ SameCycle
  /\ UNCHANGED <<dbVars, cutVars, closures>>

\* Proof retries exhausted: recorded as probed, and no verdict on the mirror.
VerifyUnavailable ==
  /\ pc = "verify"
  /\ "unavailable" \in ProofAnswers
  /\ frontier # 0 /\ probe # frontier
  /\ probe' = frontier
  /\ pc' = "cut"
  /\ SameCycle
  /\ UNCHANGED <<blocks, frontier, head, l1Meta, classes, anchors, epochs,
                 snapshots, latch, recorded, cutVars, closures>>

\* Any other failure of the check: nothing is recorded, the cut goes on.
VerifyError ==
  /\ pc = "verify"
  /\ "error" \in ProofAnswers
  /\ frontier # 0 /\ probe # frontier
  /\ pc' = "cut"
  /\ SameCycle
  /\ UNCHANGED <<dbVars, cutVars, closures>>

\* A proof of another block (PROOF_NOT_BOUND) halts the batch.
VerifyUnbound ==
  /\ pc = "verify"
  /\ "unbound" \in ProofAnswers
  /\ frontier # 0 /\ probe # frontier
  /\ Return
  /\ UNCHANGED <<dbVars, basisSpent, closures>>

\* A bound proof at min(frontier, endpoint head v).
VerifyAnswered(v) ==
  /\ pc = "verify"
  /\ "bound" \in ProofAnswers
  /\ frontier # 0 /\ probe # frontier
  /\ v \in Visible
  /\ LET target == IF frontier < v THEN frontier ELSE v
     IN  IF RootMatches(target)
         THEN /\ latch' = FALSE /\ recorded' = FALSE /\ closures' = 0
              /\ anchors' = WithAnchor(target)
              /\ probe' = frontier
              /\ pc' = "cut"
              /\ UNCHANGED <<cutVars, blocks, frontier, head, l1Meta, classes,
                             epochs, snapshots>>
         ELSE /\ latch' = TRUE
              /\ diverged' = target
              /\ pc' = "mismatch"
              /\ UNCHANGED <<attempt, repairs, basisSpent, closures, blocks, frontier,
                             head, l1Meta, classes, anchors, epochs, snapshots,
                             probe, recorded>>
  /\ SameCycle

(***************************************************************************)
(* cut_epochs_with_recovery, mismatch in hand: given up on the second      *)
(* iteration, while a reorganisation is in flight (or that cannot be told) *)
(* and when a divergence is on record; otherwise the attempt is put on     *)
(* record before it starts.                                                *)
(***************************************************************************)
ReorgInFlight(v) == head # NoHead /\ HeadGone(v)
\* Mutant: a divergence on record does not count.
SkipsForgetful(v) == attempt = 1 \/ ReorgInFlight(v)
Skips(v) == attempt = 1 \/ ReorgInFlight(v) \/ recorded
SkipRecovery(v) ==
  /\ pc = "mismatch"
  /\ v \in Visible
  /\ Skips(v)
  /\ Return
  /\ UNCHANGED <<dbVars, basisSpent, closures>>
BeginAttempt(v) ==
  /\ pc = "mismatch"
  /\ v \in Visible
  /\ ~Skips(v)
  /\ recorded' = TRUE
  /\ closures' = closures + 1
  /\ pc' = "walk"
  /\ SameCycle
  /\ UNCHANGED <<blocks, frontier, head, l1Meta, classes, anchors, epochs,
                 snapshots, probe, latch, cutVars>>

(***************************************************************************)
(* run_closure: enumerate_missing_slots (slots the chain holds and the     *)
(* mirror scores as empty) and attribute_to_blocks (the first block that   *)
(* wrote each of them), then ingest_block on exactly those blocks.         *)
(***************************************************************************)
\* Mutant: only slots the mirror holds are looked for.
MissingSlotsHeld(d) ==
  {s \in Slots : /\ LastIn(ChainWriters, s, d) # 0
                 /\ LastIn(MirrorWriters, s, d) # 0}
MissingSlots(d) ==
  {s \in Slots : /\ LastIn(ChainWriters, s, d) # 0
                 /\ LastIn(MirrorWriters, s, d) = 0}
FirstWriters(S, d) ==
  {n \in ChainWriters : /\ n <= d /\ SlotOf(n) \in S
                        /\ \A k \in ChainWriters : SlotOf(k) = SlotOf(n) => n <= k}
Walk ==
  /\ pc = "walk"
  /\ IF diverged > Len(chain)
     THEN Return
     ELSE /\ repairs' = FirstWriters(MissingSlots(diverged), diverged)
          /\ pc' = "repair"
          /\ UNCHANGED <<attempt, diverged>>
          /\ SameCycle
  /\ UNCHANGED <<dbVars, basisSpent, closures>>
RepairBlock ==
  /\ pc = "repair"
  /\ \E n \in repairs :
       /\ \A k \in repairs : n <= k
       /\ IF n > Len(chain)
          THEN Return /\ UNCHANGED dbVars
          ELSE /\ \E fin \in Statuses(n) :
                    InsertBlockData(n, [era |-> chain[n].era, kind |-> chain[n].kind,
                                        fin |-> fin, evs |-> chain[n].kind \in Eventful])
               /\ repairs' = repairs \ {n}
               /\ UNCHANGED <<pc, attempt, diverged>>
               /\ SameCycle
  /\ UNCHANGED <<basisSpent, closures>>
RetryCut ==
  /\ pc = "repair"
  /\ repairs = {}
  /\ attempt' = 1
  /\ diverged' = 0
  /\ pc' = "verify"
  /\ SameCycle
  /\ UNCHANGED <<dbVars, repairs, basisSpent, closures>>

(***************************************************************************)
(* The cut loop of cut_ready_epochs: build_epoch from the rows, a proof at *)
(* the end block if one is to be had, then the table row.                  *)
(***************************************************************************)
\* Mutant: an epoch is cut as soon as it is ingested.
ReadyUnfinal == EpochTo(NextEpoch) <= frontier
Ready == EpochTo(NextEpoch) <= l1Meta /\ EpochTo(NextEpoch) <= frontier
NoLine == [era |-> NoEra, evs |-> FALSE]
BuildEpoch(idx) ==
  [from |-> EpochFrom(idx), to |-> EpochTo(idx),
   lines |-> [n \in Heights |->
                IF EpochFrom(idx) <= n /\ n <= EpochTo(idx)
                THEN [era |-> blocks[n].era, evs |-> blocks[n].evs] ELSE NoLine],
   class |-> ClassAsOf(classes, EpochTo(idx))]
CutEpoch(proved) ==
  /\ pc = "cut"
  /\ Ready
  /\ IF proved THEN "bound" \in ProofAnswers /\ EpochTo(NextEpoch) \in 1..Len(chain)
     ELSE ProofAnswers \cap {"unavailable", "error"} # {}
  /\ epochs' = Append(epochs, BuildEpoch(NextEpoch))
  /\ anchors' = IF proved THEN WithAnchor(EpochTo(NextEpoch)) ELSE anchors
  /\ basisSpent' = 0
  /\ SameCycle
  /\ UNCHANGED <<pc, attempt, diverged, repairs, closures, blocks, frontier, head,
                 l1Meta, classes, snapshots, probe, latch, recorded>>
CutUnbound ==
  /\ pc = "cut"
  /\ "unbound" \in ProofAnswers
  /\ Ready
  /\ Return
  /\ UNCHANGED <<dbVars, basisSpent, closures>>
CutDone ==
  /\ pc = "cut"
  /\ ~Ready
  /\ pc' = "snapshot"
  /\ SameCycle
  /\ UNCHANGED <<dbVars, cutVars, closures>>

(***************************************************************************)
(* maybe_publish_snapshot for the last epoch: never under the latch, with  *)
(* a proof at the basis block, or failing that with a later anchor.        *)
(***************************************************************************)
\* Mutant: the latch is not looked at.
SnapshotWantedUnlatched == epochs # <<>> /\ \A s \in snapshots : s[1] # Len(epochs)
SnapshotWanted ==
  /\ epochs # <<>>
  /\ ~latch
  /\ \A s \in snapshots : s[1] # Len(epochs)
Publish(grounding) ==
  /\ snapshots' = WithSnapshot(Len(epochs), grounding)
  /\ Return
  /\ UNCHANGED <<blocks, frontier, head, l1Meta, classes, anchors, epochs, probe,
                 latch, recorded, closures>>
NoSnapshot ==
  /\ pc = "snapshot"
  /\ ~SnapshotWanted
  /\ Return
  /\ UNCHANGED <<dbVars, basisSpent, closures>>
SnapshotProved ==
  /\ pc = "snapshot"
  /\ "bound" \in ProofAnswers
  /\ SnapshotWanted
  /\ basisSpent < BasisBudget
  /\ Floor <= Len(chain)
  /\ IF RootMatches(Floor)
     THEN Publish("basis") /\ UNCHANGED basisSpent
     ELSE /\ latch' = TRUE
          /\ diverged' = Floor
          /\ pc' = "mismatch"
          /\ SameCycle
          /\ UNCHANGED <<attempt, repairs, basisSpent, closures, blocks, frontier,
                         head, l1Meta, classes, anchors, epochs, snapshots, probe,
                         recorded>>
SnapshotUnproved ==
  /\ pc = "snapshot"
  /\ SnapshotWanted
  /\ basisSpent = BasisBudget \/ ProofAnswers \cap {"unavailable", "error"} # {}
  /\ basisSpent' = IF basisSpent < BasisBudget THEN basisSpent + 1 ELSE basisSpent
  /\ IF \E x \in anchors : x[1] >= Floor
     THEN Publish("reachability")
     ELSE Return /\ UNCHANGED <<dbVars, closures>>
SnapshotUnbound ==
  /\ pc = "snapshot"
  /\ "unbound" \in ProofAnswers
  /\ SnapshotWanted
  /\ basisSpent < BasisBudget
  /\ Return
  /\ UNCHANGED <<dbVars, basisSpent, closures>>
-----------------------------------------------------------------------------
(***************************************************************************)
(* A call fails or the process dies: memory is lost, the store stays.      *)
(***************************************************************************)
Fault ==
  /\ pc # "idle"
  /\ (pc = "rollback" /\ reorg # {} => TornRollback)
  /\ faults < MaxFaults
  /\ faults' = faults + 1
  /\ Volatile("idle")
  /\ attempt' = 0 /\ diverged' = 0 /\ repairs' = {}
  /\ UNCHANGED <<chainVars, stale, dbVars, basisSpent, closures>>

(***************************************************************************)
(* The process dies between the writes of head_number and head_hash at the *)
(* end of a cycle: the stored pair names no block (without a head_hash, in *)
(* the first cycle, there is still no head).                               *)
(***************************************************************************)
TornHead ==
  /\ pc = "finish"
  /\ faults < MaxFaults
  /\ faults' = faults + 1
  /\ head' = IF head = NoHead \/ head.num = latest.num THEN head
             ELSE [num |-> latest.num, era |-> NoEra]
  /\ Volatile("idle")
  /\ UNCHANGED <<chainVars, stale, blocks, frontier, l1Meta, classes, anchors, epochs,
                 snapshots, probe, latch, recorded, cutVars, closures>>

(***************************************************************************)
(* When the chain may abandon blocks.  "settled": while nothing the mirror *)
(* ingested lies above the head it recorded and no block is being fetched; *)
(* "idle": between main-loop iterations, so also after a cycle that failed *)
(* half way; "any": at every step.                                         *)
(***************************************************************************)
Settled == frontier <= head.num /\ pc \in {"idle", "verify", "mismatch", "cut", "snapshot"}
ReorgAllowed ==
  CASE ReorgWhen = "settled" -> Settled
    [] ReorgWhen = "idle" -> pc = "idle"
    [] OTHER -> TRUE

ChainStep ==
  /\ \/ \E k \in Kinds : Extend(k) /\ UNCHANGED stale
     \/ \E n \in Heights : Finalize(n) /\ UNCHANGED stale
     \/ ReorgAllowed /\ \E a \in l1..MaxHeight : Reorg(a) /\ Abandoned(a)
     \/ ReorgNotice
  /\ UNCHANGED <<dbVars, cycleVars, cutVars, faults, closures>>

PollStep ==
  \/ \E v \in Heights, s \in BOOLEAN : PollHead(v, s)
  \/ \E h \in Announcements, v \in Heights, w \in Heights, s \in BOOLEAN :
       PollAnnounced(h, v, w, s)

CycleStep ==
  \/ \E v \in Heights, ans \in L1Answers : Detect(v, ans)
  \/ Rollback
  \/ Scan
  \/ FetchUpdates
  \/ StoreBlock
  \/ Checkpoint
  \/ Finish

IngestStep ==
  /\ PollStep \/ (CycleStep /\ UNCHANGED stale)
  /\ OutsideCut

CutStep ==
  /\ \/ VerifySkipped
     \/ VerifyUnavailable
     \/ VerifyError
     \/ VerifyUnbound
     \/ \E v \in Heights : VerifyAnswered(v)
     \/ \E v \in Heights : SkipRecovery(v)
     \/ \E v \in Heights : BeginAttempt(v)
     \/ Walk
     \/ RepairBlock
     \/ RetryCut
     \/ \E p \in BOOLEAN : CutEpoch(p)
     \/ CutUnbound
     \/ CutDone
     \/ NoSnapshot
     \/ SnapshotProved
     \/ SnapshotUnproved
     \/ SnapshotUnbound
  /\ UNCHANGED <<chainVars, stale, faults>>

Init ==
  /\ ChainInit /\ DbInit /\ IngestInit
  /\ attempt = 0 /\ diverged = 0 /\ repairs = {} /\ basisSpent = 0
  /\ faults = 0 /\ closures = 0

Next == ChainStep \/ IngestStep \/ CutStep \/ Fault \/ TornHead

Spec == Init /\ [][Next]_vars

(***************************************************************************)
(* The main loop never stops, and an endpoint does not withhold the true   *)
(* final height forever: of the polls repeated once per cycle, infinitely  *)
(* many are answered with it.                                              *)
(***************************************************************************)
HonestDetect ==
  /\ Detect(Len(chain), [num |-> l1, status |-> "l1"])
  /\ UNCHANGED stale /\ OutsideCut
Fairness ==
  /\ WF_vars(IngestStep \/ CutStep)
  /\ SF_vars(HonestDetect)
LiveSpec == Spec /\ Fairness
-----------------------------------------------------------------------------
CutTypeOK ==
  /\ attempt \in {0, 1} /\ diverged \in 0..MaxHeight /\ repairs \subseteq Heights
  /\ basisSpent \in 0..BasisBudget /\ closures \in Nat
StaleTypeOK == stale \subseteq {h \in Header : LateNotice /\ 0 < h.num}

(***************************************************************************)
(* Every table, meta key and cycle variable stays in its domain: heights   *)
(* never leave the chain's range, a reorg answer is at most one height.    *)
(***************************************************************************)
TypeOK ==
  /\ ChainTypeOK /\ DbTypeOK /\ IngestTypeOK /\ CutTypeOK /\ StaleTypeOK
  /\ faults \in 0..MaxFaults

(***************************************************************************)
(* Published epochs are contiguous from the first epoch, and neither a     *)
(* rollback nor a stale finality answer ever takes the ingest frontier or  *)
(* the final height below the last of them (detect_reorg: "the epoch floor *)
(* is never crossed").                                                     *)
(***************************************************************************)
FloorHolds ==
  /\ \A i \in 1..Len(epochs) : /\ epochs[i].from = EpochFrom(FirstEpoch + i - 1)
                               /\ epochs[i].to = EpochTo(FirstEpoch + i - 1)
  /\ Floor <= frontier
  /\ Floor <= l1Meta

(***************************************************************************)
(* A canonical head vouches for everything stored under it: detect_reorg   *)
(* asks no more than whether the stored head is canonical, so outside an   *)
(* ingest cycle a canonical head must mean that every stored row is on the *)
(* chain, that every block with pool events up to the frontier is stored   *)
(* with them, and that every anchor names a canonical block.  This and the *)
(* next two hold if reorganisations are settled, announced in time (not    *)
(* LateNotice) and not contradicted by too high a finality answer (not     *)
(* HighAnswers): what run_cycle_bound takes on trust.                      *)
(***************************************************************************)
HeadVouches ==
  (pc \in {"idle"} \cup CutPhase /\ head.era # NoEra /\ HashAt(head.num) = head.era) =>
    /\ \A n \in Stored : n <= frontier /\ blocks[n].era = HashAt(n)
    /\ \A n \in 1..frontier : n <= head.num /\ chain[n].kind \in Eventful =>
                              n \in Stored /\ blocks[n].evs
    /\ \A x \in anchors : x[2] = HashAt(x[1])

(***************************************************************************)
(* Every published epoch holds exactly blocks of the final chain, and all  *)
(* of its blocks with pool events, with their events (build_epoch).        *)
(***************************************************************************)
EpochsFinal ==
  \A i \in 1..Len(epochs) :
    LET e == epochs[i] IN
    /\ e.to <= l1
    /\ \A n \in Heights : e.lines[n].era \in {NoEra, HashAt(n)}
    /\ \A n \in 1..Len(chain) :
         e.from <= n /\ n <= e.to /\ chain[n].kind \in Eventful =>
           e.lines[n].era # NoEra /\ e.lines[n].evs

(***************************************************************************)
(* A row counts as final only on the chain: what the tail publishes with   *)
(* "fin":"l1" and what stops a walkback without asking the chain is a      *)
(* canonical block at or below the true L1 height.                         *)
(***************************************************************************)
FinalRowsCanonical ==
  pc # "rollback" => \A n \in Stored :
    blocks[n].fin /\ n <= l1Meta => n <= l1 /\ blocks[n].era = HashAt(n)

(***************************************************************************)
(* One recovery attempt per divergence, crashes included: begin_attempt    *)
(* records it before any work, and only a passing verify-root clears it.   *)
(***************************************************************************)
OneAttempt == closures <= 1

(***************************************************************************)
(* The indexer implements the append-only log of FeedLog: no crash, reorg, *)
(* stale finality answer or repair withdraws, rewrites or skips an epoch,  *)
(* cuts one above the final height (cut_ready_epochs), or lowers it.       *)
(***************************************************************************)
Feed == INSTANCE FeedLog WITH Size <- EpochSize, First <- FirstEpoch,
                              log <- epochs, final <- l1Meta
ImplementsFeedLog == Feed!Spec

(***************************************************************************)
(* No snapshot is published between a recovery attempt and the next        *)
(* verify-root that passes, whatever epochs are cut meanwhile and however  *)
(* often the process restarts (maybe_publish_snapshot's latch check).      *)
(***************************************************************************)
SnapshotGate == [][snapshots' # snapshots => closures = 0]_vars

(***************************************************************************)
(* When every proof request is answered and no write is masked by a later  *)
(* one, the verify-root gate and the recovery loop together keep every     *)
(* hole out of the feed: an epoch holds each block that wrote to the pool, *)
(* the eventless ones an events-first scan cannot see included.            *)
(***************************************************************************)
NoHolePublished ==
  \A i \in 1..Len(epochs) : \A n \in ChainWriters :
    epochs[i].from <= n /\ n <= epochs[i].to => epochs[i].lines[n].era = chain[n].era

(***************************************************************************)
(* Every epoch whose range is final is eventually cut.                     *)
(***************************************************************************)
FinalEpochsCut ==
  \A k \in 1..MaxHeight :
    (EpochTo(FirstEpoch + k - 1) <= l1) ~> (k <= Len(epochs))
=============================================================================
