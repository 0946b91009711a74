------------------------------- MODULE Ingest -------------------------------
(***************************************************************************)
(* One ingest cycle (indexerd/src/ingest.rs, run_cycle_bound).  Every step *)
(* is one exchange with the RPC endpoints or one database transaction, so  *)
(* the chain may move, a call may fail and the process may die between any *)
(* two of them.                                                            *)
(***************************************************************************)
EXTENDS Db

CONSTANTS
  TailSpan,     \* TAIL_STATE_DIFF_SPAN: gap above which the scan is events-first
  Batch,        \* blocks per tail batch (8 in the code)
  Segment,      \* SCAN_SEGMENT: blocks per checkpointed scan segment
  MaxLag,       \* bound: how many blocks an endpoint may trail the tip
  Feeder,       \* a feeder gateway is configured and may supply the head block
  WrongLabels,  \* TRUE: an endpoint may mislabel a header's finality status
  HighAnswers,  \* TRUE: an endpoint may present a block above the true final
                \* height as the L1-accepted one, labelled so or unlabelled
  LateNotice    \* TRUE: the loop may read an abandoned block's header after the
                \* reorganisation, before the subscription's notice of it

VARIABLES
  stale,        \* headers of abandoned blocks the head subscription may still
                \* hand to the loop, the notice of the reorganisation being late
  pc,           \* next step of the main loop
  latest,       \* header this cycle ingests up to
  announced,    \* header the canonicity check starts from
  supplied,     \* the feeder supplied latest with its events and state update
  reorg,        \* {} or {ancestor}: answer of detect_reorg
  deep,         \* this cycle scans events-first
  winEnd,       \* last block of the batch or segment in progress
  active,       \* scan_active_blocks: height -> era of the events it returned
  updates       \* state updates of a tail batch: height -> [era, kind]

cycleVars == <<pc, latest, announced, supplied, reorg, deep, winEnd, active, updates>>

ASSUME IngestAssumption ==
  /\ TailSpan \in Nat
  /\ Batch \in Nat \ {0}
  /\ Segment \in Nat \ {0}
  /\ MaxLag \in Nat
  /\ Feeder \in BOOLEAN
  /\ WrongLabels \in BOOLEAN
  /\ HighAnswers \in BOOLEAN
  /\ LateNotice \in BOOLEAN

PollPhase   == {"idle", "detect", "rollback"}
IngestPhase == {"scan", "update", "ingest", "finish"}
CutPhase    == {"verify", "mismatch", "walk", "repair", "cut", "snapshot"}
Phases      == PollPhase \cup IngestPhase \cup CutPhase

(***************************************************************************)
(* What a cycle holds in memory, forgotten when it ends, fails or dies.    *)
(***************************************************************************)
NoUpdates == [n \in Heights |-> [era |-> NoEra, kind |-> "quiet"]]
Volatile(p) ==
  /\ pc' = p
  /\ latest' = NoHeader /\ announced' = NoHeader /\ supplied' = FALSE
  /\ reorg' = {} /\ deep' = FALSE /\ winEnd' = 0
  /\ active' = Never /\ updates' = NoUpdates
Abort == Volatile("idle") /\ UNCHANGED dbVars

IngestInit ==
  /\ stale = {}
  /\ pc = "idle" /\ latest = NoHeader /\ announced = NoHeader
  /\ supplied = FALSE /\ reorg = {} /\ deep = FALSE /\ winEnd = 0
  /\ active = Never /\ updates = NoUpdates

(***************************************************************************)
(* Endpoints trail the tip by up to MaxLag blocks.                         *)
(***************************************************************************)
Visible == {v \in Heights : v <= Len(chain) /\ Len(chain) <= v + MaxLag}

(***************************************************************************)
(* The head subscription.  Its watch channel holds the header announced    *)
(* last, by an endpoint that trails the tip as the others do; an abandoned *)
(* block's header may be read until the notice of the reorganisation (or   *)
(* the ACK of a reconnection) has replaced it by None.                     *)
(***************************************************************************)
Announcements == {HeaderAt(n) : n \in Visible} \cup stale
Abandoned(a) ==
  stale' = IF LateNotice THEN stale \cup {HeaderAt(n) : n \in {v \in Visible : a < v}}
           ELSE {}
ReorgNotice ==
  /\ stale # {} /\ stale' = {}
  /\ UNCHANGED chainVars

(***************************************************************************)
(* The head poll of a loop that has read no header (polling mode, None in  *)
(* the channel, demanded catch-up): an endpoint's own head, from which the *)
(* canonicity check starts too.                                            *)
(***************************************************************************)
PollHead(v, s) ==
  /\ pc = "idle"
  /\ v \in Visible
  /\ (s => Feeder)
  /\ latest' = HeaderAt(v)
  /\ announced' = HeaderAt(v)
  /\ supplied' = s
  /\ pc' = "detect"
  /\ UNCHANGED <<stale, reorg, deep, winEnd, active, updates, dbVars>>

(***************************************************************************)
(* The head poll for an announced header h: its height is asked of the     *)
(* feeder and of an endpoint at v; where neither has it, the head w of an  *)
(* endpoint is taken instead.  Only a block of h's own height is compared  *)
(* with h, and if it is another block the cycle fails.                     *)
(***************************************************************************)
Served(h, v, w, s) == HeaderAt(IF s \/ h.num <= v THEN h.num ELSE w)
Contradicts(b, h) == b.num = h.num /\ b # h
PollAnnounced(h, v, w, s) ==
  /\ pc = "idle"
  /\ v \in Visible /\ w \in Visible
  /\ (s => Feeder /\ h.num <= Len(chain))
  /\ stale' = stale \ {h}
  /\ IF Contradicts(Served(h, v, w, s), h)
     THEN UNCHANGED cycleVars
     ELSE /\ latest' = Served(h, v, w, s)
          /\ announced' = h
          /\ supplied' = s
          /\ pc' = "detect"
          /\ UNCHANGED <<reorg, deep, winEnd, active, updates>>
  /\ UNCHANGED dbVars

(***************************************************************************)
(* detect_reorg against an endpoint at height v: r = {} when the stored    *)
(* head stands, otherwise r holds the highest stored block above the epoch *)
(* floor that is final or still canonical, or the floor itself.            *)
(***************************************************************************)
\* Mutant: the next block confirms the head whatever its parent.
HeadConfirmedByNext(h) == h.num \in {head.num, head.num + 1}
HeadConfirmedBy(h) ==
  \/ h.num = head.num /\ h.era = head.era
  \/ h.num = head.num + 1 /\ h.parent = head.era
HeadGone(v) == ~(head.num <= v /\ HashAt(head.num) = head.era)
\* Mutant: the walkback runs down to the bottom instead of the floor.
WalkbackToBottom(v) ==
  {0} \cup {n \in Stored : n <= head.num /\ n <= v /\ HashAt(n) = blocks[n].era}
WalkbackStops(v) ==
  {Floor} \cup {n \in Stored :
     /\ Floor < n /\ n <= head.num
     /\ \/ blocks[n].fin /\ n <= l1Meta
        \/ n <= v /\ HashAt(n) = blocks[n].era}
DetectReorg(v, r) ==
  IF head = NoHead \/ HeadConfirmedBy(announced) \/ ~HeadGone(v)
  THEN r = {}
  ELSE \E a \in WalkbackStops(v) :
         /\ \A b \in WalkbackStops(v) : b <= a
         /\ r = {a}

(***************************************************************************)
(* l1_answer_rejection, and the answers an endpoint gives: status "l1" is  *)
(* ACCEPTED_ON_L1, "other" a status that is not, "none" no status at all,  *)
(* which leaves the decision to the ranges.  An answer that does not say   *)
(* "other" is any true or stale final height, or too high a one.           *)
(***************************************************************************)
L1Answers ==
  [num : 0..Len(chain), status : {"other"}] \cup
  [num : 0..(IF HighAnswers THEN Len(chain) ELSE l1), status : {"l1", "none"}]
\* Mutants: the status is not looked at; the height may fall.
L1RejectedUnlabelled(ans) == ans.num > latest.num \/ ans.num < l1Meta \/ ans.num < Genesis
L1RejectedNoRatchet(ans) == ans.status = "other" \/ ans.num > latest.num \/ ans.num < Genesis
L1Rejected(ans) ==
  \/ ans.status = "other"
  \/ ans.num > latest.num
  \/ ans.num < l1Meta
  \/ ans.num < Genesis

(***************************************************************************)
(* Canonicity check, then the finality poll's answer is persisted and the  *)
(* stored rows at or below it are promoted.                                *)
(***************************************************************************)
Detect(v, ans) ==
  /\ pc = "detect"
  /\ v \in Visible
  /\ \E r \in {{}} \cup {{a} : a \in 0..MaxHeight} :
       /\ DetectReorg(v, r)
       /\ IF r = {} /\ latest.num < frontier
          THEN Abort
          ELSE /\ reorg' = r
               /\ pc' = "rollback"
               /\ IF L1Rejected(ans)
                  THEN UNCHANGED <<l1Meta, blocks>>
                  ELSE /\ l1Meta' = ans.num
                       /\ blocks' = PromoteL1(blocks, ans.num)
               /\ UNCHANGED <<latest, announced, supplied, deep, winEnd, active,
                              updates, frontier, head, classes, anchors, epochs,
                              snapshots, probe, latch, recorded>>

Rollback ==
  /\ pc = "rollback"
  /\ IF reorg = {} THEN UNCHANGED dbVars ELSE \E a \in reorg : RollbackAbove(a)
  /\ deep' = (latest.num - frontier' > TailSpan)
  /\ pc' = IF frontier' < latest.num THEN "scan" ELSE "finish"
  /\ reorg' = {}
  /\ announced' = NoHeader
  /\ UNCHANGED <<latest, supplied, winEnd, active, updates>>

(***************************************************************************)
(* scan_active_blocks over the next batch or segment; the supplied block's *)
(* events come from the feeder.                                            *)
(***************************************************************************)
\* Mutant: the window is not clamped to the head.
WindowUnclamped == frontier + (IF deep THEN Segment ELSE Batch)
WindowEnd ==
  LET e == frontier + (IF deep THEN Segment ELSE Batch)
  IN  IF e < latest.num THEN e ELSE latest.num
FromFeeder(n) == supplied /\ ~deep /\ n = latest.num
Answered(n) == FromFeeder(n) \/ n <= Len(chain)
UpdateOf(n) ==
  IF FromFeeder(n) THEN [era |-> latest.era, kind |-> latest.kind] ELSE chain[n]
HasEvents(n) == Answered(n) /\ UpdateOf(n).kind \in Eventful
Scan ==
  /\ pc = "scan"
  /\ winEnd' = WindowEnd
  /\ active' = [n \in Heights |->
                  IF frontier < n /\ n <= WindowEnd /\ HasEvents(n)
                  THEN UpdateOf(n).era ELSE NoEra]
  /\ pc' = IF deep THEN "ingest" ELSE "update"
  /\ UNCHANGED <<latest, announced, supplied, reorg, deep, updates, dbVars>>

(***************************************************************************)
(* get_state_update for every block of a tail batch; the blocks with pool  *)
(* events or pool writes are kept.  A block that is gone fails the cycle.  *)
(***************************************************************************)
FetchUpdates ==
  /\ pc = "update"
  /\ IF \E n \in (frontier + 1)..winEnd : ~Answered(n)
     THEN Abort
     ELSE /\ updates' = [n \in Heights |->
                           IF /\ frontier < n /\ n <= winEnd
                              /\ active[n] # NoEra \/ UpdateOf(n).kind \in Writing
                           THEN UpdateOf(n) ELSE NoUpdates[n]]
          /\ pc' = "ingest"
          /\ UNCHANGED <<latest, announced, supplied, reorg, deep, winEnd, active, dbVars>>

(***************************************************************************)
(* store_block for the lowest block left: the header is read now (in the   *)
(* tail the last block's header is latest itself), and the state update    *)
(* and the events must carry its hash, or the cycle fails.                 *)
(***************************************************************************)
Todo == {n \in Heights : IF deep THEN active[n] # NoEra ELSE updates[n].era # NoEra}
HeaderHash(n) == IF ~deep /\ n = latest.num THEN latest.era ELSE HashAt(n)
Statuses(n) == IF WrongLabels THEN BOOLEAN ELSE {n <= l1}
StoreBlock ==
  /\ pc = "ingest"
  /\ \E n \in Todo :
       /\ \A k \in Todo : n <= k
       /\ LET hash == HeaderHash(n)
              update == IF deep THEN chain[n] ELSE updates[n]
          IN  IF \/ hash = NoEra
                 \/ update.era # hash
                 \/ active[n] \notin {NoEra, hash}
              THEN Abort
              ELSE /\ \E fin \in Statuses(n) :
                        InsertBlockData(n, [era |-> hash, kind |-> update.kind,
                                            fin |-> fin, evs |-> active[n] # NoEra])
                   /\ active' = [active EXCEPT ![n] = NoEra]
                   /\ updates' = [updates EXCEPT ![n] = NoUpdates[n]]
                   /\ UNCHANGED <<pc, latest, announced, supplied, reorg, deep, winEnd>>

(***************************************************************************)
(* set_ingest_cursor at the end of a batch or segment.                     *)
(***************************************************************************)
Checkpoint ==
  /\ pc = "ingest"
  /\ Todo = {}
  /\ frontier' = winEnd
  /\ pc' = IF winEnd = latest.num THEN "finish" ELSE "scan"
  /\ winEnd' = 0
  /\ UNCHANGED <<latest, announced, supplied, reorg, deep, active, updates,
                 blocks, head, l1Meta, classes, anchors, epochs, snapshots, probe,
                 latch, recorded>>

(***************************************************************************)
(* Head meta is written last, then the rows of this cycle are promoted.    *)
(***************************************************************************)
Finish ==
  /\ pc = "finish"
  /\ head' = [num |-> latest.num, era |-> latest.era]
  /\ blocks' = PromoteL1(blocks, l1Meta)
  /\ Volatile("verify")
  /\ UNCHANGED <<frontier, l1Meta, classes, anchors, epochs, snapshots, probe,
                 latch, recorded>>

IngestTypeOK ==
  /\ pc \in Phases
  /\ latest \in Header /\ announced \in Header
  /\ supplied \in BOOLEAN /\ deep \in BOOLEAN
  /\ reorg \in {{}} \cup {{a} : a \in 0..MaxHeight}
  /\ winEnd \in 0..MaxHeight
  /\ active \in [Heights -> Hashes]
  /\ updates \in [Heights -> [era : Hashes, kind : AllKinds]]
=============================================================================
