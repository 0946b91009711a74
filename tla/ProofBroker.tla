---------------------------- MODULE ProofBroker ----------------------------
(***************************************************************************)
(* Storage proofs from the node to a worker: the publisher's shared broker *)
(* (indexerd/src/proofs.rs: one task per block, a bounded number of them,  *)
(* a generation that a reorganisation bumps), the hub and the HTTP         *)
(* endpoint that pass its results on (live.rs, server.rs), and the         *)
(* worker's source of proofs (checkpoint.ts), which waits for the stream   *)
(* before it asks over HTTP.                                               *)
(*                                                                         *)
(* A chain is the sequence of the eras of its blocks; the proof of a block *)
(* is the prefix that ends with it.  The head's way to the worker is       *)
(* LiveHub.                                                                *)
(***************************************************************************)
EXTENDS Naturals, FiniteSets, SequencesExt

CONSTANTS
  MaxHeight,   \* bound: the tallest chain explored
  MaxReorgs,   \* bound: reorganisations of the node
  Slots,       \* permits of the semaphore
  MaxEntries,  \* entries kept
  Window       \* feed_proof: how far below the head a proof may be asked for

VARIABLES
  node,        \* chain of the RPC node
  era,         \* era of the node's new blocks
  mirror,      \* chain in the publisher's database
  pc,          \* the main loop: "wait" or a step of what follows a cycle
  gen,         \* Proofs.generation
  entries,     \* Proofs.entries: block -> task whose channel it is, 0 if none
  task,        \* the spawned tasks and their watch channels
  shown,       \* FeedState.proof of the hub
  heard,       \* proof last sent on the worker's connection, None without one
  live,        \* CheckpointSource.live: the stream is up
  proofs,      \* CheckpointSource.proofs
  want         \* the worker's pending acquisition

chainVars  == <<node, era>>
brokerVars == <<gen, entries, task>>
workerVars == <<heard, live, proofs, want>>
vars == <<chainVars, mirror, pc, brokerVars, shown, workerVars>>

ASSUME BrokerAssumption ==
  /\ MaxHeight \in Nat \ {0} /\ MaxReorgs \in Nat
  /\ Slots \in Nat \ {0} /\ MaxEntries \in Nat \ {0} /\ Window \in Nat

TaskIds == 1..(Slots + MaxEntries)
Blocks  == 1..MaxHeight
None    == {}
Reset   == <<0>>   \* no proof: eras start at 1
Failed  == <<>>
ProofAt(chain, b) == SubSeq(chain, 1, b)

(***************************************************************************)
(* A task: "free" stands for no task; then "fetch" while it waits for the  *)
(* RPC, "fetched" with a result in hand, "checked" once the generation has *)
(* been compared, "done" when its channel holds the result.                *)
(***************************************************************************)
Free == [step |-> "free", block |-> 0, gen |-> 0, result |-> None]
Running == {t \in TaskIds : task[t].step \in {"fetch", "fetched", "checked"}}
Kept == {b \in Blocks : entries[b] # 0}
Completed == {b \in Kept : task[entries[b]].step = "done"}

(***************************************************************************)
(* The acquisition: no block, or a block and where it waits ("stream",     *)
(* "http", or on the channel of a task).                                   *)
(***************************************************************************)
Idle == [step |-> "idle", block |-> 0, on |-> 0]

Init ==
  /\ node = <<1>> /\ era = 1 /\ mirror = <<>> /\ pc = "wait"
  /\ gen = 0 /\ entries = [b \in Blocks |-> 0] /\ task = [t \in TaskIds |-> Free]
  /\ shown = None
  /\ heard = None /\ live = FALSE /\ proofs = {}
  /\ want = Idle
-----------------------------------------------------------------------------
NodeGrows ==
  /\ Len(node) < MaxHeight
  /\ node' = Append(node, era)
  /\ UNCHANGED era
NodeReorgs(kept) ==
  /\ era <= MaxReorgs
  /\ kept < Len(node)
  /\ era' = era + 1
  /\ node' = Append(SubSeq(node, 1, kept), era + 1)
NodeStep ==
  /\ NodeGrows \/ \E kept \in 0..(MaxHeight - 1) : NodeReorgs(kept)
  /\ UNCHANGED <<mirror, pc, brokerVars, shown, workerVars>>

(***************************************************************************)
(* request: the entry of the block, or a task for it if a permit is free   *)
(* and, with the table full, a completed entry can make room (the lowest   *)
(* goes).  A task whose channel nobody reads any more is gone.             *)
(***************************************************************************)
Evicted ==
  IF Cardinality(Kept) < MaxEntries THEN {}
  ELSE {b \in Completed : \A c \in Completed : b <= c}
CanStart(b) ==
  /\ entries[b] = 0
  /\ Cardinality(Running) < Slots
  /\ Cardinality(Kept \ Evicted) < MaxEntries
NewTask == LET unused == {t \in TaskIds : task[t].step = "free"}
           IN  CHOOSE t \in unused : \A u \in unused : t <= u
Start(b) ==
  /\ entries' = [c \in Blocks |-> IF c = b THEN NewTask
                                  ELSE IF c \in Evicted THEN 0 ELSE entries[c]]
  /\ task' = [t \in TaskIds |->
       IF t = NewTask THEN [step |-> "fetch", block |-> b, gen |-> gen, result |-> None]
       ELSE IF t \in {entries[c] : c \in Evicted} THEN Free
       ELSE task[t]]
  /\ UNCHANGED gen
Request(b) == IF CanStart(b) THEN Start(b) ELSE UNCHANGED brokerVars

(***************************************************************************)
(* A task's steps.  Retries while the block is not there yet are inside    *)
(* the fetch; an error or the deadline may end it at any time.             *)
(***************************************************************************)
SetTask(t, step, result) ==
  task' = [task EXCEPT ![t] = [@ EXCEPT !.step = step, !.result = {result}]]
TaskAnswered(t) ==
  /\ task[t].step = "fetch"
  /\ task[t].block <= Len(node)
  /\ SetTask(t, "fetched", ProofAt(node, task[t].block))
  /\ UNCHANGED <<gen, entries, shown, want>>
TaskFails(t) ==
  /\ task[t].step = "fetch"
  /\ SetTask(t, "fetched", Failed)
  /\ UNCHANGED <<gen, entries, shown, want>>

(***************************************************************************)
(* A channel is kept by the table; the reader that waits on it takes the   *)
(* result as it is sent.                                                   *)
(***************************************************************************)
Answer(result) ==
  IF result = Failed THEN UNCHANGED proofs
  ELSE proofs' = {q \in proofs : Len(q) # Len(result)} \cup {result}
Deliver(t, result) ==
  IF want.step = "channel" /\ want.on = t
  THEN want' = Idle /\ Answer(result)
  ELSE UNCHANGED <<want, proofs>>
Finish(t, kept, result) ==
  /\ entries' = kept
  /\ task' = [task EXCEPT ![t] = IF \E b \in Blocks : kept[b] = t
                                 THEN [@ EXCEPT !.step = "done", !.result = {result}]
                                 ELSE Free]
  /\ Deliver(t, result)
WithoutOwn(t) == [b \in Blocks |-> IF entries[b] = t THEN 0 ELSE entries[b]]
TaskChecks(t) ==
  /\ task[t].step = "fetched"
  /\ \/ /\ task[t].gen # gen
        /\ Finish(t, entries, Failed)
     \/ /\ task[t].gen = gen /\ task[t].result = {Failed}
        /\ Finish(t, WithoutOwn(t), Failed)
     \/ /\ task[t].gen = gen /\ task[t].result # {Failed}
        /\ task' = [task EXCEPT ![t].step = "checked"]
        /\ UNCHANGED <<entries, want, proofs>>
  /\ UNCHANGED <<gen, shown>>
TaskShows(t) ==
  /\ task[t].step = "checked"
  /\ shown' = task[t].result
  /\ \E p \in task[t].result : Finish(t, entries, p)
  /\ UNCHANGED gen
TaskStep(t) ==
  /\ \/ (TaskAnswered(t) \/ TaskFails(t)) /\ UNCHANGED proofs
     \/ TaskChecks(t)
     \/ TaskShows(t)
  /\ UNCHANGED <<chainVars, mirror, pc, heard, live>>
-----------------------------------------------------------------------------
(***************************************************************************)
(* A cycle that takes in the node's chain; if blocks were given up,        *)
(* invalidate_proofs: the generation, the table, then the reset is shown.  *)
(* refresh asks for the head's proof.                                      *)
(***************************************************************************)
Cycle ==
  /\ pc = "wait"
  /\ mirror # node
  /\ mirror' = node
  /\ pc' = IF IsPrefix(mirror, node) THEN "refresh" ELSE "invalidate"
  /\ UNCHANGED <<chainVars, brokerVars, shown, workerVars>>
GoTo(p, q) == pc = p /\ pc' = q /\ UNCHANGED <<chainVars, mirror, workerVars>>
BumpGeneration ==
  /\ GoTo("invalidate", "clear")
  /\ gen' = gen + 1
  /\ UNCHANGED <<entries, task, shown>>
\* Mutant: the table outlives the reorganisation.
ClearEntriesKept == GoTo("clear", "reset") /\ UNCHANGED <<brokerVars, shown>>
ClearEntries ==
  /\ GoTo("clear", "reset")
  /\ entries' = [b \in Blocks |-> 0]
  /\ task' = [t \in TaskIds |-> IF task[t].step = "done" THEN Free ELSE task[t]]
  /\ UNCHANGED <<gen, shown>>
ShowReset ==
  /\ GoTo("reset", "refresh")
  /\ shown' = {Reset}
  /\ UNCHANGED brokerVars
Refresh ==
  /\ GoTo("refresh", "wait")
  /\ Request(Len(mirror))
  /\ UNCHANGED shown
LoopStep == Cycle \/ BumpGeneration \/ ClearEntries \/ ShowReset \/ Refresh

-----------------------------------------------------------------------------
(***************************************************************************)
(* The stream comes up (refresh on connect asks for the head's proof),     *)
(* goes down, or shows the hub's proof.  A reset forgets every proof and   *)
(* aborts the acquisition.                                                 *)
(***************************************************************************)
Connect ==
  /\ ~live
  /\ live' = TRUE
  /\ IF mirror = <<>> THEN UNCHANGED brokerVars ELSE Request(Len(mirror))
  /\ UNCHANGED <<chainVars, mirror, pc, shown, heard, proofs, want>>
Disconnect ==
  /\ live
  /\ live' = FALSE /\ heard' = None
  /\ UNCHANGED <<chainVars, mirror, pc, brokerVars, shown, proofs, want>>
HearProof ==
  /\ live
  /\ heard # shown
  /\ heard' = shown
  /\ \E p \in shown :
       IF p = Reset THEN proofs' = {} /\ want' = Idle
       ELSE Answer(p) /\ UNCHANGED want
  /\ UNCHANGED <<chainVars, mirror, pc, brokerVars, shown, live>>

(***************************************************************************)
(* CheckpointSource.proof: a proof in hand is used; a healthy stream is    *)
(* waited for unless it is known to be past the block (liveHead and        *)
(* proofHead, either way here); then HTTP.                                 *)
(***************************************************************************)
Has(b) == \E p \in proofs : Len(p) = b
Acquire(b) ==
  /\ want = Idle
  /\ ~Has(b)
  /\ \E step \in IF live THEN {"stream", "http"} ELSE {"http"} :
       want' = [step |-> step, block |-> b, on |-> 0]
  /\ UNCHANGED <<chainVars, mirror, pc, brokerVars, shown, heard, live, proofs>>
StopWaiting ==
  /\ want.step = "stream"
  /\ want' = IF Has(want.block) THEN Idle ELSE [want EXCEPT !.step = "http"]
  /\ UNCHANGED <<chainVars, mirror, pc, brokerVars, shown, heard, live, proofs>>
\* Mutant: the wait has no timer.
StreamWaitNotified == (Has(want.block) \/ ~live) /\ StopWaiting
StreamWaitEnds == StopWaiting   \* notified, or the timer of 5 s

(***************************************************************************)
(* feed_proof for the worker: 410 outside the window (it turns to its own  *)
(* RPC), 503 when no task can be started, otherwise the channel, whose     *)
(* result may be there already.                                            *)
(***************************************************************************)
InWindow(b) == b <= Len(mirror) /\ Len(mirror) - b <= Window
HttpProof ==
  /\ want.step = "http"
  /\ LET b == want.block
         t == IF entries[b] # 0 THEN entries[b] ELSE NewTask
     IN  IF ~InWindow(b) \/ (entries[b] = 0 /\ ~CanStart(b))
         THEN /\ want' = Idle
              /\ UNCHANGED <<brokerVars, proofs>>
         ELSE IF b \in Completed
         THEN /\ want' = Idle
              /\ \E r \in task[t].result : Answer(r)
              /\ UNCHANGED brokerVars
         ELSE /\ Request(b)
              /\ want' = [want EXCEPT !.step = "channel", !.on = t]
              /\ UNCHANGED proofs
  /\ UNCHANGED <<chainVars, mirror, pc, shown, heard, live>>
-----------------------------------------------------------------------------
Next ==
  \/ NodeStep
  \/ LoopStep
  \/ \E t \in TaskIds : TaskStep(t)
  \/ Connect
  \/ Disconnect
  \/ HearProof
  \/ \E b \in Blocks : Acquire(b)
  \/ StreamWaitEnds
  \/ HttpProof
Spec == Init /\ [][Next]_vars

(***************************************************************************)
(* A task ends by its deadline of 20 s, a wait on the stream by its timer, *)
(* an HTTP request is answered, and the main loop never stops.             *)
(***************************************************************************)
BrokerSpec ==
  /\ Spec
  /\ WF_vars(LoopStep)
  /\ \A t \in TaskIds : WF_vars(TaskStep(t))
  /\ WF_vars(StreamWaitEnds)
  /\ WF_vars(HttpProof)
-----------------------------------------------------------------------------
(***************************************************************************)
(* Once the loop has taken in what the node has, no reader is served the   *)
(* proof of a block that is not the chain's: an invalidation leaves no     *)
(* result of an earlier generation in the table, whatever the tasks of     *)
(* that generation still do (Proofs.invalidate).                           *)
(***************************************************************************)
ServedProofsCurrent ==
  pc = "wait" /\ mirror = node =>
    \A b \in Completed : \A p \in task[entries[b]].result \ {Failed} : IsPrefix(p, node)

(***************************************************************************)
(* The worker's wait for a proof ends, whether the stream is up, missed    *)
(* the block, lost a reset to coalescing or went down, and whatever        *)
(* becomes of the task whose channel it shares.                            *)
(***************************************************************************)
AcquisitionEnds == want # Idle ~> want = Idle
=============================================================================
