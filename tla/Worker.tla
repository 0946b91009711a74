------------------------------- MODULE Worker -------------------------------
(***************************************************************************)
(* The browser worker (ts/strk20-discovery/src/worker.ts) around the WASM  *)
(* engine (crates/wasm): live events that arrive while a sync waits for    *)
(* the network, one job at a time with reads before live updates, staged   *)
(* artifacts that replace the verified store only when the root of an      *)
(* independent checkpoint agrees.                                          *)
(*                                                                         *)
(* A chain is the sequence of the eras of its blocks, a block hash the     *)
(* prefix that ends with the block.  Epochs hold final blocks, so an       *)
(* epoch's number names its content.  The events are those LiveHub shows   *)
(* to be delivered; the proofs of ProofBroker are part of the checkpoint.  *)
(***************************************************************************)
EXTENDS Naturals, FiniteSetsExt, SequencesExt

CONSTANTS
  MaxHeight,   \* bound: the tallest chain explored
  MaxReorgs,   \* bound: reorganisations
  MaxCuts,     \* bound: epochs cut
  EpochSize,   \* ChainConfig.epoch_size
  MaxQueued,   \* epochs queued before the worker falls back to HTTP (4)
  MaxInline,   \* blocks of a tail that an event carries
  MaxWire,     \* bound: events under way
  MaxFaults,   \* bound: requests that fail
  MaxReads     \* bound: reads that name a block

VARIABLES
  chain,       \* the published chain
  era,         \* era of its new blocks
  cuts,        \* epochs published
  sent,        \* what the stream last sent
  wire,        \* events under way, in order
  manifest,    \* this.manifest, None before the first
  queuedHead,  \* this.queuedHead
  queuedEpochs,\* keys of this.queuedEpochs
  needsCatchup,
  headStaged,
  requested,   \* this.requestedBlock, 0 if none
  liveQueued,  \* a live update is queued
  job,         \* the job in progress
  outcome,     \* how the last job ended
  prepared,    \* CheckpointSource.pending: the checkpoint asked for ahead
  staged,      \* Engine.feed: the staged head, None before the first
  store,       \* Engine.store: chain folded, epochs applied, checkpoint verified
  failed,      \* Engine.failed
  faults,
  reads

feedVars   == <<chain, era, cuts>>
streamVars == <<sent, wire>>
queueVars  == <<queuedHead, queuedEpochs, needsCatchup, liveQueued>>
syncVars   == <<manifest, headStaged, requested, job, outcome, prepared>>
engineVars == <<staged, store, failed>>
boundVars  == <<faults, reads>>
vars == <<feedVars, streamVars, queueVars, syncVars, engineVars, boundVars>>

ASSUME WorkerAssumption ==
  /\ MaxHeight \in Nat \ {0} /\ MaxReorgs \in Nat /\ MaxCuts \in Nat
  /\ EpochSize \in Nat \ {0} /\ MaxQueued \in Nat \ {0} /\ MaxWire \in Nat \ {0}
  /\ MaxFaults \in Nat /\ MaxReads \in Nat /\ MaxInline \in Nat

None == {}
HeadFile == [from |-> cuts * EpochSize + 1, chain |-> chain]
Manifest == [epochs |-> cuts, head |-> Len(chain)]
NoJob    == [kind |-> "none", step |-> "none", block |-> 0, retry |-> 0, cp |-> <<>>]
\* The worker is opened with no cache: init runs a sync of its own.
Opening  == [NoJob EXCEPT !.kind = "live", !.step = "manifest"]

Init ==
  /\ chain = <<1>> /\ era = 1 /\ cuts = 0
  /\ sent = [head |-> None, epoch |-> 0] /\ wire = <<>>
  /\ manifest = None /\ queuedHead = None /\ queuedEpochs = {}
  /\ needsCatchup = TRUE /\ headStaged = FALSE /\ requested = 0 /\ liveQueued = FALSE
  /\ job = Opening /\ outcome = "none" /\ prepared = None
  /\ staged = None
  /\ store = [chain |-> <<>>, epochs |-> 0, verified |-> <<>>]
  /\ failed = FALSE
  /\ faults = 0 /\ reads = 0
-----------------------------------------------------------------------------
(***************************************************************************)
(* The publisher: a block, a reorganisation above the epochs, a cut.       *)
(***************************************************************************)
Grow ==
  /\ Len(chain) < MaxHeight
  /\ chain' = Append(chain, era)
  /\ UNCHANGED <<era, cuts>>
Reorg(kept) ==
  /\ era <= MaxReorgs
  /\ cuts * EpochSize <= kept /\ kept < Len(chain)
  /\ era' = era + 1
  /\ chain' = Append(SubSeq(chain, 1, kept), era + 1)
  /\ UNCHANGED cuts
Cut ==
  /\ cuts < MaxCuts
  /\ (cuts + 1) * EpochSize <= Len(chain)
  /\ cuts' = cuts + 1
  /\ UNCHANGED <<chain, era>>
Publish ==
  /\ Grow \/ Cut \/ \E kept \in 0..(MaxHeight - 1) : Reorg(kept)
  /\ UNCHANGED <<streamVars, queueVars, syncVars, engineVars, boundVars>>

(***************************************************************************)
(* The stream shows the latest epoch and head, coalesced; what is under    *)
(* way when it ends is lost and the next one starts over.  An epoch over   *)
(* the inline limit, or whose file cannot be read, is shown without its    *)
(* payload.  A client subscribes once the worker is ready.                 *)
(***************************************************************************)
EpochEvents ==
  IF sent.epoch = cuts THEN {<<>>}
  ELSE {<<[name |-> "epoch", epoch |-> cuts, whole |-> w]>> : w \in BOOLEAN}
HeadEvents == IF sent.head = {HeadFile} THEN <<>> ELSE <<[name |-> "head", head |-> HeadFile]>>
StreamTurn ==
  /\ store.verified # <<>>
  /\ Len(wire) < MaxWire
  /\ sent # [head |-> {HeadFile}, epoch |-> cuts]
  /\ sent' = [head |-> {HeadFile}, epoch |-> cuts]
  /\ \E epochs \in EpochEvents : wire' = wire \o epochs \o HeadEvents
  /\ UNCHANGED <<feedVars, queueVars, syncVars, engineVars, boundVars>>
StreamLost ==
  /\ faults < MaxFaults /\ faults' = faults + 1
  /\ wire # <<>>
  /\ wire' = <<>> /\ sent' = [head |-> None, epoch |-> 0]
  /\ UNCHANGED <<feedVars, queueVars, syncVars, engineVars, reads>>

(***************************************************************************)
(* The epoch and head events of subscribe.  An epoch without its payload   *)
(* is passed over: nothing is queued and no catch-up is asked for.         *)
(***************************************************************************)
EpochEvent(ev) ==
  LET queued == queuedEpochs \cup {e \in {ev.epoch} : ev.whole}
  IN  /\ queuedEpochs' = IF Cardinality(queued) > MaxQueued THEN {} ELSE queued
      /\ needsCatchup' = (needsCatchup \/ Cardinality(queued) > MaxQueued)
      /\ UNCHANGED <<queuedHead, liveQueued>>
Inline(h) == Len(h.chain) < h.from + MaxInline
\* Mutant: a head that arrives during a live update asks for no other.
HeadEventDuringJob(h) ==
  /\ queuedHead' = {h}
  /\ needsCatchup' = (needsCatchup \/ ~Inline(h))
  /\ liveQueued' = (liveQueued \/ job.kind # "live")
  /\ UNCHANGED queuedEpochs
HeadEvent(h) ==
  /\ queuedHead' = {h}
  /\ needsCatchup' = (needsCatchup \/ ~Inline(h))
  /\ liveQueued' = TRUE
  /\ UNCHANGED queuedEpochs
Receive ==
  /\ wire # <<>>
  /\ wire' = Tail(wire)
  /\ LET ev == Head(wire)
     IN  IF ev.name = "epoch" THEN EpochEvent(ev) ELSE HeadEvent(ev.head)
  /\ UNCHANGED <<feedVars, sent, syncVars, engineVars, boundVars>>
-----------------------------------------------------------------------------
(***************************************************************************)
(* CheckpointSource.prepare asks for one checkpoint ahead; the answer is   *)
(* the block the chain has at that height, if any.                         *)
(***************************************************************************)
At(b) == {SubSeq(chain, 1, n) : n \in {b} \cap 1..Len(chain)}
Prepare(b) ==
  prepared' = IF b = 0 \/ \E p \in prepared : Len(p) = b THEN prepared ELSE At(b)

(***************************************************************************)
(* How a job ends.  A block the feed does not have yet is remembered for   *)
(* the live updates; any other failure forgets it.                         *)
(***************************************************************************)
Done(result) == job' = NoJob /\ outcome' = result
Forget(j) == requested' = IF j.block = requested THEN 0 ELSE requested
Fail(j, error) == Forget(j) /\ Done(error)
Bounded(j, top) ==
  IF j.block <= top
  THEN job' = [j EXCEPT !.step = "checkpoint"] /\ UNCHANGED <<requested, outcome>>
  ELSE /\ requested' = IF j.kind = "read" THEN j.block ELSE requested
       /\ Done("error")

(***************************************************************************)
(* syncOnce with a manifest in hand, in one turn: a queued head that came  *)
(* whole is staged, with the epochs queued before it, which must extend    *)
(* the manifest one by one; a gap starts the sync over once, from a new    *)
(* manifest.  Otherwise the head file is asked for.                        *)
(***************************************************************************)
Reach(m) == Max({k \in m.epochs..MaxCuts : (m.epochs + 1)..k \subseteq queuedEpochs})
Stage(j, m) ==
  /\ queuedHead' = None
  /\ \/ /\ \A h \in queuedHead : ~Inline(h)
        /\ manifest' = {m} /\ needsCatchup' = FALSE
        /\ job' = [j EXCEPT !.step = "head"]
        /\ UNCHANGED <<queuedEpochs, staged, headStaged, requested, outcome>>
     \/ \E h \in {x \in queuedHead : Inline(x)} :
          /\ queuedEpochs' = {}
          /\ IF queuedEpochs \subseteq 1..Reach(m)
             THEN /\ manifest' = {[epochs |-> Reach(m), head |-> Len(h.chain)]}
                  /\ needsCatchup' = FALSE
                  /\ staged' = {h} /\ headStaged' = TRUE
                  /\ Bounded(j, Len(h.chain))
             ELSE /\ manifest' = {[m EXCEPT !.epochs = Reach(m)]}
                  /\ needsCatchup' = TRUE
                  /\ IF j.retry = 0
                     THEN /\ Forget(j)
                          /\ job' = [j EXCEPT !.retry = 1, !.step = "manifest",
                                              !.block = IF j.kind = "read" THEN @ ELSE 0]
                          /\ UNCHANGED outcome
                     ELSE Fail(j, "error")
                  /\ UNCHANGED <<staged, headStaged>>
  /\ UNCHANGED <<store, failed>>

(***************************************************************************)
(* sync, up to its first request: the target is the block that is read, or *)
(* the block a read waits for once the queued head has it.  A bounded read *)
(* reuses what is staged.                                                  *)
(***************************************************************************)
Target(block) ==
  IF block # 0 THEN block
  ELSE IF \E h \in queuedHead : Len(h.chain) >= requested THEN requested
  ELSE 0
Reuses(target) ==
  /\ target # 0 /\ headStaged /\ ~needsCatchup /\ queuedHead = None
  /\ \E m \in manifest : target <= m.head
Sync(kind, block) ==
  LET target == Target(block)
      j == [NoJob EXCEPT !.kind = kind, !.block = target]
  IN  /\ Prepare(IF target # 0 THEN target ELSE Max({0} \cup {Len(h.chain) : h \in queuedHead}))
      /\ \/ /\ Reuses(target)
            /\ job' = [j EXCEPT !.step = "checkpoint"]
            /\ UNCHANGED <<queuedHead, queuedEpochs, needsCatchup>>
            /\ UNCHANGED <<manifest, headStaged, requested, outcome, engineVars>>
         \/ /\ ~Reuses(target)
            /\ needsCatchup \/ queuedHead = None
            /\ job' = [j EXCEPT !.step = "manifest"]
            /\ UNCHANGED <<queuedHead, queuedEpochs, needsCatchup>>
            /\ UNCHANGED <<manifest, headStaged, requested, outcome, engineVars>>
         \/ /\ ~needsCatchup /\ queuedHead # None
            /\ \E m \in manifest : Stage(j, m)

(***************************************************************************)
(* The queue: one job at a time, a read when there is one, else the live   *)
(* update.  A read of the verified block needs no sync.                    *)
(***************************************************************************)
StartLive ==
  /\ job = NoJob /\ liveQueued
  /\ liveQueued' = FALSE
  /\ Sync("live", 0)
  /\ UNCHANGED <<feedVars, streamVars, boundVars>>
StartRead(block) ==
  /\ job = NoJob /\ store.verified # <<>>
  /\ reads < MaxReads /\ reads' = reads + 1
  /\ failed \/ Len(store.verified) # block
  /\ Sync("read", block)
  /\ UNCHANGED <<feedVars, streamVars, liveQueued, faults>>

ManifestArrives ==
  /\ job.step = "manifest"
  /\ Stage(job, Manifest)
  /\ UNCHANGED <<feedVars, streamVars, liveQueued, prepared, boundVars>>
HeadArrives ==
  /\ job.step = "head"
  /\ staged' = {HeadFile} /\ headStaged' = TRUE
  /\ \E m \in manifest : Bounded(job, m.head)
  /\ UNCHANGED <<feedVars, streamVars, queueVars, manifest, prepared, store, failed, boundVars>>

(***************************************************************************)
(* acquire, then stage_checkpoint: from here the engine refuses reads      *)
(* until apply succeeds.                                                   *)
(***************************************************************************)
Bound(m) == IF job.block # 0 THEN job.block ELSE m.head
CheckpointArrives ==
  /\ job.step = "checkpoint"
  /\ \E m \in manifest : \E cp \in {p \in prepared : Len(p) = Bound(m)} \cup At(Bound(m)) :
       job' = [job EXCEPT !.step = "epochs", !.cp = cp]
  /\ prepared' = None
  /\ failed' = TRUE
  /\ UNCHANGED <<feedVars, streamVars, queueVars, boundVars>>
  /\ UNCHANGED <<manifest, headStaged, requested, outcome, staged, store>>
CheckpointUnavailable ==
  /\ job.step = "checkpoint"
  /\ \E m \in manifest : At(Bound(m)) = {}
  /\ prepared' = None
  /\ Fail(job, "error")
  /\ UNCHANGED <<feedVars, streamVars, queueVars, engineVars, boundVars>>
  /\ UNCHANGED <<manifest, headStaged>>

(***************************************************************************)
(* The last epoch the manifest lists is in hand: Engine.apply folds the    *)
(* staged feed into a fork of the store, which replaces the store only if  *)
(* its root is the checkpoint's.  "feed advanced mid-sync" is not one of   *)
(* the errors that sync starts over for.                                   *)
(***************************************************************************)
Floor(m) == m.epochs * EpochSize
Folded(m, h) == SubSeq(chain, 1, Floor(m)) \o SubSeq(h.chain, Floor(m) + 1, Len(h.chain))
Refused(m, h) ==
  IF h.from > Floor(m) + 1 THEN {"advanced"}
  ELSE {"error" : x \in {y \in {job.cp} : Len(y) > Len(h.chain) \/ ~IsPrefix(y, Folded(m, h))}}
\* Mutant: the feed is folded into the store itself.
KeepInPlace(m, h) == store' = [store EXCEPT !.chain = Folded(m, h), !.epochs = m.epochs]
Keep(m, h) == store' = store
Apply ==
  /\ job.step = "epochs"
  /\ \E m \in manifest, h \in staged :
       \/ /\ Refused(m, h) = {}
          /\ store' = [chain |-> Folded(m, h), epochs |-> m.epochs, verified |-> job.cp]
          /\ failed' = FALSE
          /\ requested' = IF job.kind = "read" \/ Len(job.cp) = requested THEN 0 ELSE requested
          /\ Done(IF job.block = 0 THEN "ok" ELSE "bounded")
       \/ \E error \in Refused(m, h) : Keep(m, h) /\ Fail(job, error) /\ UNCHANGED failed
  /\ UNCHANGED <<feedVars, streamVars, queueVars, manifest, headStaged, prepared, staged, boundVars>>

(***************************************************************************)
(* A request that fails or times out ends the job.  A client whose open    *)
(* failed opens again.                                                     *)
(***************************************************************************)
Fault ==
  /\ job # NoJob
  /\ faults < MaxFaults /\ faults' = faults + 1
  /\ Fail(job, "error")
  /\ prepared' = IF job.step = "checkpoint" THEN None ELSE prepared
  /\ UNCHANGED <<feedVars, streamVars, queueVars, manifest, headStaged, engineVars, reads>>
Reopen ==
  /\ job = NoJob /\ store.verified = <<>>
  /\ job' = Opening /\ outcome' = "none"
  /\ manifest' = None /\ needsCatchup' = TRUE /\ headStaged' = FALSE /\ requested' = 0
  /\ staged' = None /\ failed' = FALSE /\ prepared' = None
  /\ UNCHANGED <<feedVars, streamVars, queuedHead, queuedEpochs, liveQueued, store, boundVars>>

WorkerStep ==
  \/ Receive
  \/ StartLive
  \/ \E b \in 1..MaxHeight : StartRead(b)
  \/ ManifestArrives
  \/ HeadArrives
  \/ CheckpointArrives
  \/ CheckpointUnavailable
  \/ Apply
  \/ Fault
  \/ Reopen
Next == Publish \/ StreamTurn \/ StreamLost \/ WorkerStep
WorkerSpec == Init /\ [][Next]_vars
-----------------------------------------------------------------------------
(***************************************************************************)
(* A worker that has nothing to do and whose last update reported success  *)
(* without a bound has verified the published chain: no head is lost       *)
(* between the events, the coalesced live update, the reads that run       *)
(* before it and the requests a sync waits for (liveQueued, subscribe).    *)
(***************************************************************************)
NothingToDo ==
  /\ sent = [head |-> {HeadFile}, epoch |-> cuts] /\ wire = <<>>
  /\ job = NoJob /\ ~liveQueued
NeverSilentlyBehind == NothingToDo /\ outcome = "ok" => store.verified = chain

(***************************************************************************)
(* "Neither malformed diffs nor a failed root comparison can replace the   *)
(* last successfully verified cache" (Engine::apply): whatever the feed,   *)
(* the checkpoint and the order of their arrival, the rows that cached     *)
(* reads are answered from have the verified root.                         *)
(***************************************************************************)
VerifiedStoreKept == IsPrefix(store.verified, store.chain)
=============================================================================
