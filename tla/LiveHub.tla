------------------------------ MODULE LiveHub ------------------------------
(***************************************************************************)
(* From a new block to a subscriber: the head subscription that wakes the  *)
(* main loop (indexerd/src/head_events.rs, main.rs), the hub that shows    *)
(* the published files (live.rs), one SSE connection with its head deltas, *)
(* and the worker's assembler of those deltas (live-head.ts).              *)
(*                                                                         *)
(* A chain is the sequence of the eras of its blocks, and a prefix of it   *)
(* stands for the hash of the prefix's last block.  The proofs the hub     *)
(* shows are the subject of ProofBroker.                                   *)
(***************************************************************************)
EXTENDS Naturals, FiniteSets, SequencesExt

CONSTANTS
  MaxHeight,   \* bound: the tallest chain explored
  MaxReorgs,   \* bound: reorganisations of the node
  LateNotice,  \* an unread header may outlive the branch it is of
  MaxCuts,     \* bound: epochs cut
  EpochSize,   \* ChainConfig.epoch_size
  MaxInline,   \* MAX_INLINE, in records: longer tails are left to HTTP
  Overhead,    \* records a tail must have for a delta to be the shorter event
  MaxWire,     \* bound: events under way to the subscriber
  MaxDrops     \* bound: connections lost

VARIABLES
  node,        \* chain of the RPC node
  era,         \* era of the node's new blocks
  ws,          \* head subscription: "down" until its ACK, then "acked"
  announced,   \* its watch channel: the unread value, <<>> once read
  demand,      \* the catch-up watch channel has an unread value
  requested,   \* HeadCache.catchup_requested
  mirror,      \* rows of the database, one per height
  headMeta,    \* head_number and head_hash, <<>> before the first
  cuts,        \* number of epochs cut
  file,        \* head.ndjson, None before the first
  pc,          \* next step of the main loop; "catchup": a cycle woken by demand
  hub,         \* FeedState of the hub
  conn,        \* "closed" or "open"
  sent,        \* stream_to: FeedState last sent on this connection
  wire,        \* events under way, in order
  sub,         \* the subscriber
  drops

nodeVars == <<node, era>>
wakeVars == <<ws, announced>>
loopVars == <<mirror, headMeta, cuts, file, pc>>
connVars == <<conn, sent, wire, sub, drops>>
vars == <<nodeVars, wakeVars, demand, requested, loopVars, hub, connVars>>

ASSUME LiveAssumption ==
  /\ MaxHeight \in Nat \ {0} /\ MaxReorgs \in Nat /\ MaxCuts \in Nat
  /\ LateNotice \in BOOLEAN
  /\ EpochSize \in Nat \ {0} /\ MaxInline \in Nat /\ Overhead \in Nat
  /\ MaxWire \in Nat \ {0} /\ MaxDrops \in Nat

None == {}
Floor == cuts * EpochSize
TailFrom == Floor + 1

(***************************************************************************)
(* head.ndjson: where its tail starts, the head it names and the rows up   *)
(* to it.  The value is its own ETag.                                      *)
(***************************************************************************)
HeadOfDb(from) ==
  [from |-> from, head |-> headMeta, chain |-> SubSeq(mirror, 1, Len(headMeta))]
Records(h) == SubSeq(h.chain, h.from, Len(h.chain))
Inline(h) == Len(Records(h)) <= MaxInline

Init ==
  /\ node = <<1>> /\ era = 1
  /\ ws = "down" /\ announced = <<>>
  /\ demand = FALSE /\ requested = FALSE
  /\ mirror = <<>> /\ headMeta = <<>> /\ cuts = 0 /\ file = None
  /\ pc = "cycle"
  /\ hub = [head |-> None, epoch |-> 0]
  /\ conn = "closed" /\ sent = [head |-> None, epoch |-> 0]
  /\ wire = <<>>
  /\ sub = [base |-> None, head |-> None, epoch |-> 0, gap |-> FALSE]
  /\ drops = 0
-----------------------------------------------------------------------------
(***************************************************************************)
(* The node grows, or gives up unfinal blocks for a block of another era.  *)
(* The notification of the reorganisation takes the place of a header the  *)
(* loop has not read, unless it is late.                                   *)
(***************************************************************************)
NodeGrows ==
  /\ Len(node) < MaxHeight
  /\ node' = Append(node, era)
  /\ UNCHANGED <<era, announced>>
NodeReorgs(kept) ==
  /\ era <= MaxReorgs
  /\ Floor <= kept /\ kept < Len(node)
  /\ era' = era + 1
  /\ node' = Append(SubSeq(node, 1, kept), era + 1)
  /\ announced' = IF announced = <<>> \/ LateNotice THEN announced ELSE <<None>>
NodeStep == NodeGrows \/ \E kept \in 0..MaxHeight : NodeReorgs(kept)

(***************************************************************************)
(* head_events: a connection up to its ACK (attempts that get none change  *)
(* nothing), a notification, and the loss of the connection, which a       *)
(* silent publisher brings about through the header deadline.  Every ACK   *)
(* wakes the loop; a reorg notification names no header.                   *)
(***************************************************************************)
Wake(header) == announced' = <<header>>
\* Mutant: the loop is woken by notifications alone.
WsAckSilent == ws = "down" /\ ws' = "acked" /\ UNCHANGED announced
WsAck == ws = "down" /\ ws' = "acked" /\ Wake(None)
WsNewHead == ws = "acked" /\ Wake({node}) /\ UNCHANGED ws
WsReorg == ws = "acked" /\ Wake(None) /\ UNCHANGED ws
WsLost == ws = "acked" /\ ws' = "down" /\ UNCHANGED announced
-----------------------------------------------------------------------------
(***************************************************************************)
(* run_cycle_announced.  Latest is the announced block as the node has it  *)
(* now, the node's head when it does not have it, and nothing when they    *)
(* disagree.  detect_reorg goes by the announced header, or by latest when *)
(* there is none: a header that is the stored head or follows it vouches   *)
(* for it, else the node is asked.                                         *)
(***************************************************************************)
Target == IF pc = "catchup" \/ announced = <<>> THEN None ELSE announced[1]
Latest ==
  IF Target = None \/ \E h \in Target : Len(h) > Len(node) THEN {node}
  ELSE {h \in Target : IsPrefix(h, node)}
Header(latest) == IF Target = None THEN latest ELSE CHOOSE h \in Target : TRUE
Vouches(h) == Len(h) \in {Len(headMeta), Len(headMeta) + 1} /\ IsPrefix(headMeta, h)
Gone(h) == headMeta # <<>> /\ ~Vouches(h) /\ ~IsPrefix(headMeta, node)

(***************************************************************************)
(* The walkback: the highest stored row the node still has, the epoch      *)
(* floor when it has none above it.                                        *)
(***************************************************************************)
Standing == {n \in (Floor + 1)..Len(headMeta) :
               n <= Len(mirror) /\ n <= Len(node) /\ mirror[n] = node[n]}
Ancestors == {n \in {Floor} \cup Standing : \A m \in Standing : m <= n}

(***************************************************************************)
(* The cycle keeps the rows a reorganisation leaves, fetches the ones      *)
(* above them up to latest and makes latest the head.  Without a           *)
(* reorganisation a latest below the stored frontier is an error.          *)
(***************************************************************************)
Accepts(latest) == Gone(Header(latest)) \/ Len(latest) >= Len(mirror)
Kept(latest) == IF Gone(Header(latest)) THEN Ancestors ELSE {Len(mirror)}
ReadTarget ==
  /\ pc \in {"cycle", "catchup"}
  /\ announced' = IF pc = "catchup" THEN announced ELSE <<>>
  /\ UNCHANGED ws
CycleRuns ==
  /\ ReadTarget
  /\ \E latest \in Latest : \E kept \in Kept(latest) :
       /\ Accepts(latest)
       /\ mirror' = SubSeq(mirror, 1, kept) \o SubSeq(latest, kept + 1, Len(latest))
       /\ headMeta' = latest
       /\ pc' = IF latest = headMeta THEN "refresh" ELSE "file"
  /\ UNCHANGED <<cuts, file>>
CycleFails ==
  /\ ReadTarget
  /\ \A latest \in Latest : ~Accepts(latest)
  /\ pc' = "wait"
  /\ UNCHANGED <<mirror, headMeta, cuts, file>>

(***************************************************************************)
(* regen_head.                                                             *)
(***************************************************************************)
RegenHead ==
  /\ pc = "file"
  /\ file' = {HeadOfDb(TailFrom)}
  /\ pc' = "refresh"
  /\ UNCHANGED <<mirror, headMeta, cuts>>

(***************************************************************************)
(* cut_epochs_with_recovery and the tail that starts higher.               *)
(***************************************************************************)
CutEpoch ==
  /\ pc = "cut"
  /\ \/ /\ cuts < MaxCuts
        /\ (cuts + 1) * EpochSize <= Len(mirror)
        /\ IsPrefix(SubSeq(mirror, 1, (cuts + 1) * EpochSize), node)
        /\ cuts' = cuts + 1
        /\ file' = {HeadOfDb(TailFrom + EpochSize)}
     \/ UNCHANGED <<cuts, file>>
  /\ pc' = "announce"
  /\ UNCHANGED <<mirror, headMeta>>

(***************************************************************************)
(* The select at the end of the loop.                                      *)
(***************************************************************************)
WokenByHeads ==
  /\ pc = "wait"
  /\ announced # <<>>
  /\ pc' = "cycle"
  /\ UNCHANGED <<mirror, headMeta, cuts, file, demand>>
WokenByDemand ==
  /\ pc = "wait"
  /\ demand
  /\ demand' = FALSE
  /\ pc' = "catchup"
  /\ UNCHANGED <<mirror, headMeta, cuts, file>>

(***************************************************************************)
(* request_catchup: GET head.ndjson asks for a cycle, once per             *)
(* publication.                                                            *)
(***************************************************************************)
RequestCatchup ==
  /\ ~requested
  /\ requested' = TRUE
  /\ demand' = TRUE
-----------------------------------------------------------------------------
(***************************************************************************)
(* refresh: the hub shows what the files say; a head not seen before ends  *)
(* the coalescing of catch-up requests.                                    *)
(***************************************************************************)
Refresh ==
  /\ hub' = [head |-> file, epoch |-> cuts]
  /\ requested' = (requested /\ hub.head = file)
LoopRefresh ==
  /\ pc \in {"refresh", "announce"}
  /\ Refresh
  /\ pc' = IF pc = "refresh" THEN "cut" ELSE "wait"
  /\ UNCHANGED <<mirror, headMeta, cuts, file>>

(***************************************************************************)
(* head_update: a delta when the tail starts where the head last sent      *)
(* does, both are inline, its records are a prefix, and the delta is the   *)
(* shorter of the two.                                                     *)
(***************************************************************************)
HeadEvent(h, mode, base, recs) ==
  [name |-> "head", etag |-> h, mode |-> mode, base |-> base, recs |-> recs]
Full(next) ==
  IF Inline(next) THEN HeadEvent(next, "full", None, Records(next))
  ELSE HeadEvent(next, "resync", None, <<>>)
\* Mutant: a tail that starts elsewhere is diffed all the same.
AppendsAnywhere(prev, next) ==
  /\ Inline(prev) /\ Inline(next)
  /\ IsPrefix(Records(prev), Records(next))
  /\ Len(Records(prev)) > Overhead
Appends(prev, next) ==
  /\ prev.from = next.from
  /\ Inline(prev) /\ Inline(next)
  /\ IsPrefix(Records(prev), Records(next))
  /\ Len(Records(prev)) > Overhead
HeadUpdate(next, prev) ==
  IF \E p \in prev : Appends(p, next)
  THEN LET p == CHOOSE p \in prev : TRUE
       IN  HeadEvent(next, "delta", {p},
             SubSeq(Records(next), Len(Records(p)) + 1, Len(Records(next))))
  ELSE Full(next)

(***************************************************************************)
(* stream_to, one turn: every field that differs from what was last sent   *)
(* on this connection, epochs before heads.  epoch stands for the proof,   *)
(* snapshot and status events too, which are sent like it.                 *)
(***************************************************************************)
EpochEvents == IF hub.epoch = sent.epoch THEN <<>>
               ELSE <<[name |-> "epoch", e |-> hub.epoch]>>
HeadEvents == IF hub.head = sent.head THEN <<>>
              ELSE <<HeadUpdate(CHOOSE h \in hub.head : TRUE, sent.head)>>
Events == EpochEvents \o HeadEvents
StreamTurn ==
  /\ conn = "open" /\ hub # sent
  /\ Len(wire) < MaxWire
  /\ sent' = hub
  /\ wire' = wire \o Events
  /\ UNCHANGED <<conn, sub, drops>>

(***************************************************************************)
(* A new connection refreshes the hub and starts with nothing sent, and    *)
(* hello.  It ends with either side; what was under way is lost.           *)
(***************************************************************************)
Connect ==
  /\ conn = "closed"
  /\ Refresh
  /\ conn' = "open"
  /\ sent' = [head |-> None, epoch |-> 0]
  /\ wire' = <<[name |-> "hello"]>>
  /\ UNCHANGED <<sub, drops>>
CloseStream == conn' = "closed" /\ wire' = <<>> /\ UNCHANGED sent
DropStream ==
  /\ conn = "open"
  /\ drops < MaxDrops
  /\ drops' = drops + 1
  /\ CloseStream
  /\ UNCHANGED sub
-----------------------------------------------------------------------------
(***************************************************************************)
(* LiveHeadAssembler.receive: a delta needs the head it names as its base; *)
(* without it the stream is given up.                                      *)
(***************************************************************************)
Rebuilt(ev) ==
  IF ev.mode = "delta"
  THEN {b.recs \o ev.recs : b \in {x \in sub.base :
          ev.base = {x.etag} /\ x.etag.from = ev.etag.from}}
  ELSE {ev.recs}
TakeHead(ev) ==
  IF Rebuilt(ev) = {}
  THEN /\ sub' = [sub EXCEPT !.base = None, !.gap = TRUE]
       /\ CloseStream
  ELSE LET head == {[etag |-> ev.etag, recs |-> r] : r \in Rebuilt(ev)}
       IN  /\ sub' = [sub EXCEPT !.base = IF ev.mode = "resync" THEN None ELSE head,
                                 !.head = head]
           /\ wire' = Tail(wire)
           /\ UNCHANGED <<conn, sent>>

Receive ==
  /\ conn = "open"
  /\ wire # <<>>
  /\ LET ev == Head(wire)
     IN  IF ev.name = "head" THEN TakeHead(ev)
         ELSE /\ CASE ev.name = "hello" -> sub' = [sub EXCEPT !.base = None]
                   [] ev.name = "epoch" -> sub' = [sub EXCEPT !.epoch = ev.e]
              /\ wire' = Tail(wire)
              /\ UNCHANGED <<conn, sent>>
  /\ UNCHANGED drops
-----------------------------------------------------------------------------
OfNode == NodeStep /\ UNCHANGED <<ws, demand, requested, loopVars, hub, connVars>>
OfSubscription(A) == A /\ UNCHANGED <<nodeVars, demand, requested, loopVars, hub, connVars>>
OfStream(A) == A /\ UNCHANGED <<nodeVars, wakeVars, demand, requested, loopVars, hub>>
OfLoop ==
  /\ \/ (CycleRuns \/ CycleFails) /\ UNCHANGED <<demand, requested, hub>>
     \/ (RegenHead \/ CutEpoch) /\ UNCHANGED <<wakeVars, demand, requested, hub>>
     \/ (WokenByHeads \/ WokenByDemand) /\ UNCHANGED <<wakeVars, requested, hub>>
     \/ LoopRefresh /\ UNCHANGED <<wakeVars, demand>>
  /\ UNCHANGED <<nodeVars, connVars>>
OfReader == RequestCatchup /\ UNCHANGED <<nodeVars, wakeVars, loopVars, hub, connVars>>
Connects == Connect /\ UNCHANGED <<nodeVars, wakeVars, demand, loopVars>>

Next ==
  \/ OfNode
  \/ OfSubscription(WsAck)
  \/ OfSubscription(WsNewHead)
  \/ OfSubscription(WsReorg)
  \/ OfSubscription(WsLost)
  \/ OfLoop
  \/ OfReader
  \/ Connects
  \/ OfStream(StreamTurn)
  \/ OfStream(Receive)
  \/ OfStream(DropStream)
Spec == Init /\ [][Next]_vars

(***************************************************************************)
(* The loop and the stream's two ends never stop; the subscription is      *)
(* opened again when it ends, and it ends when it stays silent (its ACK    *)
(* and header deadlines).  The node and the readers owe nothing.           *)
(***************************************************************************)
Fairness ==
  /\ WF_vars(OfSubscription(WsAck))
  /\ WF_vars(OfSubscription(WsLost))
  /\ WF_vars(OfLoop)
  /\ WF_vars(Connects)
  /\ WF_vars(OfStream(StreamTurn))
  /\ WF_vars(OfStream(Receive))
LiveSpec == Spec /\ Fairness
-----------------------------------------------------------------------------
(***************************************************************************)
(* "Deltas name the previously sent head's ETag; a reconnect, epoch        *)
(* rollover or changed prefix sends a full replacement" (live.rs): however *)
(* updates coalesce and connections end, no delta meets a subscriber       *)
(* without its base, and what the subscriber rebuilds is, record for       *)
(* record, the head file of that ETag.                                     *)
(***************************************************************************)
DeltaRebuilds ==
  /\ ~sub.gap
  /\ \A h \in sub.head : h.recs = IF Inline(h.etag) THEN Records(h.etag) ELSE <<>>

(***************************************************************************)
(* "Coalescing is safe: ingestion resumes from its persisted cursor,       *)
(* including after reconnects and reorgs" (head_events.rs): whatever       *)
(* notifications, wakes, events and connections are lost or coalesced,     *)
(* once the node rests, the published head and the one every subscriber    *)
(* rebuilt settle on the node's chain, row for row.  A header still unread *)
(* when its branch is abandoned (LateNotice) breaks it: it vouches for the *)
(* stored head, and the abandoned rows stay.                               *)
(***************************************************************************)
ReachesSubscriber ==
  <>[](\E f \in file : f.head = node /\ f.chain = node /\ \E h \in sub.head : h.etag = f)
=============================================================================
