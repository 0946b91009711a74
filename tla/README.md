# strk20-indexer: a TLA+ development

The program indexes one Starknet contract (a privacy pool), publishes what it
finds as a directory of verifiable files (the *feed*), and lets clients rebuild the
pool's state from those files and discover their own notes without telling anyone
which notes are theirs. These modules model the part of it that has to be right
through reorganisations, lagging RPC endpoints, crashes and concurrent readers.

## 1. Inventory

| Part | State it keeps | Operations | Talks to |
|---|---|---|---|
| Indexer store (`indexerd/src/db.rs`) | SQLite tables `blocks`, `events`, `storage_log`, `class_history`, `epochs`, `anchors`, `snapshots`, `ingest_cursor`; meta keys (head, final height, probe frontier, latch, recovery record, probe budget) | `insert_block_data`, `promote_l1`, `rollback_above`, `insert_epoch`, `insert_anchor`, ... | called by all of `indexerd` |
| Ingest cycle (`ingest.rs`) | memory of one cycle: head header, reorg answer, batch, fetched updates and events | poll, `detect_reorg`, finality ratchet, rollback, tail batches or events-first segments, head meta | RPC endpoints, feeder, store |
| Verify-root gate and cutter (`cutter.rs`) | latch, anchors, epoch and snapshot rows, feed files | `verify_and_capture`, `cut_ready_epochs`, `maybe_publish_snapshot`, `regen_head`, `rewrite_manifest`, `recut_epochs_from` | RPC proofs, store, feed directory |
| Recovery (`recovery.rs`, `trie_walk.rs`) | record of the divergence already attempted | `decide`, `begin_attempt`, `run_closure` | RPC proofs, ingest's `ingest_block` |
| Main loop and commands (`main.rs`) | none | `run`, `cut_epochs_with_recovery`, `recut_epochs`, `audit_coverage`, `epoch_verify`, `enumerate_slots`, `rescan` | all of the above |
| RPC client (`rpc.rs`) | active endpoint, shared failure counter, proof statistics | `call_at`, failover, throttling, `get_storage_proof` | two endpoints |
| Live stream (`head_events.rs`, `live.rs`, `live-head.ts`) | watch channels, hub state, last state sent per connection, the subscriber's base | notifications, catch-up requests, `refresh`, `stream_to`, `head_update`, `receive` | main loop, feed files, browser |
| Proof broker (`proofs.rs`, `checkpoint.ts`) | entries, permits, generation; the worker's proofs and wait | `request`, `invalidate`, `feed_proof`, `proof` | RPC, hub, browser |
| Storage trie (`feed/src/mpt.rs`, `trie.rs`) | cached tree | `storage_root`, `update`, `verify_storage_proof` | stores, cutter, walk |
| Feed application (`consumer/src/apply.rs`) | blocks and slots, last applied epoch, head ETag, `tail_generation` | `apply_feed`, `cold_start_from_snapshot`, `replace_range` | feed files over HTTP |
| Consumer stores (`client/src/store.rs`, `consumer/src/mem.rs`, `wasm/src/blob.rs`) | rows of blocks, slots, events, metadata | the trait `ConsumerStore`; export and restore | feed application, discovery |
| Note discovery (`consumer/src/sync.rs`) and reports (`sdk.rs`) | per owner: live cursor, checkpoint cursor and height, generation, note registry; cached report with its stamp | `sync_once`, `discover_state`, `discover` | consumer store, discovery engine |
| Wasm engine and browser worker (`wasm/`, `ts/strk20-discovery`) | staged files, verified store, event queues between awaits, cache revision | `subscribe`, `sync`, `apply`, `save`, `clear`, `close` | feed, stream, proofs, IndexedDB |

What is hard here: the chain can move between any two calls of a cycle; endpoints lag
behind each other and mislabel finality; the process can die between any two
transactions or file writes; files are read while they are written; one consumer
store is shared by several owners' processes; in the browser, events arrive between any
two awaits of a sync and disk writes land after the state they were taken from changed. `PROJECT.json` lists these hazards at
the lines where they bite, with the properties that watch each of them.

What makes each part correct:

- *ingest*: a canonical head vouches for everything stored under it; rows counted as
  final are final; nothing published is ever rolled back;
- *cutter*: epochs hold exactly final blocks and all of them; nothing is published
  while the mirror is known to be wrong; one recovery per divergence;
- *publication*: whatever manifest a client reads, the files it names are there;
- *feed application*: a completed sync is the publisher's mirror; a row that changes
  branch bumps the generation in the same transaction;
- *discovery*: balances are the mirror's, whatever came before; a cached report is the
  one a fresh discovery would give;
- *event scan*: every event once, or a failure; an audit built on it that repairs every
  gap and reports what it leaves;
- *live stream*: what a subscriber rebuilds is the head file, and it gets there;
- *proof broker*: no proof of an abandoned block is kept, no wait lasts for ever;
- *stores and trie*: two stores nobody can tell apart, a cached tree with the root of
  its slots, proofs that never give a wrong answer, a walk that names every hole;
- *worker*: never behind without knowing it; the verified rows survive every failure;
  what counts as saved is on disk, and what was cleared does not come back.

## 2. Modules

```
Chain <- Db <- Ingest <- Indexer <- MCIndexer          (MCIndexerSettled, Any, Repair)
                            |  ^--- IndexerProofs      (TLAPS)
                            '--implements--> FeedLog
EventScan <- CoverageAudit <- MCEventScan              (MCScanExact)
                  ^--- EventScanProofs                 (TLAPS)
Publication <- MCPublication                           (MCPublicationServed)
        ^----- Consumer <- MCConsumer                  (MCConsumerFollows)
                   ^--- FeedProofs                     (TLAPS)
Trie <- Stores <- TrieWalk <- MCStores                 (MCStoresAgree)
Discovery <- MCDiscovery, DiscoveryProofs              (MCDiscoveryShared, TLAPS)
LiveHub <- MCLiveHub, LiveHubProofs                    (MCLiveFollows, TLAPS)
ProofBroker <- MCProofBroker, ProofBrokerProofs        (MCProofShared, TLAPS)
Worker <- MCWorker, WorkerProofs                       (MCWorkerBehind, TLAPS)
WorkerCache <- MCWorkerCache, WorkerCacheProofs        (MCWorkerCacheKept, TLAPS)
```

**Chain** is the environment: a chain of blocks identified by height and era
(each reorganisation opens an era), a true final height no reorganisation reaches
below, and four kinds of block (nothing, writes with events, writes without events,
a replaced class). It is external to the repository.

**Db** has the tables and meta keys as variables and one operator per transaction. A
block's body is its kind; the pool's storage is `NumSlots` slots of which block *n*
writes `n % NumSlots`, so a storage root is the last writer of each slot and a later
write can mask an earlier one. `class_history` holds heights and eras.

**Ingest** is `run_cycle_bound`, one action per exchange with the endpoints or per
transaction: `PollHead` or `PollAnnounced`, `Detect` (canonicity check, finality answer and
promotion), `Rollback`, `Scan`, `FetchUpdates`, `StoreBlock`, `Checkpoint`, `Finish`. A cycle
with an announced header asks for that block and takes an endpoint's head when it is not
there (`Served`), but goes by the header in the canonicity check; only a block of the
header's own height is compared with it. The header is what the watch channel of the head
subscription holds (`Announcements`): one of the present chain or, where `LateNotice` allows
it, one in `stale`, of a block abandoned since, until `ReorgNotice` replaces it. Endpoint
answers are nondeterministic: a head up to `MaxLag` behind; a finality answer that is stale,
that has another status or none (`L1Rejected` leaves an answer without a status to the range
checks), or, where `HighAnswers` allows it, that is above the final height; a wrong status
label of a header; a block supplied by the feeder. A failed consistency check ends the
cycle (`Abort`) and keeps the store. Its `Scan` is one complete answer, which is what
EventScan shows.

**EventScan** is `scan_active_blocks` over `RpcClient::call_at`. `Page` is one answer:
`WholePage` covers its window and stretches the next one, `TokenPage` narrows it or asks
once more. `TransportFails`, `Throttled` and `Pruned` are the answers that make the client
retry, move to the other endpoint or give up. `AskProof` and `Proof...` run
`get_storage_proof` beside the scan, on the same failure counter. The endpoints' health,
page limit, events and ability to serve proofs are chosen once, in Init. `total` has the
number of events below each block, so that those of a window are one subtraction.

**CoverageAudit** is `audit-coverage [--repair]`: the same scan run for a command, whose
answer is compared with the mirror (`Audit`: missing, undercounted and overcounted blocks),
the gaps re-ingested one by one (`Reingest`, `ReingestFails`) and the report refreshed from
the gaps alone (`Recheck`).

**Indexer** composes the cycle with the rest of the main loop: the verify-root gate
(`VerifySkipped` ... `VerifyAnswered`), the recovery (`SkipRecovery`, `BeginAttempt`,
`Walk`, `RepairBlock`, `RetryCut`), the cut (`CutEpoch`, `CutUnbound`, `CutDone`), the
snapshot gate (`SnapshotProved` ... `SnapshotUnbound`), `Fault` (a call fails or the
process dies, at any step) and `TornHead` (it dies between the two halves of the head
meta). Here an epoch is its row together with the lines it was built from. `closures`
counts recovery attempts since verify-root last passed and is history only.

**FeedLog** is the abstract specification: an append-only log of adjacent ranges, each
published only at or below a final height that never falls.

**Publication** models the other side of the cut, the files: head.ndjson, epoch
files, snapshot files and the manifest, each replaced atomically, with the order in
which `regen_head`, `cut_ready_epochs`, `maybe_publish_snapshot`, `prune_snapshots` and
`recut_epochs_from` write files, rows and manifest, and a crash between any two. A whole
ingest cycle is one step. A payload hash is the sequence of lines it commits to, its
own and, through the prev link, those of all epochs below. `Holes` are heights whose
rows an events-first scan leaves incomplete until the operator repairs them. A gate that
halts after a cut (`Halt`) leaves head.ndjson as it was until the head changes again, as
in the code: a consumer then meets a tail that begins below its floor. `EpochVerify` is the
command of that name.

**Consumer** adds one consumer: manifest, snapshot, epochs and head are separate
requests that interleave with the publisher's writes; `ReplaceRange` and the
installation of a snapshot are one transaction each; a failed check or a death ends the
sync. The SQLite and the in-memory store implement the same trait and are one here.

**Trie** has the pool's storage trie twice: `StorageRoot`, the recursive hash of a set of
slots (`mpt.rs`), and the cached tree that is edited slot by slot (`trie.rs`), with proof
nodes and `VerifyStorageProof`. A hash is the term it was computed from, so equal hashes
mean equal contents. **Stores** drives the browser's and the SQLite store with the same
calls (`replace_range`, snapshots, `storage_root_at`, export and restore); each derives the
generation bump from its own rows. **TrieWalk** adds the recovery's walk over the
same tries: `EnumerateMissingSlots` descends where hashes differ and asks for crafted keys,
`Attribute` bisects a slot's history to the block that wrote it, and `EnumerateSlots` is the
command built on both. These three use RECURSIVE operators and are for TLC only.

**Discovery** is `sync_once` for one owner: rewind and prune after a generation
change, checkpoint pass, live pass, registry, spent flags, generation. Another owner's
process may apply the feed to the shared store between any two steps. Notes are
numbered by index and their id depends on the index alone, so a reorganisation can
re-create the same id with other content. Its other host, chosen in Init, is the browser:
`SdkApply` moves the store to a verified checkpoint of its choice, `SdkDiscover` runs the
same passes unless the cached report's stamp (block, hash, generation) still holds, and
starts the owner over when the checkpoint is lower than the last; `SdkReport` stores the
report.

**LiveHub** follows a head from the node to a subscriber: the WebSocket subscription
with its two watch channels, the main loop that either a notification or a reader's
catch-up request wakes, the cycle it then runs, head.ndjson and the cut, the hub's state
(`Refresh`), one connection's stream with deltas against what it last sent (`StreamTurn`, `HeadUpdate`), and
`LiveHeadAssembler.receive` at the other end. The cycle is one step, with rows (`mirror`) and
head meta (`headMeta`) apart: a header that follows the stored head vouches for it
(`Vouches`), a walkback keeps the rows the node still has (`Ancestors`), and a cycle that
detects no reorganisation adds the new rows to the old ones (`Kept`).

**ProofBroker** is the way of a storage proof: `Request` with permits, entries and
eviction; a task that fetches, compares its generation and publishes in separate
steps; `invalidate_proofs` as three steps of the main loop; the hub's coalesced proof event;
`feed_proof`; and the worker's `CheckpointSource.proof`, which waits for the stream, then
asks over HTTP, sharing a task's channel.

**Worker** is `WorkerRuntime` around the wasm `Engine`: events queue between the awaits of
a sync, one job runs at a time with reads before live updates, and each request
(manifest, head, checkpoint, epochs) is a step of its own. `Apply` folds the staged files
into a fork that replaces the store only if its root is the checkpoint's. An epoch event may
come without its payload, and is then passed over, as in the code.

**WorkerCache** is the worker's cache: `Change`, the save timer, one write at a time with
callers waiting behind it, `clear`, `close`, failures of each, and the death of the worker
at any moment, after which the next one restores what is on disk.

The `map` of `PROJECT.json` gives each definition its lines of the source.
Definitions introduced by a "Mutant" comment are deliberately wrong variants, used
only to show that a property notices the mistake.

## 3. Runs

| Run | Checks | Shows |
|---|---|---|
| MCIndexerSettled | HeadVouches, EpochsFinal, FinalRowsCanonical | mirror, epochs and finality under wrong labels, lag, one fault, reorganisations above the recorded head, and L1 finalising a branch the mirror has not seen |
| MCIndexerAny | TypeOK, FloorHolds, OneAttempt, ImplementsFeedLog, SnapshotGate | reorganisations at *every* step, feeder, every kind of proof answer, masked writes, one fault |
| MCIndexerRepair | NoHolePublished, FinalEpochsCut | holes are repaired before they are published, and publication goes on (liveness) |
| MCScanExact | ScanExact, WindowPositive, HealthyEndpointServes, ProofSought, AuditExact, RepairCloses, ScanEnds | a scan that completes has every event once; it gives up only if no endpoint answers; proofs are sought of every endpoint; an audit of any mirror repairs every gap it is asked to, and reports what it leaves; everything ends (liveness) |
| MCPublicationServed | AlwaysServable, ServableAtRest, RecutLands | up to three epochs, their snapshots, a prune, holes in two of them, repairs and re-cuts in any order, two deaths |
| MCConsumerFollows | SyncedIsMirror, ReplacedBumps, CatchesUp | consumer against publisher, step by step, with a reorganisation; it reaches the head again and again (liveness) |
| MCStoresAgree | StoresAgree, RootRecomputed, ProofsSound, WalkNamesHoles | two stores under the same calls; the cached tree; whole and damaged proofs for every key; the walk for every pair of chain and mirror reached |
| MCDiscoveryShared | BalancesExact, CursorsMatchGeneration, ReportFresh | shared store, reorganisation, deaths at every step, three syncs; or the browser's checkpoints, up and down, with its cached report |
| MCLiveFollows | DeltaRebuilds, ReachesSubscriber | deltas always meet their base; the published and the rebuilt head settle on the node's chain (liveness) |
| MCProofShared | ServedProofsCurrent, AcquisitionEnds | tasks of two generations, a full table, no free permit; every wait ends (liveness) |
| MCWorkerBehind | NeverSilentlyBehind, VerifiedStoreKept | events between the awaits of a sync, reads before live updates, a gap in the epochs, a failed request |
| MCWorkerCacheKept | SavedIsOnDisk, ClearedIsGone, ClosedIsFlushed, StateIsSaved | late and failed writes, clears, closes, deaths; the last state reaches the disk (liveness) |

MCWorkerBehind is the largest after Discovery (5.7 and 6.6 million distinct states);
each run ends within two and a half minutes on two cores.

**Assumptions of the passing runs.** Four constants of Indexer delimit what
MCIndexerSettled shows, and the first, second, sixth and seventh observations below are the
reason for them: each of the four assumptions is false of the code in some environment.
`ReorgWhen = "settled"` lets the chain reorganise only while nothing ingested lies above
the recorded head and no block is being fetched; `"idle"` (between iterations) already
refutes HeadVouches after a fault, and `"any"` is what MCIndexerAny
uses, with the five theorems about the indexer that have no hypotheses.
`TornRollback = FALSE` says that the process does not die between the promotion of rows and
the rollback of the same cycle, two adjacent transactions; with TRUE it refutes
FinalRowsCanonical. `LateNotice = FALSE` says that the loop reads no header of an abandoned
branch after the reorganisation: the subscription's notice, or the ACK of a
reconnection, has replaced it in the watch channel. The code does not enforce this, since
the WebSocket and the HTTP endpoint are different channels. `HighAnswers = FALSE` says that
a block above the final height is never presented as the L1-accepted one, labelled so or
without a label; the code documents that it cannot tell (ingest.rs:83-93). MCIndexerAny has
both TRUE, and so do the five theorems just named. MCLiveFollows has `LateNotice = FALSE` for
ReachesSubscriber; DeltaRebuilds is proved for both values. The cycle of ProofBroker takes
the node's head and reads no announced header, which makes the same assumption: a
reorganisation that is not detected resets no proofs. NoHolePublished is checked with
`NumSlots` above the height, so that no write is masked: a root cannot show a hole that a
later write covers. ServableAtRest speaks of a publisher at rest, because between two
epochs of a re-cut the next epoch in the manifest still links to the hash that was
replaced, and a consumer is refused until the re-cut reaches it. BalancesExact compares
amounts of unspent notes only: a note that another branch re-created at the same index
and spent keeps the registry row of the first branch, since `prune_missing_notes` looks
only for empty slots. A discovery pass completes within its budget, and in the browser
nothing else writes the store while it runs (the worker runs one job at a time); its
checkpoint is on the feed's branch. `ClearWhen = "quiet"` says that no save waits behind the
write in progress when a clear starts. Hashes do not collide. In Stores a call carries at
most one line, above the floor, with one storage diff and one event, and snapshots have two
slots. HealthyEndpointServes excepts scans whose counted failures a proof's answer has
cleared, and an endpoint keeps its health for the run.

**Bounds.** Chains of 2 to 5 blocks with epochs of 1 or 2 hold one to three cuts, a tail
above the floor and a reorganisation on either side of it; two eras give one
reorganisation, which already reaches every stale-versus-new combination of one
stored and one canonical block per height. `TailSpan`, `Batch` and `Segment` are chosen so
that both the tail path (several batches) and the events-first path (several
segments) run. One fault suffices for the indexer, because its memory is lost
entirely. Publication gets two deaths with `SnapshotKeep = 2`: a snapshot disappears under a
manifest only when `SnapshotKeep` manifests in a row are lost to deaths, which is why
AlwaysServable excepts that case. Heights 0 to 5 with epochs of two hold three cuts,
their snapshots and a prune, with a hole in two of the epochs. MCIndexerAny goes only to
height 2, with epochs of one block, one slot and blocks with events only, so that two epochs,
a masked write, a reorganisation, a late header and an answer that is too high still fit:
its properties are also proved for every height and kind of block. The publisher
of MCConsumerFollows does not die: the third observation is what one death does.

MCScanExact has blocks with no, one and more events than a page, page limits below and
above the requested size, two short answers and two proofs; the transport budgets are the
code's (8 attempts, failover after 5), the others are small because each is only counted
down. The audit finds any mirror of its three blocks: each absent, or with any of the counts. Three slots of a trie of height 3, two of them siblings and one under another branch,
give edges and binary nodes of several lengths, removals that collapse a branch, and keys
absent at every depth; the walk and the proofs are evaluated in each of 128,753 states.
LiveHub runs a cut, a reorganisation and a lost connection with one event under way, so
that updates coalesce; tails of three records are longer than `MaxInline`. ProofBroker runs
one entry and two permits: with a table of one, the second block must evict or be refused,
and with two generations both permits may be held by tasks of the old one. Worker queues
one epoch, so that the second overflows into a catch-up. Symmetry is not used: heights and
eras are ordered. Deadlock checking is off where the bounds really stop the system: a
number of syncs or changes, a scan that is done, a publisher that has nothing left to
publish.

**Fairness.** MCIndexerRepair assumes WF on the main loop (it is a loop that retries
every failed cycle) and SF on a finality answer with the true height: it is asked once
per cycle, so this says that endpoints do not withhold it forever. MCConsumerFollows
assumes WF on the publisher's loop and on the sync, and SF on each request of the sync: a
consumer that is killed at the same request every time makes no progress in the code
either. MCScanExact assumes that every request ends (reqwest's timeout of 30 s).
MCLiveFollows assumes WF on the loop, on both ends of the stream, on reconnecting, on the
subscription's ACK and on its loss: a socket without headers is dropped after its deadline
of 10 s and opened again. Without that assumption a silent socket would keep the head back.
MCProofShared assumes that a task ends (its deadline of 20 s), the wait on the stream
(its timer of 5 s), an HTTP request, and the loop's steps. MCWorkerCacheKept assumes that
timers fire and that the cache's transactions end. Nothing is assumed of the chain,
faults, readers, the operator or deaths.

### Observations

Where the code does less than a comment or a document says, and where a bound above
hides it. The first eight are reproduced by changing the named constants of a run; the others
follow from the lines named.

| Change or place | What happens |
|---|---|
| MCIndexerSettled with `ReorgWhen = "idle"`, `WrongLabels = FALSE` violates HeadVouches | ingest.rs:328 says "a crash before this point just rescans"; a deep scan that fails after a checkpoint leaves the frontier above the recorded head, and a reorganisation between the two is never detected |
| MCIndexerSettled with `TornRollback = TRUE` violates FinalRowsCanonical | a crash between `promote_l1` and `rollback_above` (ingest.rs:251, 283) leaves an abandoned row final, which ingest.rs:336-343 rules out |
| MCConsumerFollows with `MaxCrashes = 1` violates SyncedIsMirror | apply.rs:10 says an epoch "SUPERSEDES any stored rows in its range"; a head file a dead publisher left from before a reorganisation is inserted over it |
| MCWorkerCacheKept with `ClearWhen = "any"` violates ClearedIsGone | a save that waits behind the write a clear waits for takes its turn first and lands after the clear |
| MCIndexerRepair with `MaxLag = 1` violates NoHolePublished | cutter.rs:396-399 skips the check while the frontier stands, because "the answer cannot change"; but the check is made at `min(frontier, rpc_head)` (:345) and the key records the frontier (:455), so that an endpoint behind it lets a hole above its head be cut without a check |
| MCIndexerSettled with `LateNotice = TRUE` violates HeadVouches, EpochsFinal and FinalRowsCanonical | stored head 5, announced 6 on it, then a reorganisation to 5': block 6 is not found and the head 5' is taken instead (ingest.rs:196-200), `detect_reorg` finds the stored head confirmed by the parent of the announced header (:423-430) and 5' becomes the head over row 5 (:331), which the next block confirms for good. ingest.rs:422 says "The acquired successor is bound to this header before writes", which the fallback escapes, and head_events.rs:2 that coalescing is safe "after reconnects and reorgs" |
| MCIndexerSettled with `HighAnswers = TRUE` violates HeadVouches, EpochsFinal and FinalRowsCanonical | an answer at or below `latest` that is labelled ACCEPTED_ON_L1, or has no status (:101-108, the test at :1245), and is above the true final height is recorded, promotes rows and lets epochs be cut that a reorganisation still takes away; ingest.rs:83-93 describes this and its repair by hand |
| MCLiveFollows with `LateNotice = TRUE` violates ReachesSubscriber | the sixth observation seen from the stream: the head file names the node's head over a row of the abandoned branch, and every subscriber keeps it |
| cutter.rs:69 and :413 | "publication stays blocked until a verify-root passes": only the snapshot gate reads the latch; a check without a verdict lets epochs be cut |
| db.rs:368 | `rollback_above` leaves `class_history`, so a class replaced on an abandoned branch can reach an epoch's footer (cutter.rs:144, "a pure function of chain data") |
| worker.ts:459 | a cache whose `clear` fails leaves `clearing` set: nothing is scheduled any more until the next start (StateIsSaved excepts it) |
| apply.rs:226, err.rs:45, worker.ts:230 | "feed advanced mid-sync" is not classified as FEED_ADVANCED_MIDSYNC, so the worker's retry for it never runs; the next sync that reads a manifest repairs it |
| live.rs:240-248, worker.ts:413 | an epoch over MAX_INLINE is announced with a null payload and `resync`, but the worker passes the event over without asking for a catch-up: each later head that is inline is refused as "advanced" and reported as an error, until a later epoch's gap, a tail too long to be inline or a lost base makes it read the manifest again |
| checkpoint.ts | a checkpoint prepared before a reorganisation at the same height is refused by the root, and the worker reports an error until the next head |
| proofs.rs:103, 120 | a task that compared its generation may show its proof after the reset of a reorganisation, and the reset may be lost to coalescing: the worker then holds a proof whose root does not match (ServedProofsCurrent is about the table) |
| rpc.rs:371 | an answer to a proof clears the failures a scan counted, so that a dead primary can use up the scan's attempts although the fallback works (HealthyEndpointServes excepts it) |
| rpc.rs:499 | an endpoint whose history is pruned ends the search for a proof without asking the other |
| trie_walk.rs:155-160 | `extra` is filled only where the chain has nothing: a slot the mirror alone holds beside an edge of the chain is not reported, and enumerate-slots can print CLEAN while the roots differ (WalkNamesHoles asks only that what is named as extra is extra) |
| sdk.rs:96-104 | `knownByBlock` of a note that a reorganisation took away is kept and reported again if the same note is included later on the new branch, though docs/spec/consumer-path.md:95 calls it conservative |

## 4. Proofs

Every theorem holds for all values of the constants that satisfy the named assumptions of
its module (sizes positive, sets of the right kind) and the hypotheses the table names, with
any number of faults, deaths, reorganisations and requests. Each rests on an inductive invariant, checked by TLC on the
run's instance before it was proved, with one lemma per action. Facts about operators
(what an epoch's hash, a delta, a window or a rollback is) are lemmas of their own.

| Module | Theorem | States |
|---|---|---|
| IndexerProofs | TypeCorrect | `Spec => []TypeOK` |
| | FloorNeverCrossed | `Spec => []FloorHolds` |
| | FeedIsAppendOnly | `Spec => ImplementsFeedLog`, the refinement of FeedLog |
| | RecoveryOnce | `Spec => []OneAttempt` |
| | SnapshotsGated | `Spec => SnapshotGate` |
| | CanonicalHeadVouches | `HeadVouches`, if `ReorgWhen = "settled"` and not `TornRollback`, `LateNotice` or `HighAnswers` |
| | EpochsAreFinal | `EpochsFinal`, under the same hypotheses |
| | FinalMeansCanonical | `FinalRowsCanonical`, under the same hypotheses |
| | FeedHasNoHoles | `NoHolePublished`, under the same hypotheses and if no proof request ends without a verdict, `MaxLag = 0` and `NumSlots > MaxHeight` |
| EventScanProofs | CompleteScanIsExact | `ScanExact`, of the ingest's scan and of the audit's |
| | WindowStaysPositive | `WindowPositive` |
| | GivesUpOnlyWithoutEndpoint | `HealthyEndpointServes` |
| | ProofSoughtEverywhere | `ProofSought` |
| | RepairReachesEveryGap | `AuditSpec => []RepairCloses` |
| | FinalReportIsExact | `AuditSpec => []AuditExact` |
| FeedProofs | ManifestAlwaysServable | `PublisherSpec => []AlwaysServable` |
| | RestingFeedServable | `PublisherSpec => []ServableAtRest` |
| | RecutEndsFresh | `PublisherSpec => RecutLands` |
| | SyncLeavesMirror | `FeedSpec => []SyncedIsMirror`, if `MaxCrashes = 0` and `Holes = {}` |
| | ReplacementBumps | `FeedSpec => ReplacedBumps`, if `MaxCrashes = 0` |
| DiscoveryProofs | ReportsAreExact | `Spec => []BalancesExact` |
| | CursorsAreOfTheGeneration | `Spec => []CursorsMatchGeneration` |
| | CachedReportsAreFresh | `Spec => []ReportFresh` |
| LiveHubProofs | SubscriberRebuildsHeads | `DeltaRebuilds` |
| ProofBrokerProofs | BrokerServesTheChain | `ServedProofsCurrent` |
| WorkerProofs | NoUpdateIsLost | `NeverSilentlyBehind` |
| | StoreKeepsVerifiedRoot | `VerifiedStoreKept` |
| WorkerCacheProofs | SavedStaysOnDisk | `SavedIsOnDisk`, if `ClearWhen = "quiet"` |
| | ClearedStaysGone | `ClearedIsGone`, if `ClearWhen = "quiet"` |
| | CloseFlushes | `ClosedIsFlushed`, if `ClearWhen = "quiet"` |

**Indexer.** In the first five theorems reorganisations may come at any step, headers may
be of abandoned branches, and labels and finality answers may be wrong. The first three rest on `IndInv == TypeOK /\ FloorHolds /\ CycleKeepsFloor`. FloorHolds is
not inductive alone: a cycle carries a reorg answer and a window computed in an earlier
step, and `Rollback` and `Checkpoint` apply them later; CycleKeepsFloor says that what is
carried does not lie below the floor. The refinement uses `IndInv` to show that a
step either leaves the log alone or is `CutEpoch`, which appends the next range at or
below the final height. RecoveryOnce and SnapshotsGated rest on `AttemptInv`, which ties the attempt
count to the recovery record and the latch: an attempt is on record before it starts,
and while one is on record without a passing check the latch is set.

The next three are about what the mirror holds, under the hypotheses of MCIndexerSettled,
without any of which TLC has counterexamples (first, second, sixth and seventh
observation). HeadVouches
says nothing of the middle of a cycle, nor of the abandoned blocks that a mirror keeps for as
long as no cycle succeeds, so it is not inductive. `SettledInv` tells blocks apart
by era: a stored row is `Dead`, which means that the chain has a younger block at its height or
has been cut below it, and that can never be undone; or it is canonical, and then
everything at or below it is sound (`SoundTo`: rows and anchors canonical, no pool events
missing). A canonical head makes all of the mirror sound (`AllSound`). That is why the
walkback of `detect_reorg` may stop at the first row that is canonical. `StoreInv` has the
tables and the epochs; `PhaseInv` what each position in the main loop adds, namely that a
pending rollback goes to a sound height, that headers and windows in memory are of the
present chain, and that a cut finds everything at or below the stored L1 height sound.

FeedHasNoHoles adds `HoleInv`, about the key `anchor_probe_frontier` under which a passing check
is recorded and because of which the next one is skipped. What the key stands for
(`WritesHeld(probe)`: each block up to it that wrote to the pool is stored) is true of
the chain that was checked. It stays true as long as the head is canonical, because then only blocks
above the frontier were replaced; after a reorganisation it is true up to the final
height, until the rollback deletes the key (`FinalHeld`). Whether the recovery walk
finds the right blocks does not enter: it decides whether publication goes on
(FinalEpochsCut), not what is published. Each further hypothesis is needed: an answer without
a verdict lets epochs be cut, a root cannot show a hole that a later write to the same
slot covers, and an endpoint that lags vouches for less than is recorded (fifth observation).

**EventScan.** `ScanInv` says that the events collected are those of the blocks below the
cursor and of no other block, which makes completeness a fact about the cursor;
`ClientInv` says that on a dead endpoint every attempt used up is a failure counted, which is
why the failover comes before the attempts run out; `QueryInv` that every endpoint is ruled
out as a prover or still to be asked. The audit adds that its list holds every active block
that differs. FinalReportIsExact is about sums over sets of blocks: `ReportInv` says that during
the repair the mirror is what the audit read with the gaps done so far replaced, and the
correction of the report splits the sums along the gaps (`SumSplit`, `SumSame`). `MapThenSumSet`
recurses through a function, and the library's induction theorems cannot be instantiated;
that a sum exists and splits is shown instead by a smallest counterexample
(`SubsetInduction`, `SumSteps`).

**Publication.** A published epoch may be out of date, because a hole below it was repaired,
and a re-cut then replaces epochs one by one, any of which may be where it dies. `PubInv`
compares each row with `Cur(i)`, the hash epoch *i* would have if everything were cut now: a
row differs from it only in lines that were incomplete and have been repaired (`RowInv`),
and a file differs from its row only where the row is out of date (`FileInv`), so that a
re-cut which reaches the end has all files right, those of an earlier, dead re-cut
included. `LinkInv` has the chain of links outside of a re-cut. `KeptInv` says that a
snapshot's file is there or newer rows outnumber it; that the prune keeps this needs the
order in which it removes: what is outnumbered stays so, by the newer ones of the
snapshot that goes. `AliveInv` is the same without deaths, exactly.

**Consumer.** A sync reads manifest, snapshot, epochs and head file one by one while the
publisher goes on, so that what it holds may have been published at different times.
`FeedInv`, on top of `PubInv`, says that this does not matter below the tail: whatever was
published there, in whichever file or manifest it still is, says what the mirror says
(`RightHash`, `RightSnap`, `RightManifest`), because only blocks above the final height are
replaced. Above the last applied epoch the store is the head file of its ETag (`StorePart`),
also one long replaced, and every line there is a block row, so the next replacement sees all of it.
A publisher that dies leaves a head file from before a reorganisation beside newer
epochs (third observation), hence `MaxCrashes = 0`; with holes an epoch cut before a repair
and a head file written after it differ in completeness, hence `Holes = {}` for the
equality, which ReplacementBumps does not need.

**Discovery.** A sync takes many steps, and between any two of them another process may
apply a new head to the same store. `ChainInv` says that two chains which share a block of
one era agree up to it, and both agree up to the floor. A row of the registry is `Right`
when it has the block that wrote its note; `Sound` and `Marked` say that no row and no live
cursor is beyond the chain's notes and that a row which is not right is of a spent note and
says so. The checkpoint cursor outlives every generation because it stands for final blocks
only (`CkptInv`). What the engine returned and the process still holds (`FoundInv`) stays
right up to the floor, and at the head as long as the generation stands. `GenInv` and
`PassInv` carry this through the steps: an owner of an older generation has no live
cursor until the live pass ends, and its generation is saved only when its rows are
marked. `RestInv` is what a sync leaves, which is what the next one starts from, and
`SdkInv` ties the cached report to the rows up to its block.

**LiveHub.** A delta is good for a subscriber with its base, and the base is whatever the
events before it on the wire leave there. `LiveInv` says of every head event on the
wire that its base is `Held` when it arrives, and of the hub that what it believes to have
sent is held at the end of the wire. Which rows the head file has does not matter, so the
theorem needs no assumption about the cycle or the notices.

**ProofBroker.** A proof is of the chain as it was when the task asked. `BrokerInv` orders
the chains the node has had: of two, the earlier is within the later one (`Within`), or the
later one has the younger era where they first differ (`Older`). From this
follows that the mirror's comparison with its stored chain notices every abandoned block,
so that the reset removes its entries and a generation later than the task's keeps the
task from publishing.

**Worker.** `WorkerInv` says that news is always coming: whenever the last outcome or the
running job is not about the published chain, the stream has not yet sent the
chain's head, or a head is on the wire, or a live update is queued. Every await of a sync is
one step in which the chain may move, so this has a conjunct for each of them (`JobInv`),
and one each for the stream (`SentInv`), the queues (`QueueInv`) and the idle worker
(`OutcomeInv`).

**WorkerCache.** A revision names one state (`RevisionNames`), nothing that may still
reach the disk is older than the last clear (`NothingOld`), and a clear or a close is alone
with the write in progress (`CommandAlone`). The hypothesis `ClearWhen = "quiet"` is that of
the run; without it ClearedIsGone is false (fourth observation).

Only model-checked:

- liveness (FinalEpochsCut, ScanEnds, CatchesUp, ReachesSubscriber, AcquisitionEnds,
  StateIsSaved): the prover treats neither fairness nor ENABLED;
- StoresAgree, RootRecomputed, ProofsSound, WalkNamesHoles: tries, their roots and the walk
  are recursive operators, with which the prover has no SMT backend, and what a
  recursive definition computes for every input needs an induction over data.

## 5. Not modelled

- L1 rejection counters, `decode_state` and degraded meta, `seen_heads`, logging; a
  torn promotion or a torn write of the final height, which leaves rows that the wrong
  labels of MCIndexerSettled already allow; the meta writes of a passing check, one step;
- `recut_epochs` while the daemon runs, which nothing prevents; `anchors.ndjson` and
  sidecar files; I/O errors other than as deaths; the last, idempotent manifest rewrite
  of a re-cut;
- a changed viewing key, outgoing cursors (same shape as incoming), more than one owner of
  interest: other owners only apply the feed; the discovery engine itself (`vendor/`,
  upstream) is an external fact of `RunIncoming`; `knownByBlock`, channels and requirement of
  the SDK's report, which are read from the same rows; a browser discovery that fails
  half-way;
- the status event that ends a stream; HTTP caches, which keep epoch files for a year under
  names a re-cut reuses (the consumer's hash check turns a stale copy into a failed sync);
- equality of the two stores' note registries; keys of 2^251 and above, which both trie
  modules refuse; the JavaScript bindings and message passing around the worker;
- `backfill`, `mirror_pull`, `rescan` and the status commands: sequences of the operations
  above without state of their own;
- encodings, HTTP, CLI, demo: byte-level functions or I/O without state of their own.

## 6. Plan

1. *Done*: Chain, Db, Ingest, Indexer with its refinement; Publication, Consumer, Discovery;
   EventScan and CoverageAudit, LiveHub, ProofBroker, Worker, WorkerCache, Trie, Stores,
   TrieWalk and the browser side of Discovery; the theorems of section 4.
2. A re-cut that meets a running daemon; `rescan`; the demo's transaction confirmation.
