----------------------------- MODULE Discovery -----------------------------
(***************************************************************************)
(* One owner's note discovery over a consumer's store (consumer/src/       *)
(* sync.rs, sync_once and discover_state): checkpoint pass, live pass,     *)
(* note registry and the rewind after a tail replacement.  The store may   *)
(* be shared: another owner's process can apply the feed between any two   *)
(* steps, and this process can die at any of them.  How apply_feed gets    *)
(* from the feed's files to the store is the subject of Consumer; here it  *)
(* is one step.                                                            *)
(*                                                                         *)
(* In a browser the store is the engine's own and discovery runs at a      *)
(* verified checkpoint, on demand, behind a cached report (consumer/src/   *)
(* sdk.rs, discover).                                                      *)
(***************************************************************************)
EXTENDS Integers, Sequences, FiniteSets

CONSTANTS
  MaxLen,      \* bound: the longest chain explored
  MaxEra,      \* bound: number of branches
  MaxSyncs,    \* bound: syncs this owner starts
  Kinds        \* kinds of block produced, see below

VARIABLES
  feed,        \* what the feed serves: blocks [era, kind]
  feedFloor,   \* end of its last epoch: final, never replaced
  era,         \* era of the blocks produced now
  blocks,      \* the store's blocks, floor and tail_generation
  floor,
  generation,
  ownerGen,    \* meta gen_<owner>
  live,        \* meta cur_in_<owner>: last note index scanned, None if cleared
  ckpt,        \* meta ckpt_in_<owner>
  ckptAt,      \* meta ckpt_at_in_<owner>
  notes,       \* notes_registry of the owner: index -> [at, spent]
  sdk,         \* whether the host is a browser
  cp,          \* meta verified_checkpoint: its block, 0 if absent
  cache,       \* meta sdk_<owner>, sdk_<owner>_stamp, sdk_<owner>_block
  step,        \* next step of the sync
  mem,         \* what the sync holds in memory
  fresh,       \* history: nothing but this sync wrote to the store since it applied the feed
  syncs

feedVars == <<feed, feedFloor, era>>
storeVars == <<blocks, floor, generation>>
ownerVars == <<ownerGen, live, ckpt, ckptAt, notes>>
sdkVars == <<sdk, cp, cache>>
vars == <<feedVars, storeVars, ownerVars, sdkVars, step, mem, fresh, syncs>>

ASSUME DiscoveryAssumption ==
  /\ MaxLen \in Nat \ {0} /\ MaxEra \in Nat \ {0} /\ MaxSyncs \in Nat
  /\ Kinds \subseteq {"quiet", "other", "note", "spend"}

(***************************************************************************)
(* What a block does to the owner: nothing, a block row without a note of  *)
(* theirs, a new note, or the spend of their oldest unspent note.  Notes   *)
(* are numbered in the order they are written; a note's id depends on that *)
(* index alone, so two branches share ids.                                 *)
(***************************************************************************)
Count(chain, kind, bound) == Cardinality({n \in 1..Len(chain) : n <= bound /\ chain[n].kind = kind})
NoteCount(chain, bound) == Count(chain, "note", bound)
Spent(chain, i, bound) == i <= Count(chain, "spend", bound)

(***************************************************************************)
(* read_slot_as_of for note i: the block that wrote it, which determines   *)
(* its amount; 0 when the slot is empty as of the bound.                   *)
(***************************************************************************)
NoteAt(chain, i, bound) ==
  {[num |-> n, era |-> chain[n].era] :
     n \in {k \in 1..Len(chain) : k <= bound /\ chain[k].kind = "note"
                                  /\ NoteCount(chain, k) = i}}

None == -1
Indices == 1..MaxLen
NoNote == [at |-> {}, spent |-> FALSE]
\* The registry: a known row keeps its spent flag.
UpsertNote(row, at) == [row EXCEPT !.at = at]
SetNoteSpent(row, spent) == [row EXCEPT !.spent = spent]
Known == {i \in Indices : notes[i].at # {}}
NoCache == [stamp |-> <<>>, block |-> 0, notes |-> <<>>]
Idle == [head |-> 0, floor |-> 0, gen |-> 0, cursor |-> 0, found |-> {}]

Init ==
  /\ feed = <<>> /\ feedFloor = 0 /\ era = 1
  /\ blocks = <<>> /\ floor = 0 /\ generation = 0
  /\ ownerGen = 0 /\ live = None /\ ckpt = None /\ ckptAt = 0
  /\ notes = [i \in Indices |-> NoNote]
  /\ sdk \in BOOLEAN /\ cp = 0 /\ cache = NoCache
  /\ step = "idle" /\ mem = Idle /\ fresh = FALSE /\ syncs = 0
-----------------------------------------------------------------------------
(***************************************************************************)
(* The feed: its tail grows or is replaced, its floor rises.               *)
(***************************************************************************)
Produce(kind) ==
  /\ Len(feed) < MaxLen
  /\ (kind = "spend" => NoteCount(feed, MaxLen) > Count(feed, "spend", MaxLen))
  /\ feed' = Append(feed, [era |-> era, kind |-> kind])
  /\ UNCHANGED <<feedFloor, era>>
Replace(a) ==
  /\ era < MaxEra
  /\ feedFloor <= a /\ a < Len(feed)
  /\ feed' = SubSeq(feed, 1, a)
  /\ era' = era + 1
  /\ UNCHANGED feedFloor
Cut(to) ==
  /\ feedFloor < to /\ to <= Len(feed)
  /\ feedFloor' = to
  /\ UNCHANGED <<feed, era>>
FeedStep ==
  /\ sdk => step = "idle"
  /\ \/ \E kind \in Kinds : Produce(kind)
     \/ \E a \in 0..MaxLen : Replace(a)
     \/ \E to \in 1..MaxLen : Cut(to)
  /\ UNCHANGED <<storeVars, ownerVars, sdkVars, step, mem, fresh, syncs>>

(***************************************************************************)
(* apply_feed: the store takes over the feed's epochs and tail; a stored   *)
(* block row that the feed contradicts bumps the generation.  A block that *)
(* does nothing to the pool has no row.                                    *)
(***************************************************************************)
Contradicted ==
  \E n \in 1..Len(blocks) :
    /\ blocks[n].kind # "quiet"
    /\ ~(n <= Len(feed) /\ feed[n] = blocks[n])
Apply ==
  /\ blocks' = feed
  /\ floor' = feedFloor
  /\ generation' = IF Contradicted THEN generation + 1 ELSE generation
  /\ UNCHANGED feedVars
OtherApplies ==
  /\ ~sdk
  /\ <<blocks, floor>> # <<feed, feedFloor>>
  /\ Apply
  /\ fresh' = FALSE
  /\ UNCHANGED <<ownerVars, sdkVars, step, mem, syncs>>
SyncStart ==
  /\ ~sdk
  /\ step = "idle"
  /\ syncs < MaxSyncs
  /\ syncs' = syncs + 1
  /\ Apply
  /\ fresh' = TRUE
  /\ mem' = [Idle EXCEPT !.head = Len(feed), !.floor = feedFloor]
  /\ step' = "rewind"
  /\ UNCHANGED <<ownerVars, sdkVars>>

(***************************************************************************)
(* The browser: a sync applies the feed and verifies the state at a block  *)
(* of its choice up to the head; discovery answers from the cached report  *)
(* while the checkpoint and the generation are the report's, and starts    *)
(* the owner over when the checkpoint is lower than the last one.          *)
(***************************************************************************)
SdkApply(n) ==
  /\ sdk /\ step = "idle"
  /\ n <= Len(feed)
  /\ <<blocks, floor, cp>> # <<feed, feedFloor, n>>
  /\ Apply
  /\ cp' = n
  /\ UNCHANGED <<ownerVars, sdk, cache, step, mem, fresh, syncs>>
\* Mutant: the report is kept while the generation stands.
StampGeneration == <<generation>>
Stamp == <<cp, blocks[cp].era, generation>>
Lower == cp < cache.block
FullResync ==
  /\ live' = None /\ ckpt' = None /\ ckptAt' = 0
  /\ notes' = [i \in Indices |-> NoNote]
  /\ cache' = [cache EXCEPT !.stamp = <<>>, !.block = 0]
SdkDiscover ==
  /\ sdk /\ step = "idle" /\ cp > 0
  /\ cache.stamp # Stamp
  /\ syncs < MaxSyncs
  /\ syncs' = syncs + 1
  /\ mem' = [Idle EXCEPT !.head = cp, !.floor = IF floor < cp THEN floor ELSE cp]
  /\ fresh' = TRUE
  /\ step' = "rewind"
  /\ IF Lower THEN FullResync ELSE UNCHANGED <<live, ckpt, ckptAt, notes, cache>>
  /\ UNCHANGED <<feedVars, storeVars, ownerGen, sdk, cp>>
-----------------------------------------------------------------------------
(***************************************************************************)
(* The owner's own writes: the store's rows stay.                          *)
(***************************************************************************)
Own == UNCHANGED <<feedVars, storeVars, sdkVars, fresh, syncs>>

(***************************************************************************)
(* A generation other than the owner's: the live cursor is cleared, then   *)
(* prune_missing_notes drops rows whose slot is gone.                      *)
(***************************************************************************)
\* Mutant: the cursor of the replaced tail is kept.
RewoundLiveKept == live
RewoundLive == None
Rewind ==
  /\ step = "rewind"
  /\ mem' = [mem EXCEPT !.gen = generation]
  /\ IF ownerGen # generation
     THEN live' = RewoundLive /\ step' = "prune"
     ELSE live' = live /\ step' = "ckpt"
  /\ UNCHANGED <<ownerGen, ckpt, ckptAt, notes>>
  /\ Own
Gone(i) == NoteAt(blocks, i, mem.head) = {}
Prune ==
  /\ step = "prune"
  /\ notes' = [i \in Indices |-> IF Gone(i) THEN NoNote ELSE notes[i]]
  /\ step' = "ckpt"
  /\ UNCHANGED <<ownerGen, live, ckpt, ckptAt, mem>>
  /\ Own

(***************************************************************************)
(* run_incoming: the engine resumes after the cursor and reads up to the   *)
(* first empty index; notes with a nullifier are scanned but not returned. *)
(***************************************************************************)
RunIncoming(from, bound, next) ==
  LET total == NoteCount(blocks, bound)
      start == IF from = None THEN 0 ELSE from
  IN  /\ mem' = [mem EXCEPT
           !.cursor = IF total > start THEN total ELSE start,
           !.found = {[i |-> i, at |-> NoteAt(blocks, i, bound)] :
                        i \in {k \in (start + 1)..total : ~Spent(blocks, k, bound)}}]
      /\ step' = next
      /\ UNCHANGED ownerVars
      /\ Own

(***************************************************************************)
(* register_notes upserts what the engine returned (a known row keeps its  *)
(* spent flag), then register_scanned_notes adds the indices up to the     *)
(* cursor that are not known and whose slot is there.                      *)
(***************************************************************************)
Found(i) == UNION {f.at : f \in {g \in mem.found : g.i = i}}
Register(bound, next) ==
  /\ notes' = [i \in Indices |->
       IF Found(i) # {} THEN UpsertNote(notes[i], Found(i))
       ELSE IF i \notin Known /\ i <= mem.cursor
            THEN UpsertNote(NoNote, NoteAt(blocks, i, bound))
            ELSE notes[i]]
  /\ step' = next
  /\ UNCHANGED <<ownerGen, live, ckpt, ckptAt, mem>>
  /\ Own

(***************************************************************************)
(* Checkpoint pass at the epoch floor: only for a server-asserted sync,    *)
(* and only when the floor moved since the last one.                       *)
(***************************************************************************)
CkptRun == step = "ckpt" /\ ~sdk /\ mem.floor > 0 /\ ckptAt # mem.floor
           /\ RunIncoming(ckpt, mem.floor, "ckptRegister")
CkptSkip ==
  /\ step = "ckpt"
  /\ step' = "live"
  /\ UNCHANGED <<ownerVars, mem>>
  /\ Own
CkptRegister == step = "ckptRegister" /\ Register(mem.floor, "ckptSave")
CkptSave ==
  /\ step = "ckptSave"
  /\ ckpt' = mem.cursor
  /\ step' = "ckptAt"
  /\ UNCHANGED <<ownerGen, live, ckptAt, notes, mem>>
  /\ Own
CkptAtSave ==
  /\ step = "ckptAt"
  /\ ckptAt' = mem.floor
  /\ step' = "live"
  /\ UNCHANGED <<ownerGen, live, ckpt, notes, mem>>
  /\ Own

(***************************************************************************)
(* Live pass at the head, from the live cursor or else the checkpoint's.   *)
(***************************************************************************)
LiveRun == step = "live"
           /\ RunIncoming(IF live # None THEN live ELSE ckpt, mem.head, "liveRegister")
LiveRegister == step = "liveRegister" /\ Register(mem.head, "liveSave")
LiveSave ==
  /\ step = "liveSave"
  /\ live' = mem.cursor
  /\ step' = "spent"
  /\ UNCHANGED <<ownerGen, ckpt, ckptAt, notes, mem>>
  /\ Own

RefreshSpent ==
  /\ step = "spent"
  /\ notes' = [i \in Indices |->
       IF i \in Known THEN SetNoteSpent(notes[i], Spent(blocks, i, mem.head)) ELSE notes[i]]
  /\ step' = "gen"
  /\ UNCHANGED <<ownerGen, live, ckpt, ckptAt, mem>>
  /\ Own

(***************************************************************************)
(* The generation read at the start is the one the cursors stand for.      *)
(***************************************************************************)
\* Mutant: the generation of the moment is recorded.
SeenGenerationNow == generation
SeenGeneration == mem.gen
SaveGen ==
  /\ step = "gen"
  /\ ownerGen' = SeenGeneration
  /\ step' = "report"
  /\ UNCHANGED <<live, ckpt, ckptAt, notes, mem>>
  /\ Own

(***************************************************************************)
(* The report is returned, a call fails, or the process dies.              *)
(***************************************************************************)
SyncEnds ==
  /\ ~sdk
  /\ step # "idle"
  /\ step' = "idle" /\ mem' = Idle
  /\ UNCHANGED <<ownerVars>>
  /\ Own

(***************************************************************************)
(* The report of the browser reads every registered note's slot at the     *)
(* checkpoint, and is cached under its stamp.                              *)
(***************************************************************************)
SdkReport ==
  /\ sdk /\ step = "report"
  /\ cache' = [stamp |-> Stamp, block |-> cp,
               notes |-> [i \in Known |->
                           [at |-> NoteAt(blocks, i, cp), spent |-> notes[i].spent]]]
  /\ step' = "idle" /\ mem' = Idle
  /\ UNCHANGED <<feedVars, storeVars, ownerVars, sdk, cp, fresh, syncs>>

SyncStep ==
  \/ SyncStart
  \/ \E n \in 1..MaxLen : SdkApply(n)
  \/ SdkDiscover
  \/ Rewind
  \/ Prune
  \/ CkptRun
  \/ CkptSkip
  \/ CkptRegister
  \/ CkptSave
  \/ CkptAtSave
  \/ LiveRun
  \/ LiveRegister
  \/ LiveSave
  \/ RefreshSpent
  \/ SaveGen
  \/ SyncEnds
  \/ SdkReport

Next == FeedStep \/ OtherApplies \/ SyncStep
Spec == Init /\ [][Next]_vars
-----------------------------------------------------------------------------
(***************************************************************************)
(* Balances are right: at the report of a sync that had the store to       *)
(* itself the registry has exactly the notes of the mirror at the head,    *)
(* their spent flags are the chain's, and every unspent note carries the   *)
(* amount its block on the present branch wrote, whatever reorganisations, *)
(* deaths and other owners' syncs came before (discover_state).            *)
(***************************************************************************)
BalancesExact ==
  step = "report" /\ fresh =>
    /\ Known = 1..NoteCount(blocks, mem.head)
    /\ \A i \in Known :
         /\ notes[i].spent = Spent(blocks, i, mem.head)
         /\ ~notes[i].spent => notes[i].at = NoteAt(blocks, i, mem.head)

(***************************************************************************)
(* "Every owner whose cursors were computed at an older generation         *)
(* rewinds, regardless of who consumed the ETag edge or whether the        *)
(* process died in between": between syncs, cursors and unspent notes on   *)
(* record under the present generation are those of the present rows.      *)
(***************************************************************************)
CursorsMatchGeneration ==
  step = "idle" /\ ownerGen = generation =>
    /\ live <= NoteCount(blocks, MaxLen)
    /\ ckpt <= NoteCount(blocks, MaxLen)
    /\ \A i \in Known : ~notes[i].spent => notes[i].at = NoteAt(blocks, i, MaxLen)

(***************************************************************************)
(* A cached report is the one a fresh discovery would give: while it       *)
(* answers for the verified checkpoint (sdk.rs discover, the stamp), it    *)
(* lists exactly the notes of the mirror at that block with their values   *)
(* and spent flags, whatever reorganisations, lower checkpoints and        *)
(* applied tails came since it was written.                                *)
(***************************************************************************)
ReportFresh ==
  cp > 0 /\ cache.stamp = Stamp =>
    cache.notes = [i \in 1..NoteCount(blocks, cp) |->
                     [at |-> NoteAt(blocks, i, cp), spent |-> Spent(blocks, i, cp)]]
=============================================================================
