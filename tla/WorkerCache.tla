---------------------------- MODULE WorkerCache ----------------------------
(***************************************************************************)
(* The local cache of the browser worker: save, scheduleSave, clear, close *)
(* and init of WorkerRuntime (ts/strk20-discovery/src/worker.ts) over the  *)
(* one-record stores of storage.ts and node-cache.ts.  Disk writes run     *)
(* beside the command queue: a write may land after the state it was taken *)
(* from has changed, has been cleared, or after the worker died.           *)
(*                                                                         *)
(* The state of the engine is the number of the change that made it, 0     *)
(* when it is empty.                                                       *)
(***************************************************************************)
EXTENDS Integers

CONSTANTS
  MaxChanges,  \* bound: applied syncs and new discovery reports
  MaxClears,   \* bound: clear commands
  MaxFaults,   \* bound: writes and clears that fail
  MaxRestarts, \* bound: workers that died or were closed and opened again
  ClearWhen    \* "quiet": no save waits behind a write when a clear starts; "any"

VARIABLES
  made,        \* changes made so far
  state,       \* what the engine holds
  rev,         \* Engine.cache_revision
  saved,       \* this.savedRevision
  disk,        \* the record in the cache, 0 if none
  writing,     \* this.writing: the revision and state being written
  waiting,     \* calls of save that wait for it
  timer,       \* this.saveTimer is set
  clearing,    \* this.clearing
  cmd,         \* the command in progress
  failed,      \* the last change could not be written
  cleared,     \* changes made when the cache was last cleared
  clears,
  faults,
  restarts

engineVars == <<made, state, rev>>
saveVars   == <<saved, disk, writing, waiting, timer, failed>>
clearVars  == <<clearing, cmd, cleared>>
boundVars  == <<clears, faults, restarts>>
vars == <<engineVars, saveVars, clearVars, boundVars>>

ASSUME CacheAssumption ==
  /\ MaxChanges \in Nat /\ MaxClears \in Nat /\ MaxFaults \in Nat /\ MaxRestarts \in Nat
  /\ ClearWhen \in {"quiet", "any"}

None == {}
Init ==
  /\ made = 0 /\ state = 0 /\ rev = 0
  /\ saved = -1 /\ disk = 0 /\ writing = None /\ waiting = 0 /\ timer = FALSE /\ failed = FALSE
  /\ clearing = FALSE /\ cmd = "idle" /\ cleared = 0
  /\ clears = 0 /\ faults = 0 /\ restarts = 0
-----------------------------------------------------------------------------
(***************************************************************************)
(* scheduleSave arms one timer, unless the runtime stops or clears.        *)
(***************************************************************************)
Stopped == cmd \in {"close", "closed"}
\* Mutant: no timer is armed while a write is in progress.
ArmedIdle(set, r, s) == set \/ (~Stopped /\ ~clearing /\ r # s /\ writing = None)
Armed(set, r, s) == set \/ (~Stopped /\ ~clearing /\ r # s)

(***************************************************************************)
(* An applied sync, or a report that discover had not stored: a revision   *)
(* of its own, and a timer.                                                *)
(***************************************************************************)
Change ==
  /\ cmd = "idle"
  /\ made < MaxChanges
  /\ made' = made + 1 /\ state' = made + 1 /\ rev' = rev + 1
  /\ timer' = Armed(timer, rev + 1, saved)
  /\ failed' = FALSE
  /\ UNCHANGED <<saved, disk, writing, waiting, clearVars, boundVars>>

(***************************************************************************)
(* save: behind the write in progress; nothing if this revision is saved;  *)
(* else the revision and the bytes are taken together and written.         *)
(***************************************************************************)
Unsaved(s) == state # 0 /\ rev # s
Take == {[rev |-> rev, state |-> state]}
TimerFires ==
  /\ timer
  /\ timer' = FALSE
  /\ \/ writing # None /\ waiting' = waiting + 1 /\ UNCHANGED writing
     \/ /\ writing = None
        /\ writing' = IF Unsaved(saved) THEN Take ELSE None
        /\ UNCHANGED waiting
  /\ UNCHANGED <<engineVars, saved, disk, failed, clearVars, boundVars>>

(***************************************************************************)
(* The record is replaced in one transaction.  The calls that wait look    *)
(* again: the first takes the next state, the rest wait for that.  The     *)
(* write that ends schedules the next one.                                 *)
(***************************************************************************)
\* Mutant: the revision at completion is recorded as saved.
RevisionNow(w) == rev
RevisionOf(w) == w.rev
WriteLands ==
  /\ \E w \in writing :
       /\ disk' = w.state
       /\ saved' = RevisionOf(w)
       /\ \/ /\ waiting > 0 /\ Unsaved(RevisionOf(w))
             /\ writing' = Take /\ waiting' = waiting - 1
          \/ /\ waiting = 0 \/ ~Unsaved(RevisionOf(w))
             /\ writing' = None /\ waiting' = 0
       /\ timer' = Armed(timer, rev, RevisionOf(w))
       /\ cmd' = IF cmd = "clear" THEN "wipe" ELSE cmd
  /\ UNCHANGED <<engineVars, failed, clearing, cleared, boundVars>>
WriteFails ==
  /\ writing # None
  /\ faults < MaxFaults /\ faults' = faults + 1
  /\ writing' = None /\ waiting' = 0
  /\ failed' = TRUE
  /\ cmd' = CASE cmd = "clear" -> "wipe" [] cmd = "close" -> "closed" [] OTHER -> cmd
  /\ UNCHANGED <<engineVars, saved, disk, timer, clearing, cleared, clears, restarts>>

(***************************************************************************)
(* clear: the timer goes, the write in progress is waited for, the record  *)
(* is deleted and the engine starts over.                                  *)
(***************************************************************************)
\* Mutant: the write in progress is not waited for.
ClearAtOnce == "wipe"
ClearStep == IF writing = None THEN "wipe" ELSE "clear"
ClearStarts ==
  /\ cmd = "idle"
  /\ clears < MaxClears /\ clears' = clears + 1
  /\ ClearWhen = "any" \/ waiting = 0
  /\ clearing' = TRUE /\ timer' = FALSE
  /\ cmd' = ClearStep
  /\ UNCHANGED <<engineVars, saved, disk, writing, waiting, failed, cleared, faults, restarts>>
Wiped ==
  /\ cmd = "wipe"
  /\ disk' = 0 /\ cleared' = made
  /\ state' = 0 /\ rev' = 0 /\ saved' = -1
  /\ clearing' = FALSE /\ cmd' = "idle"
  /\ UNCHANGED <<made, writing, waiting, timer, failed, boundVars>>
WipeFails ==
  /\ cmd = "wipe"
  /\ faults < MaxFaults /\ faults' = faults + 1
  /\ cmd' = "idle"
  /\ UNCHANGED <<engineVars, saveVars, clearing, cleared, clears, restarts>>

(***************************************************************************)
(* close: nothing more is scheduled; a last save, behind those under way.  *)
(***************************************************************************)
CloseStarts ==
  /\ cmd = "idle"
  /\ cmd' = "close" /\ timer' = FALSE
  /\ UNCHANGED <<engineVars, saved, disk, writing, waiting, failed, clearing, cleared, boundVars>>
\* Mutant: what a write was taken from before the close is enough.
LastSaveFirst == saved < 0 /\ Unsaved(saved)
LastSave == Unsaved(saved)
CloseSaves ==
  /\ cmd = "close" /\ writing = None
  /\ \/ LastSave /\ writing' = Take /\ UNCHANGED cmd
     \/ ~LastSave /\ cmd' = "closed" /\ UNCHANGED writing
  /\ UNCHANGED <<engineVars, saved, disk, waiting, timer, failed, clearing, cleared, boundVars>>

(***************************************************************************)
(* The worker is terminated, at any time, and the next one restores what   *)
(* the cache holds: revision 0 of its engine, which is on disk.            *)
(***************************************************************************)
Restart ==
  /\ restarts < MaxRestarts /\ restarts' = restarts + 1
  /\ state' = disk /\ rev' = 0
  /\ saved' = IF disk = 0 THEN -1 ELSE 0
  /\ writing' = None /\ waiting' = 0 /\ timer' = FALSE /\ failed' = FALSE
  /\ clearing' = FALSE /\ cmd' = "idle"
  /\ UNCHANGED <<made, disk, cleared, clears, faults>>

Next ==
  \/ Change
  \/ TimerFires
  \/ WriteLands
  \/ WriteFails
  \/ ClearStarts
  \/ Wiped
  \/ WipeFails
  \/ CloseStarts
  \/ CloseSaves
  \/ Restart
\* Timers fire and the transactions of the cache end.
CacheFairness ==
  WF_vars(TimerFires) /\ WF_vars(WriteLands) /\ WF_vars(Wiped) /\ WF_vars(CloseSaves)
CacheSpec == Init /\ [][Next]_vars /\ CacheFairness
-----------------------------------------------------------------------------
(***************************************************************************)
(* "One writer and a revision keep an old completion from marking new      *)
(* state as saved" (scheduleSave): a revision that counts as saved is the  *)
(* record on disk, so a skipped save loses nothing.                        *)
(***************************************************************************)
SavedIsOnDisk == saved = rev => disk = state

(***************************************************************************)
(* "Clearing it discards discovery state" (README of strk20-discovery): no *)
(* state from before a clear is in the cache after it, so that none comes  *)
(* back with the next worker (clear).                                      *)
(***************************************************************************)
ClearedIsGone == disk = 0 \/ disk > cleared

(***************************************************************************)
(* "close() stops it, flushes pending cache writes": a closed worker left  *)
(* its last state on disk, unless that could not be written (close, save). *)
(***************************************************************************)
ClosedIsFlushed == cmd = "closed" => state = 0 \/ disk = state \/ failed

(***************************************************************************)
(* "Changed state saves in the background": the state a worker settles on  *)
(* reaches the disk, unless its write failed, and a clear that failed      *)
(* stops it (scheduleSave, save).                                          *)
(***************************************************************************)
StateIsSaved == <>[](state = 0 \/ disk = state \/ failed \/ clearing)
=============================================================================
