------------------------- MODULE WorkerCacheProofs -------------------------
(***************************************************************************)
(* Theorems about WorkerCache, for any number of changes, clears, failed   *)
(* writes and deaths, while no save waits behind a write when a clear      *)
(* starts (ClearWhen = "quiet").                                           *)
(***************************************************************************)
EXTENDS WorkerCache, TLAPS

Commands == {"idle", "clear", "wipe", "close", "closed"}
FlagTypes == timer \in BOOLEAN /\ failed \in BOOLEAN /\ clearing \in BOOLEAN
CacheTypeOK ==
  /\ made \in Nat /\ state \in Nat /\ rev \in Nat
  /\ saved \in Int /\ disk \in Nat
  /\ writing \subseteq [rev : Nat, state : Nat]
  /\ waiting \in Nat /\ cmd \in Commands /\ cleared \in Nat
  /\ FlagTypes

(***************************************************************************)
(* A revision names one state: what is being written under the revision of *)
(* the engine is the engine's state, and neither it nor what is saved is   *)
(* ahead of the engine.                                                    *)
(***************************************************************************)
RevisionNames ==
  /\ saved <= rev
  /\ saved = rev => disk = state
  /\ \A w \in writing : w.rev <= rev /\ (w.rev = rev => w.state = state)

(***************************************************************************)
(* Whatever may still reach the disk was made after the last clear.        *)
(***************************************************************************)
After(s) == s <= made /\ (s = 0 \/ cleared < s)
NothingOld ==
  /\ cleared <= made
  /\ After(disk) /\ After(state) /\ \A w \in writing : After(w.state)

(***************************************************************************)
(* A clear or close is alone with the write in progress: nothing is        *)
(* scheduled beside it, and a clear that deletes the record has no write   *)
(* left to wait for.                                                       *)
(***************************************************************************)
CommandAlone ==
  /\ cmd # "idle" => ~timer
  /\ cmd \in {"clear", "wipe"} => clearing /\ waiting = 0
  /\ cmd \in {"wipe", "closed"} => writing = None

CacheInv == CacheTypeOK /\ RevisionNames /\ NothingOld /\ CommandAlone /\ ClosedIsFlushed
-----------------------------------------------------------------------------
USE CacheAssumption

LEMMA InitCache == Init => CacheInv
<1> SUFFICES ASSUME Init PROVE CacheInv
  OBVIOUS
<1> USE DEF Init, None
<1>0. FlagTypes
  BY Zenon DEF FlagTypes
<1>1. CacheTypeOK
  BY <1>0 DEF CacheTypeOK, Commands
<1>2. RevisionNames
  BY DEF RevisionNames
<1>3. NothingOld
  BY DEF NothingOld, After
<1>4. CommandAlone /\ ClosedIsFlushed
  BY DEF CommandAlone, ClosedIsFlushed
<1> QED
  BY <1>1, <1>2, <1>3, <1>4 DEF CacheInv

(***************************************************************************)
(* What save takes to write is the engine's state under its revision.      *)
(***************************************************************************)
LEMMA TakeNames ==
  ASSUME CacheInv
  PROVE  /\ Take \subseteq [rev : Nat, state : Nat]
         /\ \A w \in Take : w.rev = rev /\ w.state = state /\ After(w.state)
BY DEF Take, CacheInv, CacheTypeOK, NothingOld

LEMMA ChangeInv == CacheInv /\ Change => CacheInv'
<1> SUFFICES ASSUME CacheInv, Change PROVE CacheInv'
  OBVIOUS
<1> USE DEF CacheInv, Change, clearVars, boundVars
<1>1. FlagTypes'
  BY Zenon DEF Armed, CacheTypeOK, FlagTypes
<1>2. CacheTypeOK'
  BY <1>1 DEF CacheTypeOK, Commands
<1>3. RevisionNames'
  BY DEF RevisionNames, CacheTypeOK
<1>4. NothingOld'
  BY DEF NothingOld, After, CacheTypeOK
<1>5. CommandAlone' /\ ClosedIsFlushed'
  BY DEF CommandAlone, ClosedIsFlushed
<1> QED
  BY <1>2, <1>3, <1>4, <1>5

LEMMA TimerFiresInv == CacheInv /\ TimerFires => CacheInv'
<1> SUFFICES ASSUME CacheInv, TimerFires PROVE CacheInv'
  OBVIOUS
<1> USE DEF CacheInv, TimerFires, engineVars, clearVars, boundVars
<1>1. writing' \in {writing, Take, None} /\ waiting' \in Nat
  BY DEF CacheTypeOK
<1>0. FlagTypes'
  BY Zenon DEF CacheTypeOK, FlagTypes
<1>2. CacheTypeOK'
  BY <1>0, <1>1, TakeNames DEF CacheTypeOK, None
<1>3. RevisionNames'
  BY <1>1, TakeNames DEF RevisionNames, CacheTypeOK, None
<1>4. NothingOld'
  BY <1>1, TakeNames DEF NothingOld, After, None
<1>5. CommandAlone' /\ ClosedIsFlushed'
  BY DEF CommandAlone, ClosedIsFlushed
<1> QED
  BY <1>2, <1>3, <1>4, <1>5

LEMMA WriteLandsInv == CacheInv /\ WriteLands => CacheInv'
<1> SUFFICES ASSUME CacheInv, WriteLands PROVE CacheInv'
  OBVIOUS
<1> USE DEF CacheInv
<1>1. PICK w \in writing :
        /\ disk' = w.state /\ saved' = w.rev
        /\ \/ waiting > 0 /\ writing' = Take /\ waiting' = waiting - 1
           \/ writing' = None /\ waiting' = 0
        /\ timer' = Armed(timer, rev, w.rev)
        /\ cmd' = IF cmd = "clear" THEN "wipe" ELSE cmd
        /\ UNCHANGED <<made, state, rev, failed, clearing, cleared>>
  BY DEF WriteLands, RevisionOf, engineVars
<1>2. w.rev \in Nat /\ w.state \in Nat /\ w.rev <= rev /\ (w.rev = rev => w.state = state)
  BY <1>1 DEF CacheTypeOK, RevisionNames
<1>0. FlagTypes'
  BY <1>1, Zenon DEF CacheTypeOK, FlagTypes, Armed
<1>3. writing' \in {Take, None} /\ waiting' \in Nat
  BY <1>1 DEF CacheTypeOK
<1>4. CacheTypeOK'
  BY <1>0, <1>1, <1>2, <1>3, TakeNames DEF CacheTypeOK, Commands, None
<1>5. RevisionNames'
  BY <1>1, <1>2, <1>3, TakeNames DEF RevisionNames, CacheTypeOK, None
<1>6. NothingOld'
  BY <1>1, <1>3, TakeNames DEF NothingOld, After, None
<1>7. cmd \in {"idle", "clear", "close"}
  BY <1>1 DEF CommandAlone, CacheTypeOK, Commands, None
<1>8. CASE cmd = "clear"
  <2>1. writing' = None /\ waiting' = 0 /\ cmd' = "wipe" /\ clearing'
    BY <1>1, <1>8 DEF CommandAlone
  <2>2. ~timer'
    BY <1>1, <1>8, Zenon DEF CommandAlone, Armed
  <2> QED
    BY <1>4, <1>5, <1>6, <2>1, <2>2 DEF CommandAlone, ClosedIsFlushed
<1>9. CASE cmd # "clear"
  <2>1. cmd' = cmd
    BY <1>1, <1>9
  <2>2. cmd = "close" => ~timer'
    BY <1>1, Zenon DEF CommandAlone, Armed, Stopped
  <2> QED
    BY <1>4, <1>5, <1>6, <1>7, <1>9, <2>1, <2>2 DEF CommandAlone, ClosedIsFlushed
<1> QED
  BY <1>8, <1>9

LEMMA WriteFailsInv == CacheInv /\ WriteFails => CacheInv'
<1> SUFFICES ASSUME CacheInv, WriteFails PROVE CacheInv'
  OBVIOUS
<1> USE DEF CacheInv, WriteFails, engineVars, None
<1>0. FlagTypes'
  BY Zenon DEF CacheTypeOK, FlagTypes
<1>1. cmd' \in Commands
  BY DEF CacheTypeOK, Commands
<1>2. CacheTypeOK'
  BY <1>0, <1>1 DEF CacheTypeOK
<1>3. RevisionNames' /\ NothingOld'
  BY DEF RevisionNames, NothingOld, After
<1>4. CommandAlone' /\ ClosedIsFlushed'
  BY DEF CommandAlone, ClosedIsFlushed, CacheTypeOK, Commands
<1> QED
  BY <1>2, <1>3, <1>4

LEMMA ClearStartsInv == ClearWhen = "quiet" /\ CacheInv /\ ClearStarts => CacheInv'
<1> SUFFICES ASSUME ClearWhen = "quiet", CacheInv, ClearStarts PROVE CacheInv'
  OBVIOUS
<1> USE DEF CacheInv, ClearStarts, ClearStep, engineVars
<1>0. FlagTypes'
  BY Zenon DEF CacheTypeOK, FlagTypes
<1>1. CacheTypeOK'
  BY <1>0 DEF CacheTypeOK, Commands
<1>2. RevisionNames' /\ NothingOld'
  BY DEF RevisionNames, NothingOld, After
<1>3. CommandAlone' /\ ClosedIsFlushed'
  BY DEF CommandAlone, ClosedIsFlushed
<1> QED
  BY <1>1, <1>2, <1>3

LEMMA WipedInv == CacheInv /\ (Wiped \/ WipeFails) => CacheInv'
<1> SUFFICES ASSUME CacheInv, Wiped \/ WipeFails PROVE CacheInv'
  OBVIOUS
<1> USE DEF CacheInv, Wiped, WipeFails, engineVars, saveVars, boundVars
<1>0. FlagTypes'
  BY Zenon DEF CacheTypeOK, FlagTypes
<1>1. CacheTypeOK'
  BY <1>0 DEF CacheTypeOK, Commands
<1>2. RevisionNames' /\ NothingOld'
  BY DEF RevisionNames, NothingOld, After, CommandAlone, None, CacheTypeOK
<1>3. CommandAlone' /\ ClosedIsFlushed'
  BY DEF CommandAlone, ClosedIsFlushed
<1> QED
  BY <1>1, <1>2, <1>3

LEMMA CloseInv == CacheInv /\ (CloseStarts \/ CloseSaves) => CacheInv'
<1> SUFFICES ASSUME CacheInv, CloseStarts \/ CloseSaves PROVE CacheInv'
  OBVIOUS
<1> USE DEF CacheInv, CloseStarts, CloseSaves, engineVars, boundVars
<1>1. writing' \in {writing, Take}
  OBVIOUS
<1>0. FlagTypes'
  BY Zenon DEF CacheTypeOK, FlagTypes
<1>2. CacheTypeOK'
  BY <1>0, <1>1, TakeNames DEF CacheTypeOK, Commands
<1>3. RevisionNames'
  BY <1>1, TakeNames DEF RevisionNames, CacheTypeOK
<1>4. NothingOld'
  BY <1>1, TakeNames DEF NothingOld, After
<1>5. CommandAlone'
  BY DEF CommandAlone
<1>6. ClosedIsFlushed'
  BY DEF ClosedIsFlushed, LastSave, Unsaved, RevisionNames
<1> QED
  BY <1>2, <1>3, <1>4, <1>5, <1>6

LEMMA RestartInv == CacheInv /\ Restart => CacheInv'
<1> SUFFICES ASSUME CacheInv, Restart PROVE CacheInv'
  OBVIOUS
<1> USE DEF CacheInv, Restart, None
<1>0. FlagTypes'
  BY Zenon DEF CacheTypeOK, FlagTypes
<1>1. CacheTypeOK'
  BY <1>0 DEF CacheTypeOK, Commands
<1>2. RevisionNames'
  BY DEF RevisionNames, CacheTypeOK
<1>3. NothingOld'
  BY DEF NothingOld, After
<1>4. CommandAlone' /\ ClosedIsFlushed'
  BY DEF CommandAlone, ClosedIsFlushed
<1> QED
  BY <1>1, <1>2, <1>3, <1>4

LEMMA NextCache == ClearWhen = "quiet" /\ CacheInv /\ [Next]_vars => CacheInv'
<1> SUFFICES ASSUME ClearWhen = "quiet", CacheInv, [Next]_vars PROVE CacheInv'
  OBVIOUS
<1>1. CASE Next
  BY <1>1, ChangeInv, TimerFiresInv, WriteLandsInv, WriteFailsInv, ClearStartsInv, WipedInv,
     CloseInv, RestartInv DEF Next
<1>2. CASE UNCHANGED vars
  BY <1>2 DEF CacheInv, CacheTypeOK, FlagTypes, RevisionNames, NothingOld, After, CommandAlone,
     ClosedIsFlushed, vars, engineVars, saveVars, clearVars
<1> QED
  BY <1>1, <1>2

LEMMA CacheInvHolds ==
  ASSUME ClearWhen = "quiet"
  PROVE  CacheSpec => []CacheInv
<1>1. CacheInv /\ [Next]_vars => CacheInv'
  BY NextCache
<1> QED
  BY <1>1, InitCache, PTL DEF CacheSpec

(***************************************************************************)
(* A revision that counts as saved is the record on disk (save,            *)
(* scheduleSave), whatever lands late, fails or dies.                      *)
(***************************************************************************)
THEOREM SavedStaysOnDisk ==
  ASSUME ClearWhen = "quiet"
  PROVE  CacheSpec => []SavedIsOnDisk
<1>1. CacheInv => SavedIsOnDisk
  BY DEF CacheInv, RevisionNames, SavedIsOnDisk
<1> QED
  BY <1>1, CacheInvHolds, PTL

(***************************************************************************)
(* No state from before a clear is on disk after it (clear), also when a   *)
(* write was in progress and when the worker is started again.             *)
(***************************************************************************)
THEOREM ClearedStaysGone ==
  ASSUME ClearWhen = "quiet"
  PROVE  CacheSpec => []ClearedIsGone
<1>1. CacheInv => ClearedIsGone
  BY DEF CacheInv, CacheTypeOK, NothingOld, After, ClearedIsGone
<1> QED
  BY <1>1, CacheInvHolds, PTL

(***************************************************************************)
(* A closed worker has its last state on disk, unless the write failed     *)
(* (close).                                                                *)
(***************************************************************************)
THEOREM CloseFlushes ==
  ASSUME ClearWhen = "quiet"
  PROVE  CacheSpec => []ClosedIsFlushed
<1>1. CacheInv => ClosedIsFlushed
  BY DEF CacheInv
<1> QED
  BY <1>1, CacheInvHolds, PTL
=============================================================================
