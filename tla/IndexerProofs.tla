--------------------------- MODULE IndexerProofs ---------------------------
(***************************************************************************)
(* Theorems about Indexer, for every chain, epoch size, retention, batch   *)
(* size and number of faults: the types, the epoch floor, the              *)
(* implementation of FeedLog, the limits on recovery and, in the second    *)
(* half, what stored rows, heads and epochs say about the chain, and that  *)
(* epochs have no holes.                                                   *)
(***************************************************************************)
EXTENDS Indexer, TLAPS

(***************************************************************************)
(* FloorHolds is not inductive alone: Rollback and Checkpoint lower or set *)
(* the frontier to values an earlier step left in memory.  Those values    *)
(* are at or above the floor, because no epoch is cut in between.          *)
(***************************************************************************)
CycleKeepsFloor ==
  /\ pc = "rollback" => \A a \in reorg : Floor <= a
  /\ pc = "scan" => frontier <= latest.num
  /\ pc \in {"update", "ingest"} => Floor <= winEnd /\ winEnd <= latest.num

IndInv == TypeOK /\ FloorHolds /\ CycleKeepsFloor
-----------------------------------------------------------------------------
USE ChainAssumption, DbAssumption, IngestAssumption, IndexerAssumption

(***************************************************************************)
(* Epoch indices and bounds are naturals, and so is the floor.             *)
(***************************************************************************)
LEMMA EpochNat ==
  ASSUME NEW idx \in Nat
  PROVE  EpochFrom(idx) \in Nat /\ EpochTo(idx) \in Nat
<1>1. idx * EpochSize \in Nat
  OBVIOUS
<1> QED
  BY <1>1 DEF EpochFrom, EpochTo

LEMMA FirstEpochNat == FirstEpoch \in Nat
BY DEF FirstEpoch, Genesis

LEMMA FloorNat ==
  ASSUME DbTypeOK
  PROVE  Floor \in Nat
<1>1. CASE epochs = <<>>
  BY <1>1 DEF Floor
<1>2. CASE epochs # <<>>
  <2>1. epochs \in Seq(Epoch)
    BY DEF DbTypeOK
  <2>2. epochs[Len(epochs)] \in Epoch
    BY <1>2, <2>1
  <2> QED
    BY <1>2, <2>2 DEF Floor, Epoch
<1> QED
  BY <1>1, <1>2

LEMMA HashAtType ==
  ASSUME ChainTypeOK, NEW n \in Int
  PROVE  HashAt(n) \in Hashes
<1>1. CASE n \in 1..Len(chain)
  <2>1. chain[n] \in Block
    BY <1>1 DEF ChainTypeOK
  <2> QED
    BY <1>1, <2>1 DEF HashAt, Hashes, Block
<1>2. CASE n \notin 1..Len(chain)
  BY <1>2 DEF HashAt, Hashes
<1> QED
  BY <1>1, <1>2

LEMMA HeaderType ==
  ASSUME ChainTypeOK, NEW n \in 1..Len(chain)
  PROVE  HeaderAt(n) \in Header
<1>1. chain[n] \in Block /\ n \in 0..MaxHeight
  BY DEF ChainTypeOK
<1>2. HashAt(n - 1) \in Hashes
  BY HashAtType
<1> QED
  BY <1>1, <1>2 DEF HeaderAt, Header, Block, Hashes

(***************************************************************************)
(* The values a cycle's memory is reset to.                                *)
(***************************************************************************)
LEMMA VolatileType ==
  /\ NoHeader \in Header
  /\ Never \in [Heights -> Hashes]
  /\ NoUpdates \in [Heights -> [era : Hashes, kind : AllKinds]]
<1>1. NoHeader \in Header
  BY DEF NoHeader, Header, AllKinds
<1>2. Never \in [Heights -> Hashes]
  BY DEF Never, Hashes
<1>3. NoUpdates \in [Heights -> [era : Hashes, kind : AllKinds]]
  BY DEF NoUpdates, Hashes, AllKinds
<1> QED
  BY <1>1, <1>2, <1>3

LEMMA InitIndInv == Init => IndInv
<1> SUFFICES ASSUME Init PROVE IndInv
  OBVIOUS
<1>1. ChainTypeOK
  BY DEF Init, ChainInit, ChainTypeOK, Eras
<1>2. DbTypeOK
  <2>1. NoRow \in Row
    BY DEF NoRow, Row, Hashes, AllKinds
  <2>2. blocks \in [Heights -> Row] /\ classes \in [Heights -> Hashes]
    BY <2>1 DEF Init, DbInit, Never, Hashes
  <2>3. head \in [num : 0..MaxHeight, era : Hashes]
    BY DEF Init, DbInit, NoHead, Hashes
  <2>4. epochs \in Seq(Epoch)
    BY DEF Init, DbInit
  <2>5. latch \in BOOLEAN /\ recorded \in BOOLEAN
    BY Zenon DEF Init, DbInit
  <2>6. frontier \in 0..MaxHeight /\ l1Meta \in 0..MaxHeight /\ probe \in 0..MaxHeight
    BY DEF Init, DbInit
  <2>7. anchors = {} /\ snapshots = {}
    BY DEF Init, DbInit
  <2> QED
    BY <2>2, <2>3, <2>4, <2>5, <2>6, <2>7 DEF DbTypeOK
<1>3. IngestTypeOK
  <2>1. supplied \in BOOLEAN /\ deep \in BOOLEAN
    BY Zenon DEF Init, IngestInit
  <2>2. pc \in Phases /\ winEnd \in 0..MaxHeight
    BY DEF Init, IngestInit, Phases, PollPhase
  <2>3. reorg \in {{}} \cup {{a} : a \in 0..MaxHeight}
    BY DEF Init, IngestInit
  <2> QED
    BY <2>1, <2>2, <2>3, VolatileType DEF Init, IngestInit, IngestTypeOK
<1>4. TypeOK
  BY <1>1, <1>2, <1>3 DEF Init, IngestInit, TypeOK, CutTypeOK, StaleTypeOK
<1>5. FloorHolds /\ CycleKeepsFloor
  BY DEF Init, DbInit, IngestInit, FloorHolds, CycleKeepsFloor, Floor
<1> QED
  BY <1>4, <1>5 DEF IndInv
-----------------------------------------------------------------------------
(***************************************************************************)
(* What a step that leaves a group of variables alone preserves.           *)
(***************************************************************************)
LEMMA SameDb ==
  ASSUME DbTypeOK, UNCHANGED dbVars
  PROVE  DbTypeOK'
<1>1. /\ blocks' = blocks /\ frontier' = frontier /\ head' = head /\ l1Meta' = l1Meta
      /\ classes' = classes /\ anchors' = anchors /\ epochs' = epochs
      /\ snapshots' = snapshots /\ probe' = probe /\ latch' = latch
      /\ recorded' = recorded
  BY DEF dbVars
<1> QED
  BY <1>1, Zenon DEF DbTypeOK

LEMMA SameChain ==
  ASSUME ChainTypeOK, UNCHANGED chainVars
  PROVE  ChainTypeOK'
BY Zenon DEF ChainTypeOK, chainVars

LEMMA SameFloor ==
  ASSUME FloorHolds, UNCHANGED <<epochs, frontier, l1Meta>>
  PROVE  FloorHolds'
BY Zenon DEF FloorHolds, Floor

LEMMA SameMemory ==
  ASSUME IngestTypeOK, SameCycle, pc' \in Phases
  PROVE  IngestTypeOK'
BY Zenon DEF IngestTypeOK, SameCycle

LEMMA ResetMemory ==
  ASSUME NEW p \in Phases, Volatile(p)
  PROVE  IngestTypeOK'
<1>1. supplied' \in BOOLEAN /\ deep' \in BOOLEAN
  BY Zenon DEF Volatile
<1>2. pc' \in Phases /\ winEnd' \in 0..MaxHeight
  BY DEF Volatile
<1>3. reorg' \in {{}} \cup {{a} : a \in 0..MaxHeight}
  BY DEF Volatile
<1>4. /\ latest' = NoHeader /\ announced' = NoHeader
      /\ active' = Never /\ updates' = NoUpdates
  BY DEF Volatile
<1> QED
  BY <1>1, <1>2, <1>3, <1>4, VolatileType DEF IngestTypeOK

LEMMA OutOfCycle ==
  ASSUME pc' \in CutPhase \cup {"idle"}
  PROVE  CycleKeepsFloor'
BY DEF CycleKeepsFloor, CutPhase
-----------------------------------------------------------------------------
(***************************************************************************)
(* Headers of abandoned blocks are kept only if notices may be late.       *)
(***************************************************************************)
LEMMA ChainStepStale ==
  ASSUME TypeOK, ChainStep
  PROVE  StaleTypeOK'
<1> USE DEF TypeOK, StaleTypeOK
<1>1. ASSUME NEW n \in Visible
      PROVE  HeaderAt(n) \in Header /\ 0 < HeaderAt(n).num
  <2>1. n \in 1..Len(chain)
    BY DEF Visible, Heights, ChainTypeOK
  <2>2. HeaderAt(n).num = n
    BY DEF HeaderAt
  <2> QED
    BY <2>1, <2>2, HeaderType
<1>2. ASSUME NEW a \in l1..MaxHeight, Abandoned(a)
      PROVE  stale' \subseteq {h \in Header : LateNotice /\ 0 < h.num}
  <2>1. CASE LateNotice
    BY <1>1, <1>2, <2>1 DEF Abandoned
  <2>2. CASE ~LateNotice
    BY <1>2, <2>2 DEF Abandoned
  <2> QED
    BY <2>1, <2>2
<1>3. CASE ReorgNotice
  BY <1>3 DEF ReorgNotice
<1>4. CASE UNCHANGED stale
  BY <1>4
<1> QED
  BY <1>2, <1>3, <1>4, Zenon DEF ChainStep

LEMMA ChainStepInv == IndInv /\ ChainStep => IndInv'
<1> SUFFICES ASSUME IndInv, ChainStep PROVE IndInv'
  OBVIOUS
<1> USE DEF IndInv, TypeOK
<1>1. ChainTypeOK'
  <2>1. CASE \E k \in Kinds : Extend(k)
    <3> PICK k \in Kinds : Extend(k)
      BY <2>1
    <3>1. [era |-> era, kind |-> k] \in Block
      BY DEF Block, ChainTypeOK
    <3> QED
      BY <3>1 DEF Extend, ChainTypeOK
  <2>2. CASE \E n \in Heights : Finalize(n)
    BY <2>2 DEF Finalize, ChainTypeOK, Heights
  <2>3. CASE \E a \in l1..MaxHeight : Reorg(a)
    <3> PICK a \in l1..MaxHeight : Reorg(a)
      BY <2>3
    <3>1. a \in 0..Len(chain) /\ chain \in Seq(Block)
      BY DEF Reorg, ChainTypeOK
    <3>2. SubSeq(chain, 1, a) \in Seq(Block) /\ Len(SubSeq(chain, 1, a)) = a
      BY <3>1
    <3> QED
      BY <3>2 DEF Reorg, ChainTypeOK, Eras
  <2>4. CASE ReorgNotice
    BY <2>4, SameChain DEF ReorgNotice
  <2> QED
    BY <2>1, <2>2, <2>3, <2>4 DEF ChainStep
<1>2. UNCHANGED <<dbVars, cycleVars, cutVars, faults, closures>>
  BY DEF ChainStep
<1>3. DbTypeOK'
  BY <1>2, SameDb
<1>4. IngestTypeOK'
  <2>1. SameCycle /\ pc' = pc
    BY <1>2 DEF SameCycle, cycleVars
  <2> QED
    BY <2>1, SameMemory DEF IngestTypeOK
<1>5. FloorHolds'
  BY <1>2, SameFloor DEF dbVars
<1>6. CycleKeepsFloor'
  BY <1>2, Zenon DEF CycleKeepsFloor, Floor, dbVars, cycleVars
<1>7. StaleTypeOK'
  BY ChainStepStale
<1>8. TypeOK'
  BY <1>1, <1>2, <1>3, <1>4, <1>7, Zenon DEF cutVars, CutTypeOK
<1> QED
  BY <1>5, <1>6, <1>8
-----------------------------------------------------------------------------
(***************************************************************************)
(* The database transactions.                                              *)
(***************************************************************************)
LEMMA PromoteType ==
  ASSUME DbTypeOK, NEW upto \in Nat
  PROVE  PromoteL1(blocks, upto) \in [Heights -> Row]
<1>1. ASSUME NEW n \in Heights
      PROVE  [blocks[n] EXCEPT !.fin = TRUE] \in Row
  <2>1. blocks[n] \in Row
    BY DEF DbTypeOK
  <2> QED
    BY <2>1 DEF Row
<1> QED
  BY <1>1 DEF PromoteL1, DbTypeOK

LEMMA InsertType ==
  ASSUME DbTypeOK, NEW n \in Heights, NEW row \in Row, InsertBlockData(n, row)
  PROVE  DbTypeOK' /\ frontier <= frontier' /\ UNCHANGED <<l1Meta, epochs>>
<1>1. blocks' \in [Heights -> Row]
  BY DEF InsertBlockData, DbTypeOK
<1>2. classes' \in [Heights -> Hashes]
  BY DEF InsertBlockData, DbTypeOK, Row
<1>3. frontier' \in 0..MaxHeight /\ frontier <= frontier'
  BY DEF InsertBlockData, DbTypeOK, Heights
<1>4. UNCHANGED <<head, l1Meta, anchors, epochs, snapshots, probe, latch, recorded>>
  BY DEF InsertBlockData
<1>5. DbTypeOK'
  BY <1>1, <1>2, <1>3, <1>4, Zenon DEF DbTypeOK
<1> QED
  BY <1>3, <1>4, <1>5

LEMMA RollbackType ==
  ASSUME DbTypeOK, NEW a \in 0..MaxHeight, RollbackAbove(a)
  PROVE  /\ DbTypeOK'
         /\ UNCHANGED <<l1Meta, epochs>>
         /\ frontier' \in {a, frontier}
<1>1. blocks' \in [Heights -> Row]
  <2>1. NoRow \in Row
    BY DEF NoRow, Row, Hashes, AllKinds
  <2> QED
    BY <2>1 DEF RollbackAbove, DbTypeOK
<1>2. anchors' \subseteq Heights \X Hashes
  BY DEF RollbackAbove, DbTypeOK
<1>3. frontier' \in {a, frontier} /\ frontier' \in 0..MaxHeight /\ probe' \in 0..MaxHeight
  BY DEF RollbackAbove, DbTypeOK
<1>4. UNCHANGED <<head, l1Meta, classes, epochs, snapshots, latch, recorded>>
  BY DEF RollbackAbove
<1>5. DbTypeOK'
  BY <1>1, <1>2, <1>3, <1>4, Zenon DEF DbTypeOK
<1> QED
  BY <1>3, <1>4, <1>5
-----------------------------------------------------------------------------
(***************************************************************************)
(* The steps of the ingest cycle.                                          *)
(***************************************************************************)
(***************************************************************************)
(* What both head polls do: nothing, or a header of the chain to ingest up *)
(* to and a header that is of the chain or stale to check the head by.     *)
(***************************************************************************)
LEMMA PollEffect ==
  ASSUME TypeOK, PollStep
  PROVE  /\ pc = "idle" /\ stale' \subseteq stale
         /\ UNCHANGED <<reorg, deep, winEnd, active, updates, dbVars>>
         /\ \/ UNCHANGED <<pc, latest, announced, supplied>>
            \/ /\ pc' = "detect" /\ supplied' \in BOOLEAN
               /\ \E n \in 1..Len(chain) : latest' = HeaderAt(n)
               /\ announced' \in stale \/ \E n \in 1..Len(chain) : announced' = HeaderAt(n)
<1> USE DEF TypeOK
<1>1. Len(chain) \in Nat /\ Visible \subseteq 1..Len(chain)
  BY DEF Visible, Heights, ChainTypeOK
<1>2. CASE \E v \in Heights, s \in BOOLEAN : PollHead(v, s)
  <2>1. PICK v \in Heights, s \in BOOLEAN : PollHead(v, s)
    BY <1>2
  <2>2. v \in 1..Len(chain) /\ latest' = HeaderAt(v) /\ announced' = HeaderAt(v)
    BY <1>1, <2>1 DEF PollHead
  <2>3. supplied' \in BOOLEAN
    BY <2>1, Zenon DEF PollHead
  <2>4. /\ pc = "idle" /\ stale' = stale /\ pc' = "detect"
        /\ UNCHANGED <<reorg, deep, winEnd, active, updates, dbVars>>
    BY <2>1 DEF PollHead
  <2> QED
    BY <2>2, <2>3, <2>4
<1>3. CASE \E h \in Announcements, v \in Heights, w \in Heights, s \in BOOLEAN :
             PollAnnounced(h, v, w, s)
  <2>1. PICK h \in Announcements, v \in Heights, w \in Heights, s \in BOOLEAN :
               PollAnnounced(h, v, w, s)
    BY <1>3
  <2>2. /\ pc = "idle" /\ stale' \subseteq stale /\ UNCHANGED dbVars
        /\ v \in Visible /\ w \in Visible /\ (s => h.num <= Len(chain))
        /\ \/ UNCHANGED cycleVars
           \/ /\ pc' = "detect" /\ latest' = Served(h, v, w, s) /\ announced' = h
              /\ supplied' = s /\ UNCHANGED <<reorg, deep, winEnd, active, updates>>
    BY <2>1 DEF PollAnnounced
  <2>3. h \in stale \/ \E n \in 1..Len(chain) : h = HeaderAt(n)
    BY <1>1 DEF Announcements
  <2>4. h.num \in Nat /\ 0 < h.num
    BY <2>3 DEF StaleTypeOK, Header, HeaderAt
  <2>5. \E n \in 1..Len(chain) : Served(h, v, w, s) = HeaderAt(n)
    <3>1. CASE s \/ h.num <= v
      <4>1. h.num \in 1..Len(chain)
        BY <1>1, <2>2, <2>4, <3>1
      <4> QED
        BY <3>1, <4>1 DEF Served
    <3>2. CASE ~(s \/ h.num <= v)
      BY <1>1, <2>2, <3>2 DEF Served
    <3> QED
      BY <3>1, <3>2
  <2>6. CASE UNCHANGED cycleVars
    BY <2>2, <2>6 DEF cycleVars
  <2>7. CASE ~UNCHANGED cycleVars
    <3>1. pc' = "detect" /\ latest' = Served(h, v, w, s) /\ announced' = h
      BY <2>2, <2>7
    <3>2. supplied' \in BOOLEAN
      BY <2>2, <2>7, Zenon
    <3>3. UNCHANGED <<reorg, deep, winEnd, active, updates>>
      BY <2>2, <2>7
    <3> QED
      BY <2>2, <2>3, <2>5, <3>1, <3>2, <3>3
  <2> QED
    BY <2>6, <2>7
<1> QED
  BY <1>2, <1>3 DEF PollStep

LEMMA PollInv ==
  ASSUME IndInv, PollStep
  PROVE  DbTypeOK' /\ IngestTypeOK' /\ FloorHolds' /\ CycleKeepsFloor'
<1> USE DEF IndInv, TypeOK
<1>1. /\ UNCHANGED <<reorg, deep, winEnd, active, updates, dbVars>> /\ pc = "idle"
      /\ pc' \in {"idle", "detect"}
  BY PollEffect
<1>2. latest' \in Header /\ announced' \in Header
  <2>1. \A n \in 1..Len(chain) : HeaderAt(n) \in Header
    BY HeaderType
  <2> QED
    BY <2>1, PollEffect DEF IngestTypeOK, StaleTypeOK
<1>3. supplied' \in BOOLEAN
  BY PollEffect, Zenon DEF IngestTypeOK
<1>4. pc' \in Phases
  BY <1>1 DEF Phases, PollPhase
<1>5. IngestTypeOK'
  BY <1>1, <1>2, <1>3, <1>4, Zenon DEF IngestTypeOK
<1>6. DbTypeOK' /\ FloorHolds'
  BY <1>1, SameDb, SameFloor DEF dbVars
<1>7. CycleKeepsFloor'
  BY <1>1 DEF CycleKeepsFloor
<1> QED
  BY <1>5, <1>6, <1>7

LEMMA DetectAboveFloor ==
  ASSUME IndInv, NEW v \in Heights, NEW r, DetectReorg(v, r)
  PROVE  \A a \in r : Floor <= a
<1>1. \A a \in WalkbackStops(v) : Floor <= a
  BY FloorNat DEF WalkbackStops, IndInv, TypeOK, Stored, Heights
<1> QED
  BY <1>1 DEF DetectReorg

LEMMA DetectInv ==
  ASSUME IndInv, NEW v \in Heights, NEW ans \in L1Answers, Detect(v, ans)
  PROVE  DbTypeOK' /\ IngestTypeOK' /\ FloorHolds' /\ CycleKeepsFloor'
<1> USE DEF IndInv, TypeOK
<1>1. PICK r \in {{}} \cup {{a} : a \in 0..MaxHeight} :
        /\ DetectReorg(v, r)
        /\ IF r = {} /\ latest.num < frontier
           THEN Abort
           ELSE /\ reorg' = r
                /\ pc' = "rollback"
                /\ IF L1Rejected(ans)
                   THEN UNCHANGED <<l1Meta, blocks>>
                   ELSE /\ l1Meta' = ans.num
                        /\ blocks' = PromoteL1(blocks, ans.num)
                /\ UNCHANGED <<latest, announced, supplied, deep, winEnd, active,
                               updates, frontier, head, classes, anchors, epochs,
                               snapshots, probe, latch, recorded>>
  BY Zenon DEF Detect
<1>2. CASE r = {} /\ latest.num < frontier
  <2>1. Volatile("idle") /\ UNCHANGED dbVars
    BY <1>1, <1>2 DEF Abort
  <2>2. "idle" \in Phases /\ pc' = "idle"
    BY <2>1 DEF Phases, PollPhase, Volatile
  <2> QED
    BY <2>1, <2>2, ResetMemory, SameDb, SameFloor, OutOfCycle DEF dbVars
<1>3. CASE ~(r = {} /\ latest.num < frontier)
  <2>1. /\ reorg' = r /\ pc' = "rollback"
        /\ UNCHANGED <<latest, announced, supplied, deep, winEnd, active, updates,
                       frontier, head, classes, anchors, epochs, snapshots, probe,
                       latch, recorded>>
    BY <1>1, <1>3, Zenon
  <2>2. /\ l1Meta' \in 0..MaxHeight /\ l1Meta <= l1Meta'
        /\ blocks' \in [Heights -> Row]
    <3>1. CASE L1Rejected(ans)
      BY <1>1, <1>3, <3>1 DEF DbTypeOK
    <3>2. CASE ~L1Rejected(ans)
      <4>1. l1Meta' = ans.num /\ blocks' = PromoteL1(blocks, ans.num)
        BY <1>1, <1>3, <3>2
      <4>2. ans.num \in 0..MaxHeight
        BY DEF L1Answers, ChainTypeOK
      <4>3. l1Meta <= ans.num
        BY <3>2, <4>2 DEF L1Rejected, DbTypeOK
      <4>4. PromoteL1(blocks, ans.num) \in [Heights -> Row]
        BY <4>2, PromoteType
      <4> QED
        BY <4>1, <4>2, <4>3, <4>4
    <3> QED
      BY <3>1, <3>2
  <2>3. DbTypeOK'
    BY <2>1, <2>2, Zenon DEF DbTypeOK
  <2>4. IngestTypeOK'
    <3>1. pc' \in Phases
      BY <2>1 DEF Phases, PollPhase
    <3> QED
      BY <2>1, <3>1, Zenon DEF IngestTypeOK
  <2>5. FloorHolds'
    <3>1. Floor' = Floor
      BY <2>1 DEF Floor
    <3>2. Floor <= l1Meta'
      BY <2>2, FloorNat DEF FloorHolds, DbTypeOK
    <3> QED
      BY <2>1, <3>1, <3>2, Zenon DEF FloorHolds
  <2>6. CycleKeepsFloor'
    <3>1. \A a \in r : Floor <= a
      BY <1>1, DetectAboveFloor
    <3> QED
      BY <2>1, <3>1 DEF CycleKeepsFloor, Floor
  <2> QED
    BY <2>3, <2>4, <2>5, <2>6
<1> QED
  BY <1>2, <1>3

LEMMA RollbackInv ==
  ASSUME IndInv, Rollback
  PROVE  DbTypeOK' /\ IngestTypeOK' /\ FloorHolds' /\ CycleKeepsFloor'
<1> USE DEF IndInv, TypeOK
<1>1. DbTypeOK' /\ FloorHolds'
  <2>1. CASE reorg = {}
    <3>1. UNCHANGED dbVars
      BY <2>1 DEF Rollback
    <3> QED
      BY <3>1, SameDb, SameFloor DEF dbVars
  <2>2. CASE reorg # {}
    <3>1. PICK a \in reorg : RollbackAbove(a)
      BY <2>2 DEF Rollback
    <3>2. a \in 0..MaxHeight
      BY <3>1 DEF IngestTypeOK
    <3>3. Floor <= a
      BY <3>1 DEF CycleKeepsFloor, Rollback
    <3>4. /\ DbTypeOK' /\ l1Meta' = l1Meta /\ epochs' = epochs
          /\ frontier' \in {a, frontier}
      BY <3>1, <3>2, RollbackType
    <3>5. Floor' = Floor /\ Floor <= frontier'
      BY <3>3, <3>4 DEF Floor, FloorHolds
    <3> QED
      BY <3>4, <3>5, Zenon DEF FloorHolds
  <2> QED
    BY <2>1, <2>2
<1>2. /\ deep' = (latest.num - frontier' > TailSpan)
      /\ pc' = IF frontier' < latest.num THEN "scan" ELSE "finish"
      /\ reorg' = {} /\ announced' = NoHeader
      /\ UNCHANGED <<latest, supplied, winEnd, active, updates>>
  BY DEF Rollback
<1>3. latest.num \in 0..MaxHeight /\ frontier' \in 0..MaxHeight
  BY <1>1 DEF IngestTypeOK, Header, DbTypeOK
<1>4. IngestTypeOK'
  <2>1. deep' \in BOOLEAN
    <3>1. CASE latest.num - frontier' > TailSpan
      <4>1. (latest.num - frontier' > TailSpan) = TRUE
        BY <3>1
      <4> QED
        BY <1>2, <4>1, Zenon
    <3>2. CASE ~(latest.num - frontier' > TailSpan)
      <4>1. (latest.num - frontier' > TailSpan) = FALSE
        BY <3>2
      <4> QED
        BY <1>2, <4>1, Zenon
    <3> QED
      BY <3>1, <3>2
  <2>2. pc' \in Phases
    BY <1>2 DEF Phases, IngestPhase
  <2>3. reorg' \in {{}} \cup {{a} : a \in 0..MaxHeight}
    BY <1>2
  <2> QED
    BY <1>2, <2>1, <2>2, <2>3, VolatileType, Zenon DEF IngestTypeOK
<1>5. CycleKeepsFloor'
  <2>1. pc' \in {"scan", "finish"} /\ (pc' = "scan" => frontier' <= latest.num)
    BY <1>2, <1>3
  <2> QED
    BY <1>2, <2>1 DEF CycleKeepsFloor
<1> QED
  BY <1>1, <1>4, <1>5

(***************************************************************************)
(* A state update is a block's hash and kind.                              *)
(***************************************************************************)
LEMMA UpdateType ==
  ASSUME ChainTypeOK, IngestTypeOK, NEW n \in Heights, Answered(n)
  PROVE  UpdateOf(n) \in [era : Hashes, kind : AllKinds]
<1>1. CASE FromFeeder(n)
  BY <1>1 DEF UpdateOf, IngestTypeOK, Header, Hashes
<1>2. CASE ~FromFeeder(n)
  <2>1. n \in 1..Len(chain)
    BY <1>2 DEF Answered, Heights, ChainTypeOK
  <2>2. chain[n] \in Block
    BY <2>1 DEF ChainTypeOK
  <2> QED
    BY <1>2, <2>2 DEF UpdateOf, Block, Hashes
<1> QED
  BY <1>1, <1>2

LEMMA ScanInv ==
  ASSUME IndInv, Scan
  PROVE  DbTypeOK' /\ IngestTypeOK' /\ FloorHolds' /\ CycleKeepsFloor'
<1> USE DEF IndInv, TypeOK
<1>1. /\ winEnd' = WindowEnd
      /\ pc' = IF deep THEN "ingest" ELSE "update"
      /\ UNCHANGED <<latest, announced, supplied, reorg, deep, updates, dbVars>>
  BY DEF Scan
<1>2. /\ latest.num \in 0..MaxHeight /\ frontier \in 0..MaxHeight
      /\ frontier <= latest.num
  BY DEF Scan, IngestTypeOK, Header, DbTypeOK, CycleKeepsFloor
<1>3. /\ WindowEnd \in 0..MaxHeight
      /\ frontier <= WindowEnd /\ WindowEnd <= latest.num
  <2>1. PICK step \in Nat \ {0} : WindowEnd = IF frontier + step < latest.num
                                            THEN frontier + step ELSE latest.num
    BY DEF WindowEnd
  <2> QED
    BY <1>2, <2>1
<1>4. active' \in [Heights -> Hashes]
  <2>1. ASSUME NEW n \in Heights, HasEvents(n)
        PROVE  UpdateOf(n).era \in Hashes
    BY <2>1, UpdateType DEF HasEvents
  <2>2. NoEra \in Hashes
    BY DEF Hashes
  <2> QED
    BY <2>1, <2>2 DEF Scan
<1>5. pc' \in {"ingest", "update"} /\ pc' \in Phases
  BY <1>1 DEF Phases, IngestPhase
<1>6. IngestTypeOK'
  BY <1>1, <1>3, <1>4, <1>5, Zenon DEF IngestTypeOK
<1>7. DbTypeOK' /\ FloorHolds'
  BY <1>1, SameDb, SameFloor DEF dbVars
<1>8. CycleKeepsFloor'
  <2>1. Floor' = Floor
    BY <1>1 DEF Floor, dbVars
  <2>2. Floor <= WindowEnd
    BY <1>2, <1>3, FloorNat DEF FloorHolds
  <2> QED
    BY <1>1, <1>3, <1>5, <2>1, <2>2 DEF CycleKeepsFloor
<1> QED
  BY <1>6, <1>7, <1>8

(***************************************************************************)
(* A cycle that gives up.                                                  *)
(***************************************************************************)
LEMMA AbortInv ==
  ASSUME IndInv, Abort
  PROVE  DbTypeOK' /\ IngestTypeOK' /\ FloorHolds' /\ CycleKeepsFloor'
<1>1. Volatile("idle") /\ UNCHANGED dbVars
  BY DEF Abort
<1>2. "idle" \in Phases /\ pc' = "idle"
  BY <1>1 DEF Phases, PollPhase, Volatile
<1> QED
  BY <1>1, <1>2, ResetMemory, SameDb, SameFloor, OutOfCycle DEF dbVars, IndInv, TypeOK

LEMMA FetchInv ==
  ASSUME IndInv, FetchUpdates
  PROVE  DbTypeOK' /\ IngestTypeOK' /\ FloorHolds' /\ CycleKeepsFloor'
<1> USE DEF IndInv, TypeOK
<1>1. CASE \E n \in (frontier + 1)..winEnd : ~Answered(n)
  BY <1>1, AbortInv DEF FetchUpdates
<1>2. CASE ~\E n \in (frontier + 1)..winEnd : ~Answered(n)
  <2>1. /\ pc = "update" /\ pc' = "ingest"
        /\ UNCHANGED <<latest, announced, supplied, reorg, deep, winEnd, active, dbVars>>
    BY <1>2 DEF FetchUpdates
  <2>2. updates' \in [Heights -> [era : Hashes, kind : AllKinds]]
    <3>1. ASSUME NEW n \in Heights, frontier < n, n <= winEnd
          PROVE  UpdateOf(n) \in [era : Hashes, kind : AllKinds]
      <4>1. n \in (frontier + 1)..winEnd
        BY <3>1 DEF Heights, DbTypeOK, IngestTypeOK
      <4> QED
        BY <1>2, <4>1, UpdateType
    <3>2. updates' = [n \in Heights |->
                        IF /\ frontier < n /\ n <= winEnd
                           /\ active[n] # NoEra \/ UpdateOf(n).kind \in Writing
                        THEN UpdateOf(n) ELSE NoUpdates[n]]
      BY <1>2 DEF FetchUpdates
    <3>3. \A n \in Heights : NoUpdates[n] \in [era : Hashes, kind : AllKinds]
      BY VolatileType
    <3> QED
      BY <3>1, <3>2, <3>3
  <2>3. pc' \in Phases
    BY <2>1 DEF Phases, IngestPhase
  <2>4. IngestTypeOK'
    BY <2>1, <2>2, <2>3, Zenon DEF IngestTypeOK
  <2>5. DbTypeOK' /\ FloorHolds'
    BY <2>1, SameDb, SameFloor DEF dbVars
  <2>6. CycleKeepsFloor'
    BY <2>1 DEF CycleKeepsFloor, Floor, dbVars
  <2> QED
    BY <2>4, <2>5, <2>6
<1> QED
  BY <1>1, <1>2

LEMMA StoreBlockInv ==
  ASSUME IndInv, StoreBlock
  PROVE  DbTypeOK' /\ IngestTypeOK' /\ FloorHolds' /\ CycleKeepsFloor'
<1> USE DEF IndInv, TypeOK
<1> DEFINE upd(n) == IF deep THEN chain[n] ELSE updates[n]
           bad(n) == \/ HeaderHash(n) = NoEra
                     \/ upd(n).era # HeaderHash(n)
                     \/ active[n] \notin {NoEra, HeaderHash(n)}
<1>1. pc = "ingest"
  BY DEF StoreBlock
<1>2. PICK n \in Todo :
        IF bad(n)
        THEN Abort
        ELSE /\ \E fin \in Statuses(n) :
                  InsertBlockData(n, [era |-> HeaderHash(n), kind |-> upd(n).kind,
                                      fin |-> fin, evs |-> active[n] # NoEra])
             /\ active' = [active EXCEPT ![n] = NoEra]
             /\ updates' = [updates EXCEPT ![n] = NoUpdates[n]]
             /\ UNCHANGED <<pc, latest, announced, supplied, reorg, deep, winEnd>>
  BY Zenon DEF StoreBlock
<1>3. n \in Heights
  BY DEF Todo
<1>4. CASE bad(n)
  <2>1. Abort
    BY <1>2, <1>4
  <2> QED
    BY <2>1, AbortInv
<1>5. CASE ~bad(n)
  <2>1. PICK fin \in Statuses(n) :
          InsertBlockData(n, [era |-> HeaderHash(n), kind |-> upd(n).kind,
                              fin |-> fin, evs |-> active[n] # NoEra])
    BY <1>2, <1>5, Zenon
  <2>2. /\ active' = [active EXCEPT ![n] = NoEra]
        /\ updates' = [updates EXCEPT ![n] = NoUpdates[n]]
        /\ UNCHANGED <<pc, latest, announced, supplied, reorg, deep, winEnd>>
    BY <1>2, <1>5, Zenon
  <2>3. HeaderHash(n) \in Hashes
    BY <1>3, HashAtType DEF HeaderHash, IngestTypeOK, Header, Hashes, Heights
  <2>4. upd(n).kind \in AllKinds
    <3>1. CASE deep
      <4>1. n \in 1..Len(chain)
        BY <1>5, <3>1 DEF HeaderHash, HashAt
      <4>2. chain[n] \in Block
        BY <4>1 DEF ChainTypeOK
      <4> QED
        BY <3>1, <4>2 DEF Block
    <3>2. CASE ~deep
      BY <1>3, <3>2 DEF IngestTypeOK
    <3> QED
      BY <3>1, <3>2
  <2>5. fin \in BOOLEAN /\ (active[n] # NoEra) \in BOOLEAN
    <3>1. (n <= l1) \in BOOLEAN
      BY <1>3 DEF Heights, ChainTypeOK
    <3> QED
      BY <2>1, <3>1, Zenon DEF Statuses
  <2>6. [era |-> HeaderHash(n), kind |-> upd(n).kind,
         fin |-> fin, evs |-> active[n] # NoEra] \in Row
    BY <2>3, <2>4, <2>5, Zenon DEF Row
  <2>7. DbTypeOK' /\ frontier <= frontier' /\ l1Meta' = l1Meta /\ epochs' = epochs
    BY <1>3, <2>1, <2>6, InsertType
  <2>8. IngestTypeOK'
    <3>1. active' \in [Heights -> Hashes]
      BY <2>2 DEF IngestTypeOK, Hashes
    <3>2. updates' \in [Heights -> [era : Hashes, kind : AllKinds]]
      BY <1>3, <2>2, VolatileType DEF IngestTypeOK
    <3> QED
      BY <2>2, <3>1, <3>2, Zenon DEF IngestTypeOK
  <2>9. FloorHolds'
    <3>1. Floor' = Floor
      BY <2>7 DEF Floor
    <3>2. Floor \in Nat /\ frontier \in Nat /\ frontier' \in Nat /\ Floor <= frontier
      BY <2>7, FloorNat DEF FloorHolds, DbTypeOK
    <3>3. Floor <= frontier'
      BY <2>7, <3>2
    <3> QED
      BY <2>7, <3>1, <3>3, Zenon DEF FloorHolds
  <2>10. CycleKeepsFloor'
    BY <1>1, <2>2, <2>7 DEF CycleKeepsFloor, Floor
  <2> QED
    BY <2>7, <2>8, <2>9, <2>10
<1> QED
  BY <1>4, <1>5

LEMMA CheckpointInv ==
  ASSUME IndInv, Checkpoint
  PROVE  DbTypeOK' /\ IngestTypeOK' /\ FloorHolds' /\ CycleKeepsFloor'
<1> USE DEF IndInv, TypeOK
<1>1. /\ pc = "ingest" /\ frontier' = winEnd /\ winEnd' = 0
      /\ pc' = IF winEnd = latest.num THEN "finish" ELSE "scan"
      /\ UNCHANGED <<latest, announced, supplied, reorg, deep, active, updates,
                     blocks, head, l1Meta, classes, anchors, epochs, snapshots,
                     probe, latch, recorded>>
  BY DEF Checkpoint
<1>2. winEnd \in 0..MaxHeight /\ Floor <= winEnd /\ winEnd <= latest.num
  BY <1>1 DEF IngestTypeOK, CycleKeepsFloor
<1>3. DbTypeOK'
  BY <1>1, <1>2, Zenon DEF DbTypeOK
<1>4. IngestTypeOK'
  <2>1. pc' \in Phases /\ winEnd' \in 0..MaxHeight
    BY <1>1 DEF Phases, IngestPhase
  <2> QED
    BY <1>1, <2>1, Zenon DEF IngestTypeOK
<1>5. FloorHolds'
  <2>1. Floor' = Floor
    BY <1>1 DEF Floor
  <2> QED
    BY <1>1, <1>2, <2>1, Zenon DEF FloorHolds
<1>6. CycleKeepsFloor'
  BY <1>1, <1>2 DEF CycleKeepsFloor
<1> QED
  BY <1>3, <1>4, <1>5, <1>6

LEMMA FinishInv ==
  ASSUME IndInv, Finish
  PROVE  DbTypeOK' /\ IngestTypeOK' /\ FloorHolds' /\ CycleKeepsFloor'
<1> USE DEF IndInv, TypeOK
<1>1. /\ head' = [num |-> latest.num, era |-> latest.era]
      /\ blocks' = PromoteL1(blocks, l1Meta)
      /\ Volatile("verify")
      /\ UNCHANGED <<frontier, l1Meta, classes, anchors, epochs, snapshots, probe,
                     latch, recorded>>
  BY DEF Finish
<1>2. head' \in [num : 0..MaxHeight, era : Hashes]
  BY <1>1 DEF IngestTypeOK, Header, Hashes
<1>3. blocks' \in [Heights -> Row]
  BY <1>1, PromoteType DEF DbTypeOK
<1>4. DbTypeOK'
  BY <1>1, <1>2, <1>3, Zenon DEF DbTypeOK
<1>5. "verify" \in Phases /\ pc' = "verify" /\ "verify" \in CutPhase
  BY <1>1 DEF Phases, CutPhase, Volatile
<1> QED
  BY <1>1, <1>4, <1>5, ResetMemory, SameFloor, OutOfCycle

LEMMA IngestStepInv == IndInv /\ IngestStep => IndInv'
<1> SUFFICES ASSUME IndInv, IngestStep PROVE IndInv'
  OBVIOUS
<1>1. DbTypeOK' /\ IngestTypeOK' /\ FloorHolds' /\ CycleKeepsFloor'
  BY PollInv, DetectInv, RollbackInv, ScanInv, FetchInv, StoreBlockInv,
     CheckpointInv, FinishInv DEF IngestStep, CycleStep
<1>2. UNCHANGED <<chainVars, cutVars, faults, closures>>
  BY DEF IngestStep, OutsideCut
<1>3. ChainTypeOK'
  BY <1>2, SameChain DEF IndInv, TypeOK
<1>4. StaleTypeOK'
  <2>1. stale' \subseteq stale
    BY PollEffect DEF IngestStep, IndInv
  <2> QED
    BY <2>1 DEF IndInv, TypeOK, StaleTypeOK
<1>5. TypeOK'
  BY <1>1, <1>2, <1>3, <1>4, Zenon DEF IndInv, TypeOK, cutVars, CutTypeOK
<1> QED
  BY <1>1, <1>5 DEF IndInv
-----------------------------------------------------------------------------
(***************************************************************************)
(* The steps of the gate, the recovery and the cut.                        *)
(***************************************************************************)
CutOK == DbTypeOK /\ IngestTypeOK /\ CutTypeOK /\ FloorHolds /\ CycleKeepsFloor

LEMMA CutMemory ==
  ASSUME IndInv, SameCycle, pc' \in CutPhase \cup {"idle"}
  PROVE  IngestTypeOK' /\ CycleKeepsFloor'
<1>1. pc' \in Phases
  BY DEF Phases, PollPhase
<1> QED
  BY <1>1, SameMemory, OutOfCycle DEF IndInv, TypeOK

LEMMA QuietCut ==
  ASSUME IndInv, SameCycle, pc' \in CutPhase \cup {"idle"}, UNCHANGED dbVars, CutTypeOK'
  PROVE  CutOK'
BY CutMemory, SameDb, SameFloor DEF IndInv, TypeOK, dbVars, CutOK

LEMMA ReturnCut ==
  ASSUME IndInv, Return, UNCHANGED <<dbVars, basisSpent, closures>>
  PROVE  CutOK'
<1>1. SameCycle /\ pc' \in CutPhase \cup {"idle"}
  BY DEF Return
<1>2. CutTypeOK'
  BY DEF Return, CutTypeOK, IndInv, TypeOK
<1> QED
  BY <1>1, <1>2, QuietCut

LEMMA AnchorType ==
  ASSUME IndInv, NEW n \in Heights
  PROVE  WithAnchor(n) \subseteq Heights \X Hashes
<1>1. HashAt(n) \in Hashes
  BY HashAtType DEF Heights, IndInv, TypeOK
<1>2. <<n, HashAt(n)>> \in Heights \X Hashes
  BY <1>1
<1> QED
  BY <1>2 DEF WithAnchor, Newest, IndInv, TypeOK, DbTypeOK

(***************************************************************************)
(* A step of the cut that leaves the epochs, the frontier and the final    *)
(* height alone.                                                           *)
(***************************************************************************)
LEMMA SideTables ==
  ASSUME IndInv, SameCycle, pc' \in CutPhase \cup {"idle"}, CutTypeOK',
         UNCHANGED <<blocks, frontier, head, l1Meta, classes, epochs>>,
         anchors' \subseteq Heights \X Hashes,
         snapshots' \subseteq Nat \X {"basis", "reachability"},
         probe' \in 0..MaxHeight, latch' \in BOOLEAN, recorded' \in BOOLEAN
  PROVE  CutOK'
<1>1. DbTypeOK'
  BY Zenon DEF IndInv, TypeOK, DbTypeOK
<1>2. FloorHolds'
  BY SameFloor DEF IndInv
<1> QED
  BY <1>1, <1>2, CutMemory DEF CutOK

LEMMA VerifyAnsweredInv ==
  ASSUME IndInv, NEW v \in Heights, VerifyAnswered(v)
  PROVE  CutOK'
<1> USE DEF IndInv, TypeOK
<1> DEFINE target == IF frontier < v THEN frontier ELSE v
<1>1. target \in Heights
  BY DEF VerifyAnswered, Heights, DbTypeOK
<1>2. SameCycle
  BY DEF VerifyAnswered
<1>3. CASE RootMatches(target)
  <2>1. /\ latch' = FALSE /\ recorded' = FALSE /\ closures' = 0
        /\ anchors' = WithAnchor(target) /\ probe' = frontier /\ pc' = "cut"
        /\ UNCHANGED <<cutVars, blocks, frontier, head, l1Meta, classes, epochs, snapshots>>
    BY <1>3, Zenon DEF VerifyAnswered
  <2>2. anchors' \subseteq Heights \X Hashes
    BY <1>1, <2>1, AnchorType
  <2>3. CutTypeOK'
    BY <2>1 DEF CutTypeOK, cutVars
  <2>4. latch' \in BOOLEAN /\ recorded' \in BOOLEAN
    BY <2>1, Zenon
  <2>5. snapshots' \subseteq Nat \X {"basis", "reachability"} /\ probe' \in 0..MaxHeight
    BY <2>1 DEF DbTypeOK
  <2>6. pc' \in CutPhase \cup {"idle"}
    BY <2>1 DEF CutPhase
  <2> QED
    BY <1>2, <2>1, <2>2, <2>3, <2>4, <2>5, <2>6, SideTables
<1>4. CASE ~RootMatches(target)
  <2>1. /\ latch' = TRUE /\ diverged' = target /\ pc' = "mismatch"
        /\ UNCHANGED <<attempt, repairs, basisSpent, closures, blocks, frontier, head,
                       l1Meta, classes, anchors, epochs, snapshots, probe, recorded>>
    BY <1>4, Zenon DEF VerifyAnswered
  <2>2. CutTypeOK'
    BY <1>1, <2>1 DEF CutTypeOK, Heights
  <2>3. latch' \in BOOLEAN /\ recorded' \in BOOLEAN
    BY <2>1, Zenon DEF DbTypeOK
  <2>4. /\ snapshots' \subseteq Nat \X {"basis", "reachability"}
        /\ probe' \in 0..MaxHeight /\ anchors' \subseteq Heights \X Hashes
    BY <2>1 DEF DbTypeOK
  <2>5. pc' \in CutPhase \cup {"idle"}
    BY <2>1 DEF CutPhase
  <2> QED
    BY <1>2, <2>1, <2>2, <2>3, <2>4, <2>5, SideTables
<1> QED
  BY <1>3, <1>4

(***************************************************************************)
(* Steps that write no table.                                              *)
(***************************************************************************)
LEMMA NoTableInv ==
  ASSUME IndInv, NEW v \in Heights,
         \/ VerifySkipped \/ VerifyError \/ VerifyUnbound \/ SkipRecovery(v) \/ Walk
         \/ RetryCut \/ CutUnbound \/ CutDone \/ NoSnapshot \/ SnapshotUnbound
  PROVE  CutOK'
<1> USE DEF IndInv, TypeOK
<1>1. CASE VerifyUnbound \/ SkipRecovery(v) \/ CutUnbound \/ NoSnapshot \/ SnapshotUnbound
  <2>1. Return /\ UNCHANGED <<dbVars, basisSpent, closures>>
    BY <1>1 DEF VerifyUnbound, SkipRecovery, CutUnbound, NoSnapshot, SnapshotUnbound
  <2> QED
    BY <2>1, ReturnCut
<1>2. CASE VerifySkipped \/ VerifyError \/ CutDone
  <2>1. SameCycle /\ UNCHANGED <<dbVars, cutVars, closures>> /\ pc' \in {"cut", "snapshot"}
    BY <1>2 DEF VerifySkipped, VerifyError, CutDone
  <2>2. CutTypeOK' /\ pc' \in CutPhase \cup {"idle"}
    BY <2>1 DEF CutTypeOK, cutVars, CutPhase
  <2> QED
    BY <2>1, <2>2, QuietCut
<1>3. CASE RetryCut
  <2>1. /\ SameCycle /\ pc' = "verify" /\ attempt' = 1 /\ diverged' = 0
        /\ UNCHANGED <<dbVars, repairs, basisSpent, closures>>
    BY <1>3 DEF RetryCut
  <2>2. CutTypeOK' /\ pc' \in CutPhase \cup {"idle"}
    BY <2>1 DEF CutTypeOK, CutPhase
  <2> QED
    BY <2>1, <2>2, QuietCut
<1>4. CASE Walk
  <2>1. CASE diverged > Len(chain)
    BY <1>4, <2>1, ReturnCut DEF Walk
  <2>2. CASE ~(diverged > Len(chain))
    <3>1. /\ repairs' = FirstWriters(MissingSlots(diverged), diverged)
          /\ pc' = "repair" /\ SameCycle
          /\ UNCHANGED <<attempt, diverged, dbVars, basisSpent, closures>>
      BY <1>4, <2>2 DEF Walk
    <3>2. repairs' \subseteq Heights
      BY <3>1 DEF FirstWriters, ChainWriters, Heights, ChainTypeOK
    <3>3. CutTypeOK' /\ pc' \in CutPhase \cup {"idle"}
      BY <3>1, <3>2 DEF CutTypeOK, CutPhase
    <3> QED
      BY <3>1, <3>3, QuietCut
  <2> QED
    BY <2>1, <2>2
<1> QED
  BY <1>1, <1>2, <1>3, <1>4

(***************************************************************************)
(* Steps that write meta keys only.                                        *)
(***************************************************************************)
LEMMA MetaOnlyInv ==
  ASSUME IndInv, NEW v \in Heights, VerifyUnavailable \/ BeginAttempt(v)
  PROVE  CutOK'
<1> USE DEF IndInv, TypeOK
<1>1. CASE VerifyUnavailable
  <2>1. /\ SameCycle /\ pc' = "cut" /\ probe' = frontier
        /\ UNCHANGED <<blocks, frontier, head, l1Meta, classes, anchors, epochs,
                       snapshots, latch, recorded, cutVars, closures>>
    BY <1>1 DEF VerifyUnavailable
  <2>2. CutTypeOK' /\ pc' \in CutPhase \cup {"idle"}
    BY <2>1 DEF CutTypeOK, CutPhase, cutVars
  <2>3. /\ snapshots' \subseteq Nat \X {"basis", "reachability"}
        /\ probe' \in 0..MaxHeight /\ anchors' \subseteq Heights \X Hashes
    BY <2>1 DEF DbTypeOK
  <2>4. latch' \in BOOLEAN /\ recorded' \in BOOLEAN
    BY <2>1, Zenon DEF DbTypeOK
  <2> QED
    BY <2>1, <2>2, <2>3, <2>4, SideTables
<1>2. CASE BeginAttempt(v)
  <2>1. /\ SameCycle /\ pc' = "walk" /\ recorded' = TRUE /\ closures' = closures + 1
        /\ UNCHANGED <<blocks, frontier, head, l1Meta, classes, anchors, epochs,
                       snapshots, probe, latch, cutVars>>
    BY <1>2 DEF BeginAttempt
  <2>2. CutTypeOK' /\ pc' \in CutPhase \cup {"idle"}
    BY <2>1 DEF CutTypeOK, CutPhase, cutVars
  <2>3. /\ snapshots' \subseteq Nat \X {"basis", "reachability"}
        /\ probe' \in 0..MaxHeight /\ anchors' \subseteq Heights \X Hashes
    BY <2>1 DEF DbTypeOK
  <2>4. latch' \in BOOLEAN /\ recorded' \in BOOLEAN
    BY <2>1, Zenon DEF DbTypeOK
  <2> QED
    BY <2>1, <2>2, <2>3, <2>4, SideTables
<1> QED
  BY <1>1, <1>2

LEMMA RepairBlockInv ==
  ASSUME IndInv, RepairBlock
  PROVE  CutOK'
<1> USE DEF IndInv, TypeOK
<1> DEFINE row(n, fin) == [era |-> chain[n].era, kind |-> chain[n].kind,
                           fin |-> fin, evs |-> chain[n].kind \in Eventful]
<1>1. PICK n \in repairs :
        IF n > Len(chain)
        THEN Return /\ UNCHANGED dbVars
        ELSE /\ \E fin \in Statuses(n) : InsertBlockData(n, row(n, fin))
             /\ repairs' = repairs \ {n}
             /\ UNCHANGED <<pc, attempt, diverged>>
             /\ SameCycle
  BY Zenon DEF RepairBlock
<1>2. pc = "repair" /\ UNCHANGED <<basisSpent, closures>> /\ n \in Heights
  BY DEF RepairBlock, CutTypeOK
<1>3. CASE n > Len(chain)
  BY <1>1, <1>2, <1>3, ReturnCut
<1>4. CASE ~(n > Len(chain))
  <2>1. PICK fin \in Statuses(n) : InsertBlockData(n, row(n, fin))
    BY <1>1, <1>4, Zenon
  <2>2. repairs' = repairs \ {n} /\ UNCHANGED <<pc, attempt, diverged>> /\ SameCycle
    BY <1>1, <1>4, Zenon
  <2>3. chain[n] \in Block
    BY <1>2, <1>4 DEF Heights, ChainTypeOK
  <2>4. fin \in BOOLEAN /\ (chain[n].kind \in Eventful) \in BOOLEAN
    <3>1. (n <= l1) \in BOOLEAN
      BY <1>2 DEF Heights, ChainTypeOK
    <3>2. fin \in BOOLEAN
      BY <2>1, <3>1, Zenon DEF Statuses
    <3>3. (chain[n].kind \in Eventful) \in BOOLEAN
      OBVIOUS
    <3> QED
      BY <3>2, <3>3
  <2>5. chain[n].era \in Hashes /\ chain[n].kind \in AllKinds
    BY <2>3 DEF Block, Hashes
  <2>6. row(n, fin) \in Row
    BY <2>4, <2>5, Zenon DEF Row
  <2>7. DbTypeOK' /\ frontier <= frontier' /\ l1Meta' = l1Meta /\ epochs' = epochs
    <3>1. PICK new \in Row : InsertBlockData(n, new)
      BY <2>1, <2>6, Zenon
    <3> QED
      BY <1>2, <3>1, InsertType
  <2>8. FloorHolds'
    <3>1. Floor' = Floor
      BY <2>7 DEF Floor
    <3>2. Floor \in Nat /\ frontier \in Nat /\ frontier' \in Nat /\ Floor <= frontier
      BY <2>7, FloorNat DEF FloorHolds, DbTypeOK
    <3>3. Floor <= frontier'
      BY <2>7, <3>2
    <3> QED
      BY <2>7, <3>1, <3>3, Zenon DEF FloorHolds
  <2>9. CutTypeOK' /\ pc' \in CutPhase \cup {"idle"}
    BY <1>2, <2>2 DEF CutTypeOK, CutPhase
  <2> QED
    BY <2>2, <2>7, <2>8, <2>9, CutMemory DEF CutOK
<1> QED
  BY <1>3, <1>4

LEMMA SnapshotType ==
  ASSUME IndInv, NEW g \in {"basis", "reachability"}
  PROVE  WithSnapshot(Len(epochs), g) \subseteq Nat \X {"basis", "reachability"}
<1>1. <<Len(epochs), g>> \in Nat \X {"basis", "reachability"}
  BY DEF IndInv, TypeOK, DbTypeOK
<1> QED
  BY <1>1 DEF WithSnapshot, Newest, IndInv, TypeOK, DbTypeOK

LEMMA PublishInv ==
  ASSUME IndInv, NEW g \in {"basis", "reachability"}, Publish(g),
         basisSpent' \in 0..BasisBudget
  PROVE  CutOK'
<1> USE DEF IndInv, TypeOK
<1>1. /\ snapshots' = WithSnapshot(Len(epochs), g)
      /\ pc' = "idle" /\ attempt' = 0 /\ diverged' = 0 /\ repairs' = {} /\ SameCycle
      /\ UNCHANGED <<blocks, frontier, head, l1Meta, classes, anchors, epochs, probe,
                     latch, recorded, closures>>
  BY DEF Publish, Return
<1>2. CutTypeOK'
  BY <1>1 DEF CutTypeOK
<1>3. /\ snapshots' \subseteq Nat \X {"basis", "reachability"}
      /\ probe' \in 0..MaxHeight /\ anchors' \subseteq Heights \X Hashes
  BY <1>1, SnapshotType DEF DbTypeOK
<1>4. latch' \in BOOLEAN /\ recorded' \in BOOLEAN
  BY <1>1, Zenon DEF DbTypeOK
<1> QED
  BY <1>1, <1>2, <1>3, <1>4, SideTables

LEMMA SnapshotInv ==
  ASSUME IndInv, SnapshotProved \/ SnapshotUnproved
  PROVE  CutOK'
<1> USE DEF IndInv, TypeOK
<1>1. CASE SnapshotProved /\ RootMatches(Floor)
  <2>1. Publish("basis") /\ basisSpent' = basisSpent
    BY <1>1 DEF SnapshotProved
  <2> QED
    BY <2>1, PublishInv DEF CutTypeOK
<1>2. CASE SnapshotProved /\ ~RootMatches(Floor)
  <2>1. /\ latch' = TRUE /\ diverged' = Floor /\ pc' = "mismatch" /\ SameCycle
        /\ UNCHANGED <<attempt, repairs, basisSpent, closures, blocks, frontier, head,
                       l1Meta, classes, anchors, epochs, snapshots, probe, recorded>>
    BY <1>2, Zenon DEF SnapshotProved
  <2>2. Floor \in 0..MaxHeight
    BY FloorNat DEF FloorHolds, DbTypeOK
  <2>3. CutTypeOK' /\ pc' \in CutPhase \cup {"idle"}
    BY <2>1, <2>2 DEF CutTypeOK, CutPhase
  <2>4. /\ snapshots' \subseteq Nat \X {"basis", "reachability"}
        /\ probe' \in 0..MaxHeight /\ anchors' \subseteq Heights \X Hashes
    BY <2>1 DEF DbTypeOK
  <2>5. latch' \in BOOLEAN /\ recorded' \in BOOLEAN
    BY <2>1, Zenon DEF DbTypeOK
  <2> QED
    BY <2>1, <2>3, <2>4, <2>5, SideTables
<1>3. CASE SnapshotUnproved
  <2>1. basisSpent' \in 0..BasisBudget
    BY <1>3 DEF SnapshotUnproved, CutTypeOK
  <2>2. CASE Publish("reachability")
    BY <2>1, <2>2, PublishInv
  <2>3. CASE Return /\ UNCHANGED <<dbVars, closures>>
    <3>1. SameCycle /\ pc' \in CutPhase \cup {"idle"}
      BY <2>3 DEF Return
    <3>2. CutTypeOK'
      BY <2>1, <2>3 DEF Return, CutTypeOK
    <3> QED
      BY <2>3, <3>1, <3>2, QuietCut
  <2> QED
    BY <1>3, <2>2, <2>3 DEF SnapshotUnproved
<1> QED
  BY <1>1, <1>2, <1>3

LEMMA NextEpochNat ==
  ASSUME IndInv
  PROVE  /\ NextEpoch \in Nat
         /\ EpochFrom(NextEpoch) \in Nat
         /\ EpochTo(NextEpoch) \in Nat
<1>1. NextEpoch \in Nat
  BY FirstEpochNat DEF NextEpoch, IndInv, TypeOK, DbTypeOK
<1> QED
  BY <1>1, EpochNat

LEMMA BuildEpochType ==
  ASSUME IndInv
  PROVE  BuildEpoch(NextEpoch) \in Epoch
<1> USE DEF IndInv, TypeOK
<1> DEFINE from == EpochFrom(NextEpoch)
           to   == EpochTo(NextEpoch)
           lines == [n \in Heights |->
                       IF from <= n /\ n <= to
                       THEN [era |-> blocks[n].era, evs |-> blocks[n].evs] ELSE NoLine]
<1>1. from \in Nat /\ to \in Nat
  BY NextEpochNat
<1>2. lines \in [Heights -> Line]
  <2>1. ASSUME NEW n \in Heights
        PROVE  [era |-> blocks[n].era, evs |-> blocks[n].evs] \in Line
    BY DEF DbTypeOK, Row, Line
  <2>2. NoLine \in Line
    BY DEF NoLine, Line, Hashes
  <2> QED
    BY <2>1, <2>2
<1>3. ClassAsOf(classes, to) \in SUBSET (Heights \X Hashes)
  BY DEF ClassAsOf, DbTypeOK
<1>4. BuildEpoch(NextEpoch) =
        [from |-> from, to |-> to, lines |-> lines, class |-> ClassAsOf(classes, to)]
  BY DEF BuildEpoch
<1> HIDE DEF from, to, lines
<1> QED
  BY <1>1, <1>2, <1>3, <1>4 DEF Epoch

(***************************************************************************)
(* The one step that moves the floor moves it to a height that is both     *)
(* ingested and final.                                                     *)
(***************************************************************************)
LEMMA CutEpochInv ==
  ASSUME IndInv, NEW proved \in BOOLEAN, CutEpoch(proved)
  PROVE  CutOK'
<1> USE DEF IndInv, TypeOK
<1> DEFINE e == BuildEpoch(NextEpoch)
<1>1. /\ pc = "cut" /\ epochs' = Append(epochs, e)
      /\ anchors' = IF proved THEN WithAnchor(EpochTo(NextEpoch)) ELSE anchors
      /\ basisSpent' = 0 /\ SameCycle
      /\ UNCHANGED <<pc, attempt, diverged, repairs, closures, blocks, frontier, head,
                     l1Meta, classes, snapshots, probe, latch, recorded>>
  BY DEF CutEpoch
<1>2. e \in Epoch /\ e.from = EpochFrom(NextEpoch) /\ e.to = EpochTo(NextEpoch)
  BY BuildEpochType DEF BuildEpoch
<1> HIDE DEF e
<1>3. epochs \in Seq(Epoch)
  BY DEF DbTypeOK
<1>4. /\ epochs' \in Seq(Epoch) /\ Len(epochs') = Len(epochs) + 1
      /\ \A i \in 1..Len(epochs) : epochs'[i] = epochs[i]
      /\ epochs'[Len(epochs) + 1] = e
      /\ epochs' # <<>>
  BY <1>1, <1>2, <1>3
<1>5. anchors' \subseteq Heights \X Hashes
  <2>1. CASE proved
    <3>1. EpochTo(NextEpoch) \in Heights
      BY <2>1 DEF CutEpoch, Heights, ChainTypeOK
    <3> QED
      BY <1>1, <2>1, <3>1, AnchorType
  <2>2. CASE ~proved
    BY <1>1, <2>2 DEF DbTypeOK
  <2> QED
    BY <2>1, <2>2
<1>6. DbTypeOK'
  BY <1>1, <1>4, <1>5, Zenon DEF DbTypeOK
<1>7. FloorHolds'
  <2>1. Floor' = EpochTo(NextEpoch)
    BY <1>2, <1>4, <1>3 DEF Floor
  <2>2. Floor' <= frontier' /\ Floor' <= l1Meta'
    BY <1>1, <2>1 DEF CutEpoch, Ready
  <2>3. ASSUME NEW i \in 1..Len(epochs')
        PROVE  /\ epochs'[i].from = EpochFrom(FirstEpoch + i - 1)
               /\ epochs'[i].to = EpochTo(FirstEpoch + i - 1)
    <3>1. CASE i \in 1..Len(epochs)
      BY <1>4, <3>1 DEF FloorHolds
    <3>2. CASE i = Len(epochs) + 1
      <4>1. FirstEpoch + i - 1 = NextEpoch
        BY <1>3, <3>2, FirstEpochNat DEF NextEpoch
      <4> QED
        BY <1>2, <1>4, <3>2, <4>1
    <3> QED
      BY <1>3, <1>4, <3>1, <3>2
  <2> QED
    BY <2>2, <2>3 DEF FloorHolds
<1>8. CutTypeOK' /\ pc' \in CutPhase \cup {"idle"}
  BY <1>1 DEF CutTypeOK, CutPhase
<1> QED
  BY <1>1, <1>6, <1>7, <1>8, CutMemory DEF CutOK

LEMMA CutStepInv == IndInv /\ CutStep => IndInv'
<1> SUFFICES ASSUME IndInv, CutStep PROVE IndInv'
  OBVIOUS
<1>1. CutOK'
  <2>1. 1 \in Heights
    BY DEF Heights
  <2> QED
    BY <2>1, NoTableInv, MetaOnlyInv, VerifyAnsweredInv, RepairBlockInv, CutEpochInv,
       SnapshotInv DEF CutStep
<1>2. UNCHANGED <<chainVars, stale, faults>>
  BY DEF CutStep
<1>3. ChainTypeOK'
  BY <1>2, SameChain DEF IndInv, TypeOK
<1> QED
  BY <1>1, <1>2, <1>3 DEF CutOK, IndInv, TypeOK, StaleTypeOK

LEMMA FaultInv == IndInv /\ Fault => IndInv'
<1> SUFFICES ASSUME IndInv, Fault PROVE IndInv'
  OBVIOUS
<1> USE DEF IndInv, TypeOK
<1>1. /\ faults < MaxFaults /\ faults' = faults + 1 /\ Volatile("idle")
      /\ attempt' = 0 /\ diverged' = 0 /\ repairs' = {}
      /\ UNCHANGED <<chainVars, stale, dbVars, basisSpent, closures>>
  BY DEF Fault
<1>2. "idle" \in Phases /\ pc' = "idle"
  BY <1>1 DEF Phases, PollPhase, Volatile
<1>3. IngestTypeOK' /\ DbTypeOK' /\ FloorHolds' /\ CycleKeepsFloor' /\ ChainTypeOK'
  BY <1>1, <1>2, ResetMemory, SameDb, SameFloor, SameChain, OutOfCycle DEF dbVars
<1>4. CutTypeOK' /\ faults' \in 0..MaxFaults
  BY <1>1 DEF CutTypeOK
<1> QED
  BY <1>1, <1>3, <1>4 DEF StaleTypeOK

LEMMA TornHeadInv == IndInv /\ TornHead => IndInv'
<1> SUFFICES ASSUME IndInv, TornHead PROVE IndInv'
  OBVIOUS
<1> USE DEF IndInv, TypeOK
<1>1. /\ faults < MaxFaults /\ faults' = faults + 1 /\ Volatile("idle")
      /\ UNCHANGED <<chainVars, stale, blocks, frontier, l1Meta, classes, anchors, epochs,
                     snapshots, probe, latch, recorded, cutVars, closures>>
  BY DEF TornHead
<1>2. "idle" \in Phases /\ pc' = "idle"
  BY <1>1 DEF Phases, PollPhase, Volatile
<1>3. head' \in [num : 0..MaxHeight, era : Hashes]
  BY DEF TornHead, DbTypeOK, IngestTypeOK, Header, Hashes
<1>4. DbTypeOK'
  BY <1>1, <1>3, Zenon DEF DbTypeOK
<1>5. IngestTypeOK' /\ FloorHolds' /\ CycleKeepsFloor' /\ ChainTypeOK'
  BY <1>1, <1>2, ResetMemory, SameFloor, SameChain, OutOfCycle
<1>6. CutTypeOK' /\ faults' \in 0..MaxFaults
  BY <1>1 DEF CutTypeOK, cutVars
<1> QED
  BY <1>1, <1>4, <1>5, <1>6 DEF StaleTypeOK

LEMMA StutterInv == IndInv /\ UNCHANGED vars => IndInv'
<1> SUFFICES ASSUME IndInv, UNCHANGED vars PROVE IndInv'
  OBVIOUS
<1> USE DEF IndInv, TypeOK
<1>1. UNCHANGED <<chainVars, dbVars, stale, cycleVars, cutVars, faults, closures>>
  BY DEF vars
<1>2. DbTypeOK' /\ FloorHolds' /\ ChainTypeOK'
  BY <1>1, SameDb, SameFloor, SameChain DEF dbVars
<1>3. IngestTypeOK' /\ CutTypeOK'
  BY <1>1, Zenon DEF IngestTypeOK, CutTypeOK, cycleVars, cutVars
<1>4. CycleKeepsFloor'
  BY <1>1, Zenon DEF CycleKeepsFloor, Floor, dbVars, cycleVars
<1> QED
  BY <1>1, <1>2, <1>3, <1>4, Zenon DEF StaleTypeOK

LEMMA IndInvStep == IndInv /\ [Next]_vars => IndInv'
BY ChainStepInv, IngestStepInv, CutStepInv, FaultInv, TornHeadInv, StutterInv DEF Next

LEMMA IndInvHolds == Spec => []IndInv
BY InitIndInv, IndInvStep, PTL DEF Spec
-----------------------------------------------------------------------------
(***************************************************************************)
(* Every table, meta key and cycle variable keeps its type, for every      *)
(* chain, every batch and segment size and any number of faults.           *)
(***************************************************************************)
THEOREM TypeCorrect == Spec => []TypeOK
<1>1. IndInv => TypeOK
  BY DEF IndInv
<1> QED
  BY <1>1, IndInvHolds, PTL

(***************************************************************************)
(* The epoch floor is never crossed: neither a rollback nor a stale        *)
(* finality answer, at whatever moment the chain reorganises, a call fails *)
(* or the process dies, leaves the frontier or the final height below the  *)
(* last published epoch, and the published ranges are contiguous.          *)
(***************************************************************************)
THEOREM FloorNeverCrossed == Spec => []FloorHolds
<1>1. IndInv => FloorHolds
  BY DEF IndInv
<1> QED
  BY <1>1, IndInvHolds, PTL
-----------------------------------------------------------------------------
(***************************************************************************)
(* Refinement: of all steps only Detect moves the final height, upwards,   *)
(* and only CutEpoch publishes.                                            *)
(***************************************************************************)
LEMMA IngestRefines ==
  ASSUME IndInv, IngestStep
  PROVE  epochs' = epochs /\ l1Meta' >= l1Meta
<1> USE DEF IndInv, TypeOK
<1>1. CASE \E v \in Heights, ans \in L1Answers : Detect(v, ans)
  <2>1. PICK v \in Heights, ans \in L1Answers : Detect(v, ans)
    BY <1>1
  <2>2. \/ UNCHANGED dbVars
        \/ /\ UNCHANGED epochs
           /\ \/ UNCHANGED l1Meta
              \/ ~L1Rejected(ans) /\ l1Meta' = ans.num
    BY <2>1, Zenon DEF Detect, Abort
  <2>3. ans.num \in Nat
    BY DEF L1Answers, ChainTypeOK
  <2> QED
    BY <2>2, <2>3 DEF L1Rejected, dbVars, DbTypeOK
<1>2. CASE PollStep
  BY <1>2, PollEffect DEF dbVars, DbTypeOK
<1>3. CASE Rollback
  BY <1>3 DEF Rollback, RollbackAbove, dbVars, DbTypeOK
<1>4. CASE Scan \/ FetchUpdates
  BY <1>4 DEF Scan, FetchUpdates, Abort, dbVars, DbTypeOK
<1>5. CASE StoreBlock
  <2>1. UNCHANGED <<epochs, l1Meta>>
    BY <1>5, Zenon DEF StoreBlock, InsertBlockData, Abort, dbVars
  <2> QED
    BY <2>1 DEF DbTypeOK
<1>6. CASE Checkpoint \/ Finish
  BY <1>6 DEF Checkpoint, Finish, DbTypeOK
<1> QED
  BY <1>1, <1>2, <1>3, <1>4, <1>5, <1>6 DEF IngestStep, CycleStep

LEMMA CutRefines ==
  ASSUME IndInv, CutStep
  PROVE  (\E p \in BOOLEAN : CutEpoch(p)) \/ UNCHANGED <<epochs, l1Meta>>
<1>1. CASE VerifySkipped \/ VerifyUnavailable \/ VerifyError \/ VerifyUnbound
  BY <1>1 DEF VerifySkipped, VerifyUnavailable, VerifyError, VerifyUnbound, dbVars
<1>2. CASE \E v \in Heights : VerifyAnswered(v)
  BY <1>2, Zenon DEF VerifyAnswered
<1>3. CASE \E v \in Heights : SkipRecovery(v) \/ BeginAttempt(v)
  BY <1>3 DEF SkipRecovery, BeginAttempt, dbVars
<1>4. CASE Walk \/ RetryCut \/ CutUnbound \/ CutDone
  BY <1>4 DEF Walk, RetryCut, CutUnbound, CutDone, dbVars
<1>5. CASE RepairBlock
  BY <1>5, Zenon DEF RepairBlock, InsertBlockData, dbVars
<1>6. CASE NoSnapshot \/ SnapshotProved \/ SnapshotUnproved \/ SnapshotUnbound
  BY <1>6, Zenon DEF NoSnapshot, SnapshotProved, SnapshotUnproved, SnapshotUnbound,
                     Publish, dbVars
<1> QED
  BY <1>1, <1>2, <1>3, <1>4, <1>5, <1>6 DEF CutStep

LEMMA CutPublishes ==
  ASSUME IndInv, NEW p \in BOOLEAN, CutEpoch(p)
  PROVE  Feed!Publish
<1> USE DEF IndInv, TypeOK
<1> DEFINE e == BuildEpoch(NextEpoch)
<1>1. epochs' = Append(epochs, e) /\ l1Meta' = l1Meta /\ EpochTo(NextEpoch) <= l1Meta
  BY DEF CutEpoch, Ready
<1>2. /\ e \in Epoch
      /\ e.from = NextEpoch * EpochSize
      /\ e.to = NextEpoch * EpochSize + EpochSize - 1
      /\ e.to = EpochTo(NextEpoch)
  BY BuildEpochType DEF BuildEpoch, EpochFrom, EpochTo
<1> HIDE DEF e
<1>3. epochs \in Seq(Epoch)
  BY DEF DbTypeOK
<1>4. /\ Len(epochs') = Len(epochs) + 1 /\ epochs'[Len(epochs) + 1] = e
      /\ SubSeq(epochs', 1, Len(epochs)) = epochs
  BY <1>1, <1>2, <1>3
<1> QED
  BY <1>1, <1>2, <1>4 DEF Feed!Publish, NextEpoch

LEMMA RefinementStep == IndInv /\ [Next]_vars => [Feed!Next]_<<epochs, l1Meta>>
<1> SUFFICES ASSUME IndInv, [Next]_vars PROVE [Feed!Next]_<<epochs, l1Meta>>
  OBVIOUS
<1>1. CASE ChainStep \/ Fault \/ TornHead \/ UNCHANGED vars
  BY <1>1 DEF ChainStep, Fault, TornHead, vars, dbVars
<1>2. CASE IngestStep
  BY <1>2, IngestRefines DEF Feed!Next, Feed!Advance
<1>3. CASE CutStep
  BY <1>3, CutRefines, CutPublishes DEF Feed!Next
<1> QED
  BY <1>1, <1>2, <1>3 DEF Next

(***************************************************************************)
(* The indexer implements the append-only log of adjacent, final epoch     *)
(* ranges that a consumer of the feed relies on.                           *)
(***************************************************************************)
THEOREM FeedIsAppendOnly == Spec => ImplementsFeedLog
<1>1. Init => Feed!Init
  BY DEF Init, DbInit, Feed!Init
<1> QED
  BY <1>1, IndInvHolds, RefinementStep, PTL DEF Spec, ImplementsFeedLog, Feed!Spec
-----------------------------------------------------------------------------
(***************************************************************************)
(* Recovery: an attempt since the last passing verify-root is on record    *)
(* and the latch is set, and a mismatch in hand has latched.               *)
(***************************************************************************)
AttemptInv ==
  /\ closures = 0 \/ (closures = 1 /\ recorded /\ latch)
  /\ pc = "mismatch" => latch

LEMMA AttemptStep == TypeOK /\ AttemptInv /\ [Next]_vars => AttemptInv'
<1> SUFFICES ASSUME TypeOK, AttemptInv, [Next]_vars PROVE AttemptInv'
  OBVIOUS
<1>1. CASE UNCHANGED <<closures, recorded, latch>> /\ pc' # "mismatch"
  BY <1>1, Zenon DEF AttemptInv
<1>2. CASE ChainStep \/ UNCHANGED vars
  <2>1. UNCHANGED <<closures, recorded, latch, pc>>
    BY <1>2 DEF ChainStep, vars, dbVars, cycleVars
  <2> QED
    BY <2>1, Zenon DEF AttemptInv
<1>3. CASE Fault \/ TornHead
  <2>1. UNCHANGED <<closures, recorded, latch>> /\ pc' # "mismatch"
    BY <1>3 DEF Fault, TornHead, Volatile, dbVars
  <2> QED
    BY <1>1, <2>1
<1>4. CASE IngestStep
  <2>1. UNCHANGED closures
    BY <1>4 DEF IngestStep, OutsideCut
  <2>2. ASSUME Abort PROVE UNCHANGED <<recorded, latch>> /\ pc' = "idle"
    BY <2>2 DEF Abort, Volatile, dbVars
  <2>3. UNCHANGED <<recorded, latch>> /\ pc' # "mismatch"
    <3>1. CASE PollStep
      BY <3>1, PollEffect DEF dbVars
    <3>2. CASE \E v \in Heights, ans \in L1Answers : Detect(v, ans)
      <4>1. Abort \/ (UNCHANGED <<recorded, latch>> /\ pc' = "rollback")
        BY <3>2, Zenon DEF Detect
      <4> QED
        BY <2>2, <4>1
    <3>3. CASE Rollback
      BY <3>3 DEF Rollback, RollbackAbove, dbVars
    <3>4. CASE Scan \/ FetchUpdates
      BY <2>2, <3>4 DEF Scan, FetchUpdates, dbVars
    <3>5. CASE StoreBlock
      <4>1. pc = "ingest" /\ (Abort \/ (UNCHANGED <<recorded, latch, pc>>))
        BY <3>5, Zenon DEF StoreBlock, InsertBlockData
      <4> QED
        BY <2>2, <4>1
    <3>6. CASE Checkpoint \/ Finish
      BY <3>6 DEF Checkpoint, Finish, Volatile
    <3> QED
      BY <1>4, <3>1, <3>2, <3>3, <3>4, <3>5, <3>6 DEF IngestStep, CycleStep
  <2> QED
    BY <1>1, <2>1, <2>3
<1>5. CASE CutStep
  <2>1. CASE \E v \in Heights : VerifyAnswered(v)
    <3>1. \/ closures' = 0 /\ pc' = "cut"
          \/ UNCHANGED <<closures, recorded>> /\ latch' = TRUE
      BY <2>1, Zenon DEF VerifyAnswered
    <3>2. CASE closures' = 0 /\ pc' = "cut"
      BY <3>2 DEF AttemptInv
    <3>3. CASE UNCHANGED <<closures, recorded>> /\ latch' = TRUE
      BY <3>3, Zenon DEF AttemptInv
    <3> QED
      BY <3>1, <3>2, <3>3
  <2>2. CASE \E v \in Heights : BeginAttempt(v)
    <3>1. /\ pc = "mismatch" /\ ~recorded /\ recorded' = TRUE /\ latch' = latch
          /\ closures' = closures + 1 /\ pc' = "walk"
      BY <2>2, Zenon DEF BeginAttempt, Skips
    <3>2. latch /\ closures = 0
      BY <3>1, Zenon DEF AttemptInv
    <3>3. closures' = 1 /\ pc' # "mismatch"
      BY <3>1, <3>2
    <3> QED
      BY <3>1, <3>2, <3>3, Zenon DEF AttemptInv
  <2>3. CASE SnapshotProved
    <3>1. \/ UNCHANGED <<closures, recorded, latch>> /\ pc' = "idle"
          \/ UNCHANGED <<closures, recorded>> /\ latch' = TRUE
      BY <2>3, Zenon DEF SnapshotProved, Publish, Return
    <3>2. CASE UNCHANGED <<closures, recorded, latch>> /\ pc' = "idle"
      BY <1>1, <3>2
    <3>3. CASE UNCHANGED <<closures, recorded>> /\ latch' = TRUE
      BY <3>3, Zenon DEF AttemptInv
    <3> QED
      BY <3>1, <3>2, <3>3
  <2>4. CASE \/ VerifySkipped \/ VerifyUnavailable \/ VerifyError \/ VerifyUnbound
             \/ \E v \in Heights : SkipRecovery(v)
    <3>1. UNCHANGED <<closures, recorded, latch>> /\ pc' # "mismatch"
      BY <2>4 DEF VerifySkipped, VerifyUnavailable, VerifyError, VerifyUnbound,
                  SkipRecovery, Return, dbVars
    <3> QED
      BY <1>1, <3>1
  <2>5. CASE Walk \/ RetryCut \/ CutUnbound \/ CutDone \/ \E p \in BOOLEAN : CutEpoch(p)
    <3>1. UNCHANGED <<closures, recorded, latch>> /\ pc' # "mismatch"
      BY <2>5 DEF Walk, RetryCut, CutUnbound, CutDone, CutEpoch, Return, dbVars
    <3> QED
      BY <1>1, <3>1
  <2>6. CASE RepairBlock
    <3>1. UNCHANGED <<closures, recorded, latch>> /\ (pc' = pc \/ pc' = "idle") /\ pc = "repair"
      BY <2>6, Zenon DEF RepairBlock, InsertBlockData, Return, dbVars
    <3> QED
      BY <1>1, <3>1
  <2>7. CASE NoSnapshot \/ SnapshotUnproved \/ SnapshotUnbound
    <3>1. UNCHANGED <<closures, recorded, latch>> /\ pc' = "idle"
      BY <2>7, Zenon DEF NoSnapshot, SnapshotUnproved, SnapshotUnbound, Publish, Return,
                         dbVars
    <3> QED
      BY <1>1, <3>1
  <2> QED
    BY <1>5, <2>1, <2>2, <2>3, <2>4, <2>5, <2>6, <2>7 DEF CutStep
<1> QED
  BY <1>2, <1>3, <1>4, <1>5 DEF Next

LEMMA AttemptInvHolds == Spec => []AttemptInv
<1>1. Init => AttemptInv
  BY DEF Init, IngestInit, AttemptInv
<1> QED
  BY <1>1, TypeCorrect, AttemptStep, PTL DEF Spec

(***************************************************************************)
(* Recovery is attempted at most once between two verify-roots that pass,  *)
(* whatever crashes happen: begin_attempt records before it works.         *)
(***************************************************************************)
THEOREM RecoveryOnce == Spec => []OneAttempt
<1>1. AttemptInv => OneAttempt
  BY DEF AttemptInv, OneAttempt
<1> QED
  BY <1>1, AttemptInvHolds, PTL

(***************************************************************************)
(* No snapshot is published between a recovery attempt and the next        *)
(* verify-root that passes.                                                *)
(***************************************************************************)
THEOREM SnapshotsGated == Spec => SnapshotGate
<1>1. AttemptInv /\ [Next]_vars => [snapshots' # snapshots => closures = 0]_vars
  <2> SUFFICES ASSUME AttemptInv, Next, snapshots' # snapshots PROVE closures = 0
    BY DEF vars, dbVars
  <2>1. ~latch
    <3>1. CASE ChainStep \/ Fault \/ TornHead
      BY <3>1 DEF ChainStep, Fault, TornHead, dbVars
    <3>2. CASE IngestStep
      <4>1. UNCHANGED snapshots
        BY <3>2, Zenon DEF IngestStep, PollStep, PollHead, PollAnnounced, CycleStep, Detect,
             Rollback, RollbackAbove, Scan, FetchUpdates, StoreBlock, InsertBlockData, Checkpoint, Finish, Abort, dbVars
      <4> QED
        BY <4>1
    <3>3. CASE CutStep
      <4>1. CASE SnapshotProved \/ SnapshotUnproved
        BY <4>1, Zenon DEF SnapshotProved, SnapshotUnproved, SnapshotWanted
      <4>2. CASE ~(SnapshotProved \/ SnapshotUnproved)
        <5>1. UNCHANGED snapshots
          BY <3>3, <4>2, Zenon DEF CutStep, VerifySkipped, VerifyUnavailable,
               VerifyError, VerifyUnbound, VerifyAnswered, SkipRecovery, BeginAttempt,
               Walk, RepairBlock, InsertBlockData, RetryCut, CutEpoch, CutUnbound,
               CutDone, NoSnapshot, SnapshotUnbound, dbVars
        <5> QED
          BY <5>1
      <4> QED
        BY <4>1, <4>2
    <3> QED
      BY <3>1, <3>2, <3>3 DEF Next
  <2> QED
    BY <2>1, Zenon DEF AttemptInv
<1> QED
  BY <1>1, AttemptInvHolds, PTL DEF Spec, SnapshotGate
-----------------------------------------------------------------------------
(***************************************************************************)
(* What the mirror holds, against the chain.  The hypotheses are those of  *)
(* run MCIndexerSettled: ReorgWhen = "settled", the chain abandons blocks  *)
(* only when nothing ingested lies above the recorded head and no block is *)
(* being fetched; TornRollback = FALSE, no death between the promotion of  *)
(* rows and the rollback of the same cycle; LateNotice = FALSE, the loop   *)
(* reads no header of a block the chain has abandoned; HighAnswers =       *)
(* FALSE, no endpoint presents a block above the true final height as the  *)
(* L1-accepted one.  Each is needed: TLC has a counterexample without it.  *)
(*                                                                         *)
(* HeadVouches is not inductive: between the cycles that would repair it,  *)
(* the mirror may hold any number of abandoned blocks.  The invariant      *)
(* tells them apart by their era.  A block (n, e) is Dead if the chain has *)
(* moved on to a younger block at n, or ended below n after e; eras only   *)
(* grow, so the dead never return.  Every stored row, and the head, is     *)
(* dead or else canonical, and a canonical row answers for everything at   *)
(* or below it: SoundTo(n).  A canonical head answers for all: AllSound.   *)
(***************************************************************************)
OnChain(n, e) == n \in 1..Len(chain) /\ chain[n].era = e

(***************************************************************************)
(* Block n, if it has pool events, is stored with them.                    *)
(***************************************************************************)
EventsHeld(n) ==
  /\ n <= Len(chain)
  /\ chain[n].kind \in Eventful => blocks[n].era # NoEra /\ blocks[n].evs

(***************************************************************************)
(* Up to height m rows and anchors are canonical and no events are         *)
(* missing up to the frontier; AllSound is the same at every height.       *)
(***************************************************************************)
SoundTo(m) ==
  /\ \A n \in Heights : n <= m /\ blocks[n].era # NoEra => OnChain(n, blocks[n].era)
  /\ \A n \in Heights : n <= m /\ n <= frontier => EventsHeld(n)
  /\ \A x \in anchors : x[1] <= m => OnChain(x[1], x[2])
AllSound ==
  /\ \A n \in Heights : blocks[n].era # NoEra => OnChain(n, blocks[n].era)
  /\ \A n \in Heights : n <= frontier => EventsHeld(n)
  /\ \A x \in anchors : OnChain(x[1], x[2])
Dead(n, e) == e < era /\ (n <= Len(chain) => e < chain[n].era)

(***************************************************************************)
(* The tables, at every step.                                              *)
(***************************************************************************)
ErasBounded == \A n \in 1..Len(chain) : chain[n].era <= era
WithinFrontier ==
  /\ \A n \in Heights : blocks[n].era # NoEra => n <= frontier
  /\ \A x \in anchors : x[1] <= frontier
  /\ l1Meta <= l1
RowsSound ==
  \A n \in Heights : blocks[n].era # NoEra =>
    Dead(n, blocks[n].era) \/ (OnChain(n, blocks[n].era) /\ SoundTo(n))
HeadSound ==
  /\ head # NoHead => head.num # 0
  /\ head.era # NoEra =>
       Dead(head.num, head.era) \/ (OnChain(head.num, head.era) /\ AllSound)
FloorSound == \A m \in Nat : m <= Floor => SoundTo(m)
EpochsKept ==
  \A i \in 1..Len(epochs) :
    /\ epochs[i].to <= l1
    /\ \A n \in Heights : epochs[i].lines[n].era # NoEra =>
         n <= epochs[i].to /\ OnChain(n, epochs[i].lines[n].era)
    /\ \A n \in 1..Len(chain) :
         epochs[i].from <= n /\ n <= epochs[i].to /\ chain[n].kind \in Eventful =>
           epochs[i].lines[n].era # NoEra /\ epochs[i].lines[n].evs

StoreInv ==
  ErasBounded /\ WithinFrontier /\ RowsSound /\ HeadSound /\ FloorSound /\ EpochsKept

(***************************************************************************)
(* What the position in the main loop adds.  Trusted: once detect_reorg    *)
(* is content, until the cut moves on, and while the frontier is ahead of  *)
(* the head, the chain cannot abandon anything and the mirror is sound.    *)
(* A pending rollback goes to a sound height; a cut finds everything final *)
(* sound; headers and windows in memory are of the present chain.          *)
(***************************************************************************)
Trusted ==
  \/ pc \in IngestPhase \cup {"walk", "repair"}
  \/ pc = "rollback" /\ reorg = {}
  \/ head.num < frontier
TrustedSound == Trusted => AllSound
RollbackSound == pc = "rollback" => \A a \in reorg : SoundTo(a) /\ a <= frontier
CutSound ==
  /\ pc \in CutPhase => head.era # NoEra /\ \A m \in Nat : m <= l1Meta => SoundTo(m)
  /\ pc \in {"mismatch", "walk", "repair"} => diverged <= frontier
  /\ pc = "repair" => \A n \in repairs : n <= frontier
HeadersOnChain ==
  /\ pc \in {"detect", "rollback"} \cup IngestPhase =>
       OnChain(latest.num, latest.era) /\ latest.kind = chain[latest.num].kind
  /\ pc = "detect" =>
       OnChain(announced.num, announced.era) /\ announced.parent = HashAt(announced.num - 1)
InWindow(n) == frontier < n /\ n <= winEnd
WindowHeld ==
  /\ pc \in {"update", "ingest"} => frontier <= winEnd
  /\ pc \in {"update", "ingest"} => \A n \in Heights :
       active[n] = IF InWindow(n) /\ chain[n].kind \in Eventful THEN chain[n].era ELSE NoEra
  /\ pc = "ingest" /\ ~deep => \A n \in Heights :
       updates[n] = IF InWindow(n) /\ chain[n].kind \in Writing THEN chain[n] ELSE NoUpdates[n]

PhaseInv ==
  /\ FinalRowsCanonical /\ TrustedSound /\ RollbackSound /\ CutSound
  /\ HeadersOnChain /\ WindowHeld
SettledInv == StoreInv /\ PhaseInv

-----------------------------------------------------------------------------
(***************************************************************************)
(* The dead are not on the chain; soundness carries over to lower heights. *)
(***************************************************************************)
LEMMA DeadIsOff ==
  ASSUME NEW n \in Nat, NEW e \in Int, OnChain(n, e)
  PROVE  ~Dead(n, e)
BY DEF OnChain, Dead

LEMMA HashOnChain ==
  ASSUME NEW n \in Int, NEW e
  PROVE  /\ OnChain(n, e) => HashAt(n) = e
         /\ e # NoEra /\ HashAt(n) = e => OnChain(n, e)
BY DEF OnChain, HashAt

LEMMA SoundMono ==
  ASSUME IndInv, NEW m \in Int, NEW k \in Int, k <= m, SoundTo(m)
  PROVE  SoundTo(k)
<1>1. \A x \in anchors : x[1] \in Int
  BY DEF IndInv, TypeOK, DbTypeOK, Heights
<1> QED
  BY <1>1 DEF SoundTo, Heights

LEMMA AllToSound ==
  ASSUME NEW m, AllSound
  PROVE  SoundTo(m)
BY DEF AllSound, SoundTo

LEMMA SoundToAll ==
  ASSUME IndInv, WithinFrontier, NEW m \in Int, frontier <= m, SoundTo(m)
  PROVE  AllSound
<1>1. (\A x \in anchors : x[1] \in Int) /\ frontier \in Int
  BY DEF IndInv, TypeOK, DbTypeOK, Heights
<1> QED
  BY <1>1 DEF SoundTo, AllSound, WithinFrontier, Heights

(***************************************************************************)
(* A step that leaves the chain alone and changes nothing the store shows  *)
(* of it, but for new anchors at canonical blocks.                         *)
(***************************************************************************)
SameView ==
  /\ UNCHANGED <<chain, l1, era, frontier>>
  /\ \A x \in anchors' : x \in anchors \/ (OnChain(x[1], x[2]) /\ x[1] <= frontier)
  /\ \A n \in Heights : blocks'[n].era = blocks[n].era /\ blocks'[n].evs = blocks[n].evs

LEMMA ViewSound ==
  ASSUME SameView
  PROVE  /\ \A m : SoundTo(m) => SoundTo(m)'
         /\ AllSound => AllSound'
         /\ \A n, e : OnChain(n, e)' <=> OnChain(n, e)
         /\ \A n, e : Dead(n, e)' <=> Dead(n, e)
<1>1. \A n \in Heights : EventsHeld(n) => EventsHeld(n)'
  BY DEF SameView, EventsHeld
<1>2. \A n, e : OnChain(n, e)' <=> OnChain(n, e)
  BY DEF SameView, OnChain
<1>3. \A n, e : Dead(n, e)' <=> Dead(n, e)
  BY DEF SameView, Dead
<1>4. \A m : SoundTo(m) => SoundTo(m)'
  BY <1>1, <1>2 DEF SameView, SoundTo
<1>5. AllSound => AllSound'
  BY <1>1, <1>2 DEF SameView, AllSound
<1> QED
  BY <1>2, <1>3, <1>4, <1>5

LEMMA ViewRows ==
  ASSUME IndInv, StoreInv, SameView, UNCHANGED head, l1Meta' <= l1
  PROVE  ErasBounded' /\ WithinFrontier' /\ RowsSound' /\ HeadSound'
<1>1. ErasBounded' /\ WithinFrontier'
  BY DEF StoreInv, ErasBounded, WithinFrontier, SameView
<1>2. RowsSound'
  BY ViewSound DEF StoreInv, RowsSound, SameView
<1>3. HeadSound'
  BY ViewSound DEF StoreInv, HeadSound
<1> QED
  BY <1>1, <1>2, <1>3

LEMMA ViewStore ==
  ASSUME IndInv, StoreInv, SameView, UNCHANGED <<head, epochs>>, l1Meta' <= l1
  PROVE  StoreInv'
<1>1. ErasBounded' /\ WithinFrontier' /\ RowsSound' /\ HeadSound'
  BY ViewRows
<1>2. FloorSound'
  BY ViewSound DEF StoreInv, FloorSound, Floor
<1>3. EpochsKept'
  BY ViewSound DEF StoreInv, EpochsKept, SameView
<1> QED
  BY <1>1, <1>2, <1>3 DEF StoreInv

-----------------------------------------------------------------------------
(***************************************************************************)
(* Steps of the chain.  Each leaves the blocks up to some height keep      *)
(* alone, the final ones among them, and abandons blocks only when the     *)
(* mirror is settled; an abandoned block is dead, and dead blocks stay so. *)
(***************************************************************************)
ChainKeeps(keep) ==
  /\ Len(chain') \in Nat /\ keep <= Len(chain')
  /\ \A n \in 1..keep : chain'[n] = chain[n]
  /\ \A n \in Heights, e \in Hashes : Dead(n, e) => Dead(n, e)'
  /\ \A n \in Heights, e \in Hashes : keep < n /\ OnChain(n, e) => Dead(n, e)'
  /\ keep < Len(chain) => Settled

LEMMA ExtendKeeps ==
  ASSUME IndInv, ErasBounded, NEW k \in Kinds, Extend(k)
  PROVE  ErasBounded' /\ l1 <= l1' /\ ChainKeeps(Len(chain)) /\ l1 <= Len(chain)
<1> USE DEF IndInv, TypeOK, ChainTypeOK
<1>1. /\ Len(chain') = Len(chain) + 1 /\ era' = era /\ l1' = l1
      /\ \A n \in 1..Len(chain) : chain'[n] = chain[n]
      /\ chain'[Len(chain) + 1].era = era
  BY DEF Extend
<1>2. ErasBounded'
  BY <1>1 DEF ErasBounded, Eras
<1>3. ASSUME NEW n \in Heights, NEW e \in Hashes, Dead(n, e)
      PROVE  Dead(n, e)'
  BY <1>1, <1>3 DEF Dead, Heights
<1> QED
  BY <1>1, <1>2, <1>3 DEF ChainKeeps, OnChain

LEMMA FinalizeKeeps ==
  ASSUME IndInv, ErasBounded, NEW n \in Heights, Finalize(n)
  PROVE  ErasBounded' /\ l1 <= l1' /\ ChainKeeps(Len(chain)) /\ l1 <= Len(chain)
<1> USE DEF IndInv, TypeOK, ChainTypeOK
<1>1. chain' = chain /\ era' = era /\ l1 <= l1'
  BY DEF Finalize, Heights
<1> QED
  BY <1>1 DEF ChainKeeps, OnChain, Dead, ErasBounded

LEMMA ReorgKeeps ==
  ASSUME IndInv, ErasBounded, Settled, NEW a \in l1..MaxHeight, Reorg(a)
  PROVE  ErasBounded' /\ l1 <= l1' /\ ChainKeeps(a) /\ a \in l1..Len(chain)
<1> USE DEF IndInv, TypeOK, ChainTypeOK
<1>1. l1 \in Nat /\ a \in Nat /\ a < Len(chain) /\ era' = era + 1 /\ l1' = l1 /\ era \in Nat
  BY DEF Reorg, Eras
<1>2. Len(chain') = a /\ \A n \in 1..a : chain'[n] = chain[n]
  BY <1>1 DEF Reorg
<1>3. \A n \in 1..Len(chain) : chain[n].era \in Nat /\ chain[n].era <= era
  <2>1. \A n \in 1..Len(chain) : chain[n] \in Block
    OBVIOUS
  <2> QED
    BY <2>1 DEF Block, Eras, ErasBounded
<1>4. ErasBounded'
  BY <1>1, <1>2, <1>3 DEF ErasBounded
<1>5. ASSUME NEW n \in Heights, NEW e \in Hashes, Dead(n, e)
      PROVE  Dead(n, e)'
  BY <1>1, <1>2, <1>5 DEF Dead, Heights, Hashes, Eras, NoEra
<1>6. ASSUME NEW n \in Heights, NEW e \in Hashes, a < n, OnChain(n, e)
      PROVE  Dead(n, e)'
  BY <1>1, <1>2, <1>3, <1>6 DEF Dead, OnChain, Heights
<1> QED
  BY <1>1, <1>2, <1>4, <1>5, <1>6 DEF ChainKeeps

LEMMA ChainMove ==
  ASSUME ReorgWhen = "settled", IndInv, ErasBounded, ChainStep
  PROVE  /\ ErasBounded' /\ l1 <= l1'
         /\ \E keep \in l1..Len(chain) : ChainKeeps(keep)
<1>1. l1 \in Nat /\ Len(chain) \in Nat /\ l1 <= Len(chain)
  BY DEF IndInv, TypeOK, ChainTypeOK
<1>2. ASSUME NEW k \in Kinds, Extend(k)
      PROVE  ErasBounded' /\ l1 <= l1' /\ ChainKeeps(Len(chain))
  BY <1>2, ExtendKeeps
<1>3. ASSUME NEW n \in Heights, Finalize(n)
      PROVE  ErasBounded' /\ l1 <= l1' /\ ChainKeeps(Len(chain))
  BY <1>3, FinalizeKeeps
<1>4. ASSUME NEW a \in l1..MaxHeight, Reorg(a), ReorgAllowed
      PROVE  ErasBounded' /\ l1 <= l1' /\ \E keep \in l1..Len(chain) : ChainKeeps(keep)
  BY <1>4, ReorgKeeps DEF ReorgAllowed
<1>5. ASSUME ReorgNotice
      PROVE  ErasBounded' /\ l1 <= l1' /\ ChainKeeps(Len(chain))
  BY <1>1, <1>5 DEF ReorgNotice, chainVars, ErasBounded, ChainKeeps, OnChain, Dead
<1> QED
  BY <1>1, <1>2, <1>3, <1>4, <1>5 DEF ChainStep

(***************************************************************************)
(* What is sound up to a height that is kept stays so.                     *)
(***************************************************************************)
Kept(n, keep) == n <= keep \/ keep = Len(chain)

LEMMA KeptBlock ==
  ASSUME IndInv, NEW keep \in l1..Len(chain), ChainKeeps(keep), UNCHANGED dbVars,
         NEW n \in Int, Kept(n, keep)
  PROVE  /\ \A e : OnChain(n, e) => OnChain(n, e)'
         /\ n \in Heights /\ EventsHeld(n) => EventsHeld(n)'
<1>1. keep \in Nat /\ Len(chain) \in Nat /\ l1 \in Nat /\ chain \in Seq(Block)
  BY DEF IndInv, TypeOK, ChainTypeOK
<1>2. CASE n \in 1..Len(chain)
  <2>1. n \in 1..keep
    BY <1>1, <1>2 DEF Kept
  <2>2. keep <= Len(chain') /\ chain'[n] = chain[n] /\ blocks' = blocks
    BY <2>1 DEF ChainKeeps, dbVars
  <2>3. \A e : OnChain(n, e) => OnChain(n, e)'
    BY <1>1, <2>1, <2>2 DEF OnChain
  <2>4. EventsHeld(n) => EventsHeld(n)'
    BY <1>1, <2>1, <2>2 DEF EventsHeld
  <2> QED
    BY <2>3, <2>4
<1>3. CASE n \notin 1..Len(chain)
  BY <1>1, <1>3 DEF OnChain, EventsHeld, Heights
<1> QED
  BY <1>2, <1>3


LEMMA KeptSound ==
  ASSUME IndInv, NEW keep \in l1..Len(chain), ChainKeeps(keep), UNCHANGED dbVars,
         NEW m \in Int, Kept(m, keep), SoundTo(m)
  PROVE  SoundTo(m)'
<1>1. keep \in Int /\ \A x \in anchors : x[1] \in Int
  BY DEF IndInv, TypeOK, ChainTypeOK, DbTypeOK, Heights
<1>2. blocks' = blocks /\ frontier' = frontier /\ anchors' = anchors
  BY DEF dbVars
<1>3. \A n \in Int : n <= m => Kept(n, keep)
  BY <1>1 DEF Kept
<1>4. ASSUME NEW n \in Int, n <= m
      PROVE  /\ \A e : OnChain(n, e) => OnChain(n, e)'
             /\ n \in Heights /\ EventsHeld(n) => EventsHeld(n)'
  BY <1>3, <1>4, KeptBlock
<1>5. \A n \in Heights : n \in Int
  BY DEF Heights
<1> QED
  BY <1>1, <1>2, <1>4, <1>5 DEF SoundTo

LEMMA KeptAll ==
  ASSUME IndInv, NEW keep \in l1..Len(chain), ChainKeeps(keep), UNCHANGED dbVars,
         WithinFrontier, Kept(frontier, keep), AllSound
  PROVE  AllSound'
<1>1. keep \in Int /\ frontier \in Int /\ \A x \in anchors : x[1] \in Int
  BY DEF IndInv, TypeOK, ChainTypeOK, DbTypeOK, Heights
<1>2. blocks' = blocks /\ frontier' = frontier /\ anchors' = anchors
  BY DEF dbVars
<1>3. \A n \in Int : n <= frontier => Kept(n, keep)
  BY <1>1 DEF Kept
<1>4. ASSUME NEW n \in Int, n <= frontier
      PROVE  /\ \A e : OnChain(n, e) => OnChain(n, e)'
             /\ n \in Heights /\ EventsHeld(n) => EventsHeld(n)'
  BY <1>3, <1>4, KeptBlock
<1>5. \A n \in Heights : n \in Int
  BY DEF Heights
<1> QED
  BY <1>1, <1>2, <1>4, <1>5 DEF AllSound, WithinFrontier

LEMMA ChainStoreInv ==
  ASSUME IndInv, StoreInv, NEW keep \in l1..Len(chain), ChainKeeps(keep),
         UNCHANGED dbVars, ErasBounded', l1 <= l1', l1' \in Nat
  PROVE  StoreInv'
<1> USE DEF IndInv, TypeOK
<1>1. /\ keep \in Nat /\ frontier \in Nat /\ l1 \in Nat /\ l1 <= keep /\ l1Meta \in Nat
      /\ Len(chain) \in Nat
  BY DEF ChainTypeOK, DbTypeOK
<1>2. /\ blocks' = blocks /\ frontier' = frontier /\ anchors' = anchors /\ head' = head
      /\ epochs' = epochs /\ l1Meta' = l1Meta
  BY DEF dbVars
<1>3. \A n \in Heights : n \in Nat /\ blocks[n].era \in Hashes
  BY DEF DbTypeOK, Row, Heights
<1>4. WithinFrontier'
  BY <1>1, <1>2 DEF StoreInv, WithinFrontier
<1>5. RowsSound'
  <2> SUFFICES ASSUME NEW n \in Heights, blocks[n].era # NoEra
               PROVE  Dead(n, blocks[n].era)' \/ (OnChain(n, blocks[n].era)' /\ SoundTo(n)')
    BY <1>2 DEF RowsSound
  <2>1. CASE Dead(n, blocks[n].era)
    BY <2>1, <1>2, <1>3 DEF ChainKeeps
  <2>2. CASE OnChain(n, blocks[n].era) /\ SoundTo(n) /\ n <= keep
    <3>1. Kept(n, keep)
      BY <2>2 DEF Kept
    <3> QED
      BY <2>2, <3>1, <1>2, <1>3, KeptBlock, KeptSound
  <2>3. CASE OnChain(n, blocks[n].era) /\ keep < n
    BY <2>3, <1>2, <1>3 DEF ChainKeeps
  <2> QED
    BY <2>1, <2>2, <2>3, <1>1, <1>3 DEF StoreInv, RowsSound
<1>6. HeadSound'
  <2>1. head # NoHead => head.num # 0
    BY DEF StoreInv, HeadSound
  <2> SUFFICES ASSUME head.era # NoEra
               PROVE  Dead(head.num, head.era)' \/ (OnChain(head.num, head.era)' /\ AllSound')
    BY <1>2, <2>1 DEF HeadSound
  <2>2. head.num \in Heights /\ head.era \in Hashes
    BY <2>1 DEF DbTypeOK, Heights, NoHead
  <2>3. CASE Dead(head.num, head.era)
    BY <2>2, <2>3, <1>2 DEF ChainKeeps
  <2>4. CASE OnChain(head.num, head.era) /\ keep < head.num
    BY <2>2, <2>4, <1>2 DEF ChainKeeps
  <2>5. CASE OnChain(head.num, head.era) /\ AllSound /\ head.num <= keep
    <3>1. Kept(head.num, keep) /\ head.num \in Int
      BY <2>2, <2>5 DEF Kept, Heights
    <3>2. Kept(frontier, keep)
      <4>1. CASE keep = Len(chain)
        BY <4>1 DEF Kept
      <4>2. CASE keep # Len(chain)
        BY <4>2, <2>5, <1>1, <3>1 DEF ChainKeeps, Settled, Kept
      <4> QED
        BY <4>1, <4>2
    <3>3. AllSound'
      BY <2>5, <3>2, KeptAll DEF StoreInv
    <3> QED
      BY <2>5, <3>1, <3>3, <1>2, KeptBlock
  <2> QED
    BY <2>2, <2>3, <2>4, <2>5, <1>1 DEF StoreInv, HeadSound, Heights
<1>7. FloorSound'
  <2> SUFFICES ASSUME NEW m \in Nat, m <= Floor
               PROVE  SoundTo(m)'
    BY <1>2 DEF FloorSound, Floor
  <2>1. Floor \in Nat /\ Floor <= l1Meta /\ l1Meta <= l1
    BY FloorNat DEF FloorHolds, StoreInv, WithinFrontier
  <2>2. Kept(m, keep)
    BY <2>1, <1>1 DEF Kept
  <2> QED
    BY <2>2, KeptSound DEF StoreInv, FloorSound
<1>8. EpochsKept'
  <2> SUFFICES ASSUME NEW i \in 1..Len(epochs)
      PROVE  /\ epochs[i].to <= l1'
             /\ \A n \in Heights : epochs[i].lines[n].era # NoEra =>
                  n <= epochs[i].to /\ OnChain(n, epochs[i].lines[n].era)'
             /\ \A n \in 1..Len(chain') :
                  epochs[i].from <= n /\ n <= epochs[i].to /\ chain'[n].kind \in Eventful =>
                    epochs[i].lines[n].era # NoEra /\ epochs[i].lines[n].evs
    BY <1>2 DEF EpochsKept
  <2>1. epochs[i].to \in Nat /\ epochs[i].to <= l1
    <3>1. epochs \in Seq(Epoch)
      BY DEF DbTypeOK
    <3>2. epochs[i] \in Epoch
      BY <3>1
    <3> QED
      BY <3>2 DEF StoreInv, EpochsKept, Epoch
  <2>2. epochs[i].to <= l1'
    BY <2>1, <1>1
  <2>3. ASSUME NEW n \in Heights, epochs[i].lines[n].era # NoEra
        PROVE  n <= epochs[i].to /\ OnChain(n, epochs[i].lines[n].era)'
    <3>1. n <= epochs[i].to /\ OnChain(n, epochs[i].lines[n].era)
      BY <2>3 DEF StoreInv, EpochsKept
    <3>2. Kept(n, keep) /\ n \in Int
      BY <3>1, <2>1, <1>1, <1>3 DEF Kept
    <3> QED
      BY <1>2, <3>1, <3>2, KeptBlock
  <2>4. ASSUME NEW n \in 1..Len(chain'), epochs[i].from <= n, n <= epochs[i].to,
               chain'[n].kind \in Eventful
        PROVE  epochs[i].lines[n].era # NoEra /\ epochs[i].lines[n].evs
    <3>1. n \in 1..keep /\ n \in 1..Len(chain)
      BY <2>1, <2>4, <1>1
    <3>2. chain'[n] = chain[n]
      BY <3>1 DEF ChainKeeps
    <3> QED
      BY <2>4, <3>1, <3>2 DEF StoreInv, EpochsKept
  <2> QED
    BY <2>2, <2>3, <2>4
<1> QED
  BY <1>4, <1>5, <1>6, <1>7, <1>8 DEF StoreInv


LEMMA KeptFinalRows ==
  ASSUME IndInv, StoreInv, FinalRowsCanonical, NEW keep \in l1..Len(chain), ChainKeeps(keep),
         UNCHANGED <<dbVars, pc>>, l1 <= l1', l1' \in Nat
  PROVE  FinalRowsCanonical'
<1>1. keep \in Nat /\ l1 \in Nat /\ l1 <= keep
  BY DEF IndInv, TypeOK, ChainTypeOK
<1>2. blocks' = blocks /\ l1Meta' = l1Meta /\ pc' = pc /\ Stored' = Stored
  BY DEF dbVars, Stored
<1> SUFFICES ASSUME pc # "rollback", NEW n \in Stored, blocks[n].fin, n <= l1Meta
             PROVE  n <= l1' /\ blocks[n].era = HashAt(n)'
  BY <1>2, Zenon DEF FinalRowsCanonical
<1>3. n <= l1 /\ blocks[n].era = HashAt(n)
  BY Zenon DEF FinalRowsCanonical
<1>4. n \in Heights /\ n \in Int /\ blocks[n].era # NoEra
  BY DEF Stored, Heights
<1>5. OnChain(n, blocks[n].era)
  BY <1>3, <1>4, HashOnChain
<1>6. Kept(n, keep)
  BY <1>1, <1>3, <1>4 DEF Kept
<1>7. OnChain(n, blocks[n].era)'
  BY <1>2, <1>4, <1>5, <1>6, KeptBlock
<1>8. HashAt(n)' = blocks[n].era
  BY <1>2, <1>7 DEF OnChain, HashAt
<1> QED
  BY <1>1, <1>3, <1>4, <1>8

LEMMA ChainPhaseInv ==
  ASSUME IndInv, SettledInv, NEW keep \in l1..Len(chain), ChainKeeps(keep),
         UNCHANGED <<dbVars, cycleVars, cutVars>>, l1 <= l1', l1' \in Nat
  PROVE  PhaseInv'
<1> USE DEF IndInv, TypeOK, SettledInv, PhaseInv
<1>1. keep \in Nat /\ l1 \in Nat /\ l1 <= keep /\ l1Meta \in Nat /\ Len(chain) \in Nat
  BY DEF ChainTypeOK, DbTypeOK
<1>2. /\ blocks' = blocks /\ frontier' = frontier /\ anchors' = anchors /\ head' = head
      /\ l1Meta' = l1Meta
      /\ pc' = pc /\ latest' = latest /\ announced' = announced /\ reorg' = reorg
      /\ deep' = deep /\ winEnd' = winEnd /\ active' = active /\ updates' = updates
      /\ diverged' = diverged /\ repairs' = repairs
  BY DEF dbVars, cycleVars, cutVars
<1>3. FinalRowsCanonical'
  BY <1>2, KeptFinalRows
<1>4. pc \in {"detect", "rollback", "walk", "repair"} \cup IngestPhase => keep = Len(chain)
  BY <1>1 DEF ChainKeeps, Settled, IngestPhase
<1>5. TrustedSound'
  <2>1. SUFFICES ASSUME Trusted PROVE AllSound'
    BY <1>2, Zenon DEF TrustedSound, Trusted
  <2>2. AllSound
    BY <2>1 DEF TrustedSound
  <2>3. keep = Len(chain)
    <3>1. CASE head.num < frontier
      BY <3>1, <1>1 DEF ChainKeeps, Settled, DbTypeOK
    <3>2. CASE ~(head.num < frontier)
      BY <3>2, <1>4, <2>1 DEF Trusted
    <3> QED
      BY <3>1, <3>2
  <2>4. Kept(frontier, keep)
    BY <2>3 DEF Kept
  <2> QED
    BY <2>2, <2>4, KeptAll DEF StoreInv
<1>6. RollbackSound'
  <2> SUFFICES ASSUME pc = "rollback", NEW a \in reorg
               PROVE  SoundTo(a)' /\ a <= frontier
    BY <1>2 DEF RollbackSound
  <2>1. SoundTo(a) /\ a <= frontier /\ a \in Int
    BY DEF RollbackSound, IngestTypeOK
  <2>2. Kept(a, keep)
    BY <1>4 DEF Kept
  <2> QED
    BY <2>1, <2>2, KeptSound
<1>7. CutSound'
  <2>1. ASSUME pc \in CutPhase, NEW m \in Nat, m <= l1Meta
        PROVE  SoundTo(m)'
    <3>1. SoundTo(m)
      BY <2>1 DEF CutSound
    <3>2. Kept(m, keep)
      BY <2>1, <1>1 DEF Kept, StoreInv, WithinFrontier
    <3> QED
      BY <3>1, <3>2, KeptSound
  <2> QED
    BY <2>1, <1>2 DEF CutSound
<1>8. HeadersOnChain'
  <2>1. ASSUME pc \in {"detect", "rollback"} \cup IngestPhase
        PROVE  OnChain(latest.num, latest.era)' /\ latest.kind = chain'[latest.num].kind
    <3>1. OnChain(latest.num, latest.era) /\ latest.kind = chain[latest.num].kind
      BY <2>1 DEF HeadersOnChain
    <3>2. latest.num \in 1..keep /\ keep <= Len(chain')
      BY <1>1, <1>4, <2>1, <3>1 DEF OnChain, ChainKeeps
    <3>3. chain'[latest.num] = chain[latest.num]
      BY <3>2 DEF ChainKeeps
    <3>4. Kept(latest.num, keep) /\ latest.num \in Int
      BY <3>2 DEF Kept
    <3> QED
      BY <3>1, <3>3, <3>4, <1>2, KeptBlock
  <2>2. ASSUME pc = "detect"
        PROVE  OnChain(announced.num, announced.era)'
               /\ announced.parent = HashAt(announced.num - 1)'
    <3>1. OnChain(announced.num, announced.era) /\ announced.parent = HashAt(announced.num - 1)
      BY <2>2 DEF HeadersOnChain
    <3>2. announced.num \in 1..keep /\ keep <= Len(chain')
      BY <1>1, <1>4, <2>2, <3>1 DEF OnChain, ChainKeeps
    <3>3. Kept(announced.num, keep) /\ announced.num \in Int
      BY <3>2 DEF Kept
    <3>4. HashAt(announced.num - 1)' = HashAt(announced.num - 1)
      <4>1. chain' = chain \/ \A n \in 1..keep : chain'[n] = chain[n]
        BY DEF ChainKeeps
      <4>2. Len(chain') \in Nat
        BY DEF ChainKeeps
      <4> QED
        BY <1>1, <1>2, <1>4, <2>2, <3>2, <4>1, <4>2 DEF HashAt
    <3> QED
      BY <3>1, <3>3, <3>4, <1>2, KeptBlock
  <2> QED
    BY <2>1, <2>2, <1>2 DEF HeadersOnChain
<1>9. WindowHeld'
  <2> SUFFICES ASSUME pc \in {"update", "ingest"}
               PROVE  WindowHeld'
    BY <1>2 DEF WindowHeld
  <2>1. /\ winEnd \in Nat /\ winEnd <= latest.num /\ latest.num \in 1..Len(chain)
        /\ keep = Len(chain) /\ frontier \in Nat
    BY <1>4 DEF CycleKeepsFloor, HeadersOnChain, OnChain, IngestTypeOK, IngestPhase, DbTypeOK
  <2>2. \A n \in Heights : InWindow(n) => chain'[n] = chain[n]
    BY <2>1 DEF InWindow, ChainKeeps, Heights
  <2>3. \A n \in Heights : InWindow(n)' <=> InWindow(n)
    BY <1>2 DEF InWindow
  <2>4. \A n \in Heights : active'[n] =
          IF InWindow(n)' /\ chain'[n].kind \in Eventful THEN chain'[n].era ELSE NoEra
    BY <1>2, <2>2, <2>3 DEF WindowHeld
  <2>5. ASSUME pc = "ingest", ~deep
        PROVE  \A n \in Heights : updates'[n] =
          IF InWindow(n)' /\ chain'[n].kind \in Writing THEN chain'[n] ELSE NoUpdates[n]
    BY <1>2, <2>2, <2>3, <2>5 DEF WindowHeld
  <2> QED
    BY <1>2, <2>4, <2>5 DEF WindowHeld
<1> QED
  BY <1>3, <1>5, <1>6, <1>7, <1>8, <1>9

LEMMA ChainStepSettled ==
  ASSUME ReorgWhen = "settled", IndInv, SettledInv, ChainStep, IndInv'
  PROVE  SettledInv'
<1>1. ErasBounded' /\ l1 <= l1' /\ l1' \in Nat
  BY ChainMove DEF SettledInv, StoreInv, IndInv, TypeOK, ChainTypeOK
<1>2. PICK keep \in l1..Len(chain) : ChainKeeps(keep)
  BY ChainMove DEF SettledInv, StoreInv
<1>3. UNCHANGED <<dbVars, cycleVars, cutVars>>
  BY DEF ChainStep
<1> QED
  BY <1>1, <1>2, <1>3, ChainStoreInv, ChainPhaseInv DEF SettledInv

-----------------------------------------------------------------------------
(***************************************************************************)
(* Steps that only move through the main loop.                             *)
(***************************************************************************)
LEMMA SoundFinalRows ==
  ASSUME AllSound', WithinFrontier', IndInv'
  PROVE  FinalRowsCanonical'
<1> SUFFICES ASSUME NEW n \in Stored', n <= l1Meta'
             PROVE  n <= l1' /\ blocks'[n].era = HashAt(n)'
  BY Zenon DEF FinalRowsCanonical
<1>1. l1Meta' \in Nat /\ l1' \in Nat /\ l1Meta' <= l1' /\ n \in Nat
  BY DEF IndInv, TypeOK, DbTypeOK, ChainTypeOK, WithinFrontier, Stored, Heights
<1>2. OnChain(n, blocks[n].era)'
  BY DEF AllSound, Stored
<1> QED
  BY <1>1, <1>2 DEF OnChain, HashAt

LEMMA SameFinalRows ==
  ASSUME FinalRowsCanonical, pc # "rollback", UNCHANGED <<chain, l1, blocks, l1Meta>>
  PROVE  FinalRowsCanonical'
BY Zenon DEF FinalRowsCanonical, Stored, HashAt

LEMMA UnchangedView ==
  ASSUME UNCHANGED <<chainVars, dbVars>>
  PROVE  SameView
BY DEF SameView, chainVars, dbVars

LEMMA IdleSettled ==
  ASSUME IndInv, SettledInv, pc' = "idle", pc = "rollback" => reorg = {}, IndInv',
         UNCHANGED <<chainVars, blocks, frontier, head, l1Meta, anchors, epochs>>
  PROVE  SettledInv'
<1> USE DEF SettledInv, PhaseInv
<1>1. SameView /\ UNCHANGED <<chain, l1, blocks, l1Meta, head, epochs, frontier>>
  BY DEF SameView, chainVars
<1>2. StoreInv'
  BY <1>1, ViewStore DEF StoreInv, WithinFrontier
<1>3. FinalRowsCanonical'
  <2>1. CASE pc # "rollback"
    BY <2>1, <1>1, SameFinalRows
  <2>2. CASE pc = "rollback"
    BY <2>2, <1>1, <1>2, ViewSound, SoundFinalRows DEF TrustedSound, Trusted, StoreInv
  <2> QED
    BY <2>1, <2>2
<1>4. TrustedSound'
  BY <1>1, ViewSound DEF TrustedSound, Trusted, IngestPhase
<1>5. RollbackSound' /\ CutSound' /\ HeadersOnChain' /\ WindowHeld'
  BY DEF RollbackSound, CutSound, HeadersOnChain, WindowHeld, IngestPhase, CutPhase
<1> QED
  BY <1>2, <1>3, <1>4, <1>5

LEMMA CutSettled ==
  ASSUME IndInv, SettledInv, pc \in CutPhase, pc' \in CutPhase, StoreInv', SameView,
         UNCHANGED <<blocks, head, l1Meta>>,
         pc' \in {"mismatch", "walk", "repair"} => diverged' <= frontier,
         pc' \in {"walk", "repair"} => AllSound,
         pc' = "repair" => \A n \in repairs' : n <= frontier
  PROVE  SettledInv'
<1> USE DEF SettledInv, PhaseInv
<1>1. UNCHANGED <<chain, l1, frontier>>
  BY DEF SameView
<1>2. FinalRowsCanonical'
  BY <1>1, SameFinalRows DEF CutPhase
<1>3. TrustedSound'
  BY <1>1, ViewSound DEF TrustedSound, Trusted, IngestPhase, CutPhase
<1>4. CutSound'
  BY <1>1, ViewSound DEF CutSound
<1>5. RollbackSound' /\ HeadersOnChain' /\ WindowHeld'
  BY DEF RollbackSound, HeadersOnChain, WindowHeld, IngestPhase, CutPhase
<1> QED
  BY <1>2, <1>3, <1>4, <1>5

LEMMA QuietCutSettled ==
  ASSUME IndInv, SettledInv, pc \in CutPhase, pc' \in CutPhase,
         UNCHANGED <<chainVars, blocks, frontier, head, l1Meta, anchors, epochs>>,
         pc' \in {"mismatch", "walk", "repair"} => diverged' <= frontier,
         pc' \in {"walk", "repair"} => AllSound,
         pc' = "repair" => \A n \in repairs' : n <= frontier
  PROVE  SettledInv'
<1>1. SameView
  BY DEF SameView, chainVars
<1>2. StoreInv'
  BY <1>1, ViewStore DEF SettledInv, StoreInv, WithinFrontier
<1> QED
  BY <1>1, <1>2, CutSettled
-----------------------------------------------------------------------------
(***************************************************************************)
(* The steps of the ingest cycle.                                          *)
(***************************************************************************)
LEMMA PollSettled ==
  ASSUME LateNotice = FALSE, IndInv, SettledInv, PollStep, OutsideCut
  PROVE  SettledInv'
<1> USE DEF SettledInv, PhaseInv
<1>1. /\ SameView /\ UNCHANGED <<chain, l1, blocks, l1Meta, head, epochs, frontier>>
      /\ pc = "idle" /\ pc' \in {"idle", "detect"}
  BY PollEffect, UnchangedView DEF IndInv, OutsideCut, chainVars, dbVars
<1>2. StoreInv'
  BY <1>1, ViewStore DEF StoreInv, WithinFrontier
<1>3. FinalRowsCanonical'
  BY <1>1, SameFinalRows
<1>4. TrustedSound'
  BY <1>1, ViewSound DEF TrustedSound, Trusted, IngestPhase
<1>5. RollbackSound' /\ CutSound' /\ WindowHeld'
  BY <1>1 DEF RollbackSound, CutSound, WindowHeld, CutPhase
<1>6. HeadersOnChain'
  <2>1. CASE pc' = "idle"
    BY <2>1 DEF HeadersOnChain, IngestPhase
  <2>2. CASE pc' = "detect"
    <3>1. stale = {}
      BY DEF IndInv, TypeOK, StaleTypeOK
    <3>2. PICK v \in 1..Len(chain), m \in 1..Len(chain) :
                 latest' = HeaderAt(v) /\ announced' = HeaderAt(m)
      BY <1>1, <2>2, <3>1, PollEffect DEF IndInv
    <3> QED
      BY <1>1, <3>2 DEF HeadersOnChain, HeaderAt, OnChain, HashAt
  <2> QED
    BY <1>1, <2>1, <2>2
<1> QED
  BY <1>2, <1>3, <1>4, <1>5, <1>6

(***************************************************************************)
(* What detect_reorg answers: the head stands and vouches for everything,  *)
(* or the mirror is sound up to where it goes back to.                     *)
(***************************************************************************)

LEMMA CanonicalHead ==
  ASSUME IndInv, SettledInv, OnChain(head.num, head.era)
  PROVE  AllSound
<1>1. chain[head.num] \in Block
  BY DEF OnChain, IndInv, TypeOK, ChainTypeOK
<1>2. head.era # NoEra /\ head.era \in Int /\ head.num \in Nat
  BY <1>1 DEF OnChain, Block, Eras, NoEra
<1>3. ~Dead(head.num, head.era)
  BY <1>2, DeadIsOff
<1> QED
  BY <1>2, <1>3 DEF SettledInv, StoreInv, HeadSound

LEMMA CanonicalRow ==
  ASSUME IndInv, SettledInv, NEW n \in Stored, OnChain(n, blocks[n].era)
  PROVE  SoundTo(n)
<1>1. n \in Heights /\ n \in Nat /\ blocks[n].era # NoEra /\ blocks[n].era \in Int
  BY DEF Stored, Heights, IndInv, TypeOK, DbTypeOK, Row, Hashes, Eras, NoEra
<1>2. ~Dead(n, blocks[n].era)
  BY <1>1, DeadIsOff
<1> QED
  BY <1>1, <1>2 DEF SettledInv, StoreInv, RowsSound

LEMMA HeadStands ==
  ASSUME IndInv, SettledInv, pc = "detect", NEW v \in Visible,
         head = NoHead \/ HeadConfirmedBy(announced) \/ ~HeadGone(v)
  PROVE  AllSound
<1> USE DEF SettledInv, PhaseInv, IndInv, TypeOK
<1>1. CASE head = NoHead
  <2>1. CASE frontier = 0
    BY <2>1 DEF AllSound, StoreInv, WithinFrontier, DbTypeOK, Heights
  <2>2. CASE frontier # 0
    BY <1>1, <2>2 DEF TrustedSound, Trusted, NoHead, DbTypeOK
  <2> QED
    BY <2>1, <2>2
<1>2. CASE head # NoHead
  <2>1. head.num \in Nat /\ head.num # 0
    BY <1>2 DEF DbTypeOK, StoreInv, HeadSound
  <2>2. OnChain(announced.num, announced.era) /\ announced.parent = HashAt(announced.num - 1)
    BY DEF HeadersOnChain
  <2>3. CASE head.num = announced.num /\ announced.era = head.era
    BY <2>2, <2>3, CanonicalHead
  <2>4. CASE announced.num = head.num + 1 /\ announced.parent = head.era
    <3>1. head.num \in 1..Len(chain) /\ HashAt(head.num) = head.era
      BY <2>1, <2>2, <2>4 DEF OnChain
    <3> QED
      BY <3>1, CanonicalHead DEF OnChain, HashAt
  <2>5. CASE ~HeadGone(v)
    <3>1. head.num \in 1..Len(chain) /\ HashAt(head.num) = head.era
      BY <2>1, <2>5 DEF HeadGone, Visible, Heights, ChainTypeOK
    <3> QED
      BY <3>1, CanonicalHead DEF OnChain, HashAt
  <2> QED
    BY <1>2, <2>3, <2>4, <2>5 DEF HeadConfirmedBy
<1> QED
  BY <1>1, <1>2

LEMMA WalkbackSound ==
  ASSUME IndInv, SettledInv, pc = "detect", NEW v \in Visible, NEW a \in WalkbackStops(v)
  PROVE  SoundTo(a) /\ a <= frontier
<1> USE DEF SettledInv, PhaseInv, IndInv, TypeOK
<1>1. CASE a = Floor
  BY <1>1, FloorNat DEF StoreInv, FloorSound, FloorHolds
<1>2. CASE a # Floor
  <2>1. /\ a \in Stored
        /\ \/ blocks[a].fin /\ a <= l1Meta
           \/ HashAt(a) = blocks[a].era
    BY <1>2, Zenon DEF WalkbackStops
  <2>2. blocks[a].era = HashAt(a)
    BY <2>1, Zenon DEF FinalRowsCanonical
  <2>3. a \in Heights /\ a \in Int /\ blocks[a].era # NoEra
    BY <2>1 DEF Stored, Heights
  <2>4. OnChain(a, blocks[a].era)
    BY <2>2, <2>3, HashOnChain
  <2> QED
    BY <2>1, <2>3, <2>4, CanonicalRow DEF StoreInv, WithinFrontier
<1> QED
  BY <1>1, <1>2

LEMMA PromotedView ==
  ASSUME IndInv, NEW upto \in Nat, blocks' = PromoteL1(blocks, upto)
  PROVE  \A n \in Heights : blocks'[n].era = blocks[n].era /\ blocks'[n].evs = blocks[n].evs
<1> SUFFICES ASSUME NEW n \in Heights
             PROVE  blocks'[n].era = blocks[n].era /\ blocks'[n].evs = blocks[n].evs
  OBVIOUS
<1>1. blocks[n] \in Row
  BY DEF IndInv, TypeOK, DbTypeOK
<1>2. blocks'[n] \in {blocks[n], [blocks[n] EXCEPT !.fin = TRUE]}
  BY DEF PromoteL1
<1> QED
  BY <1>1, <1>2 DEF Row

LEMMA DetectSettled ==
  ASSUME HighAnswers = FALSE, IndInv, SettledInv, NEW v \in Heights, NEW ans \in L1Answers, Detect(v, ans),
         OutsideCut, IndInv'
  PROVE  SettledInv'
<1> USE DEF SettledInv, PhaseInv
<1>1. PICK r \in {{}} \cup {{a} : a \in 0..MaxHeight} :
        /\ DetectReorg(v, r)
        /\ IF r = {} /\ latest.num < frontier
           THEN Abort
           ELSE /\ reorg' = r
                /\ pc' = "rollback"
                /\ IF L1Rejected(ans)
                   THEN UNCHANGED <<l1Meta, blocks>>
                   ELSE /\ l1Meta' = ans.num
                        /\ blocks' = PromoteL1(blocks, ans.num)
                /\ UNCHANGED <<latest, announced, supplied, deep, winEnd, active,
                               updates, frontier, head, classes, anchors, epochs,
                               snapshots, probe, latch, recorded>>
  BY Zenon DEF Detect
<1>2. pc = "detect" /\ v \in Visible /\ UNCHANGED <<chain, l1, era>>
  BY DEF Detect, OutsideCut, chainVars
<1>3. CASE r = {} /\ latest.num < frontier
  BY <1>1, <1>2, <1>3, IdleSettled DEF Abort, Volatile, chainVars, dbVars
<1>4. CASE ~(r = {} /\ latest.num < frontier)
  <2>1. /\ reorg' = r /\ pc' = "rollback"
        /\ UNCHANGED <<latest, announced, frontier, head, anchors, epochs>>
    BY <1>1, <1>4, Zenon
  <2>2. /\ l1Meta' <= l1
        /\ \A n \in Heights : blocks'[n].era = blocks[n].era /\ blocks'[n].evs = blocks[n].evs
    <3>1. CASE L1Rejected(ans)
      <4>1. l1Meta' = l1Meta /\ blocks' = blocks
        BY <1>1, <1>4, <3>1, Zenon
      <4> QED
        BY <4>1 DEF StoreInv, WithinFrontier
    <3>2. CASE ~L1Rejected(ans)
      <4>1. l1Meta' = ans.num /\ blocks' = PromoteL1(blocks, ans.num)
        BY <1>1, <1>4, <3>2, Zenon
      <4>2. ans.status # "other" /\ l1 \in Nat
        BY <3>2 DEF L1Rejected, IndInv, TypeOK, ChainTypeOK
      <4>3. ans \in [num : 0..l1, status : {"l1", "none"}]
        BY <4>2 DEF L1Answers
      <4>4. ans.num \in 0..l1
        BY <4>3
      <4> QED
        BY <4>1, <4>2, <4>4, PromotedView DEF IndInv, TypeOK, ChainTypeOK
    <3> QED
      BY <3>1, <3>2
  <2>3. SameView
    BY <1>2, <2>1, <2>2 DEF SameView
  <2>4. StoreInv'
    BY <2>1, <2>2, <2>3, ViewStore
  <2>5. (r = {} => AllSound) /\ \A a \in r : SoundTo(a) /\ a <= frontier
    <3>1. CASE head = NoHead \/ HeadConfirmedBy(announced) \/ ~HeadGone(v)
      <4>1. r = {}
        BY <1>1, <3>1, Zenon DEF DetectReorg
      <4> QED
        BY <1>2, <3>1, <4>1, HeadStands
    <3>2. CASE ~(head = NoHead \/ HeadConfirmedBy(announced) \/ ~HeadGone(v))
      <4>1. PICK a \in WalkbackStops(v) : r = {a}
        BY <1>1, <3>2, Zenon DEF DetectReorg
      <4> QED
        BY <1>2, <4>1, WalkbackSound
    <3> QED
      BY <3>1, <3>2
  <2>6. FinalRowsCanonical'
    BY <2>1 DEF FinalRowsCanonical
  <2>7. TrustedSound'
    BY <1>2, <2>1, <2>3, <2>5, ViewSound DEF TrustedSound, Trusted, IngestPhase
  <2>8. RollbackSound'
    BY <2>1, <2>3, <2>5, ViewSound DEF RollbackSound
  <2>9. CutSound' /\ WindowHeld'
    BY <2>1 DEF CutSound, WindowHeld, CutPhase
  <2>10. HeadersOnChain'
    BY <1>2, <2>1 DEF HeadersOnChain, OnChain
  <2> QED
    BY <2>4, <2>6, <2>7, <2>8, <2>9, <2>10
<1> QED
  BY <1>3, <1>4


(***************************************************************************)
(* While blocks are ingested the whole mirror is sound, and that is all    *)
(* there is to show.                                                       *)
(***************************************************************************)
LEMMA SoundStore ==
  ASSUME AllSound', WithinFrontier', IndInv', StoreInv, UNCHANGED <<chainVars, epochs>>,
         head' # NoHead => head'.num # 0,
         head'.era # NoEra => Dead(head.num, head.era)' \/ OnChain(head.num, head.era)'
  PROVE  StoreInv'
<1>1. \A m : SoundTo(m)'
  BY DEF AllSound, SoundTo
<1>2. RowsSound' /\ FloorSound'
  BY <1>1 DEF RowsSound, FloorSound, AllSound
<1>3. HeadSound'
  BY DEF HeadSound
<1>4. ErasBounded' /\ EpochsKept'
  BY DEF StoreInv, ErasBounded, EpochsKept, OnChain, chainVars
<1> QED
  BY <1>2, <1>3, <1>4 DEF StoreInv

LEMMA IngestSettled ==
  ASSUME IndInv, SettledInv, IndInv', UNCHANGED <<chainVars, epochs, head, l1Meta, latest>>,
         pc \in {"rollback"} \cup IngestPhase, pc' \in IngestPhase, AllSound',
         \A n \in Heights : blocks'[n].era # NoEra => n <= frontier',
         \A x \in anchors' : x[1] <= frontier',
         WindowHeld'
  PROVE  SettledInv'
<1> USE DEF SettledInv, PhaseInv
<1>1. WithinFrontier'
  BY DEF WithinFrontier, StoreInv, chainVars
<1>2. \A n, e : (OnChain(n, e)' <=> OnChain(n, e)) /\ (Dead(n, e)' <=> Dead(n, e))
  BY DEF OnChain, Dead, chainVars
<1>3. StoreInv'
  BY <1>1, <1>2, SoundStore DEF StoreInv, HeadSound
<1>4. FinalRowsCanonical'
  BY <1>1, SoundFinalRows
<1>5. TrustedSound'
  BY DEF TrustedSound
<1>6. RollbackSound' /\ CutSound'
  BY DEF RollbackSound, CutSound, IngestPhase, CutPhase
<1>7. HeadersOnChain'
  BY <1>2 DEF HeadersOnChain, IngestPhase, chainVars
<1> QED
  BY <1>3, <1>4, <1>5, <1>6, <1>7

LEMMA RollbackSettled ==
  ASSUME IndInv, SettledInv, Rollback, OutsideCut, IndInv'
  PROVE  SettledInv'
<1> USE DEF SettledInv, PhaseInv
<1>1. /\ pc = "rollback" /\ pc' \in {"scan", "finish"}
      /\ UNCHANGED <<chainVars, latest>>
  BY DEF Rollback, OutsideCut
<1>2. WindowHeld'
  BY <1>1 DEF WindowHeld
<1>3. CASE reorg = {}
  <2>1. UNCHANGED dbVars
    BY <1>3 DEF Rollback
  <2>2. SameView
    BY <1>1, <2>1, UnchangedView
  <2>3. AllSound'
    BY <1>1, <1>3, <2>2, ViewSound DEF TrustedSound, Trusted
  <2> QED
    BY <1>1, <1>2, <2>1, <2>3, IngestSettled DEF IngestPhase, dbVars, StoreInv, WithinFrontier
<1>4. CASE reorg # {}
  <2>1. PICK a \in reorg : RollbackAbove(a)
    BY <1>4 DEF Rollback
  <2>2. a \in Nat /\ a <= frontier /\ SoundTo(a) /\ frontier \in Nat
    <3>1. reorg \in {{}} \cup {{n} : n \in 0..MaxHeight} /\ frontier \in 0..MaxHeight
      BY Zenon DEF IndInv, TypeOK, IngestTypeOK, DbTypeOK
    <3>2. a \in Nat /\ frontier \in Nat
      BY <2>1, <3>1
    <3> QED
      BY <1>1, <2>1, <3>2 DEF RollbackSound
  <2>3. /\ frontier' = a /\ UNCHANGED <<epochs, head, l1Meta>>
        /\ \A n \in Heights : n <= a => blocks'[n] = blocks[n]
        /\ \A n \in Heights : blocks'[n].era # NoEra => n <= a
        /\ anchors' = {x \in anchors : x[1] <= a}
    BY <2>1, <2>2 DEF RollbackAbove, NoRow
  <2>4. AllSound'
    <3>1. \A n \in Heights : n <= a => (EventsHeld(n) => EventsHeld(n)')
      BY <1>1, <2>3 DEF EventsHeld, chainVars
    <3>2. \A n, e : OnChain(n, e)' <=> OnChain(n, e)
      BY <1>1 DEF OnChain, chainVars
    <3>3. \A n \in Heights : blocks'[n].era # NoEra => OnChain(n, blocks[n].era)'
      BY <2>2, <2>3, <3>2 DEF SoundTo
    <3>4. \A n \in Heights : n <= frontier' => EventsHeld(n)'
      BY <2>2, <2>3, <3>1 DEF SoundTo, Heights
    <3>5. \A x \in anchors' : OnChain(x[1], x[2])'
      BY <2>2, <2>3, <3>2 DEF SoundTo
    <3> QED
      BY <3>3, <3>4, <3>5 DEF AllSound
  <2> QED
    BY <1>1, <1>2, <2>3, <2>4, IngestSettled DEF IngestPhase
<1> QED
  BY <1>3, <1>4

LEMMA UpdateIsBlock ==
  ASSUME IndInv, SettledInv, pc \in {"scan", "update"}, NEW n \in 1..Len(chain)
  PROVE  Answered(n) /\ UpdateOf(n) = chain[n]
<1>1. OnChain(latest.num, latest.era) /\ latest.kind = chain[latest.num].kind
  BY DEF SettledInv, PhaseInv, HeadersOnChain, IngestPhase
<1>2. chain[n] \in Block
  BY DEF IndInv, TypeOK, ChainTypeOK
<1>3. Answered(n)
  BY DEF Answered
<1>4. CASE FromFeeder(n)
  <2>1. n = latest.num
    BY <1>4 DEF FromFeeder
  <2>2. UpdateOf(n) = [era |-> chain[n].era, kind |-> chain[n].kind]
    BY <1>1, <1>4, <2>1 DEF UpdateOf, OnChain
  <2> QED
    BY <1>2, <1>3, <2>2 DEF Block
<1>5. CASE ~FromFeeder(n)
  BY <1>3, <1>5 DEF UpdateOf
<1> QED
  BY <1>4, <1>5

LEMMA ScanSettled ==
  ASSUME IndInv, SettledInv, Scan, OutsideCut, IndInv'
  PROVE  SettledInv'
<1> USE DEF SettledInv, PhaseInv
<1>1. /\ pc = "scan" /\ pc' \in {"ingest", "update"} /\ winEnd' = WindowEnd
      /\ UNCHANGED <<chainVars, dbVars, latest, deep>>
  BY DEF Scan, OutsideCut
<1>2. SameView /\ UNCHANGED <<frontier, chain>>
  BY <1>1, UnchangedView DEF dbVars, chainVars
<1>3. AllSound'
  BY <1>1, <1>2, ViewSound DEF TrustedSound, Trusted, IngestPhase
<1>4. /\ frontier \in Nat /\ latest.num \in 1..Len(chain) /\ frontier <= latest.num
      /\ WindowEnd \in Nat /\ frontier <= WindowEnd /\ WindowEnd <= latest.num
      /\ Len(chain) \in Nat
  <2>1. /\ frontier \in Nat /\ latest.num \in 1..Len(chain) /\ frontier <= latest.num
        /\ Len(chain) \in Nat
    <3>1. frontier \in 0..MaxHeight /\ chain \in Seq(Block)
      BY Zenon DEF IndInv, TypeOK, DbTypeOK, ChainTypeOK
    <3>2. latest.num \in 1..Len(chain) /\ frontier <= latest.num
      BY <1>1 DEF IndInv, CycleKeepsFloor, HeadersOnChain, IngestPhase, OnChain
    <3> QED
      BY <3>1, <3>2
  <2>2. (IF deep THEN Segment ELSE Batch) \in Nat
    OBVIOUS
  <2> QED
    BY <2>1, <2>2 DEF WindowEnd
<1>5. \A n \in Heights : frontier < n /\ n <= WindowEnd =>
         Answered(n) /\ UpdateOf(n) = chain[n]
  <2>1. \A n \in Heights : frontier < n /\ n <= WindowEnd => n \in 1..Len(chain)
    BY <1>4 DEF Heights
  <2> QED
    BY <1>1, <2>1, UpdateIsBlock
<1>6. \A n \in Heights : active'[n] =
        IF InWindow(n)' /\ chain'[n].kind \in Eventful THEN chain'[n].era ELSE NoEra
  <2>1. active' = [n \in Heights |->
                     IF frontier < n /\ n <= WindowEnd /\ HasEvents(n)
                     THEN UpdateOf(n).era ELSE NoEra]
    BY DEF Scan
  <2>2. \A n \in Heights : InWindow(n)' <=> frontier < n /\ n <= WindowEnd
    BY <1>1, <1>2 DEF InWindow
  <2>3. \A n \in Heights : frontier < n /\ n <= WindowEnd =>
          (HasEvents(n) <=> chain[n].kind \in Eventful)
    BY <1>5 DEF HasEvents
  <2> QED
    BY <1>2, <1>5, <2>1, <2>2, <2>3
<1>7. ~(pc' = "ingest" /\ ~deep')
  BY <1>1 DEF Scan
<1>8. WindowHeld'
  <2>1. frontier' <= winEnd'
    BY <1>1, <1>2, <1>4
  <2> QED
    BY <1>1, <1>6, <1>7, <2>1 DEF WindowHeld
<1> QED
  BY <1>1, <1>3, <1>8, IngestSettled DEF IngestPhase, dbVars, StoreInv, WithinFrontier

LEMMA FetchSettled ==
  ASSUME IndInv, SettledInv, FetchUpdates, OutsideCut, IndInv'
  PROVE  SettledInv'
<1> USE DEF SettledInv, PhaseInv
<1>1. CASE \E n \in (frontier + 1)..winEnd : ~Answered(n)
  BY <1>1, IdleSettled DEF FetchUpdates, Abort, Volatile, OutsideCut, dbVars
<1>2. CASE ~\E n \in (frontier + 1)..winEnd : ~Answered(n)
  <2>1. /\ pc = "update" /\ pc' = "ingest"
        /\ UNCHANGED <<chainVars, dbVars, latest, deep, winEnd, active>>
        /\ updates' = [n \in Heights |->
                         IF /\ frontier < n /\ n <= winEnd
                            /\ active[n] # NoEra \/ UpdateOf(n).kind \in Writing
                         THEN UpdateOf(n) ELSE NoUpdates[n]]
    BY <1>2 DEF FetchUpdates, OutsideCut
  <2>2. SameView /\ UNCHANGED <<frontier, chain>>
    BY <2>1, UnchangedView DEF dbVars, chainVars
  <2>3. AllSound'
    BY <2>1, <2>2, ViewSound DEF TrustedSound, Trusted, IngestPhase
  <2>4. /\ frontier \in Nat /\ winEnd \in Nat /\ winEnd <= latest.num
        /\ latest.num \in 1..Len(chain) /\ Len(chain) \in Nat
    <3>1. frontier \in Nat /\ winEnd \in Nat /\ Len(chain) \in Nat
      BY DEF IndInv, TypeOK, DbTypeOK, ChainTypeOK, IngestTypeOK
    <3>2. winEnd <= latest.num
      BY <2>1 DEF IndInv, CycleKeepsFloor
    <3>3. latest.num \in 1..Len(chain)
      BY <2>1 DEF HeadersOnChain, IngestPhase, OnChain
    <3> QED
      BY <3>1, <3>2, <3>3
  <2>5. \A n \in Heights : InWindow(n) => UpdateOf(n) = chain[n]
    <3>1. \A n \in Heights : InWindow(n) => n \in 1..Len(chain)
      BY <2>4 DEF Heights, InWindow
    <3> QED
      BY <2>1, <3>1, UpdateIsBlock
  <2>6. \A n \in Heights : active[n] # NoEra => chain[n].kind \in Writing
    BY <2>1 DEF WindowHeld, Eventful, Writing
  <2>7. \A n \in Heights : InWindow(n)' <=> InWindow(n)
    BY <2>1, <2>2 DEF InWindow
  <2>8. \A n \in Heights : updates'[n] =
          IF InWindow(n)' /\ chain'[n].kind \in Writing THEN chain'[n] ELSE NoUpdates[n]
    BY <2>1, <2>2, <2>5, <2>6, <2>7 DEF InWindow
  <2>9. WindowHeld'
    BY <2>1, <2>2, <2>7, <2>8 DEF WindowHeld
  <2> QED
    BY <2>1, <2>3, <2>9, IngestSettled DEF IngestPhase, dbVars, StoreInv, WithinFrontier
<1> QED
  BY <1>1, <1>2


(***************************************************************************)
(* What is left of a batch or segment: exactly the blocks of its window    *)
(* with pool events, and in the tail the ones that only write as well.     *)
(***************************************************************************)
LEMMA WindowOnChain ==
  ASSUME IndInv, SettledInv, pc = "ingest"
  PROVE  /\ frontier \in Nat /\ winEnd \in Nat /\ frontier <= winEnd /\ Len(chain) \in Nat
         /\ latest.num \in 1..Len(chain) /\ latest.era = chain[latest.num].era
         /\ \A n \in Heights : InWindow(n) =>
              n \in 1..Len(chain) /\ chain[n] \in Block /\ chain[n].era # NoEra
<1>1. /\ frontier \in Nat /\ winEnd \in Nat /\ frontier <= winEnd /\ winEnd <= latest.num
      /\ latest.num \in 1..Len(chain) /\ latest.era = chain[latest.num].era
      /\ Len(chain) \in Nat
  BY DEF SettledInv, PhaseInv, WindowHeld, HeadersOnChain, OnChain, IngestPhase, CycleKeepsFloor,
         IndInv, TypeOK, DbTypeOK, IngestTypeOK, ChainTypeOK
<1>2. \A n \in 1..Len(chain) : chain[n] \in Block
  BY DEF IndInv, TypeOK, ChainTypeOK
<1>3. \A n \in Heights : InWindow(n) => n \in 1..Len(chain)
  BY <1>1 DEF InWindow, Heights
<1> QED
  BY <1>1, <1>2, <1>3 DEF Block, Eras, NoEra

LEMMA TodoIsWindow ==
  ASSUME IndInv, SettledInv, pc = "ingest", NEW n \in Heights
  PROVE  /\ InWindow(n) /\ chain[n].kind \in Eventful => n \in Todo /\ active[n] # NoEra
         /\ ~deep /\ InWindow(n) /\ chain[n].kind \in Writing => n \in Todo
         /\ n \in Todo => InWindow(n) /\ (~deep => updates[n] = chain[n])
<1> USE DEF SettledInv, PhaseInv
<1>1. InWindow(n) => chain[n].era # NoEra
  BY WindowOnChain
<1>2. active[n] = IF InWindow(n) /\ chain[n].kind \in Eventful THEN chain[n].era ELSE NoEra
  BY DEF WindowHeld
<1>3. chain[n].kind \in Eventful => chain[n].kind \in Writing
  BY DEF Eventful, Writing
<1>4. CASE deep
  BY <1>1, <1>2, <1>4 DEF Todo
<1>5. CASE ~deep
  <2>1. updates[n] = IF InWindow(n) /\ chain[n].kind \in Writing THEN chain[n] ELSE NoUpdates[n]
    BY <1>5 DEF WindowHeld
  <2>2. NoUpdates[n].era = NoEra
    BY DEF NoUpdates
  <2>3. n \in Todo <=> updates[n].era # NoEra
    BY <1>5 DEF Todo
  <2> QED
    BY <1>1, <1>2, <1>3, <1>5, <2>1, <2>2, <2>3
<1> QED
  BY <1>4, <1>5

LEMMA StoreBlockSettled ==
  ASSUME IndInv, SettledInv, StoreBlock, OutsideCut, IndInv'
  PROVE  SettledInv'
<1> USE DEF SettledInv, PhaseInv
<1>1. pc = "ingest" /\ UNCHANGED chainVars
  BY DEF StoreBlock, OutsideCut
<1>2. PICK n \in Todo :
        /\ \A k \in Todo : n <= k
        /\ LET hash == HeaderHash(n)
               update == IF deep THEN chain[n] ELSE updates[n]
           IN  IF \/ hash = NoEra
                  \/ update.era # hash
                  \/ active[n] \notin {NoEra, hash}
               THEN Abort
               ELSE /\ \E fin \in Statuses(n) :
                         InsertBlockData(n, [era |-> hash, kind |-> update.kind,
                                             fin |-> fin, evs |-> active[n] # NoEra])
                    /\ active' = [active EXCEPT ![n] = NoEra]
                    /\ updates' = [updates EXCEPT ![n] = NoUpdates[n]]
                    /\ UNCHANGED <<pc, latest, announced, supplied, reorg, deep, winEnd>>
  BY Zenon DEF StoreBlock
<1> DEFINE hash == HeaderHash(n)
           update == IF deep THEN chain[n] ELSE updates[n]
           bad == hash = NoEra \/ update.era # hash \/ active[n] \notin {NoEra, hash}
<1>3. CASE bad
  <2>1. Abort
    BY <1>2, <1>3, Zenon
  <2> QED
    BY <1>1, <2>1, IdleSettled DEF Abort, Volatile, dbVars
<1>4. CASE ~bad
  <2>1. /\ \E fin \in Statuses(n) :
             InsertBlockData(n, [era |-> hash, kind |-> update.kind,
                                 fin |-> fin, evs |-> active[n] # NoEra])
        /\ active' = [active EXCEPT ![n] = NoEra]
        /\ updates' = [updates EXCEPT ![n] = NoUpdates[n]]
        /\ UNCHANGED <<pc, latest, deep, winEnd>>
    BY <1>2, <1>4, Zenon
  <2>2. n \in Heights /\ InWindow(n) /\ update = chain[n]
    BY <1>1, <1>2, TodoIsWindow DEF Todo
  <2>3. hash = chain[n].era /\ update.era = hash
    BY <1>4, <2>2
  <2>4. PICK fin \in Statuses(n) :
          InsertBlockData(n, [era |-> hash, kind |-> update.kind,
                              fin |-> fin, evs |-> active[n] # NoEra])
    BY <2>1
  <2> HIDE DEF hash, update, bad
  <2>5. /\ blocks' = [blocks EXCEPT ![n] = [era |-> hash, kind |-> update.kind,
                                            fin |-> fin, evs |-> active[n] # NoEra]]
        /\ frontier' = IF n > frontier THEN n ELSE frontier
        /\ UNCHANGED <<head, l1Meta, anchors, epochs>>
    BY <2>4 DEF InsertBlockData
  <2>6. /\ frontier \in Nat /\ winEnd \in Nat /\ n \in 1..Len(chain) /\ n \in Nat
        /\ frontier < n /\ n <= winEnd /\ Len(chain) \in Nat
    BY <1>1, <2>2, WindowOnChain DEF InWindow
  <2>7. frontier' = n
    BY <2>5, <2>6
  <2>8. blocks \in [Heights -> Row] /\ chain' = chain
    BY <1>1 DEF IndInv, TypeOK, DbTypeOK, chainVars
  <2>9. /\ \A k \in Heights : k # n => blocks'[k] = blocks[k]
        /\ blocks'[n].era = chain[n].era
        /\ active[n] # NoEra => blocks'[n].evs
    BY <2>2, <2>3, <2>5, <2>8
  <2>10. \A k \in Heights : k < n /\ InWindow(k) =>
           chain[k].kind \notin Eventful /\ (~deep => chain[k].kind \notin Writing)
    <3> SUFFICES ASSUME NEW k \in Heights, k < n, InWindow(k)
                 PROVE  chain[k].kind \notin Eventful /\ (~deep => chain[k].kind \notin Writing)
      OBVIOUS
    <3>1. k \notin Todo
      BY <1>2, <2>6 DEF Heights
    <3> QED
      BY <1>1, <3>1, TodoIsWindow
  <2>11. AllSound
    BY <1>1 DEF TrustedSound, Trusted, IngestPhase
  <2>12. AllSound'
    <3>1. \A k, e : OnChain(k, e)' <=> OnChain(k, e)
      BY <2>8 DEF OnChain
    <3>2. ASSUME NEW k \in Heights, blocks'[k].era # NoEra
          PROVE  OnChain(k, blocks[k].era)'
      <4>1. CASE k = n
        BY <2>6, <2>8, <2>9, <4>1 DEF OnChain
      <4>2. CASE k # n
        BY <2>9, <2>11, <3>1, <3>2, <4>2 DEF AllSound
      <4> QED
        BY <4>1, <4>2
    <3>3. ASSUME NEW k \in Heights, k <= n
          PROVE  EventsHeld(k)'
      <4>1. CASE k <= frontier
        <5>1. EventsHeld(k) /\ k # n /\ blocks'[k] = blocks[k]
          BY <2>6, <2>9, <2>11, <4>1 DEF AllSound, Heights
        <5> QED
          BY <2>8, <5>1 DEF EventsHeld
      <4>2. CASE frontier < k /\ k < n
        <5>1. InWindow(k) /\ k <= Len(chain)
          BY <2>6, <4>2 DEF InWindow, Heights
        <5> QED
          BY <2>8, <2>10, <4>2, <5>1 DEF EventsHeld
      <4>3. CASE k = n
        <5>1. chain[n].kind \in Eventful => active[n] # NoEra
          BY <1>1, <2>2, TodoIsWindow
        <5>2. blocks'[n].era # NoEra
          BY <1>1, <2>2, <2>9, WindowOnChain
        <5> QED
          BY <2>6, <2>8, <2>9, <4>3, <5>1, <5>2 DEF EventsHeld
      <4> QED
        BY <2>6, <3>3, <4>1, <4>2, <4>3 DEF Heights
    <3>4. \A x \in anchors' : OnChain(x[1], x[2])'
      BY <2>5, <2>11, <3>1 DEF AllSound
    <3> QED
      BY <2>7, <3>2, <3>3, <3>4 DEF AllSound
  <2>13. \A k \in Heights : blocks'[k].era # NoEra => k <= n
    BY <2>6, <2>9 DEF StoreInv, WithinFrontier, Heights
  <2>14. \A x \in anchors' : x[1] <= n
    <3>1. \A x \in anchors : x[1] \in Int
      BY DEF IndInv, TypeOK, DbTypeOK, Heights
    <3> QED
      BY <2>5, <2>6, <3>1 DEF StoreInv, WithinFrontier
  <2>15. WindowHeld'
    <3>1. \A k \in Heights : InWindow(k)' <=> n < k /\ InWindow(k)
      BY <2>1, <2>6, <2>7 DEF InWindow, Heights
    <3>2. active \in [Heights -> Hashes]
          /\ updates \in [Heights -> [era : Hashes, kind : AllKinds]]
      BY DEF IndInv, TypeOK, IngestTypeOK
    <3>3. ASSUME NEW k \in Heights
          PROVE  active'[k] = IF InWindow(k)' /\ chain'[k].kind \in Eventful
                              THEN chain'[k].era ELSE NoEra
      <4>1. active[k] = IF InWindow(k) /\ chain[k].kind \in Eventful THEN chain[k].era ELSE NoEra
        BY <1>1 DEF WindowHeld
      <4>2. CASE k = n
        BY <2>1, <2>6, <3>1, <3>2, <4>2
      <4>3. CASE k # n
        BY <2>1, <2>6, <2>8, <2>10, <3>1, <3>2, <4>1, <4>3 DEF Heights
      <4> QED
        BY <4>2, <4>3
    <3>4. ASSUME ~deep, NEW k \in Heights
          PROVE  updates'[k] = IF InWindow(k)' /\ chain'[k].kind \in Writing
                               THEN chain'[k] ELSE NoUpdates[k]
      <4>1. updates[k] = IF InWindow(k) /\ chain[k].kind \in Writing THEN chain[k] ELSE NoUpdates[k]
        BY <1>1, <3>4 DEF WindowHeld
      <4>2. CASE k = n
        BY <2>1, <2>6, <3>1, <3>2, <4>2
      <4>3. CASE k # n
        BY <2>1, <2>6, <2>8, <2>10, <3>1, <3>2, <3>4, <4>1, <4>3 DEF Heights
      <4> QED
        BY <4>2, <4>3
    <3> QED
      BY <1>1, <2>1, <2>6, <2>7, <3>3, <3>4 DEF WindowHeld
  <2> QED
    BY <1>1, <2>1, <2>5, <2>7, <2>12, <2>13, <2>14, <2>15, IngestSettled DEF IngestPhase
<1> QED
  BY <1>3, <1>4

LEMMA CheckpointSettled ==
  ASSUME IndInv, SettledInv, Checkpoint, OutsideCut, IndInv'
  PROVE  SettledInv'
<1> USE DEF SettledInv, PhaseInv
<1>1. /\ pc = "ingest" /\ Todo = {} /\ frontier' = winEnd /\ pc' \in {"finish", "scan"}
      /\ UNCHANGED <<chainVars, latest, blocks, head, l1Meta, anchors, epochs>>
  BY DEF Checkpoint, OutsideCut
<1>2. /\ frontier \in Nat /\ winEnd \in Nat /\ frontier <= winEnd
      /\ \A n \in Heights : InWindow(n) => n <= Len(chain) /\ chain[n].kind \notin Eventful
  BY <1>1, WindowOnChain, TodoIsWindow
<1>3. AllSound
  BY <1>1 DEF TrustedSound, Trusted, IngestPhase
<1>4. AllSound'
  <2>1. chain' = chain
    BY <1>1 DEF chainVars
  <2>2. ASSUME NEW n \in Heights, n <= winEnd
        PROVE  EventsHeld(n)'
    <3>1. EventsHeld(n)
      BY <1>2, <1>3, <2>2 DEF AllSound, EventsHeld, InWindow, Heights
    <3> QED
      BY <1>1, <2>1, <3>1 DEF EventsHeld
  <2> QED
    BY <1>1, <1>3, <2>1, <2>2 DEF AllSound, OnChain
<1>5. \A n \in Heights : blocks'[n].era # NoEra => n <= frontier'
  BY <1>1, <1>2 DEF StoreInv, WithinFrontier, Heights
<1>6. \A x \in anchors' : x[1] <= frontier'
  <2>1. \A x \in anchors : x[1] \in Int
    BY DEF IndInv, TypeOK, DbTypeOK, Heights
  <2> QED
    BY <1>1, <1>2, <2>1 DEF StoreInv, WithinFrontier
<1>7. WindowHeld'
  BY <1>1 DEF WindowHeld
<1> QED
  BY <1>1, <1>4, <1>5, <1>6, <1>7, IngestSettled DEF IngestPhase

LEMMA FinishSettled ==
  ASSUME IndInv, SettledInv, Finish, OutsideCut, IndInv'
  PROVE  SettledInv'
<1> USE DEF SettledInv, PhaseInv
<1>1. /\ pc = "finish" /\ pc' = "verify"
      /\ head' = [num |-> latest.num, era |-> latest.era]
      /\ blocks' = PromoteL1(blocks, l1Meta)
      /\ UNCHANGED <<chainVars, frontier, l1Meta, anchors, epochs>>
  BY DEF Finish, OutsideCut, Volatile
<1>2. SameView
  <2>1. l1Meta \in Nat
    BY DEF IndInv, TypeOK, DbTypeOK
  <2> QED
    BY <1>1, <2>1, PromotedView DEF SameView, chainVars
<1>3. AllSound'
  BY <1>1, <1>2, ViewSound DEF TrustedSound, Trusted, IngestPhase
<1>4. WithinFrontier'
  BY <1>1, <1>2 DEF StoreInv, WithinFrontier, SameView
<1>5. OnChain(head.num, head.era)' /\ head'.num # 0 /\ head'.era # NoEra
  <2>1. OnChain(latest.num, latest.era)
    BY <1>1 DEF HeadersOnChain, IngestPhase
  <2>2. chain[latest.num] \in Block
    BY <2>1 DEF OnChain, IndInv, TypeOK, ChainTypeOK
  <2>3. chain' = chain
    BY <1>1 DEF chainVars
  <2> QED
    BY <1>1, <2>1, <2>2, <2>3 DEF OnChain, Block, Eras, NoEra
<1>6. StoreInv'
  BY <1>1, <1>3, <1>4, <1>5, SoundStore
<1>7. FinalRowsCanonical'
  BY <1>3, <1>4, SoundFinalRows
<1>8. TrustedSound'
  BY <1>3 DEF TrustedSound
<1>9. CutSound'
  <2>1. \A m : SoundTo(m)'
    BY <1>3 DEF AllSound, SoundTo
  <2> QED
    BY <1>1, <1>5, <2>1 DEF CutSound
<1>10. RollbackSound' /\ HeadersOnChain' /\ WindowHeld'
  BY <1>1 DEF RollbackSound, HeadersOnChain, WindowHeld, IngestPhase
<1> QED
  BY <1>6, <1>7, <1>8, <1>9, <1>10

LEMMA IngestStepSettled ==
  ASSUME LateNotice = FALSE, HighAnswers = FALSE, IndInv, SettledInv, IngestStep, IndInv'
  PROVE  SettledInv'
<1>1. OutsideCut
  BY DEF IngestStep
<1> QED
  BY <1>1, PollSettled, DetectSettled, RollbackSettled, ScanSettled, FetchSettled,
     StoreBlockSettled, CheckpointSettled, FinishSettled, Zenon DEF IngestStep, CycleStep

-----------------------------------------------------------------------------
(***************************************************************************)
(* The steps of the cut.  Those that end it:                               *)
(***************************************************************************)
LEMMA EndsCutSettled ==
  ASSUME IndInv, SettledInv, IndInv', UNCHANGED chainVars, NEW v \in Heights,
         \/ VerifyUnbound \/ SkipRecovery(v) \/ CutUnbound \/ NoSnapshot
         \/ SnapshotUnproved \/ SnapshotUnbound
  PROVE  SettledInv'
<1>1. /\ pc # "rollback" /\ pc' = "idle"
      /\ UNCHANGED <<blocks, frontier, head, l1Meta, anchors, epochs>>
  BY DEF VerifyUnbound, SkipRecovery, CutUnbound, NoSnapshot, SnapshotUnproved,
         SnapshotUnbound, Publish, Return, dbVars
<1> QED
  BY <1>1, IdleSettled

(***************************************************************************)
(* Those that go on with the same tables, into a repair only under a head  *)
(* that is still canonical:                                                *)
(***************************************************************************)
LEMMA GoesOnSettled ==
  ASSUME IndInv, SettledInv, UNCHANGED chainVars,
         \/ VerifySkipped \/ VerifyUnavailable \/ VerifyError \/ RetryCut \/ CutDone
  PROVE  SettledInv'
<1>1. /\ pc \in CutPhase /\ pc' \in {"cut", "verify", "snapshot"}
      /\ UNCHANGED <<blocks, frontier, head, l1Meta, anchors, epochs>>
  BY DEF VerifySkipped, VerifyUnavailable, VerifyError, RetryCut, CutDone, CutPhase, dbVars
<1> QED
  BY <1>1, QuietCutSettled DEF CutPhase

LEMMA BeginAttemptSettled ==
  ASSUME IndInv, SettledInv, UNCHANGED chainVars, NEW v \in Heights, BeginAttempt(v)
  PROVE  SettledInv'
<1> USE DEF SettledInv, PhaseInv
<1>1. /\ pc = "mismatch" /\ pc' = "walk" /\ diverged' = diverged /\ v \in Visible /\ ~Skips(v)
      /\ UNCHANGED <<blocks, frontier, head, l1Meta, anchors, epochs>>
  BY DEF BeginAttempt, cutVars
<1>2. head # NoHead /\ head.num # 0
  BY <1>1 DEF CutSound, CutPhase, NoHead, StoreInv, HeadSound
<1>3. OnChain(head.num, head.era)
  <2>1. ~HeadGone(v)
    BY <1>1, <1>2 DEF Skips, ReorgInFlight
  <2> QED
    BY <1>1, <1>2, <2>1 DEF HeadGone, HashAt, OnChain, Visible, Heights, IndInv, TypeOK,
       DbTypeOK, ChainTypeOK
<1>4. AllSound /\ diverged <= frontier
  BY <1>1, <1>3, CanonicalHead DEF CutSound
<1> QED
  BY <1>1, <1>4, QuietCutSettled DEF CutPhase

LEMMA WalkSettled ==
  ASSUME IndInv, SettledInv, IndInv', UNCHANGED chainVars, Walk
  PROVE  SettledInv'
<1> USE DEF SettledInv, PhaseInv
<1>1. pc = "walk" /\ UNCHANGED <<blocks, frontier, head, l1Meta, anchors, epochs>>
  BY DEF Walk, dbVars
<1>2. CASE diverged > Len(chain)
  BY <1>1, <1>2, IdleSettled DEF Walk, Return
<1>3. CASE ~(diverged > Len(chain))
  <2>1. /\ pc' = "repair" /\ diverged' = diverged
        /\ repairs' = FirstWriters(MissingSlots(diverged), diverged)
    BY <1>3 DEF Walk
  <2>2. diverged <= frontier /\ AllSound
    BY <1>1 DEF CutSound, TrustedSound, Trusted
  <2>3. \A n \in repairs' : n \in Int /\ n <= diverged
    BY <2>1 DEF FirstWriters, ChainWriters
  <2>4. \A n \in repairs' : n <= frontier
    <3>1. frontier \in Int /\ diverged \in Int
      BY DEF IndInv, TypeOK, DbTypeOK, CutTypeOK
    <3> QED
      BY <2>2, <2>3, <3>1
  <2> QED
    BY <1>1, <2>1, <2>2, <2>4, QuietCutSettled DEF CutPhase
<1> QED
  BY <1>2, <1>3

LEMMA RepairBlockSettled ==
  ASSUME IndInv, SettledInv, IndInv', UNCHANGED chainVars, RepairBlock
  PROVE  SettledInv'
<1> USE DEF SettledInv, PhaseInv
<1>1. PICK n \in repairs :
        IF n > Len(chain)
        THEN Return /\ UNCHANGED dbVars
        ELSE /\ \E fin \in Statuses(n) :
                  InsertBlockData(n, [era |-> chain[n].era, kind |-> chain[n].kind,
                                      fin |-> fin, evs |-> chain[n].kind \in Eventful])
             /\ repairs' = repairs \ {n}
             /\ UNCHANGED <<pc, attempt, diverged>>
             /\ SameCycle
  BY Zenon DEF RepairBlock
<1>2. pc = "repair" /\ chain' = chain
  BY DEF RepairBlock, chainVars
<1>3. CASE n > Len(chain)
  BY <1>1, <1>2, <1>3, IdleSettled DEF Return, dbVars
<1>4. CASE ~(n > Len(chain))
  <2>1. PICK fin \in Statuses(n) :
          InsertBlockData(n, [era |-> chain[n].era, kind |-> chain[n].kind,
                              fin |-> fin, evs |-> chain[n].kind \in Eventful])
    BY <1>1, <1>4
  <2>2. pc' = "repair" /\ diverged' = diverged /\ repairs' \subseteq repairs
    BY <1>1, <1>2, <1>4
  <2>3. n \in Heights /\ n <= frontier /\ frontier \in Nat /\ n \in 1..Len(chain)
    <3>1. n \in Heights /\ frontier \in Nat
      <4>1. repairs \subseteq Heights /\ frontier \in 0..MaxHeight
        BY Zenon DEF IndInv, TypeOK, CutTypeOK, DbTypeOK
      <4> QED
        BY <4>1
    <3>2. n <= frontier
      BY <1>2 DEF CutSound
    <3>3. Len(chain) \in Nat
      BY DEF IndInv, TypeOK, ChainTypeOK
    <3> QED
      BY <1>4, <3>1, <3>2, <3>3 DEF Heights
  <2>4. /\ blocks' = [blocks EXCEPT ![n] =
             [era |-> chain[n].era, kind |-> chain[n].kind, fin |-> fin,
              evs |-> chain[n].kind \in Eventful]]
        /\ frontier' = IF n > frontier THEN n ELSE frontier
        /\ UNCHANGED <<head, l1Meta, anchors, epochs>>
    BY <2>1 DEF InsertBlockData
  <2>5. frontier' = frontier
    BY <2>3, <2>4 DEF Heights
  <2>6. /\ \A k \in Heights : k # n => blocks'[k] = blocks[k]
        /\ blocks'[n].era = chain[n].era
        /\ chain[n].kind \in Eventful => blocks'[n].evs
    BY <2>3, <2>4 DEF IndInv, TypeOK, DbTypeOK
  <2>7. AllSound
    BY <1>2 DEF TrustedSound, Trusted
  <2>8. AllSound'
    <3>1. ASSUME NEW k \in Heights, blocks'[k].era # NoEra
          PROVE  OnChain(k, blocks[k].era)'
      BY <1>2, <2>3, <2>6, <2>7, <3>1 DEF AllSound, OnChain
    <3>2. ASSUME NEW k \in Heights, k <= frontier
          PROVE  EventsHeld(k)'
      <4>1. CASE k # n
        BY <1>2, <2>6, <2>7, <3>2, <4>1 DEF AllSound, EventsHeld
      <4>2. CASE k = n
        <5>1. chain[n] \in Block
          BY <2>3 DEF IndInv, TypeOK, ChainTypeOK
        <5>2. chain[n].era # NoEra
          BY <5>1 DEF Block, Eras, NoEra
        <5> QED
          BY <1>2, <2>3, <2>6, <4>2, <5>2 DEF EventsHeld
      <4> QED
        BY <4>1, <4>2
    <3>3. \A x \in anchors' : OnChain(x[1], x[2])'
      BY <1>2, <2>4, <2>7 DEF AllSound, OnChain
    <3> QED
      BY <2>5, <3>1, <3>2, <3>3 DEF AllSound
  <2>9. WithinFrontier'
    <3>1. l1' = l1
      BY DEF chainVars
    <3> QED
      BY <2>3, <2>4, <2>5, <2>6, <3>1 DEF StoreInv, WithinFrontier
  <2>10. StoreInv'
    <3>1. \A k, e : (OnChain(k, e)' <=> OnChain(k, e)) /\ (Dead(k, e)' <=> Dead(k, e))
      BY DEF OnChain, Dead, chainVars
    <3> QED
      BY <2>4, <2>8, <2>9, <3>1, SoundStore DEF StoreInv, HeadSound
  <2>11. FinalRowsCanonical' /\ TrustedSound'
    BY <2>8, <2>9, SoundFinalRows DEF TrustedSound
  <2>12. CutSound'
    <3>1. \A m : SoundTo(m)'
      BY <2>8 DEF AllSound, SoundTo
    <3> QED
      BY <1>2, <2>2, <2>4, <2>5, <3>1 DEF CutSound, CutPhase
  <2>13. RollbackSound' /\ HeadersOnChain' /\ WindowHeld'
    BY <2>2 DEF RollbackSound, HeadersOnChain, WindowHeld, IngestPhase
  <2> QED
    BY <2>10, <2>11, <2>12, <2>13
<1> QED
  BY <1>3, <1>4

(***************************************************************************)
(* An anchor is the block a proof agreed with, which the chain has now.    *)
(***************************************************************************)
LEMMA AnchorSound ==
  ASSUME NEW n \in 1..Len(chain), n <= frontier, anchors' = WithAnchor(n)
  PROVE  \A x \in anchors' : x \in anchors \/ (OnChain(x[1], x[2]) /\ x[1] <= frontier)
<1>1. \A x \in anchors' : x \in anchors \/ x = <<n, HashAt(n)>>
  BY DEF WithAnchor, Newest
<1>2. HashAt(n) = chain[n].era
  BY DEF HashAt
<1>3. OnChain(n, HashAt(n))
  BY <1>2 DEF OnChain
<1> QED
  BY <1>1, <1>3

LEMMA VerifyAnsweredSettled ==
  ASSUME IndInv, SettledInv, UNCHANGED chainVars, NEW v \in Heights, VerifyAnswered(v)
  PROVE  SettledInv'
<1> DEFINE target == IF frontier < v THEN frontier ELSE v
<1>1. pc = "verify" /\ frontier # 0 /\ v \in Visible
  BY DEF VerifyAnswered
<1>2. target \in 1..Len(chain) /\ target <= frontier
  BY <1>1 DEF Visible, Heights, IndInv, TypeOK, DbTypeOK, ChainTypeOK
<1>3. CASE RootMatches(target)
  <2>1. /\ anchors' = WithAnchor(target) /\ pc' = "cut"
        /\ UNCHANGED <<blocks, frontier, head, l1Meta, epochs>>
    BY <1>3, Zenon DEF VerifyAnswered
  <2> HIDE DEF target
  <2>2. SameView
    BY <1>2, <2>1, AnchorSound DEF SameView, chainVars
  <2>3. StoreInv'
    BY <2>1, <2>2, ViewStore DEF SettledInv, StoreInv, WithinFrontier
  <2> QED
    BY <1>1, <2>1, <2>2, <2>3, CutSettled DEF CutPhase
<1>4. CASE ~RootMatches(target)
  <2>1. /\ diverged' = target /\ pc' = "mismatch"
        /\ UNCHANGED <<blocks, frontier, head, l1Meta, anchors, epochs>>
    BY <1>4, Zenon DEF VerifyAnswered
  <2> HIDE DEF target
  <2> QED
    BY <1>1, <1>2, <2>1, QuietCutSettled DEF CutPhase
<1> QED
  BY <1>3, <1>4

LEMMA SnapshotProvedSettled ==
  ASSUME IndInv, SettledInv, IndInv', UNCHANGED chainVars, SnapshotProved
  PROVE  SettledInv'
<1>1. CASE RootMatches(Floor)
  BY <1>1, IdleSettled DEF SnapshotProved, Publish, Return
<1>2. CASE ~RootMatches(Floor)
  <2>1. /\ pc = "snapshot" /\ pc' = "mismatch" /\ diverged' = Floor
        /\ UNCHANGED <<blocks, frontier, head, l1Meta, anchors, epochs>>
    BY <1>2 DEF SnapshotProved
  <2> QED
    BY <2>1, QuietCutSettled DEF CutPhase, IndInv, FloorHolds
<1> QED
  BY <1>1, <1>2


(***************************************************************************)
(* An epoch is cut from rows that are final and sound, whatever became of  *)
(* the head since.                                                         *)
(***************************************************************************)
LEMMA CutLines ==
  ASSUME IndInv, SettledInv, pc = "cut", Ready
  PROVE  LET e == BuildEpoch(NextEpoch) IN
         /\ e.to <= l1
         /\ \A n \in Heights : e.lines[n].era # NoEra => n <= e.to /\ OnChain(n, e.lines[n].era)
         /\ \A n \in 1..Len(chain) :
              e.from <= n /\ n <= e.to /\ chain[n].kind \in Eventful =>
                e.lines[n].era # NoEra /\ e.lines[n].evs
<1> DEFINE e == BuildEpoch(NextEpoch)
           from == EpochFrom(NextEpoch)
           to == EpochTo(NextEpoch)
<1>1. /\ from \in Nat /\ to \in Nat /\ to <= l1Meta /\ to <= frontier /\ l1Meta <= l1
      /\ l1Meta \in Nat /\ l1 \in Nat /\ frontier \in Nat
  BY NextEpochNat DEF Ready, SettledInv, StoreInv, WithinFrontier, IndInv, TypeOK, DbTypeOK,
     ChainTypeOK
<1>2. SoundTo(to)
  BY <1>1 DEF SettledInv, PhaseInv, CutSound, CutPhase
<1>3. /\ e.from = from /\ e.to = to
      /\ e.lines = [n \in Heights |->
                      IF from <= n /\ n <= to
                      THEN [era |-> blocks[n].era, evs |-> blocks[n].evs] ELSE NoLine]
  BY DEF BuildEpoch
<1> HIDE DEF e, from, to
<1>4. \A n \in Heights : ~(from <= n /\ n <= to) => e.lines[n].era = NoEra
  BY <1>3 DEF NoLine
<1>5. \A n \in Heights : from <= n /\ n <= to =>
         e.lines[n].era = blocks[n].era /\ e.lines[n].evs = blocks[n].evs
  BY <1>3
<1>6. \A n \in Heights : e.lines[n].era # NoEra => n <= to /\ OnChain(n, e.lines[n].era)
  BY <1>2, <1>4, <1>5 DEF SoundTo
<1>7. ASSUME NEW n \in 1..Len(chain), from <= n, n <= to, chain[n].kind \in Eventful
      PROVE  e.lines[n].era # NoEra /\ e.lines[n].evs
  <2>1. n \in Heights /\ n <= frontier
    BY <1>1, <1>7 DEF Heights, IndInv, TypeOK, ChainTypeOK
  <2>2. blocks[n].era # NoEra /\ blocks[n].evs
    BY <1>2, <1>7, <2>1 DEF SoundTo, EventsHeld
  <2> QED
    BY <1>5, <1>7, <2>1, <2>2
<1>8. e.to <= l1
  BY <1>1, <1>3
<1>9. \A n \in Heights : e.lines[n].era # NoEra => n <= e.to /\ OnChain(n, e.lines[n].era)
  BY <1>3, <1>6
<1>10. \A n \in 1..Len(chain) :
         e.from <= n /\ n <= e.to /\ chain[n].kind \in Eventful =>
           e.lines[n].era # NoEra /\ e.lines[n].evs
  BY <1>3, <1>7
<1> QED
  BY <1>8, <1>9, <1>10, Zenon DEF e

LEMMA CutEpochSettled ==
  ASSUME IndInv, SettledInv, UNCHANGED chainVars, NEW proved \in BOOLEAN, CutEpoch(proved)
  PROVE  SettledInv'
<1> USE DEF SettledInv, PhaseInv
<1> DEFINE e == BuildEpoch(NextEpoch)
           to == EpochTo(NextEpoch)
<1>1. /\ pc = "cut" /\ pc' = "cut" /\ Ready /\ epochs' = Append(epochs, e)
      /\ anchors' = IF proved THEN WithAnchor(to) ELSE anchors
      /\ proved => to \in 1..Len(chain)
      /\ UNCHANGED <<blocks, frontier, head, l1Meta>>
  BY DEF CutEpoch
<1>2. to \in Nat /\ to <= l1Meta /\ to <= frontier /\ e.to = to
  BY <1>1, NextEpochNat DEF Ready, BuildEpoch
<1>3. SameView
  <2>1. \A x \in anchors' : x \in anchors \/ (OnChain(x[1], x[2]) /\ x[1] <= frontier)
    <3>1. CASE proved
      BY <1>1, <1>2, <3>1, AnchorSound
    <3>2. CASE ~proved
      BY <1>1, <3>2
    <3> QED
      BY <3>1, <3>2
  <2> QED
    BY <1>1, <2>1 DEF SameView, chainVars
<1>4. ErasBounded' /\ WithinFrontier' /\ RowsSound' /\ HeadSound'
  BY <1>1, <1>3, ViewRows DEF StoreInv, WithinFrontier
<1>5. /\ e.to <= l1
      /\ \A n \in Heights : e.lines[n].era # NoEra => n <= e.to /\ OnChain(n, e.lines[n].era)
      /\ \A n \in 1..Len(chain) :
           e.from <= n /\ n <= e.to /\ chain[n].kind \in Eventful =>
             e.lines[n].era # NoEra /\ e.lines[n].evs
  BY <1>1, CutLines
<1>6. epochs \in Seq(Epoch) /\ e \in Epoch
  BY BuildEpochType DEF IndInv, TypeOK, DbTypeOK
<1> HIDE DEF e
<1>7. /\ Len(epochs') = Len(epochs) + 1 /\ epochs' # <<>> /\ Len(epochs) \in Nat
      /\ \A i \in 1..Len(epochs) : epochs'[i] = epochs[i]
      /\ epochs'[Len(epochs) + 1] = e
  BY <1>1, <1>6
<1>8. FloorSound'
  <2>1. Floor' = to
    BY <1>2, <1>7 DEF Floor
  <2>2. \A m \in Nat : m <= to => SoundTo(m)
    BY <1>1, <1>2 DEF CutSound, CutPhase, IndInv, TypeOK, DbTypeOK
  <2> QED
    BY <1>3, <2>1, <2>2, ViewSound DEF FloorSound
<1>9. EpochsKept'
  <2>1. chain' = chain /\ l1' = l1
    BY DEF chainVars
  <2> SUFFICES ASSUME NEW i \in 1..Len(epochs')
      PROVE  /\ epochs'[i].to <= l1
             /\ \A n \in Heights : epochs'[i].lines[n].era # NoEra =>
                  n <= epochs'[i].to /\ OnChain(n, epochs[i].lines[n].era)'
             /\ \A n \in 1..Len(chain) :
                  epochs'[i].from <= n /\ n <= epochs'[i].to /\ chain[n].kind \in Eventful =>
                    epochs'[i].lines[n].era # NoEra /\ epochs'[i].lines[n].evs
    BY <2>1 DEF EpochsKept
  <2>2. CASE i \in 1..Len(epochs)
    BY <1>7, <2>1, <2>2 DEF StoreInv, EpochsKept, OnChain
  <2>3. CASE i = Len(epochs) + 1
    BY <1>5, <1>7, <2>1, <2>3 DEF OnChain
  <2> QED
    BY <1>7, <2>2, <2>3
<1>10. StoreInv'
  BY <1>4, <1>8, <1>9 DEF StoreInv
<1> QED
  BY <1>1, <1>3, <1>10, CutSettled DEF CutPhase

LEMMA CutStepSettled ==
  ASSUME IndInv, SettledInv, CutStep, IndInv'
  PROVE  SettledInv'
<1>1. UNCHANGED chainVars
  BY DEF CutStep
<1>2. Heights # {}
  BY DEF Heights
<1> QED
  BY <1>1, <1>2, EndsCutSettled, GoesOnSettled, BeginAttemptSettled, WalkSettled,
     RepairBlockSettled, VerifyAnsweredSettled, SnapshotProvedSettled, CutEpochSettled,
     Zenon DEF CutStep
-----------------------------------------------------------------------------
(***************************************************************************)
(* Faults.                                                                 *)
(***************************************************************************)
LEMMA FaultSettled ==
  ASSUME TornRollback = FALSE, IndInv, SettledInv, Fault, IndInv'
  PROVE  SettledInv'
<1>1. /\ pc = "rollback" => reorg = {}
      /\ pc' = "idle" /\ UNCHANGED <<chainVars, dbVars>>
  BY DEF Fault, Volatile
<1> QED
  BY <1>1, IdleSettled DEF dbVars

LEMMA TornHeadSettled ==
  ASSUME IndInv, SettledInv, TornHead, IndInv'
  PROVE  SettledInv'
<1> USE DEF SettledInv, PhaseInv
<1>1. /\ pc = "finish" /\ pc' = "idle"
      /\ UNCHANGED <<chainVars, blocks, frontier, l1Meta, anchors, epochs>>
      /\ head' \in {head, [num |-> latest.num, era |-> NoEra]}
  BY DEF TornHead, Volatile
<1>2. SameView
  BY <1>1 DEF SameView, chainVars
<1>3. AllSound'
  BY <1>1, <1>2, ViewSound DEF TrustedSound, Trusted, IngestPhase
<1>4. WithinFrontier'
  BY <1>1 DEF StoreInv, WithinFrontier, chainVars
<1>5. latest.num # 0
  BY <1>1 DEF HeadersOnChain, OnChain, IngestPhase
<1>6. StoreInv'
  <2>1. head' # NoHead => head'.num # 0
    BY <1>1, <1>5 DEF StoreInv, HeadSound
  <2>2. head'.era # NoEra => Dead(head.num, head.era)' \/ OnChain(head.num, head.era)'
    BY <1>1, <1>2, ViewSound DEF StoreInv, HeadSound
  <2> QED
    BY <1>1, <1>3, <1>4, <2>1, <2>2, SoundStore
<1>7. FinalRowsCanonical' /\ TrustedSound'
  BY <1>3, <1>4, SoundFinalRows DEF TrustedSound
<1>8. RollbackSound' /\ CutSound' /\ HeadersOnChain' /\ WindowHeld'
  BY <1>1 DEF RollbackSound, CutSound, HeadersOnChain, WindowHeld, IngestPhase, CutPhase
<1> QED
  BY <1>6, <1>7, <1>8

LEMMA StutterSettled == SettledInv /\ UNCHANGED vars => SettledInv'
<1> SUFFICES ASSUME SettledInv, UNCHANGED vars PROVE SettledInv'
  OBVIOUS
<1>1. UNCHANGED <<chain, l1, era, blocks, frontier, head, l1Meta, anchors, epochs, pc, latest,
                  announced, reorg, deep, winEnd, active, updates, diverged, repairs>>
  BY DEF vars, chainVars, dbVars, cycleVars, cutVars
<1>2. AllSound' = AllSound
  BY <1>1 DEF AllSound, OnChain, EventsHeld
<1>3. \A m : SoundTo(m)' = SoundTo(m)
  BY <1>1 DEF SoundTo, OnChain, EventsHeld
<1>4. ErasBounded' /\ WithinFrontier'
  BY <1>1 DEF SettledInv, StoreInv, ErasBounded, WithinFrontier
<1>5. RowsSound' /\ HeadSound'
  BY <1>1, <1>2, <1>3 DEF SettledInv, StoreInv, RowsSound, HeadSound, Dead, OnChain
<1>6. FloorSound'
  BY <1>1, <1>3 DEF SettledInv, StoreInv, FloorSound, Floor
<1>7. EpochsKept'
  BY <1>1 DEF SettledInv, StoreInv, EpochsKept, OnChain
<1>8. FinalRowsCanonical' /\ TrustedSound'
  BY <1>1, <1>2 DEF SettledInv, PhaseInv, FinalRowsCanonical, Stored, HashAt, TrustedSound, Trusted,
     IngestPhase
<1>9. RollbackSound' /\ CutSound'
  BY <1>1, <1>2, <1>3 DEF SettledInv, PhaseInv, RollbackSound, CutSound, CutPhase
<1>10. HeadersOnChain'
  BY <1>1 DEF SettledInv, PhaseInv, HeadersOnChain, IngestPhase, OnChain, HashAt
<1>11. WindowHeld'
  BY <1>1 DEF SettledInv, PhaseInv, WindowHeld, InWindow
<1> QED
  BY <1>4, <1>5, <1>6, <1>7, <1>8, <1>9, <1>10, <1>11 DEF SettledInv, StoreInv, PhaseInv

LEMMA InitSettled == Init => SettledInv
<1> SUFFICES ASSUME Init PROVE SettledInv
  OBVIOUS
<1>1. /\ chain = <<>> /\ l1 = 0 /\ frontier = 0 /\ head = NoHead /\ l1Meta = 0
      /\ anchors = {} /\ epochs = <<>> /\ pc = "idle"
      /\ \A n \in Heights : blocks[n].era = NoEra
  BY DEF Init, ChainInit, DbInit, IngestInit, NoRow
<1>2. AllSound
  BY <1>1 DEF AllSound, Heights
<1>3. StoreInv
  BY <1>1, <1>2, AllToSound DEF StoreInv, ErasBounded, WithinFrontier, RowsSound, HeadSound,
     FloorSound, EpochsKept, NoHead
<1>4. PhaseInv
  BY <1>1, <1>2 DEF PhaseInv, FinalRowsCanonical, Stored, TrustedSound, RollbackSound, CutSound,
     HeadersOnChain, WindowHeld, IngestPhase, CutPhase
<1> QED
  BY <1>3, <1>4 DEF SettledInv

LEMMA SettledStep ==
  ASSUME ReorgWhen = "settled", TornRollback = FALSE, LateNotice = FALSE, HighAnswers = FALSE
  PROVE  IndInv /\ SettledInv /\ [Next]_vars => SettledInv'
<1> SUFFICES ASSUME IndInv, SettledInv, [Next]_vars PROVE SettledInv'
  OBVIOUS
<1>1. IndInv'
  BY IndInvStep
<1> QED
  BY <1>1, ChainStepSettled, IngestStepSettled, CutStepSettled, FaultSettled, TornHeadSettled,
     StutterSettled DEF Next

LEMMA SettledInvHolds ==
  ASSUME ReorgWhen = "settled", TornRollback = FALSE, LateNotice = FALSE, HighAnswers = FALSE
  PROVE  Spec => [](IndInv /\ SettledInv)
<1>1. Init => IndInv /\ SettledInv
  BY InitIndInv, InitSettled
<1>2. (IndInv /\ SettledInv) /\ [Next]_vars => (IndInv /\ SettledInv)'
  BY IndInvStep, SettledStep
<1> QED
  BY <1>1, <1>2, PTL DEF Spec

(***************************************************************************)
(* HeadVouches: detect_reorg looks at the stored head alone, and that is   *)
(* enough.  A head that is canonical outside of a cycle has only canonical *)
(* rows and anchors under it and no block with pool events missing, for    *)
(* every chain, lag and number of faults, if the chain reorganises only    *)
(* under a settled mirror, no death parts promotion from rollback, and no  *)
(* abandoned header or too high a final height is believed.                *)
(***************************************************************************)
THEOREM CanonicalHeadVouches ==
  ASSUME ReorgWhen = "settled", TornRollback = FALSE, LateNotice = FALSE, HighAnswers = FALSE
  PROVE  Spec => []HeadVouches
<1>1. IndInv /\ SettledInv => HeadVouches
  <2> SUFFICES ASSUME IndInv, SettledInv, head.era # NoEra, HashAt(head.num) = head.era
               PROVE  /\ \A n \in Stored : n <= frontier /\ blocks[n].era = HashAt(n)
                      /\ \A n \in 1..frontier : n <= head.num /\ chain[n].kind \in Eventful =>
                                                n \in Stored /\ blocks[n].evs
                      /\ \A x \in anchors : x[2] = HashAt(x[1])
    BY Zenon DEF HeadVouches
  <2>1. OnChain(head.num, head.era)
    BY HashOnChain DEF IndInv, TypeOK, DbTypeOK
  <2>2. AllSound
    BY <2>1, CanonicalHead
  <2>3. \A n \in Stored : n <= frontier /\ blocks[n].era = HashAt(n)
    BY <2>2 DEF AllSound, OnChain, HashAt, Stored, SettledInv, StoreInv, WithinFrontier
  <2>4. \A n \in 1..frontier : chain[n].kind \in Eventful => n \in Stored /\ blocks[n].evs
    <3>1. \A n \in 1..frontier : n \in Heights
      BY DEF Heights, IndInv, TypeOK, DbTypeOK
    <3> QED
      BY <2>2, <3>1 DEF AllSound, EventsHeld, Stored
  <2>5. \A x \in anchors : x[2] = HashAt(x[1])
    BY <2>2 DEF AllSound, OnChain, HashAt
  <2> QED
    BY <2>3, <2>4, <2>5
<1> QED
  BY <1>1, SettledInvHolds, PTL

(***************************************************************************)
(* EpochsFinal: what build_epoch publishes are blocks of the final chain,  *)
(* all those with pool events among them, and no later reorganisation      *)
(* reaches an epoch.  Under the same hypotheses.                           *)
(***************************************************************************)
THEOREM EpochsAreFinal ==
  ASSUME ReorgWhen = "settled", TornRollback = FALSE, LateNotice = FALSE, HighAnswers = FALSE
  PROVE  Spec => []EpochsFinal
<1>1. IndInv /\ SettledInv => EpochsFinal
  BY DEF SettledInv, StoreInv, EpochsKept, EpochsFinal, OnChain, HashAt
<1> QED
  BY <1>1, SettledInvHolds, PTL

(***************************************************************************)
(* FinalRowsCanonical: a row that is marked final and at or below the      *)
(* stored L1 height, which the tail publishes with "fin":"l1" and where    *)
(* the walkback of detect_reorg stops without asking, is a canonical block *)
(* at or below the true L1 height.  Under the same hypotheses.             *)
(***************************************************************************)
THEOREM FinalMeansCanonical ==
  ASSUME ReorgWhen = "settled", TornRollback = FALSE, LateNotice = FALSE, HighAnswers = FALSE
  PROVE  Spec => []FinalRowsCanonical
<1>1. IndInv /\ SettledInv => FinalRowsCanonical
  BY DEF SettledInv, PhaseInv
<1> QED
  BY <1>1, SettledInvHolds, PTL
-----------------------------------------------------------------------------
(***************************************************************************)
(* No hole in the feed.  An events-first scan does not see the blocks that *)
(* write to the pool without an event; only the comparison of roots does.  *)
(* What the cut relies on is the meta key anchor_probe_frontier: a passing *)
(* check records the frontier there, and while the two are equal no check  *)
(* is made.  WritesHeld(probe) is what the key stands for.  It is true of  *)
(* the chain the check was made against, so after a reorganisation it is   *)
(* true only up to the final height, until the rollback deletes the key:   *)
(* that, and not the recovery walk, is why a stale key does no harm.       *)
(***************************************************************************)
WritesHeld(m) ==
  \A n \in 1..Len(chain) :
    n <= m /\ chain[n].kind \in Writing => blocks[n].era = chain[n].era

(***************************************************************************)
(* The key is not ahead of the frontier. It stands for the present chain   *)
(* if the head does, and in a cycle that found the head in place; for the  *)
(* final part of it at any time but between the poll that raised the final *)
(* height and the rollback. A cut has everything final up to the frontier. *)
(***************************************************************************)
ProbeBounded == probe <= frontier /\ (head = NoHead => probe = 0)
HeadHeld == OnChain(head.num, head.era) => WritesHeld(probe)
Content == pc \in IngestPhase \/ (pc = "rollback" /\ reorg = {})
CycleHeld == Content => WritesHeld(probe)
FinalHeld ==
  ~(pc = "rollback" /\ reorg # {}) =>
    \A m \in Nat : m <= probe /\ m <= l1Meta => WritesHeld(m)
CutHeld ==
  pc = "cut" => \A m \in Nat : m <= frontier /\ m <= l1Meta => WritesHeld(m)
HoleInv ==
  ProbeBounded /\ HeadHeld /\ CycleHeld /\ FinalHeld /\ CutHeld /\ NoHolePublished

LEMMA HeldMono ==
  ASSUME NEW m \in Int, NEW k \in Int, k <= m, WritesHeld(m)
  PROVE  WritesHeld(k)
BY DEF WritesHeld

LEMMA HeldNone == WritesHeld(0)
BY DEF WritesHeld

(***************************************************************************)
(* Equal roots mean equal writers, if no two blocks write the same slot.   *)
(***************************************************************************)
LEMMA OnlyWriter ==
  ASSUME NumSlots > MaxHeight, NEW writers \in SUBSET Heights, NEW n \in writers,
         NEW t \in Int, n <= t
  PROVE  SlotOf(n) \in Slots /\ LastIn(writers, SlotOf(n), t) = n
<1>1. NumSlots \in Nat /\ MaxHeight \in Nat
  OBVIOUS
<1>2. \A k \in Heights : SlotOf(k) = k /\ k \in Slots
  BY <1>1 DEF Heights, SlotOf, Slots
<1> DEFINE W == {k \in writers : k <= t /\ SlotOf(k) = SlotOf(n)}
<1>3. W = {n}
  BY <1>2
<1>4. n \in Int
  BY DEF Heights
<1>5. (CHOOSE k \in W : \A j \in W : j <= k) = n
  BY <1>3, <1>4
<1> QED
  BY <1>2, <1>3, <1>5 DEF LastIn

LEMMA RootsShowWriters ==
  ASSUME NumSlots > MaxHeight, IndInv, NEW t \in Int, RootMatches(t)
  PROVE  WritesHeld(t)
<1> SUFFICES ASSUME NEW n \in 1..Len(chain), n <= t, chain[n].kind \in Writing
             PROVE  blocks[n].era = chain[n].era
  BY DEF WritesHeld
<1>1. ChainWriters \in SUBSET Heights /\ n \in ChainWriters /\ n \in Int /\ n # 0
  BY DEF ChainWriters, WritesPool, Heights, IndInv, TypeOK, ChainTypeOK
<1>2. SlotOf(n) \in Slots /\ LastIn(ChainWriters, SlotOf(n), t) = n
  BY <1>1, OnlyWriter
<1>3. LastIn(MirrorWriters, SlotOf(n), t) = n
  BY <1>2, Zenon DEF RootMatches
<1>4. n # 0 => blocks[n].era = chain[n].era
  BY <1>2, <1>3, Zenon DEF RootMatches
<1> QED
  BY <1>1, <1>4

(***************************************************************************)
(* Steps of the chain: blocks up to keep stay.                             *)
(***************************************************************************)
LEMMA KeptHeld ==
  ASSUME IndInv, NEW keep \in l1..Len(chain), ChainKeeps(keep), UNCHANGED dbVars,
         NEW m \in Int, m <= keep, WritesHeld(m)
  PROVE  WritesHeld(m)'
<1>1. keep \in Nat /\ Len(chain) \in Nat /\ keep <= Len(chain)
  BY DEF IndInv, TypeOK, ChainTypeOK
<1>2. blocks' = blocks /\ \A n \in 1..keep : chain'[n] = chain[n]
  BY DEF dbVars, ChainKeeps
<1>3. Len(chain') \in Nat
  BY DEF ChainKeeps
<1> QED
  BY <1>1, <1>2, <1>3 DEF WritesHeld

LEMMA SoundReaches ==
  ASSUME IndInv, AllSound
  PROVE  frontier <= Len(chain)
<1>1. frontier \in 0..MaxHeight /\ Len(chain) \in Nat
  BY DEF IndInv, TypeOK, DbTypeOK, ChainTypeOK
<1>2. CASE frontier = 0
  BY <1>1, <1>2
<1>3. CASE frontier # 0
  BY <1>1, <1>3 DEF AllSound, EventsHeld, Heights
<1> QED
  BY <1>2, <1>3

LEMMA ChainStepHole ==
  ASSUME ReorgWhen = "settled", IndInv, SettledInv, HoleInv, ChainStep, IndInv'
  PROVE  HoleInv'
<1> USE DEF HoleInv
<1>1. PICK keep \in l1..Len(chain) : ChainKeeps(keep)
  BY ChainMove DEF SettledInv, StoreInv
<1>2. UNCHANGED dbVars /\ UNCHANGED <<pc, reorg>>
  BY DEF ChainStep, cycleVars
<1>3. UNCHANGED <<blocks, frontier, head, l1Meta, probe, epochs>>
  BY <1>2 DEF dbVars
<1>4. /\ keep \in Nat /\ l1 \in Nat /\ l1 <= keep /\ keep <= Len(chain) /\ Len(chain) \in Nat
      /\ l1Meta \in Nat /\ l1Meta <= l1 /\ probe \in Nat /\ frontier \in Nat /\ probe <= frontier
      /\ head.num \in Nat
  <2>1. /\ keep \in Nat /\ l1 \in Nat /\ l1 <= keep /\ keep <= Len(chain) /\ Len(chain) \in Nat
        /\ l1Meta \in Nat /\ probe \in Nat /\ frontier \in Nat /\ head.num \in Nat
    BY DEF IndInv, TypeOK, ChainTypeOK, DbTypeOK
  <2>2. l1Meta <= l1 /\ probe <= frontier
    BY DEF SettledInv, StoreInv, WithinFrontier, ProbeBounded
  <2> QED
    BY <2>1, <2>2
<1>5. HeadHeld'
  <2> SUFFICES ASSUME OnChain(head.num, head.era)' PROVE WritesHeld(probe)'
    BY DEF HeadHeld
  <2>1. head.num \in 1..Len(chain') /\ chain'[head.num].era = head.era
    BY <1>3 DEF OnChain
  <2>2. head.num \in 1..Len(chain') /\ chain'[head.num] \in Block /\ Len(chain') <= MaxHeight
    BY <2>1 DEF IndInv, TypeOK, ChainTypeOK
  <2>3. head.era # NoEra /\ head.num \in Heights /\ head.era \in Hashes /\ head.era \in Int
    BY <2>1, <2>2 DEF Block, Eras, NoEra, Heights, Hashes
  <2>4. ~Dead(head.num, head.era)'
    BY <1>3, <2>1, <2>2, <2>3 DEF Dead
  <2>5. OnChain(head.num, head.era) /\ AllSound
    BY <1>1, <1>3, <2>3, <2>4 DEF ChainKeeps, SettledInv, StoreInv, HeadSound
  <2>6. head.num <= keep
    BY <1>1, <1>3, <1>4, <2>3, <2>4, <2>5 DEF ChainKeeps
  <2>7. probe <= keep
    <3>1. CASE keep = Len(chain)
      BY <1>4, <2>5, <3>1, SoundReaches
    <3>2. CASE keep # Len(chain)
      BY <1>1, <1>4, <2>6, <3>2 DEF ChainKeeps, Settled
    <3> QED
      BY <3>1, <3>2
  <2>8. WritesHeld(probe)
    BY <2>5 DEF HeadHeld
  <2> QED
    BY <1>1, <1>2, <1>3, <1>4, <2>7, <2>8, KeptHeld
<1>6. CycleHeld'
  <2> SUFFICES ASSUME Content PROVE WritesHeld(probe)'
    BY <1>2, Zenon DEF CycleHeld, Content
  <2>1. AllSound /\ WritesHeld(probe)
    BY DEF Content, CycleHeld, SettledInv, PhaseInv, TrustedSound, Trusted
  <2>2. keep = Len(chain)
    BY <1>1, <1>4 DEF ChainKeeps, Settled, Content, IngestPhase
  <2>3. probe <= keep
    BY <1>4, <2>1, <2>2, SoundReaches
  <2> QED
    BY <1>1, <1>2, <1>3, <1>4, <2>1, <2>3, KeptHeld
<1>7. ASSUME NEW m \in Nat, m <= l1Meta, WritesHeld(m) PROVE WritesHeld(m)'
  BY <1>1, <1>2, <1>4, <1>7, KeptHeld
<1>8. FinalHeld' /\ CutHeld'
  BY <1>2, <1>3, <1>7 DEF FinalHeld, CutHeld
<1>9. NoHolePublished'
  <2> SUFFICES ASSUME NEW i \in 1..Len(epochs), NEW n \in ChainWriters',
                      epochs[i].from <= n, epochs[i].to >= n
               PROVE  epochs[i].lines[n].era = chain'[n].era
    BY <1>3 DEF NoHolePublished
  <2>1. epochs[i].to <= l1 /\ epochs[i].to \in Nat
    <3>1. epochs[i] \in Epoch
      BY DEF IndInv, TypeOK, DbTypeOK
    <3> QED
      BY <3>1 DEF SettledInv, StoreInv, EpochsKept, Epoch
  <2>2. n \in 1..Len(chain') /\ chain'[n].kind \in Writing /\ Len(chain') \in Nat
    BY <1>1 DEF ChainWriters, WritesPool, ChainKeeps
  <2>3. n \in 1..keep
    BY <1>4, <2>1, <2>2
  <2>4. chain'[n] = chain[n] /\ n \in ChainWriters
    BY <1>1, <1>4, <2>2, <2>3 DEF ChainKeeps, ChainWriters, WritesPool
  <2> QED
    BY <2>4 DEF NoHolePublished
<1>10. ProbeBounded'
  BY <1>3 DEF ProbeBounded
<1> QED
  BY <1>5, <1>6, <1>8, <1>9, <1>10

(***************************************************************************)
(* Steps that keep the chain, the head, the key and the log: what was held *)
(* is held, and it remains to say why a cycle that goes on may.            *)
(***************************************************************************)
HeldOver == \A m \in Nat : WritesHeld(m) => WritesHeld(m)'

LEMMA Onward ==
  ASSUME IndInv, IndInv', HoleInv, HeldOver, UNCHANGED <<chain, head, probe, l1Meta, epochs>>,
         frontier <= frontier', pc' # "cut", ~(pc = "rollback" /\ reorg # {}),
         Content' => WritesHeld(probe)
  PROVE  HoleInv'
<1> USE DEF HoleInv
<1>1. probe \in Nat /\ frontier \in Nat /\ frontier' \in Nat
  BY DEF IndInv, TypeOK, DbTypeOK
<1>2. ProbeBounded'
  BY <1>1 DEF ProbeBounded
<1>3. WritesHeld(probe) => WritesHeld(probe)'
  BY <1>1 DEF HeldOver
<1>4. HeadHeld'
  BY <1>3 DEF HeadHeld, OnChain
<1>5. CycleHeld'
  BY <1>3 DEF CycleHeld
<1>6. FinalHeld'
  BY DEF FinalHeld, HeldOver
<1>7. CutHeld'
  BY DEF CutHeld
<1>8. NoHolePublished'
  BY DEF NoHolePublished, ChainWriters, WritesPool
<1> QED
  BY <1>2, <1>4, <1>5, <1>6, <1>7, <1>8

LEMMA SameRowsHeld ==
  ASSUME UNCHANGED chain, IndInv, \A n \in Heights : blocks'[n].era = blocks[n].era
  PROVE  HeldOver
<1>1. \A n \in 1..Len(chain) : n \in Heights
  BY DEF Heights, IndInv, TypeOK, ChainTypeOK
<1> QED
  BY <1>1 DEF HeldOver, WritesHeld

\* A row written for a block of the chain fills a hole or changes nothing.
LEMMA InsertHeld ==
  ASSUME UNCHANGED chain, IndInv, NEW n \in Heights, NEW row, row.era = HashAt(n),
         InsertBlockData(n, row)
  PROVE  HeldOver
<1>1. blocks \in [Heights -> Row] /\ \A k \in 1..Len(chain) : k \in Heights
  BY DEF Heights, IndInv, TypeOK, ChainTypeOK, DbTypeOK
<1>2. blocks'[n] = row /\ \A k \in Heights : k # n => blocks'[k] = blocks[k]
  BY <1>1 DEF InsertBlockData
<1>3. n \in 1..Len(chain) => row.era = chain[n].era
  BY DEF HashAt
<1> QED
  BY <1>1, <1>2, <1>3 DEF HeldOver, WritesHeld

(***************************************************************************)
(* The ingest cycle.                                                       *)
(***************************************************************************)
LEMMA ParentOnChain ==
  ASSUME ChainTypeOK, NEW n \in Nat, n # 0, NEW e, NEW h, OnChain(h.num, h.era),
         h.num = n + 1, h.parent = e, h.parent = HashAt(h.num - 1)
  PROVE  OnChain(n, e)
<1>1. n \in 1..Len(chain) /\ h.num - 1 = n
  BY DEF OnChain, ChainTypeOK
<1> QED
  BY <1>1 DEF OnChain, HashAt

LEMMA ContentHead ==
  ASSUME IndInv, SettledInv, HoleInv, pc = "detect", NEW v \in Visible,
         head = NoHead \/ HeadConfirmedBy(announced) \/ ~HeadGone(v)
  PROVE  WritesHeld(probe)
<1> USE DEF SettledInv, PhaseInv, IndInv, TypeOK, HoleInv
<1>1. CASE head = NoHead
  BY <1>1, HeldNone DEF ProbeBounded
<1>2. CASE head # NoHead
  <2>1. head.num \in Nat /\ head.num # 0
    BY <1>2 DEF DbTypeOK, StoreInv, HeadSound
  <2>2. OnChain(announced.num, announced.era) /\ announced.parent = HashAt(announced.num - 1)
    BY DEF HeadersOnChain
  <2>3. OnChain(head.num, head.era)
    <3>1. CASE head.num = announced.num /\ announced.era = head.era
      BY <2>2, <3>1
    <3>2. CASE announced.num = head.num + 1 /\ announced.parent = head.era
      BY <2>1, <2>2, <3>2, ParentOnChain
    <3>3. CASE ~HeadGone(v)
      BY <2>1, <3>3 DEF HeadGone, Visible, Heights, ChainTypeOK, OnChain, HashAt
    <3> QED
      BY <1>2, <3>1, <3>2, <3>3 DEF HeadConfirmedBy
  <2> QED
    BY <2>3 DEF HeadHeld
<1> QED
  BY <1>1, <1>2

LEMMA DetectHole ==
  ASSUME IndInv, SettledInv, HoleInv, NEW v \in Heights, NEW ans \in L1Answers, Detect(v, ans),
         OutsideCut, IndInv'
  PROVE  HoleInv'
<1> USE DEF HoleInv
<1>1. PICK r \in {{}} \cup {{a} : a \in 0..MaxHeight} :
        /\ DetectReorg(v, r)
        /\ IF r = {} /\ latest.num < frontier
           THEN Abort
           ELSE /\ reorg' = r
                /\ pc' = "rollback"
                /\ IF L1Rejected(ans)
                   THEN UNCHANGED <<l1Meta, blocks>>
                   ELSE /\ l1Meta' = ans.num
                        /\ blocks' = PromoteL1(blocks, ans.num)
                /\ UNCHANGED <<latest, announced, supplied, deep, winEnd, active,
                               updates, frontier, head, classes, anchors, epochs,
                               snapshots, probe, latch, recorded>>
  BY Zenon DEF Detect
<1>2. pc = "detect" /\ v \in Visible /\ UNCHANGED <<chain, l1, era>>
  BY DEF Detect, OutsideCut, chainVars
<1>3. CASE r = {} /\ latest.num < frontier
  <2>1. pc' = "idle" /\ UNCHANGED dbVars
    BY <1>1, <1>3 DEF Abort, Volatile
  <2>2. UNCHANGED <<blocks, head, probe, l1Meta, epochs, frontier>>
    BY <2>1 DEF dbVars
  <2>3. frontier <= frontier'
    BY <2>2 DEF IndInv, TypeOK, DbTypeOK
  <2>4. ~Content'
    BY <2>1 DEF Content, IngestPhase
  <2> QED
    BY <1>2, <2>1, <2>2, <2>3, <2>4, SameRowsHeld, Onward
<1>4. CASE ~(r = {} /\ latest.num < frontier)
  <2>1. reorg' = r /\ pc' = "rollback" /\ UNCHANGED <<frontier, head, epochs, probe>>
    BY <1>1, <1>4
  <2>2. ans.num \in Nat
    BY DEF L1Answers, IndInv, TypeOK, ChainTypeOK
  <2>3. \A n \in Heights : blocks'[n].era = blocks[n].era
    <3>1. CASE L1Rejected(ans)
      BY <1>1, <1>4, <3>1
    <3>2. CASE ~L1Rejected(ans)
      <4>1. blocks' = PromoteL1(blocks, ans.num)
        BY <1>1, <1>4, <3>2
      <4> QED
        BY <2>2, <4>1, PromotedView
    <3> QED
      BY <3>1, <3>2
  <2>4. HeldOver
    BY <1>2, <2>3, SameRowsHeld
  <2>5. probe \in Nat /\ (WritesHeld(probe) => WritesHeld(probe)')
    BY <2>1, <2>4 DEF HeldOver, IndInv, TypeOK, DbTypeOK
  <2>6. r = {} => WritesHeld(probe)
    BY <1>1, <1>2, ContentHead DEF DetectReorg
  <2>7. ProbeBounded'
    BY <2>1 DEF ProbeBounded
  <2>8. HeadHeld'
    BY <1>2, <2>1, <2>5 DEF HeadHeld, OnChain
  <2>9. CycleHeld'
    BY <2>1, <2>5, <2>6 DEF CycleHeld, Content, IngestPhase
  <2>10. r = {} => \A m \in Nat : m <= probe => WritesHeld(m)
    BY <2>5, <2>6, HeldMono
  <2>11. FinalHeld'
    BY <2>1, <2>4, <2>10 DEF FinalHeld, HeldOver
  <2>12. CutHeld' /\ NoHolePublished'
    BY <1>2, <2>1 DEF CutHeld, NoHolePublished, ChainWriters, WritesPool
  <2> QED
    BY <2>7, <2>8, <2>9, <2>11, <2>12
<1> QED
  BY <1>3, <1>4

LEMMA RollbackHole ==
  ASSUME IndInv, SettledInv, HoleInv, Rollback, OutsideCut, IndInv'
  PROVE  HoleInv'
<1> USE DEF HoleInv
<1>1. pc = "rollback" /\ pc' \in {"scan", "finish"} /\ UNCHANGED chain
  BY DEF Rollback, OutsideCut, chainVars
<1>2. CASE reorg = {}
  <2>1. UNCHANGED <<blocks, frontier, head, l1Meta, probe, epochs>>
    BY <1>2 DEF Rollback, dbVars
  <2>2. frontier <= frontier'
    BY <2>1 DEF IndInv, TypeOK, DbTypeOK
  <2>3. WritesHeld(probe)
    BY <1>1, <1>2 DEF CycleHeld, Content
  <2> QED
    BY <1>1, <1>2, <2>1, <2>2, <2>3, SameRowsHeld, Onward
<1>3. CASE reorg # {}
  <2>1. probe' = 0 /\ UNCHANGED <<head, l1Meta, epochs>>
    BY <1>3 DEF Rollback, RollbackAbove
  <2>2. frontier' \in Nat
    BY DEF IndInv, TypeOK, DbTypeOK
  <2>3. \A m \in Nat : m <= 0 => WritesHeld(m)'
    BY <1>1 DEF WritesHeld
  <2>4. ProbeBounded'
    BY <2>1, <2>2 DEF ProbeBounded
  <2>5. HeadHeld' /\ CycleHeld' /\ FinalHeld'
    BY <2>1, <2>3 DEF HeadHeld, CycleHeld, FinalHeld
  <2>6. CutHeld' /\ NoHolePublished'
    BY <1>1, <2>1 DEF CutHeld, NoHolePublished, ChainWriters, WritesPool
  <2> QED
    BY <2>4, <2>5, <2>6
<1> QED
  BY <1>2, <1>3

LEMMA StoreBlockHole ==
  ASSUME IndInv, SettledInv, HoleInv, StoreBlock, OutsideCut, IndInv'
  PROVE  HoleInv'
<1>1. pc = "ingest" /\ UNCHANGED chain /\ Content /\ WritesHeld(probe)
  BY DEF StoreBlock, OutsideCut, chainVars, HoleInv, CycleHeld, Content, IngestPhase
<1>2. PICK n \in Todo :
        LET hash == HeaderHash(n)
            update == IF deep THEN chain[n] ELSE updates[n]
        IN  IF \/ hash = NoEra
               \/ update.era # hash
               \/ active[n] \notin {NoEra, hash}
            THEN Abort
            ELSE /\ \E fin \in Statuses(n) :
                      InsertBlockData(n, [era |-> hash, kind |-> update.kind,
                                          fin |-> fin, evs |-> active[n] # NoEra])
                 /\ pc' = pc
  BY Zenon DEF StoreBlock
<1>3. n \in Heights /\ HeaderHash(n) = HashAt(n)
  <2>1. OnChain(latest.num, latest.era)
    BY <1>1 DEF SettledInv, PhaseInv, HeadersOnChain, IngestPhase
  <2> QED
    BY <2>1 DEF Todo, HeaderHash, OnChain, HashAt
<1>4. CASE Abort
  <2>1. pc' = "idle" /\ UNCHANGED <<blocks, frontier, head, l1Meta, probe, epochs>>
    BY <1>4 DEF Abort, Volatile, dbVars
  <2>2. frontier <= frontier'
    BY <2>1 DEF IndInv, TypeOK, DbTypeOK
  <2> QED
    BY <1>1, <2>1, <2>2, SameRowsHeld, Onward
<1>5. CASE ~Abort
  <2> DEFINE update == IF deep THEN chain[n] ELSE updates[n]
             row(fin) == [era |-> HeaderHash(n), kind |-> update.kind,
                          fin |-> fin, evs |-> active[n] # NoEra]
  <2>1. PICK fin \in Statuses(n) : InsertBlockData(n, row(fin))
    BY <1>2, <1>5
  <2>2. row(fin).era = HeaderHash(n)
    OBVIOUS
  <2> HIDE DEF row
  <2>3. UNCHANGED <<head, l1Meta, probe, epochs>> /\ frontier <= frontier' /\ pc' = "ingest"
    BY <1>1, <1>2, <1>5, <2>1 DEF InsertBlockData, IndInv, TypeOK, DbTypeOK
  <2>4. HeldOver
    BY <1>1, <1>3, <2>1, <2>2, InsertHeld
  <2> QED
    BY <1>1, <2>3, <2>4, Onward
<1> QED
  BY <1>4, <1>5

LEMMA IngestStepHole ==
  ASSUME IndInv, SettledInv, HoleInv, IngestStep, IndInv'
  PROVE  HoleInv'
<1>1. UNCHANGED chain /\ OutsideCut
  BY DEF IngestStep, OutsideCut, chainVars
<1>2. ASSUME UNCHANGED <<blocks, frontier, head, l1Meta, probe, epochs>>, pc' # "cut",
             Content \/ (pc \in {"idle", "detect"} /\ ~Content')
      PROVE  HoleInv'
  <2>1. frontier <= frontier' /\ ~(pc = "rollback" /\ reorg # {})
    BY <1>2 DEF IndInv, TypeOK, DbTypeOK, Content, IngestPhase
  <2>2. Content' => WritesHeld(probe)
    BY <1>2 DEF HoleInv, CycleHeld
  <2> QED
    BY <1>1, <1>2, <2>1, <2>2, SameRowsHeld, Onward
<1>3. ASSUME PollStep PROVE HoleInv'
  BY <1>2, <1>3, PollEffect DEF IndInv, dbVars, Content, IngestPhase
<1>4. ASSUME Scan PROVE HoleInv'
  BY <1>2, <1>4 DEF Scan, dbVars, Content, IngestPhase
<1>5. ASSUME FetchUpdates PROVE HoleInv'
  <2>1. pc = "update" /\ pc' \in {"idle", "ingest"} /\ UNCHANGED dbVars
    BY <1>5 DEF FetchUpdates, Abort, Volatile
  <2> QED
    BY <1>2, <2>1 DEF dbVars, Content, IngestPhase
<1>6. ASSUME Checkpoint PROVE HoleInv'
  <2>1. /\ pc = "ingest" /\ pc' \in {"finish", "scan"} /\ frontier' = winEnd
        /\ UNCHANGED <<blocks, head, l1Meta, probe, epochs>>
    BY <1>6 DEF Checkpoint
  <2>2. frontier <= frontier'
    BY <2>1 DEF SettledInv, PhaseInv, WindowHeld
  <2>3. WritesHeld(probe)
    BY <2>1 DEF HoleInv, CycleHeld, Content, IngestPhase
  <2> QED
    BY <1>1, <2>1, <2>2, <2>3, SameRowsHeld, Onward
<1>7. ASSUME Finish PROVE HoleInv'
  <2> USE DEF HoleInv
  <2>1. /\ pc = "finish" /\ pc' = "verify" /\ blocks' = PromoteL1(blocks, l1Meta)
        /\ head' = [num |-> latest.num, era |-> latest.era]
        /\ UNCHANGED <<frontier, l1Meta, probe, epochs>>
    BY <1>7 DEF Finish, Volatile
  <2>2. \A n \in Heights : blocks'[n].era = blocks[n].era
    BY <2>1, PromotedView DEF IndInv, TypeOK, DbTypeOK
  <2>3. HeldOver /\ probe \in Nat /\ WritesHeld(probe)
    BY <1>1, <2>1, <2>2, SameRowsHeld DEF IndInv, TypeOK, DbTypeOK, CycleHeld, Content, IngestPhase
  <2>4. WritesHeld(probe)'
    BY <2>1, <2>3 DEF HeldOver
  <2>5. head' # NoHead
    <3>1. latest.num # 0
      BY <2>1 DEF SettledInv, PhaseInv, HeadersOnChain, OnChain, IngestPhase
    <3> QED
      BY <2>1, <3>1 DEF NoHead
  <2>6. ProbeBounded' /\ HeadHeld' /\ CycleHeld'
    BY <2>1, <2>4, <2>5 DEF ProbeBounded, HeadHeld, CycleHeld
  <2>7. FinalHeld'
    BY <2>1, <2>3 DEF FinalHeld, HeldOver
  <2>8. CutHeld' /\ NoHolePublished'
    BY <1>1, <2>1 DEF CutHeld, NoHolePublished, ChainWriters, WritesPool
  <2> QED
    BY <2>6, <2>7, <2>8
<1> QED
  BY <1>1, <1>3, <1>4, <1>5, <1>6, <1>7, DetectHole, RollbackHole, StoreBlockHole
     DEF IngestStep, CycleStep

(***************************************************************************)
(* The cut.                                                                *)
(***************************************************************************)
LEMMA QuietCutHole ==
  ASSUME IndInv, IndInv', HoleInv, pc \in CutPhase, UNCHANGED chainVars,
         pc' \in {"idle", "verify", "mismatch", "walk", "repair", "snapshot"},
         UNCHANGED <<blocks, frontier, head, l1Meta, probe, epochs>>
  PROVE  HoleInv'
<1>1. UNCHANGED chain /\ ~Content' /\ ~(pc = "rollback" /\ reorg # {}) /\ frontier <= frontier'
  BY DEF chainVars, Content, IngestPhase, CutPhase, IndInv, TypeOK, DbTypeOK
<1> QED
  BY <1>1, SameRowsHeld, Onward

LEMMA SkippedHole ==
  ASSUME IndInv, HoleInv, UNCHANGED chainVars, VerifySkipped
  PROVE  HoleInv'
<1> USE DEF HoleInv
<1>1. /\ pc = "verify" /\ pc' = "cut" /\ (frontier = 0 \/ probe = frontier)
      /\ UNCHANGED <<chain, blocks, frontier, head, l1Meta, probe, epochs>>
  BY DEF VerifySkipped, dbVars, chainVars
<1>2. frontier \in Nat /\ probe \in Nat
  BY DEF IndInv, TypeOK, DbTypeOK
<1>3. \A m : WritesHeld(m)' <=> WritesHeld(m)
  BY <1>1 DEF WritesHeld
<1>4. \A m \in Nat : m <= frontier /\ m <= l1Meta => WritesHeld(m)
  BY <1>1, <1>2, HeldNone DEF FinalHeld
<1>5. CutHeld' /\ FinalHeld'
  BY <1>1, <1>3, <1>4 DEF CutHeld, FinalHeld
<1>6. ProbeBounded' /\ HeadHeld' /\ CycleHeld'
  BY <1>1, <1>3 DEF ProbeBounded, HeadHeld, OnChain, CycleHeld, Content, IngestPhase
<1>7. NoHolePublished'
  BY <1>1 DEF NoHolePublished, ChainWriters, WritesPool
<1> QED
  BY <1>5, <1>6, <1>7

(***************************************************************************)
(* A passing check: the endpoint is at the tip, so that the blocks between *)
(* its head and the frontier, if any, are abandoned ones.                  *)
(***************************************************************************)
LEMMA AnsweredHole ==
  ASSUME MaxLag = 0, NumSlots > MaxHeight, IndInv, IndInv', SettledInv, HoleInv,
         UNCHANGED chainVars, NEW v \in Heights, VerifyAnswered(v)
  PROVE  HoleInv'
<1> USE DEF HoleInv
<1> DEFINE target == IF frontier < v THEN frontier ELSE v
<1>1. /\ pc = "verify" /\ v = Len(chain)
      /\ UNCHANGED <<chain, blocks, frontier, head, l1Meta, epochs>>
      /\ v \in Nat /\ frontier \in Nat
  BY DEF VerifyAnswered, Visible, chainVars, Heights, IndInv, TypeOK, ChainTypeOK, DbTypeOK
<1>2. CASE RootMatches(target)
  <2>1. pc' = "cut" /\ probe' = frontier
    BY <1>2, Zenon DEF VerifyAnswered
  <2>2. WritesHeld(target)
    BY <1>1, <1>2, RootsShowWriters
  <2>3. \A m \in Nat : m <= frontier => WritesHeld(m)'
    BY <1>1, <2>2 DEF WritesHeld
  <2>4. ProbeBounded'
    <3>1. head # NoHead
      BY <1>1 DEF SettledInv, PhaseInv, CutSound, CutPhase, NoHead
    <3> QED
      BY <1>1, <2>1, <3>1 DEF ProbeBounded
  <2>5. HeadHeld' /\ CycleHeld' /\ FinalHeld' /\ CutHeld'
    BY <1>1, <2>1, <2>3 DEF HeadHeld, CycleHeld, FinalHeld, CutHeld
  <2>6. NoHolePublished'
    BY <1>1 DEF NoHolePublished, ChainWriters, WritesPool
  <2> QED
    BY <2>4, <2>5, <2>6
<1>3. CASE ~RootMatches(target)
  <2>1. pc' = "mismatch" /\ UNCHANGED probe
    BY <1>3, Zenon DEF VerifyAnswered
  <2> QED
    BY <1>1, <2>1, QuietCutHole DEF CutPhase
<1> QED
  BY <1>2, <1>3

LEMMA RepairBlockHole ==
  ASSUME IndInv, IndInv', HoleInv, UNCHANGED chainVars, RepairBlock
  PROVE  HoleInv'
<1>1. PICK n \in repairs :
        IF n > Len(chain)
        THEN Return /\ UNCHANGED dbVars
        ELSE /\ \E fin \in Statuses(n) :
                  InsertBlockData(n, [era |-> chain[n].era, kind |-> chain[n].kind,
                                      fin |-> fin, evs |-> chain[n].kind \in Eventful])
             /\ UNCHANGED pc
  BY Zenon DEF RepairBlock
<1>2. pc = "repair" /\ UNCHANGED chain /\ n \in Heights
  BY DEF RepairBlock, chainVars, IndInv, TypeOK, CutTypeOK
<1>3. CASE n > Len(chain)
  <2>1. pc' = "idle" /\ UNCHANGED <<blocks, frontier, head, l1Meta, probe, epochs>>
    BY <1>1, <1>3 DEF Return, dbVars
  <2> QED
    BY <1>2, <2>1, QuietCutHole DEF CutPhase
<1>4. CASE ~(n > Len(chain))
  <2> DEFINE row(fin) == [era |-> chain[n].era, kind |-> chain[n].kind,
                          fin |-> fin, evs |-> chain[n].kind \in Eventful]
  <2>1. PICK fin \in Statuses(n) : InsertBlockData(n, row(fin))
    BY <1>1, <1>4
  <2>2. row(fin).era = HashAt(n)
    BY <1>2, <1>4 DEF HashAt, Heights, IndInv, TypeOK, ChainTypeOK
  <2> HIDE DEF row
  <2>3. HeldOver
    BY <1>2, <2>1, <2>2, InsertHeld
  <2>4. UNCHANGED <<head, l1Meta, probe, epochs>> /\ frontier <= frontier' /\ pc' = "repair"
    BY <1>1, <1>2, <1>4, <2>1 DEF InsertBlockData, IndInv, TypeOK, DbTypeOK
  <2>5. ~Content'
    BY <2>4 DEF Content, IngestPhase
  <2> QED
    BY <1>2, <2>3, <2>4, <2>5, Onward
<1> QED
  BY <1>3, <1>4

LEMMA CutEpochHole ==
  ASSUME IndInv, IndInv', SettledInv, HoleInv, UNCHANGED chainVars,
         NEW proved \in BOOLEAN, CutEpoch(proved)
  PROVE  HoleInv'
<1> USE DEF HoleInv
<1> DEFINE e == BuildEpoch(NextEpoch)
           from == EpochFrom(NextEpoch)
           to == EpochTo(NextEpoch)
<1>1. /\ pc = "cut" /\ pc' = "cut" /\ Ready /\ epochs' = Append(epochs, e)
      /\ UNCHANGED <<chain, blocks, frontier, head, l1Meta, probe>>
  BY DEF CutEpoch, chainVars
<1>2. \A m : WritesHeld(m)' <=> WritesHeld(m)
  BY <1>1 DEF WritesHeld
<1>3. ProbeBounded' /\ HeadHeld' /\ CycleHeld' /\ FinalHeld' /\ CutHeld'
  BY <1>1, <1>2 DEF ProbeBounded, HeadHeld, OnChain, CycleHeld, Content, IngestPhase, FinalHeld,
     CutHeld
<1>4. WritesHeld(to) /\ to \in Nat
  BY <1>1, NextEpochNat DEF Ready, CutHeld
<1>5. /\ e.from = from /\ e.to = to
      /\ \A n \in Heights : from <= n /\ n <= to => e.lines[n].era = blocks[n].era
  BY DEF BuildEpoch
<1> HIDE DEF e, from, to
<1>6. \A n \in ChainWriters : n \in Heights /\ n \in 1..Len(chain) /\ chain[n].kind \in Writing
  BY DEF ChainWriters, WritesPool, Heights, IndInv, TypeOK, ChainTypeOK
<1>7. \A n \in ChainWriters : e.from <= n /\ n <= e.to => e.lines[n].era = chain[n].era
  BY <1>4, <1>5, <1>6 DEF WritesHeld
<1>8. /\ Len(epochs) \in Nat /\ Len(epochs') = Len(epochs) + 1
      /\ \A i \in 1..Len(epochs) : epochs'[i] = epochs[i]
      /\ epochs'[Len(epochs) + 1] = e
  BY <1>1 DEF IndInv, TypeOK, DbTypeOK
<1>9. ChainWriters' = ChainWriters
  BY <1>1 DEF ChainWriters, WritesPool
<1>10. NoHolePublished'
  <2> SUFFICES ASSUME NEW i \in 1..Len(epochs'), NEW n \in ChainWriters,
                      epochs'[i].from <= n, n <= epochs'[i].to
               PROVE  epochs'[i].lines[n].era = chain[n].era
    BY <1>1, <1>9 DEF NoHolePublished
  <2>1. CASE i \in 1..Len(epochs)
    BY <1>8, <2>1 DEF NoHolePublished
  <2>2. CASE i \notin 1..Len(epochs)
    BY <1>7, <1>8, <2>2
  <2> QED
    BY <2>1, <2>2
<1> QED
  BY <1>3, <1>10

LEMMA CutStepHole ==
  ASSUME MaxLag = 0, NumSlots > MaxHeight, ProofAnswers \cap {"unavailable", "error"} = {},
         IndInv, IndInv', SettledInv, HoleInv, CutStep
  PROVE  HoleInv'
<1>1. UNCHANGED chainVars
  BY DEF CutStep
<1>2. ASSUME pc \in CutPhase, pc' \in {"idle", "verify", "mismatch", "walk", "repair", "snapshot"},
             UNCHANGED <<blocks, frontier, head, l1Meta, probe, epochs>>
      PROVE  HoleInv'
  BY <1>1, <1>2, QuietCutHole
<1>3. ~VerifyUnavailable /\ ~VerifyError
  BY DEF VerifyUnavailable, VerifyError
<1>4. ASSUME \/ VerifyUnbound \/ CutUnbound \/ SnapshotUnbound \/ NoSnapshot
             \/ Walk \/ RetryCut \/ CutDone
      PROVE  HoleInv'
  BY <1>2, <1>4 DEF VerifyUnbound, CutUnbound, NoSnapshot, SnapshotUnbound, Walk, RetryCut, CutDone,
     Return, CutPhase, dbVars
<1>5. ASSUME NEW v \in Heights, SkipRecovery(v) \/ BeginAttempt(v)
      PROVE  HoleInv'
  BY <1>2, <1>5 DEF SkipRecovery, BeginAttempt, Return, CutPhase, dbVars
<1>6. ASSUME SnapshotProved PROVE HoleInv'
  BY <1>2, <1>6 DEF SnapshotProved, Publish, Return, CutPhase
<1>7. ASSUME SnapshotUnproved PROVE HoleInv'
  BY <1>2, <1>7 DEF SnapshotUnproved, Publish, Return, CutPhase, dbVars
<1> QED
  BY <1>1, <1>3, <1>4, <1>5, <1>6, <1>7, SkippedHole, AnsweredHole, RepairBlockHole, CutEpochHole
     DEF CutStep

(***************************************************************************)
(* Failures, and the invariant.                                            *)
(***************************************************************************)
LEMMA FaultHole ==
  ASSUME TornRollback = FALSE, IndInv, IndInv', SettledInv, HoleInv, Fault \/ TornHead
  PROVE  HoleInv'
<1>1. pc' = "idle" /\ UNCHANGED <<chain, blocks, frontier, l1Meta, probe, epochs>>
  BY DEF Fault, TornHead, Volatile, chainVars, dbVars
<1>2. ~Content' /\ frontier <= frontier'
  BY <1>1 DEF Content, IngestPhase, IndInv, TypeOK, DbTypeOK
<1>3. CASE Fault
  <2>1. UNCHANGED head /\ ~(pc = "rollback" /\ reorg # {})
    BY <1>3 DEF Fault, dbVars
  <2> QED
    BY <1>1, <1>2, <2>1, SameRowsHeld, Onward
<1>4. CASE TornHead
  <2>1. CASE UNCHANGED head
    BY <1>1, <1>2, <1>4, <2>1, SameRowsHeld, Onward DEF TornHead
  <2>2. CASE head' # head
    <3> USE DEF HoleInv
    <3>1. pc = "finish" /\ head # NoHead /\ head' = [num |-> latest.num, era |-> NoEra]
      BY <1>4, <2>2 DEF TornHead
    <3>2. latest.num \in 1..Len(chain)
      BY <3>1 DEF SettledInv, PhaseInv, HeadersOnChain, OnChain, IngestPhase
    <3>3. head' # NoHead /\ ~OnChain(head.num, head.era)'
      <4>1. chain[latest.num] \in Block
        BY <3>2 DEF IndInv, TypeOK, ChainTypeOK
      <4> QED
        BY <1>1, <3>1, <3>2, <4>1 DEF NoHead, OnChain, Block, Eras, NoEra
    <3>4. ProbeBounded' /\ HeadHeld' /\ CycleHeld' /\ CutHeld'
      BY <1>1, <1>2, <3>3 DEF ProbeBounded, HeadHeld, CycleHeld, CutHeld
    <3>5. FinalHeld'
      BY <1>1, <3>1 DEF FinalHeld, WritesHeld
    <3>6. NoHolePublished'
      BY <1>1 DEF NoHolePublished, ChainWriters, WritesPool
    <3> QED
      BY <3>4, <3>5, <3>6
  <2> QED
    BY <2>1, <2>2
<1> QED
  BY <1>3, <1>4

LEMMA StutterHole == HoleInv /\ UNCHANGED vars => HoleInv'
<1> SUFFICES ASSUME HoleInv, UNCHANGED vars PROVE HoleInv'
  OBVIOUS
<1>1. UNCHANGED <<chain, blocks, frontier, head, l1Meta, probe, epochs, pc, reorg>>
  BY DEF vars, chainVars, dbVars, cycleVars
<1> QED
  BY <1>1 DEF HoleInv, ProbeBounded, HeadHeld, CycleHeld, FinalHeld, CutHeld, NoHolePublished,
     Content, WritesHeld, OnChain, ChainWriters, WritesPool, IngestPhase

LEMMA HoleStep ==
  ASSUME ReorgWhen = "settled", TornRollback = FALSE, LateNotice = FALSE, HighAnswers = FALSE,
         MaxLag = 0, NumSlots > MaxHeight, ProofAnswers \cap {"unavailable", "error"} = {}
  PROVE  IndInv /\ SettledInv /\ HoleInv /\ [Next]_vars => HoleInv'
<1> SUFFICES ASSUME IndInv, SettledInv, HoleInv, [Next]_vars PROVE HoleInv'
  OBVIOUS
<1>1. IndInv'
  BY IndInvStep
<1> QED
  BY <1>1, ChainStepHole, IngestStepHole, CutStepHole, FaultHole, StutterHole DEF Next

LEMMA InitHole == Init => HoleInv
BY DEF Init, ChainInit, DbInit, IngestInit, HoleInv, ProbeBounded, HeadHeld, CycleHeld, FinalHeld,
   CutHeld, NoHolePublished, Content, WritesHeld, OnChain, IngestPhase

(***************************************************************************)
(* NoHolePublished: every epoch holds each block of its range that wrote   *)
(* to the pool, those without an event included, whatever the scans missed *)
(* (cut_ready_epochs after verify_and_capture and the recovery).  Holds    *)
(* for every chain, feeder, number of faults and wrong label, if moreover  *)
(* no proof request ends without a verdict, the endpoint that serves proofs*)
(* is at the tip, and no write is masked by a later one to its slot.       *)
(***************************************************************************)
THEOREM FeedHasNoHoles ==
  ASSUME ReorgWhen = "settled", TornRollback = FALSE, LateNotice = FALSE, HighAnswers = FALSE,
         MaxLag = 0, NumSlots > MaxHeight, ProofAnswers \cap {"unavailable", "error"} = {}
  PROVE  Spec => []NoHolePublished
<1>1. Init => HoleInv
  BY InitHole
<1>2. (IndInv /\ SettledInv) /\ HoleInv /\ [Next]_vars => HoleInv'
  BY HoleStep
<1>3. HoleInv => NoHolePublished
  BY DEF HoleInv
<1> QED
  BY <1>1, <1>2, <1>3, SettledInvHolds, PTL DEF Spec
=============================================================================
