---------------------------- MODULE FeedProofs -----------------------------
(***************************************************************************)
(* Proofs about the feed, from the publisher's rows to a consumer's.       *)
(*                                                                         *)
(* Publication, for every chain length, epoch size, number of snapshots    *)
(* kept, set of holes and number of deaths: what the manifest names can be *)
(* served, and a re-cut lands.                                             *)
(*                                                                         *)
(* Consumer, for every chain length, epoch size, number of snapshots kept  *)
(* and number of reorganisations, as long as the publisher does not die:   *)
(* what a sync leaves is the publisher's mirror, and a replaced row bumps  *)
(* the generation.                                                         *)
(***************************************************************************)
EXTENDS Consumer, SequenceTheorems, FiniteSetTheorems, WellFoundedInduction, TLAPS

(***************************************************************************)
(* Types.                                                                  *)
(***************************************************************************)
LineMaps  == [Heights -> [era : Nat, whole : BOOLEAN]]
Hashes    == Seq(LineMaps)
Snapshots == [e : Nat, hash : Hashes, slots : LineMaps]
RecutPcs  == {"withdraw", "withdrawRow", "recut", "recutRow", "recutManifest"}
LoopPcs   == {"idle", "head", "headManifest", "cut", "row", "snapshot", "snapshotRow",
              "prune", "pruneRow", "tail", "tailManifest"}
MirrorType ==
  /\ mirror \in [Heights -> Nat] /\ hole \subseteq Heights /\ era \in Nat
  /\ head \in [num : 0..MaxHeight, era : Nat] /\ final \in 0..head.num
FilesType ==
  /\ rows \in Seq(Hashes) /\ files \in [Indices -> Hashes]
  /\ Len(rows) * EpochSize <= final + 1
  /\ snapRows \subseteq Snapshots /\ IsFiniteSet(snapRows)
  /\ \A s \in snapRows : s.e < Len(rows)
  /\ \A s, t \in snapRows : s.e = t.e => s = t
  /\ snapFiles \in [Indices -> Seq(Snapshots)]
  /\ manifest \in [epochs : Seq(Hashes), snapshot : SUBSET Snapshots]
  /\ \A s \in manifest.snapshot : s.e < Len(manifest.epochs)
ProcType ==
  /\ pc \in LoopPcs \cup RecutPcs
  /\ recut \in [first : Nat, next : Int] /\ crashes \in Nat

(***************************************************************************)
(* The hash epoch i - 1 would have if all epochs were cut now.             *)
(***************************************************************************)
Cur(i) == [k \in 1..i |-> EpochLines(k - 1)]

(***************************************************************************)
(* A row differs from what would be cut now only in lines that were        *)
(* incomplete and have been repaired, and a file differs from its row only *)
(* where the row is out of date.                                           *)
(***************************************************************************)
Repaired(line, n) == line.whole = FALSE /\ n \notin hole /\ n <= final
RowInv ==
  \A i \in 1..Len(rows) :
    /\ Len(rows[i]) = i
    /\ \A k \in 1..i : \A n \in Heights :
         rows[i][k][n] = EpochLines(k - 1)[n] \/ Repaired(rows[i][k][n], n)
FileInv == \A i \in 1..Len(rows) : files[i - 1] = rows[i] \/ rows[i] # Cur(i)
CutInv  == pc = "row" => Ready /\ files[NextIdx] = EpochHash(NextIdx, HashOfRow(NextIdx))
RecutInv ==
  /\ pc \in RecutPcs =>
       /\ recut.next \in 0..(Len(rows) - 1) /\ recut.first <= recut.next
       /\ \A i \in 1..recut.next : rows[i] = Cur(i)
  /\ pc = "recutRow" => files[recut.next] = RecutHash
  /\ pc = "recutManifest" => rows[recut.next + 1] = Cur(recut.next + 1)
                             /\ files[recut.next] = rows[recut.next + 1]

(***************************************************************************)
(* As long as no re-cut was begun, or nobody died, the chain of epochs is  *)
(* linked outside of a re-cut and the manifest lists its beginning.        *)
(***************************************************************************)
Orderly == (recut = NoRecut \/ crashes = 0) /\ pc \notin RecutPcs
LinkInv ==
  Orderly => /\ \A i \in 1..Len(rows) :
                  files[i - 1] = rows[i] /\ PrevOf(rows[i]) = HashOfRow(i - 1)
             /\ Len(manifest.epochs) <= Len(rows)
             /\ \A i \in 1..Len(manifest.epochs) : manifest.epochs[i] = rows[i]

(***************************************************************************)
(* Snapshots: the file of a row is there, or newer ones outnumber it.      *)
(***************************************************************************)
Newer(e) == {t \in snapRows : t.e > e}
Outnumbered(s) == Cardinality(Newer(s.e)) >= SnapshotKeep
Held(s) == snapFiles[s.e] = <<s>> /\ s.hash = rows[s.e + 1]
PublishInv ==
  pc = "snapshotRow" =>
    /\ Len(rows) # 0 /\ snapFiles[NextIdx - 1] = <<SnapshotOf(NextIdx - 1)>>
    /\ \A s \in snapRows : s.e # NextIdx - 1
KeptInv ==
  recut = NoRecut =>
    /\ \A s \in snapRows : Held(s) \/ Outnumbered(s)
    /\ \A s \in manifest.snapshot : s \in snapRows \/ Outnumbered(s)

(***************************************************************************)
(* Without a death every row has its file, but for the one being removed.  *)
(***************************************************************************)
Going ==
  IF pc = "pruneRow" THEN Oldest(Excess)
  ELSE IF pc = "withdrawRow" THEN Oldest(Withdrawn) ELSE {}
AliveInv ==
  crashes = 0 =>
    /\ \A s \in snapRows \ Going : Held(s)
    /\ pc \notin RecutPcs \cup {"prune", "pruneRow"} => manifest.snapshot = ManifestOfDb.snapshot
    /\ pc \in {"recut", "recutRow", "recutManifest"} => \A s \in snapRows : s.e < recut.first
PubInv ==
  /\ MirrorType /\ FilesType /\ ProcType
  /\ RowInv /\ FileInv /\ CutInv /\ RecutInv
  /\ LinkInv /\ PublishInv /\ KeptInv /\ AliveInv
-----------------------------------------------------------------------------
(***************************************************************************)
(* Epochs and their indices.                                               *)
(***************************************************************************)
LEMMA Times ==
  ASSUME NEW a \in Nat, NEW b \in Nat, a <= b
  PROVE  a * EpochSize \in Nat /\ b * EpochSize \in Nat /\ a * EpochSize <= b * EpochSize
         /\ (a < b => a * EpochSize + EpochSize <= b * EpochSize)
<1>1. EpochSize \in Nat
  BY PublicationAssumption
<1>2. PICK d \in Nat : b = a + d
  <2>1. b - a \in Nat /\ b = a + (b - a)
    OBVIOUS
  <2> QED
    BY <2>1
<1>3. a * EpochSize \in Nat /\ d * EpochSize \in Nat /\ b * EpochSize = a * EpochSize + d * EpochSize
  BY <1>1, <1>2
<1>4. d # 0 => d * EpochSize >= EpochSize
  BY <1>1
<1> QED
  BY <1>1, <1>2, <1>3, <1>4

LEMMA IndexOf == ASSUME NEW k \in Nat, k * EpochSize <= MaxHeight PROVE k \in Indices
<1>1. EpochSize \in Nat \ {0} /\ MaxHeight \in Nat
  BY PublicationAssumption
<1> DEFINE q == MaxHeight \div EpochSize
<1>2. q \in Nat /\ q * EpochSize <= MaxHeight /\ MaxHeight < q * EpochSize + EpochSize
  BY <1>1
<1> HIDE DEF q
<1>3. CASE k <= q
  BY <1>2, <1>3 DEF Indices, q
<1>4. CASE ~(k <= q)
  <2>1. q < k
    BY <1>2, <1>4
  <2>2. q * EpochSize + EpochSize <= k * EpochSize /\ k * EpochSize \in Nat /\ q * EpochSize \in Nat
    BY <1>2, <2>1, Times
  <2> QED
    BY <1>1, <1>2, <2>2
<1> QED
  BY <1>3, <1>4

LEMMA RowIndex ==
  ASSUME MirrorType, FilesType, NEW i \in 1..Len(rows)
  PROVE  i - 1 \in Indices /\ EpochEnd(i - 1) <= final
<1>1. Len(rows) \in Nat /\ i - 1 \in Nat /\ i - 1 < Len(rows)
  BY LenProperties DEF FilesType
<1>2. EpochSize \in Nat /\ EpochSize > 1 /\ final \in Nat /\ final <= MaxHeight /\ MaxHeight \in Nat
  BY PublicationAssumption DEF MirrorType
<1>3. /\ (i - 1) * EpochSize + EpochSize <= Len(rows) * EpochSize
      /\ (i - 1) * EpochSize \in Nat /\ Len(rows) * EpochSize \in Nat
  BY <1>1, Times
<1>4. Len(rows) * EpochSize <= final + 1
  BY DEF FilesType
<1>5. EpochEnd(i - 1) <= final /\ (i - 1) * EpochSize <= MaxHeight
  BY <1>2, <1>3, <1>4 DEF EpochEnd
<1> QED
  BY <1>1, <1>5, IndexOf

LEMMA ReadyIndex == ASSUME MirrorType, FilesType, Ready PROVE NextIdx \in Indices /\ NextIdx \in Nat
<1>1. Len(rows) \in Nat
  BY LenProperties DEF FilesType
<1>2. EpochSize \in Nat /\ EpochSize > 1 /\ final \in Nat /\ final <= MaxHeight /\ MaxHeight \in Nat
  BY PublicationAssumption DEF MirrorType
<1>3. Len(rows) * EpochSize \in Nat
  BY <1>1, Times
<1>4. Len(rows) * EpochSize <= MaxHeight
  BY <1>2, <1>3 DEF Ready, EpochEnd, NextIdx
<1> QED
  BY <1>1, <1>4, IndexOf DEF NextIdx

(***************************************************************************)
(* Lines.                                                                  *)
(***************************************************************************)
LEMMA LinesType == ASSUME MirrorType, NEW a, NEW b PROVE Lines(a, b) \in LineMaps
<1>1. ASSUME NEW n \in Heights PROVE Line(n) \in [era : Nat, whole : BOOLEAN]
  <2> DEFINE w == n \notin hole
  <2>1. w \in BOOLEAN
    OBVIOUS
  <2>2. Line(n) = [era |-> mirror[n], whole |-> w]
    BY DEF Line
  <2>3. mirror[n] \in Nat
    BY DEF MirrorType
  <2> HIDE DEF w
  <2> QED
    BY <2>1, <2>2, <2>3
<1>2. NoLine \in [era : Nat, whole : BOOLEAN]
  BY DEF NoLine
<1> HIDE DEF Line, NoLine
<1> QED
  BY <1>1, <1>2 DEF Lines, LineMaps

LEMMA EpochLinesType == ASSUME MirrorType, NEW idx PROVE EpochLines(idx) \in LineMaps
BY LinesType DEF EpochLines

LEMMA LineIs ==
  ASSUME NEW idx, NEW n \in Heights
  PROVE  EpochLines(idx)[n] = IF idx * EpochSize <= n /\ n <= EpochEnd(idx) /\ mirror[n] # 0
                              THEN Line(n) ELSE NoLine
BY DEF EpochLines, Lines

(***************************************************************************)
(* The hashes of the epochs as they would be cut now.                      *)
(***************************************************************************)
LEMMA CurIs ==
  ASSUME MirrorType, NEW i \in Nat
  PROVE  /\ Cur(i) \in Hashes /\ Len(Cur(i)) = i
         /\ \A k \in 1..i : Cur(i)[k] = EpochLines(k - 1)
<1>1. \A k \in 1..i : EpochLines(k - 1) \in LineMaps
  BY EpochLinesType
<1> DEFINE f(k) == EpochLines(k - 1)
<1>2. \A k \in 1..i : f(k) \in LineMaps
  BY <1>1
<1>3. Cur(i) = [k \in 1..i |-> f(k)]
  BY DEF Cur
<1> HIDE DEF f
<1>4. Cur(i) \in Seq(LineMaps) /\ DOMAIN Cur(i) = 1..i
  BY <1>2, <1>3, IsASeq
<1>5. Len(Cur(i)) = i
  BY <1>4, LenProperties
<1> QED
  BY <1>3, <1>4, <1>5 DEF Hashes, f

LEMMA HashAppends ==
  ASSUME NEW h \in Hashes, NEW l \in LineMaps
  PROVE  /\ Append(h, l) \in Hashes /\ Len(Append(h, l)) = Len(h) + 1
         /\ \A k \in 1..Len(h) : Append(h, l)[k] = h[k]
         /\ Append(h, l)[Len(h) + 1] = l
         /\ PrevOf(Append(h, l)) = h
<1>1. /\ Append(h, l) \in Hashes /\ Len(Append(h, l)) = Len(h) + 1
      /\ \A k \in 1..Len(h) : Append(h, l)[k] = h[k]
      /\ Append(h, l)[Len(h) + 1] = l
  BY AppendProperties DEF Hashes
<1> DEFINE g == Append(h, l)
<1>2. Len(h) \in Nat /\ Len(g) = Len(h) + 1 /\ g \in Seq(LineMaps) /\ Len(g) - 1 = Len(h)
  BY <1>1, LenProperties DEF Hashes
<1>3. \A k \in 1..Len(h) : g[k] \in LineMaps
  BY <1>2, ElementOfSeq
<1> HIDE DEF g
<1> DEFINE p == SubSeq(g, 1, Len(h))
<1>4. /\ p \in Seq(LineMaps) /\ Len(p) = IF 1 <= Len(h) THEN Len(h) - 1 + 1 ELSE 0
      /\ \A k \in 1..(Len(h) - 1 + 1) : p[k] = g[1 + k - 1]
  BY <1>2, <1>3, SubSeqProperties
<1> HIDE DEF p
<1>5. Len(p) = Len(h) /\ \A k \in 1..Len(h) : p[k] = g[k]
  BY <1>2, <1>4
<1>6. \A k \in 1..Len(h) : p[k] = h[k]
  BY <1>1, <1>5 DEF g
<1>7. p = h
  BY <1>4, <1>5, <1>6, SeqEqual DEF Hashes
<1>8. PrevOf(g) = p
  BY <1>2 DEF PrevOf, p
<1> QED
  BY <1>1, <1>7, <1>8 DEF g

LEMMA CurGrows ==
  ASSUME MirrorType, NEW i \in Nat
  PROVE  Append(Cur(i), EpochLines(i)) = Cur(i + 1) /\ PrevOf(Cur(i + 1)) = Cur(i)
<1>1. Cur(i) \in Hashes /\ Len(Cur(i)) = i /\ \A k \in 1..i : Cur(i)[k] = EpochLines(k - 1)
  BY CurIs
<1>2. /\ i + 1 \in Nat /\ Cur(i + 1) \in Hashes /\ Len(Cur(i + 1)) = i + 1
      /\ \A k \in 1..(i + 1) : Cur(i + 1)[k] = EpochLines(k - 1)
  BY CurIs
<1> DEFINE g == Append(Cur(i), EpochLines(i))
<1>3. /\ g \in Hashes /\ Len(g) = i + 1 /\ (\A k \in 1..i : g[k] = Cur(i)[k])
      /\ g[i + 1] = EpochLines(i) /\ PrevOf(g) = Cur(i)
  BY <1>1, EpochLinesType, HashAppends
<1> HIDE DEF g
<1>4. ASSUME NEW k \in 1..(i + 1) PROVE g[k] = Cur(i + 1)[k]
  <2>1. CASE k \in 1..i
    BY <1>1, <1>2, <1>3, <2>1
  <2>2. CASE ~(k \in 1..i)
    <3>1. k = i + 1 /\ k - 1 = i
      BY <2>2
    <3> QED
      BY <1>2, <1>3, <3>1
  <2> QED
    BY <2>1, <2>2
<1>5. g = Cur(i + 1)
  BY <1>2, <1>3, <1>4, SeqEqual DEF Hashes
<1> QED
  BY <1>3, <1>5 DEF g

LEMMA CurStarts == Cur(0) = <<>>
BY DEF Cur

LEMMA RowType ==
  ASSUME FilesType, NEW i \in 1..Len(rows)
  PROVE  rows[i] \in Hashes
BY ElementOfSeq DEF FilesType

LEMMA HashOfRowType ==
  ASSUME FilesType, NEW i \in 0..Len(rows)
  PROVE  HashOfRow(i) \in Hashes /\ (i # 0 => HashOfRow(i) = rows[i])
<1>1. <<>> \in Hashes
  BY EmptySeq DEF Hashes
<1>2. Len(rows) \in Nat
  BY LenProperties DEF FilesType
<1>3. i # 0 => i \in 1..Len(rows)
  BY <1>2
<1> QED
  BY <1>1, <1>3, RowType DEF HashOfRow
-----------------------------------------------------------------------------
(***************************************************************************)
(* Steps that leave the mirror and the epochs alone.                       *)
(***************************************************************************)
LEMMA SameLines ==
  ASSUME UNCHANGED <<mirror, hole>>
  PROVE  /\ \A idx : EpochLines(idx)' = EpochLines(idx)
         /\ \A i : Cur(i)' = Cur(i)
<1>1. \A idx : EpochLines(idx)' = EpochLines(idx)
  BY DEF EpochLines, Lines, Line
<1>2. ASSUME NEW i PROVE Cur(i)' = Cur(i)
  BY <1>1 DEF Cur
<1> QED
  BY <1>1, <1>2

LEMMA SameEpochs ==
  ASSUME PubInv, UNCHANGED <<mirror, hole, era, head, final, rows>>,
         \A i \in 1..Len(rows) : files'[i - 1] = files[i - 1]
  PROVE  MirrorType' /\ RowInv' /\ FileInv'
<1>1. \A idx : EpochLines(idx)' = EpochLines(idx)
  BY SameLines
<1>2. \A i : Cur(i)' = Cur(i)
  BY SameLines
<1>3. MirrorType'
  BY DEF PubInv, MirrorType
<1>4. RowInv'
  BY <1>1 DEF PubInv, RowInv, Repaired
<1>5. FileInv'
  BY <1>2 DEF PubInv, FileInv
<1> QED
  BY <1>3, <1>4, <1>5

(***************************************************************************)
(* A step that leaves all files alone and ends outside of the critical     *)
(* sections: a skip, a halt, a death, an ingest, a repair.                 *)
(***************************************************************************)
Calm == LoopPcs \ {"row", "snapshotRow", "prune", "pruneRow"}
LEMMA RestKeeps ==
  ASSUME PubInv, UNCHANGED <<rows, snapRows, files, snapFiles, manifest, recut>>, pc' \in Calm,
         crashes' \in Nat,
         \/ crashes' = crashes /\ pc \notin RecutPcs \cup {"prune", "pruneRow"}
         \/ crashes' # 0 /\ crashes' = crashes + 1
  PROVE  CutInv' /\ RecutInv' /\ LinkInv' /\ PublishInv' /\ KeptInv' /\ AliveInv'
<1>1. UNCHANGED <<rows, snapRows>> /\ UNCHANGED <<files, snapFiles, manifest, recut>>
  OBVIOUS
<1>4. pc' \notin RecutPcs \cup {"row", "snapshotRow", "prune", "pruneRow"}
  BY DEF Calm, LoopPcs, RecutPcs
<1>5. CutInv' /\ RecutInv' /\ PublishInv'
  BY <1>4 DEF CutInv, RecutInv, PublishInv, RecutPcs
<1>6. LinkInv'
  <2> SUFFICES ASSUME Orderly' PROVE Orderly
    BY <1>1 DEF PubInv, LinkInv, HashOfRow
  <2>1. CASE pc \in RecutPcs
    <3>1. recut.next \in 0..(Len(rows) - 1)
      BY <2>1 DEF PubInv, RecutInv
    <3>2. recut # NoRecut
      BY <3>1 DEF NoRecut
    <3>3. crashes' # 0
      BY <2>1
    <3> QED
      BY <1>1, <3>2, <3>3 DEF Orderly
  <2>2. CASE pc \notin RecutPcs
    <3>1. recut = NoRecut \/ crashes = 0
      BY <1>1 DEF Orderly, PubInv, ProcType
    <3> QED
      BY <2>2, <3>1 DEF Orderly
  <2> QED
    BY <2>1, <2>2
<1>7. KeptInv'
  BY <1>1 DEF PubInv, KeptInv, Held, Outnumbered, Newer
<1>8. AliveInv'
  <2> SUFFICES ASSUME crashes' = 0 PROVE AliveInv'
    BY DEF AliveInv
  <2>1. crashes = 0 /\ pc \notin RecutPcs \cup {"prune", "pruneRow"}
    OBVIOUS
  <2>2. Going = {} /\ Going' = {}
    BY <1>4, <2>1 DEF Going, RecutPcs
  <2>3. /\ \A s \in snapRows \ Going : Held(s)
        /\ manifest.snapshot = ManifestOfDb.snapshot
    BY <2>1 DEF PubInv, AliveInv
  <2>4. ManifestOfDb' = ManifestOfDb
    BY <1>1 DEF ManifestOfDb
  <2>5. \A s \in snapRows' \ Going' : Held(s)'
    BY <1>1, <2>2, <2>3 DEF Held
  <2> QED
    BY <1>1, <1>4, <2>3, <2>4, <2>5 DEF AliveInv, RecutPcs
<1> QED
  BY <1>5, <1>6, <1>7, <1>8

LEMMA PauseKeeps ==
  ASSUME PubInv, UNCHANGED <<dbVars, files, snapFiles, manifest, recut>>, pc' \in Calm,
         crashes' \in Nat,
         \/ crashes' = crashes /\ pc \notin RecutPcs \cup {"prune", "pruneRow"}
         \/ crashes' # 0 /\ crashes' = crashes + 1
  PROVE  PubInv'
<1>1. /\ UNCHANGED <<mirror, hole, era, head, final, rows, snapRows>>
      /\ UNCHANGED <<files, snapFiles, manifest, recut>>
  BY DEF dbVars
<1>2. MirrorType' /\ RowInv' /\ FileInv'
  BY <1>1, SameEpochs
<1>3. FilesType' /\ ProcType'
  BY <1>1 DEF PubInv, FilesType, ProcType, Calm, LoopPcs
<1>4. CutInv' /\ RecutInv' /\ LinkInv' /\ PublishInv' /\ KeptInv' /\ AliveInv'
  BY <1>1, RestKeeps
<1> QED
  BY <1>2, <1>3, <1>4 DEF PubInv

(***************************************************************************)
(* rewrite_manifest, outside of a re-cut.                                  *)
(***************************************************************************)
LEMMA DbManifest ==
  ASSUME PubInv
  PROVE  /\ ManifestOfDb.epochs = rows /\ ManifestOfDb.snapshot \subseteq snapRows
         /\ ManifestOfDb \in [epochs : Seq(Hashes), snapshot : SUBSET Snapshots]
         /\ \A s \in ManifestOfDb.snapshot : s.e < Len(ManifestOfDb.epochs)
<1> DEFINE S == {s \in snapRows : \A t \in snapRows : t.e <= s.e}
<1>1. S \subseteq snapRows /\ S \subseteq Snapshots
  BY DEF PubInv, FilesType
<1>2. ManifestOfDb = [epochs |-> rows, snapshot |-> S]
  BY DEF ManifestOfDb
<1>3. rows \in Seq(Hashes) /\ \A s \in snapRows : s.e < Len(rows)
  BY DEF PubInv, FilesType
<1> HIDE DEF S
<1> QED
  BY <1>1, <1>2, <1>3

LEMMA ManifestKeeps ==
  ASSUME PubInv, manifest' = ManifestOfDb, UNCHANGED <<dbVars, files, snapFiles, recut, crashes>>,
         pc \notin RecutPcs \cup {"pruneRow"}, pc' \in Calm
  PROVE  PubInv'
<1>1. /\ UNCHANGED <<mirror, hole, era, head, final, rows, snapRows>>
      /\ UNCHANGED <<files, snapFiles, recut, crashes>>
  BY DEF dbVars
<1>2. MirrorType' /\ RowInv' /\ FileInv'
  BY <1>1, SameEpochs
<1>3. FilesType' /\ ProcType'
  BY <1>1, DbManifest DEF PubInv, FilesType, ProcType, Calm, LoopPcs
<1>4. pc' \notin RecutPcs \cup {"row", "snapshotRow", "prune", "pruneRow"}
  BY DEF Calm, LoopPcs, RecutPcs
<1>5. CutInv' /\ RecutInv' /\ PublishInv'
  BY <1>4 DEF CutInv, RecutInv, PublishInv, RecutPcs
<1>6. LinkInv'
  <2>1. Orderly' => Orderly
    BY <1>1, <1>4 DEF Orderly
  <2>2. Len(rows) \in Nat /\ manifest'.epochs = rows
    BY LenProperties, DbManifest DEF PubInv, FilesType
  <2> QED
    BY <1>1, <2>1, <2>2 DEF PubInv, LinkInv, HashOfRow
<1>7. KeptInv'
  <2>1. manifest'.snapshot \subseteq snapRows
    BY DbManifest
  <2> QED
    BY <1>1, <2>1 DEF PubInv, KeptInv, Held, Outnumbered, Newer
<1>8. AliveInv'
  <2>1. Going = {} /\ Going' = {}
    BY <1>4 DEF Going, RecutPcs
  <2>2. ManifestOfDb' = ManifestOfDb
    BY <1>1 DEF ManifestOfDb
  <2>3. crashes' = 0 => \A s \in snapRows' \ Going' : Held(s)'
    BY <1>1, <2>1 DEF PubInv, AliveInv, Held
  <2> QED
    BY <1>4, <2>2, <2>3 DEF AliveInv, RecutPcs
<1> QED
  BY <1>2, <1>3, <1>5, <1>6, <1>7, <1>8 DEF PubInv
-----------------------------------------------------------------------------
LEMMA InitPub == ASSUME Init PROVE PubInv
<1>1. MaxHeight \in Nat /\ rows = <<>> /\ Len(rows) = 0 /\ EpochSize \in Nat
  BY PublicationAssumption DEF Init
<1>2. MirrorType
  BY <1>1 DEF Init, MirrorType
<1>3. FilesType
  <2>1. <<>> \in Hashes /\ <<>> \in Seq(Hashes) /\ <<>> \in Seq(Snapshots)
    BY EmptySeq DEF Hashes
  <2>2. IsFiniteSet(snapRows) /\ snapRows = {}
    BY FS_EmptySet DEF Init
  <2>3. Len(rows) * EpochSize <= final + 1
    BY <1>1 DEF Init
  <2> QED
    BY <1>1, <2>1, <2>2, <2>3 DEF Init, FilesType, NoFile
<1>4. pc = "idle" /\ recut = NoRecut /\ manifest.epochs = <<>> /\ manifest.snapshot = {} /\ snapRows = {}
  BY DEF Init
<1>5. ProcType
  BY <1>4 DEF Init, ProcType, LoopPcs, NoRecut
<1>6. RowInv /\ FileInv
  BY <1>1 DEF RowInv, FileInv
<1>7. CutInv /\ RecutInv /\ PublishInv
  BY <1>4 DEF CutInv, RecutInv, PublishInv, RecutPcs
<1>8. LinkInv /\ KeptInv
  BY <1>1, <1>4 DEF LinkInv, KeptInv
<1>9. AliveInv
  BY <1>4 DEF AliveInv, ManifestOfDb
<1> QED
  BY <1>2, <1>3, <1>5, <1>6, <1>7, <1>8, <1>9 DEF PubInv

(***************************************************************************)
(* run_cycle: nothing at or below the final height changes, and every      *)
(* epoch that was cut is below it.                                         *)
(***************************************************************************)
LEMMA LineNext ==
  ASSUME NEW idx, NEW n \in Heights
  PROVE  EpochLines(idx)'[n] = IF idx * EpochSize <= n /\ n <= EpochEnd(idx) /\ mirror'[n] # 0
                               THEN [era |-> mirror'[n], whole |-> n \notin hole'] ELSE NoLine
BY DEF EpochLines, Lines, Line

LEMMA LineMap == \A idx : EpochLines(idx) = [n \in Heights |-> EpochLines(idx)[n]]
BY DEF EpochLines, Lines

LEMMA LineMapNext == \A idx : EpochLines(idx)' = [n \in Heights |-> EpochLines(idx)'[n]]
BY DEF EpochLines, Lines

LEMMA IngestKeeps ==
  ASSUME PubInv, NEW a \in 0..MaxHeight, NEW h \in 0..MaxHeight, NEW f \in 0..MaxHeight,
         IngestCycle(a, h, f)
  PROVE  PubInv'
<1>1. MirrorType /\ FilesType /\ ProcType /\ RowInv /\ FileInv
  BY DEF PubInv
<1>2. /\ UNCHANGED <<rows, snapRows, files, snapFiles, manifest, recut>> /\ crashes' = crashes
      /\ pc = "idle" /\ pc' \in Calm
  BY DEF IngestCycle, Goto, feedVars, Calm, LoopPcs
<1>3. MaxHeight \in Nat /\ Holes \subseteq Heights
  BY PublicationAssumption DEF Heights
<1>4. final \in Nat /\ final <= a /\ final <= f /\ f <= h /\ final' = f
  BY <1>1, <1>3 DEF IngestCycle, FinalAdvances, MirrorType
<1>5. MirrorType'
  <2>1. era' \in Nat
    BY <1>1 DEF MirrorType, IngestCycle
  <2>2. mirror' \in [Heights -> Nat]
    BY <1>1, <2>1 DEF MirrorType, IngestCycle
  <2>3. hole' \subseteq Heights
    BY <1>1, <1>3 DEF MirrorType, IngestCycle
  <2>4. h # 0 => h \in Heights
    BY <1>3 DEF Heights
  <2>5. head' = [num |-> h, era |-> IF h = 0 THEN 0 ELSE mirror'[h]]
    BY DEF IngestCycle
  <2>6. (IF h = 0 THEN 0 ELSE mirror'[h]) \in Nat
    BY <2>2, <2>4
  <2>7. head' \in [num : 0..MaxHeight, era : Nat] /\ head'.num = h
    BY <2>5, <2>6
  <2> QED
    BY <1>3, <1>4, <2>1, <2>2, <2>3, <2>7 DEF MirrorType
<1>6. ASSUME NEW n \in Heights, n <= final
      PROVE  mirror'[n] = mirror[n] /\ (n \in hole' <=> n \in hole)
  <2>1. n <= a /\ n \in Nat
    BY <1>3, <1>4, <1>6 DEF Heights
  <2> QED
    BY <1>3, <2>1 DEF IngestCycle
<1>7. ASSUME NEW k \in 1..Len(rows) PROVE EpochLines(k - 1)' = EpochLines(k - 1)
  <2>1. EpochEnd(k - 1) <= final /\ EpochEnd(k - 1) \in Int
    <3>1. Len(rows) \in Nat /\ EpochSize \in Nat
      BY <1>1, LenProperties, PublicationAssumption DEF FilesType
    <3>2. k - 1 \in Nat /\ (k - 1) * EpochSize \in Nat
      BY <3>1, Times
    <3> QED
      BY <1>1, <3>1, <3>2, RowIndex DEF EpochEnd
  <2>2. ASSUME NEW n \in Heights PROVE EpochLines(k - 1)'[n] = EpochLines(k - 1)[n]
    <3>1. CASE n <= EpochEnd(k - 1)
      <4>1. n <= final
        BY <1>3, <1>4, <2>1, <3>1 DEF Heights
      <4>2. mirror'[n] = mirror[n] /\ (n \in hole' <=> n \in hole)
        BY <1>6, <4>1
      <4>3. [era |-> mirror'[n], whole |-> n \notin hole'] = Line(n)
        BY <4>2 DEF Line
      <4> QED
        BY <4>2, <4>3, LineNext, LineIs
    <3>2. CASE ~(n <= EpochEnd(k - 1))
      BY <3>2, LineNext, LineIs
    <3> QED
      BY <3>1, <3>2
  <2>3. [n \in Heights |-> EpochLines(k - 1)'[n]] = [n \in Heights |-> EpochLines(k - 1)[n]]
    BY <2>2
  <2> QED
    BY <2>3, LineMap, LineMapNext
<1>8. Len(rows) \in Nat
  BY <1>1, LenProperties DEF FilesType
<1>9. RowInv'
  <2> SUFFICES ASSUME NEW i \in 1..Len(rows)
               PROVE  /\ Len(rows[i]) = i
                      /\ \A k \in 1..i : \A n \in Heights :
                           rows[i][k][n] = EpochLines(k - 1)'[n] \/ Repaired(rows[i][k][n], n)'
    BY <1>2 DEF RowInv
  <2>1. Len(rows[i]) = i
    BY <1>1 DEF RowInv
  <2>2. ASSUME NEW k \in 1..i, NEW n \in Heights
        PROVE  rows[i][k][n] = EpochLines(k - 1)'[n] \/ Repaired(rows[i][k][n], n)'
    <3>1. k \in 1..Len(rows)
      BY <1>8
    <3>2. rows[i][k][n] = EpochLines(k - 1)[n] \/ Repaired(rows[i][k][n], n)
      BY <1>1 DEF RowInv
    <3>3. Repaired(rows[i][k][n], n) => Repaired(rows[i][k][n], n)'
      BY <1>2, <1>3, <1>4, <1>6 DEF Repaired, Heights
    <3> QED
      BY <1>7, <3>1, <3>2, <3>3
  <2> QED
    BY <2>1, <2>2
<1>10. FileInv'
  <2>1. ASSUME NEW i \in 1..Len(rows) PROVE Cur(i)' = Cur(i)
    <3>1. ASSUME NEW k \in 1..i PROVE EpochLines(k - 1)' = EpochLines(k - 1)
      <4>1. k \in 1..Len(rows)
        BY <1>8
      <4> QED
        BY <1>7, <4>1
    <3> QED
      BY <3>1 DEF Cur
  <2> QED
    BY <1>1, <1>2, <2>1 DEF FileInv
<1>11. FilesType' /\ ProcType'
  <2>1. Len(rows) * EpochSize \in Nat
    BY <1>8, Times
  <2>2. Len(rows) * EpochSize <= final' + 1
    BY <1>1, <1>4, <2>1 DEF FilesType
  <2> QED
    BY <1>1, <1>2, <2>2 DEF FilesType, ProcType, Calm
<1>12. CutInv' /\ RecutInv' /\ LinkInv' /\ PublishInv' /\ KeptInv' /\ AliveInv'
  <2>1. crashes' \in Nat /\ pc \notin RecutPcs \cup {"prune", "pruneRow"}
    BY <1>1, <1>2 DEF ProcType, RecutPcs
  <2> QED
    BY <1>2, <2>1, RestKeeps
<1> QED
  BY <1>5, <1>9, <1>10, <1>11, <1>12 DEF PubInv

(***************************************************************************)
(* A repair makes a line whole: a row that says what would be cut may fall *)
(* out of date, one that was out of date stays so.                         *)
(***************************************************************************)
LEMMA Differs ==
  ASSUME PubInv, NEW i \in 1..Len(rows), rows[i] # Cur(i)
  PROVE  \E k \in 1..i, n \in Heights : Repaired(rows[i][k][n], n)
<1>1. MirrorType /\ FilesType /\ RowInv
  BY DEF PubInv
<1>2. i \in Nat /\ rows[i] \in Hashes /\ Len(rows[i]) = i
  BY <1>1, RowType, LenProperties DEF FilesType, RowInv
<1>3. Cur(i) \in Hashes /\ Len(Cur(i)) = i /\ \A k \in 1..i : Cur(i)[k] = EpochLines(k - 1)
  BY <1>1, <1>2, CurIs
<1>4. PICK k \in 1..i : rows[i][k] # EpochLines(k - 1)
  BY <1>2, <1>3, SeqEqual DEF Hashes
<1>5. rows[i][k] \in LineMaps
  BY <1>2, ElementOfSeq DEF Hashes
<1>6. PICK n \in Heights : rows[i][k][n] # EpochLines(k - 1)[n]
  <2>1. EpochLines(k - 1) \in LineMaps
    BY <1>1, EpochLinesType
  <2> QED
    BY <1>4, <1>5, <2>1 DEF LineMaps
<1>7. Repaired(rows[i][k][n], n)
  BY <1>1, <1>6 DEF RowInv
<1> QED
  BY <1>7

LEMMA RepairKeeps == ASSUME PubInv, NEW n \in Heights, Repair(n) PROVE PubInv'
<1>1. MirrorType /\ FilesType /\ ProcType /\ RowInv /\ FileInv
  BY DEF PubInv
<1>2. /\ UNCHANGED <<mirror, era, head, final>>
      /\ UNCHANGED <<rows, snapRows, files, snapFiles, manifest, recut>> /\ crashes' = crashes
      /\ pc = "idle" /\ pc' = "idle" /\ n \in hole /\ hole' = hole \ {n}
  BY DEF Repair, feedVars, procVars
<1>3. MirrorType' /\ FilesType' /\ ProcType'
  BY <1>1, <1>2 DEF MirrorType, FilesType, ProcType
<1>4. Len(rows) \in Nat
  BY <1>1, LenProperties DEF FilesType
<1>5. ASSUME NEW i \in 1..Len(rows), NEW k \in 1..i, NEW m \in Heights
      PROVE  rows[i][k][m] = EpochLines(k - 1)'[m] \/ Repaired(rows[i][k][m], m)'
  <2>1. rows[i][k][m] = EpochLines(k - 1)[m] \/ Repaired(rows[i][k][m], m)
    BY <1>1 DEF RowInv
  <2>2. Repaired(rows[i][k][m], m) => Repaired(rows[i][k][m], m)'
    BY <1>2 DEF Repaired
  <2>3. CASE m # n
    <3>1. [era |-> mirror'[m], whole |-> m \notin hole'] = Line(m)
      BY <1>2, <2>3 DEF Line
    <3>2. EpochLines(k - 1)'[m] = EpochLines(k - 1)[m]
      BY <1>2, <3>1, LineNext, LineIs
    <3> QED
      BY <2>1, <2>2, <3>2
  <2>4. CASE m = n
    <3>1. rows[i][k][m] = EpochLines(k - 1)[m]
      BY <1>2, <2>1, <2>4 DEF Repaired
    <3>2. CASE EpochLines(k - 1)[m] = Line(m) /\ Line(m) # NoLine
      <4>1. Line(m).whole = FALSE
        BY <1>2, <2>4 DEF Line
      <4>2. m <= EpochEnd(k - 1)
        BY <3>2, LineIs
      <4>3. k \in 1..Len(rows)
        BY <1>4
      <4>4. EpochEnd(k - 1) <= final /\ EpochEnd(k - 1) \in Int /\ final \in Int
        <5>1. EpochSize \in Nat /\ k - 1 \in Nat /\ final \in Nat
          BY <1>1, <1>4, PublicationAssumption DEF MirrorType
        <5>2. (k - 1) * EpochSize \in Nat
          BY <5>1, Times
        <5> QED
          BY <1>1, <4>3, <5>1, <5>2, RowIndex DEF EpochEnd
      <4>5. m <= final
        BY <4>2, <4>4 DEF Heights
      <4> QED
        BY <1>2, <2>4, <3>1, <3>2, <4>1, <4>5 DEF Repaired
    <3>3. CASE ~(EpochLines(k - 1)[m] = Line(m) /\ Line(m) # NoLine)
      <4>1. Line(m) # NoLine
        BY <1>2, <2>4 DEF Line, NoLine
      <4>2. EpochLines(k - 1)[m] = NoLine /\ EpochLines(k - 1)'[m] = NoLine
        BY <1>2, <3>3, <4>1, LineIs, LineNext
      <4> QED
        BY <3>1, <4>2
    <3> QED
      BY <3>2, <3>3
  <2> QED
    BY <2>3, <2>4
<1>6. RowInv'
  BY <1>1, <1>2, <1>5 DEF RowInv
<1>7. FileInv'
  <2> SUFFICES ASSUME NEW i \in 1..Len(rows), files[i - 1] # rows[i] PROVE rows[i] # Cur(i)'
    BY <1>2 DEF FileInv
  <2>1. rows[i] # Cur(i)
    BY <1>1 DEF FileInv
  <2>2. PICK k \in 1..i, m \in Heights : Repaired(rows[i][k][m], m)
    BY <2>1, Differs
  <2>3. rows[i][k][m].whole = FALSE /\ m \notin hole'
    BY <1>2, <2>2 DEF Repaired
  <2>4. EpochLines(k - 1)'[m].whole = TRUE
    <3>1. [era |-> mirror'[m], whole |-> m \notin hole'].whole = TRUE /\ NoLine.whole = TRUE
      BY <2>3 DEF NoLine
    <3> QED
      BY <3>1, LineNext
  <2>5. Cur(i)'[k] = EpochLines(k - 1)'
    BY DEF Cur
  <2> QED
    BY <2>3, <2>4, <2>5
<1>8. CutInv' /\ RecutInv' /\ LinkInv' /\ PublishInv' /\ KeptInv' /\ AliveInv'
  <2>1. /\ crashes' \in Nat /\ pc \notin RecutPcs \cup {"prune", "pruneRow"}
        /\ pc' \in Calm
    BY <1>1, <1>2 DEF ProcType, RecutPcs, Calm, LoopPcs
  <2> QED
    BY <1>2, <2>1, RestKeeps
<1> QED
  BY <1>3, <1>6, <1>7, <1>8 DEF PubInv

(***************************************************************************)
(* cut_ready_epochs.                                                       *)
(***************************************************************************)
LEMMA SnapsKeep ==
  ASSUME PubInv, UNCHANGED <<snapRows, snapFiles, manifest, recut, crashes>>,
         \A i \in 1..Len(rows) : rows'[i] = rows[i],
         pc \notin RecutPcs \cup {"prune", "pruneRow"},
         pc' \notin RecutPcs \cup {"prune", "pruneRow", "snapshotRow"}
  PROVE  PublishInv' /\ KeptInv' /\ AliveInv'
<1>1. ASSUME NEW s \in snapRows PROVE Held(s)' = Held(s)
  <2>1. s.e \in Nat /\ s.e < Len(rows) /\ Len(rows) \in Nat
    BY LenProperties DEF PubInv, FilesType, Snapshots
  <2>2. s.e + 1 \in 1..Len(rows)
    BY <2>1
  <2> QED
    BY <2>2 DEF Held
<1>2. PublishInv'
  BY DEF PublishInv
<1>3. KeptInv'
  BY <1>1 DEF PubInv, KeptInv, Outnumbered, Newer
<1>4. AliveInv'
  <2> SUFFICES ASSUME crashes' = 0 PROVE AliveInv'
    BY DEF AliveInv
  <2>1. Going = {} /\ Going' = {}
    BY DEF Going, RecutPcs
  <2>2. /\ \A s \in snapRows \ Going : Held(s)
        /\ manifest.snapshot = ManifestOfDb.snapshot
    BY DEF PubInv, AliveInv
  <2>3. ManifestOfDb'.snapshot = ManifestOfDb.snapshot
    BY DEF ManifestOfDb
  <2>4. \A s \in snapRows' \ Going' : Held(s)'
    BY <1>1, <2>1, <2>2
  <2> QED
    BY <2>2, <2>3, <2>4 DEF AliveInv, RecutPcs
<1> QED
  BY <1>2, <1>3, <1>4

LEMMA NextHash ==
  ASSUME PubInv, NEW i \in 0..Len(rows)
  PROVE  /\ EpochHash(i, HashOfRow(i)) \in Hashes
         /\ Len(HashOfRow(i)) = i /\ Len(EpochHash(i, HashOfRow(i))) = i + 1
         /\ \A k \in 1..i : EpochHash(i, HashOfRow(i))[k] = HashOfRow(i)[k]
         /\ EpochHash(i, HashOfRow(i))[i + 1] = EpochLines(i)
         /\ PrevOf(EpochHash(i, HashOfRow(i))) = HashOfRow(i)
<1>1. MirrorType /\ FilesType /\ RowInv /\ Len(rows) \in Nat
  BY LenProperties DEF PubInv, FilesType
<1>2. HashOfRow(i) \in Hashes /\ (i # 0 => HashOfRow(i) = rows[i])
  BY <1>1, HashOfRowType
<1>3. Len(HashOfRow(i)) = i
  <2>1. CASE i = 0
    BY <2>1 DEF HashOfRow
  <2>2. CASE i # 0
    <3>1. i \in 1..Len(rows)
      BY <1>1, <2>2
    <3> QED
      BY <1>1, <1>2, <2>2, <3>1 DEF RowInv
  <2> QED
    BY <2>1, <2>2
<1> QED
  BY <1>1, <1>2, <1>3, EpochLinesType, HashAppends DEF EpochHash

LEMMA CutFileKeeps == ASSUME PubInv, CutFile PROVE PubInv'
<1> DEFINE H == EpochHash(NextIdx, HashOfRow(NextIdx))
<1>1. /\ UNCHANGED <<mirror, hole, era, head, final, rows, snapRows>>
      /\ UNCHANGED <<snapFiles, manifest, recut, crashes>>
      /\ pc = "cut" /\ pc' = "row" /\ Ready /\ files' = [files EXCEPT ![NextIdx] = H]
  BY DEF CutFile, Goto, dbVars
<1>2. MirrorType /\ FilesType /\ ProcType /\ Len(rows) \in Nat
  BY LenProperties DEF PubInv, FilesType
<1>3. NextIdx \in Indices /\ NextIdx = Len(rows) /\ NextIdx \in 0..Len(rows)
  BY <1>1, <1>2, ReadyIndex DEF NextIdx
<1>4. H \in Hashes
  BY <1>3, NextHash
<1>5. H' = H
  BY <1>1, SameLines DEF EpochHash, NextIdx, HashOfRow
<1> HIDE DEF H
<1>6. \A i \in 1..Len(rows) : files'[i - 1] = files[i - 1]
  BY <1>1, <1>2, <1>3 DEF FilesType
<1>7. MirrorType' /\ RowInv' /\ FileInv'
  BY <1>1, <1>6, SameEpochs
<1>8. FilesType' /\ ProcType'
  <2>1. files' \in [Indices -> Hashes]
    BY <1>1, <1>2, <1>4 DEF FilesType
  <2> QED
    BY <1>1, <1>2, <2>1 DEF FilesType, ProcType, LoopPcs
<1>9. CutInv'
  <2>1. Ready' /\ NextIdx' = NextIdx
    BY <1>1 DEF Ready, NextIdx
  <2>2. files'[NextIdx] = H
    BY <1>1, <1>2, <1>3 DEF FilesType
  <2> QED
    BY <1>5, <2>1, <2>2 DEF CutInv, H
<1>10. RecutInv'
  BY <1>1 DEF RecutInv, RecutPcs
<1>11. LinkInv'
  <2>1. Orderly' => Orderly
    BY <1>1 DEF Orderly, RecutPcs
  <2> QED
    BY <1>1, <1>6, <2>1 DEF PubInv, LinkInv, HashOfRow
<1>12. PublishInv' /\ KeptInv' /\ AliveInv'
  <2>1. /\ pc \notin RecutPcs \cup {"prune", "pruneRow"}
        /\ pc' \notin RecutPcs \cup {"prune", "pruneRow", "snapshotRow"}
    BY <1>1 DEF RecutPcs
  <2> QED
    BY <1>1, <2>1, SnapsKeep
<1> QED
  BY <1>7, <1>8, <1>9, <1>10, <1>11, <1>12 DEF PubInv

LEMMA CutRowKeeps == ASSUME PubInv, CutRow PROVE PubInv'
<1> DEFINE N == Len(rows)
<1> DEFINE H == EpochHash(N, HashOfRow(N))
<1>1. /\ UNCHANGED <<mirror, hole, era, head, final, snapRows>>
      /\ UNCHANGED <<files, snapFiles, manifest, recut, crashes>>
      /\ pc = "row" /\ pc' = "cut" /\ rows' = Append(rows, H)
  BY DEF CutRow, feedVars, NextIdx
<1>2. MirrorType /\ FilesType /\ ProcType /\ RowInv /\ FileInv /\ N \in Nat
  BY LenProperties DEF PubInv, FilesType
<1>3. /\ H \in Hashes /\ Len(H) = N + 1 /\ PrevOf(H) = HashOfRow(N)
      /\ (\A k \in 1..N : H[k] = HashOfRow(N)[k]) /\ H[N + 1] = EpochLines(N)
  BY <1>2, NextHash
<1>4. Ready /\ files[N] = H
  BY <1>1 DEF PubInv, CutInv, NextIdx
<1> HIDE DEF H
<1>5. /\ rows' \in Seq(Hashes) /\ Len(rows') = N + 1
      /\ (\A i \in 1..N : rows'[i] = rows[i]) /\ rows'[N + 1] = H
  BY <1>1, <1>2, <1>3, AppendProperties DEF FilesType
<1>6. \A idx : EpochLines(idx)' = EpochLines(idx)
  BY <1>1, SameLines
<1>7. \A i : Cur(i)' = Cur(i)
  BY <1>1, SameLines
<1>8. MirrorType'
  BY <1>1, <1>2 DEF MirrorType
<1>9. FilesType' /\ ProcType'
  <2>1. (N + 1) * EpochSize <= final + 1
    <3>1. EpochSize \in Nat /\ N * EpochSize \in Nat /\ final \in Nat
      BY <1>2, Times, PublicationAssumption DEF MirrorType
    <3>2. (N + 1) * EpochSize = N * EpochSize + EpochSize
      BY <1>2, <3>1
    <3>3. N * EpochSize + EpochSize - 1 <= final
      BY <1>4 DEF Ready, EpochEnd, NextIdx
    <3> QED
      BY <3>1, <3>2, <3>3
  <2>2. \A s \in snapRows : s.e < N + 1
    BY <1>2 DEF FilesType, Snapshots
  <2> QED
    BY <1>1, <1>2, <1>5, <2>1, <2>2 DEF FilesType, ProcType, LoopPcs
<1>10. RowInv'
  <2> SUFFICES ASSUME NEW i \in 1..(N + 1)
               PROVE  /\ Len(rows'[i]) = i
                      /\ \A k \in 1..i : \A n \in Heights :
                           rows'[i][k][n] = EpochLines(k - 1)[n] \/ Repaired(rows'[i][k][n], n)
    <3>1. \A i \in 1..(N + 1) :
            /\ Len(rows'[i]) = i
            /\ \A k \in 1..i : \A n \in Heights :
                 \/ rows'[i][k][n] = EpochLines(k - 1)'[n]
                 \/ rows'[i][k][n].whole = FALSE /\ n \notin hole' /\ n <= final'
      BY <1>1, <1>6 DEF Repaired
    <3> QED
      BY <1>5, <3>1 DEF RowInv, Repaired
  <2>1. CASE i \in 1..N
    BY <1>2, <1>5, <2>1 DEF RowInv
  <2>2. CASE ~(i \in 1..N)
    <3>1. i = N + 1 /\ rows'[i] = H
      BY <1>2, <1>5, <2>2
    <3>2. ASSUME NEW k \in 1..i, NEW n \in Heights
          PROVE  H[k][n] = EpochLines(k - 1)[n] \/ Repaired(H[k][n], n)
      <4>1. CASE k = N + 1
        <5>1. k - 1 = N
          BY <1>2, <4>1
        <5> QED
          BY <1>3, <4>1, <5>1
      <4>2. CASE k # N + 1
        <5>1. k \in 1..N /\ N \in 1..N /\ N # 0
          BY <1>2, <3>1, <4>2
        <5>2. H[k] = rows[N][k]
          BY <1>3, <5>1 DEF HashOfRow
        <5> QED
          BY <1>2, <5>1, <5>2 DEF RowInv
      <4> QED
        BY <4>1, <4>2
    <3> QED
      BY <1>3, <3>1, <3>2
  <2> QED
    BY <2>1, <2>2
<1>11. FileInv'
  <2> SUFFICES ASSUME NEW i \in 1..(N + 1) PROVE files[i - 1] = rows'[i] \/ rows'[i] # Cur(i)
    BY <1>1, <1>5, <1>7 DEF FileInv
  <2>1. CASE i \in 1..N
    BY <1>2, <1>5, <2>1 DEF FileInv
  <2>2. CASE ~(i \in 1..N)
    <3>1. i = N + 1 /\ i - 1 = N
      BY <1>2, <2>2
    <3> QED
      BY <1>4, <1>5, <3>1
  <2> QED
    BY <2>1, <2>2
<1>12. CutInv' /\ RecutInv'
  BY <1>1 DEF CutInv, RecutInv, RecutPcs
<1>13. LinkInv'
  <2> SUFFICES ASSUME Orderly' PROVE LinkInv'
    BY DEF LinkInv
  <2>1. Orderly
    BY <1>1 DEF Orderly, RecutPcs
  <2>2. /\ \A i \in 1..N : files[i - 1] = rows[i] /\ PrevOf(rows[i]) = HashOfRow(i - 1)
        /\ Len(manifest.epochs) <= N
        /\ \A i \in 1..Len(manifest.epochs) : manifest.epochs[i] = rows[i]
    BY <2>1 DEF PubInv, LinkInv
  <2>3. Len(manifest.epochs) \in Nat
    BY <1>2, LenProperties DEF FilesType
  <2>4. \A i \in 0..N : HashOfRow(i)' = HashOfRow(i)
    BY <1>2, <1>5 DEF HashOfRow
  <2>5. ASSUME NEW i \in 1..(N + 1)
        PROVE  files[i - 1] = rows'[i] /\ PrevOf(rows'[i]) = HashOfRow(i - 1)'
    <3>1. i - 1 \in 0..N
      BY <1>2
    <3>2. HashOfRow(i - 1)' = HashOfRow(i - 1)
      BY <2>4, <3>1
    <3>3. CASE i \in 1..N
      BY <1>5, <2>2, <3>2, <3>3
    <3>4. CASE ~(i \in 1..N)
      <4>1. i = N + 1 /\ i - 1 = N
        BY <1>2, <3>4
      <4> QED
        BY <1>3, <1>4, <1>5, <3>2, <4>1
    <3> QED
      BY <3>3, <3>4
  <2>6. /\ Len(manifest.epochs) <= N + 1
        /\ \A i \in 1..Len(manifest.epochs) : manifest.epochs[i] = rows'[i]
    BY <1>2, <1>5, <2>2, <2>3
  <2> QED
    BY <1>1, <1>5, <2>5, <2>6 DEF LinkInv
<1>14. PublishInv' /\ KeptInv' /\ AliveInv'
  <2>1. /\ pc \notin RecutPcs \cup {"prune", "pruneRow"}
        /\ pc' \notin RecutPcs \cup {"prune", "pruneRow", "snapshotRow"}
    BY <1>1 DEF RecutPcs
  <2> QED
    BY <1>1, <1>5, <2>1, SnapsKeep
<1> QED
  BY <1>8, <1>9, <1>10, <1>11, <1>12, <1>13, <1>14 DEF PubInv

(***************************************************************************)
(* maybe_publish_snapshot and prune_snapshots.                             *)
(***************************************************************************)
LEMMA LinkSame ==
  ASSUME PubInv, UNCHANGED <<rows, files, manifest, recut, crashes>>, pc \notin RecutPcs
  PROVE  LinkInv'
<1>1. Orderly' => Orderly
  BY DEF Orderly
<1> QED
  BY <1>1 DEF PubInv, LinkInv, HashOfRow

LEMMA SnapIndex ==
  ASSUME PubInv, NEW s \in snapRows
  PROVE  s.e \in Indices /\ s.e \in Nat /\ s.e + 1 \in 1..Len(rows)
<1>1. s.e \in Nat /\ s.e < Len(rows) /\ Len(rows) \in Nat
  BY LenProperties DEF PubInv, FilesType, Snapshots
<1>2. s.e + 1 \in 1..Len(rows) /\ (s.e + 1) - 1 = s.e
  BY <1>1
<1>3. (s.e + 1) - 1 \in Indices
  BY <1>2, RowIndex DEF PubInv
<1> QED
  BY <1>1, <1>2, <1>3

LEMMA NewSnapshot ==
  ASSUME PubInv, Len(rows) # 0
  PROVE  /\ NextIdx - 1 \in Indices /\ NextIdx - 1 \in Nat /\ NextIdx - 1 < Len(rows)
         /\ SnapshotOf(NextIdx - 1) \in Snapshots
         /\ SnapshotOf(NextIdx - 1).e = NextIdx - 1
         /\ SnapshotOf(NextIdx - 1).hash = rows[NextIdx]
<1>1. MirrorType /\ FilesType /\ Len(rows) \in Nat
  BY LenProperties DEF PubInv, FilesType
<1>2. /\ NextIdx \in 1..Len(rows) /\ NextIdx - 1 \in Nat
      /\ NextIdx - 1 < Len(rows) /\ (NextIdx - 1) + 1 = NextIdx
  BY <1>1 DEF NextIdx
<1>3. NextIdx - 1 \in Indices /\ rows[NextIdx] \in Hashes
  BY <1>1, <1>2, RowIndex, RowType
<1>4. Lines(0, EpochEnd(NextIdx - 1)) \in LineMaps
  BY <1>1, LinesType
<1>5. SnapshotOf(NextIdx - 1) =
        [e |-> NextIdx - 1, hash |-> rows[NextIdx], slots |-> Lines(0, EpochEnd(NextIdx - 1))]
  BY <1>2 DEF SnapshotOf
<1> QED
  BY <1>2, <1>3, <1>4, <1>5 DEF Snapshots

LEMMA SnapshotFileKeeps == ASSUME PubInv, SnapshotFile PROVE PubInv'
<1> DEFINE i == NextIdx - 1
<1> DEFINE S == SnapshotOf(i)
<1>1. /\ UNCHANGED <<mirror, hole, era, head, final, rows, snapRows>>
      /\ UNCHANGED <<files, manifest, recut, crashes>>
      /\ pc = "snapshot" /\ pc' = "snapshotRow" /\ rows # <<>>
      /\ (\A s \in snapRows : s.e # i) /\ snapFiles' = [snapFiles EXCEPT ![i] = <<S>>]
  BY DEF SnapshotFile, Goto, dbVars
<1>2. FilesType /\ ProcType /\ Len(rows) # 0
  BY <1>1, EmptySeq, SeqEqual DEF PubInv, FilesType
<1>3. i \in Indices /\ S \in Snapshots
  BY <1>2, NewSnapshot
<1>4. S' = S /\ i' = i
  BY <1>1 DEF SnapshotOf, NextIdx, Lines, Line
<1> HIDE DEF S, i
<1>5. snapFiles' \in [Indices -> Seq(Snapshots)] /\ snapFiles'[i] = <<S>>
  BY <1>1, <1>2, <1>3 DEF FilesType
<1>6. ASSUME NEW s \in snapRows PROVE Held(s)' = Held(s)
  <2>1. s.e \in Indices /\ s.e # i
    BY <1>1, SnapIndex
  <2> QED
    BY <1>1, <1>2, <2>1 DEF Held, FilesType
<1>7. MirrorType' /\ RowInv' /\ FileInv'
  BY <1>1, SameEpochs
<1>8. FilesType' /\ ProcType'
  BY <1>1, <1>2, <1>5 DEF FilesType, ProcType, LoopPcs
<1>9. CutInv' /\ RecutInv'
  BY <1>1 DEF CutInv, RecutInv, RecutPcs
<1>10. LinkInv'
  BY <1>1, LinkSame DEF RecutPcs
<1>11. PublishInv'
  BY <1>1, <1>2, <1>4, <1>5 DEF PublishInv, S, i
<1>12. KeptInv'
  BY <1>1, <1>6 DEF PubInv, KeptInv, Outnumbered, Newer
<1>13. AliveInv'
  <2> SUFFICES ASSUME crashes = 0 PROVE AliveInv'
    BY <1>1 DEF AliveInv
  <2>1. Going = {} /\ Going' = {}
    BY <1>1 DEF Going
  <2>2. (\A s \in snapRows \ Going : Held(s)) /\ manifest.snapshot = ManifestOfDb.snapshot
    BY <1>1 DEF PubInv, AliveInv, RecutPcs
  <2>3. ManifestOfDb' = ManifestOfDb
    BY <1>1 DEF ManifestOfDb
  <2>4. \A s \in snapRows' \ Going' : Held(s)'
    BY <1>1, <1>6, <2>1, <2>2
  <2> QED
    BY <1>1, <2>2, <2>3, <2>4 DEF AliveInv, RecutPcs
<1> QED
  BY <1>7, <1>8, <1>9, <1>10, <1>11, <1>12, <1>13 DEF PubInv

LEMMA MoreNewer ==
  ASSUME NEW A, NEW B, IsFiniteSet(B), A \subseteq B, Cardinality(A) >= SnapshotKeep
  PROVE  Cardinality(B) >= SnapshotKeep
<1>1. Cardinality(A) \in Nat /\ Cardinality(B) \in Nat /\ Cardinality(A) <= Cardinality(B)
  BY FS_Subset, FS_CardinalityType
<1>2. SnapshotKeep \in Nat
  BY PublicationAssumption
<1> QED
  BY <1>1, <1>2

LEMMA SnapshotRowKeeps == ASSUME PubInv, SnapshotRow PROVE PubInv'
<1> DEFINE i == NextIdx - 1
<1> DEFINE S == SnapshotOf(i)
<1>1. /\ UNCHANGED <<mirror, hole, era, head, final, rows>>
      /\ UNCHANGED <<files, snapFiles, manifest, recut, crashes>>
      /\ pc = "snapshotRow" /\ pc' = "prune"
      /\ snapRows' = {s \in snapRows : s.e # i} \cup {S}
  BY DEF SnapshotRow, Goto, feedVars
<1>2. FilesType /\ ProcType /\ KeptInv
  BY DEF PubInv
<1>3. /\ Len(rows) # 0 /\ snapFiles[i] = <<S>>
      /\ \A s \in snapRows : s.e # i
  BY <1>1 DEF PubInv, PublishInv
<1>4. S \in Snapshots /\ S.e = i /\ S.hash = rows[i + 1] /\ i < Len(rows) /\ i \in Nat
  <2>1. NextIdx = i + 1
    BY <1>2, LenProperties DEF NextIdx, FilesType
  <2> QED
    BY <1>3, <2>1, NewSnapshot
<1> HIDE DEF S, i
<1>0. PICK T \in Snapshots : T = S
  BY <1>4
<1>5. snapRows' = snapRows \cup {T}
  BY <1>0, <1>1, <1>3
<1>6. IsFiniteSet(snapRows')
  BY <1>2, <1>5, FS_AddElement DEF FilesType
<1>7. Held(T)'
  BY <1>0, <1>1, <1>3, <1>4 DEF Held
<1>8. ASSUME NEW s \in snapRows PROVE Held(s)' = Held(s)
  BY <1>1 DEF Held
<1>9. ASSUME NEW s, Outnumbered(s) PROVE Outnumbered(s)'
  <2>1. Newer(s.e) \subseteq Newer(s.e)' /\ Newer(s.e)' \subseteq snapRows'
    BY <1>5 DEF Newer
  <2>2. IsFiniteSet(Newer(s.e)')
    BY <1>6, <2>1, FS_Subset
  <2>3. Cardinality(Newer(s.e)') >= SnapshotKeep
    BY <1>9, <2>1, <2>2, MoreNewer DEF Outnumbered
  <2> QED
    BY <2>3 DEF Outnumbered
<1>10. MirrorType' /\ RowInv' /\ FileInv'
  BY <1>1, SameEpochs
<1>11. FilesType' /\ ProcType'
  <2>1. snapRows' \subseteq Snapshots /\ \A s \in snapRows' : s.e < Len(rows')
    BY <1>0, <1>1, <1>2, <1>4, <1>5 DEF FilesType
  <2>2. \A s, t \in snapRows' : s.e = t.e => s = t
    BY <1>0, <1>2, <1>3, <1>4, <1>5 DEF FilesType
  <2> QED
    BY <1>1, <1>2, <1>6, <2>1, <2>2 DEF FilesType, ProcType, LoopPcs
<1>12. CutInv' /\ RecutInv' /\ PublishInv'
  BY <1>1 DEF CutInv, RecutInv, PublishInv, RecutPcs
<1>13. LinkInv'
  BY <1>1, LinkSame DEF RecutPcs
<1>14. KeptInv'
  BY <1>1, <1>2, <1>5, <1>7, <1>8, <1>9 DEF KeptInv
<1>15. AliveInv'
  <2> SUFFICES ASSUME crashes = 0 PROVE AliveInv'
    BY <1>1 DEF AliveInv
  <2>1. Going = {}
    BY <1>1 DEF Going
  <2>2. \A s \in snapRows \ Going : Held(s)
    BY DEF PubInv, AliveInv
  <2>3. \A s \in snapRows' \ Going' : Held(s)'
    BY <1>5, <1>7, <1>8, <2>1, <2>2
  <2> QED
    BY <1>1, <2>3 DEF AliveInv, RecutPcs
<1> QED
  BY <1>10, <1>11, <1>12, <1>13, <1>14, <1>15 DEF PubInv

LEMMA FileRemoved ==
  ASSUME PubInv, NEW S \in SUBSET snapRows, RemoveFile(S)
  PROVE  /\ UNCHANGED <<mirror, hole, era, head, final, rows, snapRows>>
         /\ UNCHANGED <<files, manifest>>
         /\ snapFiles' \in [Indices -> Seq(Snapshots)]
         /\ \E u \in Oldest(S) : \A s \in snapRows : s # u => Held(s)' = Held(s)
<1>1. /\ UNCHANGED <<mirror, hole, era, head, final, rows, snapRows>>
      /\ UNCHANGED <<files, manifest>>
  BY DEF RemoveFile, dbVars
<1>2. PICK u \in Oldest(S) : snapFiles' = [snapFiles EXCEPT ![u.e] = NoFile]
  BY DEF RemoveFile
<1>3. u \in snapRows /\ NoFile \in Seq(Snapshots) /\ FilesType
  BY EmptySeq DEF Oldest, NoFile, PubInv
<1>4. snapFiles' \in [Indices -> Seq(Snapshots)]
  BY <1>2, <1>3 DEF FilesType
<1>5. ASSUME NEW s \in snapRows, s # u PROVE Held(s)' = Held(s)
  <2>1. s.e # u.e /\ s.e \in Indices
    BY <1>3, <1>5, SnapIndex DEF FilesType
  <2> QED
    BY <1>1, <1>2, <1>3, <2>1 DEF Held, FilesType
<1> QED
  BY <1>1, <1>4, <1>5

LEMMA PruneFileKeeps == ASSUME PubInv, PruneFile PROVE PubInv'
<1>1. Excess \in SUBSET snapRows
  BY DEF Excess
<1>2. /\ pc = "prune" /\ pc' = "pruneRow" /\ UNCHANGED <<recut, crashes>> /\ RemoveFile(Excess)
      /\ UNCHANGED <<mirror, hole, era, head, final, rows, snapRows>>
      /\ UNCHANGED <<files, manifest>> /\ snapFiles' \in [Indices -> Seq(Snapshots)]
  BY <1>1, FileRemoved DEF PruneFile, Goto
<1>3. PICK u \in Oldest(Excess) : \A s \in snapRows : s # u => Held(s)' = Held(s)
  BY <1>1, <1>2, FileRemoved
<1>4. Outnumbered(u) /\ u \in snapRows
  BY DEF Oldest, Excess, Outnumbered, Newer
<1>5. Outnumbered(u)'
  BY <1>2, <1>4 DEF Outnumbered, Newer
<1>6. MirrorType' /\ RowInv' /\ FileInv'
  BY <1>2, SameEpochs
<1>7. FilesType' /\ ProcType'
  BY <1>2 DEF PubInv, FilesType, ProcType, LoopPcs
<1>8. CutInv' /\ RecutInv' /\ PublishInv'
  BY <1>2 DEF CutInv, RecutInv, PublishInv, RecutPcs
<1>9. LinkInv'
  BY <1>2, LinkSame DEF RecutPcs
<1>10. KeptInv'
  <2> SUFFICES ASSUME recut = NoRecut PROVE KeptInv'
    BY <1>2 DEF KeptInv
  <2>1. /\ \A s \in snapRows : Held(s) \/ Outnumbered(s)
        /\ \A s \in manifest.snapshot : s \in snapRows \/ Outnumbered(s)
    BY DEF PubInv, KeptInv
  <2>2. \A s : Outnumbered(s)' = Outnumbered(s)
    BY <1>2 DEF Outnumbered, Newer
  <2>3. \A s \in snapRows : Held(s)' \/ Outnumbered(s)'
    BY <1>3, <1>5, <2>1, <2>2
  <2> QED
    BY <1>2, <2>1, <2>2, <2>3 DEF KeptInv
<1>11. AliveInv'
  <2> SUFFICES ASSUME crashes = 0 PROVE AliveInv'
    BY <1>2 DEF AliveInv
  <2>1. Going = {} /\ u \in Going'
    BY <1>2, <1>3 DEF Going, Oldest, Excess
  <2>2. \A s \in snapRows \ Going : Held(s)
    BY DEF PubInv, AliveInv
  <2>3. \A s \in snapRows' \ Going' : Held(s)'
    BY <1>2, <1>3, <2>1, <2>2
  <2> QED
    BY <1>2, <2>3 DEF AliveInv, RecutPcs
<1> QED
  BY <1>6, <1>7, <1>8, <1>9, <1>10, <1>11 DEF PubInv

LEMMA RowRemoved ==
  ASSUME PubInv, NEW S \in SUBSET snapRows, RemoveRow(S)
  PROVE  /\ UNCHANGED <<mirror, hole, era, head, final, rows>>
         /\ UNCHANGED <<files, snapFiles, manifest>>
         /\ snapRows' = snapRows \ Oldest(S) /\ snapRows' \subseteq Snapshots /\ IsFiniteSet(snapRows')
         /\ \A s \in snapRows' : s.e < Len(rows)
         /\ \A s, t \in snapRows' : s.e = t.e => s = t
         /\ \A s : Held(s)' = Held(s)
<1>1. /\ UNCHANGED <<mirror, hole, era, head, final, rows>>
      /\ UNCHANGED <<files, snapFiles, manifest>> /\ snapRows' = snapRows \ Oldest(S)
  BY DEF RemoveRow, feedVars
<1>2. snapRows' \subseteq snapRows /\ FilesType
  BY <1>1 DEF PubInv
<1>3. IsFiniteSet(snapRows')
  BY <1>2, FS_Subset DEF FilesType
<1>4. /\ snapRows' \subseteq Snapshots /\ \A s \in snapRows' : s.e < Len(rows)
      /\ \A s, t \in snapRows' : s.e = t.e => s = t
  BY <1>2 DEF FilesType
<1>5. \A s : Held(s)' = Held(s)
  BY <1>1 DEF Held
<1> QED
  BY <1>1, <1>3, <1>4, <1>5

(***************************************************************************)
(* The prune removes one that is outnumbered, and whatever was outnumbered *)
(* still is: by the newer ones of the one removed, if that was newer.      *)
(***************************************************************************)
LEMMA StaysOutnumbered ==
  ASSUME PubInv, snapRows' = snapRows \ Oldest(Excess), NEW s, s.e \in Nat, Outnumbered(s)
  PROVE  Outnumbered(s)'
<1>1. snapRows \subseteq Snapshots /\ IsFiniteSet(snapRows) /\ IsFiniteSet(snapRows')
  BY FS_Subset DEF PubInv, FilesType
<1>2. Newer(s.e)' = {t \in snapRows' : t.e > s.e} /\ IsFiniteSet(Newer(s.e)')
  <2>1. Newer(s.e)' = {t \in snapRows' : t.e > s.e}
    BY DEF Newer
  <2> QED
    BY <1>1, <2>1, FS_Subset
<1>3. CASE \E u \in Oldest(Excess) : u.e > s.e
  <2>1. PICK u \in Oldest(Excess) : u.e > s.e
    BY <1>3
  <2>2. u \in snapRows /\ Cardinality(Newer(u.e)) >= SnapshotKeep
    BY DEF Oldest, Excess, Newer
  <2>3. ASSUME NEW t \in Newer(u.e) PROVE t \in Newer(s.e)'
    <3>1. t \in snapRows /\ t.e > u.e /\ t.e \in Nat /\ u.e \in Nat
      BY <1>1, <2>2 DEF Newer, Snapshots
    <3>2. t \notin Oldest(Excess)
      BY <3>1 DEF Oldest
    <3> QED
      BY <1>2, <2>1, <3>1, <3>2
  <2>4. Cardinality(Newer(s.e)') >= SnapshotKeep
    BY <1>2, <2>2, <2>3, MoreNewer
  <2> QED
    BY <2>4 DEF Outnumbered
<1>4. CASE ~ \E u \in Oldest(Excess) : u.e > s.e
  <2>1. Newer(s.e)' = Newer(s.e)
    BY <1>2, <1>4 DEF Newer
  <2> QED
    BY <2>1 DEF Outnumbered
<1> QED
  BY <1>3, <1>4

LEMMA PruneRowKeeps == ASSUME PubInv, PruneRow PROVE PubInv'
<1>1. Excess \in SUBSET snapRows
  BY DEF Excess
<1>2. /\ pc = "pruneRow" /\ pc' = "prune" /\ UNCHANGED <<recut, crashes>> /\ RemoveRow(Excess)
      /\ UNCHANGED <<mirror, hole, era, head, final, rows>>
      /\ UNCHANGED <<files, snapFiles, manifest>>
      /\ snapRows' = snapRows \ Oldest(Excess)
  BY <1>1, RowRemoved DEF PruneRow, Goto
<1>3. /\ snapRows' \subseteq Snapshots /\ IsFiniteSet(snapRows')
      /\ \A s \in snapRows' : s.e < Len(rows)
      /\ \A s, t \in snapRows' : s.e = t.e => s = t
  BY <1>1, <1>2, RowRemoved
<1>4. \A s : Held(s)' = Held(s)
  BY <1>1, <1>2, RowRemoved
<1>5. MirrorType' /\ RowInv' /\ FileInv'
  BY <1>2, SameEpochs
<1>6. FilesType' /\ ProcType'
  BY <1>2, <1>3 DEF PubInv, FilesType, ProcType, LoopPcs
<1>7. CutInv' /\ RecutInv' /\ PublishInv'
  BY <1>2 DEF CutInv, RecutInv, PublishInv, RecutPcs
<1>8. LinkInv'
  BY <1>2, LinkSame DEF RecutPcs
<1>9. KeptInv'
  <2> SUFFICES ASSUME recut = NoRecut PROVE KeptInv'
    BY <1>2 DEF KeptInv
  <2>1. /\ \A s \in snapRows : Held(s) \/ Outnumbered(s)
        /\ \A s \in manifest.snapshot : s \in snapRows \/ Outnumbered(s)
        /\ \A s \in snapRows : s.e \in Nat
        /\ \A s \in manifest.snapshot : s.e \in Nat
    BY DEF PubInv, KeptInv, FilesType, Snapshots
  <2>2. ASSUME NEW s, s.e \in Nat, Outnumbered(s) PROVE Outnumbered(s)'
    BY <1>2, <2>2, StaysOutnumbered
  <2>3. ASSUME NEW s \in snapRows' PROVE Held(s)' \/ Outnumbered(s)'
    BY <1>2, <1>4, <2>1, <2>2
  <2>4. ASSUME NEW s \in manifest.snapshot PROVE s \in snapRows' \/ Outnumbered(s)'
    <3>1. CASE Outnumbered(s)
      BY <2>1, <2>2, <3>1
    <3>2. CASE ~Outnumbered(s)
      <4>1. s \notin Oldest(Excess)
        BY <3>2 DEF Oldest, Excess, Outnumbered, Newer
      <4> QED
        BY <1>2, <2>1, <3>2, <4>1
    <3> QED
      BY <3>1, <3>2
  <2> QED
    BY <1>2, <2>3, <2>4 DEF KeptInv
<1>10. AliveInv'
  <2> SUFFICES ASSUME crashes = 0 PROVE AliveInv'
    BY <1>2 DEF AliveInv
  <2>1. Going = Oldest(Excess)
    BY <1>2 DEF Going
  <2>2. \A s \in snapRows \ Going : Held(s)
    BY DEF PubInv, AliveInv
  <2>3. \A s \in snapRows' \ Going' : Held(s)'
    BY <1>2, <1>4, <2>1, <2>2
  <2> QED
    BY <1>2, <2>3 DEF AliveInv, RecutPcs
<1> QED
  BY <1>5, <1>6, <1>7, <1>8, <1>9, <1>10 DEF PubInv

(***************************************************************************)
(* recut_epochs_from: an epoch that is not stale, above epochs that would  *)
(* be cut as they are, would be cut as it is.                              *)
(***************************************************************************)
LEMMA FreshBelow ==
  ASSUME PubInv, NEW next \in 0..Len(rows), \A idx \in 0..(next - 1) : ~Stale(idx)
  PROVE  \A i \in 1..next : rows[i] = Cur(i)
<1> DEFINE B == {i \in 1..next : rows[i] # Cur(i)}
<1>1. Len(rows) \in Nat /\ MirrorType
  BY LenProperties DEF PubInv, FilesType
<1> SUFFICES ASSUME B # {} PROVE FALSE
  OBVIOUS
<1>2. B \subseteq Nat
  BY <1>1
<1>3. PICK m \in B : \A u \in B : ~(<<u, m>> \in OpToRel(<, Nat))
  BY <1>2, NatLessThanWellFounded, WFMin
<1>4. m \in 1..next /\ rows[m] # Cur(m) /\ m \in Nat /\ m - 1 \in Nat /\ (m - 1) + 1 = m
  BY <1>1
<1>5. HashOfRow(m - 1) = Cur(m - 1)
  <2>1. CASE m = 1
    BY <2>1, CurStarts DEF HashOfRow
  <2>2. CASE m # 1
    <3>1. m - 1 \in 1..next /\ m - 1 < m /\ m - 1 # 0
      BY <1>1, <1>4, <2>2
    <3>2. m - 1 \notin B
      BY <1>2, <1>3, <1>4, <3>1 DEF OpToRel
    <3> QED
      BY <3>1, <3>2 DEF HashOfRow
  <2> QED
    BY <2>1, <2>2
<1>6. m - 1 \in 0..(next - 1)
  BY <1>1, <1>4
<1>7. rows[m] = Append(Cur(m - 1), EpochLines(m - 1))
  BY <1>4, <1>5, <1>6 DEF Stale, EpochHash
<1>8. rows[m] = Cur(m)
  BY <1>1, <1>4, <1>7, CurGrows
<1> QED
  BY <1>4, <1>8

LEMMA RecutStartKeeps ==
  ASSUME PubInv, NEW first \in Indices, RecutStart(first)
  PROVE  PubInv'
<1>1. /\ UNCHANGED <<mirror, hole, era, head, final, rows, snapRows>>
      /\ UNCHANGED <<files, snapFiles, manifest, crashes>>
      /\ pc = "idle" /\ pc' = "withdraw"
  BY DEF RecutStart, dbVars, feedVars
<1>2. PICK next \in first..(NextIdx - 1) :
        /\ \A idx \in first..(next - 1) : ~Stale(idx)
        /\ recut' = [first |-> first, next |-> next]
  BY DEF RecutStart
<1>3. FilesType /\ ProcType /\ Len(rows) \in Nat /\ NextIdx = Len(rows)
  BY LenProperties DEF PubInv, FilesType, NextIdx
<1>4. first \in Nat /\ next \in 0..(Len(rows) - 1) /\ first <= next /\ next \in 0..Len(rows)
  BY <1>3, PublicationAssumption DEF Indices
<1>5. \A idx \in 0..(next - 1) : ~Stale(idx)
  <2>1. \A idx \in 0..(first - 1) : ~Stale(idx)
    BY DEF RecutStart
  <2>2. \A idx \in 0..(next - 1) : idx \in 0..(first - 1) \/ idx \in first..(next - 1)
    BY <1>4
  <2> QED
    BY <1>2, <2>1, <2>2
<1>6. \A i \in 1..next : rows[i] = Cur(i)
  BY <1>4, <1>5, FreshBelow
<1>7. recut'.next = next /\ recut'.first = first /\ recut' \in [first : Nat, next : Int]
  BY <1>2, <1>4
<1>8. MirrorType' /\ RowInv' /\ FileInv'
  BY <1>1, SameEpochs
<1>9. FilesType' /\ ProcType'
  BY <1>1, <1>3, <1>7 DEF FilesType, ProcType, RecutPcs
<1>10. CutInv' /\ PublishInv' /\ LinkInv'
  BY <1>1 DEF CutInv, PublishInv, LinkInv, Orderly, RecutPcs
<1>11. RecutInv'
  BY <1>1, <1>4, <1>6, <1>7, SameLines DEF RecutInv
<1>12. KeptInv'
  <2>1. recut'.next # NoRecut.next
    BY <1>4, <1>7 DEF NoRecut
  <2> QED
    BY <2>1 DEF KeptInv, NoRecut
<1>13. AliveInv'
  <2> SUFFICES ASSUME crashes = 0 PROVE AliveInv'
    BY <1>1 DEF AliveInv
  <2>1. Going = {}
    BY <1>1 DEF Going
  <2>2. \A s \in snapRows \ Going : Held(s)
    BY DEF PubInv, AliveInv
  <2>3. \A s \in snapRows' \ Going' : Held(s)'
    BY <1>1, <2>1, <2>2 DEF Held
  <2> QED
    BY <1>1, <2>3 DEF AliveInv, RecutPcs
<1> QED
  BY <1>8, <1>9, <1>10, <1>11, <1>12, <1>13 DEF PubInv

(***************************************************************************)
(* While a re-cut is under way.                                            *)
(***************************************************************************)
LEMMA Recutting ==
  ASSUME PubInv, pc \in RecutPcs
  PROVE  /\ recut.next \in Nat /\ recut.first \in Nat /\ recut.first <= recut.next
         /\ recut.next < Len(rows) /\ Len(rows) \in Nat /\ recut.next + 1 \in 1..Len(rows)
         /\ recut.next \in Indices /\ recut # NoRecut
         /\ \A i \in 1..recut.next : rows[i] = Cur(i)
         /\ RecutHash = Cur(recut.next + 1) /\ RecutHash \in Hashes
<1>1. FilesType /\ MirrorType /\ ProcType /\ Len(rows) \in Nat
  BY LenProperties DEF PubInv, FilesType
<1>2. /\ recut.next \in 0..(Len(rows) - 1) /\ recut.first <= recut.next
      /\ \A i \in 1..recut.next : rows[i] = Cur(i)
  BY DEF PubInv, RecutInv
<1>3. /\ recut.next \in Nat /\ recut.first \in Nat /\ recut.next < Len(rows)
      /\ recut.next + 1 \in 1..Len(rows) /\ (recut.next + 1) - 1 = recut.next
  BY <1>1, <1>2 DEF ProcType
<1>4. recut.next \in Indices
  BY <1>1, <1>3, RowIndex
<1>5. recut # NoRecut
  BY <1>3 DEF NoRecut
<1>6. HashOfRow(recut.next) = Cur(recut.next)
  <2>1. CASE recut.next = 0
    BY <2>1, CurStarts DEF HashOfRow
  <2>2. CASE recut.next # 0
    BY <1>2, <1>3, <2>2 DEF HashOfRow
  <2> QED
    BY <2>1, <2>2
<1>7. RecutHash = Cur(recut.next + 1)
  BY <1>1, <1>3, <1>6, CurGrows DEF RecutHash, EpochHash
<1>8. RecutHash \in Hashes
  BY <1>1, <1>3, <1>7, CurIs
<1> QED
  BY <1>1, <1>2, <1>3, <1>4, <1>5, <1>7, <1>8

LEMMA WithdrawFileKeeps == ASSUME PubInv, WithdrawFile PROVE PubInv'
<1>1. Withdrawn \in SUBSET snapRows
  BY DEF Withdrawn
<1>2. /\ pc = "withdraw" /\ pc' = "withdrawRow" /\ UNCHANGED <<recut, crashes>> /\ RemoveFile(Withdrawn)
      /\ UNCHANGED <<mirror, hole, era, head, final, rows, snapRows>>
      /\ UNCHANGED <<files, manifest>> /\ snapFiles' \in [Indices -> Seq(Snapshots)]
  BY <1>1, FileRemoved DEF WithdrawFile, Goto
<1>3. PICK u \in Oldest(Withdrawn) : \A s \in snapRows : s # u => Held(s)' = Held(s)
  BY <1>1, <1>2, FileRemoved
<1>4. pc \in RecutPcs /\ pc' \in RecutPcs /\ recut # NoRecut
  BY <1>2, Recutting DEF RecutPcs
<1>5. MirrorType' /\ RowInv' /\ FileInv'
  BY <1>2, SameEpochs
<1>6. FilesType' /\ ProcType'
  BY <1>2, <1>4 DEF PubInv, FilesType, ProcType
<1>7. CutInv' /\ PublishInv' /\ LinkInv' /\ KeptInv'
  BY <1>2, <1>4 DEF CutInv, PublishInv, LinkInv, Orderly, KeptInv
<1>8. RecutInv'
  BY <1>2, <1>4, SameLines DEF PubInv, RecutInv
<1>9. AliveInv'
  <2> SUFFICES ASSUME crashes = 0 PROVE AliveInv'
    BY <1>2 DEF AliveInv
  <2>1. Going = {} /\ u \in Going'
    BY <1>2, <1>3 DEF Going, Oldest, Withdrawn
  <2>2. \A s \in snapRows \ Going : Held(s)
    BY DEF PubInv, AliveInv
  <2>3. \A s \in snapRows' \ Going' : Held(s)'
    BY <1>2, <1>3, <2>1, <2>2
  <2> QED
    BY <1>2, <1>4, <2>3 DEF AliveInv
<1> QED
  BY <1>5, <1>6, <1>7, <1>8, <1>9 DEF PubInv

LEMMA WithdrawRowKeeps == ASSUME PubInv, WithdrawRow PROVE PubInv'
<1>1. Withdrawn \in SUBSET snapRows
  BY DEF Withdrawn
<1>2. /\ pc = "withdrawRow" /\ pc' = "withdraw" /\ UNCHANGED <<recut, crashes>> /\ RemoveRow(Withdrawn)
      /\ UNCHANGED <<mirror, hole, era, head, final, rows>>
      /\ UNCHANGED <<files, snapFiles, manifest>>
      /\ snapRows' = snapRows \ Oldest(Withdrawn)
  BY <1>1, RowRemoved DEF WithdrawRow, Goto
<1>3. /\ snapRows' \subseteq Snapshots /\ IsFiniteSet(snapRows')
      /\ \A s \in snapRows' : s.e < Len(rows)
      /\ \A s, t \in snapRows' : s.e = t.e => s = t
  BY <1>1, <1>2, RowRemoved
<1>4. \A s : Held(s)' = Held(s)
  BY <1>1, <1>2, RowRemoved
<1>5. pc \in RecutPcs /\ pc' \in RecutPcs /\ recut # NoRecut
  BY <1>2, Recutting DEF RecutPcs
<1>6. MirrorType' /\ RowInv' /\ FileInv'
  BY <1>2, SameEpochs
<1>7. FilesType' /\ ProcType'
  BY <1>2, <1>3, <1>5 DEF PubInv, FilesType, ProcType
<1>8. CutInv' /\ PublishInv' /\ LinkInv' /\ KeptInv'
  BY <1>2, <1>5 DEF CutInv, PublishInv, LinkInv, Orderly, KeptInv
<1>9. RecutInv'
  BY <1>2, <1>5, SameLines DEF PubInv, RecutInv
<1>10. AliveInv'
  <2> SUFFICES ASSUME crashes = 0 PROVE AliveInv'
    BY <1>2 DEF AliveInv
  <2>1. Going = Oldest(Withdrawn)
    BY <1>2 DEF Going
  <2>2. \A s \in snapRows \ Going : Held(s)
    BY DEF PubInv, AliveInv
  <2>3. \A s \in snapRows' \ Going' : Held(s)'
    BY <1>2, <1>4, <2>1, <2>2
  <2> QED
    BY <1>2, <1>5, <2>3 DEF AliveInv
<1> QED
  BY <1>6, <1>7, <1>8, <1>9, <1>10 DEF PubInv

LEMMA RecutFileKeeps == ASSUME PubInv, RecutFile PROVE PubInv'
<1> DEFINE m == recut.next
<1>1. /\ UNCHANGED <<mirror, hole, era, head, final, rows, snapRows>>
      /\ UNCHANGED <<snapFiles, manifest, recut, crashes>>
      /\ pc \in {"withdraw", "recut"} /\ pc' = "recutRow"
      /\ (pc = "withdraw" => Withdrawn = {}) /\ files' = [files EXCEPT ![m] = RecutHash]
  BY DEF RecutFile, Goto, dbVars
<1>2. pc \in RecutPcs /\ pc' \in RecutPcs
  BY <1>1 DEF RecutPcs
<1>3. /\ m \in Nat /\ m \in Indices /\ m + 1 \in 1..Len(rows) /\ Len(rows) \in Nat /\ recut # NoRecut
      /\ RecutHash = Cur(m + 1) /\ RecutHash \in Hashes /\ recut.first \in Nat
  BY <1>2, Recutting
<1>4. FilesType /\ ProcType /\ FileInv
  BY DEF PubInv
<1>5. RecutHash' = RecutHash
  BY <1>1, SameLines DEF RecutHash, EpochHash, HashOfRow
<1> HIDE DEF m
<1>6. files' \in [Indices -> Hashes] /\ files'[m] = RecutHash
  BY <1>1, <1>3, <1>4 DEF FilesType
<1>7. MirrorType'
  BY <1>1 DEF PubInv, MirrorType
<1>8. RowInv'
  <2>1. \A idx : EpochLines(idx)' = EpochLines(idx)
    BY <1>1, SameLines
  <2> QED
    BY <1>1, <2>1 DEF PubInv, RowInv, Repaired
<1>9. FileInv'
  <2>1. \A i : Cur(i)' = Cur(i)
    BY <1>1, SameLines
  <2>2. ASSUME NEW i \in 1..Len(rows) PROVE files'[i - 1] = rows[i] \/ rows[i] # Cur(i)
    <3>1. CASE i - 1 = m
      <4>1. i = m + 1
        BY <1>3, <3>1
      <4> QED
        BY <1>3, <1>6, <3>1, <4>1
    <3>2. CASE i - 1 # m
      <4>1. i - 1 \in Indices
        BY RowIndex DEF PubInv
      <4>2. files'[i - 1] = files[i - 1]
        BY <1>1, <1>4, <3>2, <4>1 DEF FilesType
      <4> QED
        BY <1>4, <4>2 DEF FileInv
    <3> QED
      BY <3>1, <3>2
  <2> QED
    BY <1>1, <2>1, <2>2 DEF FileInv
<1>10. FilesType' /\ ProcType'
  BY <1>1, <1>2, <1>4, <1>6 DEF FilesType, ProcType
<1>11. CutInv' /\ PublishInv' /\ LinkInv' /\ KeptInv'
  BY <1>1, <1>2, <1>3 DEF CutInv, PublishInv, LinkInv, Orderly, KeptInv
<1>12. RecutInv'
  <2>1. \A i : Cur(i)' = Cur(i)
    BY <1>1, SameLines
  <2> QED
    BY <1>1, <1>2, <1>5, <1>6, <2>1 DEF PubInv, RecutInv, m
<1>13. AliveInv'
  <2> SUFFICES ASSUME crashes = 0 PROVE AliveInv'
    BY <1>1 DEF AliveInv
  <2>1. Going = {}
    BY <1>1 DEF Going
  <2>2. \A s \in snapRows \ Going : Held(s)
    BY DEF PubInv, AliveInv
  <2>3. \A s \in snapRows' \ Going' : Held(s)'
    BY <1>1, <2>1, <2>2 DEF Held
  <2>4. \A s \in snapRows : s.e < recut.first
    <3>1. CASE pc = "withdraw"
      <4>1. \A s \in snapRows : s.e \in Nat /\ ~(s.e >= recut.first)
        BY <1>1, <1>4, <3>1 DEF Withdrawn, FilesType, Snapshots
      <4> QED
        BY <1>3, <4>1
    <3>2. CASE pc = "recut"
      BY <3>2 DEF PubInv, AliveInv
    <3> QED
      BY <1>1, <3>1, <3>2
  <2> QED
    BY <1>1, <1>2, <2>3, <2>4 DEF AliveInv
<1> QED
  BY <1>7, <1>8, <1>9, <1>10, <1>11, <1>12, <1>13 DEF PubInv

LEMMA RecutRowKeeps == ASSUME PubInv, RecutRow PROVE PubInv'
<1>1. /\ UNCHANGED <<mirror, hole, era, head, final, snapRows>>
      /\ UNCHANGED <<files, snapFiles, manifest, recut, crashes>>
      /\ pc = "recutRow" /\ pc' = "recutManifest"
      /\ rows' = [rows EXCEPT ![recut.next + 1] = RecutHash]
  BY DEF RecutRow, Goto, feedVars
<1>2. pc \in RecutPcs /\ pc' \in RecutPcs
  BY <1>1 DEF RecutPcs
<1>3. PICK m \in Nat : m = recut.next
  BY <1>2, Recutting
<1>4. /\ m \in Indices /\ m + 1 \in 1..Len(rows) /\ Len(rows) \in Nat /\ recut # NoRecut
      /\ RecutHash = Cur(m + 1) /\ RecutHash \in Hashes /\ recut.first \in Nat
      /\ (\A i \in 1..m : rows[i] = Cur(i)) /\ recut.first <= m /\ m < Len(rows)
  BY <1>2, <1>3, Recutting
<1>5. FilesType /\ ProcType /\ FileInv /\ MirrorType /\ RowInv
  BY DEF PubInv
<1>6. files[m] = Cur(m + 1)
  BY <1>1, <1>3, <1>4 DEF PubInv, RecutInv
<1>7. /\ rows' \in Seq(Hashes) /\ Len(rows') = Len(rows) /\ rows'[m + 1] = Cur(m + 1)
      /\ \A i \in 1..Len(rows) : i # m + 1 => rows'[i] = rows[i]
  <2> DEFINE H == Cur(m + 1)
  <2>1. rows' = [rows EXCEPT ![m + 1] = H] /\ H \in Hashes /\ rows \in Seq(Hashes)
    BY <1>1, <1>3, <1>4, <1>5 DEF FilesType
  <2> HIDE DEF H
  <2>2. /\ rows' \in Seq(Hashes) /\ Len(rows') = Len(rows)
        /\ \A j \in 1..Len(rows) : rows'[j] = IF j = m + 1 THEN H ELSE rows[j]
    BY <1>4, <2>1, ExceptSeq
  <2> QED
    BY <1>4, <2>2 DEF H
<1>8. MirrorType'
  BY <1>1, <1>5 DEF MirrorType
<1>9. \A idx : EpochLines(idx)' = EpochLines(idx)
  BY <1>1, SameLines
<1>10. \A i : Cur(i)' = Cur(i)
  BY <1>1, SameLines
<1>11. RowInv'
  <2>1. ASSUME NEW i \in 1..Len(rows)
        PROVE  /\ Len(rows'[i]) = i
               /\ \A k \in 1..i : \A n \in Heights :
                    rows'[i][k][n] = EpochLines(k - 1)[n] \/ Repaired(rows'[i][k][n], n)
    <3>1. CASE i = m + 1
      <4>1. i \in Nat /\ rows'[i] = Cur(i)
        BY <1>7, <3>1
      <4> QED
        BY <1>5, <4>1, CurIs
    <3>2. CASE i # m + 1
      <4>1. rows'[i] = rows[i]
        BY <1>7, <3>2
      <4> QED
        BY <1>5, <4>1 DEF RowInv
    <3> QED
      BY <3>1, <3>2
  <2>2. \A i \in 1..Len(rows) :
          /\ Len(rows'[i]) = i
          /\ \A k \in 1..i : \A n \in Heights :
               \/ rows'[i][k][n] = EpochLines(k - 1)'[n]
               \/ rows'[i][k][n].whole = FALSE /\ n \notin hole' /\ n <= final'
    BY <1>1, <1>9, <2>1 DEF Repaired
  <2> QED
    BY <1>7, <2>2 DEF RowInv, Repaired
<1>12. FileInv'
  <2>1. ASSUME NEW i \in 1..Len(rows) PROVE files[i - 1] = rows'[i] \/ rows'[i] # Cur(i)
    <3>1. CASE i = m + 1
      <4>1. i - 1 = m
        BY <3>1
      <4> QED
        BY <1>6, <1>7, <3>1, <4>1
    <3>2. CASE i # m + 1
      BY <1>5, <1>7, <3>2 DEF FileInv
    <3> QED
      BY <3>1, <3>2
  <2> QED
    BY <1>1, <1>7, <1>10, <2>1 DEF FileInv
<1>13. FilesType' /\ ProcType'
  BY <1>1, <1>2, <1>5, <1>7 DEF FilesType, ProcType
<1>14. CutInv' /\ PublishInv' /\ LinkInv' /\ KeptInv'
  BY <1>1, <1>2, <1>4 DEF CutInv, PublishInv, LinkInv, Orderly, KeptInv
<1>15. RecutInv'
  <2>1. ASSUME NEW i \in 1..m PROVE rows'[i] = Cur(i)
    <3>1. i \in 1..Len(rows) /\ i # m + 1
      BY <1>4
    <3> QED
      BY <1>4, <1>7, <3>1
  <2>2. m \in 0..(Len(rows') - 1) /\ recut'.next = m /\ recut'.first <= m
    BY <1>1, <1>3, <1>4, <1>7
  <2> QED
    BY <1>1, <1>6, <1>7, <1>10, <2>1, <2>2 DEF RecutInv
<1>16. AliveInv'
  <2> SUFFICES ASSUME crashes = 0 PROVE AliveInv'
    BY <1>1 DEF AliveInv
  <2>1. Going = {}
    BY <1>1 DEF Going
  <2>2. (\A s \in snapRows \ Going : Held(s)) /\ \A s \in snapRows : s.e < recut.first
    BY <1>1 DEF PubInv, AliveInv
  <2>3. ASSUME NEW s \in snapRows PROVE Held(s)'
    <3>1. s.e \in Nat /\ s.e + 1 \in 1..Len(rows)
      BY SnapIndex
    <3>2. s.e + 1 # m + 1
      BY <1>4, <2>2, <3>1
    <3> QED
      BY <1>1, <1>7, <2>1, <2>2, <3>1, <3>2 DEF Held
  <2> QED
    BY <1>1, <1>2, <2>2, <2>3 DEF AliveInv
<1> QED
  BY <1>8, <1>11, <1>12, <1>13, <1>14, <1>15, <1>16 DEF PubInv

(***************************************************************************)
(* rewrite_manifest in a re-cut.  After the last epoch all rows are what   *)
(* would be cut now, hence linked, and their files are what the rows say.  *)
(***************************************************************************)
LEMMA AllFresh ==
  ASSUME PubInv, \A i \in 1..Len(rows) : rows[i] = Cur(i)
  PROVE  \A i \in 1..Len(rows) :
           /\ files[i - 1] = rows[i]
           /\ HashOfRow(i - 1) = Cur(i - 1) /\ PrevOf(rows[i]) = HashOfRow(i - 1)
           /\ ~Stale(i - 1)
<1>1. MirrorType /\ FileInv /\ Len(rows) \in Nat
  BY LenProperties DEF PubInv, FilesType
<1> TAKE i \in 1..Len(rows)
<1>2. i - 1 \in Nat /\ (i - 1) + 1 = i
  BY <1>1
<1>3. HashOfRow(i - 1) = Cur(i - 1)
  <2>1. CASE i = 1
    BY <2>1, CurStarts DEF HashOfRow
  <2>2. CASE i # 1
    <3>1. i - 1 \in 1..Len(rows) /\ i - 1 # 0
      BY <1>1, <2>2
    <3> QED
      BY <3>1 DEF HashOfRow
  <2> QED
    BY <2>1, <2>2
<1>4. Append(Cur(i - 1), EpochLines(i - 1)) = Cur(i) /\ PrevOf(Cur(i)) = Cur(i - 1)
  BY <1>1, <1>2, CurGrows
<1> QED
  BY <1>1, <1>2, <1>3, <1>4 DEF FileInv, Stale, EpochHash

LEMMA RecutAdvances ==
  ASSUME PubInv, RecutManifest
  PROVE  /\ UNCHANGED <<mirror, hole, era, head, final, rows, snapRows>>
         /\ UNCHANGED <<files, snapFiles, crashes>> /\ pc = "recutManifest" /\ pc \in RecutPcs
         /\ manifest' = ManifestOfDb /\ recut'.next = recut.next + 1 /\ recut'.first = recut.first
         /\ recut' \in [first : Nat, next : Int]
         /\ \A i \in 1..(recut.next + 1) : rows[i] = Cur(i)
         /\ \/ pc' = "idle" /\ recut.next + 1 = Len(rows)
            \/ pc' = "recut" /\ recut.next + 1 \in 0..(Len(rows) - 1)
<1>1. /\ UNCHANGED <<mirror, hole, era, head, final, rows, snapRows>>
      /\ UNCHANGED <<files, snapFiles, crashes>> /\ pc = "recutManifest"
      /\ manifest' = ManifestOfDb /\ recut' = [recut EXCEPT !.next = @ + 1]
      /\ pc' = IF recut'.next = Len(rows) THEN "idle" ELSE "recut"
  BY DEF RecutManifest, dbVars, NextIdx
<1>2. pc \in RecutPcs
  BY <1>1 DEF RecutPcs
<1>3. /\ recut.next \in Nat /\ recut.next < Len(rows) /\ Len(rows) \in Nat
      /\ \A i \in 1..recut.next : rows[i] = Cur(i)
  BY <1>2, Recutting
<1>4. /\ recut'.next = recut.next + 1 /\ recut'.first = recut.first
      /\ recut' \in [first : Nat, next : Int]
  BY <1>1 DEF PubInv, ProcType
<1>5. rows[recut.next + 1] = Cur(recut.next + 1)
  BY <1>1 DEF PubInv, RecutInv
<1>6. ASSUME NEW i \in 1..(recut.next + 1) PROVE rows[i] = Cur(i)
  <2>1. i \in 1..recut.next \/ i = recut.next + 1
    BY <1>3
  <2> QED
    BY <1>3, <1>5, <2>1
<1>7. \/ pc' = "idle" /\ recut.next + 1 = Len(rows)
      \/ pc' = "recut" /\ recut.next + 1 \in 0..(Len(rows) - 1)
  BY <1>1, <1>3, <1>4
<1> QED
  BY <1>1, <1>2, <1>4, <1>6, <1>7

LEMMA RecutManifestKeeps == ASSUME PubInv, RecutManifest PROVE PubInv'
<1>1. /\ UNCHANGED <<mirror, hole, era, head, final, rows, snapRows>>
      /\ UNCHANGED <<files, snapFiles, crashes>> /\ pc = "recutManifest" /\ pc \in RecutPcs
      /\ manifest' = ManifestOfDb /\ recut'.next = recut.next + 1 /\ recut'.first = recut.first
      /\ recut' \in [first : Nat, next : Int]
      /\ \/ pc' = "idle" /\ recut.next + 1 = Len(rows)
         \/ pc' = "recut" /\ recut.next + 1 \in 0..(Len(rows) - 1)
  BY RecutAdvances
<1>2. \A i \in 1..(recut.next + 1) : rows[i] = Cur(i)
  BY RecutAdvances
<1>3. recut.next \in Nat /\ recut.first \in Nat /\ recut.first <= recut.next /\ Len(rows) \in Nat
  BY <1>1, Recutting
<1>4. manifest'.epochs = rows
  BY <1>1, DbManifest
<1>5. MirrorType' /\ RowInv' /\ FileInv'
  BY <1>1, SameEpochs
<1>6. FilesType' /\ ProcType'
  BY <1>1, DbManifest DEF PubInv, FilesType, ProcType, LoopPcs, RecutPcs
<1>7. CutInv' /\ PublishInv'
  BY <1>1 DEF CutInv, PublishInv
<1>8. RecutInv'
  <2>1. \A i : Cur(i)' = Cur(i)
    BY <1>1, SameLines
  <2> QED
    BY <1>1, <1>2, <1>3, <2>1 DEF RecutInv, RecutPcs
<1>9. LinkInv'
  <2>1. CASE pc' = "idle"
    <3>1. \A i \in 1..Len(rows) : rows[i] = Cur(i)
      BY <1>1, <1>2, <2>1
    <3>2. \A i \in 1..Len(rows) : files[i - 1] = rows[i] /\ PrevOf(rows[i]) = HashOfRow(i - 1)
      BY <3>1, AllFresh
    <3> QED
      BY <1>1, <1>3, <1>4, <3>2 DEF LinkInv, HashOfRow
  <2>2. CASE pc' = "recut"
    BY <2>2 DEF LinkInv, Orderly, RecutPcs
  <2> QED
    BY <1>1, <2>1, <2>2
<1>10. KeptInv'
  <2>1. recut'.next # NoRecut.next
    BY <1>1, <1>3 DEF NoRecut
  <2> QED
    BY <2>1 DEF KeptInv, NoRecut
<1>11. AliveInv'
  <2> SUFFICES ASSUME crashes = 0 PROVE AliveInv'
    BY <1>1 DEF AliveInv
  <2>1. Going = {}
    BY <1>1 DEF Going
  <2>2. (\A s \in snapRows \ Going : Held(s)) /\ \A s \in snapRows : s.e < recut.first
    BY <1>1 DEF PubInv, AliveInv
  <2>3. \A s \in snapRows' \ Going' : Held(s)'
    BY <1>1, <2>1, <2>2 DEF Held
  <2>4. manifest'.snapshot = ManifestOfDb'.snapshot
    BY <1>1 DEF ManifestOfDb
  <2> QED
    BY <1>1, <2>2, <2>3, <2>4 DEF AliveInv
<1> QED
  BY <1>5, <1>6, <1>7, <1>8, <1>9, <1>10, <1>11 DEF PubInv

-----------------------------------------------------------------------------
LEMMA StutterKeeps == ASSUME PubInv, UNCHANGED pubVars PROVE PubInv'
<1>1. /\ UNCHANGED <<mirror, hole, era, head, final, rows, snapRows>>
      /\ UNCHANGED <<files, snapFiles, headFile, manifest, pc, cut, recut, crashes>>
  BY DEF pubVars, dbVars, feedVars, procVars
<1>2. MirrorType' /\ RowInv' /\ FileInv'
  BY <1>1, SameEpochs
<1>3. FilesType' /\ ProcType'
  BY <1>1 DEF PubInv, FilesType, ProcType
<1>4. (\A idx : EpochLines(idx)' = EpochLines(idx)) /\ \A i : Cur(i)' = Cur(i)
  BY <1>1, SameLines
<1>5. CutInv' /\ RecutInv'
  BY <1>1, <1>4 DEF PubInv, CutInv, RecutInv, Ready, NextIdx, EpochHash, HashOfRow, RecutHash
<1>6. LinkInv'
  BY <1>1 DEF PubInv, LinkInv, Orderly, HashOfRow
<1>7. PublishInv'
  <2>1. SnapshotOf(NextIdx - 1)' = SnapshotOf(NextIdx - 1) /\ NextIdx' = NextIdx
    BY <1>1 DEF SnapshotOf, NextIdx, Lines, Line
  <2> QED
    BY <1>1, <2>1 DEF PubInv, PublishInv
<1>8. KeptInv'
  BY <1>1 DEF PubInv, KeptInv, Held, Outnumbered, Newer
<1>9. AliveInv'
  BY <1>1 DEF PubInv, AliveInv, Held, Going, Oldest, Excess, Withdrawn, ManifestOfDb
<1> QED
  BY <1>2, <1>3, <1>5, <1>6, <1>7, <1>8, <1>9 DEF PubInv

LEMMA LoopKeeps == ASSUME PubInv, MainLoop PROVE PubInv'
<1>0. crashes \in Nat
  BY DEF PubInv, ProcType
<1>1. CASE \E a \in 0..MaxHeight, h \in 0..MaxHeight, f \in 0..MaxHeight : IngestCycle(a, h, f)
  BY <1>1, IngestKeeps
<1>2. CASE WriteHead
  <2>1. /\ UNCHANGED <<dbVars, files, snapFiles, manifest, recut>> /\ crashes' = crashes
        /\ pc \notin RecutPcs \cup {"prune", "pruneRow"} /\ pc' \in Calm
    BY <1>2 DEF WriteHead, Goto, RecutPcs, Calm, LoopPcs
  <2> QED
    BY <1>0, <2>1, PauseKeeps
<1>3. CASE HeadManifest
  <2>1. /\ manifest' = ManifestOfDb /\ UNCHANGED <<dbVars, files, snapFiles, recut, crashes>>
        /\ pc \notin RecutPcs \cup {"pruneRow"} /\ pc' \in Calm
    BY <1>3 DEF HeadManifest, RewriteManifest, Goto, RecutPcs, Calm, LoopPcs
  <2> QED
    BY <2>1, ManifestKeeps
<1>4. CASE CutDone
  <2>1. CASE cut
    <3>1. RewriteManifest("snapshot") /\ pc = "cut"
      BY <1>4, <2>1 DEF CutDone
    <3>2. /\ manifest' = ManifestOfDb /\ UNCHANGED <<dbVars, files, snapFiles, recut, crashes>>
          /\ pc \notin RecutPcs \cup {"pruneRow"} /\ pc' \in Calm
      BY <3>1 DEF RewriteManifest, Goto, RecutPcs, Calm, LoopPcs
    <3> QED
      BY <3>2, ManifestKeeps
  <2>2. CASE ~cut
    <3>1. pc = "cut" /\ Goto("snapshot") /\ UNCHANGED <<dbVars, feedVars>>
      BY <1>4, <2>2 DEF CutDone
    <3>2. /\ UNCHANGED <<dbVars, files, snapFiles, manifest, recut>> /\ crashes' = crashes
          /\ pc \notin RecutPcs \cup {"prune", "pruneRow"} /\ pc' \in Calm
      BY <3>1 DEF Goto, feedVars, RecutPcs, Calm, LoopPcs
    <3> QED
      BY <1>0, <3>2, PauseKeeps
  <2> QED
    BY <2>1, <2>2
<1>5. CASE Halt
  <2>1. /\ UNCHANGED <<dbVars, files, snapFiles, manifest, recut>> /\ crashes' = crashes
        /\ pc \notin RecutPcs \cup {"prune", "pruneRow"} /\ pc' \in Calm
    BY <1>5 DEF Halt, feedVars, RecutPcs, Calm, LoopPcs
  <2> QED
    BY <1>0, <2>1, PauseKeeps
<1>6. CASE SnapshotSkip
  <2>1. /\ UNCHANGED <<dbVars, files, snapFiles, manifest, recut>> /\ crashes' = crashes
        /\ pc \notin RecutPcs \cup {"prune", "pruneRow"} /\ pc' \in Calm
    BY <1>6 DEF SnapshotSkip, AfterSnapshot, Goto, feedVars, RecutPcs, Calm, LoopPcs
  <2> QED
    BY <1>0, <2>1, PauseKeeps
<1>7. CASE SnapshotManifest
  <2>1. /\ manifest' = ManifestOfDb /\ UNCHANGED <<dbVars, files, snapFiles, recut, crashes>>
        /\ pc \notin RecutPcs \cup {"pruneRow"} /\ pc' \in Calm
    BY <1>7 DEF SnapshotManifest, AfterSnapshot, RewriteManifest, Goto, RecutPcs, Calm, LoopPcs
  <2> QED
    BY <2>1, ManifestKeeps
<1>8. CASE TailManifest
  <2>1. /\ manifest' = ManifestOfDb /\ UNCHANGED <<dbVars, files, snapFiles, recut, crashes>>
        /\ pc \notin RecutPcs \cup {"pruneRow"} /\ pc' \in Calm
    BY <1>8 DEF TailManifest, RecutPcs, Calm, LoopPcs
  <2> QED
    BY <2>1, ManifestKeeps
<1> QED
  BY <1>1, <1>2, <1>3, <1>4, <1>5, <1>6, <1>7, <1>8, CutFileKeeps, CutRowKeeps, SnapshotFileKeeps,
     SnapshotRowKeeps, PruneFileKeeps, PruneRowKeeps DEF MainLoop

LEMMA CrashKeeps == ASSUME PubInv, Crash PROVE PubInv'
<1>1. crashes \in Nat
  BY DEF PubInv, ProcType
<1>2. /\ UNCHANGED <<dbVars, files, snapFiles, manifest, recut>> /\ pc' \in Calm
      /\ crashes' \in Nat /\ crashes' # 0 /\ crashes' = crashes + 1
  BY <1>1 DEF Crash, feedVars, Calm, LoopPcs
<1> QED
  BY <1>2, PauseKeeps

LEMMA OperatorKeeps == ASSUME PubInv, Operator PROVE PubInv'
BY RepairKeeps, RecutStartKeeps, WithdrawFileKeeps, WithdrawRowKeeps, RecutFileKeeps,
   RecutRowKeeps, RecutManifestKeeps DEF Operator

LEMMA PubInvariant == PublisherSpec => []PubInv
<1>1. Init => PubInv
  BY InitPub
<1>2. PubInv /\ [PublisherStep]_pubVars => PubInv'
  BY LoopKeeps, OperatorKeeps, CrashKeeps, StutterKeeps DEF PublisherStep
<1> QED
  BY <1>1, <1>2, PTL DEF PublisherSpec
-----------------------------------------------------------------------------
LEMMA OrderlyServable == ASSUME PubInv, Orderly PROVE EpochsServable
<1>1. /\ \A i \in 1..Len(rows) : files[i - 1] = rows[i] /\ PrevOf(rows[i]) = HashOfRow(i - 1)
      /\ Len(manifest.epochs) <= Len(rows)
      /\ \A i \in 1..Len(manifest.epochs) : manifest.epochs[i] = rows[i]
      /\ Len(rows) \in Nat /\ Len(manifest.epochs) \in Nat
  BY LenProperties DEF PubInv, LinkInv, FilesType
<1>2. ASSUME NEW i \in 1..Len(manifest.epochs)
      PROVE  /\ files[i - 1] = manifest.epochs[i]
             /\ PrevOf(manifest.epochs[i]) = IF i = 1 THEN <<>> ELSE manifest.epochs[i - 1]
  <2>1. i \in 1..Len(rows)
    BY <1>1
  <2>2. CASE i = 1
    BY <1>1, <2>1, <2>2 DEF HashOfRow
  <2>3. CASE i # 1
    <3>1. i - 1 \in 1..Len(manifest.epochs) /\ i - 1 # 0
      BY <1>1, <2>3
    <3> QED
      BY <1>1, <2>1, <2>3, <3>1 DEF HashOfRow
  <2> QED
    BY <2>2, <2>3
<1> QED
  BY <1>2 DEF EpochsServable

LEMMA HeldServable ==
  ASSUME PubInv, Orderly, NEW s \in manifest.snapshot, Held(s)
  PROVE  SnapshotServable(s)
<1>1. /\ s.e \in Nat /\ s.e < Len(manifest.epochs) /\ Len(manifest.epochs) \in Nat
      /\ \A i \in 1..Len(manifest.epochs) : manifest.epochs[i] = rows[i]
  BY LenProperties DEF PubInv, LinkInv, FilesType, Snapshots
<1>2. s.e + 1 \in 1..Len(manifest.epochs)
  BY <1>1
<1> QED
  BY <1>1, <1>2 DEF Held, SnapshotServable

(***************************************************************************)
(* As long as no re-cut was begun, what a client reads from the manifest   *)
(* between any two steps of the publisher, and after any number of deaths, *)
(* can be fetched and links to what it should.                             *)
(***************************************************************************)
THEOREM ManifestAlwaysServable == PublisherSpec => []AlwaysServable
<1>1. PubInv => AlwaysServable
  <2> SUFFICES ASSUME PubInv, recut = NoRecut
               PROVE  /\ EpochsServable
                      /\ \A s \in manifest.snapshot :
                           \/ SnapshotServable(s)
                           \/ Cardinality({t \in snapRows : t.e > s.e}) >= SnapshotKeep
    BY DEF AlwaysServable
  <2>1. Orderly
    BY Recutting DEF Orderly
  <2>2. /\ \A s \in snapRows : Held(s) \/ Outnumbered(s)
        /\ \A s \in manifest.snapshot : s \in snapRows \/ Outnumbered(s)
    BY DEF PubInv, KeptInv
  <2>3. \A s \in manifest.snapshot : Held(s) \/ Outnumbered(s)
    BY <2>2
  <2> QED
    BY <2>1, <2>3, OrderlyServable, HeldServable DEF Outnumbered, Newer
<1> QED
  BY <1>1, PubInvariant, PTL

(***************************************************************************)
(* Whatever cuts, snapshots, repairs and re-cuts came before, a publisher  *)
(* that never died leaves a feed that can be served whenever it rests.     *)
(***************************************************************************)
THEOREM RestingFeedServable == PublisherSpec => []ServableAtRest
<1>1. PubInv => ServableAtRest
  <2> SUFFICES ASSUME PubInv, pc = "idle", crashes = 0 PROVE FeedServable
    BY DEF ServableAtRest
  <2>1. Orderly
    BY DEF Orderly, RecutPcs
  <2>2. Going = {}
    BY DEF Going
  <2>3. (\A s \in snapRows \ Going : Held(s)) /\ manifest.snapshot = ManifestOfDb.snapshot
    BY DEF PubInv, AliveInv, RecutPcs
  <2>4. \A s \in manifest.snapshot : Held(s)
    BY <2>2, <2>3, DbManifest
  <2> QED
    BY <2>1, <2>4, OrderlyServable, HeldServable DEF FeedServable
<1> QED
  BY <1>1, PubInvariant, PTL

(***************************************************************************)
(* A re-cut that ends, also one that finishes what an earlier one died in, *)
(* leaves every published epoch as it would be cut from the repaired       *)
(* mirror, every file as its row says, and all of them in the manifest.    *)
(***************************************************************************)
THEOREM RecutEndsFresh == PublisherSpec => RecutLands
<1> DEFINE Lands == RecutManifest /\ pc' = "idle" =>
                      /\ \A idx \in 0..(NextIdx - 1) : ~Stale(idx)
                      /\ manifest'.epochs = rows
                      /\ EpochVerify
<1>1. PubInv /\ [PublisherStep]_pubVars => [Lands]_pubVars
  <2> SUFFICES ASSUME PubInv, RecutManifest, pc' = "idle"
               PROVE  /\ \A idx \in 0..(NextIdx - 1) : ~Stale(idx)
                      /\ manifest'.epochs = rows
                      /\ EpochVerify
    OBVIOUS
  <2>1. \A i \in 1..Len(rows) : rows[i] = Cur(i)
    <3>1. /\ \A i \in 1..(recut.next + 1) : rows[i] = Cur(i)
          /\ recut.next + 1 = Len(rows)
      BY RecutAdvances
    <3> QED
      BY <3>1
  <2>2. \A i \in 1..Len(rows) :
          /\ files[i - 1] = rows[i]
          /\ HashOfRow(i - 1) = Cur(i - 1) /\ PrevOf(rows[i]) = HashOfRow(i - 1)
          /\ ~Stale(i - 1)
    BY <2>1, AllFresh
  <2>3. Len(rows) \in Nat /\ NextIdx = Len(rows)
    BY LenProperties DEF PubInv, FilesType, NextIdx
  <2>4. ASSUME NEW idx \in 0..(NextIdx - 1) PROVE ~Stale(idx)
    <3>1. idx + 1 \in 1..Len(rows) /\ (idx + 1) - 1 = idx
      BY <2>3
    <3> QED
      BY <2>2, <3>1
  <2>5. manifest'.epochs = rows
    BY RecutAdvances, DbManifest
  <2>6. ASSUME NEW i \in 1..Len(rows)
        PROVE  PrevOf(files[i - 1]) = IF i = 1 THEN <<>> ELSE files[i - 2]
    <3>1. CASE i = 1
      BY <2>2, <3>1 DEF HashOfRow
    <3>2. CASE i # 1
      <4>1. i - 1 \in 1..Len(rows) /\ i - 1 # 0 /\ (i - 1) - 1 = i - 2
        BY <2>3, <3>2
      <4>2. files[i - 2] = rows[i - 1] /\ HashOfRow(i - 1) = rows[i - 1]
        BY <2>2, <4>1 DEF HashOfRow
      <4> QED
        BY <2>2, <3>2, <4>2
    <3> QED
      BY <3>1, <3>2
  <2> QED
    BY <2>2, <2>4, <2>5, <2>6 DEF EpochVerify
<1> QED
  BY <1>1, PubInvariant, PTL DEF PublisherSpec, RecutLands
-----------------------------------------------------------------------------
(***************************************************************************)
(* The consumer.                                                           *)
(***************************************************************************)
(***************************************************************************)
(* What a line says of a block: its era, and that it is complete when the  *)
(* scans leave no holes.                                                   *)
(***************************************************************************)
Same(line, e) == line.era = e /\ (Holes = {} => line.whole = TRUE)
(***************************************************************************)
(* Whatever was published below the tail, in whichever file or manifest it *)
(* still is, says what the mirror says: final blocks are never replaced.   *)
(***************************************************************************)
RightHash(h) ==
  /\ h \in Hashes /\ Len(h) <= Len(rows)
  /\ \A k \in 1..Len(h) : \A n \in Heights : Same(h[k][n], EpochLines(k - 1)[n].era)
RightSnap(s) ==
  /\ s \in Snapshots /\ RightHash(s.hash) /\ Len(s.hash) = s.e + 1
  /\ \A n \in Heights : Same(s.slots[n], IF n <= EpochEnd(s.e) THEN mirror[n] ELSE 0)
RightManifest(m) ==
  /\ m.epochs \in Seq(Hashes)
  /\ \A i \in 1..Len(m.epochs) : RightHash(m.epochs[i]) /\ Len(m.epochs[i]) = i
  /\ \A s \in m.snapshot : RightSnap(s)
(***************************************************************************)
(* A head file, also one long replaced, is a stretch of the mirror it was  *)
(* written from.                                                           *)
(***************************************************************************)
RightHead(f) ==
  /\ f.from \in Nat /\ f.num \in Nat /\ f.full \in LineMaps
  /\ f.lines = [n \in Heights |-> IF f.from <= n /\ n <= f.num THEN f.full[n] ELSE NoLine]
  /\ \A n \in Heights : /\ Same(f.full[n], f.full[n].era)
                        /\ f.full[n].era # 0 <=> n <= f.num
(***************************************************************************)
(* The head file f agrees with the mirror at height n.                     *)
(***************************************************************************)
Shows(f, n) == n <= f.num /\ f.full[n].era = mirror[n]

(***************************************************************************)
(* The publisher: what it published is right, the head file agrees with    *)
(* the mirror below the tail at any time, and everywhere but between a new *)
(* head and its rewrite.                                                   *)
(***************************************************************************)
ChainPart ==
  /\ crashes = 0 /\ era # 0
  /\ Holes = {} => hole = {}
  /\ \A n \in Heights : (mirror[n] # 0 <=> n <= head.num) /\ mirror[n] <= era
  /\ head.num # 0 => head.era = mirror[head.num]
RowsPart ==
  /\ \A i \in 1..Len(rows) : RightHash(rows[i]) /\ Len(rows[i]) = i
  /\ \A s \in snapRows : RightSnap(s)
  /\ RightManifest(manifest)
HeadPart ==
  /\ RightHead(headFile) /\ headFile.from <= TailFrom
  /\ \A n \in Heights : n < TailFrom => Shows(headFile, n)
  /\ pc # "head" => headFile.num = head.num /\ \A n \in Heights : n <= head.num => Shows(headFile, n)
PublisherPart == ChainPart /\ RowsPart /\ HeadPart

(***************************************************************************)
(* The consumer: its store is the mirror up to the last applied epoch and  *)
(* the head file of its etag above, where every line is a block row.       *)
(***************************************************************************)
TailPart ==
  /\ \A f, g \in etag : f = g
  /\ \A f \in etag : RightHead(f)
  /\ step = "synced" => etag # {} /\ \A f \in etag : \A n \in Heights : n <= LastEpochTo => Shows(f, n)
StorePart ==
  /\ store \in LineMaps /\ blockRows \subseteq Heights /\ gen \in Nat
  /\ \A n \in Heights : n <= LastEpochTo => Same(store[n], mirror[n])
  /\ \A n \in Heights : n > LastEpochTo /\ etag = {} => Same(store[n], 0)
  /\ \A n \in Heights : n > LastEpochTo => \A f \in etag :
        Same(store[n], IF n <= f.num THEN f.full[n].era ELSE 0)
  /\ \A n \in Heights : n > LastEpochTo /\ store[n].era # 0 => n \in blockRows
SyncPart ==
  /\ RightHash(applied) /\ RightManifest(named)
  /\ step = "snapshot" => applied = NoFile /\ blockRows = {}
ConsumerPart == TailPart /\ StorePart /\ SyncPart
FeedInv == PublisherPart /\ ConsumerPart
-----------------------------------------------------------------------------
(***************************************************************************)
(* The arithmetic of epochs, final height and head.                        *)
(***************************************************************************)
LEMMA Bounds ==
  ASSUME PubInv
  PROVE  /\ EpochSize \in Nat /\ EpochSize > 1 /\ MaxHeight \in Nat
         /\ Len(rows) \in Nat /\ TailFrom \in Nat /\ TailFrom <= final + 1
         /\ final \in Nat /\ head.num \in Nat /\ final <= head.num /\ head.num <= MaxHeight
<1>1. EpochSize \in Nat /\ EpochSize > 1 /\ MaxHeight \in Nat
  BY PublicationAssumption
<1>2. Len(rows) \in Nat
  BY LenProperties DEF PubInv, FilesType
<1>3. final \in Nat /\ head.num \in Nat /\ final <= head.num /\ head.num <= MaxHeight
  BY <1>1 DEF PubInv, MirrorType
<1>4. Len(rows) * EpochSize \in Nat
  BY <1>1, <1>2, Times
<1> QED
  BY <1>1, <1>2, <1>3, <1>4 DEF PubInv, FilesType, TailFrom, NextIdx

LEMMA EpochBelow ==
  ASSUME PubInv, NEW k \in Nat, k < Len(rows)
  PROVE  /\ EpochEnd(k) \in Nat /\ EpochEnd(k) < TailFrom
         /\ k * EpochSize \in Nat /\ EpochEnd(k) = k * EpochSize + EpochSize - 1
<1>1. EpochSize \in Nat /\ EpochSize > 1 /\ Len(rows) \in Nat
  BY Bounds
<1>2. k * EpochSize \in Nat /\ Len(rows) * EpochSize \in Nat
      /\ k * EpochSize + EpochSize <= Len(rows) * EpochSize
  BY <1>1, Times
<1> QED
  BY <1>1, <1>2 DEF EpochEnd, TailFrom, NextIdx

(***************************************************************************)
(* The era an epoch line names, now and after a step.                      *)
(***************************************************************************)
LEMMA EraIs ==
  ASSUME NEW idx, NEW n \in Heights
  PROVE  EpochLines(idx)[n].era = IF idx * EpochSize <= n /\ n <= EpochEnd(idx) THEN mirror[n] ELSE 0
<1> DEFINE in == idx * EpochSize <= n /\ n <= EpochEnd(idx)
<1>1. EpochLines(idx)[n] = IF in /\ mirror[n] # 0 THEN Line(n) ELSE NoLine
  BY LineIs, Zenon
<1>2. Line(n).era = mirror[n] /\ NoLine.era = 0
  BY DEF Line, NoLine
<1> HIDE DEF in
<1>3. EpochLines(idx)[n].era = IF in THEN mirror[n] ELSE 0
  BY <1>1, <1>2
<1> QED
  BY <1>3, Zenon DEF in

LEMMA EraNext ==
  ASSUME NEW idx, NEW n \in Heights
  PROVE  (EpochLines(idx)[n].era)' =
           IF idx * EpochSize <= n /\ n <= EpochEnd(idx) THEN mirror'[n] ELSE 0
<1> DEFINE in == idx * EpochSize <= n /\ n <= EpochEnd(idx)
           new == [era |-> mirror'[n], whole |-> n \notin hole']
<1>1. EpochLines(idx)'[n] = IF in /\ mirror'[n] # 0 THEN new ELSE NoLine
  BY LineNext, Zenon
<1>2. new.era = mirror'[n] /\ NoLine.era = 0
  BY DEF NoLine
<1> HIDE DEF in, new
<1>3. (EpochLines(idx)[n].era)' = IF in THEN mirror'[n] ELSE 0
  BY <1>1, <1>2
<1> QED
  BY <1>3, Zenon DEF in

(***************************************************************************)
(* What a step of the publisher must leave alone for the consumer's part   *)
(* of the invariant to stand: the mirror below the tail.                   *)
(***************************************************************************)
Stable ==
  /\ \A n \in Heights : n < TailFrom => mirror'[n] = mirror[n]
  /\ Len(rows') \in Nat /\ Len(rows) <= Len(rows')

LEMMA HashStays ==
  ASSUME PubInv, Stable
  PROVE  \A h : RightHash(h) => RightHash(h)'
<1> SUFFICES ASSUME NEW h, RightHash(h) PROVE RightHash(h)'
  OBVIOUS
<1>1. Len(h) \in Nat /\ Len(h) <= Len(rows) /\ Len(rows) \in Nat
  BY Bounds, LenProperties DEF RightHash, Hashes
<1>2. ASSUME NEW k \in 1..Len(h), NEW n \in Heights
      PROVE  Same(h[k][n], (EpochLines(k - 1)[n].era)')
  <2>1. k - 1 \in Nat /\ k - 1 < Len(rows)
    BY <1>1
  <2>2. EpochEnd(k - 1) \in Nat /\ EpochEnd(k - 1) < TailFrom /\ TailFrom \in Nat
    BY <2>1, EpochBelow, Bounds
  <2>3. n <= EpochEnd(k - 1) => mirror'[n] = mirror[n]
    BY <2>2 DEF Stable, Heights
  <2>4. (EpochLines(k - 1)[n].era)' = EpochLines(k - 1)[n].era
    BY <2>3, EraIs, EraNext
  <2> QED
    BY <2>4 DEF RightHash
<1>3. \A k \in 1..Len(h) : \A n \in Heights : Same(h[k][n], EpochLines(k - 1)[n].era)'
  BY <1>2 DEF Same
<1>4. h \in Hashes /\ Len(h) <= Len(rows')
  BY <1>1 DEF RightHash, Stable
<1> QED
  BY <1>3, <1>4 DEF RightHash

LEMMA SnapStays ==
  ASSUME PubInv, Stable
  PROVE  \A s : RightSnap(s) => RightSnap(s)'
<1> SUFFICES ASSUME NEW s, RightSnap(s) PROVE RightSnap(s)'
  OBVIOUS
<1>1. RightHash(s.hash)'
  BY HashStays DEF RightSnap
<1>2. s.e \in Nat /\ s.e < Len(rows)
  BY Bounds DEF RightSnap, RightHash, Snapshots
<1>3. EpochEnd(s.e) \in Nat /\ EpochEnd(s.e) < TailFrom /\ TailFrom \in Nat
  BY <1>2, EpochBelow, Bounds
<1>4. \A n \in Heights : n <= EpochEnd(s.e) => mirror'[n] = mirror[n]
  BY <1>3 DEF Stable, Heights
<1> QED
  BY <1>1, <1>4 DEF RightSnap, Same

LEMMA ManifestStays ==
  ASSUME PubInv, Stable
  PROVE  \A m : RightManifest(m) => RightManifest(m)'
BY HashStays, SnapStays DEF RightManifest

(***************************************************************************)
(* The last applied epoch lies below the tail.                             *)
(***************************************************************************)
LEMMA FloorBelow ==
  ASSUME PubInv, RightHash(applied)
  PROVE  /\ Len(applied) \in Nat /\ Len(applied) <= Len(rows) /\ LastEpochTo \in Nat
         /\ \A n \in Heights : n <= LastEpochTo => n < TailFrom
         /\ \A n \in Heights : n <= LastEpochTo <=> n < Len(applied) * EpochSize
<1>1. Len(applied) \in Nat /\ Len(applied) <= Len(rows) /\ (applied = NoFile <=> Len(applied) = 0)
  BY EmptySeq, LenProperties DEF RightHash, Hashes, NoFile
<1>2. CASE applied = NoFile
  <2>1. Len(applied) * EpochSize = 0
    BY <1>1, <1>2, Bounds
  <2>2. LastEpochTo = 0
    BY <1>2 DEF LastEpochTo
  <2> QED
    BY <1>1, <2>1, <2>2 DEF Heights
<1>3. CASE applied # NoFile
  <2>1. Len(applied) - 1 \in Nat /\ Len(applied) - 1 < Len(rows)
    BY <1>1, <1>3, Bounds
  <2>2. /\ EpochEnd(Len(applied) - 1) \in Nat /\ EpochEnd(Len(applied) - 1) < TailFrom
        /\ (Len(applied) - 1) * EpochSize \in Nat
        /\ EpochEnd(Len(applied) - 1) = (Len(applied) - 1) * EpochSize + EpochSize - 1
    BY <2>1, EpochBelow
  <2>3. Len(applied) * EpochSize = (Len(applied) - 1) * EpochSize + EpochSize
    BY <1>1, Bounds
  <2>4. LastEpochTo = EpochEnd(Len(applied) - 1)
    BY <1>3 DEF LastEpochTo
  <2>5. PICK m \in Nat, t \in Nat : m = Len(applied) * EpochSize /\ t = TailFrom
    BY <1>1, Times, Bounds
  <2>6. LastEpochTo \in Nat /\ LastEpochTo = m - 1 /\ LastEpochTo < t
    BY <2>2, <2>3, <2>4, <2>5, Bounds
  <2>7. /\ \A n \in Heights : n <= LastEpochTo => n < t
        /\ \A n \in Heights : n <= LastEpochTo <=> n < m
    BY <2>6 DEF Heights
  <2> QED
    BY <1>1, <2>5, <2>6, <2>7
<1> QED
  BY <1>2, <1>3

LEMMA ConsumerStays ==
  ASSUME PubInv, ConsumerPart, Stable, UNCHANGED consumerVars
  PROVE  ConsumerPart'
<1>1. UNCHANGED <<store, blockRows, applied, etag, gen, step, named>>
  BY DEF consumerVars, storeVars
<1>2. TailPart /\ StorePart /\ SyncPart /\ RightHash(applied) /\ RightManifest(named)
  BY DEF ConsumerPart, SyncPart
<1>3. LastEpochTo' = LastEpochTo
  BY <1>1 DEF LastEpochTo
<1>4. \A n \in Heights : n <= LastEpochTo => mirror'[n] = mirror[n]
  BY <1>2, FloorBelow DEF Stable
<1>5. SyncPart'
  <2>1. RightHash(applied)'
    BY <1>1, <1>2, HashStays
  <2>2. RightManifest(named)'
    BY <1>1, <1>2, ManifestStays
  <2> QED
    BY <1>1, <1>2, <2>1, <2>2 DEF SyncPart
<1>6. TailPart'
  <2>1. \A f : RightHead(f)' = RightHead(f)
    BY DEF RightHead, Same
  <2>2. \A f : \A n \in Heights : n <= LastEpochTo => Shows(f, n)' = Shows(f, n)
    BY <1>4 DEF Shows
  <2> QED
    BY <1>1, <1>2, <1>3, <2>1, <2>2 DEF TailPart
<1>7. StorePart'
  BY <1>1, <1>2, <1>3, <1>4 DEF StorePart, Same
<1> QED
  BY <1>5, <1>6, <1>7 DEF ConsumerPart

(***************************************************************************)
(* An epoch that is cut or re-cut now is right.                            *)
(***************************************************************************)
LEMMA NewHashRight ==
  ASSUME PubInv, ChainPart, RowsPart, NEW i \in 0..Len(rows), NEW h, h = EpochHash(i, HashOfRow(i))
  PROVE  /\ h \in Hashes /\ Len(h) = i + 1
         /\ \A k \in 1..Len(h) : \A n \in Heights : Same(h[k][n], EpochLines(k - 1)[n].era)
<1>1. /\ h \in Hashes /\ Len(h) = i + 1 /\ h[i + 1] = EpochLines(i)
      /\ \A k \in 1..i : h[k] = HashOfRow(i)[k]
  BY NextHash
<1>2. Len(rows) \in Nat /\ i \in Nat
  BY Bounds
<1>3. ASSUME NEW k \in 1..i PROVE \A n \in Heights : Same(h[k][n], EpochLines(k - 1)[n].era)
  <2>1. i \in 1..Len(rows) /\ i # 0
    BY <1>2
  <2>2. HashOfRow(i) = rows[i]
    BY <2>1 DEF HashOfRow
  <2>3. RightHash(rows[i]) /\ Len(rows[i]) = i
    BY <2>1 DEF RowsPart
  <2> QED
    BY <1>1, <2>2, <2>3 DEF RightHash
<1>4. ASSUME NEW n \in Heights PROVE Same(h[i + 1][n], EpochLines(i)[n].era)
  <2>1. EpochLines(i)[n] = Line(n) \/ EpochLines(i)[n] = NoLine
    BY LineIs
  <2>2. Holes = {} => Line(n).whole = TRUE /\ NoLine.whole = TRUE
    BY DEF Line, NoLine, ChainPart
  <2> QED
    BY <1>1, <2>1, <2>2 DEF Same
<1>5. ASSUME NEW k \in 1..Len(h), NEW n \in Heights PROVE Same(h[k][n], EpochLines(k - 1)[n].era)
  <2>1. k \in 1..i \/ (k = i + 1 /\ k - 1 = i)
    BY <1>1, <1>2
  <2> QED
    BY <1>3, <1>4, <2>1
<1> QED
  BY <1>1, <1>5

LEMMA FullIs ==
  ASSUME PubInv, ChainPart, NEW from, NEW to, NEW n \in Heights
  PROVE  LET l == Lines(from, to)[n] IN
         /\ from <= n /\ n <= to => Same(l, mirror[n])
         /\ ~(from <= n /\ n <= to) => l = NoLine /\ Same(l, 0)
<1> DEFINE l == Lines(from, to)[n]
           in == from <= n /\ n <= to
<1>1. l = IF in /\ mirror[n] # 0 THEN Line(n) ELSE NoLine
  BY Zenon DEF Lines
<1>2. Line(n).era = mirror[n] /\ NoLine.era = 0
  BY DEF Line, NoLine
<1>3. Holes = {} => Line(n).whole = TRUE /\ NoLine.whole = TRUE
  BY DEF Line, NoLine, ChainPart
<1> HIDE DEF l, in
<1>4. (in => Same(l, mirror[n])) /\ (~in => l = NoLine /\ Same(l, 0))
  BY <1>1, <1>2, <1>3 DEF Same
<1> QED
  BY <1>4, Zenon DEF l, in

(***************************************************************************)
(* Steps of the publisher that touch neither the mirror, nor the rows, nor *)
(* the head file.                                                          *)
(***************************************************************************)
LEMMA QuietPublisher ==
  ASSUME PubInv, PublisherPart, UNCHANGED <<mirror, era, head, rows, headFile, crashes>>,
         hole' \subseteq hole, snapRows' \subseteq snapRows, manifest' \in {manifest, ManifestOfDb},
         pc # "head"
  PROVE  PublisherPart' /\ Stable
<1>1. Stable
  BY Bounds DEF Stable
<1>2. ChainPart'
  BY DEF PublisherPart, ChainPart
<1>3. RightManifest(ManifestOfDb)
  <2>1. ManifestOfDb.epochs = rows /\ ManifestOfDb.snapshot \subseteq snapRows /\ rows \in Seq(Hashes)
    BY DbManifest DEF PubInv, FilesType
  <2> QED
    BY <2>1 DEF RightManifest, PublisherPart, RowsPart
<1>4. RightManifest(manifest')
  BY <1>3 DEF PublisherPart, RowsPart
<1>5. RightManifest(manifest)'
  BY <1>1, <1>4, ManifestStays
<1>6. \A i \in 1..Len(rows') : RightHash(rows[i])' /\ Len(rows'[i]) = i
  BY <1>1, HashStays DEF PublisherPart, RowsPart
<1>7. \A s \in snapRows' : RightSnap(s)'
  BY <1>1, SnapStays DEF PublisherPart, RowsPart
<1>8. HeadPart'
  BY DEF PublisherPart, HeadPart, RightHead, Same, Shows, TailFrom, NextIdx
<1> QED
  BY <1>1, <1>2, <1>5, <1>6, <1>7, <1>8 DEF PublisherPart, RowsPart

LEMMA RowsStay ==
  ASSUME PubInv, RowsPart, Stable, UNCHANGED <<rows, snapRows, manifest>>
  PROVE  RowsPart'
<1>1. \A i \in 1..Len(rows') : RightHash(rows[i])' /\ Len(rows'[i]) = i
  BY HashStays DEF RowsPart
<1>2. \A s \in snapRows' : RightSnap(s)'
  BY SnapStays DEF RowsPart
<1>3. RightManifest(manifest)'
  BY ManifestStays DEF RowsPart
<1> QED
  BY <1>1, <1>2, <1>3 DEF RowsPart

(***************************************************************************)
(* A cycle replaces nothing final, and leaves the head as it was only if   *)
(* it leaves the mirror as it was.                                         *)
(***************************************************************************)
LEMMA IngestFeed ==
  ASSUME PubInv, PublisherPart, NEW a \in 0..MaxHeight, NEW h \in 0..MaxHeight,
         NEW f \in 0..MaxHeight, IngestCycle(a, h, f)
  PROVE  PublisherPart' /\ Stable
<1>1. /\ MaxHeight \in Nat /\ final \in Nat /\ head.num \in Nat /\ final <= head.num
      /\ TailFrom \in Nat /\ TailFrom <= final + 1 /\ Len(rows) \in Nat
  BY Bounds
<1>2. /\ UNCHANGED <<rows, snapRows, headFile, manifest, crashes>> /\ pc = "idle"
      /\ a <= head.num /\ a <= h /\ (a < head.num => final <= a)
      /\ era' = (IF a < head.num THEN era + 1 ELSE era)
      /\ mirror' = [n \in Heights |-> IF n <= a THEN mirror[n] ELSE IF n <= h THEN era' ELSE 0]
      /\ head' = [num |-> h, era |-> IF h = 0 THEN 0 ELSE mirror'[h]]
      /\ hole' = {n \in hole : n <= a} \cup {n \in Holes : a < n /\ n <= h}
      /\ pc' = (IF head' # head THEN "head" ELSE "cut")
  BY DEF IngestCycle, Goto, feedVars
<1>3. /\ ChainPart /\ RowsPart /\ HeadPart /\ era \in Nat /\ era # 0
      /\ mirror \in [Heights -> Nat] /\ head \in [num : 0..MaxHeight, era : Nat]
  BY DEF PublisherPart, ChainPart, PubInv, MirrorType
<1>4. era' \in Nat /\ era' # 0 /\ era <= era'
  BY <1>2, <1>3
<1>5. ASSUME NEW n \in Heights
      PROVE  /\ n <= a => mirror'[n] = mirror[n]
             /\ a < n /\ n <= h => mirror'[n] = era'
             /\ h < n => mirror'[n] = 0
  BY <1>1, <1>2 DEF Heights
<1>6. Stable
  <2>1. \A n \in Heights : n < TailFrom => n <= a
    BY <1>1, <1>2 DEF Heights
  <2> QED
    BY <1>1, <1>2, <1>5, <2>1 DEF Stable
<1>7. RowsPart'
  BY <1>2, <1>3, <1>6, RowsStay
<1>8. head'.num = h /\ (h # 0 => head'.era = mirror'[h])
  BY <1>2
<1>9. ChainPart'
  <2>1. \A n \in Heights : (mirror'[n] # 0 <=> n <= h) /\ mirror'[n] <= era'
    <3> SUFFICES ASSUME NEW n \in Heights
                 PROVE  (mirror'[n] # 0 <=> n <= h) /\ mirror'[n] <= era'
      OBVIOUS
    <3>1. (mirror[n] # 0 <=> n <= head.num) /\ mirror[n] <= era /\ mirror[n] \in Nat
      BY <1>3 DEF ChainPart
    <3>2. n \in Nat /\ a \in Nat /\ h \in Nat /\ a <= h /\ a <= head.num
      BY <1>1, <1>2 DEF Heights
    <3>3. CASE n <= a
      <4>1. mirror'[n] = mirror[n] /\ n <= h /\ n <= head.num
        BY <1>1, <1>5, <3>2, <3>3
      <4> QED
        BY <1>3, <1>4, <3>1, <4>1
    <3>4. CASE a < n /\ n <= h
      BY <1>4, <1>5, <3>4
    <3>5. CASE h < n
      BY <1>4, <1>5, <3>2, <3>5
    <3> QED
      BY <3>2, <3>3, <3>4, <3>5
  <2>2. Holes = {} => hole' = {}
    BY <1>2, <1>3 DEF ChainPart
  <2>3. crashes' = 0
    BY <1>2, <1>3 DEF ChainPart
  <2> QED
    BY <1>4, <1>8, <2>1, <2>2, <2>3 DEF ChainPart
<1>10. head' = head => \A n \in Heights : n <= head.num => mirror'[n] = mirror[n]
  <2> SUFFICES ASSUME head' = head PROVE \A n \in Heights : n <= head.num => mirror'[n] = mirror[n]
    OBVIOUS
  <2>1. h = head.num
    BY <1>8
  <2>2. ~(a < head.num)
    <3> SUFFICES ASSUME a < head.num PROVE FALSE
      OBVIOUS
    <3>1. h # 0 /\ h \in Heights
      BY <1>1, <2>1 DEF Heights
    <3>2. mirror'[h] = era + 1
      BY <1>2, <1>5, <2>1, <3>1
    <3>3. head.era = mirror[h] /\ mirror[h] <= era /\ mirror[h] \in Nat
      BY <1>3, <2>1, <3>1 DEF ChainPart
    <3> QED
      BY <1>3, <1>8, <3>1, <3>2, <3>3
  <2> QED
    BY <1>1, <1>2, <1>5, <2>2 DEF Heights
<1>11. HeadPart'
  <2>1. RightHead(headFile)' /\ headFile'.from <= TailFrom' /\ TailFrom' = TailFrom
    BY <1>2, <1>3 DEF HeadPart, RightHead, Same, TailFrom, NextIdx
  <2>2. \A n \in Heights : n < TailFrom' => Shows(headFile, n)'
    BY <1>2, <1>3, <1>6, <2>1 DEF HeadPart, Shows, Stable
  <2>3. pc' # "head" => headFile'.num = head'.num
                        /\ \A n \in Heights : n <= head'.num => Shows(headFile, n)'
    BY <1>2, <1>3, <1>10 DEF HeadPart, Shows
  <2> QED
    BY <2>1, <2>2, <2>3 DEF HeadPart
<1> QED
  BY <1>6, <1>7, <1>9, <1>11 DEF PublisherPart

LEMMA WriteHeadFeed ==
  ASSUME PubInv, PublisherPart, WriteHead
  PROVE  PublisherPart' /\ Stable
<1>1. /\ UNCHANGED <<mirror, hole, era, head, final, rows, snapRows, manifest, crashes>>
      /\ headFile' = HeadOfDb
  BY DEF WriteHead, Goto, dbVars
<1>2. ChainPart /\ RowsPart /\ MirrorType
  BY DEF PublisherPart, PubInv
<1>3. Stable
  BY <1>1, Bounds DEF Stable
<1>4. RowsPart'
  BY <1>1, <1>2, <1>3, RowsStay
<1>5. ChainPart'
  BY <1>1, <1>2 DEF ChainPart
<1>6. TailFrom' = TailFrom /\ TailFrom \in Nat /\ head.num \in Nat /\ final <= head.num
      /\ TailFrom <= final + 1 /\ final \in Nat
  BY <1>1, Bounds DEF TailFrom, NextIdx
<1> DEFINE F == Lines(0, head.num)
           L == Lines(TailFrom, head.num)
<1>7. HeadOfDb = [from |-> TailFrom, num |-> head.num, lines |-> L, full |-> F]
  BY DEF HeadOfDb
<1>8. F \in LineMaps /\ L = [n \in Heights |-> L[n]]
  BY <1>2, LinesType DEF Lines
<1>9. ASSUME NEW n \in Heights
      PROVE  /\ n <= head.num => F[n].era = mirror[n] /\ Same(F[n], mirror[n])
             /\ ~(n <= head.num) => F[n].era = 0 /\ Same(F[n], 0)
  <2>1. 0 <= n
    BY DEF Heights
  <2> HIDE DEF F
  <2>2. /\ 0 <= n /\ n <= head.num => Same(F[n], mirror[n])
        /\ ~(0 <= n /\ n <= head.num) => F[n] = NoLine /\ Same(F[n], 0)
    BY <1>2, FullIs, Zenon DEF F
  <2> QED
    BY <2>1, <2>2 DEF Same
<1>10. ASSUME NEW n \in Heights
       PROVE  L[n] = IF TailFrom <= n /\ n <= head.num THEN F[n] ELSE NoLine
  <2> DEFINE in == TailFrom <= n /\ n <= head.num
             in0 == 0 <= n /\ n <= head.num
  <2>1. L[n] = IF in /\ mirror[n] # 0 THEN Line(n) ELSE NoLine
    BY Zenon DEF Lines
  <2>2. F[n] = IF in0 /\ mirror[n] # 0 THEN Line(n) ELSE NoLine
    BY Zenon DEF Lines
  <2>3. in => in0
    BY <1>6 DEF Heights
  <2> HIDE DEF in, in0, F, L
  <2>4. L[n] = IF in THEN F[n] ELSE NoLine
    BY <2>1, <2>2, <2>3
  <2> QED
    BY <2>4, Zenon DEF in
<1> HIDE DEF F, L
<1>11. L = [n \in Heights |-> IF TailFrom <= n /\ n <= head.num THEN F[n] ELSE NoLine]
  BY <1>8, <1>10, Zenon
<1>12. ASSUME NEW n \in Heights PROVE Same(F[n], F[n].era) /\ (F[n].era # 0 <=> n <= head.num)
  BY <1>2, <1>9 DEF ChainPart
<1>13. headFile'.from = TailFrom /\ headFile'.num = head.num /\ headFile'.full = F /\ headFile'.lines = L
  BY <1>1, <1>7
<1>14. RightHead(headFile)'
  <2>1. RightHead(headFile')
    BY <1>6, <1>8, <1>11, <1>12, <1>13 DEF RightHead
  <2> QED
    BY <2>1 DEF RightHead, Same
<1>15. \A n \in Heights : n <= head'.num => Shows(headFile, n)'
  BY <1>1, <1>9, <1>13 DEF Shows
<1>16. \A n \in Heights : n < TailFrom => n <= head.num
  BY <1>6 DEF Heights
<1>17. HeadPart'
  BY <1>1, <1>6, <1>13, <1>14, <1>15, <1>16 DEF HeadPart
<1> QED
  BY <1>3, <1>4, <1>5, <1>17 DEF PublisherPart

LEMMA NewHashStays ==
  ASSUME PubInv, ChainPart, RowsPart, mirror' = mirror, Len(rows') \in Nat,
         NEW i \in 0..Len(rows), i < Len(rows'), NEW h, h = EpochHash(i, HashOfRow(i))
  PROVE  RightHash(h)' /\ Len(h) = i + 1
<1>1. /\ h \in Hashes /\ Len(h) = i + 1
      /\ \A k \in 1..Len(h) : \A n \in Heights : Same(h[k][n], EpochLines(k - 1)[n].era)
  BY NewHashRight
<1>2. \A n \in Heights : \A k : (EpochLines(k - 1)[n].era)' = EpochLines(k - 1)[n].era
  <2> TAKE n \in Heights
  <2> TAKE k
  <2>0. PICK j : j = k - 1
    OBVIOUS
  <2>1. (EpochLines(j)[n].era)' = IF j * EpochSize <= n /\ n <= EpochEnd(j) THEN mirror'[n] ELSE 0
    BY EraNext
  <2>2. EpochLines(j)[n].era = IF j * EpochSize <= n /\ n <= EpochEnd(j) THEN mirror[n] ELSE 0
    BY EraIs
  <2>3. (EpochLines(j)[n].era)' = EpochLines(j)[n].era
    BY <2>1, <2>2, Zenon
  <2> QED
    BY <2>0, <2>3
<1>3. \A k \in 1..Len(h) : \A n \in Heights : Same(h[k][n], EpochLines(k - 1)[n].era)'
  <2> TAKE k \in 1..Len(h)
  <2> TAKE n \in Heights
  <2>1. Same(h[k][n], EpochLines(k - 1)[n].era)
    BY <1>1
  <2>2. (EpochLines(k - 1)[n].era)' = EpochLines(k - 1)[n].era
    BY <1>2
  <2> QED
    BY <2>1, <2>2 DEF Same
<1>4. Len(h) <= Len(rows')
  BY <1>1, Bounds
<1> QED
  BY <1>1, <1>3, <1>4 DEF RightHash

(***************************************************************************)
(* A cut moves the tail over heights the head file already shows.          *)
(***************************************************************************)
LEMMA CutRowFeed ==
  ASSUME PubInv, PublisherPart, CutRow
  PROVE  PublisherPart' /\ Stable
<1>0. PICK H : H = EpochHash(NextIdx, HashOfRow(NextIdx))
  OBVIOUS
<1>1. /\ UNCHANGED <<mirror, hole, era, head, final, snapRows, headFile, manifest, crashes>>
      /\ pc = "row" /\ rows' = Append(rows, H)
  BY <1>0 DEF CutRow, feedVars
<1>2. ChainPart /\ RowsPart /\ HeadPart /\ Ready /\ rows \in Seq(Hashes)
  BY <1>1 DEF PublisherPart, PubInv, CutInv, FilesType
<1>3. Len(rows) \in Nat /\ NextIdx = Len(rows) /\ NextIdx \in 0..Len(rows)
  BY Bounds DEF NextIdx
<1>4. H \in Hashes
  BY <1>0, <1>3, NextHash
<1>5. /\ Len(rows') = Len(rows) + 1 /\ rows'[Len(rows) + 1] = H
      /\ \A i \in 1..Len(rows) : rows'[i] = rows[i]
  BY <1>1, <1>2, <1>4
<1>6. Stable
  BY <1>1, <1>3, <1>5 DEF Stable
<1>7. RightHash(H)' /\ Len(H) = Len(rows) + 1
  BY <1>0, <1>1, <1>2, <1>3, <1>5, NewHashStays
<1>8. \A i \in 1..Len(rows') : RightHash(rows[i])' /\ Len(rows'[i]) = i
  <2> SUFFICES ASSUME NEW i \in 1..Len(rows') PROVE RightHash(rows[i])' /\ Len(rows'[i]) = i
    OBVIOUS
  <2>1. i \in 1..Len(rows) \/ i = Len(rows) + 1
    BY <1>3, <1>5
  <2>2. CASE i \in 1..Len(rows)
    <3>1. RightHash(rows[i]) /\ Len(rows[i]) = i
      BY <1>2, <2>2 DEF RowsPart
    <3>2. PICK x : x = rows[i]
      OBVIOUS
    <3>3. RightHash(x)'
      BY <1>6, <3>1, <3>2, HashStays
    <3> QED
      BY <1>5, <2>2, <3>1, <3>2, <3>3 DEF RightHash
  <2> QED
    BY <1>5, <1>7, <2>1, <2>2 DEF RightHash
<1>9. \A s \in snapRows' : RightSnap(s)'
  BY <1>1, <1>2, <1>6, SnapStays DEF RowsPart
<1>10. RightManifest(manifest)'
  BY <1>1, <1>2, <1>6, ManifestStays DEF RowsPart
<1>11. RowsPart'
  BY <1>8, <1>9, <1>10 DEF RowsPart
<1>12. ChainPart'
  BY <1>1, <1>2 DEF ChainPart
<1>13. /\ TailFrom \in Nat /\ TailFrom' = TailFrom + EpochSize /\ EpochSize \in Nat
       /\ EpochEnd(NextIdx) = TailFrom + EpochSize - 1
  <2>1. EpochSize \in Nat /\ TailFrom \in Nat
    BY Bounds
  <2>2. (Len(rows) + 1) * EpochSize = Len(rows) * EpochSize + EpochSize
    BY <1>3, <2>1
  <2> QED
    BY <1>5, <2>1, <2>2 DEF TailFrom, NextIdx, EpochEnd
<1>14. \A n \in Heights : n < TailFrom' => n <= head.num
  BY <1>2, <1>13, Bounds DEF Ready, Heights
<1>15. HeadPart'
  <2>1. RightHead(headFile)' /\ headFile'.from <= TailFrom'
    <3>1. headFile.from \in Nat /\ headFile.from <= TailFrom
      BY <1>2 DEF HeadPart, RightHead
    <3> QED
      BY <1>1, <1>2, <1>13, <3>1 DEF HeadPart, RightHead, Same
  <2>2. headFile'.num = head'.num /\ \A n \in Heights : n <= head'.num => Shows(headFile, n)'
    BY <1>1, <1>2 DEF HeadPart, Shows
  <2> QED
    BY <1>1, <1>14, <2>1, <2>2 DEF HeadPart
<1> QED
  BY <1>6, <1>11, <1>12, <1>15 DEF PublisherPart

LEMMA RecutRowFeed ==
  ASSUME PubInv, PublisherPart, RecutRow
  PROVE  PublisherPart' /\ Stable
<1>0. PICK H : H = RecutHash
  OBVIOUS
<1>1. /\ UNCHANGED <<mirror, hole, era, head, final, snapRows, headFile, manifest, crashes>>
      /\ pc = "recutRow" /\ rows' = [rows EXCEPT ![recut.next + 1] = H]
      /\ pc' = "recutManifest"
  BY <1>0 DEF RecutRow, Goto, feedVars
<1>2. ChainPart /\ RowsPart /\ HeadPart /\ rows \in Seq(Hashes)
  BY <1>1 DEF PublisherPart, PubInv, FilesType
<1>3. /\ recut.next \in Nat /\ recut.next < Len(rows) /\ Len(rows) \in Nat
      /\ recut.next + 1 \in 1..Len(rows) /\ H \in Hashes
  BY <1>0, <1>1, Recutting DEF RecutPcs
<1>4. Len(rows') = Len(rows)
  BY <1>1, <1>2, <1>3
<1>5. \A i \in 1..Len(rows) : rows'[i] = IF i = recut.next + 1 THEN H ELSE rows[i]
  BY <1>1, <1>2, <1>3
<1>6. Stable
  BY <1>1, <1>3, <1>4 DEF Stable
<1>7. RightHash(H)' /\ Len(H) = recut.next + 1
  <2>1. H = EpochHash(recut.next, HashOfRow(recut.next)) /\ recut.next \in 0..Len(rows)
    BY <1>0, <1>3 DEF RecutHash
  <2> QED
    BY <1>1, <1>2, <1>3, <1>4, <2>1, NewHashStays
<1>8. \A i \in 1..Len(rows') : RightHash(rows[i])' /\ Len(rows'[i]) = i
  <2> SUFFICES ASSUME NEW i \in 1..Len(rows') PROVE RightHash(rows[i])' /\ Len(rows'[i]) = i
    OBVIOUS
  <2>1. i \in 1..Len(rows)
    BY <1>4
  <2>2. CASE i # recut.next + 1
    <3>1. RightHash(rows[i]) /\ Len(rows[i]) = i
      BY <1>2, <2>1 DEF RowsPart
    <3>2. PICK x : x = rows[i]
      OBVIOUS
    <3>3. RightHash(x)'
      BY <1>6, <3>1, <3>2, HashStays
    <3> QED
      BY <1>5, <2>1, <2>2, <3>1, <3>2, <3>3 DEF RightHash
  <2> QED
    BY <1>5, <1>7, <2>1, <2>2 DEF RightHash
<1>9. \A s \in snapRows' : RightSnap(s)'
  BY <1>1, <1>2, <1>6, SnapStays DEF RowsPart
<1>10. RightManifest(manifest)'
  BY <1>1, <1>2, <1>6, ManifestStays DEF RowsPart
<1>11. RowsPart'
  BY <1>8, <1>9, <1>10 DEF RowsPart
<1>12. ChainPart'
  BY <1>1, <1>2 DEF ChainPart
<1>13. HeadPart'
  BY <1>1, <1>2, <1>4 DEF HeadPart, RightHead, Same, Shows, TailFrom, NextIdx
<1> QED
  BY <1>6, <1>11, <1>12, <1>13 DEF PublisherPart

LEMMA SnapshotRowFeed ==
  ASSUME PubInv, PublisherPart, SnapshotRow
  PROVE  PublisherPart' /\ Stable
<1>0. PICK S : S = SnapshotOf(NextIdx - 1)
  OBVIOUS
<1>1. /\ UNCHANGED <<mirror, hole, era, head, final, rows, headFile, manifest, crashes>>
      /\ pc = "snapshotRow" /\ pc' = "prune"
      /\ \A s \in snapRows' : s \in snapRows \/ s = S
  BY <1>0 DEF SnapshotRow, Goto, feedVars
<1>2. ChainPart /\ RowsPart /\ HeadPart /\ Len(rows) # 0 /\ Len(rows) \in Nat
  BY <1>1, Bounds DEF PublisherPart, PubInv, PublishInv
<1>3. Stable
  BY <1>1, <1>2 DEF Stable
<1>4. RightSnap(S)
  <2>1. /\ NextIdx - 1 \in Nat /\ S \in Snapshots /\ S.e = NextIdx - 1 /\ S.hash = rows[NextIdx]
    BY <1>0, <1>2, NewSnapshot
  <2>2. S.slots = Lines(0, EpochEnd(NextIdx - 1))
    BY <1>0 DEF SnapshotOf
  <2>3. NextIdx \in 1..Len(rows) /\ NextIdx = S.e + 1
    BY <1>2, <2>1 DEF NextIdx
  <2>4. RightHash(S.hash) /\ Len(S.hash) = S.e + 1
    BY <1>2, <2>1, <2>3 DEF RowsPart
  <2>5. ASSUME NEW n \in Heights PROVE Same(S.slots[n], IF n <= EpochEnd(S.e) THEN mirror[n] ELSE 0)
    <3>1. 0 <= n
      BY DEF Heights
    <3> DEFINE l == Lines(0, EpochEnd(S.e))[n]
    <3>2. /\ 0 <= n /\ n <= EpochEnd(S.e) => Same(l, mirror[n])
          /\ ~(0 <= n /\ n <= EpochEnd(S.e)) => l = NoLine /\ Same(l, 0)
      BY <1>2, FullIs, Zenon
    <3>3. l = S.slots[n]
      BY <2>1, <2>2
    <3> HIDE DEF l
    <3> QED
      BY <3>1, <3>2, <3>3
  <2> QED
    BY <2>1, <2>4, <2>5 DEF RightSnap
<1>5. \A i \in 1..Len(rows') : RightHash(rows[i])' /\ Len(rows'[i]) = i
  BY <1>1, <1>2, <1>3, HashStays DEF RowsPart
<1>6. \A s \in snapRows' : RightSnap(s)'
  BY <1>1, <1>2, <1>3, <1>4, SnapStays DEF RowsPart
<1>7. RightManifest(manifest)'
  BY <1>1, <1>2, <1>3, ManifestStays DEF RowsPart
<1>8. RowsPart'
  BY <1>5, <1>6, <1>7 DEF RowsPart
<1>9. ChainPart'
  BY <1>1, <1>2 DEF ChainPart
<1>10. HeadPart'
  BY <1>1, <1>2 DEF HeadPart, RightHead, Same, Shows, TailFrom, NextIdx
<1> QED
  BY <1>3, <1>8, <1>9, <1>10 DEF PublisherPart

LEMMA PublisherFeed ==
  ASSUME PubInv, PublisherPart, PublisherStep, MaxCrashes = 0
  PROVE  PublisherPart' /\ Stable
<1> DEFINE Quiet ==
      /\ UNCHANGED <<mirror, era, head, rows, headFile, crashes>>
      /\ hole' \subseteq hole /\ snapRows' \subseteq snapRows
      /\ manifest' \in {manifest, ManifestOfDb} /\ pc # "head"
<1>1. ASSUME Quiet PROVE PublisherPart' /\ Stable
  BY <1>1, QuietPublisher
<1>2. CASE MainLoop
  <2>1. HeadManifest => Quiet
    BY DEF HeadManifest, RewriteManifest, Goto, dbVars
  <2>2. CutFile => Quiet
    BY DEF CutFile, Goto, dbVars
  <2>3. CutDone => Quiet
    BY DEF CutDone, RewriteManifest, Goto, dbVars, feedVars
  <2>4. Halt => Quiet
    BY DEF Halt, dbVars, feedVars
  <2>5. SnapshotSkip => Quiet
    BY DEF SnapshotSkip, Goto, dbVars, feedVars
  <2>6. SnapshotFile => Quiet
    BY DEF SnapshotFile, Goto, dbVars
  <2>7. PruneFile => Quiet
    BY DEF PruneFile, RemoveFile, Goto, dbVars
  <2>8. PruneRow => Quiet
    BY DEF PruneRow, RemoveRow, Goto, feedVars
  <2>9. SnapshotManifest => Quiet
    BY DEF SnapshotManifest, RewriteManifest, Goto, dbVars
  <2>10. TailManifest => Quiet
    BY DEF TailManifest, dbVars
  <2> HIDE DEF Quiet
  <2> QED
    BY <1>1, <1>2, <2>1, <2>2, <2>3, <2>4, <2>5, <2>6, <2>7, <2>8, <2>9, <2>10,
       IngestFeed, WriteHeadFeed, CutRowFeed, SnapshotRowFeed DEF MainLoop
<1>3. CASE Operator
  <2>1. (\E n \in Heights : Repair(n)) => Quiet
    BY DEF Repair, procVars, feedVars
  <2>2. (\E first \in Indices : RecutStart(first)) => Quiet
    BY DEF RecutStart, dbVars, feedVars
  <2>3. WithdrawFile => Quiet
    BY DEF WithdrawFile, RemoveFile, Goto, dbVars
  <2>4. WithdrawRow => Quiet
    BY DEF WithdrawRow, RemoveRow, Goto, feedVars
  <2>5. RecutFile => Quiet
    BY DEF RecutFile, Goto, dbVars
  <2>6. RecutManifest => Quiet
    BY DEF RecutManifest, dbVars
  <2> HIDE DEF Quiet
  <2> QED
    BY <1>1, <1>3, <2>1, <2>2, <2>3, <2>4, <2>5, <2>6, RecutRowFeed DEF Operator
<1>4. CASE Crash
  BY <1>4 DEF Crash, PublisherPart, ChainPart
<1> QED
  BY <1>2, <1>3, <1>4 DEF PublisherStep
-----------------------------------------------------------------------------
(***************************************************************************)
(* Steps of the consumer leave the publisher's part as it is.              *)
(***************************************************************************)
LEMMA Steady ==
  ASSUME PubInv, PublisherPart, UNCHANGED pubVars
  PROVE  /\ PublisherPart' /\ Stable
         /\ UNCHANGED <<mirror, hole, era, head, final, rows, headFile>>
         /\ \A f, n : Shows(f, n)' = Shows(f, n)
         /\ \A f : RightHead(f)' = RightHead(f)
<1>1. /\ UNCHANGED <<mirror, hole, era, head, final, rows, snapRows>>
      /\ UNCHANGED <<files, snapFiles, headFile, manifest, pc, cut, recut, crashes>>
  BY DEF pubVars, dbVars, feedVars, procVars
<1>2. Stable
  BY <1>1, Bounds DEF Stable
<1>3. RowsPart'
  BY <1>1, <1>2, RowsStay DEF PublisherPart
<1>4. ChainPart'
  BY <1>1 DEF PublisherPart, ChainPart
<1>5. (\A f, n : Shows(f, n)' = Shows(f, n)) /\ \A f : RightHead(f)' = RightHead(f)
  BY <1>1 DEF Shows, RightHead, Same
<1>6. HeadPart'
  BY <1>1 DEF PublisherPart, HeadPart, Shows, RightHead, Same, TailFrom, NextIdx
<1> QED
  BY <1>1, <1>2, <1>3, <1>4, <1>5, <1>6 DEF PublisherPart

LEMMA StoreKept ==
  ASSUME PubInv, FeedInv, UNCHANGED pubVars, UNCHANGED storeVars, RightManifest(named'),
         step' = "snapshot" => applied = NoFile /\ blockRows = {},
         step' = "synced" => /\ etag # {}
                             /\ \A f \in etag : \A n \in Heights : n <= LastEpochTo => Shows(f, n)
  PROVE  ConsumerPart'
<1>1. UNCHANGED <<store, blockRows, applied, etag, gen>>
  BY DEF storeVars
<1>2. TailPart /\ StorePart /\ SyncPart /\ PublisherPart
  BY DEF FeedInv, ConsumerPart
<1>3. LastEpochTo' = LastEpochTo
  BY <1>1 DEF LastEpochTo
<1>4. /\ Stable /\ UNCHANGED mirror
      /\ \A f, n : Shows(f, n)' = Shows(f, n)
      /\ \A f : RightHead(f)' = RightHead(f)
  BY <1>2, Steady
<1>5. SyncPart'
  <2>1. RightHash(applied)'
    BY <1>1, <1>2, <1>4, HashStays DEF SyncPart
  <2>2. PICK m : m = named'
    OBVIOUS
  <2>3. RightManifest(m)'
    BY <1>4, <2>2, ManifestStays
  <2>4. RightManifest(named)'
    BY <2>2, <2>3
  <2> QED
    BY <1>1, <2>1, <2>4 DEF SyncPart
<1>6. TailPart'
  BY <1>1, <1>2, <1>3, <1>4 DEF TailPart
<1>7. StorePart'
  BY <1>1, <1>2, <1>3, <1>4 DEF StorePart, Same
<1> QED
  BY <1>5, <1>6, <1>7 DEF ConsumerPart

LEMMA FailKeeps ==
  ASSUME PubInv, FeedInv, UNCHANGED pubVars, Fail
  PROVE  ConsumerPart'
<1>1. UNCHANGED storeVars /\ named' = NoManifest /\ step' = "idle"
  BY DEF Fail
<1>2. RightManifest(NoManifest)
  <2>1. NoManifest.epochs = <<>> /\ NoManifest.snapshot = {}
    BY DEF NoManifest
  <2>2. Len(NoManifest.epochs) = 0 /\ NoManifest.epochs \in Seq(Hashes)
    BY <2>1
  <2> QED
    BY <2>1, <2>2 DEF RightManifest
<1> QED
  BY <1>1, <1>2, StoreKept

LEMMA FetchManifestFeed ==
  ASSUME PubInv, FeedInv, UNCHANGED pubVars, FetchManifest
  PROVE  ConsumerPart'
<1>1. UNCHANGED storeVars /\ named' = manifest /\ step' # "synced"
      /\ (step' = "snapshot" => applied = NoFile /\ blockRows = {})
  BY DEF FetchManifest
<1>2. RightManifest(named')
  BY <1>1 DEF FeedInv, PublisherPart, RowsPart
<1> QED
  BY <1>1, <1>2, StoreKept

LEMMA CheckAppliedFeed ==
  ASSUME PubInv, FeedInv, UNCHANGED pubVars, CheckApplied
  PROVE  ConsumerPart'
<1>1. CASE Fail
  BY <1>1, FailKeeps
<1>2. CASE step' = "epochs" /\ UNCHANGED <<storeVars, named>>
  <2>1. RightManifest(named')
    BY <1>2 DEF FeedInv, ConsumerPart, SyncPart
  <2> QED
    BY <1>2, <2>1, StoreKept
<1> QED
  BY <1>1, <1>2 DEF CheckApplied

LEMMA FetchSnapshotFeed ==
  ASSUME PubInv, FeedInv, UNCHANGED pubVars, FetchSnapshot
  PROVE  ConsumerPart'
<1>1. CASE Fail
  BY <1>1, FailKeeps
<1>2. ASSUME NEW s \in named.snapshot, store' = s.slots, applied' = s.hash, step' = "check",
             UNCHANGED <<blockRows, etag, gen, named>>, step = "snapshot"
      PROVE  ConsumerPart'
  <2>1. TailPart /\ StorePart /\ SyncPart /\ PublisherPart
    BY DEF FeedInv, ConsumerPart
  <2>2. RightSnap(s) /\ applied = NoFile /\ blockRows = {}
    BY <1>2, <2>1 DEF SyncPart, RightManifest
  <2>3. /\ s.e \in Nat /\ s.hash \in Hashes /\ s.slots \in LineMaps
        /\ RightHash(s.hash) /\ Len(s.hash) = s.e + 1
        /\ \A n \in Heights : Same(s.slots[n], IF n <= EpochEnd(s.e) THEN mirror[n] ELSE 0)
    BY <2>2 DEF RightSnap, Snapshots
  <2>4. s.hash # NoFile /\ Len(s.hash) - 1 = s.e
    BY <2>3 DEF NoFile
  <2>5. LastEpochTo' = EpochEnd(s.e) /\ LastEpochTo = 0
    BY <1>2, <2>2, <2>4 DEF LastEpochTo, EpochEnd
  <2>6. ASSUME NEW f \in etag, NEW n \in Heights PROVE ~(n <= f.num)
    <3>1. RightHead(f) /\ n > LastEpochTo
      BY <2>1, <2>5 DEF TailPart, Heights
    <3>2. n <= f.num => store[n].era = f.full[n].era /\ f.full[n].era # 0
      BY <2>1, <3>1 DEF StorePart, Same, RightHead
    <3> QED
      BY <2>1, <2>2, <3>1, <3>2 DEF StorePart
  <2>7. /\ Stable /\ UNCHANGED mirror
        /\ \A f, n : Shows(f, n)' = Shows(f, n)
        /\ \A f : RightHead(f)' = RightHead(f)
    BY <2>1, Steady
  <2>8. SyncPart'
    <3>1. RightHash(applied)'
      BY <1>2, <2>3, <2>7, HashStays DEF RightHash
    <3>2. RightManifest(named)'
      BY <1>2, <2>1, <2>7, ManifestStays DEF SyncPart
    <3> QED
      BY <1>2, <3>1, <3>2 DEF SyncPart
  <2>9. TailPart'
    BY <1>2, <2>1, <2>7 DEF TailPart
  <2>10. EpochEnd(s.e) \in Nat
    <3>1. s.e < Len(rows)
      BY <2>3, Bounds DEF RightHash
    <3> QED
      BY <2>3, <3>1, EpochBelow
  <2>11. ASSUME NEW n \in Heights
         PROVE  /\ n <= EpochEnd(s.e) => Same(store'[n], mirror[n])
                /\ n > EpochEnd(s.e) => Same(store'[n], 0)
    <3>1. n \in Nat
      BY DEF Heights
    <3> QED
      BY <1>2, <2>3, <2>10, <3>1
  <2>12. StorePart'
    BY <1>2, <2>1, <2>3, <2>5, <2>6, <2>7, <2>11 DEF StorePart, Same
  <2> QED
    BY <2>8, <2>9, <2>12 DEF ConsumerPart
<1> QED
  BY <1>1, <1>2 DEF FetchSnapshot

(***************************************************************************)
(* The heights of an epoch; its verified file fills all of them and no     *)
(* other.                                                                  *)
(***************************************************************************)
LEMMA CoversIs ==
  ASSUME NEW idx \in Nat, NEW n \in Heights
  PROVE  n \in Covers(idx) <=> idx * EpochSize <= n /\ n <= EpochEnd(idx)
<1>1. EpochSize \in Nat \ {0} /\ n \in Nat
  BY PublicationAssumption DEF Heights
<1> DEFINE q == n \div EpochSize
<1>2. q \in Nat /\ q * EpochSize <= n /\ n < q * EpochSize + EpochSize
  BY <1>1
<1>3. idx * EpochSize \in Nat /\ q * EpochSize \in Nat
  BY <1>1, <1>2, Times
<1> HIDE DEF q
<1>4. q < idx => q * EpochSize + EpochSize <= idx * EpochSize
  BY <1>2, Times
<1>5. idx < q => idx * EpochSize + EpochSize <= q * EpochSize
  BY <1>2, Times
<1>6. q = idx <=> idx * EpochSize <= n /\ n <= idx * EpochSize + EpochSize - 1
  <2>1. CASE q = idx
    BY <1>1, <1>2, <1>3, <2>1
  <2>2. CASE q < idx
    BY <1>1, <1>2, <1>3, <1>4, <2>2
  <2>3. CASE idx < q
    BY <1>1, <1>2, <1>3, <1>5, <2>3
  <2> QED
    BY <1>2, <2>1, <2>2, <2>3
<1> QED
  BY <1>6 DEF q, Covers, EpochOf, EpochEnd

LEMMA EpochInHand ==
  ASSUME PubInv, FeedInv, NEW idx, idx = Len(applied), idx < Len(named.epochs), EpochVerified(idx)
  PROVE  LET lines == files[idx][idx + 1] IN
         /\ idx \in Nat /\ idx < Len(rows) /\ RightHash(files[idx]) /\ Len(files[idx]) = idx + 1
         /\ lines \in LineMaps
         /\ Given(lines) = Covers(idx)
         /\ \A n \in Covers(idx) : Same(lines[n], mirror[n])
<1> DEFINE h == files[idx]
           lines == h[idx + 1]
<1>1. RightManifest(named) /\ RightHash(applied) /\ ChainPart
  BY DEF FeedInv, ConsumerPart, SyncPart, PublisherPart
<1>2. idx \in Nat /\ Len(named.epochs) \in Nat
  BY <1>1, LenProperties DEF RightManifest, RightHash, Hashes
<1>3. h = named.epochs[idx + 1] /\ idx + 1 \in 1..Len(named.epochs)
  BY <1>2 DEF EpochVerified
<1>4. RightHash(h) /\ Len(h) = idx + 1
  BY <1>1, <1>3 DEF RightManifest
<1>5. idx < Len(rows) /\ Len(rows) \in Nat
  BY <1>2, <1>4, Bounds DEF RightHash
<1> HIDE DEF h
<1>6. h \in Seq(LineMaps) /\ idx + 1 \in 1..Len(h)
  BY <1>2, <1>4 DEF RightHash, Hashes
<1>7. lines \in LineMaps
  BY <1>6, ElementOfSeq
<1>8. ASSUME NEW n \in Heights PROVE Same(lines[n], EpochLines(idx)[n].era)
  <2>1. idx + 1 \in 1..Len(h) /\ (idx + 1) - 1 = idx
    BY <1>2, <1>4
  <2>2. Same(h[idx + 1][n], EpochLines((idx + 1) - 1)[n].era)
    BY <1>4, <2>1 DEF RightHash
  <2> QED
    BY <2>1, <2>2
<1> HIDE DEF lines
<1>9. /\ EpochEnd(idx) \in Nat /\ EpochEnd(idx) < TailFrom /\ TailFrom \in Nat
      /\ TailFrom <= final + 1 /\ final <= head.num /\ final \in Nat /\ head.num \in Nat
  BY <1>2, <1>5, EpochBelow, Bounds
<1>10. ASSUME NEW n \in Heights
       PROVE  /\ n \in Covers(idx) => Same(lines[n], mirror[n]) /\ mirror[n] # 0
              /\ n \notin Covers(idx) => lines[n].era = 0
  <2> DEFINE in == idx * EpochSize <= n /\ n <= EpochEnd(idx)
  <2>1. n \in Covers(idx) <=> in
    BY <1>2, CoversIs
  <2>2. EpochLines(idx)[n].era = IF in THEN mirror[n] ELSE 0
    BY EraIs
  <2>3. in => n <= head.num
    BY <1>9 DEF Heights
  <2>4. n <= head.num => mirror[n] # 0
    BY <1>1 DEF ChainPart
  <2> HIDE DEF in
  <2> QED
    BY <1>8, <2>1, <2>2, <2>3, <2>4 DEF Same
<1>11. Covers(idx) \subseteq Heights
  BY DEF Covers
<1>12. Given(lines) = Covers(idx)
  BY <1>10, <1>11 DEF Given, Same
<1> QED
  BY <1>2, <1>4, <1>5, <1>7, <1>10, <1>11, <1>12 DEF h, lines

LEMMA ApplyEpochFeed ==
  ASSUME PubInv, FeedInv, UNCHANGED pubVars, ApplyEpoch
  PROVE  ConsumerPart' /\ ((\E n \in blockRows : store'[n].era # store[n].era) => gen' > gen)
<1>1. CASE Fail
  BY <1>1, FailKeeps DEF Fail, storeVars
<1>2. CASE ~Fail
  <2>1. PICK idx, lines : idx = Len(applied) /\ lines = files[idx][idx + 1]
    OBVIOUS
  <2>2. PICK h : h = files[idx]
    OBVIOUS
  <2>3. /\ step = "epochs" /\ idx < Len(named.epochs) /\ EpochVerified(idx)
        /\ ReplaceRange(Covers(idx), lines, Contradicts(Covers(idx), lines))
        /\ applied' = h /\ UNCHANGED <<etag, step, named>>
    BY <1>2, <2>1, <2>2 DEF ApplyEpoch
  <2>4. /\ idx \in Nat /\ idx < Len(rows) /\ RightHash(h) /\ Len(h) = idx + 1
        /\ lines \in LineMaps /\ Given(lines) = Covers(idx)
        /\ \A n \in Covers(idx) : Same(lines[n], mirror[n])
    BY <2>1, <2>2, <2>3, EpochInHand
  <2>5. Covers(idx) \subseteq Heights
    BY DEF Covers
  <2>6. TailPart /\ StorePart /\ SyncPart /\ PublisherPart
    BY DEF FeedInv, ConsumerPart
  <2>7. /\ store' = [n \in Heights |-> IF n \in Covers(idx) THEN lines[n] ELSE store[n]]
        /\ blockRows' = (blockRows \ Covers(idx)) \cup Covers(idx)
        /\ gen' = IF Contradicts(Covers(idx), lines) THEN gen + 1 ELSE gen
    BY <2>3, <2>4 DEF ReplaceRange
  <2>8. /\ Stable /\ UNCHANGED mirror
        /\ \A f, n : Shows(f, n)' = Shows(f, n)
        /\ \A f : RightHead(f)' = RightHead(f)
    BY <2>6, Steady
  <2>9. LastEpochTo' = EpochEnd(idx)
    <3>1. h # NoFile /\ Len(h) - 1 = idx
      BY <2>4 DEF NoFile
    <3> QED
      BY <2>3, <3>1 DEF LastEpochTo, EpochEnd
  <2>10. /\ idx * EpochSize \in Nat /\ EpochEnd(idx) = idx * EpochSize + EpochSize - 1
         /\ EpochSize \in Nat /\ EpochSize > 1 /\ EpochEnd(idx) \in Nat
    BY <2>4, EpochBelow, Bounds
  <2>11. LastEpochTo \in Nat /\ \A n \in Heights : n <= LastEpochTo <=> n < idx * EpochSize
    BY <2>1, <2>6, FloorBelow DEF SyncPart
  <2>12. ASSUME NEW n \in Heights
         PROVE  /\ n \in Covers(idx) => n <= EpochEnd(idx) /\ n > LastEpochTo
                /\ n \notin Covers(idx) => (n <= EpochEnd(idx) <=> n <= LastEpochTo)
    <3>1. n \in Covers(idx) <=> idx * EpochSize <= n /\ n <= EpochEnd(idx)
      BY <2>4, CoversIs
    <3>2. n \in Nat
      BY DEF Heights
    <3> QED
      BY <2>10, <2>11, <3>1, <3>2
  <2>13. SyncPart'
    <3>1. RightHash(applied)'
      BY <2>3, <2>4, <2>8, HashStays DEF RightHash
    <3>2. RightManifest(named)'
      BY <2>3, <2>6, <2>8, ManifestStays DEF SyncPart
    <3> QED
      BY <2>3, <3>1, <3>2 DEF SyncPart
  <2>14. TailPart'
    BY <2>3, <2>6, <2>8 DEF TailPart
  <2>15. StorePart'
    <3>1. store' \in LineMaps /\ blockRows' \subseteq Heights /\ gen' \in Nat
      BY <2>4, <2>5, <2>6, <2>7 DEF StorePart, LineMaps
    <3>2. ASSUME NEW n \in Heights
          PROVE  /\ n \in Covers(idx) => store'[n] = lines[n]
                 /\ n \notin Covers(idx) => store'[n] = store[n] /\ (n \in blockRows' <=> n \in blockRows)
      BY <2>7
    <3>3. ASSUME NEW n \in Heights, n <= LastEpochTo' PROVE Same(store'[n], mirror[n])
      BY <2>4, <2>6, <2>9, <2>12, <3>2, <3>3 DEF StorePart
    <3>4. ASSUME NEW n \in Heights, n > LastEpochTo'
          PROVE  n > LastEpochTo /\ store'[n] = store[n] /\ (n \in blockRows' <=> n \in blockRows)
      <4>1. n \in Nat /\ ~(n <= EpochEnd(idx))
        BY <2>9, <2>10, <3>4 DEF Heights
      <4> QED
        BY <2>11, <2>12, <3>2, <4>1
    <3>5. \A n \in Heights : n <= LastEpochTo' => Same(store[n], mirror[n])'
      BY <2>8, <3>3 DEF Same
    <3>6. \A n \in Heights : n > LastEpochTo' =>
            /\ etag' = {} => Same(store[n], 0)'
            /\ \A f \in etag' : Same(store[n], IF n <= f.num THEN f.full[n].era ELSE 0)'
            /\ store'[n].era # 0 => n \in blockRows'
      BY <2>3, <2>6, <3>4 DEF StorePart, Same
    <3> QED
      BY <3>1, <3>5, <3>6 DEF StorePart
  <2>16. ASSUME NEW n \in blockRows, store'[n].era # store[n].era PROVE gen' > gen
    <3>1. n \in Heights /\ gen \in Nat
      BY <2>6 DEF StorePart
    <3>2. n \in Covers(idx) /\ lines[n].era # store[n].era
      BY <2>7, <2>16, <3>1
    <3>3. Contradicts(Covers(idx), lines)
      BY <3>2 DEF Contradicts
    <3> QED
      BY <2>7, <3>1, <3>3
  <2> QED
    BY <2>13, <2>14, <2>15, <2>16 DEF ConsumerPart
<1> QED
  BY <1>1, <1>2

(***************************************************************************)
(* A head file that starts no higher than the floor gives every height     *)
(* above the floor up to its head.                                         *)
(***************************************************************************)
LEMMA HeadInHand ==
  ASSUME PubInv, FeedInv, ~TailGaps
  PROVE  LET lines == headFile.lines IN
         /\ lines \in LineMaps /\ LastEpochTo \in Nat
         /\ \A n \in Heights :
              /\ n \in Given(lines) => lines[n] = headFile.full[n] /\ n <= headFile.num
              /\ n <= LastEpochTo => Shows(headFile, n)
              /\ n > LastEpochTo => /\ n \in Given(lines) <=> n <= headFile.num
                                    /\ n >= headFile.from
<1>1. RightHash(applied) /\ HeadPart
  BY DEF FeedInv, ConsumerPart, SyncPart, PublisherPart
<1>2. LastEpochTo \in Nat /\ \A n \in Heights : n <= LastEpochTo => n < TailFrom
  BY <1>1, FloorBelow
<1>3. /\ headFile.from \in Nat /\ headFile.num \in Nat /\ headFile.full \in LineMaps
      /\ headFile.lines = [n \in Heights |-> IF headFile.from <= n /\ n <= headFile.num
                                             THEN headFile.full[n] ELSE NoLine]
      /\ \A n \in Heights : headFile.full[n].era # 0 <=> n <= headFile.num
  BY <1>1 DEF HeadPart, RightHead
<1>4. NoLine \in [era : Nat, whole : BOOLEAN] /\ NoLine.era = 0
  BY DEF NoLine
<1>5. headFile.lines \in LineMaps
  BY <1>3, <1>4 DEF LineMaps
<1>6. headFile.from <= LastEpochTo + 1
  BY <1>2, <1>3 DEF TailGaps
<1>7. ASSUME NEW n \in Heights
      PROVE  /\ n \in Given(headFile.lines) => headFile.lines[n] = headFile.full[n] /\ n <= headFile.num
             /\ n > LastEpochTo => /\ n \in Given(headFile.lines) <=> n <= headFile.num
                                   /\ n >= headFile.from
  <2>1. n \in Nat
    BY DEF Heights
  <2> DEFINE in == headFile.from <= n /\ n <= headFile.num
  <2>2. headFile.lines[n] = IF in THEN headFile.full[n] ELSE NoLine
    BY <1>3, Zenon
  <2>3. n > LastEpochTo => n >= headFile.from
    BY <1>2, <1>3, <1>6, <2>1
  <2>4. (in => n <= headFile.num) /\ (n >= headFile.from /\ n <= headFile.num => in)
    BY <1>3, <2>1
  <2>5. headFile.full[n].era # 0 <=> n <= headFile.num
    BY <1>3
  <2> HIDE DEF in
  <2> QED
    BY <1>4, <2>2, <2>3, <2>4, <2>5 DEF Given
<1>8. \A n \in Heights : n <= LastEpochTo => Shows(headFile, n)
  BY <1>1, <1>2 DEF HeadPart
<1> QED
  BY <1>2, <1>5, <1>7, <1>8

LEMMA ApplyHeadFeed ==
  ASSUME PubInv, FeedInv, UNCHANGED pubVars, ApplyHead
  PROVE  ConsumerPart' /\ ((\E n \in blockRows : store'[n].era # store[n].era) => gen' > gen)
<1>0. TailPart /\ StorePart /\ SyncPart /\ PublisherPart /\ HeadPart
  BY DEF FeedInv, ConsumerPart, PublisherPart
<1>1. CASE etag = {headFile} /\ step' = "synced" /\ UNCHANGED <<storeVars, named>>
  <2>1. \A n \in Heights : n <= LastEpochTo => Shows(headFile, n)
    <3>1. \A n \in Heights : n <= LastEpochTo => n < TailFrom
      BY <1>0, FloorBelow DEF SyncPart
    <3> QED
      BY <1>0, <3>1 DEF HeadPart
  <2>2. RightManifest(named')
    BY <1>0, <1>1 DEF SyncPart
  <2>3. ConsumerPart'
    BY <1>1, <2>1, <2>2, StoreKept
  <2> QED
    BY <1>1, <2>3 DEF storeVars
<1>2. CASE Fail
  BY <1>2, FailKeeps DEF Fail, storeVars
<1>3. CASE /\ etag # {headFile} /\ ~TailGaps
           /\ ReplaceRange(AboveFloor, headFile.lines, TailContradicts)
           /\ etag' = {headFile} /\ step' = "synced" /\ UNCHANGED <<applied, named>>
  <2>1. PICK F : F = headFile
    OBVIOUS
  <2> DEFINE lines == F.lines
  <2>2. /\ lines \in LineMaps /\ LastEpochTo \in Nat
        /\ \A n \in Heights :
             /\ n \in Given(lines) => lines[n] = F.full[n] /\ n <= F.num
             /\ n <= LastEpochTo => Shows(F, n)
             /\ n > LastEpochTo => /\ n \in Given(lines) <=> n <= F.num
                                   /\ n >= F.from
    BY <1>3, <2>1, HeadInHand
  <2>3. RightHead(F)
    BY <1>0, <2>1 DEF HeadPart
  <2>4. /\ store' = [n \in Heights |-> IF n \in Given(lines) THEN lines[n]
                                       ELSE IF n \in AboveFloor THEN NoLine ELSE store[n]]
        /\ blockRows' = (blockRows \ AboveFloor) \cup Given(lines)
        /\ gen' = IF TailContradicts THEN gen + 1 ELSE gen
    BY <1>3, <2>1 DEF ReplaceRange
  <2>5. ASSUME NEW n \in Heights PROVE n \in AboveFloor <=> n > LastEpochTo
    BY DEF AboveFloor
  <2>6. Given(lines) \subseteq Heights /\ NoLine \in [era : Nat, whole : BOOLEAN]
        /\ NoLine.era = 0 /\ NoLine.whole = TRUE
    BY DEF Given, NoLine
  <2>7. /\ Stable /\ UNCHANGED mirror
        /\ \A f, n : Shows(f, n)' = Shows(f, n)
        /\ \A f : RightHead(f)' = RightHead(f)
    BY <1>0, Steady
  <2>8. LastEpochTo' = LastEpochTo
    BY <1>3 DEF LastEpochTo
  <2> HIDE DEF lines
  <2>9. SyncPart'
    <3>1. RightHash(applied)'
      BY <1>0, <1>3, <2>7, HashStays DEF SyncPart
    <3>2. RightManifest(named)'
      BY <1>0, <1>3, <2>7, ManifestStays DEF SyncPart
    <3> QED
      BY <1>3, <3>1, <3>2 DEF SyncPart
  <2>10. TailPart'
    BY <1>3, <2>1, <2>2, <2>3, <2>7, <2>8 DEF TailPart
  <2>11. ASSUME NEW n \in Heights
         PROVE  /\ n \in Given(lines) => store'[n] = F.full[n] /\ n \in blockRows'
                /\ n \notin Given(lines) /\ n > LastEpochTo => store'[n] = NoLine
                /\ n \notin Given(lines) /\ n <= LastEpochTo => store'[n] = store[n]
    <3>1. n <= LastEpochTo => ~(n > LastEpochTo)
      BY <2>2 DEF Heights
    <3> QED
      BY <2>2, <2>4, <2>5, <3>1
  <2>12. \A n \in Heights : Same(F.full[n], F.full[n].era)
    BY <2>3 DEF RightHead
  <2>13. StorePart'
    <3>1. store' \in LineMaps /\ blockRows' \subseteq Heights /\ gen' \in Nat
      BY <1>0, <2>2, <2>4, <2>6 DEF StorePart, LineMaps
    <3>2. ASSUME NEW n \in Heights, n <= LastEpochTo PROVE Same(store'[n], mirror[n])
      <4>1. CASE n \in Given(lines)
        BY <2>2, <2>11, <2>12, <3>2, <4>1 DEF Shows
      <4>2. CASE n \notin Given(lines)
        BY <1>0, <2>11, <3>2, <4>2 DEF StorePart
      <4> QED
        BY <4>1, <4>2
    <3>3. ASSUME NEW n \in Heights, n > LastEpochTo
          PROVE  /\ Same(store'[n], IF n <= F.num THEN F.full[n].era ELSE 0)
                 /\ store'[n].era # 0 => n \in blockRows'
      <4>1. CASE n \in Given(lines)
        BY <2>2, <2>11, <2>12, <3>3, <4>1
      <4>2. CASE n \notin Given(lines)
        BY <2>2, <2>6, <2>11, <3>3, <4>2 DEF Same
      <4> QED
        BY <4>1, <4>2
    <3>4. \A n \in Heights : n <= LastEpochTo' => Same(store[n], mirror[n])'
      BY <2>7, <2>8, <3>2 DEF Same
    <3>5. \A n \in Heights : n > LastEpochTo' =>
            /\ etag' = {} => Same(store[n], 0)'
            /\ \A f \in etag' : Same(store[n], IF n <= f.num THEN f.full[n].era ELSE 0)'
            /\ store'[n].era # 0 => n \in blockRows'
      BY <1>3, <2>1, <2>8, <3>3 DEF Same
    <3> QED
      BY <3>1, <3>4, <3>5 DEF StorePart
  <2>14. ASSUME NEW n \in blockRows, store'[n].era # store[n].era PROVE gen' > gen
    <3>1. n \in Heights /\ gen \in Nat
      BY <1>0 DEF StorePart
    <3>2. n > LastEpochTo
      <4> SUFFICES ASSUME n <= LastEpochTo PROVE FALSE
        BY <2>2, <3>1 DEF Heights
      <4>1. F.full[n].era = mirror[n] /\ store[n].era = mirror[n]
        BY <1>0, <2>2, <3>1 DEF Shows, StorePart, Same
      <4> QED
        BY <2>11, <2>14, <3>1, <4>1
    <3>3. n \in AboveFloor /\ n >= F.from
      BY <2>2, <2>5, <3>1, <3>2
    <3>4. n \in Given(lines) => lines[n].era # store[n].era
      BY <2>4, <2>14, <3>1
    <3>5. TailContradicts
      BY <2>1, <3>3, <3>4 DEF TailContradicts, lines
    <3> QED
      BY <2>4, <3>1, <3>5
  <2> QED
    BY <2>9, <2>10, <2>13, <2>14 DEF ConsumerPart
<1> QED
  BY <1>1, <1>2, <1>3 DEF ApplyHead

(***************************************************************************)
(* The step property ReplacedBumps asks of every step.                     *)
(***************************************************************************)
Bumps == (\E n \in blockRows : store'[n].era # store[n].era) => gen' > gen

LEMMA ConsumerFeed ==
  ASSUME PubInv, FeedInv, UNCHANGED pubVars, ConsumerStep
  PROVE  ConsumerPart' /\ Bumps
<1>1. ASSUME FetchSnapshot PROVE Bumps
  <2>1. step = "snapshot" /\ blockRows = {}
    BY <1>1 DEF FetchSnapshot, FeedInv, ConsumerPart, SyncPart
  <2> QED
    BY <2>1 DEF Bumps
<1>2. ASSUME store' = store PROVE Bumps
  BY <1>2 DEF Bumps
<1>3. Fail => store' = store
  BY DEF Fail, storeVars
<1>4. FetchManifest \/ CheckApplied => store' = store
  BY <1>3 DEF FetchManifest, CheckApplied, storeVars
<1>5. Done \/ ConsumerDies => Fail
  BY DEF Done, ConsumerDies
<1>6. ApplyEpoch \/ ApplyHead => ConsumerPart' /\ Bumps
  BY ApplyEpochFeed, ApplyHeadFeed DEF Bumps
<1> QED
  BY <1>1, <1>2, <1>3, <1>4, <1>5, <1>6, FetchManifestFeed, FetchSnapshotFeed, CheckAppliedFeed,
     FailKeeps DEF ConsumerStep, SyncStep

LEMMA InitFeed == ASSUME FeedInit PROVE PubInv /\ FeedInv
<1>0. Init /\ ConsumerInit /\ PubInv
  BY InitPub DEF FeedInit
<1>1. /\ mirror = [n \in Heights |-> 0] /\ hole = {} /\ era = 1 /\ head.num = 0
      /\ rows = <<>> /\ snapRows = {} /\ manifest = [epochs |-> <<>>, snapshot |-> {}]
      /\ headFile = [from |-> 0, num |-> 0, lines |-> Lines(1, 0), full |-> Lines(1, 0)]
      /\ pc = "idle" /\ crashes = 0
  BY <1>0 DEF Init
<1>2. MaxHeight \in Nat /\ MirrorType
  BY <1>0, PublicationAssumption DEF PubInv
<1>3. ChainPart
  BY <1>1, <1>2 DEF ChainPart, Heights
<1>4. /\ Len(rows) = 0 /\ Len(manifest.epochs) = 0 /\ manifest.epochs \in Seq(Hashes)
      /\ manifest.snapshot = {}
  BY <1>1
<1>5. RowsPart
  BY <1>1, <1>4 DEF RowsPart, RightManifest
<1>6. TailFrom = 0
  BY <1>4, Bounds, <1>0 DEF TailFrom, NextIdx
<1>7. Lines(1, 0) = [n \in Heights |-> NoLine] /\ Lines(1, 0) \in LineMaps
  <2>1. ASSUME NEW n \in Heights PROVE ~(1 <= n /\ n <= 0)
    BY DEF Heights
  <2>2. Lines(1, 0) = [n \in Heights |-> NoLine]
    BY <2>1, Zenon DEF Lines
  <2> QED
    BY <1>2, <2>2, LinesType
<1>8. NoLine.era = 0 /\ NoLine.whole = TRUE
  BY DEF NoLine
<1>9. RightHead(headFile)
  <2> DEFINE L == Lines(1, 0)
  <2>1. headFile.from = 0 /\ headFile.num = 0 /\ headFile.lines = L /\ headFile.full = L
    BY <1>1
  <2>3. L \in LineMaps /\ L = [n \in Heights |-> NoLine]
    BY <1>7
  <2> HIDE DEF L
  <2>2. \A n \in Heights : L[n] = NoLine /\ ~(n <= 0)
    BY <2>3 DEF Heights
  <2>4. L = [n \in Heights |-> IF 0 <= n /\ n <= 0 THEN L[n] ELSE NoLine]
    BY <2>2, <2>3, Zenon
  <2> QED
    BY <1>8, <2>1, <2>2, <2>3, <2>4 DEF RightHead, Same
<1>10. HeadPart
  <2>1. \A n \in Heights : ~(n < 0) /\ ~(n <= 0)
    BY DEF Heights
  <2> QED
    BY <1>1, <1>6, <1>9, <2>1 DEF HeadPart
<1>11. /\ store = [n \in Heights |-> NoLine] /\ blockRows = {} /\ applied = <<>> /\ etag = {}
       /\ gen = 0 /\ step = "idle" /\ named.epochs = <<>> /\ named.snapshot = {}
  BY <1>0 DEF ConsumerInit, NoFile, NoManifest
<1>12. LastEpochTo = 0
  BY <1>11 DEF LastEpochTo, NoFile
<1>13. SyncPart
  <2>1. Len(applied) = 0 /\ applied \in Hashes
    BY <1>11 DEF Hashes
  <2>2. Len(named.epochs) = 0 /\ named.epochs \in Seq(Hashes)
    BY <1>11
  <2> QED
    BY <1>4, <1>11, <2>1, <2>2 DEF SyncPart, RightHash, RightManifest
<1>14. TailPart
  BY <1>11 DEF TailPart
<1>15. StorePart
  <2>1. store \in LineMaps
    BY <1>7, <1>11
  <2>2. \A n \in Heights : ~(n <= 0) /\ store[n] = NoLine
    BY <1>11 DEF Heights
  <2> QED
    BY <1>8, <1>11, <1>12, <2>1, <2>2 DEF StorePart, Same
<1> QED
  BY <1>0, <1>3, <1>5, <1>10, <1>13, <1>14, <1>15 DEF FeedInv, PublisherPart, ConsumerPart

LEMMA FeedKeeps ==
  ASSUME MaxCrashes = 0, PubInv, FeedInv, [FeedNext]_vars
  PROVE  PubInv' /\ FeedInv'
<1>1. CASE PublisherStep /\ UNCHANGED consumerVars
  <2>1. PubInv'
    BY <1>1, LoopKeeps, OperatorKeeps, CrashKeeps DEF PublisherStep
  <2>2. PublisherPart' /\ Stable
    BY <1>1, PublisherFeed DEF FeedInv
  <2>3. ConsumerPart'
    BY <1>1, <2>2, ConsumerStays DEF FeedInv
  <2> QED
    BY <2>1, <2>2, <2>3 DEF FeedInv
<1>2. CASE ConsumerStep /\ UNCHANGED pubVars
  <2>1. PubInv' /\ PublisherPart'
    BY <1>2, StutterKeeps, Steady DEF FeedInv
  <2>2. ConsumerPart'
    BY <1>2, ConsumerFeed
  <2> QED
    BY <2>1, <2>2 DEF FeedInv
<1>3. CASE UNCHANGED vars
  <2>1. UNCHANGED pubVars /\ UNCHANGED consumerVars
    BY <1>3 DEF vars
  <2>2. PubInv' /\ PublisherPart' /\ Stable
    BY <2>1, StutterKeeps, Steady DEF FeedInv
  <2>3. ConsumerPart'
    BY <2>1, <2>2, ConsumerStays DEF FeedInv
  <2> QED
    BY <2>2, <2>3 DEF FeedInv
<1> QED
  BY <1>1, <1>2, <1>3 DEF FeedNext

LEMMA FeedInvariant == ASSUME MaxCrashes = 0 PROVE FeedSpec => [](PubInv /\ FeedInv)
<1>1. FeedInit => PubInv /\ FeedInv
  BY InitFeed
<1>2. PubInv /\ FeedInv /\ [FeedNext]_vars => (PubInv /\ FeedInv)'
  BY FeedKeeps
<1> QED
  BY <1>1, <1>2, PTL DEF FeedSpec

(***************************************************************************)
(* While the publisher does not die and no scan leaves a block incomplete, *)
(* a completed sync leaves exactly the publisher's mirror as of the head   *)
(* file it reports (apply_feed), however its requests interleave with      *)
(* cycles, cuts, snapshots, prunes and re-cuts, for every chain length,    *)
(* epoch size and number of reorganisations.                               *)
(***************************************************************************)
THEOREM SyncLeavesMirror ==
  ASSUME MaxCrashes = 0, Holes = {}
  PROVE  FeedSpec => []SyncedIsMirror
<1>1. PubInv /\ FeedInv => SyncedIsMirror
  <2> SUFFICES ASSUME PubInv, FeedInv, step = "synced", NEW f \in etag
               PROVE  store = [n \in Heights |-> IF n <= f.num THEN f.full[n] ELSE NoLine]
    BY DEF SyncedIsMirror
  <2>1. TailPart /\ StorePart /\ SyncPart
    BY DEF FeedInv, ConsumerPart
  <2>2. RightHead(f) /\ f.full \in LineMaps /\ store \in LineMaps /\ NoLine \in [era : Nat, whole : BOOLEAN]
    BY <2>1 DEF TailPart, RightHead, StorePart, NoLine
  <2>3. LastEpochTo \in Nat
    BY <2>1, FloorBelow DEF SyncPart
  <2>4. ASSUME NEW n \in Heights PROVE store[n] = IF n <= f.num THEN f.full[n] ELSE NoLine
    <3>1. /\ store[n] \in [era : Nat, whole : BOOLEAN] /\ f.full[n] \in [era : Nat, whole : BOOLEAN]
          /\ f.full[n].whole = TRUE /\ NoLine.era = 0 /\ NoLine.whole = TRUE
      BY <2>2 DEF LineMaps, RightHead, Same, NoLine
    <3>2. n <= LastEpochTo \/ n > LastEpochTo
      BY <2>3 DEF Heights
    <3>3. CASE n <= LastEpochTo
      <4>1. Shows(f, n) /\ Same(store[n], mirror[n])
        BY <2>1, <3>3 DEF TailPart, StorePart
      <4> QED
        BY <3>1, <4>1 DEF Shows, Same
    <3>4. CASE n > LastEpochTo
      <4>1. Same(store[n], IF n <= f.num THEN f.full[n].era ELSE 0)
        BY <2>1, <3>4 DEF StorePart
      <4>2. store[n].whole = TRUE /\ store[n].era = IF n <= f.num THEN f.full[n].era ELSE 0
        BY <4>1 DEF Same
      <4> QED
        BY <2>2, <3>1, <4>2
    <3> QED
      BY <3>2, <3>3, <3>4
  <2>5. store = [n \in Heights |-> store[n]]
    BY <2>2 DEF LineMaps
  <2> QED
    BY <2>4, <2>5, Zenon
<1> QED
  BY <1>1, FeedInvariant, PTL

(***************************************************************************)
(* While the publisher does not die, no step of a sync replaces or takes   *)
(* away a block row without bumping tail_generation in the same write      *)
(* (replace_range), incomplete blocks and re-cuts included, for every      *)
(* chain length, epoch size and number of reorganisations.                 *)
(***************************************************************************)
THEOREM ReplacementBumps ==
  ASSUME MaxCrashes = 0
  PROVE  FeedSpec => ReplacedBumps
<1>1. PubInv /\ FeedInv /\ [FeedNext]_vars => [Bumps]_vars
  <2> SUFFICES ASSUME PubInv, FeedInv, [FeedNext]_vars PROVE [Bumps]_vars
    OBVIOUS
  <2>1. CASE PublisherStep /\ UNCHANGED consumerVars
    BY <2>1 DEF Bumps, consumerVars, storeVars
  <2>2. CASE ConsumerStep /\ UNCHANGED pubVars
    BY <2>2, ConsumerFeed
  <2> QED
    BY <2>1, <2>2 DEF FeedNext
<1>2. FeedSpec => [][Bumps]_vars
  BY <1>1, FeedInvariant, PTL DEF FeedSpec
<1> QED
  BY <1>2 DEF ReplacedBumps, Bumps
=============================================================================
