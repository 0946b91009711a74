--------------------------- MODULE LiveHubProofs ---------------------------
(***************************************************************************)
(* Proofs about LiveHub, for every bound: no delta meets a subscriber      *)
(* without its base, and what the subscriber rebuilds is the head file.    *)
(***************************************************************************)
EXTENDS LiveHub, SequenceTheorems, TLAPS

(***************************************************************************)
(* Types.  A file, and what is shown or sent of it, is absent or one head; *)
(* once there is a file there is always one.  The rows reach the stored    *)
(* head and the epoch floor.                                               *)
(***************************************************************************)
Heads == [from : Nat \ {0}, head : Seq(Nat), chain : Seq(Nat)]
Shown == {None} \cup {{h} : h \in Heads}
Bases == SUBSET [etag : Heads, recs : Seq(Nat)]
HeadEventSet ==
  [name : {"head"}, etag : Heads, mode : {"full", "delta", "resync"},
   base : SUBSET Heads, recs : Seq(Nat)]
EventSet == [name : {"hello"}] \cup [name : {"epoch"}, e : Nat] \cup HeadEventSet
FilesType ==
  /\ node \in Seq(Nat) /\ era \in Nat /\ mirror \in Seq(Nat) /\ cuts \in Nat
  /\ headMeta \in Seq(Nat) /\ Len(headMeta) <= Len(mirror) /\ Floor <= Len(mirror)
  /\ announced \in Seq(SUBSET Seq(Nat))
  /\ file \in Shown
  /\ hub \in [head : Shown, epoch : Nat] /\ sent \in [head : Shown, epoch : Nat]
  /\ file = None => hub.head = None
  /\ hub.head = None => sent.head = None
StreamType ==
  /\ wire \in Seq(EventSet)
  /\ sub.base \in Bases /\ sub.head \in Bases
  /\ sub = [base |-> sub.base, head |-> sub.head, epoch |-> sub.epoch, gap |-> FALSE]

(***************************************************************************)
(* When the event at i of w is received, an assembler that has the base b  *)
(* before w holds the head p: p is the last head event before i, or b if   *)
(* there is none.  A delta is good where its base is held.                 *)
(***************************************************************************)
EpochsOnly(w, i, j) == \A k \in i..j : w[k].name = "epoch"
Whole(p) == [etag |-> p, recs |-> Records(p)]
Held(w, b, i, p) ==
  \/ \E j \in 1..(i - 1) : w[j].name = "head" /\ w[j].etag = p /\ EpochsOnly(w, j + 1, i - 1)
  \/ EpochsOnly(w, 1, i - 1) /\ b = {Whole(p)}
Joins(ev, p) ==
  /\ ev.base = {p} /\ Inline(p) /\ p.from = ev.etag.from
  /\ Records(p) \o ev.recs = Records(ev.etag)
Complete(ev) ==
  \/ ev.mode = "full" /\ Inline(ev.etag) /\ ev.recs = Records(ev.etag)
  \/ ev.mode = "resync" /\ ~Inline(ev.etag) /\ ev.recs = <<>>
Delta(ev, p) == ev.mode = "delta" /\ Inline(ev.etag) /\ p \in Heads /\ Joins(ev, p)
Good(w, b, i) == w[i].name = "head" => Complete(w[i]) \/ \E p : Delta(w[i], p) /\ Held(w, b, i, p)
WireInv ==
  /\ \A i \in 1..Len(wire) : Good(wire, sub.base, i)
  /\ conn = "open" => \A p \in sent.head : Inline(p) => Held(wire, sub.base, Len(wire) + 1, p)
  /\ conn = "closed" => wire = <<>>
  /\ conn \in {"open", "closed"}
LiveInv == FilesType /\ StreamType /\ WireInv /\ DeltaRebuilds
-----------------------------------------------------------------------------
LEMMA RecordsType == ASSUME NEW h \in Heads PROVE Records(h) \in Seq(Nat) /\ Len(Records(h)) \in Nat
<1>1. h.chain \in Seq(Nat) /\ h.from \in Nat \ {0} /\ Len(h.chain) \in Nat
  BY LenProperties DEF Heads
<1>2. \A i \in h.from..Len(h.chain) : h.chain[i] \in Nat
  BY <1>1, ElementOfSeq
<1>3. Records(h) \in Seq(Nat)
  BY <1>1, <1>2, SubSeqProperties DEF Records
<1> QED
  BY <1>3, LenProperties

LEMMA RestJoins ==
  ASSUME NEW a \in Seq(Nat), NEW b \in Seq(Nat), IsPrefix(a, b)
  PROVE  /\ SubSeq(b, Len(a) + 1, Len(b)) \in Seq(Nat)
         /\ a \o SubSeq(b, Len(a) + 1, Len(b)) = b
<1>1. Len(a) \in Nat /\ Len(b) \in Nat /\ Len(a) <= Len(b) /\ SubSeq(a, 1, Len(a)) = SubSeq(b, 1, Len(a))
  BY LenProperties DEF IsPrefix
<1>2. /\ \A i \in 1..Len(a) : a[i] \in Nat
      /\ \A i \in 1..Len(b) : b[i] \in Nat
  BY ElementOfSeq
<1>3. \A i \in 1..Len(a) : SubSeq(a, 1, Len(a))[i] = a[i]
  <2>1. \A i \in 1..(Len(a) - 1 + 1) : SubSeq(a, 1, Len(a))[i] = a[1 + i - 1]
    BY <1>1, <1>2, SubSeqProperties
  <2> QED
    BY <1>1, <2>1
<1>4. \A i \in 1..Len(a) : SubSeq(b, 1, Len(a))[i] = b[i]
  <2>1. \A i \in 1..Len(a) : b[i] \in Nat
    BY <1>1, <1>2
  <2>2. \A i \in 1..(Len(a) - 1 + 1) : SubSeq(b, 1, Len(a))[i] = b[1 + i - 1]
    BY <1>1, <2>1, SubSeqProperties
  <2> QED
    BY <1>1, <2>2
<1>5. \A i \in 1..Len(a) : a[i] = b[i]
  BY <1>1, <1>3, <1>4
<1> DEFINE r == SubSeq(b, Len(a) + 1, Len(b))
<1>6. /\ r \in Seq(Nat)
      /\ Len(r) = IF Len(a) + 1 <= Len(b) THEN Len(b) - (Len(a) + 1) + 1 ELSE 0
      /\ \A i \in 1..(Len(b) - (Len(a) + 1) + 1) : r[i] = b[Len(a) + 1 + i - 1]
  <2>1. \A i \in (Len(a) + 1)..Len(b) : b[i] \in Nat
    BY <1>1, <1>2
  <2> QED
    BY <1>1, <2>1, SubSeqProperties
<1> HIDE DEF r
<1>7. Len(r) = Len(b) - Len(a) /\ \A i \in 1..Len(r) : r[i] = b[Len(a) + i]
  BY <1>1, <1>6
<1> DEFINE c == a \o r
<1>8. c \in Seq(Nat) /\ Len(c) = Len(a) + Len(r) /\ \A i \in 1..(Len(a) + Len(r)) :
        c[i] = IF i <= Len(a) THEN a[i] ELSE r[i - Len(a)]
  BY <1>6, ConcatProperties
<1> HIDE DEF c
<1>9. ASSUME NEW i \in 1..Len(c) PROVE c[i] = b[i]
  <2>1. CASE i <= Len(a)
    BY <1>1, <1>5, <1>7, <1>8, <2>1
  <2>2. CASE ~(i <= Len(a))
    <3>1. i - Len(a) \in 1..Len(r) /\ Len(a) + (i - Len(a)) = i
      BY <1>1, <1>7, <1>8, <2>2
    <3>2. r[i - Len(a)] = b[i]
      BY <1>7, <3>1
    <3> QED
      BY <1>8, <2>2, <3>2
  <2> QED
    BY <2>1, <2>2
<1>10. c = b
  <2>1. c \in Seq(Nat) /\ Len(c) = Len(b)
    BY <1>1, <1>7, <1>8
  <2> QED
    BY ONLY b \in Seq(Nat), <2>1, <1>9, SeqEqual
<1> QED
  BY <1>6, <1>10 DEF c, r

(***************************************************************************)
(* What head_update makes of two heads: a whole head, a resync, or a delta *)
(* that completes the head last sent.                                      *)
(***************************************************************************)
LEMMA UpdateGood ==
  ASSUME NEW next \in Heads, NEW prev \in Shown
  PROVE  LET ev == HeadUpdate(next, prev)
         IN  /\ ev \in HeadEventSet /\ ev.etag = next
             /\ Complete(ev) \/ \E p \in prev : Delta(ev, p)
<1> DEFINE ev == HeadUpdate(next, prev)
<1>1. Records(next) \in Seq(Nat) /\ Len(Records(next)) \in Nat
  BY RecordsType
<1>2. CASE \E p \in prev : Appends(p, next)
  <2>1. PICK p \in Heads : prev = {p} /\ Appends(p, next)
    BY <1>2 DEF Shown, None
  <2>2. (CHOOSE q \in prev : TRUE) = p
    BY <2>1
  <2> DEFINE r == SubSeq(Records(next), Len(Records(p)) + 1, Len(Records(next)))
  <2>3. ev = [name |-> "head", etag |-> next, mode |-> "delta", base |-> {p}, recs |-> r]
    BY <1>2, <2>2 DEF HeadUpdate, HeadEvent
  <2>4. r \in Seq(Nat) /\ Records(p) \o r = Records(next)
    BY <1>1, <2>1, RecordsType, RestJoins DEF Appends
  <2>5. Inline(p) /\ Inline(next) /\ p.from = next.from
    BY <2>1 DEF Appends
  <2> HIDE DEF r
  <2>6. Delta(ev, p)
    BY <2>3, <2>4, <2>5 DEF Delta, Joins
  <2>7. ev \in HeadEventSet /\ ev.etag = next
    BY <2>3, <2>4 DEF HeadEventSet
  <2> QED
    BY <2>1, <2>6, <2>7
<1>3. CASE ~\E p \in prev : Appends(p, next)
  <2>1. ev = Full(next)
    BY <1>3 DEF HeadUpdate
  <2>2. CASE Inline(next)
    <3>1. ev = [name |-> "head", etag |-> next, mode |-> "full", base |-> {}, recs |-> Records(next)]
      BY <2>1, <2>2 DEF Full, HeadEvent, None
    <3> QED
      BY <1>1, <2>2, <3>1 DEF HeadEventSet, Complete
  <2>3. CASE ~Inline(next)
    <3>1. ev = [name |-> "head", etag |-> next, mode |-> "resync", base |-> {}, recs |-> <<>>]
      BY <2>1, <2>3 DEF Full, HeadEvent, None
    <3> QED
      BY <2>3, <3>1 DEF HeadEventSet, Complete
  <2> QED
    BY <2>2, <2>3
<1> QED
  BY <1>2, <1>3

(***************************************************************************)
(* What is held at an event depends on the events before it only, and      *)
(* moves up as the first event is received.                                *)
(***************************************************************************)
LEMMA HeldBefore ==
  ASSUME NEW w, NEW v, NEW b, NEW i \in Nat, NEW p, \A k \in 1..(i - 1) : v[k] = w[k], Held(w, b, i, p)
  PROVE  Held(v, b, i, p)
<1>1. CASE EpochsOnly(w, 1, i - 1) /\ b = {Whole(p)}
  BY <1>1 DEF Held, EpochsOnly
<1>2. CASE \E j \in 1..(i - 1) : w[j].name = "head" /\ w[j].etag = p /\ EpochsOnly(w, j + 1, i - 1)
  <2>1. PICK j \in 1..(i - 1) : w[j].name = "head" /\ w[j].etag = p /\ EpochsOnly(w, j + 1, i - 1)
    BY <1>2
  <2>2. v[j].name = "head" /\ v[j].etag = p /\ EpochsOnly(v, j + 1, i - 1)
    BY <2>1 DEF EpochsOnly
  <2> QED
    BY <2>2 DEF Held
<1> QED
  BY <1>1, <1>2 DEF Held

LEMMA HeldPastEpoch ==
  ASSUME NEW w, NEW b, NEW i \in Nat \ {0}, NEW p, Held(w, b, i, p), w[i].name = "epoch"
  PROVE  Held(w, b, i + 1, p)
<1>1. CASE EpochsOnly(w, 1, i - 1) /\ b = {Whole(p)}
  <2>1. EpochsOnly(w, 1, i + 1 - 1)
    BY <1>1 DEF EpochsOnly
  <2> QED
    BY <1>1, <2>1 DEF Held
<1>2. CASE \E j \in 1..(i - 1) : w[j].name = "head" /\ w[j].etag = p /\ EpochsOnly(w, j + 1, i - 1)
  <2>1. PICK j \in 1..(i - 1) : w[j].name = "head" /\ w[j].etag = p /\ EpochsOnly(w, j + 1, i - 1)
    BY <1>2
  <2>2. j \in 1..(i + 1 - 1) /\ EpochsOnly(w, j + 1, i + 1 - 1)
    BY <2>1 DEF EpochsOnly
  <2> QED
    BY <2>1, <2>2 DEF Held
<1> QED
  BY <1>1, <1>2 DEF Held

LEMMA HeldAfterFirst ==
  ASSUME NEW w \in Seq(EventSet), w # <<>>, NEW b, NEW c, NEW i \in 1..Len(w), NEW p,
         Held(w, b, i + 1, p),
         w[1].name = "epoch" => c = b,
         w[1].name = "head" /\ w[1].etag = p => c = {Whole(p)}
  PROVE  Held(Tail(w), c, i, p)
<1> DEFINE v == Tail(w)
<1>1. Len(w) \in Nat /\ Len(v) = Len(w) - 1 /\ \A k \in 1..Len(v) : v[k] = w[k + 1]
  BY LenProperties, HeadTailProperties
<1> HIDE DEF v
<1>2. \A k \in 1..(i - 1) : v[k] = w[k + 1]
  BY <1>1
<1>3. CASE EpochsOnly(w, 1, i + 1 - 1) /\ b = {Whole(p)}
  <2>1. w[1].name = "epoch"
    BY <1>1, <1>3 DEF EpochsOnly
  <2>2. EpochsOnly(v, 1, i - 1)
    BY <1>1, <1>2, <1>3 DEF EpochsOnly
  <2> QED
    BY <1>3, <2>1, <2>2 DEF Held, v
<1>4. CASE \E j \in 1..(i + 1 - 1) : w[j].name = "head" /\ w[j].etag = p /\ EpochsOnly(w, j + 1, i + 1 - 1)
  <2>1. PICK j \in 1..(i + 1 - 1) : w[j].name = "head" /\ w[j].etag = p /\ EpochsOnly(w, j + 1, i + 1 - 1)
    BY <1>4
  <2>2. CASE j = 1
    <3>1. EpochsOnly(v, 1, i - 1)
      BY <1>1, <1>2, <2>1, <2>2 DEF EpochsOnly
    <3> QED
      BY <2>1, <2>2, <3>1 DEF Held, v
  <2>3. CASE j # 1
    <3>1. j - 1 \in 1..(i - 1) /\ v[j - 1] = w[j]
      BY <1>1, <1>2, <2>3
    <3>2. EpochsOnly(v, j - 1 + 1, i - 1)
      BY <1>1, <1>2, <2>1, <2>3 DEF EpochsOnly
    <3> QED
      BY <2>1, <3>1, <3>2 DEF Held, v
  <2> QED
    BY <2>2, <2>3
<1> QED
  BY <1>3, <1>4 DEF Held
-----------------------------------------------------------------------------
LEMMA InitLive == Init => LiveInv
<1> SUFFICES ASSUME Init PROVE LiveInv
  OBVIOUS
<1>1. <<1>> \in Seq(Nat) /\ <<>> \in Seq(Nat) /\ <<>> \in Seq(SUBSET Seq(Nat)) /\ <<>> \in Seq(EventSet) /\ Len(<<>>) = 0
  BY EmptySeq
<1>2. FilesType
  BY <1>1, LiveAssumption DEF Init, FilesType, Floor, Shown, None
<1>3. StreamType
  BY <1>1 DEF Init, StreamType, Bases, None
<1>4. WireInv
  BY <1>1 DEF Init, WireInv
<1>5. DeltaRebuilds
  BY DEF Init, DeltaRebuilds, None
<1> QED
  BY <1>2, <1>3, <1>4, <1>5 DEF LiveInv

(***************************************************************************)
(* The node, the subscription and the main loop.                           *)
(***************************************************************************)
LEMMA TailFromType == cuts \in Nat => TailFrom \in Nat \ {0} /\ TailFrom + EpochSize \in Nat \ {0}
<1> SUFFICES ASSUME cuts \in Nat PROVE TailFrom \in Nat \ {0} /\ TailFrom + EpochSize \in Nat \ {0}
  OBVIOUS
<1>1. cuts * EpochSize \in Nat
  BY LiveAssumption
<1> QED
  BY <1>1, LiveAssumption DEF TailFrom, Floor

LEMMA FileType == FilesType => \A f \in Nat \ {0} : HeadOfDb(f) \in Heads
<1> SUFFICES ASSUME FilesType PROVE \A f \in Nat \ {0} : HeadOfDb(f) \in Heads
  OBVIOUS
<1>1. /\ Len(headMeta) \in Nat /\ Len(mirror) \in Nat /\ Len(headMeta) <= Len(mirror)
      /\ \A i \in 1..Len(mirror) : mirror[i] \in Nat
  BY LenProperties, ElementOfSeq DEF FilesType
<1>2. \A i \in 1..Len(headMeta) : mirror[i] \in Nat
  BY <1>1
<1>3. SubSeq(mirror, 1, Len(headMeta)) \in Seq(Nat)
  BY <1>1, <1>2, SubSeqProperties
<1> QED
  BY <1>3 DEF HeadOfDb, Heads, FilesType

LEMMA Spliced ==
  ASSUME NEW s \in Seq(Nat), NEW t \in Seq(Nat), NEW k \in Nat, k <= Len(s)
  PROVE  LET u == SubSeq(s, 1, k) \o SubSeq(t, k + 1, Len(t))
         IN  u \in Seq(Nat) /\ Len(u) = IF k + 1 <= Len(t) THEN Len(t) ELSE k
<1>1. /\ Len(s) \in Nat /\ Len(t) \in Nat
      /\ \A i \in 1..Len(s) : s[i] \in Nat
      /\ \A i \in 1..Len(t) : t[i] \in Nat
  BY LenProperties, ElementOfSeq
<1> DEFINE a == SubSeq(s, 1, k)
           b == SubSeq(t, k + 1, Len(t))
<1>2. a \in Seq(Nat) /\ Len(a) = k
  <2>1. \A i \in 1..k : s[i] \in Nat
    BY <1>1
  <2>2. a \in Seq(Nat) /\ Len(a) = IF 1 <= k THEN k - 1 + 1 ELSE 0
    BY <2>1, SubSeqProperties
  <2> QED
    BY <2>2
<1>3. b \in Seq(Nat) /\ Len(b) = IF k + 1 <= Len(t) THEN Len(t) - k ELSE 0
  <2>1. \A i \in (k + 1)..Len(t) : t[i] \in Nat
    BY <1>1
  <2>2. b \in Seq(Nat) /\ Len(b) = IF k + 1 <= Len(t) THEN Len(t) - (k + 1) + 1 ELSE 0
    BY <1>1, <2>1, SubSeqProperties
  <2> QED
    BY <1>1, <2>2
<1> HIDE DEF a, b
<1>4. a \o b \in Seq(Nat) /\ Len(a \o b) = Len(a) + Len(b)
  BY <1>2, <1>3, ConcatProperties
<1>5. Len(a \o b) = IF k + 1 <= Len(t) THEN Len(t) ELSE k
  BY <1>1, <1>2, <1>3, <1>4
<1> QED
  BY <1>4, <1>5 DEF a, b

LEMMA NodeFiles == FilesType /\ OfNode => FilesType'
<1> SUFFICES ASSUME FilesType, OfNode PROVE FilesType'
  OBVIOUS
<1>1. node' \in Seq(Nat) /\ era' \in Nat
  <2>1. CASE NodeGrows
    BY <2>1, AppendProperties DEF NodeGrows, FilesType
  <2>2. ASSUME NEW kept \in 0..MaxHeight, NodeReorgs(kept) PROVE node' \in Seq(Nat) /\ era' \in Nat
    <3>1. Len(node) \in Nat /\ kept < Len(node) /\ \A i \in 1..Len(node) : node[i] \in Nat
      BY <2>2, LenProperties, ElementOfSeq DEF NodeReorgs, FilesType
    <3>2. kept \in Int /\ \A i \in 1..kept : node[i] \in Nat
      BY <3>1, LiveAssumption
    <3>3. SubSeq(node, 1, kept) \in Seq(Nat)
      BY <3>2, SubSeqProperties
    <3>4. era + 1 \in Nat
      BY DEF FilesType, Floor
    <3> QED
      BY <2>2, <3>3, <3>4, AppendProperties DEF NodeReorgs
  <2> QED
    BY <2>1, <2>2 DEF OfNode, NodeStep
<1>2. UNCHANGED <<mirror, headMeta, cuts, file, hub, sent>>
  BY DEF OfNode, loopVars, connVars
<1>3. announced' = announced \/ announced' = <<{}>>
  BY DEF OfNode, NodeStep, NodeGrows, NodeReorgs, None
<1>4. <<{}>> \in Seq(SUBSET Seq(Nat))
  OBVIOUS
<1> QED
  BY <1>1, <1>2, <1>3, <1>4 DEF FilesType, Floor

LEMMA SubscriptionFiles ==
  FilesType /\ (\/ OfSubscription(WsAck) \/ OfSubscription(WsNewHead)
                \/ OfSubscription(WsReorg) \/ OfSubscription(WsLost)) => FilesType'
<1> SUFFICES ASSUME FilesType,
                    \/ OfSubscription(WsAck) \/ OfSubscription(WsNewHead)
                    \/ OfSubscription(WsReorg) \/ OfSubscription(WsLost)
             PROVE  FilesType'
  OBVIOUS
<1>1. UNCHANGED <<node, era, mirror, headMeta, cuts, file, hub, sent>>
  BY DEF OfSubscription, nodeVars, loopVars, connVars
<1>2. announced' = announced \/ announced' = <<{}>> \/ announced' = <<{node}>>
  BY DEF OfSubscription, WsAck, WsNewHead, WsReorg, WsLost, Wake, None
<1>3. <<{}>> \in Seq(SUBSET Seq(Nat)) /\ <<{node}>> \in Seq(SUBSET Seq(Nat))
  BY DEF FilesType, Floor
<1> QED
  BY <1>1, <1>2, <1>3 DEF FilesType, Floor

LEMMA LoopFiles == FilesType /\ OfLoop => FilesType'
<1> SUFFICES ASSUME FilesType, OfLoop PROVE FilesType'
  OBVIOUS
<1>1. UNCHANGED <<node, era, sent>>
  BY DEF OfLoop, nodeVars, connVars
<1>2. CASE CycleRuns /\ UNCHANGED <<demand, requested, hub>>
  <2>1. announced' \in Seq(SUBSET Seq(Nat)) /\ UNCHANGED <<cuts, file, hub>>
    BY <1>2 DEF CycleRuns, ReadTarget, FilesType
  <2>2. PICK latest \in Latest : \E kept \in Kept(latest) :
          /\ headMeta' = latest
          /\ mirror' = SubSeq(mirror, 1, kept) \o SubSeq(latest, kept + 1, Len(latest))
    BY <1>2 DEF CycleRuns
  <2>20. PICK kept \in Kept(latest) :
          mirror' = SubSeq(mirror, 1, kept) \o SubSeq(latest, kept + 1, Len(latest))
    BY <2>2
  <2>3. Target \subseteq Seq(Nat)
    <3>1. announced # <<>> => announced[1] \in SUBSET Seq(Nat)
      <4>1. announced # <<>> => Len(announced) \in Nat \ {0}
        BY EmptySeq DEF FilesType
      <4> QED
        BY <4>1, ElementOfSeq DEF FilesType
    <3> QED
      BY <3>1 DEF Target, None
  <2>4. latest \in Seq(Nat) /\ node \in Seq(Nat)
    BY <2>3 DEF Latest, FilesType
  <2>5. Floor \in Nat /\ Len(mirror) \in Nat /\ Len(headMeta) \in Nat
    BY LenProperties, LiveAssumption DEF FilesType, Floor
  <2>6. kept \in Nat /\ Floor <= kept /\ kept <= Len(mirror)
    <3>1. CASE kept = Len(mirror)
      BY <2>5, <3>1 DEF FilesType
    <3>2. CASE kept \in {Floor} \cup Standing
      BY <2>5, <3>2 DEF FilesType, Standing
    <3> QED
      BY <3>1, <3>2 DEF Kept, Ancestors
  <2>7. /\ mirror' \in Seq(Nat)
        /\ Len(mirror') = IF kept + 1 <= Len(latest) THEN Len(latest) ELSE kept
    <3> DEFINE u == SubSeq(mirror, 1, kept) \o SubSeq(latest, kept + 1, Len(latest))
    <3>1. mirror \in Seq(Nat)
      BY DEF FilesType
    <3>2. u \in Seq(Nat) /\ Len(u) = IF kept + 1 <= Len(latest) THEN Len(latest) ELSE kept
      BY ONLY <2>4, <2>6, <3>1, Spliced
    <3>3. mirror' = u
      BY <2>20
    <3> HIDE DEF u
    <3> QED
      BY <3>2, <3>3
  <2>8. Len(latest) \in Nat
    BY <2>4, LenProperties
  <2>9. /\ headMeta' \in Seq(Nat) /\ mirror' \in Seq(Nat)
        /\ Len(headMeta') <= Len(mirror') /\ Floor <= Len(mirror') /\ Floor' = Floor
    <3>1. Floor' = Floor
      BY <2>1 DEF Floor
    <3>2. headMeta' \in Seq(Nat) /\ Len(headMeta') = Len(latest)
      BY <2>2, <2>4
    <3>3. Len(latest) <= Len(mirror') /\ Floor <= Len(mirror')
      BY <2>5, <2>6, <2>7, <2>8
    <3> QED
      BY <2>7, <3>1, <3>2, <3>3
  <2> QED
    BY <1>1, <2>1, <2>9 DEF FilesType
<1>3. CASE CycleFails /\ UNCHANGED <<demand, requested, hub>>
  BY <1>1, <1>3 DEF CycleFails, ReadTarget, FilesType, Floor
<1>4. CASE RegenHead /\ UNCHANGED <<wakeVars, demand, requested, hub>>
  <2>1. HeadOfDb(TailFrom) \in Heads
    BY TailFromType, FileType DEF FilesType
  <2>2. file' = {HeadOfDb(TailFrom)} /\ UNCHANGED <<mirror, headMeta, cuts, announced, hub>>
    BY <1>4 DEF RegenHead, wakeVars
  <2> QED
    BY <1>1, <2>1, <2>2 DEF FilesType, Shown, None, Floor
<1>5. CASE CutEpoch /\ UNCHANGED <<wakeVars, demand, requested, hub>>
  <2> DEFINE h == HeadOfDb(TailFrom + EpochSize)
  <2>1. h \in Heads
    BY TailFromType, FileType DEF FilesType
  <2>2. /\ UNCHANGED <<mirror, headMeta, announced, hub>>
        /\ (\/ cuts' = cuts + 1 /\ file' = {h} /\ (cuts + 1) * EpochSize <= Len(mirror)
            \/ UNCHANGED <<cuts, file>>)
    BY <1>5 DEF CutEpoch, wakeVars
  <2> HIDE DEF h
  <2>3. cuts' \in Nat /\ file' \in Shown /\ (file' = None => file = None)
    <3>1. {h} \in Shown /\ {h} # None
      BY <2>1 DEF Shown, None
    <3>2. cuts \in Nat /\ file \in Shown
      BY DEF FilesType
    <3>3. cuts' = cuts + 1 \/ cuts' = cuts
      BY <2>2
    <3>4. file' = {h} \/ file' = file
      BY <2>2
    <3>5. cuts' \in Nat
      BY <3>2, <3>3
    <3> QED
      BY <3>1, <3>2, <3>4, <3>5
  <2>4. Floor' <= Len(mirror)
    BY <2>2 DEF Floor, FilesType
  <2> QED
    BY <1>1, <2>2, <2>3, <2>4 DEF FilesType
<1>6. CASE (WokenByHeads \/ WokenByDemand) /\ UNCHANGED <<wakeVars, requested, hub>>
  BY <1>1, <1>6 DEF WokenByHeads, WokenByDemand, wakeVars, FilesType, Floor
<1>7. CASE LoopRefresh /\ UNCHANGED <<wakeVars, demand>>
  <2>1. hub' = [head |-> file, epoch |-> cuts] /\ UNCHANGED <<mirror, headMeta, cuts, file, announced>>
    BY <1>7 DEF LoopRefresh, Refresh, wakeVars
  <2> QED
    BY <1>1, <2>1 DEF FilesType, Floor
<1> QED
  BY <1>2, <1>3, <1>4, <1>5, <1>6, <1>7 DEF OfLoop

LEMMA WireExtended ==
  ASSUME NEW w \in Seq(EventSet), NEW b, NEW x \in Seq(EventSet),
         \A i \in 1..Len(w) : Good(w, b, i)
  PROVE  LET v == w \o x
             n == Len(w)
         IN  /\ v \in Seq(EventSet) /\ Len(v) = n + Len(x) /\ Len(x) \in Nat /\ n \in Nat
             /\ \A k \in 1..Len(x) : v[n + k] = x[k]
             /\ \A i \in 1..n : Good(v, b, i)
             /\ \A p : Held(w, b, n + 1, p) => Held(v, b, n + 1, p)
<1> DEFINE v == w \o x
           n == Len(w)
<1>1. /\ v \in Seq(EventSet) /\ Len(v) = n + Len(x) /\ Len(x) \in Nat /\ n \in Nat
      /\ \A i \in 1..(n + Len(x)) : v[i] = IF i <= n THEN w[i] ELSE x[i - n]
  BY ConcatProperties, LenProperties
<1> HIDE DEF v, n
<1>2. \A k \in 1..n : v[k] = w[k]
  BY <1>1
<1>3. ASSUME NEW k \in 1..Len(x) PROVE v[n + k] = x[k]
  <2>1. n + k \in 1..(n + Len(x)) /\ ~(n + k <= n) /\ n + k - n = k
    BY <1>1
  <2> QED
    BY <1>1, <2>1
<1>4. ASSUME NEW i \in 1..(n + 1), NEW p, Held(w, b, i, p) PROVE Held(v, b, i, p)
  <2>1. i \in Nat
    BY <1>1
  <2>2. \A k \in 1..(i - 1) : v[k] = w[k]
    BY <1>1, <1>2
  <2> QED
    BY <1>4, <2>1, <2>2, HeldBefore
<1>5. ASSUME NEW i \in 1..n PROVE Good(v, b, i)
  <2>1. Good(w, b, i) /\ v[i] = w[i] /\ i \in 1..(n + 1)
    BY <1>1, <1>2 DEF n
  <2> QED
    BY <1>4, <2>1 DEF Good
<1>6. n + 1 \in 1..(n + 1)
  BY <1>1
<1>7. \A p : Held(w, b, n + 1, p) => Held(v, b, n + 1, p)
  BY <1>4, <1>6
<1> QED
  BY <1>1, <1>3, <1>5, <1>7 DEF v, n

(***************************************************************************)
(* A turn of the stream: what was held before the new events is held, and  *)
(* a delta follows the head last sent.                                     *)
(***************************************************************************)
LEMMA TurnKeeps == LiveInv /\ OfStream(StreamTurn) => LiveInv'
<1> SUFFICES ASSUME LiveInv, OfStream(StreamTurn) PROVE LiveInv'
  OBVIOUS
<1> USE DEF LiveInv
<1>1. /\ UNCHANGED <<node, era, announced, mirror, headMeta, cuts, file, hub, conn, sub>>
      /\ conn = "open" /\ sent' = hub /\ wire' = wire \o Events
  BY DEF OfStream, StreamTurn, nodeVars, wakeVars, loopVars
<1>2. FilesType'
  BY <1>1 DEF FilesType, Floor
<1>3. DeltaRebuilds'
  BY <1>1 DEF DeltaRebuilds
<1>4. wire \in Seq(EventSet) /\ Len(wire) \in Nat
  BY LenProperties DEF StreamType
<1> DEFINE n == Len(wire)
           b == sub.base
           e == [name |-> "epoch", e |-> hub.epoch]
           h == CHOOSE x \in hub.head : TRUE
           u == HeadUpdate(h, sent.head)
<1>5. e \in EventSet /\ e.name = "epoch"
  BY DEF EventSet, FilesType
<1>6. ASSUME hub.head # sent.head
      PROVE  /\ hub.head = {h} /\ u \in HeadEventSet /\ u \in EventSet /\ u.name = "head" /\ u.etag = h
             /\ Complete(u) \/ \E p \in sent.head : Delta(u, p) /\ Held(wire, b, n + 1, p)
  <2>1. sent.head \in Shown /\ hub.head \in Shown /\ hub.head # {}
    BY <1>6 DEF FilesType, None
  <2>2. hub.head = {h} /\ h \in Heads
    BY <2>1 DEF Shown, None
  <2> HIDE DEF h
  <2>3. u \in HeadEventSet /\ u.etag = h /\ (Complete(u) \/ \E p \in sent.head : Delta(u, p))
    BY <2>1, <2>2, UpdateGood
  <2>4. \A p \in sent.head : Delta(u, p) => Held(wire, b, n + 1, p)
    BY <1>1 DEF WireInv, Delta, Joins
  <2> HIDE DEF u
  <2> QED
    BY <2>2, <2>3, <2>4 DEF HeadEventSet, EventSet
<1> HIDE DEF n, b, e, h, u
<1>7. ASSUME NEW x \in Seq(EventSet), wire' = wire \o x
      PROVE  /\ wire' \in Seq(EventSet) /\ Len(wire') = n + Len(x) /\ Len(x) \in Nat /\ n \in Nat
             /\ \A k \in 1..Len(x) : wire'[n + k] = x[k]
             /\ \A i \in 1..n : Good(wire', b, i)
             /\ \A p : Held(wire, b, n + 1, p) => Held(wire', b, n + 1, p)
  <2>1. \A i \in 1..Len(wire) : Good(wire, b, i)
    BY DEF WireInv, b
  <2> QED
    BY <1>4, <1>7, <2>1, WireExtended DEF n
<1>8. \A p \in sent.head : Inline(p) => Held(wire, b, n + 1, p)
  BY <1>1 DEF WireInv, n, b
<1>9. SUFFICES wire' \in Seq(EventSet) /\ (\A i \in 1..Len(wire') : Good(wire', b, i))
               /\ \A p \in hub.head : Inline(p) => Held(wire', b, Len(wire') + 1, p)
  <2>1. StreamType'
    BY <1>1, <1>9 DEF StreamType
  <2>2. WireInv'
    BY <1>1, <1>9 DEF WireInv, b
  <2> QED
    BY <1>2, <1>3, <2>1, <2>2
<1>10. CASE hub.head = sent.head /\ hub.epoch = sent.epoch
  <2>1. Events = <<>>
    BY <1>10 DEF Events, EpochEvents, HeadEvents
  <2>2. wire' = wire /\ n \in Nat
    BY <1>1, <1>4, <2>1, ConcatEmptySeq DEF n
  <2>3. \A i \in 1..n : Good(wire, b, i)
    BY DEF WireInv, n, b
  <2> QED
    BY <1>4, <1>8, <1>10, <2>2, <2>3 DEF n
<1>11. CASE hub.head = sent.head /\ hub.epoch # sent.epoch
  <2>1. Events = <<e>>
    BY <1>11 DEF Events, EpochEvents, HeadEvents, e
  <2>2. <<e>> \in Seq(EventSet) /\ Len(<<e>>) = 1 /\ <<e>>[1] = e
    BY <1>5
  <2> DEFINE x == <<e>>
  <2>3. x \in Seq(EventSet) /\ Len(x) = 1 /\ x[1] = e /\ wire' = wire \o x
    BY <1>1, <2>1, <2>2
  <2> HIDE DEF x
  <2>20. /\ wire' \in Seq(EventSet) /\ Len(wire') = n + Len(x) /\ Len(x) \in Nat /\ n \in Nat
         /\ \A k \in 1..Len(x) : wire'[n + k] = x[k]
         /\ \A i \in 1..n : Good(wire', b, i)
         /\ \A p : Held(wire, b, n + 1, p) => Held(wire', b, n + 1, p)
    BY <1>7, <2>3
  <2>4. Len(wire') = n + 1 /\ wire'[n + 1] = e /\ n \in Nat
    BY <2>3, <2>20
  <2>21. \A i \in 1..Len(wire') : i \in 1..n \/ i = n + 1
    BY <2>4
  <2>22. Good(wire', b, n + 1)
    BY <1>5, <2>4 DEF Good
  <2>5. \A i \in 1..Len(wire') : Good(wire', b, i)
    BY <2>20, <2>21, <2>22
  <2>6. n + 1 \in Nat \ {0}
    BY <2>4
  <2>7. ASSUME NEW p \in hub.head, Inline(p) PROVE Held(wire', b, n + 1 + 1, p)
    BY <1>5, <1>8, <1>11, <2>20, <2>4, <2>6, <2>7, HeldPastEpoch
  <2> QED
    BY <2>20, <2>4, <2>5, <2>7
<1>12. CASE hub.head # sent.head /\ hub.epoch = sent.epoch
  <2>1. Events = <<u>>
    BY <1>12 DEF Events, EpochEvents, HeadEvents, u, h
  <2>2. <<u>> \in Seq(EventSet) /\ Len(<<u>>) = 1 /\ <<u>>[1] = u
    BY <1>6, <1>12
  <2> DEFINE x == <<u>>
  <2>3. x \in Seq(EventSet) /\ Len(x) = 1 /\ x[1] = u /\ wire' = wire \o x
    BY <1>1, <2>1, <2>2
  <2> HIDE DEF x
  <2>20. /\ wire' \in Seq(EventSet) /\ Len(wire') = n + Len(x) /\ Len(x) \in Nat /\ n \in Nat
         /\ \A k \in 1..Len(x) : wire'[n + k] = x[k]
         /\ \A i \in 1..n : Good(wire', b, i)
         /\ \A p : Held(wire, b, n + 1, p) => Held(wire', b, n + 1, p)
    BY <1>7, <2>3
  <2>4. Len(wire') = n + 1 /\ wire'[n + 1] = u /\ n \in Nat
    BY <2>3, <2>20
  <2>21. \A i \in 1..Len(wire') : i \in 1..n \/ i = n + 1
    BY <2>4
  <2>5. Good(wire', b, n + 1)
    BY <1>6, <1>12, <2>20, <2>4 DEF Good
  <2>6. \A i \in 1..Len(wire') : Good(wire', b, i)
    BY <2>20, <2>21, <2>5
  <2>7. Held(wire', b, n + 1 + 1, h)
    <3>1. n + 1 \in 1..(n + 1 + 1 - 1) /\ EpochsOnly(wire', n + 1 + 1, n + 1 + 1 - 1)
      BY <2>4 DEF EpochsOnly
    <3> QED
      BY <1>6, <1>12, <2>4, <3>1 DEF Held
  <2> QED
    BY <1>6, <1>12, <2>20, <2>4, <2>6, <2>7
<1>13. CASE hub.head # sent.head /\ hub.epoch # sent.epoch
  <2>1. Events = <<e>> \o <<u>>
    BY <1>13 DEF Events, EpochEvents, HeadEvents, e, u, h
  <2> DEFINE x == <<e>> \o <<u>>
  <2>0. e \in EventSet /\ u \in EventSet
    BY <1>5, <1>6, <1>13
  <2>2. x \in Seq(EventSet) /\ Len(x) = 2 /\ x[1] = e /\ x[2] = u
    <3>1. /\ <<e>> \in Seq(EventSet) /\ Len(<<e>>) = 1 /\ <<e>>[1] = e
          /\ <<u>> \in Seq(EventSet) /\ Len(<<u>>) = 1 /\ <<u>>[1] = u
      BY <2>0
    <3>2. /\ x \in Seq(EventSet) /\ Len(x) = Len(<<e>>) + Len(<<u>>)
          /\ \A i \in 1..(Len(<<e>>) + Len(<<u>>)) :
               x[i] = IF i <= Len(<<e>>) THEN <<e>>[i] ELSE <<u>>[i - Len(<<e>>)]
      BY <3>1, ConcatProperties
    <3> HIDE DEF x
    <3> QED
      BY <3>1, <3>2
  <2>3. wire' = wire \o x
    BY <1>1, <2>1
  <2> HIDE DEF x
  <2>20. /\ wire' \in Seq(EventSet) /\ Len(wire') = n + Len(x) /\ Len(x) \in Nat /\ n \in Nat
         /\ \A k \in 1..Len(x) : wire'[n + k] = x[k]
         /\ \A i \in 1..n : Good(wire', b, i)
         /\ \A p : Held(wire, b, n + 1, p) => Held(wire', b, n + 1, p)
    BY <1>7, <2>2, <2>3
  <2>4. Len(wire') = n + 2 /\ wire'[n + 1] = e /\ wire'[n + 2] = u /\ n \in Nat
    BY <2>2, <2>20
  <2>5. ASSUME NEW p, Held(wire, b, n + 1, p) PROVE Held(wire', b, n + 2, p)
    <3>1. n + 1 \in Nat \ {0} /\ n + 1 + 1 = n + 2 /\ Held(wire', b, n + 1, p) /\ wire'[n + 1].name = "epoch"
      BY <1>5, <2>20, <2>4, <2>5
    <3>2. Held(wire', b, n + 1 + 1, p)
      BY <3>1, HeldPastEpoch
    <3> QED
      BY <3>1, <3>2
  <2>6. Good(wire', b, n + 1) /\ Good(wire', b, n + 2)
    BY <1>5, <1>6, <1>13, <2>4, <2>5 DEF Good
  <2>7. \A i \in 1..Len(wire') : i \in 1..n \/ i = n + 1 \/ i = n + 2
    BY <2>4
  <2>8. \A i \in 1..Len(wire') : Good(wire', b, i)
    BY <2>20, <2>6, <2>7
  <2>9. Held(wire', b, n + 2 + 1, h)
    <3>1. n + 2 \in 1..(n + 2 + 1 - 1) /\ EpochsOnly(wire', n + 2 + 1, n + 2 + 1 - 1)
      BY <2>4 DEF EpochsOnly
    <3> QED
      BY <1>6, <1>13, <2>4, <3>1 DEF Held
  <2> QED
    BY <1>6, <1>13, <2>20, <2>4, <2>8, <2>9
<1> QED
  BY <1>10, <1>11, <1>12, <1>13

(***************************************************************************)
(* A connection opens, or is lost.                                         *)
(***************************************************************************)
LEMMA ConnectKeeps == LiveInv /\ (Connects \/ OfStream(DropStream)) => LiveInv'
<1> SUFFICES ASSUME LiveInv, Connects \/ OfStream(DropStream) PROVE LiveInv'
  OBVIOUS
<1> USE DEF LiveInv
<1>1. CASE Connects
  <2>1. /\ UNCHANGED <<node, era, announced, mirror, headMeta, cuts, file, sub>>
        /\ hub' = [head |-> file, epoch |-> cuts] /\ conn' = "open"
        /\ sent' = [head |-> None, epoch |-> 0] /\ wire' = <<[name |-> "hello"]>>
    BY <1>1 DEF Connects, Connect, Refresh, nodeVars, wakeVars, loopVars
  <2>2. FilesType'
    BY <2>1 DEF FilesType, Shown, Floor
  <2>3. [name |-> "hello"] \in EventSet
    BY DEF EventSet
  <2>4. wire' \in Seq(EventSet) /\ Len(wire') = 1 /\ wire'[1] = [name |-> "hello"]
    BY <2>1, <2>3
  <2>5. StreamType'
    BY <2>1, <2>4 DEF StreamType
  <2>6. WireInv'
    BY <2>1, <2>4 DEF WireInv, Good, None
  <2>7. DeltaRebuilds'
    BY <2>1 DEF DeltaRebuilds
  <2> QED
    BY <2>2, <2>5, <2>6, <2>7
<1>2. CASE OfStream(DropStream)
  <2>1. UNCHANGED <<node, era, announced, mirror, headMeta, cuts, file, hub, sub, sent>> /\ conn' = "closed" /\ wire' = <<>>
    BY <1>2 DEF OfStream, DropStream, CloseStream, nodeVars, wakeVars, loopVars
  <2>2. FilesType'
    BY <2>1 DEF FilesType, Floor
  <2>3. wire' \in Seq(EventSet) /\ Len(wire') = 0
    BY <2>1, EmptySeq
  <2>4. StreamType'
    BY <2>1, <2>3 DEF StreamType
  <2>5. WireInv'
    BY <2>1, <2>3 DEF WireInv
  <2>6. DeltaRebuilds'
    BY <2>1 DEF DeltaRebuilds
  <2> QED
    BY <2>2, <2>4, <2>5, <2>6
<1> QED
  BY <1>1, <1>2

(***************************************************************************)
(* An event is received: a delta finds its base.                           *)
(***************************************************************************)
LEMMA ReceiveKeeps == LiveInv /\ OfStream(Receive) => LiveInv'
<1> SUFFICES ASSUME LiveInv, OfStream(Receive) PROVE LiveInv'
  OBVIOUS
<1> USE DEF LiveInv
<1> DEFINE ev == Head(wire)
<1>1. UNCHANGED <<node, era, announced, mirror, headMeta, cuts, file, hub>> /\ conn = "open" /\ wire # <<>>
  BY DEF OfStream, Receive, nodeVars, wakeVars, loopVars
<1>2. /\ wire \in Seq(EventSet) /\ Len(wire) \in Nat \ {0} /\ ev = wire[1]
      /\ ev \in EventSet /\ Tail(wire) \in Seq(EventSet) /\ Len(Tail(wire)) = Len(wire) - 1
      /\ \A k \in 1..Len(Tail(wire)) : Tail(wire)[k] = wire[k + 1]
  BY <1>1, EmptySeq, HeadTailProperties DEF StreamType
<1>3. Good(wire, sub.base, 1)
  BY <1>2 DEF WireInv
<1> HIDE DEF ev
<1>4. ASSUME wire' = Tail(wire), UNCHANGED <<conn, sent>>, NEW c, c = sub.base',
             ev.name = "epoch" => c = sub.base,
             \A p : ev.name = "head" /\ ev.etag = p /\ Inline(p) => c = {Whole(p)}
      PROVE  WireInv'
  <2> DEFINE v == Tail(wire)
             m == Len(wire)
  <2>0. m \in Nat \ {0} /\ Len(v) = m - 1 /\ \A k \in 1..Len(v) : v[k] = wire[k + 1]
    BY <1>2
  <2> HIDE DEF v, m
  <2>1. ASSUME NEW i \in 1..m, NEW p, Inline(p), Held(wire, sub.base, i + 1, p)
        PROVE  Held(v, c, i, p)
    <3>1. wire[1].name = "epoch" => c = sub.base
      BY <1>2, <1>4
    <3>2. wire[1].name = "head" /\ wire[1].etag = p => c = {Whole(p)}
      BY <1>2, <1>4, <2>1
    <3> QED
      BY <1>1, <1>2, <2>1, <3>1, <3>2, HeldAfterFirst DEF v, m
  <2>2. ASSUME NEW i \in 1..Len(v) PROVE Good(v, c, i)
    <3>1. i + 1 \in 1..m /\ i \in 1..m /\ v[i] = wire[i + 1]
      BY <2>0
    <3>2. Good(wire, sub.base, i + 1)
      BY <3>1 DEF WireInv, m
    <3>3. \A p : Delta(wire[i + 1], p) /\ Held(wire, sub.base, i + 1, p) => Held(v, c, i, p)
      BY <2>1, <3>1 DEF Delta, Joins
    <3> QED
      BY <3>1, <3>2, <3>3 DEF Good
  <2>3. \A p \in sent.head : Inline(p) => Held(v, c, m, p)
    <3>1. \A p \in sent.head : Inline(p) => Held(wire, sub.base, m + 1, p)
      BY <1>1 DEF WireInv, m
    <3>2. m \in 1..m
      BY <2>0
    <3> QED
      BY <2>1, <3>1, <3>2
  <2>4. Len(v) + 1 = m
    BY <2>0
  <2>5. wire' = v
    BY <1>4 DEF v
  <2> QED
    BY <1>1, <1>4, <2>2, <2>3, <2>4, <2>5 DEF WireInv
<1>5. CASE ev.name = "head"
  <2>1. TakeHead(ev)
    BY <1>5 DEF OfStream, Receive, ev
  <2>2. ev \in HeadEventSet
    BY <1>2, <1>5 DEF EventSet, HeadEventSet
  <2>3. ev.etag \in Heads /\ ev.recs \in Seq(Nat) /\ Records(ev.etag) \in Seq(Nat)
    BY <2>2, RecordsType DEF HeadEventSet
  <2> DEFINE r == IF Inline(ev.etag) THEN Records(ev.etag) ELSE <<>>
  <2>4. Rebuilt(ev) = {r} /\ (ev.mode = "resync" <=> ~Inline(ev.etag))
    <3>1. CASE Complete(ev)
      BY <3>1 DEF Complete, Rebuilt
    <3>2. CASE \E p : Delta(ev, p) /\ Held(wire, sub.base, 1, p)
      <4>1. PICK p : Delta(ev, p) /\ Held(wire, sub.base, 1, p)
        BY <3>2
      <4>2. sub.base = {Whole(p)}
        BY <4>1 DEF Held
      <4>3. ev.mode = "delta" /\ Inline(ev.etag) /\ ev.base = {p} /\ p.from = ev.etag.from
            /\ Records(p) \o ev.recs = Records(ev.etag)
        BY <4>1 DEF Delta, Joins
      <4>4. {x \in sub.base : ev.base = {x.etag} /\ x.etag.from = ev.etag.from} = {Whole(p)}
        BY <4>2, <4>3 DEF Whole
      <4>5. Rebuilt(ev) = {x.recs \o ev.recs : x \in {Whole(p)}}
        BY <4>3, <4>4 DEF Rebuilt
      <4>6. Rebuilt(ev) = {Records(p) \o ev.recs}
        BY <4>5 DEF Whole
      <4> QED
        BY <4>3, <4>6
    <3> QED
      BY <1>2, <1>3, <1>5, <3>1, <3>2 DEF Good
  <2> DEFINE hd == {[etag |-> ev.etag, recs |-> r]}
             nb == IF ev.mode = "resync" THEN None ELSE hd
  <2>5. r \in Seq(Nat)
    BY <2>3, EmptySeq
  <2>6. /\ sub' = [sub EXCEPT !.base = nb, !.head = hd]
        /\ wire' = Tail(wire) /\ UNCHANGED <<conn, sent>>
    <3>1. Rebuilt(ev) # {}
      BY <2>4
    <3>2. {[etag |-> ev.etag, recs |-> x] : x \in Rebuilt(ev)} = hd
      BY <2>4
    <3> QED
      BY <2>1, <3>1, <3>2 DEF TakeHead
  <2>7. hd \in Bases /\ nb \in Bases
    BY <2>3, <2>5 DEF Bases, None
  <2>8. Inline(ev.etag) => nb = {Whole(ev.etag)}
    BY <2>4 DEF Whole
  <2>9. \A x \in hd : x.recs = IF Inline(x.etag) THEN Records(x.etag) ELSE <<>>
    OBVIOUS
  <2> HIDE DEF hd, nb, r
  <2>10. sub' = [base |-> nb, head |-> hd, epoch |-> sub.epoch, gap |-> FALSE]
    <3> DEFINE b == sub.base
               d == sub.head
               e == sub.epoch
    <3>1. sub = [base |-> b, head |-> d, epoch |-> e, gap |-> FALSE]
      BY DEF StreamType
    <3> HIDE DEF b, d, e
    <3>2. sub' = [base |-> nb, head |-> hd, epoch |-> e, gap |-> FALSE]
      BY <2>6, <3>1
    <3> QED
      BY <3>2 DEF e
  <2>11. FilesType'
    BY <1>1, <2>6 DEF FilesType, Floor
  <2>12. StreamType'
    BY <1>2, <2>6, <2>7, <2>10 DEF StreamType
  <2>13. WireInv'
    <3>1. nb = sub.base'
      BY <2>10
    <3> QED
      BY <1>4, <1>5, <2>6, <2>8, <3>1
  <2>14. DeltaRebuilds'
    BY <2>9, <2>10 DEF DeltaRebuilds
  <2> QED
    BY <2>11, <2>12, <2>13, <2>14
<1>6. CASE ev.name # "head"
  <2>1. ev.name \in {"hello", "epoch"}
    BY <1>2, <1>6 DEF EventSet, HeadEventSet
  <2>2. /\ wire' = Tail(wire) /\ UNCHANGED <<conn, sent>>
        /\ ev.name = "hello" => sub' = [sub EXCEPT !.base = None]
        /\ ev.name = "epoch" => sub' = [sub EXCEPT !.epoch = ev.e]
    BY <1>6, <2>1 DEF OfStream, Receive, ev
  <2>3. /\ sub'.head = sub.head /\ sub'.gap = FALSE /\ sub'.base \in Bases
        /\ sub' = [base |-> sub'.base, head |-> sub'.head, epoch |-> sub'.epoch, gap |-> FALSE]
        /\ ev.name = "epoch" => sub'.base = sub.base
    <3> DEFINE b == sub.base
               d == sub.head
               e == sub.epoch
    <3>1. sub = [base |-> b, head |-> d, epoch |-> e, gap |-> FALSE] /\ b \in Bases /\ {} \in Bases
      BY DEF StreamType, Bases
    <3> HIDE DEF b, d, e
    <3>2. CASE ev.name = "hello"
      <4>1. sub' = [base |-> {}, head |-> d, epoch |-> e, gap |-> FALSE]
        BY <2>2, <3>1, <3>2 DEF None
      <4> QED
        BY <3>1, <3>2, <4>1
    <3>3. CASE ev.name = "epoch"
      <4>1. sub' = [base |-> b, head |-> d, epoch |-> ev.e, gap |-> FALSE]
        BY <2>2, <3>1, <3>3
      <4> QED
        BY <3>1, <4>1
    <3> QED
      BY <2>1, <3>2, <3>3
  <2>4. FilesType'
    BY <1>1, <2>2 DEF FilesType, Floor
  <2>5. StreamType'
    BY <1>2, <2>2, <2>3 DEF StreamType
  <2>6. WireInv'
    BY <1>4, <1>6, <2>2, <2>3
  <2>7. DeltaRebuilds'
    BY <2>3 DEF DeltaRebuilds
  <2> QED
    BY <2>4, <2>5, <2>6, <2>7
<1> QED
  BY <1>5, <1>6

LEMMA NextLive == LiveInv /\ [Next]_vars => LiveInv'
<1> SUFFICES ASSUME LiveInv, [Next]_vars PROVE LiveInv'
  OBVIOUS
<1>1. CASE FilesType' /\ UNCHANGED connVars
  <2>1. UNCHANGED <<conn, sent, wire, sub>>
    BY <1>1 DEF connVars
  <2>2. StreamType'
    BY <2>1 DEF LiveInv, StreamType
  <2>3. WireInv'
    BY <2>1 DEF LiveInv, WireInv
  <2>4. DeltaRebuilds'
    BY <2>1 DEF LiveInv, DeltaRebuilds
  <2> QED
    BY <1>1, <2>2, <2>3, <2>4 DEF LiveInv
<1>2. CASE OfNode
  BY <1>1, <1>2, NodeFiles DEF LiveInv, OfNode
<1>3. CASE \/ OfSubscription(WsAck) \/ OfSubscription(WsNewHead)
           \/ OfSubscription(WsReorg) \/ OfSubscription(WsLost)
  <2>1. UNCHANGED connVars
    BY <1>3 DEF OfSubscription
  <2> QED
    BY <1>1, <1>3, <2>1, SubscriptionFiles DEF LiveInv
<1>4. CASE OfLoop
  BY <1>1, <1>4, LoopFiles DEF LiveInv, OfLoop
<1>5. CASE OfReader \/ UNCHANGED vars
  <2>1. UNCHANGED <<node, era, announced, mirror, headMeta, cuts, file, hub>> /\ UNCHANGED connVars
    BY <1>5 DEF OfReader, vars, nodeVars, wakeVars, loopVars
  <2>2. UNCHANGED sent
    BY <2>1 DEF connVars
  <2>3. FilesType'
    BY <2>1, <2>2 DEF LiveInv, FilesType, Floor
  <2> QED
    BY <1>1, <2>1, <2>3
<1> QED
  BY <1>2, <1>3, <1>4, <1>5, TurnKeeps, ConnectKeeps, ReceiveKeeps DEF Next

(***************************************************************************)
(* However updates coalesce, epochs are cut and connections end, no delta  *)
(* meets a subscriber without its base and what the subscriber rebuilds is *)
(* the head file, for every chain, epoch size, inline limit and number of  *)
(* events under way (head_update, LiveHeadAssembler.receive).              *)
(***************************************************************************)
THEOREM SubscriberRebuildsHeads == Spec => []DeltaRebuilds
<1>1. LiveInv => DeltaRebuilds
  BY DEF LiveInv
<1> QED
  BY <1>1, InitLive, NextLive, PTL DEF Spec
=============================================================================
