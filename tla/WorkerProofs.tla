---------------------------- MODULE WorkerProofs ----------------------------
(***************************************************************************)
(* Proofs about Worker, for every bound: a worker that reports success and *)
(* has nothing to do has verified the published chain, and the store keeps *)
(* the verified root.                                                      *)
(***************************************************************************)
EXTENDS Worker, SequenceTheorems, WellFoundedInduction, TLAPS

(***************************************************************************)
(* Types.                                                                  *)
(***************************************************************************)
Chains(e) == {c \in Seq(Nat) : \A i \in 1..Len(c) : c[i] <= e}
Heads == [from : Nat, chain : Seq(Nat)]
EventSet == [name : {"epoch"}, epoch : Nat, whole : BOOLEAN] \cup [name : {"head"}, head : Heads]
Manifests == [epochs : Nat, head : Nat]
Jobs == [kind : {"none", "live", "read"},
         step : {"none", "manifest", "head", "checkpoint", "epochs"},
         block : Nat, retry : Nat, cp : Seq(Nat)]
FeedType ==
  /\ era \in Nat /\ chain \in Chains(era)
  /\ cuts \in 0..MaxCuts /\ cuts * EpochSize <= Len(chain)
StreamType ==
  /\ sent \in [head : SUBSET Heads, epoch : Nat]
  /\ wire \in Seq(EventSet)
  /\ \A i \in 1..Len(wire) : wire[i].name = "epoch" => wire[i].epoch <= cuts
SyncType ==
  /\ queuedHead \subseteq Heads
  /\ queuedEpochs \subseteq 0..cuts
  /\ manifest \subseteq Manifests /\ \A m, n \in manifest : m = n /\ m.epochs <= cuts
  /\ job \in Jobs
  /\ job.kind = "read" => job.block # 0
  /\ job.step # "none" => job.kind # "none"
  /\ requested \in Nat
  /\ prepared \subseteq Seq(Nat)
  /\ staged \subseteq Heads

(***************************************************************************)
(* News of the chain is coming: the stream has not sent it yet, or a head  *)
(* is under way, or a live update is queued.                               *)
(***************************************************************************)
IsHead(i) == wire[i].name = "head"
OnStream == (\A h \in sent.head : h.chain # chain) \/ \E i \in 1..Len(wire) : IsHead(i)
Coming == OnStream \/ liveQueued

(***************************************************************************)
(* The stream: no head it sent is ahead of the chain, and the last head    *)
(* under way is the head last sent.  The queued head is the chain's.       *)
(***************************************************************************)
Begins(q, c) == Len(q) <= Len(c) /\ \A j \in 1..Len(q) : q[j] = c[j]
SentInv ==
  /\ \A h \in sent.head : h.chain \in Chains(era) /\ (Begins(chain, h.chain) => h.chain = chain)
  /\ \A i \in 1..Len(wire) : IsHead(i) /\ (\A k \in (i + 1)..Len(wire) : ~IsHead(k)) =>
       \A h \in sent.head : h.chain = wire[i].head.chain
QueueInv ==
  \A h \in queuedHead : (h.chain = chain \/ OnStream) /\ (~Inline(h) => needsCatchup = TRUE)

(***************************************************************************)
(* The job: an unbounded update works on the chain, or news is coming.     *)
(***************************************************************************)
OnChain == \A m \in manifest : m.head = Len(chain)
JobInv ==
  /\ job.block = 0 /\ job.step = "head" => OnChain \/ Coming
  /\ job.block = 0 /\ job.step \in {"checkpoint", "epochs"} =>
       (OnChain /\ \A h \in staged : h.chain = chain) \/ Coming
  /\ job.step = "epochs" => \A m \in manifest : Len(job.cp) = Bound(m)
OutcomeInv == job = NoJob /\ outcome = "ok" => store.verified = chain \/ Coming
WorkerInv ==
  FeedType /\ StreamType /\ SyncType /\ SentInv /\ QueueInv /\ JobInv /\ OutcomeInv
-----------------------------------------------------------------------------
(***************************************************************************)
(* Sequences.                                                              *)
(***************************************************************************)
LEMMA PartOfChain ==
  ASSUME NEW c \in Seq(Nat), NEW k \in Nat \ {0}, NEW n \in 0..Len(c), k <= n + 1
  PROVE  /\ SubSeq(c, k, n) \in Seq(Nat) /\ Len(SubSeq(c, k, n)) = n - k + 1
         /\ \A i \in 1..(n - k + 1) : SubSeq(c, k, n)[i] = c[k + i - 1]
<1>1. Len(c) \in Nat /\ n \in Int /\ k \in Int /\ \A i \in 1..Len(c) : c[i] \in Nat
  BY LenProperties, ElementOfSeq
<1>2. \A i \in k..n : c[i] \in Nat
  BY <1>1
<1>3. /\ SubSeq(c, k, n) \in Seq(Nat)
      /\ Len(SubSeq(c, k, n)) = IF k <= n THEN n - k + 1 ELSE 0
      /\ \A i \in 1..(n - k + 1) : SubSeq(c, k, n)[i] = c[k + i - 1]
  BY <1>1, <1>2, SubSeqProperties
<1> QED
  BY <1>1, <1>3

LEMMA PartsJoin ==
  ASSUME NEW c \in Seq(Nat), NEW k \in 0..Len(c)
  PROVE  SubSeq(c, 1, k) \o SubSeq(c, k + 1, Len(c)) = c
<1>1. Len(c) \in Nat /\ 1 \in Nat \ {0} /\ k + 1 \in Nat \ {0} /\ 1 <= k + 1 /\ k + 1 <= Len(c) + 1
      /\ Len(c) \in 0..Len(c)
  BY LenProperties
<1> DEFINE a == SubSeq(c, 1, k)
           b == SubSeq(c, k + 1, Len(c))
           d == a \o b
<1>2. a \in Seq(Nat) /\ Len(a) = k - 1 + 1 /\ \A i \in 1..(k - 1 + 1) : a[i] = c[1 + i - 1]
  BY <1>1, PartOfChain
<1>3. /\ b \in Seq(Nat) /\ Len(b) = Len(c) - (k + 1) + 1
      /\ \A i \in 1..(Len(c) - (k + 1) + 1) : b[i] = c[k + 1 + i - 1]
  BY <1>1, PartOfChain
<1> HIDE DEF a, b
<1>4. /\ d \in Seq(Nat) /\ Len(d) = Len(a) + Len(b)
      /\ \A i \in 1..(Len(a) + Len(b)) : d[i] = IF i <= Len(a) THEN a[i] ELSE b[i - Len(a)]
  BY <1>2, <1>3, ConcatProperties
<1> HIDE DEF d
<1>5. Len(a) = k /\ Len(b) = Len(c) - k /\ Len(d) = Len(c)
  BY <1>1, <1>2, <1>3, <1>4
<1>6. ASSUME NEW i \in 1..Len(d) PROVE d[i] = c[i]
  <2>1. CASE i <= k
    <3>1. i \in 1..(k - 1 + 1) /\ 1 + i - 1 = i /\ i \in 1..(Len(a) + Len(b)) /\ i <= Len(a)
      BY <1>1, <1>5, <2>1
    <3> QED
      BY <1>2, <1>4, <3>1
  <2>2. CASE ~(i <= k)
    <3>1. /\ i - k \in 1..(Len(c) - (k + 1) + 1) /\ k + 1 + (i - k) - 1 = i
          /\ i \in 1..(Len(a) + Len(b)) /\ ~(i <= Len(a)) /\ i - Len(a) = i - k
      BY <1>1, <1>5, <2>2
    <3>2. d[i] = b[i - k] /\ b[i - k] = c[k + 1 + (i - k) - 1]
      BY <1>3, <1>4, <3>1
    <3> QED
      BY <3>1, <3>2
  <2> QED
    BY <2>1, <2>2
<1>7. d = c
  BY <1>1, <1>4, <1>5, <1>6, SeqEqual
<1> QED
  BY <1>7 DEF a, b, d

LEMMA WholePrefix ==
  ASSUME NEW a \in Seq(Nat), NEW b \in Seq(Nat), IsPrefix(a, b), Len(a) = Len(b)
  PROVE  a = b
<1>1. Len(a) \in Nat /\ Len(b) \in Nat /\ SubSeq(a, 1, Len(a)) = SubSeq(b, 1, Len(a))
  BY LenProperties DEF IsPrefix
<1>2. 1 \in Nat \ {0} /\ Len(a) \in 0..Len(a) /\ Len(a) \in 0..Len(b) /\ 1 <= Len(a) + 1
  BY <1>1
<1>3. \A i \in 1..(Len(a) - 1 + 1) : SubSeq(a, 1, Len(a))[i] = a[1 + i - 1]
  BY <1>2, PartOfChain
<1>4. \A i \in 1..(Len(a) - 1 + 1) : SubSeq(b, 1, Len(a))[i] = b[1 + i - 1]
  BY <1>2, PartOfChain
<1>5. ASSUME NEW i \in 1..Len(a) PROVE a[i] = b[i]
  <2>1. i \in 1..(Len(a) - 1 + 1) /\ 1 + i - 1 = i
    BY <1>1
  <2> QED
    BY <1>1, <1>3, <1>4, <2>1
<1> QED
  BY <1>5, SeqEqual

(***************************************************************************)
(* The greatest element of a bounded set is one of its elements.           *)
(***************************************************************************)
LEMMA MaxInSet ==
  ASSUME NEW n \in Nat, NEW S, S \subseteq 0..n, S # {}
  PROVE  Max(S) \in S
<1> DEFINE T == {n - x : x \in S}
<1>0. \A x \in S : n - x \in Nat
  OBVIOUS
<1>1. T \subseteq Nat /\ T # {}
  BY <1>0
<1>2. PICK t \in T : \A u \in T : ~(<<u, t>> \in OpToRel(<, Nat))
  BY <1>1, NatLessThanWellFounded, WFMin
<1>3. PICK x \in S : t = n - x
  OBVIOUS
<1>4. ASSUME NEW y \in S PROVE x >= y
  <2>1. n - y \in T /\ n - y \in Nat /\ t \in Nat
    BY <1>1
  <2>2. ~(n - y < t)
    BY <1>2, <2>1 DEF OpToRel
  <2>3. x \in 0..n /\ y \in 0..n
    OBVIOUS
  <2> QED
    BY <1>3, <2>2, <2>3
<1> QED
  BY <1>4 DEF Max

LEMMA ReachBelow ==
  ASSUME FeedType, SyncType, NEW m \in Manifests, m.epochs <= cuts
  PROVE  Reach(m) \in Nat /\ Reach(m) <= cuts
<1> DEFINE S == {k \in m.epochs..MaxCuts : (m.epochs + 1)..k \subseteq queuedEpochs}
<1>1. m.epochs \in Nat /\ cuts \in Nat /\ MaxCuts \in Nat /\ cuts <= MaxCuts
  BY WorkerAssumption DEF Manifests, FeedType
<1>2. m.epochs \in S /\ S \subseteq 0..MaxCuts
  BY <1>1
<1>3. Max(S) \in S
  <2>1. S # {}
    BY <1>2
  <2> HIDE DEF S
  <2> QED
    BY <1>1, <1>2, <2>1, MaxInSet
<1>4. ASSUME NEW k \in S PROVE k \in Nat /\ k <= cuts
  <2>1. k \in m.epochs..MaxCuts /\ (m.epochs + 1)..k \subseteq queuedEpochs
    OBVIOUS
  <2>2. CASE k = m.epochs
    BY <1>1, <2>2
  <2>3. CASE k # m.epochs
    <3>1. k \in (m.epochs + 1)..k
      BY <1>1, <2>1, <2>3
    <3> QED
      BY <1>1, <2>1, <3>1 DEF SyncType
  <2> QED
    BY <2>2, <2>3
<1>5. Reach(m) = Max(S)
  BY DEF Reach
<1> HIDE DEF S
<1> QED
  BY <1>3, <1>4, <1>5

LEMMA FloorBelow ==
  ASSUME FeedType, NEW e \in Nat, e <= cuts
  PROVE  e * EpochSize \in Nat /\ e * EpochSize <= Len(chain)
<1>1. cuts \in Nat /\ EpochSize \in Nat /\ Len(chain) \in Nat /\ cuts * EpochSize <= Len(chain)
  BY WorkerAssumption, LenProperties DEF FeedType, Chains
<1>2. PICK d \in Nat : cuts = e + d
  <2>1. cuts - e \in Nat /\ cuts = e + (cuts - e)
    BY <1>1
  <2> QED
    BY <2>1
<1>3. e * EpochSize \in Nat /\ d * EpochSize \in Nat
  BY <1>1
<1>4. (e + d) * EpochSize = e * EpochSize + d * EpochSize
  BY <1>1
<1> QED
  BY <1>1, <1>2, <1>3, <1>4
-----------------------------------------------------------------------------
(***************************************************************************)
(* Jobs: the fields an update leaves alone.                                *)
(***************************************************************************)
Steps == {"none", "manifest", "head", "checkpoint", "epochs"}
LEMMA NoJobIs ==
  /\ NoJob \in Jobs /\ NoJob.kind = "none" /\ NoJob.step = "none" /\ NoJob.block = 0
  /\ NoJob.retry = 0 /\ NoJob.cp = <<>>
<1>1. <<>> \in Seq(Nat)
  BY EmptySeq
<1> DEFINE e == <<>>
<1>2. e \in Seq(Nat)
  BY <1>1
<1>3. NoJob = [kind |-> "none", step |-> "none", block |-> 0, retry |-> 0, cp |-> e]
  BY DEF NoJob
<1> HIDE DEF e
<1>4. /\ NoJob \in Jobs /\ NoJob.kind = "none" /\ NoJob.step = "none" /\ NoJob.block = 0
      /\ NoJob.retry = 0 /\ NoJob.cp = e
  BY <1>2, <1>3 DEF Jobs
<1> QED
  BY <1>4 DEF e

LEMMA JobStep ==
  ASSUME NEW j \in Jobs, NEW s \in Steps
  PROVE  /\ [j EXCEPT !.step = s] \in Jobs
         /\ [j EXCEPT !.step = s].kind = j.kind /\ [j EXCEPT !.step = s].step = s
         /\ [j EXCEPT !.step = s].block = j.block /\ [j EXCEPT !.step = s].retry = j.retry
         /\ [j EXCEPT !.step = s].cp = j.cp
BY DEF Jobs, Steps

LEMMA OpeningIs ==
  /\ Opening \in Jobs /\ Opening.kind = "live" /\ Opening.step = "manifest"
  /\ Opening.block = 0 /\ Opening.retry = 0
BY NoJobIs DEF Jobs, Opening

LEMMA JobRetries ==
  ASSUME NEW j \in Jobs, NEW b \in Nat
  PROVE  /\ [j EXCEPT !.retry = 1, !.step = "manifest", !.block = b] \in Jobs
         /\ [j EXCEPT !.retry = 1, !.step = "manifest", !.block = b].kind = j.kind
         /\ [j EXCEPT !.retry = 1, !.step = "manifest", !.block = b].step = "manifest"
         /\ [j EXCEPT !.retry = 1, !.step = "manifest", !.block = b].block = b
BY DEF Jobs

LEMMA JobChecks ==
  ASSUME NEW j \in Jobs, NEW c \in Seq(Nat)
  PROVE  /\ [j EXCEPT !.step = "epochs", !.cp = c] \in Jobs
         /\ [j EXCEPT !.step = "epochs", !.cp = c].kind = j.kind
         /\ [j EXCEPT !.step = "epochs", !.cp = c].step = "epochs"
         /\ [j EXCEPT !.step = "epochs", !.cp = c].block = j.block
         /\ [j EXCEPT !.step = "epochs", !.cp = c].cp = c
BY DEF Jobs

LEMMA InitWorker == Init => WorkerInv
<1> SUFFICES ASSUME Init PROVE WorkerInv
  OBVIOUS
<1>1. <<1>> \in Seq(Nat) /\ Len(<<1>>) = 1 /\ <<1>>[1] = 1 /\ <<>> \in Seq(Nat) /\ <<>> \in Seq(EventSet) /\ Len(<<>>) = 0
  BY EmptySeq
<1>2. FeedType
  <2>1. <<1>> \in Chains(1)
    BY <1>1 DEF Chains
  <2>2. cuts * EpochSize <= Len(chain)
    BY <1>1, WorkerAssumption DEF Init
  <2> QED
    BY <2>1, <2>2, WorkerAssumption DEF Init, FeedType
<1>3. StreamType
  BY <1>1 DEF Init, StreamType, None
<1>4. SyncType
  BY OpeningIs DEF Init, SyncType, None
<1>5. SentInv
  BY <1>1 DEF Init, SentInv, None
<1>6. QueueInv
  BY DEF Init, QueueInv, None
<1>7. JobInv /\ OutcomeInv
  BY OpeningIs, NoJobIs DEF Init, JobInv, OutcomeInv
<1> QED
  BY <1>2, <1>3, <1>4, <1>5, <1>6, <1>7 DEF WorkerInv

(***************************************************************************)
(* A block, or a reorganisation: nothing the stream sent is the new chain. *)
(***************************************************************************)
LEMMA ChainKeeps == WorkerInv /\ Publish /\ ~Cut => WorkerInv'
<1> SUFFICES ASSUME WorkerInv, Publish, ~Cut PROVE WorkerInv'
  OBVIOUS
<1> USE DEF WorkerInv
<1>1. UNCHANGED <<sent, wire, queuedHead, queuedEpochs, needsCatchup, liveQueued>>
      /\ UNCHANGED <<manifest, requested, job, outcome, prepared, staged, store>>
  BY DEF Publish, streamVars, queueVars, syncVars, engineVars
<1>2. /\ era \in Nat /\ chain \in Seq(Nat) /\ Len(chain) \in Nat
      /\ \A i \in 1..Len(chain) : chain[i] \in Nat /\ chain[i] <= era
  BY LenProperties, ElementOfSeq DEF FeedType, Chains
<1>3. \A h \in sent.head : /\ h.chain \in Seq(Nat) /\ Len(h.chain) \in Nat /\ h.chain \in Chains(era)
                           /\ \A i \in 1..Len(h.chain) : h.chain[i] \in Nat /\ h.chain[i] <= era
  BY LenProperties, ElementOfSeq DEF SentInv, Chains
<1>4. /\ FeedType' /\ UNCHANGED cuts /\ era <= era' /\ era' \in Nat
      /\ \A h \in sent.head : ~Begins(chain', h.chain)
  <2>1. CASE Grow
    <3>1. chain' = Append(chain, era) /\ era' = era /\ cuts' = cuts
      BY <2>1 DEF Grow
    <3>2. /\ chain' \in Seq(Nat) /\ Len(chain') = Len(chain) + 1
          /\ \A i \in 1..Len(chain) : chain'[i] = chain[i]
          /\ chain'[Len(chain) + 1] = era
      BY <1>2, <3>1, AppendProperties
    <3>3. chain' \in Chains(era')
      <4> SUFFICES ASSUME NEW i \in 1..Len(chain') PROVE chain'[i] <= era
        BY <3>1, <3>2 DEF Chains
      <4>1. i \in 1..Len(chain) \/ i = Len(chain) + 1
        BY <1>2, <3>2
      <4>2. CASE i \in 1..Len(chain)
        <5>1. chain'[i] = chain[i]
          BY <3>2, <4>2
        <5> QED
          BY <1>2, <4>2, <5>1
      <4>3. CASE i = Len(chain) + 1
        BY <1>2, <3>2, <4>3
      <4> QED
        BY <4>1, <4>2, <4>3
    <3>4. cuts * EpochSize <= Len(chain')
      <4>1. cuts * EpochSize \in Nat
        BY <1>2, WorkerAssumption, FloorBelow DEF FeedType
      <4> QED
        BY <1>2, <3>2, <4>1 DEF FeedType
    <3>5. ASSUME NEW h \in sent.head, Begins(chain', h.chain) PROVE FALSE
      <4>1. Len(chain) + 1 <= Len(h.chain)
        BY <3>2, <3>5 DEF Begins
      <4>2. \A j \in 1..Len(chain) : chain[j] = h.chain[j]
        <5>1. \A j \in 1..Len(chain) : j \in 1..Len(chain') /\ chain'[j] = chain[j]
          BY <1>2, <3>2
        <5>2. \A j \in 1..Len(chain') : chain'[j] = h.chain[j]
          BY <3>5 DEF Begins
        <5> QED
          BY <5>1, <5>2
      <4>3. Begins(chain, h.chain)
        BY <1>2, <1>3, <4>1, <4>2 DEF Begins
      <4>4. h.chain = chain
        BY <4>3 DEF SentInv
      <4> QED
        BY <1>2, <4>1, <4>4
    <3> QED
      BY <1>2, <3>1, <3>3, <3>4, <3>5 DEF FeedType
  <2>2. CASE \E kept \in 0..(MaxHeight - 1) : Reorg(kept)
    <3>1. PICK kept \in 0..(MaxHeight - 1) : Reorg(kept)
      BY <2>2
    <3>2. /\ chain' = Append(SubSeq(chain, 1, kept), era + 1) /\ era' = era + 1 /\ cuts' = cuts
          /\ cuts * EpochSize <= kept /\ kept \in 0..Len(chain)
      BY <1>2, <3>1, WorkerAssumption DEF Reorg
    <3> DEFINE s == SubSeq(chain, 1, kept)
    <3>3. s \in Seq(Nat) /\ Len(s) = kept /\ \A i \in 1..kept : s[i] = chain[i]
      <4>1. s \in Seq(Nat) /\ Len(s) = kept - 1 + 1 /\ \A i \in 1..(kept - 1 + 1) : s[i] = chain[1 + i - 1]
        BY <1>2, <3>2, PartOfChain
      <4> HIDE DEF s
      <4> QED
        BY <1>2, <3>2, <4>1
    <3> HIDE DEF s
    <3>4. /\ chain' \in Seq(Nat) /\ Len(chain') = kept + 1
          /\ \A i \in 1..kept : chain'[i] = s[i]
          /\ chain'[kept + 1] = era + 1
      BY <1>2, <3>2, <3>3, AppendProperties DEF s
    <3>5. chain' \in Chains(era')
      <4> SUFFICES ASSUME NEW i \in 1..Len(chain') PROVE chain'[i] <= era + 1
        BY <3>2, <3>4 DEF Chains
      <4>1. (i \in 1..kept /\ i \in 1..Len(chain)) \/ i = kept + 1
        BY <1>2, <3>2, <3>4
      <4>2. CASE i \in 1..kept /\ i \in 1..Len(chain)
        <5>1. chain'[i] = chain[i]
          BY <3>3, <3>4, <4>2
        <5> QED
          BY <1>2, <4>2, <5>1
      <4>3. CASE i = kept + 1
        BY <1>2, <3>4, <4>3
      <4> QED
        BY <4>1, <4>2, <4>3
    <3>6. cuts * EpochSize <= Len(chain')
      <4>1. cuts * EpochSize \in Nat
        BY <1>2, WorkerAssumption, FloorBelow DEF FeedType
      <4> QED
        BY <1>2, <3>2, <3>4, <4>1
    <3>7. ASSUME NEW h \in sent.head, Begins(chain', h.chain) PROVE FALSE
      <4>1. kept + 1 \in 1..Len(chain') /\ kept + 1 \in 1..Len(h.chain)
        BY <1>2, <1>3, <3>2, <3>4, <3>7 DEF Begins
      <4>2. h.chain[kept + 1] = era + 1
        BY <3>4, <3>7, <4>1 DEF Begins
      <4> QED
        BY <1>2, <1>3, <4>1, <4>2
    <3> QED
      BY <1>2, <3>2, <3>5, <3>6, <3>7 DEF FeedType
  <2> QED
    BY <2>1, <2>2 DEF Publish
<1>5. \A h \in sent.head : h.chain \in Chains(era') /\ h.chain # chain'
  <2>1. Begins(chain', chain')
    <3>1. Len(chain') \in Nat
      BY <1>4, LenProperties DEF FeedType, Chains
    <3> QED
      BY <3>1 DEF Begins
  <2>2. ASSUME NEW h \in sent.head PROVE h.chain \in Chains(era')
    <3>1. \A i \in 1..Len(h.chain) : h.chain[i] <= era'
      BY <1>2, <1>3, <1>4
    <3> QED
      BY <1>3, <3>1 DEF Chains
  <2> QED
    BY <1>4, <2>1, <2>2
<1>6. OnStream'
  BY <1>1, <1>5 DEF OnStream
<1>7. StreamType' /\ SyncType'
  BY <1>1, <1>4 DEF StreamType, SyncType
<1>8. SentInv'
  BY <1>1, <1>4, <1>5 DEF SentInv, IsHead
<1>9. QueueInv'
  BY <1>1, <1>6 DEF QueueInv, Inline
<1>10. JobInv'
  BY <1>1, <1>6 DEF JobInv, Coming, Bound
<1>11. OutcomeInv'
  BY <1>6 DEF OutcomeInv, Coming
<1> QED
  BY <1>4, <1>7, <1>8, <1>9, <1>10, <1>11

LEMMA CutKeeps == WorkerInv /\ Publish /\ Cut => WorkerInv'
<1> SUFFICES ASSUME WorkerInv, Publish, Cut PROVE WorkerInv'
  OBVIOUS
<1> USE DEF WorkerInv
<1>1. UNCHANGED <<chain, era, sent, wire, queuedHead, queuedEpochs, needsCatchup, liveQueued>>
      /\ UNCHANGED <<manifest, requested, job, outcome, prepared, staged, store>>
  BY DEF Publish, Cut, streamVars, queueVars, syncVars, engineVars
<1>2. cuts' = cuts + 1 /\ cuts < MaxCuts /\ (cuts + 1) * EpochSize <= Len(chain) /\ cuts \in Nat
  BY DEF Cut, FeedType
<1>3. FeedType'
  BY <1>1, <1>2, WorkerAssumption DEF FeedType
<1>4. StreamType'
  <2>1. \A i \in 1..Len(wire) : wire[i].name = "epoch" => wire[i].epoch \in Nat
    BY ElementOfSeq DEF StreamType, EventSet
  <2> QED
    BY <1>1, <1>2, <2>1 DEF StreamType
<1>5. SyncType'
  BY <1>1, <1>2 DEF SyncType, Manifests
<1>6. SentInv' /\ OutcomeInv'
  BY <1>1 DEF SentInv, IsHead, OutcomeInv, Coming, OnStream
<1>7. QueueInv'
  BY <1>1 DEF QueueInv, OnStream, IsHead, Inline
<1>8. JobInv'
  BY <1>1 DEF JobInv, Coming, OnStream, IsHead, OnChain, Bound
<1> QED
  BY <1>3, <1>4, <1>5, <1>6, <1>7, <1>8

(***************************************************************************)
(* The stream: news that was coming still is.                              *)
(***************************************************************************)
LEMMA NewsKeeps ==
  ASSUME WorkerInv, OnStream => OnStream', UNCHANGED <<chain, liveQueued, job, manifest, staged>>,
         UNCHANGED <<outcome, store>>
  PROVE  JobInv' /\ OutcomeInv'
<1>1. Coming => Coming'
  BY DEF Coming
<1> QED
  BY <1>1 DEF WorkerInv, JobInv, OutcomeInv, OnChain, Bound

LEMMA StreamTurnKeeps == WorkerInv /\ StreamTurn => WorkerInv'
<1> SUFFICES ASSUME WorkerInv, StreamTurn PROVE WorkerInv'
  OBVIOUS
<1> USE DEF WorkerInv
<1>1. /\ UNCHANGED <<chain, era, cuts, queuedHead, queuedEpochs, needsCatchup, liveQueued>>
      /\ UNCHANGED <<manifest, requested, job, outcome, prepared, staged, store>>
  BY DEF StreamTurn, feedVars, queueVars, syncVars, engineVars
<1>0. PICK v \in BOOLEAN :
        wire' = wire
          \o (IF sent.epoch = cuts THEN <<>> ELSE <<[name |-> "epoch", epoch |-> cuts, whole |-> v]>>)
          \o (IF sent.head = {HeadFile} THEN <<>> ELSE <<[name |-> "head", head |-> HeadFile]>>)
  <2>1. PICK x \in EpochEvents : wire' = wire \o x \o HeadEvents
    BY DEF StreamTurn
  <2>2. CASE sent.epoch = cuts
    BY <2>1, <2>2 DEF EpochEvents, HeadEvents
  <2>3. CASE sent.epoch # cuts
    BY <2>1, <2>3 DEF EpochEvents, HeadEvents
  <2> QED
    BY <2>2, <2>3
<1> DEFINE a == [name |-> "epoch", epoch |-> cuts, whole |-> v]
           b == [name |-> "head", head |-> HeadFile]
           w == IF sent.epoch = cuts THEN wire ELSE Append(wire, a)
<1>2. /\ cuts \in Nat /\ era \in Nat /\ chain \in Seq(Nat) /\ chain \in Chains(era)
      /\ wire \in Seq(EventSet) /\ Len(wire) \in Nat
  BY LenProperties DEF FeedType, StreamType, Chains
<1>3. HeadFile \in Heads /\ HeadFile.chain = chain
  <2>1. cuts * EpochSize \in Nat
    BY <1>2, FloorBelow
  <2> DEFINE p == cuts * EpochSize + 1
  <2>2. p \in Nat
    BY <2>1
  <2>3. HeadFile = [from |-> p, chain |-> chain]
    BY DEF HeadFile
  <2> HIDE DEF p
  <2> QED
    BY <1>2, <2>2, <2>3 DEF Heads
<1>4. a \in EventSet /\ b \in EventSet /\ a.name = "epoch" /\ a.epoch = cuts
      /\ b.name = "head" /\ b.head = HeadFile
  <2> HIDE DEF HeadFile
  <2> QED
    BY <1>2, <1>3 DEF EventSet
<1> HIDE DEF a, b
<1>5. wire' = IF sent.head = {HeadFile} THEN w ELSE Append(w, b)
  <2>1. wire' = wire
       \o (IF sent.epoch = cuts THEN <<>> ELSE <<a>>)
       \o (IF sent.head = {HeadFile} THEN <<>> ELSE <<b>>)
    BY <1>0 DEF a, b
  <2>2. wire \o <<>> = wire /\ wire \o <<a>> = Append(wire, a)
    BY <1>2, <1>4, ConcatEmptySeq, AppendIsConcat
  <2>3. Append(wire, a) \in Seq(EventSet)
    BY <1>2, <1>4, AppendProperties
  <2>4. w \in Seq(EventSet)
    BY <1>2, <2>3
  <2>5. wire' = w \o (IF sent.head = {HeadFile} THEN <<>> ELSE <<b>>)
    BY <2>1, <2>2
  <2> HIDE DEF w
  <2>6. w \o <<>> = w /\ w \o <<b>> = Append(w, b)
    BY <1>4, <2>4, ConcatEmptySeq, AppendIsConcat
  <2> QED
    BY <2>5, <2>6
<1>6. /\ w \in Seq(EventSet) /\ Len(w) \in Nat /\ Len(wire) <= Len(w)
      /\ \A i \in 1..Len(wire) : w[i] = wire[i]
      /\ \A i \in (Len(wire) + 1)..Len(w) : w[i] = a
  <2>1. CASE sent.epoch = cuts
    BY <1>2, <2>1
  <2>2. CASE sent.epoch # cuts
    <3>1. /\ Append(wire, a) \in Seq(EventSet) /\ Len(Append(wire, a)) = Len(wire) + 1
          /\ \A i \in 1..Len(wire) : Append(wire, a)[i] = wire[i]
          /\ Append(wire, a)[Len(wire) + 1] = a
      BY <1>2, <1>4, AppendProperties
    <3>2. w = Append(wire, a)
      BY <2>2
    <3> HIDE DEF w
    <3> QED
      BY <1>2, <3>1, <3>2
  <2> QED
    BY <2>1, <2>2
<1> HIDE DEF w
<1>7. /\ wire' \in Seq(EventSet) /\ Len(wire') \in Nat /\ Len(w) <= Len(wire')
      /\ \A i \in 1..Len(w) : wire'[i] = w[i]
      /\ sent.head = {HeadFile} => Len(wire') = Len(w)
      /\ sent.head # {HeadFile} => Len(wire') = Len(w) + 1 /\ wire'[Len(wire')] = b
  <2>1. CASE sent.head = {HeadFile}
    BY <1>5, <1>6, <2>1
  <2>2. CASE sent.head # {HeadFile}
    <3>1. /\ Append(w, b) \in Seq(EventSet) /\ Len(Append(w, b)) = Len(w) + 1
          /\ \A i \in 1..Len(w) : Append(w, b)[i] = w[i]
          /\ Append(w, b)[Len(w) + 1] = b
      BY <1>4, <1>6, AppendProperties
    <3> QED
      BY <1>5, <1>6, <2>2, <3>1
  <2> QED
    BY <2>1, <2>2
<1>8. sent' = [head |-> {HeadFile}, epoch |-> cuts]
  BY DEF StreamTurn
<1>9. \A i \in 1..Len(wire') :
         \/ i \in 1..Len(wire) /\ wire'[i] = wire[i]
         \/ i \in (Len(wire) + 1)..Len(w) /\ wire'[i] = a
         \/ i = Len(wire') /\ sent.head # {HeadFile} /\ wire'[i] = b
  <2> SUFFICES ASSUME NEW i \in 1..Len(wire')
               PROVE  \/ i \in 1..Len(wire) /\ wire'[i] = wire[i]
                      \/ i \in (Len(wire) + 1)..Len(w) /\ wire'[i] = a
                      \/ i = Len(wire') /\ sent.head # {HeadFile} /\ wire'[i] = b
    OBVIOUS
  <2>1. CASE i \in 1..Len(w)
    <3>1. i \in 1..Len(wire) \/ i \in (Len(wire) + 1)..Len(w)
      BY <1>2, <1>6, <2>1
    <3> QED
      BY <1>6, <1>7, <2>1, <3>1
  <2>2. CASE ~(i \in 1..Len(w))
    <3>1. sent.head # {HeadFile} /\ i = Len(wire')
      BY <1>6, <1>7, <2>2
    <3> QED
      BY <1>7, <3>1
  <2> QED
    BY <2>1, <2>2
<1>10. FeedType' /\ SyncType'
  BY <1>1 DEF FeedType, SyncType
<1>11. StreamType'
  <2>1. sent' \in [head : SUBSET Heads, epoch : Nat]
    <3>1. {HeadFile} \subseteq Heads
      BY <1>3
    <3> HIDE DEF HeadFile
    <3> QED
      BY <1>2, <1>8, <3>1
  <2>2. ASSUME NEW i \in 1..Len(wire'), wire'[i].name = "epoch" PROVE wire'[i].epoch <= cuts
    <3>1. CASE i \in 1..Len(wire) /\ wire'[i] = wire[i]
      BY <1>2, <2>2, <3>1 DEF StreamType
    <3>2. CASE wire'[i] = a
      BY <1>2, <1>4, <3>2
    <3>3. CASE wire'[i] = b
      BY <1>2, <1>4, <2>2, <3>3
    <3> QED
      BY <1>9, <3>1, <3>2, <3>3
  <2> QED
    BY <1>1, <1>7, <2>1, <2>2 DEF StreamType
<1>12. sent'.head = {HeadFile}
  BY <1>8
<1>13. SentInv'
  <2>1. \A h \in sent'.head : h.chain = chain
    BY <1>3, <1>12
  <2>2. ASSUME NEW i \in 1..Len(wire'), IsHead(i)', \A k \in (i + 1)..Len(wire') : ~IsHead(k)'
        PROVE  wire'[i].head.chain = chain
    <3>1. CASE i = Len(wire') /\ sent.head # {HeadFile} /\ wire'[i] = b
      BY <1>3, <1>4, <3>1
    <3>2. CASE i \in (Len(wire) + 1)..Len(w) /\ wire'[i] = a
      BY <1>4, <2>2, <3>2 DEF IsHead
    <3>3. CASE i \in 1..Len(wire) /\ wire'[i] = wire[i]
      <4>1. CASE sent.head = {HeadFile}
        <5>1. IsHead(i)
          BY <2>2, <3>3 DEF IsHead
        <5>2. ASSUME NEW k \in (i + 1)..Len(wire) PROVE ~IsHead(k)
          <6>1. k \in (i + 1)..Len(wire') /\ k \in 1..Len(wire) /\ k \in 1..Len(w)
            BY <1>2, <1>6, <1>7, <3>3
          <6>2. wire'[k] = wire[k]
            BY <1>6, <1>7, <6>1
          <6> QED
            BY <2>2, <6>1, <6>2 DEF IsHead
        <5>3. HeadFile.chain = wire[i].head.chain
          BY <3>3, <4>1, <5>1, <5>2 DEF SentInv
        <5> QED
          BY <1>3, <3>3, <5>3
      <4>2. CASE sent.head # {HeadFile}
        <5>1. Len(wire') \in (i + 1)..Len(wire') /\ wire'[Len(wire')] = b
          BY <1>2, <1>6, <1>7, <3>3, <4>2
        <5> QED
          BY <1>4, <2>2, <5>1 DEF IsHead
      <4> QED
        BY <4>1, <4>2
    <3> QED
      BY <1>9, <3>1, <3>2, <3>3
  <2> QED
    BY <1>1, <1>2, <2>1, <2>2 DEF SentInv
<1>14. OnStream => OnStream'
  <2>1. CASE \A h \in sent.head : h.chain # chain
    <3>1. sent.head # {HeadFile}
      BY <1>3, <2>1
    <3>2. Len(wire') \in 1..Len(wire') /\ wire'[Len(wire')].name = "head"
      BY <1>4, <1>6, <1>7, <3>1
    <3> QED
      BY <3>2 DEF OnStream, IsHead
  <2>2. ASSUME NEW i \in 1..Len(wire), IsHead(i) PROVE OnStream'
    <3>1. i \in 1..Len(w) /\ i \in 1..Len(wire') /\ wire'[i] = wire[i]
      BY <1>2, <1>6, <1>7
    <3> QED
      BY <2>2, <3>1 DEF OnStream, IsHead
  <2> QED
    BY <2>1, <2>2 DEF OnStream
<1>15. QueueInv'
  BY <1>1, <1>14 DEF QueueInv, Inline
<1>16. JobInv' /\ OutcomeInv'
  BY <1>1, <1>14, NewsKeeps
<1> QED
  BY <1>10, <1>11, <1>13, <1>15, <1>16

LEMMA StreamLostKeeps == WorkerInv /\ StreamLost => WorkerInv'
<1> SUFFICES ASSUME WorkerInv, StreamLost PROVE WorkerInv'
  OBVIOUS
<1> USE DEF WorkerInv
<1>1. /\ UNCHANGED <<chain, era, cuts, queuedHead, queuedEpochs, needsCatchup, liveQueued>>
      /\ UNCHANGED <<manifest, requested, job, outcome, prepared, staged, store>>
  BY DEF StreamLost, feedVars, queueVars, syncVars, engineVars
<1>2. wire' = <<>> /\ sent' = [head |-> {}, epoch |-> 0] /\ sent'.head = {}
  BY DEF StreamLost, None
<1>3. <<>> \in Seq(EventSet) /\ Len(<<>>) = 0
  BY EmptySeq
<1>4. FeedType' /\ SyncType'
  BY <1>1 DEF FeedType, SyncType
<1>5. StreamType' /\ SentInv'
  BY <1>2, <1>3 DEF StreamType, SentInv
<1>6. OnStream'
  BY <1>2 DEF OnStream
<1>7. QueueInv'
  BY <1>1, <1>6 DEF QueueInv, Inline
<1>8. JobInv' /\ OutcomeInv'
  BY <1>1, <1>6, NewsKeeps
<1> QED
  BY <1>4, <1>5, <1>7, <1>8

(***************************************************************************)
(* The events: a head queues a live update.                                *)
(***************************************************************************)
LEMMA ReceiveKeeps == WorkerInv /\ Receive => WorkerInv'
<1> SUFFICES ASSUME WorkerInv, Receive PROVE WorkerInv'
  OBVIOUS
<1> USE DEF WorkerInv
<1>1. /\ UNCHANGED <<chain, era, cuts, sent>>
      /\ UNCHANGED <<manifest, requested, job, outcome, prepared, staged, store>>
  BY DEF Receive, feedVars, syncVars, engineVars
<1>2. wire # <<>> /\ wire' = Tail(wire) /\ wire \in Seq(EventSet)
  BY DEF Receive, StreamType
<1>3. /\ Len(wire) \in Nat /\ Len(wire) # 0 /\ wire' \in Seq(EventSet) /\ Len(wire') = Len(wire) - 1
      /\ \A i \in 1..Len(wire') : wire'[i] = wire[i + 1]
      /\ Head(wire) = wire[1] /\ wire[1] \in EventSet
  BY <1>2, HeadTailProperties, LenProperties, EmptySeq, ElementOfSeq
<1>4. \A i \in 1..Len(wire') : i + 1 \in 1..Len(wire)
  BY <1>3
<1>5. FeedType' /\ StreamType'
  BY <1>1, <1>3, <1>4 DEF FeedType, StreamType
<1>6. SentInv'
  <2>1. ASSUME NEW i \in 1..Len(wire'), IsHead(i)', \A k \in (i + 1)..Len(wire') : ~IsHead(k)',
               NEW h \in sent.head
        PROVE  h.chain = wire'[i].head.chain
    <3>1. i + 1 \in 1..Len(wire) /\ wire'[i] = wire[i + 1] /\ IsHead(i + 1)
      BY <1>3, <1>4, <2>1 DEF IsHead
    <3>2. ASSUME NEW k \in (i + 1 + 1)..Len(wire) PROVE ~IsHead(k)
      <4>1. k - 1 \in (i + 1)..Len(wire') /\ k - 1 \in 1..Len(wire') /\ k - 1 + 1 = k
        BY <1>3
      <4>2. wire'[k - 1] = wire[k]
        BY <1>3, <4>1
      <4> QED
        BY <2>1, <4>1, <4>2 DEF IsHead
    <3> QED
      BY <3>1, <3>2 DEF SentInv
  <2> QED
    BY <1>1, <2>1 DEF SentInv
<1>7. wire[1] = Head(wire) /\ wire[1].name \in {"epoch", "head"} /\ 1 \in 1..Len(wire)
  BY <1>3 DEF EventSet
<1>8. ASSUME NEW i \in 1..Len(wire), IsHead(i), i # 1 PROVE OnStream'
  <2>1. i - 1 \in 1..Len(wire') /\ i - 1 + 1 = i
    BY <1>3, <1>8
  <2>2. wire'[i - 1] = wire[i]
    BY <1>3, <2>1
  <2> QED
    BY <1>8, <2>1, <2>2 DEF OnStream, IsHead
<1>9. CASE wire[1].name = "epoch"
  <2>1. EpochEvent(wire[1])
    BY <1>7, <1>9 DEF Receive
  <2>2. wire[1].epoch \in Nat /\ wire[1].epoch <= cuts /\ cuts \in Nat
    BY <1>3, <1>7, <1>9 DEF StreamType, EventSet, FeedType
  <2>3. OnStream => OnStream'
    <3>1. CASE \A h \in sent.head : h.chain # chain
      BY <1>1, <3>1 DEF OnStream
    <3>2. ASSUME NEW i \in 1..Len(wire), IsHead(i) PROVE OnStream'
      <4>1. i # 1
        BY <1>9, <3>2 DEF IsHead
      <4> QED
        BY <1>8, <3>2, <4>1
    <3> QED
      BY <3>1, <3>2 DEF OnStream
  <2>4. UNCHANGED <<queuedHead, liveQueued>> /\ queuedEpochs' \subseteq queuedEpochs \cup {wire[1].epoch}
    BY <2>1 DEF EpochEvent
  <2>5. needsCatchup = TRUE => needsCatchup' = TRUE
    <3>1. needsCatchup' = (needsCatchup \/
            Cardinality(queuedEpochs \cup {e \in {wire[1].epoch} : wire[1].whole}) > MaxQueued)
      BY <2>1 DEF EpochEvent
    <3> QED
      BY <3>1, Zenon
  <2>6. SyncType'
    BY <1>1, <2>2, <2>4 DEF SyncType
  <2>7. QueueInv'
    BY <1>1, <2>3, <2>4, <2>5 DEF QueueInv, Inline
  <2>8. JobInv' /\ OutcomeInv'
    BY <1>1, <2>3, <2>4, NewsKeeps
  <2> QED
    BY <1>5, <1>6, <2>6, <2>7, <2>8
<1>10. CASE wire[1].name = "head"
  <2> DEFINE h == wire[1].head
  <2>1. HeadEvent(h)
    BY <1>7, <1>10 DEF Receive
  <2>2. h \in Heads
    BY <1>3, <1>10 DEF EventSet
  <2>3. queuedHead' = {h} /\ liveQueued' = TRUE /\ UNCHANGED queuedEpochs
    BY <2>1 DEF HeadEvent
  <2>4. ~Inline(h) => needsCatchup' = TRUE
    <3>1. needsCatchup' = (needsCatchup \/ ~Inline(h))
      BY <2>1 DEF HeadEvent
    <3> QED
      BY <3>1, Zenon
  <2>5. h.chain = chain \/ OnStream'
    <3>1. CASE \E i \in 1..Len(wire) : IsHead(i) /\ i # 1
      BY <1>8, <3>1
    <3>2. CASE ~\E i \in 1..Len(wire) : IsHead(i) /\ i # 1
      <4>1. \A k \in (1 + 1)..Len(wire) : ~IsHead(k)
        BY <1>3, <3>2
      <4>2. \A x \in sent.head : x.chain = h.chain
        BY <1>7, <1>10, <4>1 DEF SentInv, IsHead
      <4> QED
        BY <1>1, <4>2 DEF OnStream
    <3> QED
      BY <3>1, <3>2
  <2> HIDE DEF h
  <2>6. SyncType'
    BY <1>1, <2>2, <2>3 DEF SyncType
  <2>7. QueueInv'
    <3>1. \A x \in queuedHead' : x = h
      BY <2>3
    <3> QED
      BY <1>1, <2>4, <2>5, <3>1 DEF QueueInv, Inline
  <2>8. Coming'
    BY <2>3 DEF Coming
  <2>9. JobInv' /\ OutcomeInv'
    BY <1>1, <2>8 DEF JobInv, OutcomeInv, Bound
  <2> QED
    BY <1>5, <1>6, <2>6, <2>7, <2>9
<1> QED
  BY <1>7, <1>9, <1>10
-----------------------------------------------------------------------------
(***************************************************************************)
(* The jobs leave the feed and the stream alone.                           *)
(***************************************************************************)
LEMMA SameNews ==
  ASSUME WorkerInv, UNCHANGED <<feedVars, streamVars>>
  PROVE  FeedType' /\ StreamType' /\ SentInv' /\ (OnStream => OnStream')
<1>1. UNCHANGED <<chain, era, cuts, sent, wire>>
  BY DEF feedVars, streamVars
<1> QED
  BY <1>1 DEF WorkerInv, FeedType, StreamType, SentInv, IsHead, OnStream

(***************************************************************************)
(* A job that ends without success.                                        *)
(***************************************************************************)
LEMMA EndKeeps ==
  ASSUME WorkerInv, UNCHANGED <<feedVars, streamVars, queueVars, manifest, staged>>,
         job' = NoJob, outcome' # "ok", requested' \in Nat, prepared' \subseteq Seq(Nat)
  PROVE  WorkerInv'
<1>1. FeedType' /\ StreamType' /\ SentInv' /\ (OnStream => OnStream')
  BY SameNews
<1>2. UNCHANGED <<chain, cuts, queuedHead, queuedEpochs, needsCatchup, manifest, staged>>
  BY DEF feedVars, queueVars
<1>3. SyncType'
  BY <1>2, NoJobIs DEF WorkerInv, SyncType
<1>4. QueueInv'
  BY <1>1, <1>2 DEF WorkerInv, QueueInv, Inline
<1>5. JobInv' /\ OutcomeInv'
  BY NoJobIs DEF JobInv, OutcomeInv
<1> QED
  BY <1>1, <1>3, <1>4, <1>5 DEF WorkerInv

LEMMA ForgetIs == ASSUME WorkerInv, NEW j, Forget(j) PROVE requested' \in Nat
BY DEF WorkerInv, SyncType, Forget

LEMMA FaultKeeps == WorkerInv /\ Fault => WorkerInv'
<1> SUFFICES ASSUME WorkerInv, Fault PROVE WorkerInv'
  OBVIOUS
<1>1. Forget(job) /\ job' = NoJob /\ outcome' = "error" /\ prepared' \subseteq prepared
  BY DEF Fault, Fail, Done, None
<1>2. UNCHANGED <<feedVars, streamVars, queueVars, manifest, staged>>
  BY DEF Fault, engineVars
<1>3. requested' \in Nat /\ prepared' \subseteq Seq(Nat)
  BY <1>1, ForgetIs DEF WorkerInv, SyncType
<1>4. outcome' # "ok"
  BY <1>1
<1> QED
  BY <1>1, <1>2, <1>3, <1>4, EndKeeps

LEMMA CheckpointUnavailableKeeps == WorkerInv /\ CheckpointUnavailable => WorkerInv'
<1> SUFFICES ASSUME WorkerInv, CheckpointUnavailable PROVE WorkerInv'
  OBVIOUS
<1>1. Forget(job) /\ job' = NoJob /\ outcome' = "error" /\ prepared' = {}
  BY DEF CheckpointUnavailable, Fail, Done, None
<1>2. UNCHANGED <<feedVars, streamVars, queueVars, manifest, staged>>
  BY DEF CheckpointUnavailable, engineVars
<1>3. requested' \in Nat /\ prepared' \subseteq Seq(Nat)
  BY <1>1, ForgetIs
<1>4. outcome' # "ok"
  BY <1>1
<1> QED
  BY <1>1, <1>2, <1>3, <1>4, EndKeeps

LEMMA ReopenKeeps == WorkerInv /\ Reopen => WorkerInv'
<1> SUFFICES ASSUME WorkerInv, Reopen PROVE WorkerInv'
  OBVIOUS
<1>1. UNCHANGED <<feedVars, streamVars>> /\ UNCHANGED <<chain, cuts, queuedHead, queuedEpochs>>
  BY DEF Reopen, feedVars
<1>2. FeedType' /\ StreamType' /\ SentInv' /\ (OnStream => OnStream')
  BY <1>1, SameNews
<1>3. /\ job' = Opening /\ manifest' = {} /\ requested' = 0 /\ staged' = {} /\ prepared' = {}
      /\ needsCatchup' = TRUE
  BY DEF Reopen, None
<1>4. SyncType'
  BY <1>1, <1>3, OpeningIs DEF WorkerInv, SyncType
<1>5. QueueInv'
  BY <1>1, <1>2, <1>3 DEF WorkerInv, QueueInv, Inline
<1>6. JobInv' /\ OutcomeInv'
  BY <1>3, OpeningIs, NoJobIs DEF JobInv, OutcomeInv
<1> QED
  BY <1>2, <1>4, <1>5, <1>6 DEF WorkerInv
-----------------------------------------------------------------------------
(***************************************************************************)
(* A job under way: what its next step needs.                              *)
(***************************************************************************)
IsJob(j) == j \in Jobs /\ j.kind # "none" /\ (j.kind = "read" => j.block # 0)

LEMMA BoundedIs ==
  ASSUME WorkerInv, NEW j, IsJob(j), NEW top, Bounded(j, top)
  PROVE  /\ requested' \in Nat
         /\ \/ /\ IsJob(job') /\ job'.step = "checkpoint" /\ job'.block = j.block
               /\ UNCHANGED outcome
            \/ job' = NoJob /\ outcome' # "ok"
<1>1. CASE j.block <= top
  <2>1. job' = [j EXCEPT !.step = "checkpoint"] /\ UNCHANGED <<requested, outcome>>
    BY <1>1 DEF Bounded
  <2>2. "checkpoint" \in Steps /\ j \in Jobs
    BY DEF Steps, IsJob
  <2> QED
    BY <2>1, <2>2, JobStep DEF WorkerInv, SyncType, IsJob
<1>2. CASE ~(j.block <= top)
  <2>1. requested' = (IF j.kind = "read" THEN j.block ELSE requested) /\ job' = NoJob /\ outcome' = "error"
    BY <1>2 DEF Bounded, Done
  <2>2. j.block \in Nat /\ requested \in Nat
    BY DEF IsJob, Jobs, WorkerInv, SyncType
  <2> QED
    BY <2>1, <2>2
<1> QED
  BY <1>1, <1>2

(***************************************************************************)
(* syncOnce with a manifest of the chain, or with an inline head queued.   *)
(***************************************************************************)
LEMMA StageKeeps ==
  ASSUME WorkerInv, UNCHANGED <<feedVars, streamVars>>, prepared' \subseteq Seq(Nat),
         NEW j, IsJob(j), NEW m \in Manifests, m.epochs <= cuts,
         \/ m.head = Len(chain)
         \/ queuedHead # {} /\ \A h \in queuedHead : Inline(h),
         Stage(j, m)
  PROVE  WorkerInv'
<1>1. FeedType' /\ StreamType' /\ SentInv' /\ (OnStream => OnStream')
  BY SameNews
<1>2. UNCHANGED <<chain, cuts>> /\ queuedHead' = {}
  BY DEF feedVars, Stage, None
<1>3. QueueInv'
  BY <1>2 DEF QueueInv
<1>4. j \in Jobs /\ "head" \in Steps
  BY DEF IsJob, Steps
<1>5. CASE /\ \A h \in queuedHead : ~Inline(h)
           /\ manifest' = {m} /\ needsCatchup' = FALSE
           /\ job' = [j EXCEPT !.step = "head"]
           /\ UNCHANGED <<queuedEpochs, staged, headStaged, requested, outcome>>
  <2>1. IsJob(job') /\ job'.step = "head"
    BY <1>4, <1>5, JobStep DEF IsJob
  <2>2. m.head = Len(chain)
    BY <1>5
  <2>3. SyncType'
    BY <1>2, <1>5, <2>1 DEF WorkerInv, SyncType, IsJob
  <2>4. JobInv' /\ OutcomeInv'
    BY <1>2, <1>5, <2>1, <2>2, NoJobIs DEF JobInv, OutcomeInv, OnChain
  <2> QED
    BY <1>1, <1>3, <2>3, <2>4 DEF WorkerInv
<1>6. ASSUME NEW h \in {x \in queuedHead : Inline(x)},
             queuedEpochs' = {},
             IF queuedEpochs \subseteq 1..Reach(m)
             THEN /\ manifest' = {[epochs |-> Reach(m), head |-> Len(h.chain)]}
                  /\ needsCatchup' = FALSE
                  /\ staged' = {h} /\ headStaged' = TRUE
                  /\ Bounded(j, Len(h.chain))
             ELSE /\ manifest' = {[m EXCEPT !.epochs = Reach(m)]}
                  /\ needsCatchup' = TRUE
                  /\ IF j.retry = 0
                     THEN /\ Forget(j)
                          /\ job' = [j EXCEPT !.retry = 1, !.step = "manifest",
                                              !.block = IF j.kind = "read" THEN @ ELSE 0]
                          /\ UNCHANGED outcome
                     ELSE Fail(j, "error")
                  /\ UNCHANGED <<staged, headStaged>>
      PROVE  WorkerInv'
  <2>1. h \in Heads /\ h \in queuedHead /\ (h.chain = chain \/ OnStream)
    BY <1>6 DEF WorkerInv, SyncType, QueueInv
  <2>2. Len(h.chain) \in Nat
    BY <2>1, LenProperties DEF Heads
  <2>3. Reach(m) \in Nat /\ Reach(m) <= cuts
    BY ReachBelow DEF WorkerInv
  <2> DEFINE r == Reach(m)
             n == Len(h.chain)
  <2>4. CASE queuedEpochs \subseteq 1..Reach(m)
    <3>1. /\ manifest' = {[epochs |-> r, head |-> n]} /\ staged' = {h} /\ Bounded(j, n)
      BY <1>6, <2>4
    <3>2. r \in Nat /\ n \in Nat /\ r <= cuts
      BY <2>2, <2>3
    <3> HIDE DEF r
    <3>3. /\ requested' \in Nat
          /\ \/ /\ IsJob(job') /\ job'.step = "checkpoint" /\ job'.block = j.block
                /\ UNCHANGED outcome
             \/ job' = NoJob /\ outcome' # "ok"
      BY <3>1, BoundedIs
    <3>4. SyncType'
      <4>1. manifest' \subseteq Manifests /\ \A a, b \in manifest' : a = b /\ a.epochs <= cuts
        <5> HIDE DEF n
        <5> QED
          BY <3>1, <3>2 DEF Manifests
      <4>2. staged' \subseteq Heads /\ queuedHead' \subseteq Heads /\ queuedEpochs' \subseteq 0..cuts
        BY <1>2, <1>6, <2>1, <3>1
      <4>3. /\ job' \in Jobs /\ (job'.kind = "read" => job'.block # 0)
            /\ (job'.step # "none" => job'.kind # "none")
        BY <3>3, NoJobIs DEF IsJob
      <4> QED
        BY <1>2, <3>3, <4>1, <4>2, <4>3 DEF SyncType
    <3>5. (OnChain' /\ \A x \in staged' : x.chain = chain') \/ OnStream'
      BY <1>1, <1>2, <2>1, <3>1 DEF OnChain
    <3>6. JobInv'
      BY <3>3, <3>5, NoJobIs DEF JobInv, Coming
    <3>7. OutcomeInv'
      BY <3>3, NoJobIs DEF OutcomeInv
    <3> QED
      BY <1>1, <1>3, <3>4, <3>6, <3>7 DEF WorkerInv
  <2>5. CASE ~(queuedEpochs \subseteq 1..Reach(m))
    <3>1. manifest' = {[m EXCEPT !.epochs = r]} /\ UNCHANGED staged
      BY <1>6, <2>5
    <3>2. r \in Nat /\ r <= cuts
      BY <2>3
    <3>3. Forget(j)
      BY <1>6, <2>5 DEF Fail
    <3>4. \/ IsJob(job') /\ job'.step = "manifest"
          \/ job' = NoJob /\ outcome' # "ok"
      <4>1. CASE j.retry = 0
        <5> DEFINE c == IF j.kind = "read" THEN j.block ELSE 0
        <5>1. job' = [j EXCEPT !.retry = 1, !.step = "manifest", !.block = c]
          BY <1>6, <2>5, <4>1
        <5>2. c \in Nat /\ (j.kind = "read" => c # 0)
          BY <1>4 DEF Jobs, IsJob
        <5> HIDE DEF c
        <5> QED
          BY <1>4, <5>1, <5>2, JobRetries DEF IsJob
      <4>2. CASE j.retry # 0
        <5>1. job' = NoJob /\ outcome' = "error"
          BY <1>6, <2>5, <4>2 DEF Fail, Done
        <5> QED
          BY <5>1
      <4> QED
        BY <4>1, <4>2
    <3> HIDE DEF r
    <3>5. SyncType'
      <4>1. manifest' \subseteq Manifests /\ \A a, b \in manifest' : a = b /\ a.epochs <= cuts
        BY <3>1, <3>2 DEF Manifests
      <4>2. staged' \subseteq Heads /\ queuedHead' \subseteq Heads /\ queuedEpochs' \subseteq 0..cuts
        BY <1>2, <1>6, <3>1 DEF WorkerInv, SyncType
      <4>3. /\ job' \in Jobs /\ (job'.kind = "read" => job'.block # 0)
            /\ (job'.step # "none" => job'.kind # "none")
        BY <3>4, NoJobIs DEF IsJob
      <4> QED
        BY <1>2, <3>3, <4>1, <4>2, <4>3, ForgetIs DEF SyncType
    <3>6. JobInv' /\ OutcomeInv'
      BY <3>4, NoJobIs DEF JobInv, OutcomeInv
    <3> QED
      BY <1>1, <1>3, <3>5, <3>6 DEF WorkerInv
  <2> QED
    BY <2>4, <2>5
<1> QED
  BY <1>5, <1>6 DEF Stage

LEMMA ManifestArrivesKeeps == WorkerInv /\ ManifestArrives => WorkerInv'
<1> SUFFICES ASSUME WorkerInv, ManifestArrives PROVE WorkerInv'
  OBVIOUS
<1>1. job.step = "manifest" /\ Stage(job, Manifest) /\ UNCHANGED <<feedVars, streamVars, prepared>>
  BY DEF ManifestArrives
<1>2. IsJob(job) /\ prepared' \subseteq Seq(Nat)
  BY <1>1 DEF WorkerInv, SyncType, IsJob
<1>3. Len(chain) \in Nat /\ cuts \in Nat
  BY LenProperties DEF WorkerInv, FeedType, Chains
<1> DEFINE n == Len(chain)
<1>4. Manifest = [epochs |-> cuts, head |-> n] /\ n \in Nat
  BY <1>3 DEF Manifest
<1>5. Manifest \in Manifests /\ Manifest.epochs <= cuts /\ Manifest.head = n
  <2> HIDE DEF n
  <2> QED
    BY <1>3, <1>4 DEF Manifests
<1> QED
  BY <1>1, <1>2, <1>5, StageKeeps

LEMMA HeadArrivesKeeps == WorkerInv /\ HeadArrives => WorkerInv'
<1> SUFFICES ASSUME WorkerInv, HeadArrives PROVE WorkerInv'
  OBVIOUS
<1>1. /\ job.step = "head" /\ staged' = {HeadFile}
      /\ UNCHANGED <<feedVars, streamVars, queueVars, manifest, prepared>>
  BY DEF HeadArrives
<1>2. PICK m \in manifest : Bounded(job, m.head)
  BY DEF HeadArrives
<1>3. UNCHANGED <<chain, cuts, queuedHead, queuedEpochs, needsCatchup, liveQueued, manifest, prepared>>
  BY <1>1 DEF feedVars, queueVars
<1>4. FeedType' /\ StreamType' /\ SentInv' /\ (OnStream => OnStream')
  BY <1>1, SameNews
<1>5. IsJob(job)
  BY <1>1 DEF WorkerInv, SyncType, IsJob
<1>6. /\ requested' \in Nat
      /\ \/ /\ IsJob(job') /\ job'.step = "checkpoint" /\ job'.block = job.block
            /\ UNCHANGED outcome
         \/ job' = NoJob /\ outcome' # "ok"
  BY <1>2, <1>5, BoundedIs
<1>7. HeadFile \in Heads /\ HeadFile.chain = chain
  <2>1. cuts * EpochSize \in Nat /\ chain \in Seq(Nat)
    BY FloorBelow DEF WorkerInv, FeedType, Chains
  <2> DEFINE p == cuts * EpochSize + 1
  <2>2. p \in Nat
    BY <2>1
  <2>3. HeadFile = [from |-> p, chain |-> chain]
    BY DEF HeadFile
  <2> HIDE DEF p
  <2> QED
    BY <2>1, <2>2, <2>3 DEF Heads
<1>8. SyncType'
  <2>1. /\ job' \in Jobs /\ (job'.kind = "read" => job'.block # 0)
        /\ (job'.step # "none" => job'.kind # "none")
    BY <1>6, NoJobIs DEF IsJob
  <2>2. staged' \subseteq Heads
    BY <1>1, <1>7
  <2> QED
    BY <1>3, <1>6, <2>1, <2>2 DEF WorkerInv, SyncType
<1>9. QueueInv'
  BY <1>3, <1>4 DEF WorkerInv, QueueInv, Inline
<1>10. Coming => Coming'
  BY <1>3, <1>4 DEF Coming
<1>11. \A h \in staged' : h.chain = chain'
  BY <1>1, <1>3, <1>7
<1>12. JobInv'
  <2>1. job.block = 0 => OnChain \/ Coming
    BY <1>1 DEF WorkerInv, JobInv
  <2>2. OnChain => OnChain'
    BY <1>3 DEF OnChain
  <2> QED
    BY <1>6, <1>10, <1>11, <2>1, <2>2, NoJobIs DEF JobInv
<1>13. OutcomeInv'
  BY <1>6, NoJobIs DEF OutcomeInv
<1> QED
  BY <1>4, <1>8, <1>9, <1>12, <1>13 DEF WorkerInv

(***************************************************************************)
(* The checkpoints: a block of the chain, asked for by its height.         *)
(***************************************************************************)
LEMMA AtIs ==
  ASSUME FeedType, NEW b, NEW p \in At(b)
  PROVE  p \in Seq(Nat) /\ Len(p) = b
<1>1. PICK n \in {b} \cap 1..Len(chain) : p = SubSeq(chain, 1, n)
  BY DEF At
<1>2. chain \in Seq(Nat) /\ Len(chain) \in Nat /\ n = b /\ n \in 0..Len(chain) /\ 1 \in Nat \ {0} /\ 1 <= n + 1
  BY LenProperties DEF FeedType, Chains
<1>3. SubSeq(chain, 1, n) \in Seq(Nat) /\ Len(SubSeq(chain, 1, n)) = n - 1 + 1
  BY <1>2, PartOfChain
<1> QED
  BY <1>1, <1>2, <1>3

LEMMA SyncKeeps ==
  ASSUME WorkerInv, UNCHANGED <<feedVars, streamVars>>, NEW kind \in {"live", "read"},
         NEW block \in Nat, kind = "read" => block # 0, Sync(kind, block)
  PROVE  WorkerInv'
<1> DEFINE target == Target(block)
           j == [NoJob EXCEPT !.kind = kind, !.block = target]
           ahead == IF target # 0 THEN target ELSE Max({0} \cup {Len(h.chain) : h \in queuedHead})
<1>1. target \in Nat /\ (kind = "read" => target # 0)
  BY DEF Target, WorkerInv, SyncType
<1>2. Prepare(ahead)
  BY DEF Sync
<1>3. \/ /\ Reuses(target)
         /\ job' = [j EXCEPT !.step = "checkpoint"]
         /\ UNCHANGED <<queuedHead, queuedEpochs, needsCatchup>>
         /\ UNCHANGED <<manifest, headStaged, requested, outcome, engineVars>>
      \/ /\ ~Reuses(target)
         /\ needsCatchup \/ queuedHead = None
         /\ job' = [j EXCEPT !.step = "manifest"]
         /\ UNCHANGED <<queuedHead, queuedEpochs, needsCatchup>>
         /\ UNCHANGED <<manifest, headStaged, requested, outcome, engineVars>>
      \/ /\ ~needsCatchup /\ queuedHead # None
         /\ \E m \in manifest : Stage(j, m)
  BY DEF Sync
<1> HIDE DEF target, ahead
<1>4. j \in Jobs /\ j.kind = kind /\ j.block = target
  BY <1>1, NoJobIs DEF Jobs
<1> HIDE DEF j
<1>5. IsJob(j)
  BY <1>1, <1>4 DEF IsJob
<1>6. prepared' \subseteq Seq(Nat)
  BY <1>2, AtIs DEF Prepare, WorkerInv, SyncType
<1>7. FeedType' /\ StreamType' /\ SentInv' /\ (OnStream => OnStream')
  BY SameNews
<1>8. ASSUME NEW s \in {"checkpoint", "manifest"}, job' = [j EXCEPT !.step = s],
             s = "checkpoint" => target # 0,
             UNCHANGED <<queuedHead, queuedEpochs, needsCatchup>>,
             UNCHANGED <<manifest, headStaged, requested, outcome, engineVars>>
      PROVE  WorkerInv'
  <2>1. s \in Steps
    BY DEF Steps
  <2>2. IsJob(job') /\ job'.step = s /\ job'.block = target
    BY <1>4, <1>5, <1>8, <2>1, JobStep DEF IsJob
  <2>3. UNCHANGED <<chain, cuts, staged>>
    BY <1>8 DEF feedVars, engineVars
  <2>4. SyncType'
    BY <1>6, <1>8, <2>2, <2>3 DEF WorkerInv, SyncType, IsJob
  <2>5. QueueInv'
    BY <1>7, <1>8, <2>3 DEF WorkerInv, QueueInv, Inline
  <2>6. JobInv' /\ OutcomeInv'
    BY <1>8, <2>2, NoJobIs DEF JobInv, OutcomeInv
  <2> QED
    BY <1>7, <2>4, <2>5, <2>6 DEF WorkerInv
<1>9. ASSUME ~needsCatchup, queuedHead # None, NEW m \in manifest, Stage(j, m)
      PROVE  WorkerInv'
  <2>1. \A h \in queuedHead : Inline(h)
    BY <1>9 DEF WorkerInv, QueueInv
  <2>2. m \in Manifests /\ m.epochs <= cuts
    BY DEF WorkerInv, SyncType
  <2> QED
    BY <1>5, <1>6, <1>9, <2>1, <2>2, StageKeeps DEF None
<1>10. Reuses(target) => target # 0
  BY DEF Reuses
<1> QED
  BY <1>3, <1>8, <1>9, <1>10

LEMMA CheckpointArrivesKeeps == WorkerInv /\ CheckpointArrives => WorkerInv'
<1> SUFFICES ASSUME WorkerInv, CheckpointArrives PROVE WorkerInv'
  OBVIOUS
<1>1. /\ job.step = "checkpoint" /\ prepared' = {}
      /\ UNCHANGED <<feedVars, streamVars, queueVars, manifest, requested, outcome, staged, store>>
  BY DEF CheckpointArrives, None
<1>2. PICK m \in manifest : \E cp \in {p \in prepared : Len(p) = Bound(m)} \cup At(Bound(m)) :
        job' = [job EXCEPT !.step = "epochs", !.cp = cp]
  BY DEF CheckpointArrives
<1>3. PICK cp \in {p \in prepared : Len(p) = Bound(m)} \cup At(Bound(m)) :
        job' = [job EXCEPT !.step = "epochs", !.cp = cp]
  BY <1>2
<1>4. cp \in Seq(Nat) /\ Len(cp) = Bound(m)
  BY AtIs DEF WorkerInv, SyncType
<1>5. UNCHANGED <<chain, cuts, queuedHead, queuedEpochs, needsCatchup, liveQueued>>
  BY <1>1 DEF feedVars, queueVars
<1>6. FeedType' /\ StreamType' /\ SentInv' /\ (OnStream => OnStream')
  BY <1>1, SameNews
<1>7. job \in Jobs /\ job.kind # "none" /\ (job.kind = "read" => job.block # 0)
  BY <1>1 DEF WorkerInv, SyncType
<1>8. /\ job' \in Jobs /\ job'.kind = job.kind /\ job'.step = "epochs" /\ job'.block = job.block
      /\ job'.cp = cp
  BY <1>3, <1>4, <1>7, JobChecks
<1>9. SyncType'
  BY <1>1, <1>5, <1>7, <1>8 DEF WorkerInv, SyncType
<1>10. QueueInv'
  BY <1>5, <1>6 DEF WorkerInv, QueueInv, Inline
<1>11. Coming => Coming'
  BY <1>5, <1>6 DEF Coming
<1>12. JobInv'
  <2>1. job.block = 0 => (OnChain /\ \A h \in staged : h.chain = chain) \/ Coming
    BY <1>1 DEF WorkerInv, JobInv
  <2>2. \A n \in manifest : n = m
    BY DEF WorkerInv, SyncType
  <2>3. \A n \in manifest' : Len(job'.cp) = Bound(n)'
    BY <1>1, <1>4, <1>8, <2>2 DEF Bound
  <2> QED
    BY <1>1, <1>5, <1>8, <1>11, <2>1, <2>3 DEF JobInv, OnChain
<1>13. OutcomeInv'
  BY <1>8, NoJobIs DEF OutcomeInv
<1> QED
  BY <1>6, <1>9, <1>10, <1>12, <1>13 DEF WorkerInv

(***************************************************************************)
(* Engine.apply: an unbounded update whose head is the chain's verifies    *)
(* the chain.                                                              *)
(***************************************************************************)
LEMMA ApplyKeeps == WorkerInv /\ Apply => WorkerInv'
<1> SUFFICES ASSUME WorkerInv, Apply PROVE WorkerInv'
  OBVIOUS
<1>1. /\ job.step = "epochs"
      /\ UNCHANGED <<feedVars, streamVars, queueVars, manifest, staged, prepared>>
  BY DEF Apply
<1>2. PICK m \in manifest, h \in staged :
       \/ /\ Refused(m, h) = {}
          /\ store' = [chain |-> Folded(m, h), epochs |-> m.epochs, verified |-> job.cp]
          /\ requested' = IF job.kind = "read" \/ Len(job.cp) = requested THEN 0 ELSE requested
          /\ Done(IF job.block = 0 THEN "ok" ELSE "bounded")
       \/ \E error \in Refused(m, h) : Fail(job, error)
  BY DEF Apply
<1>3. CASE \E error \in Refused(m, h) : Fail(job, error)
  <2>1. PICK error \in Refused(m, h) : Fail(job, error)
    BY <1>3
  <2>2. error # "ok"
    BY DEF Refused
  <2>3. Forget(job) /\ job' = NoJob /\ outcome' = error
    BY <2>1 DEF Fail, Done
  <2>4. requested' \in Nat /\ prepared' \subseteq Seq(Nat)
    BY <1>1, <2>3, ForgetIs DEF WorkerInv, SyncType
  <2> QED
    BY <1>1, <2>2, <2>3, <2>4, EndKeeps
<1>4. CASE /\ Refused(m, h) = {}
           /\ store' = [chain |-> Folded(m, h), epochs |-> m.epochs, verified |-> job.cp]
           /\ requested' = IF job.kind = "read" \/ Len(job.cp) = requested THEN 0 ELSE requested
           /\ Done(IF job.block = 0 THEN "ok" ELSE "bounded")
  <2>1. /\ job' = NoJob /\ requested' \in Nat /\ store'.verified = job.cp
        /\ outcome' = IF job.block = 0 THEN "ok" ELSE "bounded"
    BY <1>4 DEF Done, WorkerInv, SyncType
  <2>2. UNCHANGED <<chain, cuts, queuedHead, queuedEpochs, needsCatchup, liveQueued>>
    BY <1>1 DEF feedVars, queueVars
  <2>3. FeedType' /\ StreamType' /\ SentInv' /\ (OnStream => OnStream')
    BY <1>1, SameNews
  <2>4. SyncType'
    BY <1>1, <2>1, <2>2, NoJobIs DEF WorkerInv, SyncType
  <2>5. QueueInv' /\ JobInv'
    BY <2>1, <2>2, <2>3, NoJobIs DEF WorkerInv, QueueInv, Inline, JobInv
  <2>6. Coming => Coming'
    BY <2>2, <2>3 DEF Coming
  <2>7. ASSUME job.block = 0, OnChain, h.chain = chain PROVE job.cp = chain
    <3>1. /\ job.cp \in Seq(Nat) /\ chain \in Seq(Nat) /\ m.epochs \in Nat /\ m.epochs <= cuts
      BY DEF WorkerInv, SyncType, FeedType, Chains, Jobs, Manifests
    <3>2. Len(job.cp) = Len(chain)
      BY <1>1, <2>7 DEF WorkerInv, JobInv, OnChain, Bound
    <3>3. Floor(m) \in 0..Len(chain)
      <4>1. Floor(m) \in Nat /\ Floor(m) <= Len(chain) /\ Len(chain) \in Nat
        BY <3>1, FloorBelow, LenProperties DEF Floor, WorkerInv
      <4> QED
        BY <4>1
    <3>4. Folded(m, h) = chain
      BY <2>7, <3>1, <3>3, PartsJoin DEF Folded
    <3>5. IsPrefix(job.cp, Folded(m, h))
      BY <1>4 DEF Refused
    <3> QED
      BY <3>1, <3>2, <3>4, <3>5, WholePrefix
  <2>8. OutcomeInv'
    <3>1. job.block = 0 => (OnChain /\ h.chain = chain) \/ Coming
      BY <1>1 DEF WorkerInv, JobInv
    <3> QED
      BY <2>1, <2>2, <2>6, <2>7, <3>1 DEF OutcomeInv
  <2> QED
    BY <2>3, <2>4, <2>5, <2>8 DEF WorkerInv
<1> QED
  BY <1>2, <1>3, <1>4

LEMMA StepKeeps == WorkerInv /\ [Next]_vars => WorkerInv'
<1> SUFFICES ASSUME WorkerInv, [Next]_vars PROVE WorkerInv'
  OBVIOUS
<1>1. CASE Publish
  BY <1>1, ChainKeeps, CutKeeps
<1>2. CASE StreamTurn
  BY <1>2, StreamTurnKeeps
<1>3. CASE StreamLost
  BY <1>3, StreamLostKeeps
<1>4. CASE Receive
  BY <1>4, ReceiveKeeps
<1>5. CASE StartLive
  <2>1. UNCHANGED <<feedVars, streamVars>> /\ Sync("live", 0)
    BY <1>5 DEF StartLive
  <2> QED
    BY <2>1, SyncKeeps
<1>6. ASSUME NEW b \in 1..MaxHeight, StartRead(b) PROVE WorkerInv'
  <2>1. UNCHANGED <<feedVars, streamVars>> /\ Sync("read", b)
    BY <1>6 DEF StartRead
  <2>2. b \in Nat /\ b # 0
    BY WorkerAssumption
  <2> QED
    BY <2>1, <2>2, SyncKeeps
<1>7. CASE ManifestArrives
  BY <1>7, ManifestArrivesKeeps
<1>8. CASE HeadArrives
  BY <1>8, HeadArrivesKeeps
<1>9. CASE CheckpointArrives
  BY <1>9, CheckpointArrivesKeeps
<1>10. CASE CheckpointUnavailable
  BY <1>10, CheckpointUnavailableKeeps
<1>11. CASE Apply
  BY <1>11, ApplyKeeps
<1>12. CASE Fault
  BY <1>12, FaultKeeps
<1>13. CASE Reopen
  BY <1>13, ReopenKeeps
<1>14. CASE UNCHANGED vars
  <2>1. UNCHANGED <<chain, era, cuts, sent, wire, queuedHead, queuedEpochs, needsCatchup, liveQueued>>
        /\ UNCHANGED <<manifest, requested, job, outcome, prepared, staged, store>>
        /\ UNCHANGED <<feedVars, streamVars>>
    BY <1>14 DEF vars, feedVars, streamVars, queueVars, syncVars, engineVars
  <2>2. FeedType' /\ StreamType' /\ SentInv' /\ (OnStream => OnStream')
    BY <2>1, SameNews
  <2>3. SyncType' /\ QueueInv'
    BY <2>1, <2>2 DEF WorkerInv, SyncType, QueueInv, Inline
  <2>4. JobInv' /\ OutcomeInv'
    BY <2>1, <2>2, NewsKeeps
  <2> QED
    BY <2>2, <2>3, <2>4 DEF WorkerInv
<1> QED
  BY <1>1, <1>2, <1>3, <1>4, <1>5, <1>6, <1>7, <1>8, <1>9, <1>10, <1>11, <1>12, <1>13, <1>14
     DEF Next, WorkerStep
-----------------------------------------------------------------------------
(***************************************************************************)
(* No update is lost: a worker with nothing to do whose last unbounded     *)
(* update succeeded has verified the published chain, whatever arrived     *)
(* while its requests were under way (subscribe, syncOnce, Engine.apply).  *)
(***************************************************************************)
THEOREM NoUpdateIsLost == WorkerSpec => []NeverSilentlyBehind
<1>1. WorkerInv => NeverSilentlyBehind
  <2> SUFFICES ASSUME WorkerInv, NothingToDo, outcome = "ok" PROVE store.verified = chain
    BY DEF NeverSilentlyBehind
  <2>1. store.verified = chain \/ Coming
    BY DEF WorkerInv, OutcomeInv, NothingToDo
  <2>2. sent.head = {HeadFile} /\ HeadFile.chain = chain /\ wire = <<>> /\ Len(<<>>) = 0
    BY EmptySeq DEF NothingToDo, HeadFile
  <2>3. ~OnStream
    BY <2>2 DEF OnStream
  <2>4. ~Coming
    BY <2>3 DEF Coming, NothingToDo
  <2> QED
    BY <2>1, <2>4
<1> QED
  BY <1>1, InitWorker, StepKeeps, PTL DEF WorkerSpec

(***************************************************************************)
(* The rows that cached reads are answered from have the verified root:    *)
(* Engine::apply replaces the store only by one whose root the checkpoint  *)
(* has.                                                                    *)
(***************************************************************************)
THEOREM StoreKeepsVerifiedRoot == WorkerSpec => []VerifiedStoreKept
<1>1. Init => VerifiedStoreKept
  <2>1. IsPrefix(<<>>, <<>>)
    BY EmptySeq DEF IsPrefix
  <2> QED
    BY <2>1 DEF Init, VerifiedStoreKept
<1>2. VerifiedStoreKept /\ [Next]_vars => VerifiedStoreKept'
  <2> SUFFICES ASSUME VerifiedStoreKept, [Next]_vars PROVE VerifiedStoreKept'
    OBVIOUS
  <2>1. CASE Apply
    <3>1. PICK m \in manifest, h \in staged :
            \/ Refused(m, h) = {} /\ store' = [chain |-> Folded(m, h), epochs |-> m.epochs, verified |-> job.cp]
            \/ Keep(m, h)
      BY <2>1 DEF Apply
    <3>2. CASE /\ Refused(m, h) = {}
               /\ store' = [chain |-> Folded(m, h), epochs |-> m.epochs, verified |-> job.cp]
      <4>1. IsPrefix(job.cp, Folded(m, h))
        BY <3>2 DEF Refused
      <4>2. store'.verified = job.cp /\ store'.chain = Folded(m, h)
        BY <3>2
      <4> QED
        BY <4>1, <4>2 DEF VerifiedStoreKept
    <3>3. CASE Keep(m, h)
      BY <3>3 DEF Keep, VerifiedStoreKept
    <3> QED
      BY <3>1, <3>2, <3>3
  <2>2. CASE ~Apply
    <3>1. store' = store
      <4>1. ASSUME NEW j, NEW m, Stage(j, m) PROVE store' = store
        BY <4>1 DEF Stage
      <4>2. ASSUME NEW k, NEW b, Sync(k, b) PROVE store' = store
        BY <4>1, <4>2 DEF Sync, engineVars
      <4>3. CASE Publish \/ StreamTurn \/ StreamLost \/ Receive \/ UNCHANGED vars
        BY <4>3 DEF Publish, StreamTurn, StreamLost, Receive, vars, engineVars
      <4>4. CASE StartLive \/ (\E b \in 1..MaxHeight : StartRead(b)) \/ ManifestArrives
        BY <4>1, <4>2, <4>4 DEF StartLive, StartRead, ManifestArrives
      <4>5. CASE HeadArrives \/ CheckpointArrives \/ CheckpointUnavailable \/ Fault \/ Reopen
        BY <4>5 DEF HeadArrives, CheckpointArrives, CheckpointUnavailable, Fault, Reopen, engineVars
      <4> QED
        BY <2>2, <4>3, <4>4, <4>5 DEF Next, WorkerStep
    <3> QED
      BY <3>1 DEF VerifiedStoreKept
  <2> QED
    BY <2>1, <2>2
<1> QED
  BY <1>1, <1>2, PTL DEF WorkerSpec
=============================================================================
