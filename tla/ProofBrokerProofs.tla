------------------------- MODULE ProofBrokerProofs -------------------------
(***************************************************************************)
(* Proofs about ProofBroker, for every height, number of reorganisations,  *)
(* number of permits and size of the table: once the loop has taken in     *)
(* what the node has, the table holds proofs of the node's chain only.     *)
(***************************************************************************)
EXTENDS ProofBroker, SequenceTheorems, FiniteSetTheorems, WellFoundedInduction, TLAPS

(***************************************************************************)
(* Two chains the node has had, at different times: the earlier one is     *)
(* within the later one, or at the first block they differ in the later    *)
(* one has the younger era.                                                *)
(***************************************************************************)
Agree(q, c, i) == \A j \in 1..i : q[j] = c[j]
Within(q, c) == Len(q) <= Len(c) /\ Agree(q, c, Len(q))
Older(q, c) == \E i \in 1..Len(q) : i <= Len(c) /\ q[i] < c[i] /\ Agree(q, c, i - 1)
Past(q, c) == Within(q, c) \/ Older(q, c)
Chains(e) == {c \in Seq(Nat) : \A i \in 1..Len(c) : c[i] <= e}

LEMMA StartOfChain ==
  ASSUME NEW c \in Seq(Nat), NEW n \in 0..Len(c)
  PROVE  /\ SubSeq(c, 1, n) \in Seq(Nat)
         /\ Len(SubSeq(c, 1, n)) = n
         /\ \A i \in 1..n : SubSeq(c, 1, n)[i] = c[i]
<1>1. Len(c) \in Nat /\ n \in Int /\ 1 \in Int /\ \A i \in 1..n : c[i] \in Nat
  BY LenProperties, ElementOfSeq
<1>2. \A i \in 1..(n - 1 + 1) : SubSeq(c, 1, n)[i] = c[1 + i - 1]
  BY <1>1, SubSeqProperties
<1>3. SubSeq(c, 1, n) \in Seq(Nat) /\ Len(SubSeq(c, 1, n)) = IF 1 <= n THEN n - 1 + 1 ELSE 0
  BY <1>1, SubSeqProperties
<1> QED
  BY <1>1, <1>2, <1>3

LEMMA PrefixIsWithin ==
  ASSUME NEW q \in Seq(Nat), NEW c \in Seq(Nat)
  PROVE  IsPrefix(q, c) <=> Within(q, c)
<1>1. Len(q) \in Nat /\ Len(c) \in Nat
  BY LenProperties
<1>2. CASE Len(q) <= Len(c)
  <2>1. Len(q) \in 0..Len(q) /\ Len(q) \in 0..Len(c)
    BY <1>1, <1>2
  <2> DEFINE a == SubSeq(q, 1, Len(q))
             b == SubSeq(c, 1, Len(q))
  <2>2. a \in Seq(Nat) /\ Len(a) = Len(q) /\ \A i \in 1..Len(q) : a[i] = q[i]
    BY <2>1, StartOfChain
  <2>3. b \in Seq(Nat) /\ Len(b) = Len(q) /\ \A i \in 1..Len(q) : b[i] = c[i]
    BY <2>1, StartOfChain
  <2>4. IsPrefix(q, c) <=> a = b
    BY <1>2 DEF IsPrefix
  <2> HIDE DEF a, b
  <2>5. (\A i \in 1..Len(a) : a[i] = b[i]) => a = b
    BY <2>2, <2>3, SeqEqual
  <2> QED
    BY <1>2, <2>2, <2>3, <2>4, <2>5 DEF Within, Agree
<1>3. CASE ~(Len(q) <= Len(c))
  BY <1>3 DEF IsPrefix, Within
<1> QED
  BY <1>2, <1>3

LEMMA PastOfGrown ==
  ASSUME NEW c \in Seq(Nat), NEW q \in Seq(Nat), NEW e \in Nat, Past(q, c)
  PROVE  Past(q, Append(c, e))
<1>1. Len(q) \in Nat /\ Len(c) \in Nat
  BY LenProperties
<1>2. Len(Append(c, e)) = Len(c) + 1 /\ \A i \in 1..Len(c) : Append(c, e)[i] = c[i]
  BY AppendProperties
<1> DEFINE d == Append(c, e)
<1> HIDE DEF d
<1>3. Len(d) = Len(c) + 1 /\ \A i \in 1..Len(c) : d[i] = c[i]
  BY <1>2 DEF d
<1>4. CASE Within(q, c)
  BY <1>1, <1>3, <1>4 DEF d, Past, Within, Agree
<1>5. CASE Older(q, c)
  <2>1. PICK i \in 1..Len(q) : i <= Len(c) /\ q[i] < c[i] /\ Agree(q, c, i - 1)
    BY <1>5 DEF Older
  <2>2. i <= Len(d) /\ q[i] < d[i] /\ Agree(q, d, i - 1)
    BY <1>1, <1>3, <2>1 DEF Agree
  <2> QED
    BY <2>2 DEF d, Past, Older
<1> QED
  BY <1>4, <1>5 DEF Past

LEMMA PastOfReorganised ==
  ASSUME NEW e \in Nat, NEW c \in Seq(Nat), NEW q \in Chains(e), Past(q, c),
         NEW kept \in 0..(Len(c) - 1)
  PROVE  Past(q, Append(SubSeq(c, 1, kept), e + 1))
<1>1. q \in Seq(Nat) /\ Len(q) \in Nat /\ Len(c) \in Nat /\ \A i \in 1..Len(q) : q[i] \in Nat /\ q[i] <= e
  BY LenProperties, ElementOfSeq DEF Chains
<1> DEFINE s == SubSeq(c, 1, kept)
           d == Append(s, e + 1)
<1>2. s \in Seq(Nat) /\ Len(s) = kept /\ \A i \in 1..kept : s[i] = c[i]
  BY <1>1, StartOfChain
<1> HIDE DEF s
<1>3. Len(d) = kept + 1 /\ (\A i \in 1..kept : d[i] = c[i]) /\ d[kept + 1] = e + 1
  BY <1>2, AppendProperties
<1> HIDE DEF d
<1> SUFFICES Past(q, d)
  BY DEF s, d
<1>4. CASE \E i \in 1..Len(q) : i <= kept /\ q[i] < c[i] /\ Agree(q, c, i - 1)
  <2>1. PICK i \in 1..Len(q) : i <= kept /\ q[i] < c[i] /\ Agree(q, c, i - 1)
    BY <1>4
  <2>2. i <= Len(d) /\ q[i] < d[i] /\ Agree(q, d, i - 1)
    BY <1>1, <1>3, <2>1 DEF Agree
  <2> QED
    BY <2>2 DEF Past, Older
<1>5. CASE Agree(q, c, kept) /\ kept < Len(q)
  <2>1. kept + 1 \in 1..Len(q) /\ kept + 1 <= Len(d) /\ q[kept + 1] < d[kept + 1]
    BY <1>1, <1>3, <1>5
  <2>2. Agree(q, d, kept + 1 - 1)
    BY <1>3, <1>5 DEF Agree
  <2> QED
    BY <2>1, <2>2 DEF Past, Older
<1>6. CASE Within(q, c) /\ Len(q) <= kept
  BY <1>1, <1>3, <1>6 DEF Past, Within, Agree
<1>7. CASE Within(q, c) /\ kept < Len(q)
  BY <1>1, <1>5, <1>7 DEF Within, Agree
<1>8. CASE Older(q, c)
  <2>1. PICK i \in 1..Len(q) : i <= Len(c) /\ q[i] < c[i] /\ Agree(q, c, i - 1)
    BY <1>8 DEF Older
  <2>2. CASE kept < i
    BY <1>1, <1>5, <2>1, <2>2 DEF Agree
  <2> QED
    BY <1>4, <2>1, <2>2
<1> QED
  BY <1>1, <1>6, <1>7, <1>8 DEF Past

(***************************************************************************)
(* The answer for a block of the mirror is the mirror's, or shows that the *)
(* node has left the mirror's chain.                                       *)
(***************************************************************************)
LEMMA AnswerOrLeft ==
  ASSUME NEW m \in Seq(Nat), NEW c \in Seq(Nat), Past(m, c),
         NEW b \in 0..Len(c), b <= Len(m)
  PROVE  /\ Past(SubSeq(c, 1, b), c)
         /\ Within(SubSeq(c, 1, b), m) \/ Older(m, SubSeq(c, 1, b))
<1>1. Len(m) \in Nat /\ Len(c) \in Nat
  BY LenProperties
<1> DEFINE p == SubSeq(c, 1, b)
<1>2. Len(p) = b /\ \A i \in 1..b : p[i] = c[i]
  BY <1>1, StartOfChain
<1> SUFFICES Past(p, c) /\ (Within(p, m) \/ Older(m, p))
  OBVIOUS
<1> HIDE DEF p
<1>3. Past(p, c)
  BY <1>1, <1>2 DEF Past, Within, Agree
<1>4. CASE Within(m, c)
  <2>1. \A j \in 1..Len(m) : m[j] = c[j]
    BY <1>4 DEF Within, Agree
  <2>2. SUFFICES ASSUME NEW j \in 1..b PROVE p[j] = m[j]
    BY <1>1, <1>2, <1>3 DEF Within, Agree
  <2>3. j \in 1..Len(m)
    BY <1>1
  <2> QED
    BY <1>2, <2>1, <2>3
<1>5. CASE Older(m, c)
  <2>1. PICK i \in 1..Len(m) : i <= Len(c) /\ m[i] < c[i] /\ Agree(m, c, i - 1)
    BY <1>5 DEF Older
  <2>2. CASE i <= b
    <3>1. i <= Len(p) /\ m[i] < p[i]
      BY <1>1, <1>2, <2>1, <2>2
    <3>2. ASSUME NEW j \in 1..(i - 1) PROVE m[j] = p[j]
      <4>1. m[j] = c[j]
        BY <2>1 DEF Agree
      <4>2. j \in 1..b
        BY <1>1, <2>2
      <4> QED
        BY <1>2, <4>1, <4>2
    <3>3. Agree(m, p, i - 1)
      BY <3>2 DEF Agree
    <3>4. Older(m, p)
      BY <3>1, <3>3, Zenon DEF Older
    <3> QED
      BY <1>3, <3>4
  <2>3. CASE b < i
    <3>1. \A j \in 1..(i - 1) : m[j] = c[j]
      BY <2>1 DEF Agree
    <3>2. SUFFICES ASSUME NEW j \in 1..b PROVE p[j] = m[j]
      BY <1>1, <1>2, <1>3 DEF Within, Agree
    <3>3. j \in 1..(i - 1)
      BY <1>1, <2>3
    <3> QED
      BY <1>2, <3>1, <3>3
  <2> QED
    BY <1>1, <2>2, <2>3
<1> QED
  BY <1>4, <1>5 DEF Past

(***************************************************************************)
(* The node never comes back to a chain it has left.                       *)
(***************************************************************************)
LEMMA NoWayBack ==
  ASSUME NEW m \in Seq(Nat), NEW c \in Seq(Nat), NEW p \in Seq(Nat),
         Within(m, c), Past(p, c), Len(p) <= Len(m), Older(m, p)
  PROVE  FALSE
<1>1. Len(m) \in Nat /\ Len(c) \in Nat /\ Len(p) \in Nat
  BY LenProperties
<1>2. /\ \A i \in 1..Len(m) : m[i] \in Nat /\ m[i] = c[i]
      /\ \A i \in 1..Len(p) : p[i] \in Nat
  BY ElementOfSeq DEF Within, Agree
<1>3. PICK i \in 1..Len(m) : i <= Len(p) /\ m[i] < p[i] /\ Agree(m, p, i - 1)
  BY DEF Older
<1>4. CASE Within(p, c)
  <2>1. p[i] = c[i] /\ c[i] = m[i]
    BY <1>1, <1>2, <1>3, <1>4 DEF Within, Agree
  <2> QED
    BY <1>2, <1>3, <2>1
<1>5. CASE Older(p, c)
  <2>1. PICK j \in 1..Len(p) : j <= Len(c) /\ p[j] < c[j] /\ Agree(p, c, j - 1)
    BY <1>5 DEF Older
  <2>2. /\ c[j] = m[j] /\ c[i] = m[i]
        /\ i \in Nat /\ j \in Nat /\ i \in 1..Len(p) /\ j \in 1..Len(m)
        /\ m[i] \in Nat /\ p[i] \in Nat /\ m[j] \in Nat /\ p[j] \in Nat
    <3>1. i \in Nat /\ j \in Nat /\ i \in 1..Len(p) /\ j \in 1..Len(m)
      BY <1>1, <1>3, <2>1
    <3> QED
      BY <1>2, <3>1
  <2>3. ~(i < j)
    <3> SUFFICES ASSUME i < j PROVE FALSE
      OBVIOUS
    <3>1. i \in 1..(j - 1)
      BY <2>2
    <3>2. p[i] = c[i]
      BY <2>1, <3>1 DEF Agree
    <3> QED
      BY <1>3, <2>2, <3>2
  <2>4. ~(j < i)
    <3> SUFFICES ASSUME j < i PROVE FALSE
      OBVIOUS
    <3>1. j \in 1..(i - 1)
      BY <2>2
    <3>2. m[j] = p[j]
      BY <1>3, <3>1 DEF Agree
    <3> QED
      BY <2>1, <2>2, <3>2
  <2>5. i # j
    <3> SUFFICES ASSUME i = j PROVE FALSE
      OBVIOUS
    <3>1. m[i] < p[i] /\ p[i] < m[i]
      BY <1>3, <2>1, <2>2
    <3> QED
      BY <2>2, <3>1
  <2> QED
    BY <1>1, <2>3, <2>4, <2>5
<1> QED
  BY <1>4, <1>5 DEF Past
-----------------------------------------------------------------------------
(***************************************************************************)
(* The inductive invariant.  The table: its entries are channels of tasks  *)
(* for their own block, and every completed task is in it.                 *)
(***************************************************************************)
Tasks == [step : {"free", "fetch", "fetched", "checked", "done"},
          block : 0..MaxHeight, gen : Nat, result : SUBSET Seq(Nat)]
BrokerType ==
  /\ era \in Nat /\ node \in Chains(era) /\ mirror \in Chains(era)
  /\ Len(node) \in 1..MaxHeight /\ Len(mirror) \in 0..MaxHeight
  /\ pc \in {"wait", "invalidate", "clear", "reset", "refresh"}
  /\ pc # "wait" => Len(mirror) > 0
  /\ gen \in Nat
  /\ task \in [TaskIds -> Tasks]
  /\ \A t \in TaskIds : task[t].gen <= gen /\ task[t].result \subseteq Chains(era)
  /\ entries \in [Blocks -> Nat]
WantType ==
  /\ want \in [step : {"idle", "stream", "http", "channel"}, block : 0..MaxHeight, on : Nat]
  /\ want.step # "idle" => want.block \in Blocks
TableInv ==
  /\ Cardinality(Kept) <= MaxEntries
  /\ \A b \in Blocks : entries[b] # 0 =>
       entries[b] \in TaskIds /\ task[entries[b]].step # "free" /\ task[entries[b]].block = b
  /\ \A t \in TaskIds : task[t].step = "done" => \E b \in Blocks : entries[b] = t

(***************************************************************************)
(* Between a reorganisation and the bump of the generation nothing is      *)
(* known of the tasks; otherwise an answer of the current generation is of *)
(* the mirror's chain, or proves that the next cycle finds it given up.    *)
(***************************************************************************)
Sound(p) ==
  /\ Past(p, node)
  /\ pc # "invalidate" => Len(p) <= Len(mirror) /\ (Within(p, mirror) \/ Older(mirror, p))
ChainInv ==
  /\ Past(mirror, node)
  /\ \A t \in TaskIds : task[t].gen = gen =>
       /\ pc # "invalidate" => task[t].block <= Len(mirror)
       /\ \A p \in task[t].result : Sound(p)
GenerationInv ==
  pc \notin {"invalidate", "clear"} =>
    \A b \in Blocks : entries[b] # 0 => task[entries[b]].gen = gen
BrokerInv == BrokerType /\ TableInv /\ ChainInv /\ GenerationInv
coreVars == <<node, era, mirror, pc, gen, entries, task>>

LEMMA BlockIds == Blocks \subseteq Nat /\ 0 \notin TaskIds /\ TaskIds \subseteq Nat /\ 0 \notin Blocks
  BY BrokerAssumption DEF Blocks, TaskIds

LEMMA FailedSound ==
  ASSUME BrokerType PROVE Failed \in Chains(era) /\ Sound(Failed)
<1>1. Failed \in Seq(Nat) /\ Len(Failed) = 0
  BY EmptySeq DEF Failed
<1>2. node \in Seq(Nat) /\ mirror \in Seq(Nat) /\ Len(node) \in Nat /\ Len(mirror) \in Nat
  BY LenProperties DEF BrokerType, Chains
<1> QED
  BY <1>1, <1>2 DEF Sound, Past, Within, Agree, Chains

LEMMA InitBroker == Init => BrokerInv /\ WantType
<1> SUFFICES ASSUME Init PROVE BrokerInv /\ WantType
  OBVIOUS
<1>1. <<1>> \in Seq(Nat) /\ Len(<<1>>) = 1 /\ <<1>>[1] = 1 /\ <<>> \in Seq(Nat) /\ Len(<<>>) = 0
  OBVIOUS
<1>2. <<1>> \in Chains(1) /\ <<>> \in Chains(1)
  BY <1>1 DEF Chains
<1>3. BrokerType
  BY <1>1, <1>2, BrokerAssumption DEF Init, BrokerType, Tasks, Free, None
<1>4. TableInv
  <2>1. Kept = {}
    BY DEF Init, Kept
  <2>2. Cardinality(Kept) <= MaxEntries
    BY <2>1, FS_EmptySet, BrokerAssumption
  <2> QED
    BY <2>2 DEF Init, TableInv, Free
<1>5. Past(mirror, node)
  BY <1>1 DEF Init, Past, Within, Agree
<1>6. ChainInv
  BY <1>1, <1>5 DEF Init, ChainInv, Free, None
<1>7. GenerationInv
  BY DEF Init, GenerationInv
<1>8. WantType
  BY BrokerAssumption DEF Init, WantType, Idle
<1> QED
  BY <1>3, <1>4, <1>6, <1>7, <1>8 DEF BrokerInv

(***************************************************************************)
(* The node.                                                               *)
(***************************************************************************)
LEMMA NodeKeeps == BrokerInv /\ NodeStep => BrokerInv'
<1> SUFFICES ASSUME BrokerInv, NodeStep PROVE BrokerInv'
  OBVIOUS
<1>1. /\ node \in Seq(Nat) /\ mirror \in Seq(Nat) /\ era \in Nat /\ Len(node) \in Nat /\ Len(mirror) \in Nat
      /\ \A i \in 1..Len(node) : node[i] \in Nat /\ node[i] <= era
  BY LenProperties, ElementOfSeq DEF BrokerInv, BrokerType, Chains
<1>2. UNCHANGED <<mirror, pc, gen, entries, task>>
  BY DEF NodeStep, brokerVars
<1>3. /\ era' \in Nat /\ era <= era' /\ node' \in Chains(era') /\ Len(node') \in 1..MaxHeight
      /\ \A q \in Chains(era) : Past(q, node) => Past(q, node')
  <2>1. CASE NodeGrows
    <3>1. node' = Append(node, era) /\ era' = era /\ Len(node) < MaxHeight
      BY <2>1 DEF NodeGrows
    <3>2. /\ node' \in Seq(Nat) /\ Len(node') = Len(node) + 1
          /\ (\A i \in 1..Len(node) : node'[i] = node[i]) /\ node'[Len(node) + 1] = era
      BY <1>1, <3>1, AppendProperties
    <3>3. node' \in Chains(era')
      <4> SUFFICES ASSUME NEW i \in 1..Len(node') PROVE node'[i] <= era
        BY <3>1, <3>2 DEF Chains
      <4>1. i \in 1..Len(node) \/ i = Len(node) + 1
        BY <1>1, <3>2
      <4> QED
        BY <1>1, <3>2, <4>1
    <3>4. \A q \in Chains(era) : Past(q, node) => Past(q, node')
      BY <1>1, <3>1, PastOfGrown DEF Chains
    <3> QED
      BY <1>1, <3>1, <3>2, <3>3, <3>4, BrokerAssumption
  <2>2. CASE \E kept \in 0..(MaxHeight - 1) : NodeReorgs(kept)
    <3>0. PICK kept \in 0..(MaxHeight - 1) : NodeReorgs(kept)
      BY <2>2
    <3>1. /\ node' = Append(SubSeq(node, 1, kept), era + 1) /\ era' = era + 1
          /\ kept \in 0..(Len(node) - 1) /\ kept \in 0..Len(node)
      BY <1>1, <3>0, BrokerAssumption DEF NodeReorgs
    <3> DEFINE s == SubSeq(node, 1, kept)
    <3>2. s \in Seq(Nat) /\ Len(s) = kept /\ \A i \in 1..kept : s[i] = node[i]
      BY <1>1, <3>1, StartOfChain
    <3> HIDE DEF s
    <3>3. /\ node' \in Seq(Nat) /\ Len(node') = kept + 1
          /\ (\A i \in 1..kept : node'[i] = s[i]) /\ node'[kept + 1] = era + 1
      BY <1>1, <3>1, <3>2, AppendProperties DEF s
    <3>4. node' \in Chains(era')
      <4> SUFFICES ASSUME NEW i \in 1..Len(node') PROVE node'[i] <= era + 1
        BY <3>1, <3>3 DEF Chains
      <4>1. (i \in 1..kept /\ i \in 1..Len(node)) \/ i = kept + 1
        BY <1>1, <3>1, <3>3
      <4>2. CASE i \in 1..kept /\ i \in 1..Len(node)
        <5>1. node'[i] = node[i]
          BY <3>2, <3>3, <4>2
        <5> QED
          BY <1>1, <4>2, <5>1
      <4>3. CASE i = kept + 1
        BY <1>1, <3>3, <4>3
      <4> QED
        BY <4>1, <4>2, <4>3
    <3>5. \A q \in Chains(era) : Past(q, node) => Past(q, node')
      BY <1>1, <3>1, PastOfReorganised
    <3> QED
      <4>1. Len(node') \in 1..MaxHeight
        BY <1>1, <3>1, <3>3, BrokerAssumption DEF BrokerInv, BrokerType
      <4> QED
        BY <1>1, <3>1, <3>4, <3>5, <4>1
  <2> QED
    BY <2>1, <2>2 DEF NodeStep
<1>4. Chains(era) \subseteq Chains(era')
  <2> SUFFICES ASSUME NEW c \in Chains(era), NEW i \in 1..Len(c) PROVE c[i] <= era'
    BY DEF Chains
  <2>1. c[i] \in Nat /\ c[i] <= era
    BY ElementOfSeq DEF Chains
  <2> QED
    BY <1>1, <1>3, <2>1
<1>5. BrokerType'
  BY <1>2, <1>3, <1>4 DEF BrokerInv, BrokerType
<1>6. TableInv'
  BY <1>2 DEF BrokerInv, TableInv, Kept
<1>7. ChainInv'
  <2>1. \A p \in Chains(era) : Sound(p) => Sound(p)'
    BY <1>2, <1>3 DEF Sound
  <2> QED
    BY <1>2, <1>3, <2>1 DEF BrokerInv, ChainInv, BrokerType
<1>8. GenerationInv'
  BY <1>2 DEF BrokerInv, GenerationInv
<1> QED
  BY <1>5, <1>6, <1>7, <1>8 DEF BrokerInv

(***************************************************************************)
(* The main loop.                                                          *)
(***************************************************************************)
LEMMA CycleKeeps == BrokerInv /\ Cycle => BrokerInv'
<1> SUFFICES ASSUME BrokerInv, Cycle PROVE BrokerInv'
  OBVIOUS
<1>1. /\ node \in Seq(Nat) /\ mirror \in Seq(Nat) /\ Len(node) \in Nat /\ Len(mirror) \in Nat
      /\ \A c \in Chains(era) : c \in Seq(Nat) /\ Len(c) \in Nat
  BY LenProperties DEF BrokerInv, BrokerType, Chains
<1>2. /\ UNCHANGED <<node, era, gen, entries, task>> /\ mirror' = node /\ pc = "wait"
      /\ pc' = IF Within(mirror, node) THEN "refresh" ELSE "invalidate"
  BY <1>1, PrefixIsWithin DEF Cycle, chainVars, brokerVars
<1>3. BrokerType'
  BY <1>1, <1>2 DEF BrokerInv, BrokerType
<1>4. TableInv'
  BY <1>2 DEF BrokerInv, TableInv, Kept
<1>5. Past(mirror', node')
  BY <1>1, <1>2 DEF Past, Within, Agree
<1>6. ASSUME NEW p \in Chains(era), Sound(p)
      PROVE  Sound(p)'
  <2>1. Past(p, node) /\ Len(p) <= Len(mirror) /\ (Within(p, mirror) \/ Older(mirror, p))
    BY <1>2, <1>6 DEF Sound
  <2>2. CASE Within(mirror, node)
    <3>1. Within(p, mirror)
      BY <1>1, <2>1, <2>2, NoWayBack
    <3>2. Within(p, node)
      BY <1>1, <2>2, <3>1 DEF Within, Agree
    <3>3. Len(p) <= Len(node)
      BY <3>2 DEF Within
    <3> QED
      BY <1>2, <2>1, <3>2, <3>3 DEF Sound
  <2>3. CASE ~Within(mirror, node)
    BY <1>2, <2>1, <2>3 DEF Sound
  <2> QED
    BY <2>2, <2>3
<1>7. ChainInv'
  <2>1. pc' # "invalidate" => Len(mirror) <= Len(mirror')
    BY <1>2 DEF Within
  <2> SUFFICES ASSUME NEW t \in TaskIds, task[t].gen = gen
               PROVE  /\ pc' # "invalidate" => task[t].block <= Len(mirror')
                      /\ \A p \in task[t].result : Sound(p)'
    BY <1>2, <1>5 DEF ChainInv
  <2>2. task[t].block \in Nat /\ task[t].block <= Len(mirror) /\ \A p \in task[t].result : p \in Chains(era) /\ Sound(p)
    BY <1>2 DEF BrokerInv, ChainInv, BrokerType, Tasks
  <2> QED
    BY <1>1, <1>2, <1>6, <2>1, <2>2
<1>8. GenerationInv'
  BY <1>2 DEF BrokerInv, GenerationInv
<1> QED
  BY <1>3, <1>4, <1>7, <1>8 DEF BrokerInv

LEMMA InvalidateKeeps == BrokerInv /\ (BumpGeneration \/ ClearEntries \/ ShowReset) => BrokerInv'
<1> SUFFICES ASSUME BrokerInv PROVE BumpGeneration \/ ClearEntries \/ ShowReset => BrokerInv'
  OBVIOUS
<1>1. ASSUME BumpGeneration PROVE BrokerInv'
  <2>1. /\ UNCHANGED <<node, era, mirror, entries, task>> /\ pc = "invalidate" /\ pc' = "clear"
        /\ gen' = gen + 1
    BY <1>1 DEF BumpGeneration, GoTo, chainVars
  <2>2. BrokerType'
    <3>1. \A t \in TaskIds : task[t].gen \in Nat
      BY DEF BrokerInv, BrokerType, Tasks
    <3> QED
      BY <2>1, <3>1 DEF BrokerInv, BrokerType
  <2>3. TableInv'
    BY <2>1 DEF BrokerInv, TableInv, Kept
  <2>4. \A t \in TaskIds : task'[t].gen # gen'
    <3>1. \A t \in TaskIds : task[t].gen \in Nat /\ task[t].gen <= gen /\ gen \in Nat
      BY DEF BrokerInv, BrokerType, Tasks
    <3> QED
      BY <2>1, <3>1
  <2> QED
    BY <2>1, <2>2, <2>3, <2>4 DEF BrokerInv, ChainInv, GenerationInv
<1>2. ASSUME ClearEntries PROVE BrokerInv'
  <2>1. /\ UNCHANGED <<node, era, mirror, gen>> /\ pc = "clear" /\ pc' = "reset"
        /\ entries' = [b \in Blocks |-> 0]
        /\ task' = [t \in TaskIds |-> IF task[t].step = "done" THEN Free ELSE task[t]]
    BY <1>2 DEF ClearEntries, GoTo, chainVars
  <2>2. Free \in Tasks /\ Free.gen = 0 /\ Free.block = 0 /\ Free.result = {} /\ Free.step = "free"
    BY BrokerAssumption DEF Free, Tasks, None
  <2>3. BrokerType'
    BY <2>1, <2>2 DEF BrokerInv, BrokerType
  <2>4. TableInv'
    <3>1. Kept' = {}
      BY <2>1 DEF Kept
    <3>2. Cardinality(Kept') <= MaxEntries
      BY <3>1, FS_EmptySet, BrokerAssumption
    <3>3. \A t \in TaskIds : task'[t].step # "done"
      BY <2>1, <2>2
    <3> QED
      BY <2>1, <3>2, <3>3 DEF TableInv
  <2>5. ChainInv'
    <3>1. \A p : Sound(p)' <=> Sound(p)
      BY <2>1 DEF Sound
    <3> QED
      BY <2>1, <2>2, <3>1 DEF BrokerInv, BrokerType, ChainInv
  <2>6. GenerationInv'
    BY <2>1 DEF GenerationInv
  <2> QED
    BY <2>3, <2>4, <2>5, <2>6 DEF BrokerInv
<1>3. ASSUME ShowReset PROVE BrokerInv'
  <2>1. /\ UNCHANGED <<node, era, mirror, gen, entries, task>> /\ pc = "reset" /\ pc' = "refresh"
    BY <1>3 DEF ShowReset, GoTo, chainVars, brokerVars
  <2> QED
    BY <2>1 DEF BrokerInv, BrokerType, TableInv, Kept, ChainInv, Sound, GenerationInv
<1> QED
  BY <1>1, <1>2, <1>3

LEMMA KeptFinite == IsFiniteSet(Kept) /\ Cardinality(Kept) \in Nat
<1>1. IsFiniteSet(Blocks)
  BY FS_Interval, BrokerAssumption DEF Blocks
<1>2. Kept \subseteq Blocks
  BY DEF Kept
<1> QED
  BY <1>1, <1>2, FS_Subset, FS_CardinalityType

(***************************************************************************)
(* A task that ends: in the table it is completed with a result it had or  *)
(* with a failure, outside it is gone.                                     *)
(***************************************************************************)
LEMMA FinishKeeps ==
  ASSUME BrokerInv, NEW t \in TaskIds, NEW kept \in [Blocks -> Nat], NEW r,
         r = Failed \/ r \in task[t].result,
         \A b \in Blocks : kept[b] = entries[b] \/ (kept[b] = 0 /\ entries[b] = t),
         Finish(t, kept, r), UNCHANGED <<node, era, mirror, pc, gen>>
  PROVE  BrokerInv'
<1>1. /\ entries' = kept
      /\ task' = [task EXCEPT ![t] = IF \E b \in Blocks : kept[b] = t
                                     THEN [task[t] EXCEPT !.step = "done", !.result = {r}]
                                     ELSE Free]
  BY DEF Finish
<1>2. Free \in Tasks /\ Free.gen = 0 /\ Free.block = 0 /\ Free.result = {} /\ Free.step = "free"
  BY BrokerAssumption DEF Free, Tasks, None
<1>3. task \in [TaskIds -> Tasks] /\ r \in Chains(era) /\ (task[t].gen = gen => Sound(r))
  BY FailedSound DEF BrokerInv, BrokerType, ChainInv
<1>4. \A u \in TaskIds : u # t => task'[u] = task[u]
  BY <1>1, <1>3
<1>5. CASE \E b \in Blocks : kept[b] = t
  <2> DEFINE k == [task[t] EXCEPT !.step = "done", !.result = {r}]
  <2>1. /\ k \in Tasks /\ k.step = "done" /\ k.result = {r}
        /\ k.block = task[t].block /\ k.gen = task[t].gen
    BY <1>3 DEF Tasks, Chains
  <2>2. task'[t] = k /\ task' \in [TaskIds -> Tasks]
    BY <1>1, <1>3, <1>5, <2>1
  <2> HIDE DEF k
  <2>3. BrokerType'
    BY <1>1, <1>3, <1>4, <2>1, <2>2 DEF BrokerInv, BrokerType
  <2>4. Kept' \subseteq Kept
    BY <1>1 DEF Kept
  <2>5. Cardinality(Kept') <= MaxEntries
    BY <2>4, KeptFinite, FS_Subset, FS_CardinalityType, BrokerAssumption DEF BrokerInv, TableInv
  <2>6. TableInv'
    BY <1>1, <1>4, <1>5, <2>1, <2>2, <2>5, BlockIds DEF BrokerInv, TableInv
  <2>7. ChainInv'
    <3>1. \A p : Sound(p)' <=> Sound(p)
      BY DEF Sound
    <3> QED
      BY <1>3, <1>4, <2>1, <2>2, <3>1 DEF BrokerInv, ChainInv
  <2>8. GenerationInv'
    BY <1>1, <1>4, <2>1, <2>2, BlockIds DEF BrokerInv, GenerationInv, TableInv
  <2> QED
    BY <2>3, <2>6, <2>7, <2>8 DEF BrokerInv
<1>6. CASE ~\E b \in Blocks : kept[b] = t
  <2>2. task'[t] = Free /\ task' \in [TaskIds -> Tasks]
    BY <1>1, <1>2, <1>3, <1>6
  <2>3. BrokerType'
    BY <1>1, <1>2, <1>3, <1>4, <2>2 DEF BrokerInv, BrokerType
  <2>4. Kept' \subseteq Kept
    BY <1>1 DEF Kept
  <2>5. Cardinality(Kept') <= MaxEntries
    BY <2>4, KeptFinite, FS_Subset, FS_CardinalityType, BrokerAssumption DEF BrokerInv, TableInv
  <2>6. TableInv'
    BY <1>1, <1>2, <1>4, <1>6, <2>2, <2>5, BlockIds DEF BrokerInv, TableInv
  <2>7. ChainInv'
    <3>1. \A p : Sound(p)' <=> Sound(p)
      BY DEF Sound
    <3>2. Len(mirror) \in Nat
      BY DEF BrokerInv, BrokerType
    <3> QED
      BY <1>2, <1>3, <1>4, <2>2, <3>1, <3>2 DEF BrokerInv, ChainInv
  <2>8. GenerationInv'
    BY <1>1, <1>4, <1>6, <2>2, BlockIds DEF BrokerInv, GenerationInv, TableInv
  <2> QED
    BY <2>3, <2>6, <2>7, <2>8 DEF BrokerInv
<1> QED
  BY <1>5, <1>6

LEMMA TaskKeeps ==
  ASSUME BrokerInv, NEW t \in TaskIds, TaskStep(t)
  PROVE  BrokerInv'
<1>1. UNCHANGED <<node, era, mirror, pc>> /\ entries \in [Blocks -> Nat]
  BY DEF TaskStep, chainVars, BrokerInv, BrokerType
<1>2. task \in [TaskIds -> Tasks] /\ \A p : (UNCHANGED <<node, mirror, pc>>) => (Sound(p)' <=> Sound(p))
  BY DEF BrokerInv, BrokerType, Sound
<1>3. ASSUME NEW r, r \in Chains(era), task[t].step = "fetch", task[t].gen = gen => Sound(r),
             SetTask(t, "fetched", r), UNCHANGED <<gen, entries>>
      PROVE  BrokerInv'
  <2> DEFINE k == [task[t] EXCEPT !.step = "fetched", !.result = {r}]
  <2>1. /\ k \in Tasks /\ k.step = "fetched" /\ k.result = {r}
        /\ k.block = task[t].block /\ k.gen = task[t].gen
    BY <1>2, <1>3 DEF Tasks, Chains
  <2>2. task' = [task EXCEPT ![t] = k]
    BY <1>3 DEF SetTask
  <2> HIDE DEF k
  <2>3. task'[t] = k /\ task' \in [TaskIds -> Tasks] /\ \A u \in TaskIds : u # t => task'[u] = task[u]
    BY <1>2, <2>1, <2>2
  <2>4. BrokerType'
    BY <1>1, <1>3, <2>1, <2>3 DEF BrokerInv, BrokerType
  <2>5. TableInv'
    <3>1. Kept' = Kept
      BY <1>3 DEF Kept
    <3>2. \A u \in TaskIds : task'[u].block = task[u].block
                              /\ (task'[u].step = "free" => task[u].step = "free")
                              /\ (task'[u].step = "done" => task[u].step = "done")
      BY <2>1, <2>3
    <3>3. TableInv
      BY DEF BrokerInv
    <3>4. \A b \in Blocks : entries'[b] = entries[b]
      BY <1>3
    <3> QED
      BY <3>1, <3>2, <3>3, <3>4 DEF TableInv
  <2>6. ChainInv'
    BY <1>1, <1>2, <1>3, <2>1, <2>3 DEF BrokerInv, ChainInv
  <2>7. GenerationInv'
    BY <1>1, <1>3, <2>1, <2>3, BlockIds DEF BrokerInv, GenerationInv, TableInv
  <2> QED
    BY <2>4, <2>5, <2>6, <2>7 DEF BrokerInv
<1>4. CASE TaskAnswered(t)
  <2> DEFINE b == task[t].block
             r == SubSeq(node, 1, b)
  <2>1. /\ node \in Seq(Nat) /\ mirror \in Seq(Nat) /\ Len(node) \in Nat /\ Len(mirror) \in Nat
        /\ \A i \in 1..Len(node) : node[i] <= era
    BY LenProperties DEF BrokerInv, BrokerType, Chains
  <2>2. b \in 0..Len(node) /\ SetTask(t, "fetched", r) /\ UNCHANGED <<gen, entries>> /\ task[t].step = "fetch"
    BY <1>2, <1>4, <2>1 DEF TaskAnswered, ProofAt, Tasks
  <2> HIDE DEF b
  <2>3. r \in Seq(Nat) /\ Len(r) = b /\ \A i \in 1..b : r[i] = node[i]
    BY <2>1, <2>2, StartOfChain
  <2>4. r \in Chains(era)
    <3> HIDE DEF r
    <3>1. \A i \in 1..Len(r) : i \in 1..Len(node) /\ r[i] = node[i]
      BY <2>1, <2>2, <2>3
    <3> QED
      BY <2>1, <2>3, <3>1 DEF Chains
  <2>5. ASSUME task[t].gen = gen PROVE Sound(r)
    <3>1. pc # "invalidate" => b <= Len(mirror)
      BY <2>5 DEF BrokerInv, ChainInv, b
    <3>2. Past(mirror, node)
      BY DEF BrokerInv, ChainInv
    <3>3. Past(r, node)
      <4> HIDE DEF r
      <4>1. Len(r) <= Len(node) /\ \A j \in 1..Len(r) : r[j] = node[j]
        BY <2>1, <2>2, <2>3
      <4> QED
        BY <4>1 DEF Past, Within, Agree
    <3>4. b <= Len(mirror) => Within(r, mirror) \/ Older(mirror, r)
      BY <2>1, <2>2, <3>2, AnswerOrLeft
    <3> HIDE DEF r
    <3> QED
      BY <2>3, <3>1, <3>3, <3>4 DEF Sound
  <2> HIDE DEF r
  <2> QED
    BY <1>3, <2>2, <2>4, <2>5
<1>5. CASE TaskFails(t)
  <2>1. SetTask(t, "fetched", Failed) /\ UNCHANGED <<gen, entries>> /\ task[t].step = "fetch"
    BY <1>5 DEF TaskFails
  <2> QED
    BY <1>3, <2>1, FailedSound DEF BrokerInv
<1>6. CASE TaskChecks(t)
  <2>1. UNCHANGED gen /\ task[t].step = "fetched"
    BY <1>6 DEF TaskChecks
  <2>2. CASE Finish(t, entries, Failed)
    BY <1>1, <2>1, <2>2, FinishKeeps
  <2>3. CASE Finish(t, WithoutOwn(t), Failed)
    <3> DEFINE kept == WithoutOwn(t)
    <3>1. kept \in [Blocks -> Nat] /\ \A b \in Blocks : kept[b] = entries[b] \/ (kept[b] = 0 /\ entries[b] = t)
      BY <1>1 DEF WithoutOwn
    <3> HIDE DEF kept
    <3>2. Finish(t, kept, Failed)
      BY <2>3 DEF kept
    <3> QED
      BY <1>1, <2>1, <3>1, <3>2, FinishKeeps
  <2>4. CASE task' = [task EXCEPT ![t].step = "checked"] /\ UNCHANGED entries
    <3> DEFINE k == [task[t] EXCEPT !.step = "checked"]
    <3>1. /\ k \in Tasks /\ k.step = "checked" /\ k.result = task[t].result
          /\ k.block = task[t].block /\ k.gen = task[t].gen
      BY <1>2 DEF Tasks
    <3>2. task' = [task EXCEPT ![t] = k]
      BY <2>4
    <3> HIDE DEF k
    <3>3. task'[t] = k /\ task' \in [TaskIds -> Tasks] /\ \A u \in TaskIds : u # t => task'[u] = task[u]
      BY <1>2, <3>1, <3>2
    <3>4. BrokerType'
      BY <1>1, <2>1, <2>4, <3>1, <3>3 DEF BrokerInv, BrokerType
    <3>5. TableInv'
      BY <2>1, <2>4, <3>1, <3>3, BlockIds DEF BrokerInv, TableInv, Kept
    <3>6. ChainInv'
      BY <1>1, <1>2, <2>1, <3>1, <3>3 DEF BrokerInv, ChainInv
    <3>7. GenerationInv'
      BY <1>1, <2>1, <2>4, <3>1, <3>3, BlockIds DEF BrokerInv, GenerationInv, TableInv
    <3> QED
      BY <3>4, <3>5, <3>6, <3>7 DEF BrokerInv
  <2> QED
    BY <1>6, <2>2, <2>3, <2>4 DEF TaskChecks
<1>7. CASE TaskShows(t)
  <2>1. PICK p \in task[t].result : Finish(t, entries, p)
    BY <1>7 DEF TaskShows
  <2>2. UNCHANGED gen
    BY <1>7 DEF TaskShows
  <2> QED
    BY <1>1, <2>1, <2>2, FinishKeeps
<1> QED
  BY <1>4, <1>5, <1>6, <1>7 DEF TaskStep

(***************************************************************************)
(* The ids suffice: a permit is free and the table bounds the completed    *)
(* tasks, so some id is unused when a task starts.                         *)
(***************************************************************************)
LEMMA IdUnused ==
  ASSUME BrokerType, TableInv, NEW b \in Blocks, CanStart(b)
  PROVE  NewTask \in TaskIds /\ task[NewTask].step = "free"
<1> DEFINE unused == {t \in TaskIds : task[t].step = "free"}
           held == {entries[c] : c \in Kept}
           f == [c \in Kept |-> entries[c]]
<1>1. IsFiniteSet(TaskIds) /\ Cardinality(TaskIds) = Slots + MaxEntries
  BY FS_Interval, BrokerAssumption DEF TaskIds
<1>2. f \in Surjection(Kept, held)
  BY DEF Surjection
<1>3. IsFiniteSet(held) /\ Cardinality(held) <= Cardinality(Kept)
  BY <1>2, KeptFinite, FS_Surjection
<1>4. Running \subseteq TaskIds
  BY DEF Running
<1>5. IsFiniteSet(Running)
  BY <1>1, <1>4, FS_Subset
<1>6. Cardinality(held) \in Nat /\ Cardinality(Running) \in Nat /\ Cardinality(Kept) \in Nat
  BY <1>3, <1>5, KeptFinite, FS_CardinalityType
<1>7. Cardinality(Running) < Slots /\ Cardinality(Kept) <= MaxEntries
  BY DEF CanStart, TableInv
<1>8. unused # {}
  <2> SUFFICES ASSUME unused = {} PROVE FALSE
    OBVIOUS
  <2>1. TaskIds \subseteq Running \cup held
    <3> SUFFICES ASSUME NEW t \in TaskIds, t \notin Running PROVE t \in held
      OBVIOUS
    <3>1. task[t] \in Tasks /\ task[t].step # "free"
      BY DEF BrokerType
    <3>2. task[t].step = "done"
      BY <3>1 DEF Running, Tasks
    <3>3. PICK c \in Blocks : entries[c] = t
      BY <3>2 DEF TableInv
    <3>4. c \in Kept
      BY <3>3, BlockIds DEF Kept
    <3> QED
      BY <3>3, <3>4
  <2> DEFINE I == Cardinality(Running \cap held)
  <2>2. /\ IsFiniteSet(Running \cup held)
        /\ Cardinality(Running \cup held) = Cardinality(Running) + Cardinality(held) - I
    BY <1>3, <1>5, FS_Union
  <2>3. I \in Nat
    BY <1>3, FS_Intersection, FS_CardinalityType
  <2>4. Cardinality(TaskIds) <= Cardinality(Running \cup held)
    BY <2>1, <2>2, FS_Subset
  <2> HIDE DEF I, held
  <2> QED
    BY <1>1, <1>3, <1>6, <1>7, <2>2, <2>3, <2>4, BrokerAssumption
<1>9. \E t \in unused : \A u \in unused : t <= u
  <2>1. unused \subseteq Nat
    BY BlockIds
  <2>2. PICK t \in unused : \A u \in unused : ~(<<u, t>> \in OpToRel(<, Nat))
    BY <1>8, <2>1, NatLessThanWellFounded, WFMin
  <2>3. ASSUME NEW u \in unused PROVE t <= u
    <3>1. ~(u < t)
      BY <2>1, <2>2 DEF OpToRel
    <3> QED
      BY <2>1, <3>1
  <2> QED
    BY <2>3
<1> QED
  BY <1>9 DEF NewTask

LEMMA RequestKeeps ==
  ASSUME BrokerInv, NEW b \in Blocks, b <= Len(mirror), Request(b),
         UNCHANGED <<node, era, mirror>>, pc' = pc \/ (pc = "refresh" /\ pc' = "wait")
  PROVE  BrokerInv'
<1>1. \A p : Sound(p)' <=> Sound(p)
  BY DEF Sound
<1>2. CASE ~CanStart(b)
  <2>1. UNCHANGED <<gen, entries, task>>
    BY <1>2 DEF Request, brokerVars
  <2> QED
    BY <1>1, <2>1 DEF BrokerInv, BrokerType, TableInv, Kept, ChainInv, GenerationInv
<1>3. CASE CanStart(b)
  <2> DEFINE n == NewTask
             gone == {entries[c] : c \in Evicted}
             k == [step |-> "fetch", block |-> b, gen |-> gen, result |-> None]
  <2>1. n \in TaskIds /\ task[n].step = "free" /\ n # 0
    BY <1>3, IdUnused, BlockIds DEF BrokerInv
  <2>2. /\ entries' = [c \in Blocks |-> IF c = b THEN n ELSE IF c \in Evicted THEN 0 ELSE entries[c]]
        /\ task' = [t \in TaskIds |-> IF t = n THEN k ELSE IF t \in gone THEN Free ELSE task[t]]
        /\ gen' = gen
    BY <1>3 DEF Request, Start
  <2>3. Free \in Tasks /\ Free.gen = 0 /\ Free.block = 0 /\ Free.result = {} /\ Free.step = "free"
    BY BrokerAssumption DEF Free, Tasks, None
  <2>4. /\ k \in Tasks /\ k.step = "fetch" /\ k.block = b /\ k.gen = gen /\ k.result = {}
    BY BrokerAssumption DEF Tasks, None, BrokerInv, BrokerType, Blocks
  <2>5. Evicted \subseteq Kept /\ Kept \subseteq Blocks /\ entries[b] = 0
    BY <1>3 DEF Evicted, Completed, Kept, CanStart
  <2>6. \A c \in Blocks : entries[c] # 0 => entries[c] \in TaskIds /\ entries[c] # n
    BY <2>1 DEF BrokerInv, TableInv
  <2>7. \A c \in Blocks : entries[c] # 0 /\ c \notin Evicted => entries[c] \notin gone
    BY <2>5 DEF BrokerInv, TableInv, Kept
  <2> HIDE DEF n, gone, k
  <2>8. BrokerType'
    <3>1. task' \in [TaskIds -> Tasks] /\ \A t \in TaskIds : task'[t] \in {k, Free, task[t]}
      BY <2>2, <2>3, <2>4 DEF BrokerInv, BrokerType
    <3>2. \A t \in TaskIds : task'[t].gen <= gen /\ task'[t].result \subseteq Chains(era)
      BY <2>3, <2>4, <3>1 DEF BrokerInv, BrokerType
    <3>3. entries' \in [Blocks -> Nat]
      BY <2>1, <2>2, BlockIds DEF BrokerInv, BrokerType
    <3> QED
      BY <2>2, <3>1, <3>2, <3>3 DEF BrokerInv, BrokerType
  <2>9. Cardinality(Kept') <= MaxEntries
    <3>1. Kept' = (Kept \ Evicted) \cup {b}
      BY <2>1, <2>2, <2>5 DEF Kept
    <3>2. IsFiniteSet(Kept \ Evicted)
      BY KeptFinite, FS_Difference
    <3>3. Cardinality(Kept \ Evicted) \in Nat /\ Cardinality(Kept \ Evicted) < MaxEntries
      BY <1>3, <3>2, FS_CardinalityType DEF CanStart
    <3>4. Cardinality(Kept') = IF b \in Kept \ Evicted THEN Cardinality(Kept \ Evicted)
                               ELSE Cardinality(Kept \ Evicted) + 1
      BY <3>1, <3>2, FS_AddElement
    <3> QED
      BY <3>3, <3>4, BrokerAssumption
  <2>10. TableInv'
    <3>1. ASSUME NEW c \in Blocks, entries'[c] # 0
          PROVE  entries'[c] \in TaskIds /\ task'[entries'[c]].step # "free" /\ task'[entries'[c]].block = c
      <4>1. CASE c = b
        BY <2>1, <2>2, <2>4, <4>1
      <4>2. CASE c # b
        <5>1. entries'[c] = entries[c] /\ entries[c] # 0 /\ c \notin Evicted
          BY <2>2, <3>1, <4>2
        <5>2. task'[entries[c]] = task[entries[c]]
          BY <2>2, <2>6, <2>7, <5>1
        <5> QED
          BY <5>1, <5>2 DEF BrokerInv, TableInv
      <4> QED
        BY <4>1, <4>2
    <3>2. ASSUME NEW t \in TaskIds, task'[t].step = "done"
          PROVE  \E c \in Blocks : entries'[c] = t
      <4>1. t # n /\ t \notin gone /\ task'[t] = task[t]
        BY <2>2, <2>3, <2>4, <3>2
      <4>2. PICK c \in Blocks : entries[c] = t
        BY <3>2, <4>1 DEF BrokerInv, TableInv
      <4>3. c # b /\ c \notin Evicted
        BY <2>5, <4>1, <4>2, BlockIds DEF gone
      <4> QED
        BY <2>2, <4>2, <4>3
    <3> QED
      BY <2>9, <3>1, <3>2 DEF TableInv
  <2>11. ChainInv'
    <3>1. \A t \in TaskIds : task'[t] \in {k, Free, task[t]}
      BY <2>2
    <3>2. Len(mirror) \in Nat
      BY DEF BrokerInv, BrokerType
    <3> QED
      BY <1>1, <2>2, <2>3, <2>4, <3>1, <3>2 DEF BrokerInv, ChainInv
  <2>12. GenerationInv'
    <3> SUFFICES ASSUME pc \notin {"invalidate", "clear"}, NEW c \in Blocks, entries'[c] # 0
                 PROVE  task'[entries'[c]].gen = gen
      BY <2>2 DEF GenerationInv
    <3>1. CASE c = b
      BY <2>1, <2>2, <2>4, <3>1
    <3>2. CASE c # b
      <4>1. entries'[c] = entries[c] /\ entries[c] # 0 /\ c \notin Evicted
        BY <2>2, <3>2
      <4>2. task'[entries[c]] = task[entries[c]]
        BY <2>2, <2>6, <2>7, <4>1
      <4> QED
        BY <4>1, <4>2 DEF BrokerInv, GenerationInv
    <3> QED
      BY <3>1, <3>2
  <2> QED
    BY <2>8, <2>10, <2>11, <2>12 DEF BrokerInv
<1> QED
  BY <1>2, <1>3
-----------------------------------------------------------------------------
LEMMA NextBroker == BrokerInv /\ WantType /\ [Next]_vars => BrokerInv'
<1> SUFFICES ASSUME BrokerInv, WantType, [Next]_vars PROVE BrokerInv'
  OBVIOUS
<1>1. ASSUME UNCHANGED coreVars PROVE BrokerInv'
  BY <1>1 DEF coreVars, BrokerInv, BrokerType, TableInv, Kept, ChainInv, Sound, GenerationInv
<1>2. Len(mirror) \in 0..MaxHeight /\ MaxHeight \in Nat /\ mirror \in Seq(Nat)
  BY BrokerAssumption DEF BrokerInv, BrokerType, Chains
<1>3. CASE Refresh
  <2>1. pc = "refresh" /\ pc' = "wait" /\ Request(Len(mirror)) /\ UNCHANGED <<node, era, mirror>>
    BY <1>3 DEF Refresh, GoTo, chainVars
  <2>2. Len(mirror) \in Blocks
    BY <1>2, <2>1 DEF BrokerInv, BrokerType, Blocks
  <2>3. Len(mirror) <= Len(mirror)
    BY <1>2
  <2> QED
    BY <2>1, <2>2, <2>3, RequestKeeps
<1>4. CASE Connect
  <2>1. UNCHANGED <<node, era, mirror, pc>>
    BY <1>4 DEF Connect, chainVars
  <2>2. CASE mirror = <<>>
    BY <1>1, <1>4, <2>1, <2>2 DEF Connect, brokerVars, coreVars
  <2>3. CASE mirror # <<>>
    <3>1. Len(mirror) # 0
      BY <1>2, <2>3, EmptySeq
    <3>2. Len(mirror) \in Blocks /\ Len(mirror) <= Len(mirror) /\ Request(Len(mirror))
      BY <1>2, <1>4, <2>3, <3>1 DEF Connect, Blocks
    <3> QED
      BY <2>1, <3>2, RequestKeeps
  <2> QED
    BY <2>2, <2>3
<1>5. CASE HttpProof
  <2>1. UNCHANGED <<node, era, mirror, pc>> /\ want.block \in Blocks
    BY <1>5 DEF HttpProof, chainVars, WantType
  <2>2. UNCHANGED brokerVars \/ (InWindow(want.block) /\ Request(want.block))
    BY <1>5 DEF HttpProof
  <2>3. CASE UNCHANGED brokerVars
    BY <1>1, <2>1, <2>3 DEF brokerVars, coreVars
  <2>4. CASE InWindow(want.block) /\ Request(want.block)
    <3>1. want.block <= Len(mirror)
      BY <2>4 DEF InWindow
    <3> QED
      BY <2>1, <2>4, <3>1, RequestKeeps
  <2> QED
    BY <2>2, <2>3, <2>4
<1>6. CASE \/ Disconnect \/ HearProof \/ StreamWaitEnds \/ UNCHANGED vars
           \/ \E b \in Blocks : Acquire(b)
  <2>1. UNCHANGED coreVars
    BY <1>6 DEF Disconnect, HearProof, StreamWaitEnds, StopWaiting, Acquire, vars, chainVars, brokerVars, coreVars
  <2> QED
    BY <1>1, <2>1
<1> QED
  BY <1>3, <1>4, <1>5, <1>6, NodeKeeps, CycleKeeps, InvalidateKeeps, TaskKeeps DEF Next, LoopStep

LEMMA NextWant == BrokerInv /\ WantType /\ [Next]_vars => WantType'
<1> SUFFICES ASSUME BrokerInv, WantType, [Next]_vars PROVE WantType'
  OBVIOUS
<1> DEFINE Wants == [step : {"idle", "stream", "http", "channel"}, block : 0..MaxHeight, on : Nat]
<1>0. Blocks \subseteq 0..MaxHeight
  BY BrokerAssumption DEF Blocks
<1>1. Idle \in Wants /\ Idle.step = "idle"
  BY BrokerAssumption DEF Idle
<1>2. CASE want' = want \/ want' = Idle
  BY <1>1, <1>2 DEF WantType
<1>3. ASSUME NEW b \in Blocks, Acquire(b) PROVE WantType'
  <2>1. PICK step \in {"stream", "http"} : want' = [step |-> step, block |-> b, on |-> 0]
    BY <1>3 DEF Acquire
  <2> QED
    BY <1>0, <2>1 DEF WantType
<1>4. CASE StreamWaitEnds
  <2>1. want.step = "stream" /\ (want' = Idle \/ want' = [want EXCEPT !.step = "http"])
    BY <1>4 DEF StreamWaitEnds, StopWaiting
  <2>2. CASE want' = [want EXCEPT !.step = "http"]
    BY <2>1, <2>2 DEF WantType
  <2> QED
    BY <1>2, <2>1, <2>2
<1>5. CASE HttpProof
  <2> DEFINE b == want.block
             t == IF entries[b] # 0 THEN entries[b] ELSE NewTask
  <2>1. want.step = "http" /\ b \in Blocks
    BY <1>5 DEF HttpProof, WantType
  <2>2. \/ want' = Idle
        \/ (entries[b] # 0 \/ CanStart(b)) /\ want' = [want EXCEPT !.step = "channel", !.on = t]
    BY <1>5 DEF HttpProof
  <2>3. CASE (entries[b] # 0 \/ CanStart(b)) /\ want' = [want EXCEPT !.step = "channel", !.on = t]
    <3>1. t \in Nat
      BY <2>1, <2>3, IdUnused, BlockIds DEF BrokerInv, BrokerType, TableInv
    <3> HIDE DEF t
    <3> QED
      BY <2>1, <2>3, <3>1 DEF WantType
  <2> QED
    BY <1>2, <2>2, <2>3
<1>6. CASE \/ NodeStep \/ LoopStep \/ Connect \/ Disconnect \/ HearProof \/ UNCHANGED vars
           \/ \E t \in TaskIds : TaskStep(t)
  <2>1. want' = want \/ want' = Idle
    BY <1>6 DEF NodeStep, LoopStep, Cycle, BumpGeneration, ClearEntries, ShowReset, Refresh, GoTo, Connect,
       Disconnect, HearProof, TaskStep, TaskAnswered, TaskFails, TaskChecks, TaskShows, Finish, Deliver,
       vars, workerVars
  <2> QED
    BY <1>2, <2>1
<1> QED
  BY <1>3, <1>4, <1>5, <1>6 DEF Next

(***************************************************************************)
(* Once the loop has taken in the node's chain, the broker serves proofs   *)
(* of that chain only, for every number of tasks, every size of the table  *)
(* and every sequence of reorganisations: the generation that invalidate   *)
(* bumps before it clears the table is enough, whatever the tasks of       *)
(* earlier generations still do.                                           *)
(***************************************************************************)
THEOREM BrokerServesTheChain == Spec => []ServedProofsCurrent
<1>1. BrokerInv => ServedProofsCurrent
  <2> SUFFICES ASSUME BrokerInv, pc = "wait", mirror = node,
                      NEW b \in Completed, NEW p \in task[entries[b]].result \ {Failed}
               PROVE  IsPrefix(p, node)
    BY DEF ServedProofsCurrent
  <2>1. b \in Blocks /\ entries[b] # 0
    BY DEF Completed, Kept
  <2>2. entries[b] \in TaskIds /\ task[entries[b]].gen = gen
    BY <2>1 DEF BrokerInv, TableInv, GenerationInv
  <2>3. Sound(p) /\ p \in Chains(era)
    BY <2>2 DEF BrokerInv, BrokerType, ChainInv
  <2>4. p \in Seq(Nat) /\ node \in Seq(Nat) /\ Len(node) \in Nat
    BY <2>3, LenProperties DEF BrokerInv, BrokerType, Chains
  <2>5. Within(node, node)
    BY <2>4 DEF Within, Agree
  <2>6. Past(p, node) /\ Len(p) <= Len(node) /\ (Within(p, node) \/ Older(node, p))
    BY <2>3 DEF Sound
  <2>7. Within(p, node)
    BY <2>4, <2>5, <2>6, NoWayBack
  <2> QED
    BY <2>4, <2>7, PrefixIsWithin
<1> QED
  BY <1>1, InitBroker, NextBroker, NextWant, PTL DEF Spec
=============================================================================
