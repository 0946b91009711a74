-------------------------- MODULE DiscoveryProofs --------------------------
(***************************************************************************)
(* Proofs about Discovery: for every chain length, number of branches and  *)
(* number of syncs, the balances of a sync that had the store to itself    *)
(* are the chain's, the cursors recorded under the present generation are  *)
(* of the present rows, and a cached report that still answers is the one  *)
(* a fresh discovery would give. All three follow from one inductive       *)
(* invariant, DiscInv.                                                     *)
(***************************************************************************)
EXTENDS Discovery, FiniteSetTheorems, SequenceTheorems, WellFoundedInduction, TLAPS

(***************************************************************************)
(* The types.                                                              *)
(***************************************************************************)
Blocks    == [era : Nat, kind : {"quiet", "other", "note", "spend"}]
Positions == [num : Nat, era : Nat]
Steps     == {"idle", "rewind", "prune", "ckpt", "ckptRegister", "ckptSave", "ckptAt", "live",
              "liveRegister", "liveSave", "spent", "gen", "report"}
Passing   == Steps \ {"idle", "rewind", "prune"}
DiscoveryType ==
  /\ era \in Nat /\ feedFloor \in Nat /\ floor \in Nat /\ generation \in Nat /\ ownerGen \in Nat
  /\ feed \in Seq(Blocks) /\ blocks \in Seq(Blocks)
  /\ Len(feed) <= MaxLen /\ Len(blocks) <= MaxLen
  /\ live \in Nat \cup {None} /\ ckpt \in Nat \cup {None}
  /\ notes \in [Indices -> [at : SUBSET Positions, spent : BOOLEAN]]
  /\ sdk \in BOOLEAN /\ cp \in Nat /\ step \in Steps /\ fresh \in BOOLEAN
  /\ mem \in [head : Nat, floor : Nat, gen : Nat, cursor : Nat,
              found : SUBSET [i : Nat, at : SUBSET Positions]]
  /\ mem.head <= MaxLen

(***************************************************************************)
(* Two chains agree up to block n; a carries over to b when every block    *)
(* row of a up to m is also b's. Chains of one branch agree as far as a    *)
(* block of it that both have: an era never comes back once its tail is    *)
(* replaced, and nothing below the floor is replaced.                      *)
(***************************************************************************)
Agree(a, b, n) == n <= Len(a) /\ n <= Len(b) /\ \A k \in 1..n : a[k] = b[k]
Carries(a, b, m) == \A n \in 1..Len(a) : n <= m /\ a[n].kind # "quiet" => Agree(a, b, n)
ChainInv ==
  /\ floor <= feedFloor /\ feedFloor <= Len(feed) /\ Agree(blocks, feed, floor)
  /\ \A n \in 1..Len(feed) : feed[n].era <= era
  /\ \A n \in 1..Len(blocks) :
       /\ blocks[n].era <= era
       /\ blocks[n].era = era => Agree(blocks, feed, n)
       /\ n <= Len(feed) /\ blocks[n].era = feed[n].era => Agree(blocks, feed, n)

(***************************************************************************)
(* The registry at a bound. A row is right when it has the block that      *)
(* wrote its note. Sound: no row and no live cursor is beyond the notes of *)
(* the chain. Marked: a row that is not right is of a spent note and says  *)
(* so, which is why it never counts in a balance.                          *)
(***************************************************************************)
Right(i, b) == notes[i].at = NoteAt(blocks, i, b)
Sound(b) ==
  /\ \A i \in Known : i <= NoteCount(blocks, b)
  /\ live <= NoteCount(blocks, b)
Marked(b) == \A i \in Known : Right(i, b) \/ (Spent(blocks, i, b) /\ notes[i].spent)

(***************************************************************************)
(* The checkpoint cursor stands for final blocks only, so it outlives      *)
(* every generation: the rows up to it are right at the floor, or their    *)
(* notes are spent there. Settled does not speak of the spent flag, which  *)
(* the refresh at the end of the sync sets.                                *)
(***************************************************************************)
Floor == IF step = "idle" THEN floor ELSE mem.floor
Settled(to) == \A i \in Known : i <= to => Right(i, Floor) \/ Spent(blocks, i, Floor)
CkptInv ==
  /\ sdk => ckpt = None
  /\ ckpt <= NoteCount(blocks, Floor) /\ Settled(ckpt)
  /\ step \in {"ckptRegister", "ckptSave"} => ~sdk /\ mem.cursor = NoteCount(blocks, mem.floor)
  /\ step = "ckptSave" => Settled(mem.cursor)
  /\ step # "idle" => mem.floor <= mem.head /\ mem.floor <= floor

(***************************************************************************)
(* What the engine returned and the process holds between the scan and the *)
(* registration. Another process may apply the feed in between: what was   *)
(* returned is then still right up to the floor, and at the head as long   *)
(* as the generation stands. When the owner was rewound, a row that is     *)
(* neither right nor spent has been returned, so the registration replaces *)
(* it.                                                                     *)
(***************************************************************************)
Returned(i) == \E f \in mem.found : f.i = i
FoundInv ==
  step \in {"ckptRegister", "liveRegister"} =>
    /\ \A f, g \in mem.found : f.i = g.i => f = g
    /\ \A f \in mem.found :
         /\ f.at # {} /\ f.i > 0
         /\ f.i <= NoteCount(blocks, mem.floor) => f.at = NoteAt(blocks, f.i, mem.floor)
         /\ step = "ckptRegister" => f.i <= NoteCount(blocks, mem.floor)
         /\ mem.gen = generation => /\ f.i <= NoteCount(blocks, mem.head)
                                    /\ f.at = NoteAt(blocks, f.i, mem.head)
    /\ step = "ckptRegister" => \A i \in Known : ckpt < i /\ i <= mem.cursor =>
                                  Spent(blocks, i, mem.floor) \/ Returned(i)
    /\ step = "liveRegister" /\ mem.gen = generation /\ ownerGen # mem.gen =>
         \A i \in Known : Right(i, mem.head) \/ Spent(blocks, i, mem.head) \/ Returned(i)

(***************************************************************************)
(* The generation the sync read lies between the owner's and the store's.  *)
(* As long as it is the store's, the registry of an owner whose generation *)
(* it is stays sound and marked through every step; an owner of an older   *)
(* generation has no live cursor until the live pass ends, and gets marked *)
(* rows by the time the generation is saved. A sync that has the store to  *)
(* itself also ends with every note and every spent flag.                  *)
(***************************************************************************)
GenInv ==
  /\ ownerGen <= generation
  /\ step \notin {"idle", "rewind"} => ownerGen <= mem.gen /\ mem.gen <= generation
  /\ step = "prune" => ownerGen # mem.gen /\ live = None
  /\ fresh /\ step \notin {"idle", "rewind"} => mem.gen = generation
  /\ fresh /\ step # "idle" => mem.head <= Len(blocks)
PassInv ==
  step \in Passing /\ mem.gen = generation =>
    /\ Sound(mem.head)
    /\ ownerGen = mem.gen => Marked(mem.head)
    /\ ownerGen # mem.gen =>
         /\ step \notin {"spent", "gen", "report"} => live = None
         /\ step \in {"liveSave", "spent"} =>
              \A i \in Known : Right(i, mem.head) \/ Spent(blocks, i, mem.head)
         /\ step = "gen" => Marked(mem.head)
         /\ step # "report"
    /\ step \in {"liveRegister", "liveSave"} => mem.cursor <= NoteCount(blocks, mem.head)
    /\ fresh =>
         /\ step \in {"liveRegister", "liveSave"} => mem.cursor = NoteCount(blocks, mem.head)
         /\ step \in {"liveSave", "spent", "gen", "report"} =>
              \A i \in 1..NoteCount(blocks, mem.head) : i \in Known
         /\ step \in {"gen", "report"} =>
              \A i \in Known : notes[i].spent = Spent(blocks, i, mem.head)

(***************************************************************************)
(* Between syncs: the registry on record under the present generation is   *)
(* sound and marked for every row of the store; in a browser, for the rows *)
(* up to the block of the last report, which is where discovery stopped.   *)
(***************************************************************************)
RestBound == IF sdk THEN cache.block ELSE MaxLen
RestInv ==
  /\ step = "idle" /\ ownerGen = generation => Sound(RestBound) /\ Marked(RestBound)
  /\ step = "rewind" /\ ownerGen = generation => Sound(mem.head) /\ Marked(mem.head)

(***************************************************************************)
(* The report a discovery at block c gives, and the browser's cache: it    *)
(* stands for any chain, the feed's or the store's, that has the stamp's   *)
(* era at the stamp's block, even after it left the store and came back.   *)
(***************************************************************************)
Report(chain, c) ==
  [i \in 1..NoteCount(chain, c) |-> [at |-> NoteAt(chain, i, c), spent |-> Spent(chain, i, c)]]
SdkInv ==
  /\ cp <= Len(blocks) /\ (~sdk => cp = 0) /\ cache.block \in Nat
  /\ cache = [stamp |-> cache.stamp, block |-> cache.block, notes |-> cache.notes]
  /\ sdk /\ step # "idle" => fresh /\ cp > 0 /\ mem.head = cp
  /\ cache.stamp = <<>> \/
       /\ cache.stamp[1] \in Nat \ {0} /\ cache.stamp[2] \in Nat
       /\ cache.stamp[2] <= era
       /\ cache.stamp[2] = era => cache.stamp[1] <= Len(feed)
       /\ \A chain \in {feed, blocks} :
            cache.stamp[1] <= Len(chain) /\ chain[cache.stamp[1]].era = cache.stamp[2]
              => cache.notes = Report(chain, cache.stamp[1])

DiscInv ==
  /\ DiscoveryType /\ ChainInv /\ CkptInv /\ FoundInv /\ GenInv /\ PassInv /\ RestInv /\ SdkInv
-----------------------------------------------------------------------------
(***************************************************************************)
(* Counting the blocks of a kind.                                          *)
(***************************************************************************)
At(chain, kind, m) == {n \in 1..Len(chain) : n <= m /\ chain[n].kind = kind}

\* Blocks of a kind are finitely many, and Count is their number.
LEMMA AtFinite ==
  ASSUME NEW chain \in Seq(Blocks), NEW kind, NEW m
  PROVE  /\ IsFiniteSet(At(chain, kind, m)) /\ Cardinality(At(chain, kind, m)) \in Nat
         /\ Count(chain, kind, m) = Cardinality(At(chain, kind, m))
         /\ Count(chain, kind, m) \in Nat
<1>1. Len(chain) \in Nat
  BY LenProperties
<1>2. IsFiniteSet(1..Len(chain))
  BY <1>1, FS_Interval
<1>3. At(chain, kind, m) \in SUBSET (1..Len(chain))
  BY DEF At
<1>4. IsFiniteSet(At(chain, kind, m))
  BY <1>2, <1>3, FS_Subset
<1>5. Cardinality(At(chain, kind, m)) \in Nat
  BY <1>4, FS_CardinalityType
<1> QED
  BY <1>4, <1>5 DEF Count, At

\* What carries over counts at least as much there.
LEMMA CarryCount ==
  ASSUME NEW a \in Seq(Blocks), NEW b \in Seq(Blocks), NEW m \in Int, NEW p \in Int, m <= p,
         Carries(a, b, m), NEW kind \in {"note", "spend"}
  PROVE  Count(a, kind, m) <= Count(b, kind, p)
<1>1. Len(a) \in Nat /\ Len(b) \in Nat
  BY LenProperties
<1>2. At(a, kind, m) \subseteq At(b, kind, p)
  <2> SUFFICES ASSUME NEW n \in At(a, kind, m) PROVE n \in At(b, kind, p)
    OBVIOUS
  <2>1. n \in 1..Len(a) /\ n <= m /\ a[n].kind = kind /\ n \in Nat /\ n >= 1
    BY <1>1 DEF At
  <2>2. Agree(a, b, n)
    BY <2>1 DEF Carries
  <2>3. n <= Len(b) /\ a[n] = b[n]
    BY <2>1, <2>2 DEF Agree
  <2> QED
    BY <1>1, <2>1, <2>3 DEF At
<1>3. Cardinality(At(a, kind, m)) <= Cardinality(At(b, kind, p))
  BY <1>2, AtFinite, FS_Subset
<1> QED
  BY <1>3, AtFinite

\* Chains that agree up to a block have the same counts up to it.
LEMMA SameCount ==
  ASSUME NEW a \in Seq(Blocks), NEW b \in Seq(Blocks), NEW n \in Nat, Agree(a, b, n), NEW kind
  PROVE  Count(a, kind, n) = Count(b, kind, n)
<1>1. Len(a) \in Nat /\ Len(b) \in Nat
  BY LenProperties
<1>2. At(a, kind, n) = At(b, kind, n)
  BY <1>1 DEF At, Agree
<1> QED
  BY <1>2, AtFinite

\* A chain carries over to itself.
LEMMA CarriesSelf == ASSUME NEW a \in Seq(Blocks), NEW m PROVE Carries(a, a, m)
BY LenProperties DEF Carries, Agree

\* A count starts at zero and rises by one at each block of the kind.
LEMMA CountSteps ==
  ASSUME NEW a \in Seq(Blocks), NEW k \in Nat, k # 0, NEW kind
  PROVE  /\ Count(a, kind, 0) = 0
         /\ k \in 1..Len(a) /\ a[k].kind = kind => Count(a, kind, k) = Count(a, kind, k - 1) + 1
         /\ ~(k \in 1..Len(a) /\ a[k].kind = kind) => Count(a, kind, k) = Count(a, kind, k - 1)
<1>1. Len(a) \in Nat
  BY LenProperties
<1>2. At(a, kind, 0) = {}
  BY <1>1 DEF At
<1>3. Count(a, kind, 0) = 0
  BY <1>2, AtFinite, FS_EmptySet
<1>4. k \notin At(a, kind, k - 1) /\ k - 1 \in Nat
  BY <1>1 DEF At
<1>5. ASSUME k \in 1..Len(a), a[k].kind = kind PROVE Count(a, kind, k) = Count(a, kind, k - 1) + 1
  <2>1. At(a, kind, k) = At(a, kind, k - 1) \cup {k}
    BY <1>1, <1>5 DEF At
  <2>2. Cardinality(At(a, kind, k - 1) \cup {k}) = Cardinality(At(a, kind, k - 1)) + 1
    BY <1>4, AtFinite, FS_AddElement
  <2>3. /\ Count(a, kind, k) = Cardinality(At(a, kind, k))
        /\ Count(a, kind, k - 1) = Cardinality(At(a, kind, k - 1))
    BY AtFinite
  <2> QED
    BY <2>1, <2>2, <2>3, Zenon
<1>6. ASSUME ~(k \in 1..Len(a) /\ a[k].kind = kind) PROVE Count(a, kind, k) = Count(a, kind, k - 1)
  <2>1. At(a, kind, k) = At(a, kind, k - 1)
    BY <1>1, <1>6 DEF At
  <2> QED
    BY <2>1, AtFinite
<1> QED
  BY <1>3, <1>5, <1>6

(***************************************************************************)
(* Notes are numbered without gaps: number i has one block.                *)
(***************************************************************************)
Writes(chain, i, k) == k \in 1..Len(chain) /\ chain[k].kind = "note" /\ NoteCount(chain, k) = i

\* Every number up to the count is the number of a block: the first with that count.
LEMMA NoteExists ==
  ASSUME NEW a \in Seq(Blocks), NEW m \in Nat, NEW i \in 1..NoteCount(a, m)
  PROVE  \E k \in 1..Len(a) : k <= m /\ Writes(a, i, k)
<1> DEFINE B == {k \in Nat : NoteCount(a, k) >= i}
<1>1. \A k : NoteCount(a, k) \in Nat
  BY AtFinite DEF NoteCount
<1>2. m \in B /\ B \subseteq Nat /\ i \in Nat /\ i >= 1
  BY <1>1
<1>3. PICK k \in B : \A u \in B : ~(<<u, k>> \in OpToRel(<, Nat))
  BY <1>2, NatLessThanWellFounded, WFMin
<1>4. k \in Nat /\ NoteCount(a, k) >= i /\ \A u \in B : ~(u < k)
  BY <1>2, <1>3 DEF OpToRel
<1>5. k # 0
  <2>1. NoteCount(a, 0) = 0
    BY CountSteps DEF NoteCount
  <2> QED
    BY <1>2, <1>4, <2>1
<1>6. k - 1 \in Nat /\ NoteCount(a, k - 1) < i
  BY <1>1, <1>2, <1>4, <1>5
<1>7. k \in 1..Len(a) /\ a[k].kind = "note" /\ NoteCount(a, k) = NoteCount(a, k - 1) + 1
  <2>1. ASSUME ~(k \in 1..Len(a) /\ a[k].kind = "note") PROVE FALSE
    <3>1. NoteCount(a, k) = NoteCount(a, k - 1)
      BY <1>4, <1>5, <2>1, CountSteps DEF NoteCount
    <3> QED
      BY <1>1, <1>2, <1>4, <1>6, <3>1
  <2> QED
    BY <1>4, <1>5, <2>1, CountSteps DEF NoteCount
<1>8. NoteCount(a, k) = i
  BY <1>1, <1>2, <1>4, <1>6, <1>7
<1>9. k <= m
  BY <1>2, <1>4
<1> QED
  BY <1>7, <1>8, <1>9 DEF Writes

\* No two blocks write the note of one number.
LEMMA NoteUnique ==
  ASSUME NEW a \in Seq(Blocks), NEW i, NEW j, NEW k, Writes(a, i, j), Writes(a, i, k)
  PROVE  j = k
<1>1. Len(a) \in Nat /\ j \in Nat /\ k \in Nat /\ j >= 1 /\ k >= 1
  BY LenProperties DEF Writes
<1>2. ASSUME NEW x \in Nat, NEW y \in Nat, Writes(a, i, x), Writes(a, i, y), x < y PROVE FALSE
  <2>1. /\ y # 0 /\ y - 1 \in Nat /\ x <= y - 1 /\ x \in Int /\ y - 1 \in Int
        /\ NoteCount(a, x) = i /\ NoteCount(a, y) = i
        /\ y \in 1..Len(a) /\ a[y].kind = "note"
    BY <1>2 DEF Writes
  <2>2. NoteCount(a, x) <= NoteCount(a, y - 1)
    BY <2>1, CarriesSelf, CarryCount DEF NoteCount
  <2>3. NoteCount(a, y) = NoteCount(a, y - 1) + 1
    BY <2>1, CountSteps DEF NoteCount
  <2>4. NoteCount(a, y - 1) \in Nat
    BY AtFinite DEF NoteCount
  <2> QED
    BY <2>1, <2>2, <2>3, <2>4
<1>3. ~(j < k) /\ ~(k < j)
  BY <1>1, <1>2
<1> QED
  BY <1>1, <1>3

\* read_slot_as_of finds the one block that wrote the note.
LEMMA NoteAtIs ==
  ASSUME NEW a \in Seq(Blocks), NEW i, NEW m \in Nat, NEW k, k <= m, Writes(a, i, k)
  PROVE  NoteAt(a, i, m) = {[num |-> k, era |-> a[k].era]}
<1> DEFINE S == {x \in 1..Len(a) : x <= m /\ a[x].kind = "note" /\ NoteCount(a, x) = i}
<1>1. S = {k}
  <2>1. k \in S
    BY DEF Writes
  <2>2. ASSUME NEW x \in S PROVE x = k
    <3>1. Writes(a, i, x)
      BY DEF Writes
    <3> QED
      BY <3>1, NoteUnique
  <2> QED
    BY <2>1, <2>2
<1>2. NoteAt(a, i, m) = {[num |-> n, era |-> a[n].era] : n \in S}
  BY DEF NoteAt
<1> HIDE DEF S
<1> QED
  BY <1>1, <1>2

\* read_slot_as_of finds nothing for a number beyond the count.
LEMMA NoteAtNone ==
  ASSUME NEW a \in Seq(Blocks), NEW i \in Int, NEW m \in Nat, i \notin 1..NoteCount(a, m)
  PROVE  NoteAt(a, i, m) = {}
<1> DEFINE S == {x \in 1..Len(a) : x <= m /\ a[x].kind = "note" /\ NoteCount(a, x) = i}
<1>1. ASSUME NEW x \in S PROVE FALSE
  <2>1. x \in 1..Len(a) /\ Len(a) \in Nat /\ x \in Nat /\ x # 0 /\ x <= m /\ a[x].kind = "note"
        /\ NoteCount(a, x) = i
    BY LenProperties
  <2>2. NoteCount(a, x) <= NoteCount(a, m)
    BY <2>1, CarriesSelf, CarryCount DEF NoteCount
  <2>3. NoteCount(a, x) = NoteCount(a, x - 1) + 1
    BY <2>1, CountSteps DEF NoteCount
  <2>4. NoteCount(a, x - 1) \in Nat /\ NoteCount(a, m) \in Nat
    BY AtFinite DEF NoteCount
  <2> QED
    BY <2>1, <2>2, <2>3, <2>4
<1>2. NoteAt(a, i, m) = {[num |-> n, era |-> a[n].era] : n \in S}
  BY DEF NoteAt
<1>3. S = {}
  BY <1>1
<1> HIDE DEF S
<1> QED
  BY <1>2, <1>3

(***************************************************************************)
(* What a chain carries over to another, or to a higher bound, stays: the  *)
(* number of its notes and spends, and where its notes were written.       *)
(***************************************************************************)
LEMMA Carry ==
  ASSUME NEW a \in Seq(Blocks), NEW b \in Seq(Blocks), NEW m \in Nat, NEW p \in Nat, m <= p,
         Carries(a, b, m)
  PROVE  /\ NoteCount(a, m) \in Nat /\ NoteCount(b, p) \in Nat
         /\ NoteCount(a, m) <= NoteCount(b, p)
         /\ \A i \in Nat : Spent(a, i, m) => Spent(b, i, p)
         /\ \A i \in 1..NoteCount(a, m) : NoteAt(b, i, p) = NoteAt(a, i, m)
<1>1. NoteCount(a, m) \in Nat /\ NoteCount(b, p) \in Nat /\ Count(a, "spend", m) \in Nat
      /\ Count(b, "spend", p) \in Nat
  BY AtFinite DEF NoteCount
<1>2. NoteCount(a, m) <= NoteCount(b, p) /\ Count(a, "spend", m) <= Count(b, "spend", p)
  BY CarryCount DEF NoteCount
<1>3. \A i \in Nat : Spent(a, i, m) => Spent(b, i, p)
  BY <1>1, <1>2 DEF Spent
<1>4. ASSUME NEW i \in 1..NoteCount(a, m) PROVE NoteAt(b, i, p) = NoteAt(a, i, m)
  <2>1. PICK k \in 1..Len(a) : k <= m /\ Writes(a, i, k)
    BY NoteExists
  <2>2. k \in Nat /\ k >= 1 /\ a[k].kind = "note" /\ NoteCount(a, k) = i
    BY <2>1, LenProperties DEF Writes
  <2>3. Agree(a, b, k)
    BY <2>1, <2>2 DEF Carries
  <2>4. k <= Len(b) /\ a[k] = b[k] /\ Len(b) \in Nat
    BY <2>2, <2>3, LenProperties DEF Agree
  <2>5. NoteCount(b, k) = i
    BY <2>2, <2>3, SameCount DEF NoteCount
  <2>6. Writes(b, i, k)
    BY <2>2, <2>4, <2>5 DEF Writes
  <2>7. k <= p
    BY <2>1, <2>2
  <2>8. NoteAt(b, i, p) = {[num |-> k, era |-> b[k].era]}
    BY <2>6, <2>7, NoteAtIs, Zenon
  <2>9. NoteAt(a, i, m) = {[num |-> k, era |-> a[k].era]}
    BY <2>1, NoteAtIs, Zenon
  <2> QED
    BY <2>4, <2>8, <2>9
<1> QED
  BY <1>1, <1>2, <1>3, <1>4

\* A slot is filled exactly for the numbers up to the count.
LEMMA NoteThere ==
  ASSUME NEW a \in Seq(Blocks), NEW i \in Nat, i # 0, NEW m \in Nat
  PROVE  /\ NoteAt(a, i, m) # {} <=> i <= NoteCount(a, m)
         /\ NoteAt(a, i, m) \in SUBSET Positions
         /\ NoteCount(a, m) \in Nat
<1>1. NoteCount(a, m) \in Nat
  BY AtFinite DEF NoteCount
<1>2. CASE i <= NoteCount(a, m)
  <2>1. i \in 1..NoteCount(a, m)
    BY <1>1, <1>2
  <2>2. PICK k \in 1..Len(a) : k <= m /\ Writes(a, i, k)
    BY <2>1, NoteExists
  <2>3. NoteAt(a, i, m) = {[num |-> k, era |-> a[k].era]}
    BY <2>2, NoteAtIs, Zenon
  <2>4. k \in Nat /\ a[k] \in Blocks
    BY <2>2, LenProperties, ElementOfSeq
  <2> QED
    BY <1>1, <1>2, <2>3, <2>4 DEF Blocks, Positions
<1>3. CASE ~(i <= NoteCount(a, m))
  BY <1>1, <1>3, NoteAtNone
<1> QED
  BY <1>1, <1>2, <1>3
-----------------------------------------------------------------------------
(***************************************************************************)
(* What carries over to a grown store, for registry and cursors.           *)
(***************************************************************************)
LEMMA CarrySound ==
  ASSUME DiscoveryType, NEW m \in Nat, NEW p \in Nat, m <= p, blocks' \in Seq(Blocks),
         Carries(blocks, blocks', m), UNCHANGED <<notes, live>>, Sound(m)
  PROVE  Sound(p)' /\ (Marked(m) => Marked(p)')
<1>1. blocks \in Seq(Blocks) /\ live \in Nat \cup {None} /\ Known \subseteq Indices
  BY DEF DiscoveryType, Known
<1>2. /\ NoteCount(blocks, m) \in Nat /\ NoteCount(blocks', p) \in Nat
      /\ NoteCount(blocks, m) <= NoteCount(blocks', p)
      /\ \A i \in Nat : Spent(blocks, i, m) => Spent(blocks', i, p)
      /\ \A i \in 1..NoteCount(blocks, m) : NoteAt(blocks', i, p) = NoteAt(blocks, i, m)
  BY <1>1, Carry
<1>3. \A i \in Known : i \in 1..NoteCount(blocks, m) /\ i \in Nat
  BY <1>1, <1>2 DEF Sound, Indices
<1>4. Known' = Known
  BY DEF Known
<1>5. live <= NoteCount(blocks', p)
  BY <1>1, <1>2 DEF Sound, None
<1>6. \A i \in Known : i <= NoteCount(blocks', p)
  BY <1>2, <1>3
<1>7. Sound(p)'
  BY <1>4, <1>5, <1>6 DEF Sound
<1>8. ASSUME Marked(m) PROVE Marked(p)'
  BY <1>2, <1>3, <1>4, <1>8 DEF Marked, Right
<1> QED
  BY <1>7, <1>8

\* The rows below a cursor stay right or spent.
LEMMA CarrySettled ==
  ASSUME DiscoveryType, NEW m \in Nat, NEW p \in Nat, m <= p, blocks' \in Seq(Blocks),
         Carries(blocks, blocks', m), UNCHANGED notes,
         NEW to \in Nat \cup {None}, to <= NoteCount(blocks, m),
         \A i \in Known : i <= to => Right(i, m) \/ Spent(blocks, i, m)
  PROVE  /\ to <= NoteCount(blocks', p)
         /\ \A i \in Known' : i <= to => Right(i, p)' \/ Spent(blocks', i, p)
<1>1. blocks \in Seq(Blocks) /\ Known \subseteq Indices
  BY DEF DiscoveryType, Known
<1>2. /\ NoteCount(blocks, m) \in Nat /\ NoteCount(blocks', p) \in Nat
      /\ NoteCount(blocks, m) <= NoteCount(blocks', p)
      /\ \A i \in Nat : Spent(blocks, i, m) => Spent(blocks', i, p)
      /\ \A i \in 1..NoteCount(blocks, m) : NoteAt(blocks', i, p) = NoteAt(blocks, i, m)
  BY <1>1, Carry
<1>3. \A i \in Known : i \in Nat /\ (i <= to => i \in 1..NoteCount(blocks, m))
  BY <1>1, <1>2 DEF Indices, None
<1>4. Known' = Known
  BY DEF Known
<1>5. to <= NoteCount(blocks', p)
  BY <1>2 DEF None
<1> QED
  BY <1>2, <1>3, <1>4, <1>5 DEF Right

(***************************************************************************)
(* apply_feed: what is final is carried over, and everything is unless the *)
(* generation is bumped.                                                   *)
(***************************************************************************)
LEMMA Applied ==
  ASSUME DiscInv, Apply
  PROVE  /\ blocks' \in Seq(Blocks) /\ Len(blocks') <= MaxLen /\ floor' \in Nat
         /\ floor <= floor' /\ floor' <= Len(blocks')
         /\ generation' \in Nat /\ generation <= generation'
         /\ \A m \in Nat : m <= floor => Carries(blocks, blocks', m) /\ Agree(blocks, blocks', m)
         /\ generation' = generation => \A m \in Nat : Carries(blocks, blocks', m)
         /\ ChainInv'
<1>1. /\ blocks' = feed /\ floor' = feedFloor /\ UNCHANGED <<feed, feedFloor, era>>
      /\ generation' = IF Contradicted THEN generation + 1 ELSE generation
  BY DEF Apply, feedVars
<1>2. DiscoveryType /\ ChainInv /\ Len(feed) \in Nat /\ Len(blocks) \in Nat
  BY LenProperties DEF DiscInv, DiscoveryType
<1>3. \A m \in Nat : m <= floor => Carries(blocks, blocks', m) /\ Agree(blocks, blocks', m)
  BY <1>1, <1>2 DEF DiscoveryType, ChainInv, Carries, Agree
<1>4. ASSUME generation' = generation, NEW m \in Nat PROVE Carries(blocks, blocks', m)
  <2>1. ~Contradicted
    BY <1>1, <1>2, <1>4 DEF DiscoveryType
  <2>2. ASSUME NEW n \in 1..Len(blocks), blocks[n].kind # "quiet" PROVE Agree(blocks, feed, n)
    BY <1>2, <2>1, <2>2 DEF Contradicted, ChainInv
  <2> QED
    BY <1>1, <2>2 DEF Carries
<1>5. ChainInv'
  <2>1. Agree(feed, feed, feedFloor) /\ \A n \in 1..Len(feed) : Agree(feed, feed, n)
    BY <1>2 DEF Agree, ChainInv
  <2> QED
    BY <1>1, <1>2, <2>1 DEF ChainInv, DiscoveryType, Agree
<1>6. generation' \in Nat /\ generation <= generation'
  BY <1>1, <1>2 DEF DiscoveryType
<1> QED
  BY <1>1, <1>2, <1>3, <1>4, <1>5, <1>6 DEF DiscoveryType, ChainInv

(***************************************************************************)
(* The part of the invariant the feed's own steps do not reach.            *)
(***************************************************************************)
LEMMA OwnerSame ==
  ASSUME CkptInv, FoundInv, GenInv, PassInv, RestInv,
         UNCHANGED <<storeVars, ownerVars, sdkVars, step, mem, fresh>>
  PROVE  CkptInv' /\ FoundInv' /\ GenInv' /\ PassInv' /\ RestInv'
<1>1. /\ UNCHANGED <<blocks, floor, generation, ownerGen, live, ckpt, ckptAt, notes>>
      /\ UNCHANGED <<sdk, cp, cache, step, mem, fresh>>
  BY DEF storeVars, ownerVars, sdkVars
<1>2. Known' = Known
  BY <1>1 DEF Known
<1>3. CkptInv'
  BY <1>1, <1>2 DEF CkptInv, Settled, Floor, Right
<1>4. FoundInv'
  BY <1>1, <1>2 DEF FoundInv, Returned, Right
<1>5. GenInv'
  BY <1>1 DEF GenInv
<1>6. PassInv'
  BY <1>1, <1>2 DEF PassInv, Sound, Marked, Right
<1>7. RestInv'
  BY <1>1, <1>2 DEF RestInv, RestBound, Sound, Marked, Right
<1> QED
  BY <1>3, <1>4, <1>5, <1>6, <1>7

\* Chains that agree up to the checkpoint give the same report.
LEMMA SameReport ==
  ASSUME NEW a \in Seq(Blocks), NEW b \in Seq(Blocks), NEW c \in Nat, Agree(a, b, c)
  PROVE  Report(a, c) = Report(b, c)
<1>1. NoteCount(a, c) = NoteCount(b, c) /\ Count(a, "spend", c) = Count(b, "spend", c)
  BY SameCount DEF NoteCount
<1>2. Carries(a, b, c)
  BY LenProperties DEF Carries, Agree
<1>3. \A i \in 1..NoteCount(a, c) : NoteAt(b, i, c) = NoteAt(a, i, c)
  BY <1>2, Carry
<1>4. \A i \in 1..NoteCount(a, c) : Spent(b, i, c) = Spent(a, i, c)
  BY <1>1 DEF Spent
<1> QED
  BY <1>1, <1>3, <1>4 DEF Report

\* A block produced, a tail replaced, an epoch cut: eras only rise, the final part stays.
LEMMA FeedMoves ==
  ASSUME DiscInv, feed' \in Seq(Blocks), era' \in Nat, era <= era',
         UNCHANGED <<sdkVars, step, mem, fresh, blocks>>,
         \A n \in 1..Len(feed) : n <= Len(feed') => Agree(feed, feed', n),
         \A n \in 1..Len(feed') : n > Len(feed) => feed'[n].era = era,
         era' = era => Len(feed) <= Len(feed')
  PROVE  /\ SdkInv'
         /\ \A n \in 1..Len(feed') : feed'[n].era <= era'
         /\ \A n \in 1..Len(blocks) :
              /\ blocks[n].era <= era'
              /\ blocks[n].era = era' => Agree(blocks, feed', n)
              /\ n <= Len(feed') /\ blocks[n].era = feed'[n].era => Agree(blocks, feed', n)
<1>1. /\ Len(feed) \in Nat /\ Len(feed') \in Nat /\ Len(blocks) \in Nat /\ era \in Nat
      /\ feed \in Seq(Blocks) /\ blocks \in Seq(Blocks) /\ ChainInv /\ SdkInv
  BY LenProperties DEF DiscInv, DiscoveryType
<1>2. \A n \in 1..Len(feed') : feed'[n] \in Blocks /\ feed'[n].era \in Nat
  <2>1. \A n \in 1..Len(feed') : feed'[n] \in Blocks
    BY ElementOfSeq
  <2> QED
    BY <2>1 DEF Blocks
<1>3. \A n \in 1..Len(blocks) : blocks[n] \in Blocks /\ blocks[n].era \in Nat
  <2>1. \A n \in 1..Len(blocks) : blocks[n] \in Blocks
    BY <1>1, ElementOfSeq
  <2> QED
    BY <2>1 DEF Blocks
<1>4. \A n \in 1..Len(feed') : feed'[n].era <= era'
  <2> SUFFICES ASSUME NEW n \in 1..Len(feed') PROVE feed'[n].era <= era'
    OBVIOUS
  <2>1. CASE n <= Len(feed)
    <3>1. n \in 1..Len(feed) /\ n <= Len(feed')
      BY <1>1, <2>1
    <3>2. feed'[n] = feed[n]
      BY <1>1, <3>1 DEF Agree
    <3> QED
      BY <1>1, <1>2, <3>1, <3>2 DEF ChainInv
  <2>2. CASE n > Len(feed)
    BY <1>1, <2>2
  <2> QED
    BY <1>1, <2>1, <2>2
<1>5. ASSUME NEW n \in 1..Len(blocks), n <= Len(feed'), Agree(blocks, feed, n)
      PROVE  Agree(blocks, feed', n)
  <2>1. n \in 1..Len(feed) /\ Agree(feed, feed', n)
    BY <1>1, <1>5 DEF Agree
  <2> QED
    BY <1>5, <2>1 DEF Agree
<1>6. ASSUME NEW n \in 1..Len(blocks)
      PROVE  /\ blocks[n].era <= era'
             /\ blocks[n].era = era' => Agree(blocks, feed', n)
             /\ n <= Len(feed') /\ blocks[n].era = feed'[n].era => Agree(blocks, feed', n)
  <2>1. /\ blocks[n].era <= era /\ n \in Nat /\ n >= 1
        /\ blocks[n].era = era => Agree(blocks, feed, n)
        /\ n <= Len(feed) /\ blocks[n].era = feed[n].era => Agree(blocks, feed, n)
    BY <1>1 DEF ChainInv
  <2>2. blocks[n].era <= era'
    BY <1>1, <1>3, <2>1
  <2>3. ASSUME blocks[n].era = era' PROVE Agree(blocks, feed', n)
    <3>1. era' = era
      BY <1>1, <2>1, <2>3
    <3>2. Agree(blocks, feed, n)
      BY <2>1, <2>3, <3>1
    <3>3. n <= Len(feed')
      BY <1>1, <2>1, <3>1, <3>2 DEF Agree
    <3> QED
      BY <1>5, <3>2, <3>3
  <2>4. ASSUME n <= Len(feed'), blocks[n].era = feed'[n].era PROVE Agree(blocks, feed', n)
    <3>1. CASE n <= Len(feed)
      <4>1. feed'[n] = feed[n]
        BY <1>1, <2>1, <2>4, <3>1 DEF Agree
      <4> QED
        BY <1>5, <2>1, <2>4, <3>1, <4>1
    <3>2. CASE n > Len(feed)
      <4>1. feed'[n].era = era
        BY <1>1, <2>1, <2>4, <3>2
      <4>2. Agree(blocks, feed, n)
        BY <2>1, <2>4, <4>1
      <4> QED
        BY <1>1, <2>1, <3>2, <4>2 DEF Agree
    <3> QED
      BY <1>1, <2>1, <3>1, <3>2
  <2> QED
    BY <2>2, <2>3, <2>4
<1>7. SdkInv'
  <2>1. UNCHANGED <<sdk, cp, cache>>
    BY DEF sdkVars
  <2>2. CASE cache.stamp = <<>>
    BY <1>1, <2>1, <2>2 DEF SdkInv
  <2>3. CASE cache.stamp # <<>>
    <3>1. PICK c, e : c = cache.stamp[1] /\ e = cache.stamp[2]
      OBVIOUS
    <3>2. /\ c \in Nat \ {0} /\ e \in Nat /\ e <= era /\ (e = era => c <= Len(feed))
          /\ \A chain \in {feed, blocks} : c <= Len(chain) /\ chain[c].era = e
               => cache.notes = Report(chain, c)
      BY <1>1, <2>3, <3>1 DEF SdkInv
    <3>3. e <= era' /\ (e = era' => c <= Len(feed'))
      BY <1>1, <3>2
    <3>4. ASSUME c <= Len(feed'), feed'[c].era = e PROVE cache.notes = Report(feed', c)
      <4>1. c <= Len(feed)
        BY <1>1, <3>2, <3>4
      <4>2. Agree(feed, feed', c)
        BY <1>1, <3>2, <3>4, <4>1
      <4>3. feed[c] = feed'[c]
        BY <3>2, <4>2 DEF Agree
      <4>4. cache.notes = Report(feed, c)
        BY <3>2, <3>4, <4>1, <4>3
      <4>5. Report(feed, c) = Report(feed', c)
        BY <1>1, <3>2, <4>2, SameReport
      <4> QED
        BY <4>4, <4>5
    <3>5. /\ cache'.stamp[1] \in Nat \ {0} /\ cache'.stamp[2] \in Nat
          /\ cache'.stamp[2] <= era'
          /\ cache'.stamp[2] = era' => cache'.stamp[1] <= Len(feed')
          /\ \A chain \in {feed', blocks'} :
               cache'.stamp[1] <= Len(chain) /\ chain[cache'.stamp[1]].era = cache'.stamp[2]
                 => cache'.notes = Report(chain, cache'.stamp[1])
      BY <2>1, <3>1, <3>2, <3>3, <3>4
    <3> QED
      BY <1>1, <2>1, <3>5 DEF SdkInv
  <2> QED
    BY <2>2, <2>3
<1> QED
  BY <1>4, <1>6, <1>7

\* The feed moves under a store that has not applied it.
LEMMA FeedStepKeeps == ASSUME DiscInv, FeedStep PROVE DiscInv'
<1>1. /\ UNCHANGED <<storeVars, ownerVars, sdkVars, step, mem, fresh>>
      /\ UNCHANGED <<blocks, floor, generation, ownerGen, live, ckpt, ckptAt, notes>>
      /\ UNCHANGED <<sdk, cp, cache>>
  BY DEF FeedStep, storeVars, ownerVars, sdkVars
<1>2. CkptInv' /\ FoundInv' /\ GenInv' /\ PassInv' /\ RestInv'
  BY <1>1, OwnerSame DEF DiscInv
<1>3. /\ DiscoveryType /\ ChainInv /\ Len(feed) \in Nat /\ Len(blocks) \in Nat /\ MaxLen \in Nat
      /\ feed \in Seq(Blocks) /\ era \in Nat /\ feedFloor \in Nat /\ floor \in Nat
      /\ floor <= feedFloor /\ feedFloor <= Len(feed) /\ Agree(blocks, feed, floor) /\ Len(feed) <= MaxLen
  BY LenProperties, DiscoveryAssumption DEF DiscInv, DiscoveryType, ChainInv
<1> DEFINE Moves ==
      /\ feed' \in Seq(Blocks) /\ era' \in Nat /\ era <= era' /\ Len(feed') <= MaxLen
      /\ \A n \in 1..Len(feed) : n <= Len(feed') => Agree(feed, feed', n)
      /\ \A n \in 1..Len(feed') : n > Len(feed) => feed'[n].era = era
      /\ era' = era => Len(feed) <= Len(feed')
      /\ feedFloor' \in Nat /\ feedFloor <= feedFloor' /\ feedFloor' <= Len(feed')
      /\ feedFloor <= Len(feed')
<1>4. ASSUME NEW kind \in Kinds, Produce(kind) PROVE Moves
  <2>1. /\ feed' = Append(feed, [era |-> era, kind |-> kind]) /\ Len(feed) < MaxLen
        /\ UNCHANGED <<feedFloor, era>>
    BY <1>4 DEF Produce
  <2>2. [era |-> era, kind |-> kind] \in Blocks
    BY <1>3, DiscoveryAssumption DEF Blocks
  <2>3. /\ feed' \in Seq(Blocks) /\ Len(feed') = Len(feed) + 1
        /\ \A n \in 1..Len(feed) : feed'[n] = feed[n]
        /\ feed'[Len(feed) + 1] = [era |-> era, kind |-> kind]
    BY <1>3, <2>1, <2>2
  <2> QED
    BY <1>3, <2>1, <2>3 DEF Agree
<1>5. ASSUME NEW a \in 0..MaxLen, Replace(a) PROVE Moves
  <2>1. /\ feedFloor <= a /\ a < Len(feed) /\ feed' = SubSeq(feed, 1, a) /\ era' = era + 1
        /\ UNCHANGED feedFloor /\ a \in Nat
    BY <1>3, <1>5 DEF Replace
  <2>2. /\ feed' \in Seq(Blocks) /\ Len(feed') = a
        /\ \A n \in 1..a : feed'[n] = feed[n]
    BY <1>3, <2>1
  <2> QED
    BY <1>3, <2>1, <2>2 DEF Agree
<1>6. ASSUME NEW to \in 1..MaxLen, Cut(to) PROVE Moves
  <2>1. feedFloor < to /\ to <= Len(feed) /\ feedFloor' = to /\ UNCHANGED <<feed, era>> /\ to \in Nat
    BY <1>3, <1>6 DEF Cut
  <2> QED
    BY <1>3, <2>1 DEF Agree
<1>7. Moves
  <2> HIDE DEF Moves
  <2> QED
    BY <1>4, <1>5, <1>6 DEF FeedStep
<1>8. /\ SdkInv'
      /\ \A n \in 1..Len(feed') : feed'[n].era <= era'
      /\ \A n \in 1..Len(blocks) :
           /\ blocks[n].era <= era'
           /\ blocks[n].era = era' => Agree(blocks, feed', n)
           /\ n <= Len(feed') /\ blocks[n].era = feed'[n].era => Agree(blocks, feed', n)
  BY <1>1, <1>7, FeedMoves
<1>9. DiscoveryType'
  BY <1>1, <1>3, <1>7 DEF DiscoveryType
<1>10. Agree(blocks, feed', floor)
  <2>1. CASE floor = 0
    BY <1>3, <1>7, <2>1, LenProperties DEF Agree
  <2>2. CASE floor # 0
    <3>1. Len(feed') \in Nat
      BY <1>7, LenProperties
    <3>2. floor \in 1..Len(feed) /\ floor <= Len(feed')
      BY <1>3, <1>7, <2>2, <3>1
    <3>3. Agree(feed, feed', floor)
      BY <1>7, <3>2
    <3> QED
      BY <1>3, <3>3 DEF Agree
  <2> QED
    BY <2>1, <2>2
<1>11. floor <= feedFloor' /\ feedFloor' <= Len(feed')
  BY <1>3, <1>7
<1>12. ChainInv'
  BY <1>1, <1>8, <1>10, <1>11 DEF ChainInv, Agree
<1> QED
  BY <1>2, <1>8, <1>9, <1>12 DEF DiscInv

\* The store takes over the feed, for which the stamp already stood.
LEMMA KeptStamp ==
  ASSUME DiscInv, Apply, UNCHANGED cache
  PROVE  cache'.stamp = <<>> \/
           /\ cache'.stamp[1] \in Nat \ {0} /\ cache'.stamp[2] \in Nat
           /\ cache'.stamp[2] <= era'
           /\ cache'.stamp[2] = era' => cache'.stamp[1] <= Len(feed')
           /\ \A chain \in {feed', blocks'} :
                cache'.stamp[1] <= Len(chain) /\ chain[cache'.stamp[1]].era = cache'.stamp[2]
                  => cache'.notes = Report(chain, cache'.stamp[1])
<1>1. blocks' = feed /\ UNCHANGED <<feed, era>>
  BY DEF Apply, feedVars
<1> QED
  BY <1>1 DEF DiscInv, SdkInv

\* Known rows have positive indices.
LEMMA NoteIndex == DiscoveryType => \A i \in Known : i \in Nat /\ i # 0 /\ i \in Indices
BY DiscoveryAssumption DEF Known, Indices

\* The checkpoint cursor survives every apply, a replaced tail included.
LEMMA CkptMoves ==
  ASSUME DiscInv, Apply, UNCHANGED <<ownerVars, sdk>>, NEW m \in Nat, NEW p \in Nat,
         m = Floor, p = Floor', m <= floor, m <= p
  PROVE  /\ sdk' => ckpt' = None
         /\ ckpt' <= NoteCount(blocks', p)
         /\ Settled(ckpt)'
<1>1. /\ blocks' \in Seq(Blocks) /\ Carries(blocks, blocks', m) /\ DiscoveryType
      /\ UNCHANGED <<notes, ckpt>>
  BY Applied DEF DiscInv, ownerVars
<1>2. /\ ckpt \in Nat \cup {None} /\ ckpt <= NoteCount(blocks, m) /\ (sdk => ckpt = None)
      /\ \A i \in Known : i <= ckpt => Right(i, m) \/ Spent(blocks, i, m)
  BY DEF DiscInv, DiscoveryType, CkptInv, Settled
<1>3. PICK to : to = ckpt
  OBVIOUS
<1>4. /\ to <= NoteCount(blocks', p)
      /\ \A i \in Known' : i <= to => Right(i, p)' \/ Spent(blocks', i, p)
  BY <1>1, <1>2, <1>3, CarrySettled
<1> QED
  BY <1>1, <1>2, <1>3, <1>4 DEF Settled, Right

\* apply_feed in another process, or in the browser between discoveries.
LEMMA ApplyKeeps ==
  ASSUME DiscInv, Apply, UNCHANGED <<ownerVars, sdk, cache, step, mem>>, fresh' \in BOOLEAN,
         step = "idle" \/ (~sdk /\ fresh' = FALSE),
         cp' \in Nat, cp' <= Len(blocks'), ~sdk => cp' = 0
  PROVE  DiscInv'
<1>1. /\ UNCHANGED <<ownerGen, live, ckpt, ckptAt, notes, sdk, cache, step, mem>>
      /\ UNCHANGED <<feed, feedFloor, era>>
  BY DEF ownerVars, Apply, feedVars
<1>2. /\ DiscoveryType /\ CkptInv /\ FoundInv /\ GenInv /\ PassInv /\ RestInv /\ SdkInv
      /\ Known' = Known /\ blocks \in Seq(Blocks)
  BY <1>1 DEF DiscInv, Known, DiscoveryType
<1>3. /\ blocks' \in Seq(Blocks) /\ Len(blocks') <= MaxLen /\ floor' \in Nat
      /\ floor <= floor' /\ floor' <= Len(blocks') /\ floor \in Nat
      /\ generation' \in Nat /\ generation <= generation' /\ generation \in Nat
      /\ \A m \in Nat : m <= floor => Carries(blocks, blocks', m) /\ Agree(blocks, blocks', m)
      /\ generation' = generation => \A m \in Nat : Carries(blocks, blocks', m)
      /\ ChainInv'
  BY <1>2, Applied DEF DiscoveryType
<1>4. /\ mem.head \in Nat /\ mem.floor \in Nat /\ mem.gen \in Nat /\ mem.cursor \in Nat
      /\ ownerGen \in Nat /\ MaxLen \in Nat
      /\ \A f \in mem.found : f.i \in Nat
  BY <1>2, DiscoveryAssumption DEF DiscoveryType
<1>5. DiscoveryType'
  BY <1>1, <1>2, <1>3 DEF DiscoveryType
<1>6. SdkInv'
  BY <1>1, <1>2, KeptStamp DEF SdkInv
<1>7. step # "idle" => /\ mem.floor <= floor /\ Agree(blocks, blocks', mem.floor)
                       /\ Carries(blocks, blocks', mem.floor)
  BY <1>2, <1>3, <1>4 DEF CkptInv
<1>8. step # "idle" => NoteCount(blocks', mem.floor) = NoteCount(blocks, mem.floor)
  BY <1>2, <1>3, <1>4, <1>7, SameCount DEF NoteCount
<1>9. CkptInv'
  <2>1. PICK m, p : m = Floor /\ p = Floor'
    OBVIOUS
  <2>2. m \in Nat /\ p \in Nat /\ m <= floor /\ m <= p
    BY <1>1, <1>3, <1>4, <1>7, <2>1 DEF Floor
  <2>3. /\ sdk' => ckpt' = None
        /\ ckpt' <= NoteCount(blocks', Floor') /\ Settled(ckpt)'
    BY <2>1, <2>2, CkptMoves
  <2>4. step # "idle" => mem'.floor <= mem'.head /\ mem'.floor <= floor'
    BY <1>1, <1>2, <1>3, <1>4, <1>7 DEF CkptInv
  <2>5. step \in {"ckptRegister", "ckptSave"} => ~sdk /\ mem.cursor = NoteCount(blocks', mem.floor)
    BY <1>2, <1>8 DEF CkptInv
  <2>6. step = "ckptSave" => Settled(mem.cursor)'
    <3> SUFFICES ASSUME step = "ckptSave" PROVE Settled(mem.cursor)'
      OBVIOUS
    <3>1. /\ m = mem.floor /\ p = mem.floor
          /\ \A i \in Known : i <= mem.cursor => Right(i, m) \/ Spent(blocks, i, m)
      BY <1>1, <1>2, <2>1 DEF CkptInv, Settled, Floor
    <3>2. PICK to : to = mem.cursor
      OBVIOUS
    <3>3. to \in Nat \cup {None} /\ to <= NoteCount(blocks, m) /\ NoteCount(blocks, m) \in Nat
      BY <1>2, <1>4, <3>1, <3>2 DEF CkptInv
    <3>4. \A i \in Known' : i <= to => Right(i, p)' \/ Spent(blocks', i, p)
      BY <1>1, <1>2, <1>3, <1>7, <2>2, <3>1, <3>2, <3>3, CarrySettled
    <3> QED
      BY <1>1, <2>1, <3>2, <3>4 DEF Settled, Right
  <2> QED
    BY <1>1, <2>3, <2>4, <2>5, <2>6 DEF CkptInv
<1>10. GenInv'
  BY <1>1, <1>2, <1>3, <1>4 DEF GenInv
<1>11. ASSUME step \notin {"idle", "rewind"}, mem.gen = generation'
       PROVE  /\ mem.gen = generation
              /\ NoteCount(blocks, mem.head) \in Nat /\ NoteCount(blocks', mem.head) \in Nat
              /\ NoteCount(blocks, mem.head) <= NoteCount(blocks', mem.head)
              /\ \A i \in Nat : Spent(blocks, i, mem.head) => Spent(blocks', i, mem.head)
              /\ \A i \in 1..NoteCount(blocks, mem.head) :
                   NoteAt(blocks', i, mem.head) = NoteAt(blocks, i, mem.head)
              /\ Carries(blocks, blocks', mem.head)
  <2>1. mem.gen = generation /\ generation' = generation
    BY <1>2, <1>3, <1>4, <1>11 DEF GenInv
  <2>2. Carries(blocks, blocks', mem.head) /\ mem.head <= mem.head
    BY <1>3, <1>4, <2>1
  <2>3. PICK h \in Nat : h = mem.head
    BY <1>4
  <2>4. Carries(blocks, blocks', h) /\ h <= h /\ blocks \in Seq(Blocks) /\ blocks' \in Seq(Blocks)
    BY <1>2, <1>3, <2>2, <2>3
  <2>5. /\ NoteCount(blocks, h) \in Nat /\ NoteCount(blocks', h) \in Nat
        /\ NoteCount(blocks, h) <= NoteCount(blocks', h)
        /\ \A i \in Nat : Spent(blocks, i, h) => Spent(blocks', i, h)
        /\ \A i \in 1..NoteCount(blocks, h) : NoteAt(blocks', i, h) = NoteAt(blocks, i, h)
    BY <2>4, Carry
  <2> QED
    BY <2>1, <2>2, <2>3, <2>5
<1>12. ASSUME step \in Passing, mem.gen = generation', NEW i \in Known
       PROVE  Right(i, mem.head) \/ Spent(blocks, i, mem.head) =>
                Right(i, mem.head)' \/ Spent(blocks, i, mem.head)'
  <2>1. i \in Nat /\ i # 0
    BY <1>2, NoteIndex
  <2>2. step \notin {"idle", "rewind"}
    BY <1>12 DEF Passing
  <2>3. i <= NoteCount(blocks, mem.head)
    BY <1>2, <1>11, <1>12, <2>2 DEF PassInv, Sound
  <2> QED
    BY <1>1, <1>11, <1>12, <2>1, <2>2, <2>3 DEF Right
<1>13. FoundInv'
  <2> SUFFICES ASSUME step \in {"ckptRegister", "liveRegister"} PROVE FoundInv'
    BY <1>1 DEF FoundInv
  <2>1. step \in Passing /\ step \notin {"idle", "rewind"}
    BY DEF Passing, Steps
  <2>2. /\ \A i \in Nat : Spent(blocks, i, mem.floor) => Spent(blocks', i, mem.floor)
        /\ \A i \in 1..NoteCount(blocks, mem.floor) :
             NoteAt(blocks', i, mem.floor) = NoteAt(blocks, i, mem.floor)
        /\ NoteCount(blocks, mem.floor) \in Nat
    <3>1. PICK l \in Nat : l = mem.floor
      BY <1>4
    <3>2. Carries(blocks, blocks', l) /\ l <= l /\ blocks \in Seq(Blocks) /\ blocks' \in Seq(Blocks)
      BY <1>2, <1>3, <1>4, <1>7, <2>1, <3>1
    <3>3. /\ \A i \in Nat : Spent(blocks, i, l) => Spent(blocks', i, l)
          /\ \A i \in 1..NoteCount(blocks, l) : NoteAt(blocks', i, l) = NoteAt(blocks, i, l)
          /\ NoteCount(blocks, l) \in Nat
      BY <3>2, Carry
    <3> QED
      BY <3>1, <3>3
  <2>3. ASSUME NEW f \in mem.found
        PROVE  /\ f.at # {} /\ f.i > 0
               /\ f.i <= NoteCount(blocks', mem.floor) => f.at = NoteAt(blocks', f.i, mem.floor)
               /\ step = "ckptRegister" => f.i <= NoteCount(blocks', mem.floor)
               /\ mem.gen = generation' => /\ f.i <= NoteCount(blocks', mem.head)
                                           /\ f.at = NoteAt(blocks', f.i, mem.head)
    <3>1. f.i \in Nat /\ f.i > 0 /\ f.at # {}
      BY <1>2, <1>4 DEF FoundInv
    <3>2. f.i <= NoteCount(blocks', mem.floor) => f.at = NoteAt(blocks', f.i, mem.floor)
      BY <1>2, <1>8, <2>1, <2>2, <3>1 DEF FoundInv
    <3>3. step = "ckptRegister" => f.i <= NoteCount(blocks', mem.floor)
      BY <1>2, <1>8, <2>1 DEF FoundInv
    <3>4. ASSUME mem.gen = generation'
          PROVE  f.i <= NoteCount(blocks', mem.head) /\ f.at = NoteAt(blocks', f.i, mem.head)
      <4>1. f.i <= NoteCount(blocks, mem.head) /\ f.at = NoteAt(blocks, f.i, mem.head)
        BY <1>2, <1>11, <2>1, <3>4 DEF FoundInv
      <4> QED
        BY <1>11, <2>1, <3>1, <3>4, <4>1
    <3> QED
      BY <3>1, <3>2, <3>3, <3>4
  <2>4. step = "ckptRegister" => \A i \in Known' : ckpt' < i /\ i <= mem'.cursor =>
                                   Spent(blocks', i, mem'.floor) \/ Returned(i)'
    BY <1>1, <1>2, <2>2, NoteIndex DEF FoundInv, Returned
  <2>5. step = "liveRegister" /\ mem.gen = generation' /\ ownerGen # mem.gen =>
          \A i \in Known' : Right(i, mem.head)' \/ Spent(blocks, i, mem.head)' \/ Returned(i)'
    <3> SUFFICES ASSUME step = "liveRegister", mem.gen = generation', ownerGen # mem.gen, NEW i \in Known
                 PROVE  Right(i, mem.head)' \/ Spent(blocks, i, mem.head)' \/ Returned(i)'
      BY <1>2
    <3>1. Right(i, mem.head) \/ Spent(blocks, i, mem.head) \/ Returned(i)
      BY <1>2, <1>11, <2>1 DEF FoundInv
    <3> QED
      BY <1>1, <1>12, <2>1, <3>1 DEF Returned
  <2> QED
    BY <1>1, <1>2, <2>3, <2>4, <2>5 DEF FoundInv
<1>14. PassInv'
  <2> SUFFICES ASSUME step \in Passing, mem.gen = generation' PROVE PassInv'
    BY <1>1 DEF PassInv
  <2>1. step \notin {"idle", "rewind"} /\ mem.gen = generation /\ fresh' = FALSE
    BY <1>11 DEF Passing
  <2>2. Sound(mem.head) /\ Carries(blocks, blocks', mem.head)
    BY <1>2, <1>11, <2>1 DEF PassInv
  <2>3. PICK b : b = mem.head
    OBVIOUS
  <2>4. Sound(b)' /\ (Marked(b) => Marked(b)')
    BY <1>1, <1>2, <1>3, <1>4, <2>2, <2>3, CarrySound
  <2>5. Sound(mem.head)' /\ (Marked(mem.head) => Marked(mem.head)')
    BY <1>1, <2>3, <2>4 DEF Sound, Marked, Right
  <2>6. step \in {"liveRegister", "liveSave"} => mem'.cursor <= NoteCount(blocks', mem'.head)
    BY <1>1, <1>2, <1>4, <1>11, <2>1 DEF PassInv
  <2>7. ownerGen # mem.gen /\ step \in {"liveSave", "spent"} =>
          \A i \in Known' : Right(i, mem.head)' \/ Spent(blocks, i, mem.head)'
    BY <1>2, <1>12, <2>1 DEF PassInv
  <2> QED
    BY <1>1, <1>2, <2>1, <2>5, <2>6, <2>7 DEF PassInv
<1>15. RestInv'
  <2> SUFFICES ASSUME ownerGen = generation', step \in {"idle", "rewind"} PROVE RestInv'
    BY <1>1 DEF RestInv
  <2>1. generation' = generation /\ \A m \in Nat : Carries(blocks, blocks', m)
    BY <1>2, <1>3, <1>4 DEF GenInv
  <2>2. PICK b : b = IF step = "idle" THEN RestBound ELSE mem.head
    OBVIOUS
  <2>3. b \in Nat /\ Sound(b) /\ Marked(b)
    BY <1>2, <1>4, <2>1, <2>2 DEF RestInv, RestBound, SdkInv
  <2>4. Sound(b)' /\ Marked(b)'
    BY <1>1, <1>2, <1>3, <2>1, <2>3, CarrySound
  <2>5. RestBound' = RestBound
    BY <1>1 DEF RestBound
  <2> QED
    BY <1>1, <2>2, <2>4, <2>5 DEF RestInv, Sound, Marked, Right
<1> QED
  BY <1>3, <1>5, <1>6, <1>9, <1>10, <1>13, <1>14, <1>15 DEF DiscInv

LEMMA OtherAppliesKeeps == ASSUME DiscInv, OtherApplies PROVE DiscInv'
<1>1. /\ ~sdk /\ Apply /\ fresh' = FALSE /\ UNCHANGED <<ownerVars, sdk, cp, cache, step, mem>>
  BY DEF OtherApplies, sdkVars
<1>2. cp = 0 /\ cp \in Nat
  BY <1>1 DEF DiscInv, SdkInv, DiscoveryType
<1>3. blocks' \in Seq(Blocks)
  BY <1>1, Applied
<1>4. cp' \in Nat /\ cp' <= Len(blocks') /\ cp' = 0
  BY <1>1, <1>2, <1>3, LenProperties
<1> QED
  BY <1>1, <1>4, ApplyKeeps

LEMMA SdkApplyKeeps == ASSUME DiscInv, NEW n \in 1..MaxLen, SdkApply(n) PROVE DiscInv'
<1>1. /\ sdk /\ step = "idle" /\ n <= Len(feed) /\ Apply /\ cp' = n
      /\ UNCHANGED <<ownerVars, sdk, cache, step, mem, fresh>>
  BY DEF SdkApply
<1>2. blocks' = feed /\ n \in Nat /\ fresh \in BOOLEAN
  BY <1>1, DiscoveryAssumption DEF Apply, DiscInv, DiscoveryType
<1> QED
  BY <1>1, <1>2, ApplyKeeps

(***************************************************************************)
(* Beyond the end of a chain the bound makes no difference.                *)
(***************************************************************************)
LEMMA Whole ==
  ASSUME NEW a \in Seq(Blocks), NEW m \in Nat, Len(a) <= m
  PROVE  /\ \A kind : Count(a, kind, Len(a)) = Count(a, kind, m)
         /\ \A i : NoteAt(a, i, Len(a)) = NoteAt(a, i, m)
<1>1. Len(a) \in Nat
  BY LenProperties
<1>2. \A n \in 1..Len(a) : n <= Len(a) /\ n <= m
  BY <1>1
<1>3. \A kind : Count(a, kind, Len(a)) = Count(a, kind, m)
  <2> TAKE kind
  <2>1. {n \in 1..Len(a) : n <= Len(a) /\ a[n].kind = kind} =
        {n \in 1..Len(a) : n <= m /\ a[n].kind = kind}
    BY <1>2
  <2> QED
    BY <2>1 DEF Count
<1>4. \A i : NoteAt(a, i, Len(a)) = NoteAt(a, i, m)
  <2> TAKE i
  <2>1. {k \in 1..Len(a) : k <= Len(a) /\ a[k].kind = "note" /\ NoteCount(a, k) = i} =
        {k \in 1..Len(a) : k <= m /\ a[k].kind = "note" /\ NoteCount(a, k) = i}
    BY <1>2
  <2> QED
    BY <2>1 DEF NoteAt
<1> QED
  BY <1>3, <1>4

\* The sync's own apply_feed: the head and floor it remembers are the feed's.
LEMMA SyncStartKeeps == ASSUME DiscInv, SyncStart PROVE DiscInv'
<1>1. /\ ~sdk /\ step = "idle" /\ step' = "rewind" /\ Apply /\ fresh' = TRUE
      /\ UNCHANGED <<ownerVars, sdk, cp, cache>>
      /\ mem' = [Idle EXCEPT !.head = Len(feed), !.floor = feedFloor]
      /\ UNCHANGED <<ownerGen, live, ckpt, ckptAt, notes>>
      /\ UNCHANGED <<feed, feedFloor, era>> /\ blocks' = feed /\ floor' = feedFloor
  BY DEF SyncStart, sdkVars, ownerVars, Apply, feedVars
<1>2. mem' = [head |-> Len(feed), floor |-> feedFloor, gen |-> 0, cursor |-> 0, found |-> {}]
  BY <1>1 DEF Idle
<1>3. /\ DiscoveryType /\ ChainInv /\ CkptInv /\ GenInv /\ RestInv /\ SdkInv
      /\ Len(feed) \in Nat /\ feedFloor \in Nat /\ feedFloor <= Len(feed) /\ Len(feed) <= MaxLen
      /\ floor \in Nat /\ floor <= feedFloor /\ MaxLen \in Nat /\ feed \in Seq(Blocks)
      /\ ownerGen \in Nat
  BY LenProperties, DiscoveryAssumption DEF DiscInv, DiscoveryType, ChainInv
<1>4. /\ blocks' \in Seq(Blocks) /\ generation' \in Nat /\ generation <= generation'
      /\ generation' = generation => \A m \in Nat : Carries(blocks, blocks', m)
      /\ ChainInv' /\ generation \in Nat
  BY <1>1, <1>3, Applied DEF DiscoveryType
<1>5. DiscoveryType'
  BY <1>1, <1>2, <1>3, <1>4 DEF DiscoveryType, Steps
<1>6. SdkInv'
  <2>1. cp = 0
    BY <1>1, <1>3 DEF SdkInv
  <2> QED
    BY <1>1, <1>3, <2>1, KeptStamp DEF SdkInv
<1>7. CkptInv'
  <2>1. PICK m \in Nat, p \in Nat : m = Floor /\ p = Floor' /\ m = floor /\ p = feedFloor
    BY <1>1, <1>2, <1>3 DEF Floor
  <2>2. m <= floor /\ m <= p
    BY <1>3, <2>1
  <2>3. /\ sdk' => ckpt' = None
        /\ ckpt' <= NoteCount(blocks', Floor') /\ Settled(ckpt)'
    BY <1>1, <2>1, <2>2, CkptMoves
  <2>4. mem'.floor <= mem'.head /\ mem'.floor <= floor'
    BY <1>1, <1>2, <1>3
  <2> QED
    BY <1>1, <2>3, <2>4 DEF CkptInv
<1>8. FoundInv' /\ PassInv'
  BY <1>1 DEF FoundInv, PassInv, Passing
<1>9. GenInv'
  BY <1>1, <1>2, <1>3, <1>4 DEF GenInv
<1>10. RestInv'
  <2> SUFFICES ASSUME ownerGen = generation' PROVE Sound(mem.head)' /\ Marked(mem.head)'
    BY <1>1 DEF RestInv
  <2>1. generation' = generation
    BY <1>3, <1>4 DEF GenInv
  <2>2. PICK b \in Nat : b = MaxLen
    BY <1>3
  <2>3. Sound(b) /\ Marked(b) /\ Carries(blocks, blocks', b) /\ b <= b
    BY <1>1, <1>3, <1>4, <2>1, <2>2 DEF RestInv, RestBound
  <2>4. Sound(b)' /\ Marked(b)'
    BY <1>1, <1>3, <1>4, <2>3, CarrySound
  <2>5. /\ \A kind : Count(blocks', kind, mem'.head) = Count(blocks', kind, b)
        /\ \A i : NoteAt(blocks', i, mem'.head) = NoteAt(blocks', i, b)
    BY <1>1, <1>2, <1>3, <2>2, Whole
  <2>6. NoteCount(blocks', mem'.head) = NoteCount(blocks', b)
        /\ \A i : Spent(blocks', i, mem'.head) = Spent(blocks', i, b)
    BY <2>5 DEF NoteCount, Spent
  <2> QED
    BY <2>4, <2>5, <2>6 DEF Sound, Marked, Right
<1> QED
  BY <1>4, <1>5, <1>6, <1>7, <1>8, <1>9, <1>10 DEF DiscInv

\* Discovery at the checkpoint, after a full resync when it is lower.
LEMMA SdkDiscoverKeeps == ASSUME DiscInv, SdkDiscover PROVE DiscInv'
<1>1. /\ sdk /\ step = "idle" /\ cp > 0 /\ step' = "rewind" /\ fresh' = TRUE
      /\ mem' = [Idle EXCEPT !.head = cp, !.floor = IF floor < cp THEN floor ELSE cp]
      /\ UNCHANGED <<feed, feedFloor, era, blocks, floor, generation, ownerGen, sdk, cp>>
      /\ IF Lower THEN FullResync ELSE UNCHANGED <<live, ckpt, ckptAt, notes, cache>>
  BY DEF SdkDiscover, feedVars, storeVars
<1>2. /\ DiscoveryType /\ ChainInv /\ CkptInv /\ GenInv /\ RestInv /\ SdkInv
      /\ Len(blocks) \in Nat /\ cp \in Nat /\ floor \in Nat /\ cp <= Len(blocks) /\ MaxLen \in Nat
      /\ Len(blocks) <= MaxLen /\ blocks \in Seq(Blocks) /\ ownerGen \in Nat /\ generation \in Nat
  BY LenProperties, DiscoveryAssumption DEF DiscInv, DiscoveryType, SdkInv
<1>3. PICK l : l = IF floor < cp THEN floor ELSE cp
  OBVIOUS
<1>4. mem' = [head |-> cp, floor |-> l, gen |-> 0, cursor |-> 0, found |-> {}]
  BY <1>1, <1>3 DEF Idle
<1>5. l \in Nat /\ l <= cp /\ l <= floor /\ cp <= MaxLen
  BY <1>2, <1>3
<1>6. /\ live' \in Nat \cup {None} /\ ckpt' = None
      /\ notes' \in [Indices -> [at : SUBSET Positions, spent : BOOLEAN]]
      /\ Lower => live' = None /\ notes' = [i \in Indices |-> NoNote]
      /\ ~Lower => UNCHANGED <<live, notes>>
  <2>1. CASE Lower
    <3>1. live' = None /\ ckpt' = None /\ notes' = [i \in Indices |-> NoNote]
      BY <1>1, <2>1 DEF FullResync
    <3>2. NoNote \in [at : SUBSET Positions, spent : BOOLEAN]
      BY DEF NoNote
    <3> QED
      BY <2>1, <3>1, <3>2
  <2>2. CASE ~Lower
    BY <1>1, <1>2, <2>2 DEF CkptInv, DiscoveryType
  <2> QED
    BY <2>1, <2>2
<1>7. DiscoveryType'
  BY <1>1, <1>2, <1>4, <1>5, <1>6 DEF DiscoveryType, Steps
<1>8. SdkInv'
  <2>1. CASE Lower
    <3>1. cache' = [cache EXCEPT !.stamp = <<>>, !.block = 0]
      BY <1>1, <2>1 DEF FullResync
    <3>2. cache = [stamp |-> cache.stamp, block |-> cache.block, notes |-> cache.notes]
      BY <1>2 DEF SdkInv
    <3>3. cache' = [stamp |-> <<>>, block |-> 0, notes |-> cache.notes]
      BY <3>1, <3>2
    <3>4. /\ cache'.stamp = <<>> /\ cache'.block \in Nat
          /\ cache' = [stamp |-> cache'.stamp, block |-> cache'.block, notes |-> cache'.notes]
      BY <3>3
    <3> QED
      BY <1>1, <1>2, <1>4, <3>4 DEF SdkInv
  <2>2. CASE ~Lower
    <3>1. UNCHANGED cache
      BY <1>1, <2>2
    <3>2. /\ cp' <= Len(blocks') /\ (~sdk' => cp' = 0) /\ cache'.block \in Nat
          /\ cache' = [stamp |-> cache'.stamp, block |-> cache'.block, notes |-> cache'.notes]
          /\ fresh' /\ cp' > 0 /\ mem'.head = cp'
      BY <1>1, <1>2, <1>4, <3>1 DEF SdkInv
    <3> QED
      BY <1>1, <1>2, <3>1, <3>2 DEF SdkInv
  <2> QED
    BY <2>1, <2>2
<1>9. ChainInv'
  BY <1>1, <1>2 DEF ChainInv, Agree
<1>10. CkptInv'
  <2>1. NoteCount(blocks', Floor') \in Nat
    BY <1>1, <1>2, AtFinite DEF NoteCount
  <2>2. \A i \in Known' : ~(i <= ckpt')
    BY <1>6, <1>7 DEF Known, Indices, None
  <2>3. ckpt' <= NoteCount(blocks', Floor')
    BY <1>6, <2>1 DEF None
  <2>4. Settled(ckpt)'
    BY <2>2 DEF Settled
  <2>5. mem'.floor <= mem'.head /\ mem'.floor <= floor'
    <3>1. mem'.floor = l /\ mem'.head = cp
      BY <1>4
    <3>2. floor' = floor
      BY <1>1
    <3> QED
      BY <1>5, <3>1, <3>2
  <2> QED
    BY <1>1, <1>6, <2>3, <2>4, <2>5 DEF CkptInv
<1>11. FoundInv' /\ PassInv'
  BY <1>1 DEF FoundInv, PassInv, Passing
<1>12. GenInv'
  BY <1>1, <1>2, <1>4 DEF GenInv
<1>13. RestInv'
  <2> SUFFICES ASSUME ownerGen = generation PROVE Sound(mem.head)' /\ Marked(mem.head)'
    BY <1>1 DEF RestInv
  <2>1. PICK p \in Nat : p = cp
    BY <1>2
  <2>2. Sound(p)' /\ Marked(p)'
    <3>1. CASE Lower
      <4>1. Known' = {} /\ live' = None
        BY <1>6, <3>1 DEF Known, NoNote
      <4>2. NoteCount(blocks', p) \in Nat
        BY <1>1, <1>2, AtFinite DEF NoteCount
      <4> QED
        BY <4>1, <4>2 DEF Sound, Marked, None
    <3>2. CASE ~Lower
      <4>1. PICK m \in Nat : m = cache.block
        BY <1>2 DEF SdkInv
      <4>2. m <= p /\ Sound(m) /\ Marked(m)
        BY <1>1, <1>2, <2>1, <3>2, <4>1 DEF Lower, RestInv, RestBound
      <4>3. Carries(blocks, blocks', m) /\ blocks' \in Seq(Blocks) /\ UNCHANGED <<notes, live>>
        BY <1>1, <1>2, <1>6, <3>2, CarriesSelf
      <4> QED
        BY <1>2, <4>2, <4>3, CarrySound
    <3> QED
      BY <3>1, <3>2
  <2> QED
    BY <1>4, <2>1, <2>2 DEF Sound, Marked, Right
<1> QED
  BY <1>7, <1>8, <1>9, <1>10, <1>11, <1>12, <1>13 DEF DiscInv
-----------------------------------------------------------------------------
(***************************************************************************)
(* The owner's own writes.                                                 *)
(***************************************************************************)
LEMMA OwnKeeps ==
  ASSUME DiscInv, Own, step # "idle", step' = "idle" \/ mem'.head = mem.head
  PROVE  /\ ChainInv' /\ SdkInv'
         /\ UNCHANGED <<feed, feedFloor, era, blocks, floor, generation, sdk, cp, cache, fresh>>
<1>1. UNCHANGED <<feed, feedFloor, era, blocks, floor, generation, sdk, cp, cache, fresh>>
  BY DEF Own, feedVars, storeVars, sdkVars
<1>2. ChainInv'
  BY <1>1 DEF DiscInv, ChainInv, Agree
<1>3. SdkInv'
  BY <1>1 DEF DiscInv, SdkInv
<1> QED
  BY <1>1, <1>2, <1>3

LEMMA RewindKeeps == ASSUME DiscInv, Rewind PROVE DiscInv'
<1>1. /\ step = "rewind" /\ mem' = [mem EXCEPT !.gen = generation] /\ Own
      /\ UNCHANGED <<ownerGen, ckpt, ckptAt, notes>>
      /\ ownerGen # generation => live' = None /\ step' = "prune"
      /\ ownerGen = generation => live' = live /\ step' = "ckpt"
  BY DEF Rewind, RewoundLive
<1>2. /\ DiscoveryType /\ CkptInv /\ GenInv /\ RestInv
      /\ ownerGen \in Nat /\ generation \in Nat
  BY DEF DiscInv, DiscoveryType
<1>3. /\ mem'.head = mem.head /\ mem'.floor = mem.floor /\ mem'.gen = generation
      /\ mem'.cursor = mem.cursor /\ mem'.found = mem.found
      /\ mem' \in [head : Nat, floor : Nat, gen : Nat, cursor : Nat,
                   found : SUBSET [i : Nat, at : SUBSET Positions]]
  BY <1>1, <1>2 DEF DiscoveryType
<1>4. /\ ChainInv' /\ SdkInv'
      /\ UNCHANGED <<feed, feedFloor, era, blocks, floor, generation, sdk, cp, cache, fresh>>
  BY <1>1, <1>3, OwnKeeps
<1>5. Known' = Known
  BY <1>1 DEF Known
<1>6. DiscoveryType'
  BY <1>1, <1>2, <1>3, <1>4 DEF DiscoveryType, Steps
<1>7. CkptInv'
  BY <1>1, <1>2, <1>3, <1>4, <1>5 DEF CkptInv, Settled, Floor, Right
<1>8. FoundInv'
  BY <1>1 DEF FoundInv
<1>9. GenInv'
  BY <1>1, <1>2, <1>3, <1>4 DEF GenInv
<1>10. PassInv'
  <2>1. CASE ownerGen = generation
    <3>1. Sound(mem.head) /\ Marked(mem.head)
      BY <1>1, <1>2, <2>1 DEF RestInv
    <3>2. Sound(mem.head)' /\ Marked(mem.head)'
      BY <1>1, <1>3, <1>4, <1>5, <2>1, <3>1 DEF Sound, Marked, Right
    <3> QED
      BY <1>1, <1>3, <1>4, <2>1, <3>2 DEF PassInv
  <2>2. CASE ownerGen # generation
    BY <1>1, <2>2 DEF PassInv, Passing
  <2> QED
    BY <2>1, <2>2
<1>11. RestInv'
  BY <1>1 DEF RestInv
<1> QED
  BY <1>4, <1>6, <1>7, <1>8, <1>9, <1>10, <1>11 DEF DiscInv

\* A rewound owner keeps no row beyond the notes at the head.
LEMMA PruneKeeps == ASSUME DiscInv, Prune PROVE DiscInv'
<1>1. /\ step = "prune" /\ step' = "ckpt" /\ Own /\ UNCHANGED <<ownerGen, live, ckpt, ckptAt, mem>>
      /\ notes' = [i \in Indices |-> IF Gone(i) THEN NoNote ELSE notes[i]]
  BY DEF Prune
<1>2. /\ DiscoveryType /\ CkptInv /\ GenInv /\ blocks \in Seq(Blocks) /\ mem.head \in Nat
  BY DEF DiscInv, DiscoveryType
<1>3. /\ ChainInv' /\ SdkInv'
      /\ UNCHANGED <<feed, feedFloor, era, blocks, floor, generation, sdk, cp, cache, fresh>>
  BY <1>1, OwnKeeps
<1>4. NoNote \in [at : SUBSET Positions, spent : BOOLEAN] /\ NoNote.at = {}
  BY DEF NoNote
<1>5. notes' \in [Indices -> [at : SUBSET Positions, spent : BOOLEAN]]
  BY <1>1, <1>2, <1>4 DEF DiscoveryType
<1>6. ASSUME NEW i \in Known'
      PROVE  i \in Known /\ notes'[i] = notes[i] /\ ~Gone(i) /\ i \in Indices
  BY <1>1, <1>4, <1>6 DEF Known
<1>7. DiscoveryType'
  BY <1>1, <1>2, <1>3, <1>5 DEF DiscoveryType, Steps
<1>8. CkptInv'
  <2>1. Settled(ckpt)'
    BY <1>1, <1>2, <1>3, <1>6 DEF CkptInv, Settled, Floor, Right
  <2> QED
    BY <1>1, <1>2, <1>3, <2>1 DEF CkptInv, Floor
<1>9. FoundInv' /\ RestInv'
  BY <1>1 DEF FoundInv, RestInv
<1>10. GenInv'
  BY <1>1, <1>2, <1>3 DEF GenInv
<1>11. PassInv'
  <2>1. \A i \in Known' : i <= NoteCount(blocks, mem.head)
    <3> SUFFICES ASSUME NEW i \in Known' PROVE i <= NoteCount(blocks, mem.head)
      OBVIOUS
    <3>1. i \in Nat /\ i # 0 /\ NoteAt(blocks, i, mem.head) # {}
      BY <1>2, <1>6, NoteIndex DEF Gone
    <3> QED
      BY <1>2, <3>1, NoteThere
  <2>2. live = None /\ ownerGen # mem.gen /\ NoteCount(blocks, mem.head) \in Nat
    BY <1>1, <1>2, AtFinite DEF GenInv, NoteCount
  <2>3. Sound(mem.head)'
    BY <1>1, <1>3, <2>1, <2>2 DEF Sound, None
  <2> QED
    BY <1>1, <1>3, <2>2, <2>3 DEF PassInv
<1> QED
  BY <1>3, <1>7, <1>8, <1>9, <1>10, <1>11 DEF DiscInv

LEMMA CkptSkipKeeps == ASSUME DiscInv, CkptSkip PROVE DiscInv'
<1>1. /\ step = "ckpt" /\ step' = "live" /\ Own
      /\ UNCHANGED <<ownerGen, live, ckpt, ckptAt, notes, mem>>
  BY DEF CkptSkip, ownerVars
<1>2. /\ DiscoveryType /\ CkptInv /\ GenInv /\ PassInv
  BY DEF DiscInv
<1>3. /\ ChainInv' /\ SdkInv'
      /\ UNCHANGED <<feed, feedFloor, era, blocks, floor, generation, sdk, cp, cache, fresh>>
  BY <1>1, OwnKeeps
<1>4. Known' = Known
  BY <1>1 DEF Known
<1>5. DiscoveryType'
  BY <1>1, <1>2, <1>3 DEF DiscoveryType, Steps
<1>6. CkptInv'
  BY <1>1, <1>2, <1>3, <1>4 DEF CkptInv, Settled, Floor, Right
<1>7. FoundInv' /\ RestInv'
  BY <1>1 DEF FoundInv, RestInv
<1>8. GenInv'
  BY <1>1, <1>2, <1>3 DEF GenInv
<1>9. PassInv'
  BY <1>1, <1>2, <1>3, <1>4 DEF PassInv, Passing, Steps, Sound, Marked, Right
<1> QED
  BY <1>3, <1>5, <1>6, <1>7, <1>8, <1>9 DEF DiscInv

LEMMA CkptSaveKeeps == ASSUME DiscInv, CkptSave PROVE DiscInv'
<1>1. /\ step = "ckptSave" /\ step' = "ckptAt" /\ Own /\ ckpt' = mem.cursor
      /\ UNCHANGED <<ownerGen, live, ckptAt, notes, mem>>
  BY DEF CkptSave
<1>2. /\ DiscoveryType /\ CkptInv /\ GenInv /\ PassInv /\ mem.cursor \in Nat
  BY DEF DiscInv, DiscoveryType
<1>3. /\ ChainInv' /\ SdkInv'
      /\ UNCHANGED <<feed, feedFloor, era, blocks, floor, generation, sdk, cp, cache, fresh>>
  BY <1>1, OwnKeeps
<1>4. Known' = Known
  BY <1>1 DEF Known
<1>5. DiscoveryType'
  BY <1>1, <1>2, <1>3 DEF DiscoveryType, Steps
<1>6. CkptInv'
  BY <1>1, <1>2, <1>3, <1>4 DEF CkptInv, Settled, Floor, Right
<1>7. FoundInv' /\ RestInv'
  BY <1>1 DEF FoundInv, RestInv
<1>8. GenInv'
  BY <1>1, <1>2, <1>3 DEF GenInv
<1>9. PassInv'
  BY <1>1, <1>2, <1>3, <1>4 DEF PassInv, Passing, Steps, Sound, Marked, Right
<1> QED
  BY <1>3, <1>5, <1>6, <1>7, <1>8, <1>9 DEF DiscInv

LEMMA CkptAtSaveKeeps == ASSUME DiscInv, CkptAtSave PROVE DiscInv'
<1>1. /\ step = "ckptAt" /\ step' = "live" /\ Own
      /\ UNCHANGED <<ownerGen, live, ckpt, notes, mem>>
  BY DEF CkptAtSave
<1>2. /\ DiscoveryType /\ CkptInv /\ GenInv /\ PassInv
  BY DEF DiscInv
<1>3. /\ ChainInv' /\ SdkInv'
      /\ UNCHANGED <<feed, feedFloor, era, blocks, floor, generation, sdk, cp, cache, fresh>>
  BY <1>1, OwnKeeps
<1>4. Known' = Known
  BY <1>1 DEF Known
<1>5. DiscoveryType'
  BY <1>1, <1>2, <1>3 DEF DiscoveryType, Steps
<1>6. CkptInv'
  BY <1>1, <1>2, <1>3, <1>4 DEF CkptInv, Settled, Floor, Right
<1>7. FoundInv' /\ RestInv'
  BY <1>1 DEF FoundInv, RestInv
<1>8. GenInv'
  BY <1>1, <1>2, <1>3 DEF GenInv
<1>9. PassInv'
  BY <1>1, <1>2, <1>3, <1>4 DEF PassInv, Passing, Steps, Sound, Marked, Right
<1> QED
  BY <1>3, <1>5, <1>6, <1>7, <1>8, <1>9 DEF DiscInv

LEMMA LiveSaveKeeps == ASSUME DiscInv, LiveSave PROVE DiscInv'
<1>1. /\ step = "liveSave" /\ step' = "spent" /\ Own /\ live' = mem.cursor
      /\ UNCHANGED <<ownerGen, ckpt, ckptAt, notes, mem>>
  BY DEF LiveSave
<1>2. /\ DiscoveryType /\ CkptInv /\ GenInv /\ PassInv /\ mem.cursor \in Nat
  BY DEF DiscInv, DiscoveryType
<1>3. /\ ChainInv' /\ SdkInv'
      /\ UNCHANGED <<feed, feedFloor, era, blocks, floor, generation, sdk, cp, cache, fresh>>
  BY <1>1, OwnKeeps
<1>4. Known' = Known
  BY <1>1 DEF Known
<1>5. DiscoveryType'
  BY <1>1, <1>2, <1>3 DEF DiscoveryType, Steps
<1>6. CkptInv'
  BY <1>1, <1>2, <1>3, <1>4 DEF CkptInv, Settled, Floor, Right
<1>7. FoundInv' /\ RestInv'
  BY <1>1 DEF FoundInv, RestInv
<1>8. GenInv'
  BY <1>1, <1>2, <1>3 DEF GenInv
<1>9. PassInv'
  BY <1>1, <1>2, <1>3, <1>4 DEF PassInv, Passing, Steps, Sound, Marked, Right
<1> QED
  BY <1>3, <1>5, <1>6, <1>7, <1>8, <1>9 DEF DiscInv

LEMMA SaveGenKeeps == ASSUME DiscInv, SaveGen PROVE DiscInv'
<1>1. /\ step = "gen" /\ step' = "report" /\ Own /\ ownerGen' = mem.gen
      /\ UNCHANGED <<live, ckpt, ckptAt, notes, mem>>
  BY DEF SaveGen, SeenGeneration
<1>2. /\ DiscoveryType /\ CkptInv /\ GenInv /\ PassInv /\ mem.gen \in Nat
  BY DEF DiscInv, DiscoveryType
<1>3. /\ ChainInv' /\ SdkInv'
      /\ UNCHANGED <<feed, feedFloor, era, blocks, floor, generation, sdk, cp, cache, fresh>>
  BY <1>1, OwnKeeps
<1>4. Known' = Known
  BY <1>1 DEF Known
<1>5. DiscoveryType'
  BY <1>1, <1>2, <1>3 DEF DiscoveryType, Steps
<1>6. CkptInv'
  BY <1>1, <1>2, <1>3, <1>4 DEF CkptInv, Settled, Floor, Right
<1>7. FoundInv' /\ RestInv'
  BY <1>1 DEF FoundInv, RestInv
<1>8. GenInv'
  BY <1>1, <1>2, <1>3 DEF GenInv
<1>9. PassInv'
  BY <1>1, <1>2, <1>3, <1>4 DEF PassInv, Passing, Steps, Sound, Marked, Right
<1> QED
  BY <1>3, <1>5, <1>6, <1>7, <1>8, <1>9 DEF DiscInv

\* With the spent flags refreshed, every row is right or says it is spent.
LEMMA RefreshSpentKeeps == ASSUME DiscInv, RefreshSpent PROVE DiscInv'
<1>1. /\ step = "spent" /\ step' = "gen" /\ Own /\ UNCHANGED <<ownerGen, live, ckpt, ckptAt, mem>>
      /\ notes' = [i \in Indices |->
           IF i \in Known THEN SetNoteSpent(notes[i], Spent(blocks, i, mem.head)) ELSE notes[i]]
  BY DEF RefreshSpent
<1>2. /\ DiscoveryType /\ CkptInv /\ GenInv /\ PassInv
      /\ notes \in [Indices -> [at : SUBSET Positions, spent : BOOLEAN]]
  BY DEF DiscInv, DiscoveryType
<1>3. /\ ChainInv' /\ SdkInv'
      /\ UNCHANGED <<feed, feedFloor, era, blocks, floor, generation, sdk, cp, cache, fresh>>
  BY <1>1, OwnKeeps
<1>4. \A i \in Indices : Spent(blocks, i, mem.head) \in BOOLEAN
  BY DEF Spent
<1>5. ASSUME NEW i \in Indices
      PROVE  /\ notes'[i] \in [at : SUBSET Positions, spent : BOOLEAN]
             /\ notes'[i].at = notes[i].at
             /\ i \in Known => notes'[i].spent = Spent(blocks, i, mem.head)
  <2>1. PICK s \in BOOLEAN : s = Spent(blocks, i, mem.head)
    BY <1>4
  <2>2. notes[i] \in [at : SUBSET Positions, spent : BOOLEAN]
    BY <1>2
  <2>3. i \in Known => notes'[i] = [notes[i] EXCEPT !.spent = s]
    BY <1>1, <2>1 DEF SetNoteSpent
  <2>4. i \notin Known => notes'[i] = notes[i]
    BY <1>1
  <2>5. CASE i \in Known
    BY <2>1, <2>2, <2>3, <2>5
  <2>6. CASE i \notin Known
    BY <2>2, <2>4, <2>6
  <2> QED
    BY <2>5, <2>6
<1>6. notes' = [i \in Indices |-> notes'[i]]
  BY <1>1
<1>7. notes' \in [Indices -> [at : SUBSET Positions, spent : BOOLEAN]]
  BY <1>5, <1>6
<1>8. Known' = Known /\ Known \subseteq Indices
  BY <1>5 DEF Known
<1>9. DiscoveryType'
  BY <1>1, <1>2, <1>3, <1>7 DEF DiscoveryType, Steps
<1>10. CkptInv'
  BY <1>1, <1>2, <1>3, <1>5, <1>8 DEF CkptInv, Settled, Floor, Right
<1>11. FoundInv' /\ RestInv'
  BY <1>1 DEF FoundInv, RestInv
<1>12. GenInv'
  BY <1>1, <1>2, <1>3 DEF GenInv
<1>13. PassInv'
  <2> SUFFICES ASSUME mem.gen = generation PROVE PassInv'
    BY <1>1, <1>3 DEF PassInv
  <2>1. step \in Passing
    BY <1>1 DEF Passing, Steps
  <2>2. Sound(mem.head) /\ \A i \in Known : Right(i, mem.head) \/ Spent(blocks, i, mem.head)
    BY <1>1, <1>2, <2>1 DEF PassInv, Marked
  <2>3. Sound(mem.head)'
    BY <1>1, <1>3, <1>8, <2>2 DEF Sound
  <2>4. Marked(mem.head)'
    BY <1>1, <1>3, <1>5, <1>8, <2>2 DEF Marked, Right
  <2>5. \A i \in Known' : notes'[i].spent = Spent(blocks', i, mem'.head)
    BY <1>1, <1>3, <1>5, <1>8
  <2>6. fresh => \A i \in 1..NoteCount(blocks, mem.head) : i \in Known
    BY <1>1, <1>2, <2>1 DEF PassInv
  <2> QED
    BY <1>1, <1>3, <1>8, <2>3, <2>4, <2>5, <2>6 DEF PassInv
<1> QED
  BY <1>3, <1>9, <1>10, <1>11, <1>12, <1>13 DEF DiscInv

\* A report returned, a failed call and a death all leave a sound registry.
LEMMA SyncEndsKeeps == ASSUME DiscInv, SyncEnds PROVE DiscInv'
<1>1. /\ ~sdk /\ step # "idle" /\ step' = "idle" /\ mem' = Idle /\ Own
      /\ UNCHANGED <<ownerGen, live, ckpt, ckptAt, notes>>
  BY DEF SyncEnds, ownerVars
<1>2. /\ DiscoveryType /\ CkptInv /\ GenInv /\ PassInv /\ RestInv /\ MaxLen \in Nat
      /\ blocks \in Seq(Blocks) /\ floor \in Nat /\ mem.floor \in Nat /\ mem.head \in Nat
      /\ mem.head <= MaxLen /\ mem.gen \in Nat /\ ownerGen \in Nat /\ generation \in Nat
      /\ ckpt \in Nat \cup {None} /\ step \in Steps
  BY DiscoveryAssumption DEF DiscInv, DiscoveryType
<1>3. /\ ChainInv' /\ SdkInv'
      /\ UNCHANGED <<feed, feedFloor, era, blocks, floor, generation, sdk, cp, cache, fresh>>
  BY <1>1, OwnKeeps
<1>4. Idle \in [head : Nat, floor : Nat, gen : Nat, cursor : Nat,
                found : SUBSET [i : Nat, at : SUBSET Positions]] /\ Idle.head <= MaxLen
  BY <1>2 DEF Idle
<1>5. DiscoveryType'
  BY <1>1, <1>2, <1>3, <1>4 DEF DiscoveryType, Steps
<1>6. blocks' \in Seq(Blocks) /\ \A m : Carries(blocks, blocks', m)
  BY <1>2, <1>3, CarriesSelf
<1>7. CkptInv'
  <2>1. PICK m \in Nat, p \in Nat, to \in Nat \cup {None} :
          m = mem.floor /\ p = floor /\ to = ckpt
    BY <1>2
  <2>2. m <= p /\ to <= NoteCount(blocks, m) /\ to \in Nat \cup {None}
        /\ \A i \in Known : i <= to => Right(i, m) \/ Spent(blocks, i, m)
    BY <1>1, <1>2, <2>1 DEF CkptInv, Settled, Floor
  <2>3. /\ to <= NoteCount(blocks', p)
        /\ \A i \in Known' : i <= to => Right(i, p)' \/ Spent(blocks', i, p)
    BY <1>1, <1>2, <1>6, <2>2, CarrySettled
  <2>4. Floor' = p /\ ckpt' = to /\ ~sdk'
    BY <1>1, <1>3, <2>1 DEF Floor
  <2> QED
    BY <1>1, <2>3, <2>4 DEF CkptInv, Settled, Right
<1>8. FoundInv' /\ PassInv'
  BY <1>1 DEF FoundInv, PassInv, Passing
<1>9. GenInv'
  BY <1>1, <1>2, <1>3 DEF GenInv
<1>10. RestInv'
  <2> SUFFICES ASSUME ownerGen = generation PROVE Sound(RestBound)' /\ Marked(RestBound)'
    BY <1>1, <1>3 DEF RestInv
  <2>1. Sound(mem.head) /\ Marked(mem.head)
    <3>1. CASE step = "rewind"
      BY <1>2, <3>1 DEF RestInv
    <3>2. CASE step # "rewind"
      <4>1. ownerGen = mem.gen /\ mem.gen = generation /\ step # "prune"
        BY <1>1, <1>2, <3>2 DEF GenInv
      <4>2. step \in Passing
        BY <1>1, <1>2, <3>2, <4>1 DEF Passing
      <4> QED
        BY <1>2, <4>1, <4>2 DEF PassInv
    <3> QED
      BY <3>1, <3>2
  <2>2. PICK m \in Nat, p \in Nat : m = mem.head /\ p = MaxLen
    BY <1>2
  <2>3. Sound(p)' /\ Marked(p)'
    BY <1>1, <1>2, <1>6, <2>1, <2>2, CarrySound
  <2>4. RestBound' = p
    BY <1>1, <1>3, <2>2 DEF RestBound
  <2> QED
    BY <2>3, <2>4 DEF Sound, Marked, Right
<1> QED
  BY <1>3, <1>5, <1>7, <1>8, <1>9, <1>10 DEF DiscInv

(***************************************************************************)
(* A sync that had the store to itself ends with the mirror's notes.       *)
(***************************************************************************)
LEMMA ExactReport ==
  ASSUME DiscInv, step = "report", fresh
  PROVE  /\ Known = 1..NoteCount(blocks, mem.head)
         /\ Sound(mem.head) /\ Marked(mem.head) /\ ownerGen = generation
         /\ \A i \in Known : notes[i].spent = Spent(blocks, i, mem.head)
<1>1. DiscoveryType /\ PassInv /\ GenInv /\ blocks \in Seq(Blocks) /\ mem.head \in Nat
  BY DEF DiscInv, DiscoveryType
<1>2. step \in Passing /\ mem.gen = generation
  BY <1>1 DEF GenInv, Passing, Steps
<1>3. /\ Sound(mem.head) /\ Marked(mem.head) /\ ownerGen = mem.gen
      /\ \A i \in 1..NoteCount(blocks, mem.head) : i \in Known
      /\ \A i \in Known : notes[i].spent = Spent(blocks, i, mem.head)
  BY <1>1, <1>2 DEF PassInv
<1>4. NoteCount(blocks, mem.head) \in Nat
  BY <1>1, AtFinite DEF NoteCount
<1>5. \A i \in Known : i \in 1..NoteCount(blocks, mem.head)
  BY <1>1, <1>3, <1>4, NoteIndex DEF Sound
<1> QED
  BY <1>2, <1>3, <1>5

\* The report written to the cache is the store's at the checkpoint.
LEMMA SdkReportKeeps == ASSUME DiscInv, SdkReport PROVE DiscInv'
<1>1. /\ sdk /\ step = "report" /\ step' = "idle" /\ mem' = Idle
      /\ cache' = [stamp |-> Stamp, block |-> cp,
                   notes |-> [i \in Known |->
                               [at |-> NoteAt(blocks, i, cp), spent |-> notes[i].spent]]]
      /\ UNCHANGED <<feed, feedFloor, era, blocks, floor, generation, sdk, cp, fresh>>
      /\ UNCHANGED <<ownerGen, live, ckpt, ckptAt, notes>>
  BY DEF SdkReport, feedVars, storeVars, ownerVars
<1>2. /\ DiscoveryType /\ ChainInv /\ CkptInv /\ GenInv /\ SdkInv /\ MaxLen \in Nat
      /\ blocks \in Seq(Blocks) /\ feed \in Seq(Blocks) /\ cp \in Nat /\ ckpt = None
      /\ Len(blocks) \in Nat /\ era \in Nat
      /\ cp <= Len(blocks) /\ cp > 0 /\ mem.head = cp /\ fresh
  BY <1>1, DiscoveryAssumption, LenProperties DEF DiscInv, DiscoveryType, SdkInv, CkptInv
<1>3. /\ Known = 1..NoteCount(blocks, cp) /\ Sound(mem.head) /\ Marked(mem.head)
      /\ \A i \in Known : notes[i].spent = Spent(blocks, i, cp)
  BY <1>1, <1>2, ExactReport
<1>4. Idle \in [head : Nat, floor : Nat, gen : Nat, cursor : Nat,
                found : SUBSET [i : Nat, at : SUBSET Positions]] /\ Idle.head <= MaxLen
  BY <1>2 DEF Idle
<1>5. DiscoveryType'
  BY <1>1, <1>2, <1>4 DEF DiscoveryType, Steps
<1>6. ChainInv'
  BY <1>1, <1>2 DEF ChainInv, Agree
<1>7. CkptInv'
  <2>1. NoteCount(blocks', Floor') \in Nat
    BY <1>1, <1>2, AtFinite DEF NoteCount
  <2>2. ckpt' = None /\ ckpt' <= NoteCount(blocks', Floor')
    BY <1>1, <1>2, <2>1 DEF None
  <2>3. Settled(ckpt)'
    <3>1. \A i \in Known' : ~(i <= ckpt')
      BY <1>5, <2>2 DEF Known, Indices, None
    <3> QED
      BY <3>1 DEF Settled
  <2> QED
    BY <1>1, <2>2, <2>3 DEF CkptInv
<1>8. FoundInv' /\ PassInv'
  BY <1>1 DEF FoundInv, PassInv, Passing
<1>9. GenInv'
  BY <1>1, <1>2 DEF GenInv
<1>10. RestInv'
  <2>1. Known' = Known /\ cache'.block = cp /\ RestBound' = cp
    BY <1>1 DEF Known, RestBound
  <2>2. Sound(RestBound)' /\ Marked(RestBound)'
    BY <1>1, <1>2, <1>3, <2>1 DEF Sound, Marked, Right
  <2> QED
    BY <1>1, <2>2 DEF RestInv
<1>11. SdkInv'
  <2>1. cp \in 1..Len(blocks)
    BY <1>2
  <2>2. blocks[cp] \in Blocks
    BY <1>2, <2>1, ElementOfSeq
  <2>3. PICK c, e, ns : c = cp /\ e = blocks[cp].era /\ ns = cache'.notes
    OBVIOUS
  <2>4. /\ cache'.stamp = <<c, e, generation>> /\ cache'.stamp[1] = c /\ cache'.stamp[2] = e
        /\ cache'.block = c
        /\ cache' = [stamp |-> cache'.stamp, block |-> cache'.block, notes |-> cache'.notes]
    BY <1>1, <2>3 DEF Stamp
  <2>5. c \in Nat \ {0} /\ e \in Nat /\ c <= Len(blocks)
    BY <1>2, <2>2, <2>3 DEF Blocks
  <2>6. e <= era /\ (e = era => c <= Len(feed))
    BY <1>2, <2>1, <2>3 DEF ChainInv, Agree
  <2>7. ns = Report(blocks, c)
    <3>1. ns = [i \in Known |-> [at |-> NoteAt(blocks, i, cp), spent |-> notes[i].spent]]
      BY <1>1, <2>3
    <3> QED
      BY <1>3, <2>3, <3>1 DEF Report
  <2>8. ASSUME c <= Len(feed), feed[c].era = e PROVE ns = Report(feed, c)
    <3>1. Agree(blocks, feed, c)
      BY <1>2, <2>1, <2>3, <2>8 DEF ChainInv
    <3> QED
      BY <1>2, <2>5, <2>7, <3>1, SameReport
  <2>9. \A chain \in {feed, blocks} : c <= Len(chain) /\ chain[c].era = e => ns = Report(chain, c)
    BY <2>7, <2>8
  <2>10. /\ cache'.stamp[1] \in Nat \ {0} /\ cache'.stamp[2] \in Nat
         /\ cache'.stamp[2] <= era'
         /\ cache'.stamp[2] = era' => cache'.stamp[1] <= Len(feed')
         /\ \A chain \in {feed', blocks'} :
              cache'.stamp[1] <= Len(chain) /\ chain[cache'.stamp[1]].era = cache'.stamp[2]
                => cache'.notes = Report(chain, cache'.stamp[1])
    BY <1>1, <2>3, <2>4, <2>5, <2>6, <2>9
  <2>11. /\ cp' <= Len(blocks') /\ (~sdk' => cp' = 0) /\ cache'.block \in Nat /\ step' = "idle"
    BY <1>1, <1>2, <2>4, <2>5
  <2> QED
    BY <2>4, <2>10, <2>11 DEF SdkInv
<1> QED
  BY <1>5, <1>6, <1>7, <1>8, <1>9, <1>10, <1>11 DEF DiscInv

(***************************************************************************)
(* run_incoming leaves the cursor at the last note below its bound and     *)
(* returns every note after the resumed cursor that is not spent.          *)
(***************************************************************************)
LEMMA RunFacts ==
  ASSUME DiscoveryType, NEW from \in Nat \cup {None}, NEW bound \in Nat, NEW next,
         RunIncoming(from, bound, next)
  PROVE  /\ mem' \in [head : Nat, floor : Nat, gen : Nat, cursor : Nat,
                      found : SUBSET [i : Nat, at : SUBSET Positions]]
         /\ mem'.head = mem.head /\ mem'.floor = mem.floor /\ mem'.gen = mem.gen
         /\ from <= NoteCount(blocks, bound) => mem'.cursor = NoteCount(blocks, bound)
         /\ \A f \in mem'.found : /\ f.i \in Nat /\ f.i > 0 /\ f.i <= NoteCount(blocks, bound)
                                  /\ f.at = NoteAt(blocks, f.i, bound) /\ f.at # {}
         /\ \A f, g \in mem'.found : f.i = g.i => f = g
         /\ \A i \in Nat : from < i /\ 0 < i /\ i <= NoteCount(blocks, bound) =>
              Spent(blocks, i, bound) \/ \E f \in mem'.found : f.i = i
<1> DEFINE total == NoteCount(blocks, bound)
           start == IF from = None THEN 0 ELSE from
           new == {k \in (start + 1)..total : ~Spent(blocks, k, bound)}
           found == {[i |-> i, at |-> NoteAt(blocks, i, bound)] : i \in new}
<1>1. /\ mem' = [mem EXCEPT !.cursor = IF total > start THEN total ELSE start, !.found = found]
  BY DEF RunIncoming
<1>2. /\ blocks \in Seq(Blocks) /\ total \in Nat /\ start \in Nat
      /\ mem \in [head : Nat, floor : Nat, gen : Nat, cursor : Nat,
                  found : SUBSET [i : Nat, at : SUBSET Positions]]
  BY AtFinite DEF DiscoveryType, NoteCount
<1>3. \A i \in new : i \in Nat /\ i # 0 /\ i <= total
  BY <1>2
<1>4. \A i \in new : NoteAt(blocks, i, bound) # {} /\ NoteAt(blocks, i, bound) \in SUBSET Positions
  <2> HIDE DEF new
  <2> QED
    BY <1>2, <1>3, NoteThere
<1>5. from < start + 1 /\ (from <= total => start <= total)
      /\ \A i \in Nat : from < i /\ 0 < i => start + 1 <= i
  BY <1>2 DEF None
<1>6. \A i \in Nat : from < i /\ 0 < i /\ i <= total => Spent(blocks, i, bound) \/ i \in new
  BY <1>2, <1>5
<1>7. from <= total => (IF total > start THEN total ELSE start) = total
  BY <1>2, <1>5
<1>8. (IF total > start THEN total ELSE start) \in Nat
  BY <1>2
<1>9. PICK c, F : c = (IF total > start THEN total ELSE start) /\ F = found
  OBVIOUS
<1>10. /\ \A f \in F : f.i \in new /\ f.at = NoteAt(blocks, f.i, bound)
                       /\ f = [i |-> f.i, at |-> f.at]
       /\ \A i \in new : [i |-> i, at |-> NoteAt(blocks, i, bound)] \in F
  <2> HIDE DEF new
  <2> QED
    BY <1>9
<1> HIDE DEF new, found, start, total
<1>11. F \in SUBSET [i : Nat, at : SUBSET Positions]
  <2> SUFFICES ASSUME NEW f \in F PROVE f \in [i : Nat, at : SUBSET Positions]
    OBVIOUS
  <2>1. f.i \in Nat /\ f.at \in SUBSET Positions /\ f = [i |-> f.i, at |-> f.at]
    BY <1>3, <1>4, <1>10
  <2> QED
    BY <2>1
<1>12. mem' = [mem EXCEPT !.cursor = c, !.found = F]
  BY <1>1, <1>9
<1>13. /\ mem' \in [head : Nat, floor : Nat, gen : Nat, cursor : Nat,
                    found : SUBSET [i : Nat, at : SUBSET Positions]]
       /\ mem'.head = mem.head /\ mem'.floor = mem.floor /\ mem'.gen = mem.gen
       /\ mem'.cursor = c /\ mem'.found = F
  BY <1>2, <1>8, <1>9, <1>11, <1>12
<1>14. \A f \in F : f.i \in Nat /\ f.i > 0 /\ f.i <= total
                    /\ f.at = NoteAt(blocks, f.i, bound) /\ f.at # {}
  BY <1>3, <1>4, <1>10
<1>15. \A f, g \in F : f.i = g.i => f = g
  BY <1>10
<1>16. \A i \in Nat : from < i /\ 0 < i /\ i <= total =>
         Spent(blocks, i, bound) \/ \E f \in F : f.i = i
  <2> SUFFICES ASSUME NEW i \in Nat, from < i, 0 < i, i <= total, ~Spent(blocks, i, bound)
               PROVE  \E f \in F : f.i = i
    OBVIOUS
  <2>1. [i |-> i, at |-> NoteAt(blocks, i, bound)] \in F
    BY <1>6, <1>10
  <2> QED
    BY <2>1
<1> QED
  BY <1>7, <1>9, <1>13, <1>14, <1>15, <1>16 DEF total

\* The checkpoint pass scans the final blocks.
LEMMA CkptRunKeeps == ASSUME DiscInv, CkptRun PROVE DiscInv'
<1>1. /\ step = "ckpt" /\ ~sdk /\ step' = "ckptRegister" /\ Own
      /\ UNCHANGED <<ownerGen, live, ckpt, ckptAt, notes>>
      /\ RunIncoming(ckpt, mem.floor, "ckptRegister")
  BY DEF CkptRun, RunIncoming, ownerVars
<1>2. /\ DiscoveryType /\ CkptInv /\ GenInv /\ PassInv /\ blocks \in Seq(Blocks)
      /\ mem.floor \in Nat /\ mem.head \in Nat /\ ckpt \in Nat \cup {None}
      /\ mem.floor <= mem.head /\ ckpt <= NoteCount(blocks, mem.floor) /\ mem.head <= MaxLen
  BY <1>1 DEF DiscInv, DiscoveryType, CkptInv, Floor
<1>3. PICK l, h, c : l = mem.floor /\ h = mem.head /\ c = ckpt
  OBVIOUS
<1>4. l \in Nat /\ h \in Nat /\ l <= h /\ c \in Nat \cup {None} /\ c <= NoteCount(blocks, l)
      /\ RunIncoming(c, l, "ckptRegister")
  BY <1>1, <1>2, <1>3
<1>5. /\ mem' \in [head : Nat, floor : Nat, gen : Nat, cursor : Nat,
                   found : SUBSET [i : Nat, at : SUBSET Positions]]
      /\ mem'.head = h /\ mem'.floor = l /\ mem'.gen = mem.gen
      /\ mem'.cursor = NoteCount(blocks, l)
      /\ \A f \in mem'.found : /\ f.i \in Nat /\ f.i > 0 /\ f.i <= NoteCount(blocks, l)
                               /\ f.at = NoteAt(blocks, f.i, l) /\ f.at # {}
      /\ \A f, g \in mem'.found : f.i = g.i => f = g
      /\ \A i \in Nat : c < i /\ 0 < i /\ i <= NoteCount(blocks, l) =>
           Spent(blocks, i, l) \/ \E f \in mem'.found : f.i = i
  BY <1>2, <1>3, <1>4, RunFacts
<1>6. /\ ChainInv' /\ SdkInv'
      /\ UNCHANGED <<feed, feedFloor, era, blocks, floor, generation, sdk, cp, cache, fresh>>
  BY <1>1, <1>3, <1>5, OwnKeeps
<1>7. Known' = Known /\ \A i \in Known : i \in Nat /\ 0 < i
  BY <1>1, <1>2, NoteIndex DEF Known
<1>8. /\ NoteCount(blocks, l) \in Nat /\ NoteCount(blocks, h) \in Nat
      /\ NoteCount(blocks, l) <= NoteCount(blocks, h)
      /\ \A i \in 1..NoteCount(blocks, l) : NoteAt(blocks, i, h) = NoteAt(blocks, i, l)
  BY <1>2, <1>4, CarriesSelf, Carry
<1>9. DiscoveryType'
  BY <1>1, <1>2, <1>3, <1>5, <1>6 DEF DiscoveryType, Steps
<1>10. CkptInv'
  BY <1>1, <1>2, <1>3, <1>5, <1>6, <1>7 DEF CkptInv, Settled, Floor, Right
<1>11. FoundInv'
  <2>1. ASSUME NEW f \in mem'.found
        PROVE  /\ f.at # {} /\ f.i > 0
               /\ f.i <= NoteCount(blocks, l) /\ f.at = NoteAt(blocks, f.i, l)
               /\ f.i <= NoteCount(blocks, h) /\ f.at = NoteAt(blocks, f.i, h)
    <3>1. /\ f.i \in Nat /\ f.i > 0 /\ f.i <= NoteCount(blocks, l)
          /\ f.at = NoteAt(blocks, f.i, l) /\ f.at # {}
      BY <1>5
    <3>2. f.i \in 1..NoteCount(blocks, l) /\ f.i <= NoteCount(blocks, h)
      BY <1>8, <3>1
    <3> QED
      BY <1>8, <3>1, <3>2
  <2>2. \A i \in Known' : ckpt' < i /\ i <= mem'.cursor =>
          Spent(blocks', i, mem'.floor) \/ Returned(i)'
    BY <1>1, <1>3, <1>5, <1>6, <1>7 DEF Returned
  <2> QED
    BY <1>1, <1>3, <1>5, <1>6, <2>1, <2>2 DEF FoundInv
<1>12. GenInv'
  BY <1>1, <1>2, <1>3, <1>5, <1>6 DEF GenInv
<1>13. RestInv'
  BY <1>1 DEF RestInv
<1>14. PassInv'
  BY <1>1, <1>2, <1>3, <1>5, <1>6, <1>7 DEF PassInv, Passing, Steps, Sound, Marked, Right
<1> QED
  BY <1>6, <1>9, <1>10, <1>11, <1>12, <1>13, <1>14 DEF DiscInv

\* The live pass resumes from a cursor that stands for the present rows.
LEMMA LiveRunKeeps == ASSUME DiscInv, LiveRun PROVE DiscInv'
<1>1. /\ step = "live" /\ step' = "liveRegister" /\ Own
      /\ UNCHANGED <<ownerGen, live, ckpt, ckptAt, notes>>
      /\ RunIncoming(IF live # None THEN live ELSE ckpt, mem.head, "liveRegister")
  BY DEF LiveRun, RunIncoming, ownerVars
<1>2. /\ DiscoveryType /\ CkptInv /\ GenInv /\ PassInv /\ blocks \in Seq(Blocks)
      /\ mem.floor \in Nat /\ mem.head \in Nat /\ ckpt \in Nat \cup {None}
      /\ live \in Nat \cup {None} /\ mem.head <= MaxLen
      /\ mem.floor <= mem.head /\ ckpt <= NoteCount(blocks, mem.floor) /\ Settled(ckpt)
      /\ Floor = mem.floor
  BY <1>1 DEF DiscInv, DiscoveryType, CkptInv, Floor
<1>3. PICK l, h, c : l = mem.floor /\ h = mem.head /\ c = IF live # None THEN live ELSE ckpt
  OBVIOUS
<1>4. l \in Nat /\ h \in Nat /\ l <= h /\ c \in Nat \cup {None}
      /\ RunIncoming(c, h, "liveRegister")
  BY <1>1, <1>2, <1>3
<1>5. /\ mem' \in [head : Nat, floor : Nat, gen : Nat, cursor : Nat,
                   found : SUBSET [i : Nat, at : SUBSET Positions]]
      /\ mem'.head = h /\ mem'.floor = l /\ mem'.gen = mem.gen
      /\ c <= NoteCount(blocks, h) => mem'.cursor = NoteCount(blocks, h)
      /\ \A f \in mem'.found : /\ f.i \in Nat /\ f.i > 0 /\ f.i <= NoteCount(blocks, h)
                               /\ f.at = NoteAt(blocks, f.i, h) /\ f.at # {}
      /\ \A f, g \in mem'.found : f.i = g.i => f = g
      /\ \A i \in Nat : c < i /\ 0 < i /\ i <= NoteCount(blocks, h) =>
           Spent(blocks, i, h) \/ \E f \in mem'.found : f.i = i
  BY <1>2, <1>3, <1>4, RunFacts
<1>6. /\ ChainInv' /\ SdkInv'
      /\ UNCHANGED <<feed, feedFloor, era, blocks, floor, generation, sdk, cp, cache, fresh>>
  BY <1>1, <1>3, <1>5, OwnKeeps
<1>7. Known' = Known /\ \A i \in Known : i \in Nat /\ 0 < i
  BY <1>1, <1>2, NoteIndex DEF Known
<1>8. /\ NoteCount(blocks, l) \in Nat /\ NoteCount(blocks, h) \in Nat
      /\ NoteCount(blocks, l) <= NoteCount(blocks, h)
      /\ \A i \in Nat : Spent(blocks, i, l) => Spent(blocks, i, h)
      /\ \A i \in 1..NoteCount(blocks, l) : NoteAt(blocks, i, h) = NoteAt(blocks, i, l)
  BY <1>2, <1>4, CarriesSelf, Carry
<1>9. DiscoveryType'
  BY <1>1, <1>2, <1>3, <1>5, <1>6 DEF DiscoveryType, Steps
<1>10. CkptInv'
  BY <1>1, <1>2, <1>3, <1>5, <1>6, <1>7 DEF CkptInv, Settled, Floor, Right
<1>11. FoundInv'
  <2>1. ASSUME NEW f \in mem'.found
        PROVE  /\ f.at # {} /\ f.i > 0
               /\ f.i <= NoteCount(blocks, l) => f.at = NoteAt(blocks, f.i, l)
               /\ f.i <= NoteCount(blocks, h) /\ f.at = NoteAt(blocks, f.i, h)
    <3>1. /\ f.i \in Nat /\ f.i > 0 /\ f.i <= NoteCount(blocks, h)
          /\ f.at = NoteAt(blocks, f.i, h) /\ f.at # {}
      BY <1>5
    <3>2. f.i <= NoteCount(blocks, l) => f.i \in 1..NoteCount(blocks, l)
      BY <1>8, <3>1
    <3> QED
      BY <1>8, <3>1, <3>2
  <2>2. ASSUME mem.gen = generation, ownerGen # mem.gen, NEW i \in Known,
               ~Right(i, h), ~Spent(blocks, i, h)
        PROVE  \E f \in mem'.found : f.i = i
    <3>1. step \in Passing
      BY <1>1 DEF Passing, Steps
    <3>2. c = ckpt /\ i <= NoteCount(blocks, h)
      BY <1>1, <1>2, <1>3, <2>2, <3>1 DEF PassInv, Sound
    <3>3. i \in Nat /\ 0 < i
      BY <1>7, <2>2
    <3>4. CASE i <= ckpt
      <4>1. Right(i, l) \/ Spent(blocks, i, l)
        BY <1>2, <1>3, <2>2, <3>4 DEF Settled
      <4>2. ~Spent(blocks, i, l)
        BY <1>8, <2>2, <3>3
      <4>3. i \in 1..NoteCount(blocks, l)
        BY <1>2, <1>3, <1>8, <3>3, <3>4
      <4> QED
        BY <1>8, <2>2, <4>1, <4>2, <4>3 DEF Right
    <3>5. CASE ~(i <= ckpt)
      <4>1. c < i
        BY <1>2, <3>2, <3>3, <3>5 DEF None
      <4> QED
        BY <1>5, <2>2, <3>2, <3>3, <4>1
    <3> QED
      BY <3>4, <3>5
  <2>3. mem'.gen = generation' /\ ownerGen' # mem'.gen =>
          \A i \in Known' : Right(i, mem.head)' \/ Spent(blocks', i, mem'.head) \/ Returned(i)'
    BY <1>1, <1>3, <1>5, <1>6, <1>7, <2>2 DEF Right, Returned
  <2> QED
    BY <1>1, <1>3, <1>5, <1>6, <2>1, <2>3 DEF FoundInv
<1>12. GenInv'
  BY <1>1, <1>2, <1>3, <1>5, <1>6 DEF GenInv
<1>13. RestInv'
  BY <1>1 DEF RestInv
<1>14. PassInv'
  <2> SUFFICES ASSUME mem.gen = generation PROVE PassInv'
    BY <1>1, <1>5, <1>6 DEF PassInv
  <2>1. step \in Passing
    BY <1>1 DEF Passing, Steps
  <2>2. Sound(h)
    BY <1>2, <1>3, <2>1 DEF PassInv
  <2>3. c <= NoteCount(blocks, h)
    BY <1>2, <1>3, <1>8, <2>2 DEF Sound, None
  <2>4. mem'.cursor = NoteCount(blocks, h)
    BY <1>5, <2>3
  <2>5. mem'.cursor <= NoteCount(blocks', mem'.head) /\ mem'.cursor = NoteCount(blocks', mem'.head)
    BY <1>5, <1>6, <1>8, <2>4
  <2> QED
    BY <1>1, <1>2, <1>3, <1>5, <1>6, <1>7, <2>1, <2>5 DEF PassInv, Sound, Marked, Right
<1> QED
  BY <1>6, <1>9, <1>10, <1>11, <1>12, <1>13, <1>14 DEF DiscInv

(***************************************************************************)
(* A row after register_notes and register_scanned_notes is one the engine *)
(* returned, one known before, or one the scan passed and the slot has.    *)
(***************************************************************************)
LEMMA RegisterFacts ==
  ASSUME DiscInv, NEW bound \in Nat, NEW next, Register(bound, next),
         step \in {"ckptRegister", "liveRegister"}
  PROVE  /\ notes' \in [Indices -> [at : SUBSET Positions, spent : BOOLEAN]]
         /\ \A i \in Known' :
              \/ \E f \in mem.found : f.i = i /\ notes'[i].at = f.at
              \/ i \in Known /\ ~Returned(i) /\ notes'[i] = notes[i]
              \/ /\ i <= mem.cursor /\ notes'[i].at = NoteAt(blocks, i, bound)
                 /\ i <= NoteCount(blocks, bound)
         /\ \A i \in Indices : i <= mem.cursor /\ i <= NoteCount(blocks, bound) => i \in Known'
<1>1. /\ DiscoveryType /\ FoundInv /\ blocks \in Seq(Blocks) /\ mem.cursor \in Nat
      /\ notes \in [Indices -> [at : SUBSET Positions, spent : BOOLEAN]]
      /\ mem.found \in SUBSET [i : Nat, at : SUBSET Positions] /\ MaxLen \in Nat
  BY DiscoveryAssumption DEF DiscInv, DiscoveryType
<1>2. /\ \A f, g \in mem.found : f.i = g.i => f = g
      /\ \A f \in mem.found : f.at # {}
  BY <1>1 DEF FoundInv
<1>3. notes' = [i \in Indices |->
        IF Found(i) # {} THEN UpsertNote(notes[i], Found(i))
        ELSE IF i \notin Known /\ i <= mem.cursor
             THEN UpsertNote(NoNote, NoteAt(blocks, i, bound))
             ELSE notes[i]]
  BY DEF Register
<1>4. ASSUME NEW i PROVE Found(i) # {} <=> Returned(i)
  BY <1>2 DEF Found, Returned
<1>5. ASSUME NEW i, NEW f \in mem.found, f.i = i PROVE Found(i) = f.at
  <2>1. {g \in mem.found : g.i = i} = {f}
    BY <1>2, <1>5
  <2>2. Found(i) = UNION {g.at : g \in {f}}
    BY <2>1 DEF Found
  <2> QED
    BY <2>2
<1>6. ASSUME NEW i \in Indices, NEW f \in mem.found, f.i = i
      PROVE  notes'[i].at = f.at /\ notes'[i] \in [at : SUBSET Positions, spent : BOOLEAN]
  <2>1. notes'[i] = [notes[i] EXCEPT !.at = f.at]
    BY <1>3, <1>4, <1>5, <1>6 DEF UpsertNote, Returned
  <2>2. notes[i] \in [at : SUBSET Positions, spent : BOOLEAN] /\ f.at \in SUBSET Positions
    BY <1>1, <1>6
  <2> QED
    BY <2>1, <2>2
<1>7. ASSUME NEW i \in Indices, ~Returned(i), i \notin Known, i <= mem.cursor
      PROVE  /\ notes'[i].at = NoteAt(blocks, i, bound)
             /\ notes'[i] \in [at : SUBSET Positions, spent : BOOLEAN]
  <2>1. notes'[i] = [NoNote EXCEPT !.at = NoteAt(blocks, i, bound)]
    BY <1>3, <1>4, <1>7 DEF UpsertNote
  <2>2. notes'[i] = [at |-> NoteAt(blocks, i, bound), spent |-> FALSE]
    BY <2>1 DEF NoNote
  <2>3. i \in Nat /\ i # 0
    BY <1>1 DEF Indices
  <2>4. NoteAt(blocks, i, bound) \in SUBSET Positions
    BY <1>1, <2>3, NoteThere
  <2> QED
    BY <2>2, <2>4
<1>8. ASSUME NEW i \in Indices, ~Returned(i), i \in Known \/ ~(i <= mem.cursor)
      PROVE  notes'[i] = notes[i] /\ notes'[i] \in [at : SUBSET Positions, spent : BOOLEAN]
  BY <1>1, <1>3, <1>4, <1>8
<1>9. ASSUME NEW i \in Indices PROVE notes'[i] \in [at : SUBSET Positions, spent : BOOLEAN]
  <2>1. CASE Returned(i)
    <3>1. PICK f \in mem.found : f.i = i
      BY <2>1 DEF Returned
    <3> QED
      BY <1>6, <3>1
  <2>2. CASE ~Returned(i) /\ i \notin Known /\ i <= mem.cursor
    BY <1>7, <2>2
  <2>3. CASE ~Returned(i) /\ (i \in Known \/ ~(i <= mem.cursor))
    BY <1>8, <2>3
  <2> QED
    BY <2>1, <2>2, <2>3
<1>10. notes' \in [Indices -> [at : SUBSET Positions, spent : BOOLEAN]]
  <2>1. notes' = [i \in Indices |-> notes'[i]]
    BY <1>3
  <2> QED
    BY <1>9, <2>1
<1>11. ASSUME NEW i \in Known'
       PROVE  \/ \E f \in mem.found : f.i = i /\ notes'[i].at = f.at
              \/ i \in Known /\ ~Returned(i) /\ notes'[i] = notes[i]
              \/ /\ i <= mem.cursor /\ notes'[i].at = NoteAt(blocks, i, bound)
                 /\ i <= NoteCount(blocks, bound)
  <2>1. i \in Indices /\ notes'[i].at # {} /\ i \in Nat /\ i # 0
    BY <1>1 DEF Known, Indices
  <2>2. CASE Returned(i)
    <3>1. PICK f \in mem.found : f.i = i
      BY <2>2 DEF Returned
    <3> QED
      BY <1>6, <2>1, <3>1
  <2>3. CASE ~Returned(i) /\ i \notin Known /\ i <= mem.cursor
    <3>1. notes'[i].at = NoteAt(blocks, i, bound)
      BY <1>7, <2>1, <2>3
    <3>2. i <= NoteCount(blocks, bound)
      BY <1>1, <2>1, <3>1, NoteThere
    <3> QED
      BY <2>3, <3>1, <3>2
  <2>4. CASE ~Returned(i) /\ (i \in Known \/ ~(i <= mem.cursor))
    <3>1. notes'[i] = notes[i]
      BY <1>8, <2>1, <2>4
    <3>2. i \in Known
      BY <2>1, <3>1 DEF Known
    <3> QED
      BY <2>4, <3>1, <3>2
  <2> QED
    BY <2>2, <2>3, <2>4
<1>12. ASSUME NEW i \in Indices, i <= mem.cursor, i <= NoteCount(blocks, bound) PROVE i \in Known'
  <2>1. CASE Returned(i)
    <3>1. PICK f \in mem.found : f.i = i
      BY <2>1 DEF Returned
    <3>2. notes'[i].at # {}
      BY <1>2, <1>6, <3>1
    <3> QED
      BY <3>2 DEF Known
  <2>2. CASE ~Returned(i) /\ i \notin Known
    <3>1. notes'[i].at = NoteAt(blocks, i, bound)
      BY <1>7, <1>12, <2>2
    <3>2. i \in Nat /\ i # 0
      BY <1>1 DEF Indices
    <3>3. notes'[i].at # {}
      BY <1>1, <1>12, <3>1, <3>2, NoteThere
    <3> QED
      BY <3>3 DEF Known
  <2>3. CASE ~Returned(i) /\ i \in Known
    <3>1. notes'[i] = notes[i]
      BY <1>8, <2>3
    <3> QED
      BY <2>3, <3>1 DEF Known
  <2> QED
    BY <2>1, <2>2, <2>3
<1> QED
  BY <1>10, <1>11, <1>12

(***************************************************************************)
(* No chain has more notes than blocks.                                    *)
(***************************************************************************)
LEMMA NoteBound ==
  ASSUME NEW a \in Seq(Blocks), NEW m PROVE NoteCount(a, m) <= Len(a)
<1>1. Len(a) \in Nat
  BY LenProperties
<1>2. IsFiniteSet(1..Len(a)) /\ Cardinality(1..Len(a)) = Len(a)
  BY <1>1, FS_Interval
<1>3. At(a, "note", m) \subseteq 1..Len(a)
  BY DEF At
<1>4. Cardinality(At(a, "note", m)) <= Cardinality(1..Len(a))
  BY <1>2, <1>3, FS_Subset
<1> QED
  BY <1>2, <1>4, AtFinite DEF NoteCount

\* Rows of the checkpoint pass are right at the floor before its cursor is saved.
LEMMA CkptRegisterKeeps == ASSUME DiscInv, CkptRegister PROVE DiscInv'
<1>1. /\ step = "ckptRegister" /\ step' = "ckptSave" /\ Own
      /\ UNCHANGED <<ownerGen, live, ckpt, ckptAt, mem>>
      /\ Register(mem.floor, "ckptSave")
  BY DEF CkptRegister, Register
<1>2. /\ DiscoveryType /\ CkptInv /\ GenInv /\ PassInv /\ FoundInv /\ blocks \in Seq(Blocks)
      /\ mem.floor \in Nat /\ mem.head \in Nat /\ ckpt \in Nat \cup {None} /\ ~sdk
      /\ mem.floor <= mem.head /\ ckpt <= NoteCount(blocks, mem.floor)
      /\ mem.cursor = NoteCount(blocks, mem.floor) /\ Settled(ckpt) /\ Floor = mem.floor
  BY <1>1 DEF DiscInv, DiscoveryType, CkptInv, Floor
<1>3. PICK l, h : l = mem.floor /\ h = mem.head
  OBVIOUS
<1>4. l \in Nat /\ h \in Nat /\ l <= h /\ Register(l, "ckptSave")
  BY <1>1, <1>2, <1>3
<1>5. /\ notes' \in [Indices -> [at : SUBSET Positions, spent : BOOLEAN]]
      /\ \A i \in Known' :
           \/ \E f \in mem.found : f.i = i /\ notes'[i].at = f.at
           \/ i \in Known /\ ~Returned(i) /\ notes'[i] = notes[i]
           \/ /\ i <= mem.cursor /\ notes'[i].at = NoteAt(blocks, i, l)
              /\ i <= NoteCount(blocks, l)
  BY <1>1, <1>4, RegisterFacts
<1>6. /\ ChainInv' /\ SdkInv'
      /\ UNCHANGED <<feed, feedFloor, era, blocks, floor, generation, sdk, cp, cache, fresh>>
  BY <1>1, OwnKeeps
<1>7. DiscoveryType'
  BY <1>1, <1>2, <1>5, <1>6 DEF DiscoveryType, Steps
<1>8. \A i \in Known' : i \in Nat /\ 0 < i
  <2>1. MaxLen \in Nat
    BY DiscoveryAssumption
  <2> QED
    BY <2>1 DEF Known, Indices
<1>9. /\ NoteCount(blocks, l) \in Nat /\ NoteCount(blocks, h) \in Nat
      /\ NoteCount(blocks, l) <= NoteCount(blocks, h)
      /\ \A i \in 1..NoteCount(blocks, l) : NoteAt(blocks, i, h) = NoteAt(blocks, i, l)
  BY <1>2, <1>4, CarriesSelf, Carry
<1>10. /\ \A f \in mem.found :
            /\ f.i <= NoteCount(blocks, l) /\ f.at = NoteAt(blocks, f.i, l)
            /\ mem.gen = generation => f.i <= NoteCount(blocks, h) /\ f.at = NoteAt(blocks, f.i, h)
       /\ \A i \in Known : ckpt < i /\ i <= mem.cursor => Spent(blocks, i, l) \/ Returned(i)
  BY <1>1, <1>2, <1>3 DEF FoundInv
<1>11. \A i \in Known' : i <= mem.cursor =>
         notes'[i].at = NoteAt(blocks, i, l) \/ Spent(blocks, i, l)
  <2> SUFFICES ASSUME NEW i \in Known', i <= mem.cursor, ~Spent(blocks, i, l)
               PROVE  notes'[i].at = NoteAt(blocks, i, l)
    OBVIOUS
  <2>1. CASE \E f \in mem.found : f.i = i /\ notes'[i].at = f.at
    BY <1>10, <2>1
  <2>2. CASE i \in Known /\ ~Returned(i) /\ notes'[i] = notes[i]
    <3>1. ~(ckpt < i) /\ i \in Nat
      BY <1>8, <1>10, <2>2
    <3>2. i <= ckpt
      BY <1>2, <3>1 DEF None
    <3>3. notes[i].at = NoteAt(blocks, i, l)
      BY <1>2, <1>3, <2>2, <3>2 DEF Settled, Right
    <3> QED
      BY <2>2, <3>3
  <2> QED
    BY <1>5, <2>1, <2>2
<1>12. CkptInv'
  <2>1. \A i \in Known' : i <= ckpt => i <= mem.cursor
    BY <1>2, <1>3, <1>8, <1>9 DEF None
  <2>2. Settled(mem.cursor)' /\ Settled(ckpt)'
    BY <1>1, <1>3, <1>6, <1>11, <2>1 DEF Settled, Floor, Right
  <2>3. Floor' = mem.floor
    BY <1>1 DEF Floor
  <2> QED
    BY <1>1, <1>2, <1>6, <2>2, <2>3 DEF CkptInv
<1>13. FoundInv' /\ RestInv'
  BY <1>1 DEF FoundInv, RestInv
<1>14. GenInv'
  BY <1>1, <1>2, <1>6 DEF GenInv
<1>15. PassInv'
  <2> SUFFICES ASSUME mem.gen = generation PROVE PassInv'
    BY <1>1, <1>6 DEF PassInv
  <2>1. step \in Passing
    BY <1>1 DEF Passing, Steps
  <2>2. Sound(h) /\ (ownerGen = mem.gen => Marked(h)) /\ (ownerGen # mem.gen => live = None)
    BY <1>1, <1>2, <1>3, <2>1 DEF PassInv
  <2>3. ASSUME NEW i \in Known'
        PROVE  /\ i <= NoteCount(blocks, h)
               /\ \/ notes'[i].at = NoteAt(blocks, i, h)
                  \/ i \in Known /\ notes'[i] = notes[i]
    <3>1. CASE \E f \in mem.found : f.i = i /\ notes'[i].at = f.at
      BY <1>10, <3>1
    <3>2. CASE i \in Known /\ ~Returned(i) /\ notes'[i] = notes[i]
      BY <2>2, <3>2 DEF Sound
    <3>3. CASE notes'[i].at = NoteAt(blocks, i, l) /\ i <= NoteCount(blocks, l)
      <4>1. i \in 1..NoteCount(blocks, l) /\ i <= NoteCount(blocks, h)
        BY <1>8, <1>9, <3>3
      <4> QED
        BY <1>9, <3>3, <4>1
    <3> QED
      BY <1>5, <3>1, <3>2, <3>3
  <2>4. Sound(mem.head)'
    BY <1>1, <1>3, <1>6, <2>2, <2>3 DEF Sound
  <2>5. ownerGen = mem.gen => Marked(mem.head)'
    BY <1>1, <1>3, <1>6, <2>2, <2>3 DEF Marked, Right
  <2> QED
    BY <1>1, <1>6, <2>2, <2>4, <2>5 DEF PassInv
<1> QED
  BY <1>6, <1>7, <1>12, <1>13, <1>14, <1>15 DEF DiscInv

\* Rows of the live pass are right at the head, and none is missing.
LEMMA LiveRegisterKeeps == ASSUME DiscInv, LiveRegister PROVE DiscInv'
<1>1. /\ step = "liveRegister" /\ step' = "liveSave" /\ Own
      /\ UNCHANGED <<ownerGen, live, ckpt, ckptAt, mem>>
      /\ Register(mem.head, "liveSave")
  BY DEF LiveRegister, Register
<1>2. /\ DiscoveryType /\ CkptInv /\ GenInv /\ PassInv /\ FoundInv /\ blocks \in Seq(Blocks)
      /\ mem.floor \in Nat /\ mem.head \in Nat /\ ckpt \in Nat \cup {None}
      /\ mem.floor <= mem.head /\ ckpt <= NoteCount(blocks, mem.floor)
      /\ Settled(ckpt) /\ Floor = mem.floor /\ MaxLen \in Nat /\ Len(blocks) <= MaxLen
  BY <1>1, DiscoveryAssumption DEF DiscInv, DiscoveryType, CkptInv, Floor
<1>3. PICK l, h : l = mem.floor /\ h = mem.head
  OBVIOUS
<1>4. l \in Nat /\ h \in Nat /\ l <= h /\ Register(h, "liveSave")
  BY <1>1, <1>2, <1>3
<1>5. /\ notes' \in [Indices -> [at : SUBSET Positions, spent : BOOLEAN]]
      /\ \A i \in Known' :
           \/ \E f \in mem.found : f.i = i /\ notes'[i].at = f.at
           \/ i \in Known /\ ~Returned(i) /\ notes'[i] = notes[i]
           \/ /\ i <= mem.cursor /\ notes'[i].at = NoteAt(blocks, i, h)
              /\ i <= NoteCount(blocks, h)
      /\ \A i \in Indices : i <= mem.cursor /\ i <= NoteCount(blocks, h) => i \in Known'
  BY <1>1, <1>4, RegisterFacts
<1>6. /\ ChainInv' /\ SdkInv'
      /\ UNCHANGED <<feed, feedFloor, era, blocks, floor, generation, sdk, cp, cache, fresh>>
  BY <1>1, OwnKeeps
<1>7. DiscoveryType'
  BY <1>1, <1>2, <1>5, <1>6 DEF DiscoveryType, Steps
<1>8. \A i \in Known' : i \in Nat /\ 0 < i
  BY <1>2 DEF Known, Indices
<1>9. /\ NoteCount(blocks, l) \in Nat /\ NoteCount(blocks, h) \in Nat
      /\ NoteCount(blocks, l) <= NoteCount(blocks, h)
      /\ \A i \in 1..NoteCount(blocks, l) : NoteAt(blocks, i, h) = NoteAt(blocks, i, l)
  BY <1>2, <1>4, CarriesSelf, Carry
<1>10. \A f \in mem.found :
         /\ f.i <= NoteCount(blocks, l) => f.at = NoteAt(blocks, f.i, l)
         /\ mem.gen = generation => f.i <= NoteCount(blocks, h) /\ f.at = NoteAt(blocks, f.i, h)
  BY <1>1, <1>2, <1>3 DEF FoundInv
<1>11. CkptInv'
  <2>1. ASSUME NEW i \in Known', i <= ckpt
        PROVE  notes'[i].at = NoteAt(blocks, i, l) \/ Spent(blocks, i, l)
    <3>1. i \in 1..NoteCount(blocks, l) /\ i <= NoteCount(blocks, l)
      BY <1>2, <1>3, <1>8, <1>9, <2>1 DEF None
    <3>2. CASE \E f \in mem.found : f.i = i /\ notes'[i].at = f.at
      BY <1>10, <3>1, <3>2
    <3>3. CASE i \in Known /\ ~Returned(i) /\ notes'[i] = notes[i]
      BY <1>2, <1>3, <2>1, <3>3 DEF Settled, Right
    <3>4. CASE notes'[i].at = NoteAt(blocks, i, h)
      BY <1>9, <3>1, <3>4
    <3> QED
      BY <1>5, <3>2, <3>3, <3>4
  <2>2. Settled(ckpt)'
    BY <1>1, <1>3, <1>6, <2>1 DEF Settled, Floor, Right
  <2>3. Floor' = mem.floor
    BY <1>1 DEF Floor
  <2> QED
    BY <1>1, <1>2, <1>6, <2>2, <2>3 DEF CkptInv
<1>12. FoundInv' /\ RestInv'
  BY <1>1 DEF FoundInv, RestInv
<1>13. GenInv'
  BY <1>1, <1>2, <1>6 DEF GenInv
<1>14. PassInv'
  <2> SUFFICES ASSUME mem.gen = generation PROVE PassInv'
    BY <1>1, <1>6 DEF PassInv
  <2>1. step \in Passing
    BY <1>1 DEF Passing, Steps
  <2>2. /\ Sound(h) /\ (ownerGen = mem.gen => Marked(h)) /\ (ownerGen # mem.gen => live = None)
        /\ mem.cursor <= NoteCount(blocks, h)
        /\ fresh => mem.cursor = NoteCount(blocks, h)
    BY <1>1, <1>2, <1>3, <2>1 DEF PassInv
  <2>3. ownerGen # mem.gen =>
          \A i \in Known : Right(i, h) \/ Spent(blocks, i, h) \/ Returned(i)
    BY <1>1, <1>2, <1>3 DEF FoundInv
  <2>4. ASSUME NEW i \in Known'
        PROVE  /\ i <= NoteCount(blocks, h)
               /\ \/ notes'[i].at = NoteAt(blocks, i, h)
                  \/ i \in Known /\ ~Returned(i) /\ notes'[i] = notes[i]
    <3>1. CASE \E f \in mem.found : f.i = i /\ notes'[i].at = f.at
      BY <1>10, <3>1
    <3>2. CASE i \in Known /\ ~Returned(i) /\ notes'[i] = notes[i]
      BY <2>2, <3>2 DEF Sound
    <3> QED
      BY <1>5, <3>1, <3>2
  <2>5. Sound(mem.head)'
    BY <1>1, <1>3, <1>6, <2>2, <2>4 DEF Sound
  <2>6. ownerGen = mem.gen => Marked(mem.head)'
    BY <1>1, <1>3, <1>6, <2>2, <2>4 DEF Marked, Right
  <2>7. ownerGen # mem.gen => \A i \in Known' : Right(i, mem.head)' \/ Spent(blocks', i, mem'.head)
    BY <1>1, <1>3, <1>6, <2>3, <2>4 DEF Right
  <2>8. fresh => \A i \in 1..NoteCount(blocks, h) : i \in Known'
    <3>1. NoteCount(blocks, h) <= Len(blocks) /\ Len(blocks) \in Nat
      BY <1>2, NoteBound, LenProperties
    <3>2. \A i \in 1..NoteCount(blocks, h) : i \in Indices /\ i <= NoteCount(blocks, h)
      BY <1>2, <1>9, <3>1 DEF Indices
    <3> QED
      BY <1>5, <2>2, <3>2
  <2> QED
    BY <1>1, <1>3, <1>6, <2>2, <2>5, <2>6, <2>7, <2>8 DEF PassInv
<1> QED
  BY <1>6, <1>7, <1>11, <1>12, <1>13, <1>14 DEF DiscInv
-----------------------------------------------------------------------------
(***************************************************************************)
(* The invariant holds at the start, and every step keeps it.              *)
(***************************************************************************)
LEMMA InitDisc == Init => DiscInv
<1> SUFFICES ASSUME Init PROVE DiscInv
  OBVIOUS
<1>1. /\ feed = <<>> /\ feedFloor = 0 /\ era = 1 /\ blocks = <<>> /\ floor = 0 /\ generation = 0
      /\ ownerGen = 0 /\ live = None /\ ckpt = None
      /\ notes = [i \in Indices |-> NoNote] /\ sdk \in BOOLEAN /\ cp = 0
      /\ cache = [stamp |-> <<>>, block |-> 0, notes |-> <<>>] /\ step = "idle"
      /\ mem = [head |-> 0, floor |-> 0, gen |-> 0, cursor |-> 0, found |-> {}] /\ fresh = FALSE
  BY DEF Init, NoCache, Idle
<1>2. MaxLen \in Nat
  BY DiscoveryAssumption
<1>3. <<>> \in Seq(Blocks) /\ Len(<<>>) = 0
  OBVIOUS
<1>4. NoNote \in [at : SUBSET Positions, spent : BOOLEAN] /\ NoNote.at = {}
  BY DEF NoNote
<1>5. Known = {}
  BY <1>1, <1>4 DEF Known
<1>6. \A m : NoteCount(blocks, m) \in Nat
  BY <1>1, <1>3, AtFinite DEF NoteCount
<1>7. \A m : None <= NoteCount(blocks, m)
  BY <1>6 DEF None
<1>8. DiscoveryType
  <2>1. notes \in [Indices -> [at : SUBSET Positions, spent : BOOLEAN]]
    BY <1>1, <1>4
  <2>2. mem \in [head : Nat, floor : Nat, gen : Nat, cursor : Nat,
                 found : SUBSET [i : Nat, at : SUBSET Positions]] /\ mem.head <= MaxLen
    BY <1>1, <1>2
  <2> QED
    BY <1>1, <1>2, <1>3, <2>1, <2>2 DEF DiscoveryType, Steps
<1>9. ChainInv
  BY <1>1, <1>3 DEF ChainInv, Agree
<1>10. CkptInv /\ FoundInv
  BY <1>1, <1>5, <1>7 DEF CkptInv, Settled, FoundInv
<1>11. GenInv /\ PassInv
  BY <1>1 DEF GenInv, PassInv, Passing
<1>12. RestInv
  BY <1>1, <1>5, <1>7 DEF RestInv, Sound, Marked
<1>13. SdkInv
  BY <1>1, <1>3 DEF SdkInv
<1> QED
  BY <1>8, <1>9, <1>10, <1>11, <1>12, <1>13 DEF DiscInv

LEMMA StutterKeeps == ASSUME DiscInv, UNCHANGED vars PROVE DiscInv'
<1>1. /\ UNCHANGED <<feed, feedFloor, era, blocks, floor, generation>>
      /\ UNCHANGED <<ownerGen, live, ckpt, ckptAt, notes, sdk, cp, cache>>
      /\ UNCHANGED <<step, mem, fresh>>
  BY DEF vars, feedVars, storeVars, ownerVars, sdkVars
<1>2. DiscoveryType' /\ ChainInv' /\ SdkInv'
  <2>1. DiscoveryType'
    BY <1>1 DEF DiscInv, DiscoveryType
  <2>2. ChainInv'
    BY <1>1 DEF DiscInv, ChainInv, Agree
  <2>3. SdkInv'
    BY <1>1 DEF DiscInv, SdkInv
  <2> QED
    BY <2>1, <2>2, <2>3
<1>3. UNCHANGED <<storeVars, ownerVars, sdkVars, step, mem, fresh>>
  BY DEF vars
<1>4. CkptInv' /\ FoundInv' /\ GenInv' /\ PassInv' /\ RestInv'
  BY <1>3, OwnerSame DEF DiscInv
<1> QED
  BY <1>2, <1>4 DEF DiscInv

\* Every step keeps the invariant.
LEMMA NextKeeps == ASSUME DiscInv, [Next]_vars PROVE DiscInv'
<1>1. CASE FeedStep \/ OtherApplies
  BY <1>1, FeedStepKeeps, OtherAppliesKeeps
<1>2. CASE SyncStart \/ SdkDiscover \/ \E n \in 1..MaxLen : SdkApply(n)
  BY <1>2, SyncStartKeeps, SdkDiscoverKeeps, SdkApplyKeeps
<1>3. CASE Rewind \/ Prune
  BY <1>3, RewindKeeps, PruneKeeps
<1>4. CASE CkptRun \/ CkptSkip \/ CkptRegister \/ CkptSave \/ CkptAtSave
  BY <1>4, CkptRunKeeps, CkptSkipKeeps, CkptRegisterKeeps, CkptSaveKeeps, CkptAtSaveKeeps
<1>5. CASE LiveRun \/ LiveRegister \/ LiveSave
  BY <1>5, LiveRunKeeps, LiveRegisterKeeps, LiveSaveKeeps
<1>6. CASE RefreshSpent \/ SaveGen \/ SyncEnds \/ SdkReport
  BY <1>6, RefreshSpentKeeps, SaveGenKeeps, SyncEndsKeeps, SdkReportKeeps
<1>7. CASE UNCHANGED vars
  BY <1>7, StutterKeeps
<1> QED
  BY <1>1, <1>2, <1>3, <1>4, <1>5, <1>6, <1>7 DEF Next, SyncStep

\* The inductive invariant holds in every reachable state.
LEMMA DiscInvariant == Spec => []DiscInv
<1>1. Init => DiscInv
  BY InitDisc
<1>2. DiscInv /\ [Next]_vars => DiscInv'
  BY NextKeeps
<1> QED
  BY <1>1, <1>2, PTL DEF Spec

(***************************************************************************)
(* For every MaxLen, MaxEra, MaxSyncs and Kinds: at the report of a sync   *)
(* that had the store to itself, the registry has exactly the notes of the *)
(* mirror at the head, the chain's spent flags, and for every unspent note *)
(* the block of the present branch that wrote it (sync.rs, sync_once and   *)
(* discover_state). Earlier syncs may have died at any step and other      *)
(* processes may have replaced the tail under them.                        *)
(***************************************************************************)
THEOREM ReportsAreExact == Spec => []BalancesExact
<1>1. DiscInv => BalancesExact
  <2> SUFFICES ASSUME DiscInv, step = "report", fresh
               PROVE  /\ Known = 1..NoteCount(blocks, mem.head)
                      /\ \A i \in Known :
                           /\ notes[i].spent = Spent(blocks, i, mem.head)
                           /\ ~notes[i].spent => notes[i].at = NoteAt(blocks, i, mem.head)
    BY DEF BalancesExact
  <2>1. /\ Known = 1..NoteCount(blocks, mem.head) /\ Marked(mem.head)
        /\ \A i \in Known : notes[i].spent = Spent(blocks, i, mem.head)
    BY ExactReport
  <2>2. \A i \in Known : ~notes[i].spent => notes[i].at = NoteAt(blocks, i, mem.head)
    BY <2>1 DEF Marked, Right
  <2> QED
    BY <2>1, <2>2
<1> QED
  BY <1>1, DiscInvariant, PTL

(***************************************************************************)
(* For every value of the constants: between syncs, an owner on record     *)
(* under the store's generation has cursors and unspent notes of the       *)
(* store's present rows, whichever process took in the replacement of the  *)
(* tail and wherever this one died (sync.rs, gen_<owner> against           *)
(* tail_generation).                                                       *)
(***************************************************************************)
THEOREM CursorsAreOfTheGeneration == Spec => []CursorsMatchGeneration
<1>1. DiscInv => CursorsMatchGeneration
  <2> SUFFICES ASSUME DiscInv, step = "idle", ownerGen = generation
               PROVE  /\ live <= NoteCount(blocks, MaxLen) /\ ckpt <= NoteCount(blocks, MaxLen)
                      /\ \A i \in Known : ~notes[i].spent => notes[i].at = NoteAt(blocks, i, MaxLen)
    BY DEF CursorsMatchGeneration
  <2>1. /\ DiscoveryType /\ ChainInv /\ CkptInv /\ RestInv /\ SdkInv /\ blocks \in Seq(Blocks)
        /\ live \in Nat \cup {None} /\ ckpt \in Nat \cup {None}
        /\ MaxLen \in Nat /\ floor \in Nat /\ Len(blocks) \in Nat /\ Len(blocks) <= MaxLen
    BY DiscoveryAssumption, LenProperties DEF DiscInv, DiscoveryType
  <2>2. PICK b : b = RestBound
    OBVIOUS
  <2>3. Sound(b) /\ Marked(b) /\ b \in Nat
    BY <2>1, <2>2 DEF RestInv, RestBound, SdkInv
  <2>4. floor <= MaxLen
    BY <2>1 DEF ChainInv, Agree
  <2>5. /\ NoteCount(blocks, floor) \in Nat /\ NoteCount(blocks, MaxLen) \in Nat
        /\ NoteCount(blocks, floor) <= NoteCount(blocks, MaxLen)
    BY <2>1, <2>4, CarriesSelf, Carry
  <2>6. ckpt <= NoteCount(blocks, floor)
    BY <2>1 DEF CkptInv, Floor
  <2>7. /\ NoteCount(blocks, b) \in Nat /\ NoteCount(blocks, b) <= NoteCount(blocks, MaxLen)
        /\ \A i \in 1..NoteCount(blocks, b) : NoteAt(blocks, i, MaxLen) = NoteAt(blocks, i, b)
    <3>1. CASE b <= MaxLen
      BY <2>1, <2>3, <3>1, CarriesSelf, Carry
    <3>2. CASE ~(b <= MaxLen)
      <4>1. Len(blocks) <= b
        BY <2>1, <2>3, <3>2
      <4>2. NoteCount(blocks, b) = NoteCount(blocks, MaxLen)
            /\ \A i : NoteAt(blocks, i, b) = NoteAt(blocks, i, MaxLen)
        BY <2>1, <2>3, <4>1, Whole DEF NoteCount
      <4> QED
        BY <2>5, <4>2
    <3> QED
      BY <3>1, <3>2
  <2>8. live <= NoteCount(blocks, MaxLen)
    BY <2>1, <2>3, <2>5, <2>7 DEF Sound, None
  <2>9. ckpt <= NoteCount(blocks, MaxLen)
    BY <2>1, <2>5, <2>6 DEF None
  <2>10. ASSUME NEW i \in Known, ~notes[i].spent PROVE notes[i].at = NoteAt(blocks, i, MaxLen)
    <3>1. i \in Nat /\ i # 0 /\ i <= NoteCount(blocks, b) /\ notes[i].at = NoteAt(blocks, i, b)
      BY <2>1, <2>3, <2>10, NoteIndex DEF Sound, Marked, Right
    <3>2. i \in 1..NoteCount(blocks, b)
      BY <2>7, <3>1
    <3> QED
      BY <2>7, <3>1, <3>2
  <2> QED
    BY <2>8, <2>9, <2>10
<1> QED
  BY <1>1, DiscInvariant, PTL

(***************************************************************************)
(* For every value of the constants: a report answered from the cache      *)
(* lists exactly the notes, values and spent flags of the store at the     *)
(* verified checkpoint (sdk.rs, discover and its stamp), after any         *)
(* replacement of the tail and any move of the checkpoint, up or down,     *)
(* since it was written.                                                   *)
(***************************************************************************)
THEOREM CachedReportsAreFresh == Spec => []ReportFresh
<1>1. DiscInv => ReportFresh
  <2> SUFFICES ASSUME DiscInv, cp > 0, cache.stamp = Stamp
               PROVE  cache.notes = Report(blocks, cp)
    BY DEF ReportFresh, Report
  <2>1. SdkInv /\ cp \in Nat /\ cp <= Len(blocks)
    BY DEF DiscInv, DiscoveryType, SdkInv
  <2>2. PICK c, e : c = cp /\ e = blocks[cp].era
    OBVIOUS
  <2>3. cache.stamp = <<c, e, generation>>
    BY <2>2 DEF Stamp
  <2>4. cache.stamp # <<>> /\ cache.stamp[1] = c /\ cache.stamp[2] = e
    BY <2>3
  <2>5. c <= Len(blocks) /\ blocks[c].era = e => cache.notes = Report(blocks, c)
    BY <2>1, <2>4 DEF SdkInv
  <2> QED
    BY <2>1, <2>2, <2>5
<1> QED
  BY <1>1, DiscInvariant, PTL
=============================================================================
