------------------------------- MODULE Stores -------------------------------
(***************************************************************************)
(* The two stores behind ConsumerStore (consumer/src/store.rs), driven by  *)
(* the same calls: the browser's MemStore (consumer/src/mem.rs), which     *)
(* clears lazily, hashes through a cached tree and survives only as an     *)
(* exported cache, and the client's SQLite store (client/src/store.rs).    *)
(* The seam is real when no caller can tell them apart.                    *)
(***************************************************************************)
EXTENDS Trie

CONSTANTS
  Slots,      \* storage slots of the pool: keys of Height bits
  MaxValue,   \* bound: values a slot is written with, 0 included
  MaxBlock,   \* bound: heights of the blocks applied
  MaxGen      \* bound: tail generations

VARIABLES
  mem,        \* Inner without its tree
  trie,       \* Inner.trie
  sql,        \* the tables of FeedStore
  rooted      \* history: the slot set storage_root_at hashed last

vars == <<mem, trie, sql, rooted>>

Blocks == 1..MaxBlock
Values == 0..MaxValue

ASSUME StoresAssumption ==
  /\ Height \in Nat \ {0} /\ Slots \subseteq 0..(2^Height - 1)
  /\ MaxValue \in Nat \ {0} /\ MaxBlock \in Nat \ {0} /\ MaxGen \in Nat

(***************************************************************************)
(* A block line carries its number, one storage diff and one event; its    *)
(* hash is the line itself.  The rows of storage are keyed by slot and     *)
(* block.                                                                  *)
(***************************************************************************)
BlockLine == [number : Blocks, slot : Slots, value : Values]
RowOf(line) == [slot |-> line.slot, block |-> line.number, value |-> line.value]
Upsert(rows, new) ==
  {r \in rows : ~\E n \in new : n.slot = r.slot /\ n.block = r.block} \cup new
Newest(set) == IF set = {} THEN 0 ELSE Max(set)

(***************************************************************************)
(* Metadata: last_epoch_to with last_epoch_applied, snapshot_basis with    *)
(* history_floor, the block after it, and tail_generation.  None stands    *)
(* for absent keys.                                                        *)
(***************************************************************************)
None == -1
NoMeta == [epochTo |-> None, basis |-> None, gen |-> 0]
HistoryFloor(s) == IF s.meta.basis = None THEN 0 ELSE s.meta.basis + 1

Init ==
  /\ mem = [blocks |-> {}, storage |-> {}, maxBlock |-> 0, events |-> {}, meta |-> NoMeta]
  /\ sql = [blocks |-> {}, storage |-> {}, events |-> {}, meta |-> NoMeta]
  /\ trie = EmptyTrie
  /\ rooted = <<>>
-----------------------------------------------------------------------------
(***************************************************************************)
(* MemStore.  Storage is keyed slot first, so clearing by block is a scan, *)
(* skipped when no row can lie in the range.                               *)
(***************************************************************************)
Raised(maxBlock, rows) == Max({maxBlock} \cup {r.block : r \in rows})
MemClearRange(m, lo, hi) ==
  [m EXCEPT
    !.blocks = {l \in @ : l.number \notin lo..hi},
    !.events = {e \in @ : e.number \notin lo..hi},
    !.storage = IF lo <= m.maxBlock THEN {r \in @ : r.block \notin lo..hi} ELSE @]
MemApplyLines(m, lines) ==
  LET numbers == {l.number : l \in lines}
      rows == {RowOf(l) : l \in lines}
  IN  [m EXCEPT
        !.blocks = {l \in @ : l.number \notin numbers} \cup lines,
        !.events = {e \in @ : e.number \notin numbers} \cup lines,
        !.storage = Upsert(@, rows),
        !.maxBlock = Raised(@, rows)]
MemReplaceRange(m, lo, hi, lines, meta, bump) ==
  [MemApplyLines(MemClearRange(m, lo, hi), lines) EXCEPT
    !.meta = IF bump THEN [meta EXCEPT !.gen = @ + 1] ELSE meta]
MemInstallSnapshot(m, rows, meta) ==
  [m EXCEPT !.storage = Upsert(@, rows), !.maxBlock = Raised(@, rows), !.meta = meta]
MemIsEmpty(m) == m.meta.epochTo = None /\ m.blocks = {} /\ m.storage = {}
MemReset(m) ==
  [m EXCEPT !.blocks = {}, !.storage = {}, !.maxBlock = 0, !.events = {},
            !.meta = [NoMeta EXCEPT !.gen = m.meta.gen]]

(***************************************************************************)
(* Reads as of a bound: the last write of the slot at or below it.         *)
(***************************************************************************)
MemReadSlot(m, slot, bound) ==
  LET at == Newest({r.block : r \in {r \in m.storage : r.slot = slot /\ r.block <= bound}})
      found == {r \in m.storage : r.slot = slot /\ r.block = at}
  IN  IF found = {} THEN [value |-> 0, block |-> 0]
      ELSE [value |-> (CHOOSE r \in found : TRUE).value, block |-> at]
MemSlotSet(m, bound) ==
  LET value == [slot \in {r.slot : r \in m.storage} |-> MemReadSlot(m, slot, bound).value]
  IN  RestrictValues(value, LAMBDA v : v # 0)
MemBlockHashes(m, lo, hi) == {l \in m.blocks : l.number \in lo..hi}
MemEvents(m, from, bound) ==
  {e \in m.events : e.number \in from..bound /\ \E l \in m.blocks : l.number = e.number}

(***************************************************************************)
(* encode_cache, then decode_cache in a new process: the bound is found    *)
(* again from the rows.                                                    *)
(***************************************************************************)
\* Mutant: the bound starts over.
RestoredMaxZero(rows) == 0
RestoredMax(rows) == Newest({r.block : r \in rows})
MemRestore(m) == [m EXCEPT !.maxBlock = RestoredMax(m.storage)]
-----------------------------------------------------------------------------
(***************************************************************************)
(* FeedStore: every row of the range is deleted, then inserted or replaced *)
(* by its primary key, in one transaction.                                 *)
(***************************************************************************)
SqlDelete(s, lo, hi) ==
  [s EXCEPT !.blocks = {l \in @ : l.number \notin lo..hi},
            !.events = {e \in @ : e.number \notin lo..hi},
            !.storage = {r \in @ : r.block \notin lo..hi}]
SqlApplyLines(s, lines) ==
  LET numbers == {l.number : l \in lines}
  IN  [s EXCEPT !.blocks = {l \in @ : l.number \notin numbers} \cup lines,
                !.events = {e \in @ : e.number \notin numbers} \cup lines,
                !.storage = Upsert(@, {RowOf(l) : l \in lines})]
SqlReplaceRange(s, lo, hi, lines, meta, bump) ==
  [SqlApplyLines(SqlDelete(s, lo, hi), lines) EXCEPT
    !.meta = IF bump THEN [meta EXCEPT !.gen = @ + 1] ELSE meta]
SqlInstallSnapshot(s, rows, meta) == [s EXCEPT !.storage = Upsert(@, rows), !.meta = meta]
SqlIsEmpty(s) == s.meta.epochTo = None /\ Cardinality(s.blocks) + Cardinality(s.storage) = 0
SqlReset(s) ==
  [s EXCEPT !.blocks = {}, !.storage = {}, !.events = {},
            !.meta = [NoMeta EXCEPT !.gen = s.meta.gen]]
SqlReadSlot(s, slot, bound) ==
  LET rows == {r \in s.storage : r.slot = slot /\ r.block <= bound}
      last == {r \in rows : \A q \in rows : q.block <= r.block}
  IN  IF rows = {} THEN [value |-> 0, block |-> 0]
      ELSE LET r == CHOOSE r \in last : TRUE IN [value |-> r.value, block |-> r.block]
SqlSlotSet(s, bound) ==
  LET rows == {r \in s.storage :
                 r.block = Newest({q.block : q \in {q \in s.storage : q.slot = r.slot
                                                                      /\ q.block <= bound}})}
      held == {r \in rows : r.value # 0}
  IN  [slot \in {r.slot : r \in held} |-> (CHOOSE r \in held : r.slot = slot).value]
SqlBlockHashes(s, lo, hi) == {l \in s.blocks : lo <= l.number /\ l.number <= hi}
SqlEvents(s, from, bound) ==
  {e \in s.events : e.number \in from..bound /\ e.number \in {l.number : l \in s.blocks}}
-----------------------------------------------------------------------------
(***************************************************************************)
(* The calls feed application makes, on both stores.  An epoch is the      *)
(* block after the last one; a tail is at most one line above it.          *)
(***************************************************************************)
EpochTo(m) == Newest({m.meta.epochTo, 0})
AtMostOne(lines) == {{}} \cup {{l} : l \in lines}
\* Rows the new lines contradict were replaced while nobody looked.
Contradicts(stored, lines) == \E l \in stored : l \notin lines
Replace(lo, hi, lines, epochTo) ==
  LET memBump == Contradicts(MemBlockHashes(mem, lo, hi), lines)
      sqlBump == Contradicts(SqlBlockHashes(sql, lo, hi), lines)
  IN  /\ memBump => mem.meta.gen < MaxGen
      /\ mem' = MemReplaceRange(mem, lo, hi, lines, [mem.meta EXCEPT !.epochTo = epochTo], memBump)
      /\ sql' = SqlReplaceRange(sql, lo, hi, lines, [sql.meta EXCEPT !.epochTo = epochTo], sqlBump)
      /\ UNCHANGED <<trie, rooted>>
ApplyEpoch(lines) ==
  LET n == EpochTo(mem) + 1 IN
  /\ n \in Blocks
  /\ \A l \in lines : l.number = n
  /\ Replace(n, n, lines, n)
ApplyTail(lines) ==
  /\ \A l \in lines : l.number > EpochTo(mem)
  /\ Replace(EpochTo(mem) + 1, MaxBlock, lines, mem.meta.epochTo)

(***************************************************************************)
(* A snapshot goes into an empty store only: nonzero slots, each at the    *)
(* block that wrote it.                                                    *)
(***************************************************************************)
InstallSnapshot(basis, rows) ==
  /\ MemIsEmpty(mem)
  /\ \A r, q \in rows : r.block <= basis /\ (r.slot = q.slot => r = q)
  /\ LET meta == [mem.meta EXCEPT !.epochTo = basis, !.basis = basis]
     IN  /\ mem' = MemInstallSnapshot(mem, rows, meta)
         /\ sql' = SqlInstallSnapshot(sql, rows, meta)
  /\ UNCHANGED <<trie, rooted>>
SnapSlot == [slot : Slots, block : Blocks, value : Values \ {0}]

ResetMirror ==
  /\ mem' = MemReset(mem)
  /\ sql' = SqlReset(sql)
  /\ trie' = EmptyTrie
  /\ rooted' = <<>>

(***************************************************************************)
(* verify_state: the root at a checkpoint at or above the basis, whatever  *)
(* comes of the comparison.                                                *)
(***************************************************************************)
BoundAboveBasis(m, bound) == m.meta.basis = None \/ bound >= m.meta.basis
StorageRootAt(bound) ==
  /\ BoundAboveBasis(mem, bound)
  /\ trie' = UpdateTrie(trie, MemSlotSet(mem, bound))
  /\ rooted' = SqlSlotSet(sql, bound)
  /\ UNCHANGED <<mem, sql>>

Restore ==
  /\ mem' = MemRestore(mem)
  /\ trie' = RestoreTrie(trie)
  /\ UNCHANGED <<sql, rooted>>

Next ==
  \/ \E lines \in AtMostOne(BlockLine) : ApplyEpoch(lines) \/ ApplyTail(lines)
  \/ \E basis \in Blocks, a, b \in SnapSlot :
       a.slot <= b.slot /\ InstallSnapshot(basis, {a, b})
  \/ ResetMirror
  \/ \E bound \in Blocks : StorageRootAt(bound)
  \/ Restore
Spec == Init /\ [][Next]_vars
-----------------------------------------------------------------------------
(***************************************************************************)
(* "Behaviour is intentionally identical to the SQLite store" (mem.rs): no *)
(* read of a caller tells the two apart, after any sequence of epochs,     *)
(* tails, snapshots, resets and restarts from the cache.                   *)
(***************************************************************************)
StoresAgree ==
  /\ mem.meta = sql.meta
  /\ MemIsEmpty(mem) = SqlIsEmpty(sql)
  /\ \A lo, hi \in Blocks : MemBlockHashes(mem, lo, hi) = SqlBlockHashes(sql, lo, hi)
  /\ \A bound \in Blocks :
       BoundAboveBasis(mem, bound) =>
         /\ \A slot \in Slots : MemReadSlot(mem, slot, bound) = SqlReadSlot(sql, slot, bound)
         /\ MemSlotSet(mem, bound) = SqlSlotSet(sql, bound)
         /\ MemEvents(mem, HistoryFloor(mem), bound) = SqlEvents(sql, HistoryFloor(sql), bound)

(***************************************************************************)
(* "Full recomputation remains the independent oracle" (trie.rs): the root *)
(* of the cached tree, updated in place through tail replacements, deleted *)
(* and zeroed slots, older bounds and restarts from the cache, is the one  *)
(* storage_root computes from the slots.                                   *)
(***************************************************************************)
RootRecomputed == TrieRoot(trie) = StorageRoot(rooted)

(***************************************************************************)
(* "An incomplete proof proves nothing" (verify_storage_proof): against    *)
(* the root of the slots, the whole proof gives every key its value or its *)
(* absence, and one that lacks a node, or has one node's contents under    *)
(* another's hash, gives the same or an error, never a wrong answer.       *)
(***************************************************************************)
Proven(key) == IF key \in DOMAIN rooted THEN LeafHash(rooted[key]) ELSE NonMember
Damaged(nodes) ==
  {nodes \ {n} : n \in nodes}
  \cup {(nodes \ {n}) \cup {[m EXCEPT !.hash = n.hash]} : n, m \in nodes}
ProofsSound ==
  rooted = SqlSlotSet(sql, MaxBlock) =>
    LET nodes == UNION {ProofNodes(n, 0) : n \in trie.root}
        root == StorageRoot(rooted)
    IN  \A key \in 0..(2^Height - 1) :
          /\ VerifyStorageProof(root, nodes, key) = Proven(key)
          /\ \A damaged \in Damaged(nodes) :
               VerifyStorageProof(root, damaged, key) \in {Proven(key), ProofError}
=============================================================================
