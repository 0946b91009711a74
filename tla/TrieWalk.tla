------------------------------ MODULE TrieWalk ------------------------------
(***************************************************************************)
(* The structural walk of recovery (indexerd/src/trie_walk.rs): it names   *)
(* the slots the chain's trie holds and the mirror does not, asking for    *)
(* proofs only where the two hashes differ, and then the blocks that wrote *)
(* them.  The history of the slots is the rows of a store of Stores.       *)
(***************************************************************************)
EXTENDS Stores

(***************************************************************************)
(* mpt: the mirror's entries under a prefix, and their hash.               *)
(***************************************************************************)
HasPrefix(key, prefix) == Path(key, 0, Len(prefix)) = prefix
EntriesWithPrefix(entries, prefix) ==
  RestrictDomain(entries, LAMBDA key : HasPrefix(key, prefix))
SubtreeHashAt(entries, prefix) ==
  LET top == Subtree(EntriesWithPrefix(entries, prefix), Len(prefix))
  IN  IF top = {} THEN Zero ELSE Resolve(CHOOSE n \in top : TRUE)

(***************************************************************************)
(* The answer to a proof request: the nodes from the root to the key.      *)
(***************************************************************************)
RECURSIVE PathNodes(_, _, _)
PathNodes(n, key, start) ==
  LET edge == IF start = n.depth THEN {} ELSE {EdgeNode(n, start)} IN
  IF IsLeaf(n) \/ Path(key, start, n.depth) # Path(n.key, start, n.depth) THEN edge
  ELSE edge \cup {BinaryNode(n)}
            \cup PathNodes(IF Bit(key, n.depth) = 1 THEN n.right ELSE n.left, key, n.depth + 1)
StorageProof(entries, keys) ==
  IF DOMAIN entries = {} THEN {}
  ELSE UNION {PathNodes(Build(entries, 0), key, 0) : key \in keys}
-----------------------------------------------------------------------------
(***************************************************************************)
(* SlotDiff, and the subtrees no node seen so far explains.                *)
(***************************************************************************)
NoDiff == [missing |-> {}, divergent |-> {}, extra |-> {}, unexplained |-> {}]
Merge(a, b) == [field \in DOMAIN NoDiff |-> a[field] \cup b[field]]
\* Mutant: a subtree the mirror holds anything of is not descended into.
PrunedHeld(local, hash) == local # Zero
Pruned(local, hash) == local = hash
RECURSIVE Descend(_, _, _, _)
Descend(prefix, hash, mirror, nodes) ==
  LET local == SubtreeHashAt(mirror, prefix)
      known == {n \in nodes : n.hash = hash}
      node == CHOOSE n \in known : TRUE
      key == CHOOSE k \in 0..(2^Height - 1) : HasPrefix(k, prefix)
  IN  IF Pruned(local, hash) THEN NoDiff
      ELSE IF hash = Zero
      THEN [NoDiff EXCEPT !.extra = DOMAIN EntriesWithPrefix(mirror, prefix)]
      ELSE IF Len(prefix) = Height
      THEN IF local = Zero THEN [NoDiff EXCEPT !.missing = {key}]
           ELSE [NoDiff EXCEPT !.divergent = {key}]
      ELSE IF known = {} THEN [NoDiff EXCEPT !.unexplained = {[prefix |-> prefix, hash |-> hash]}]
      ELSE IF node.kind = "edge" THEN Descend(prefix \o node.path, node.child, mirror, nodes)
      ELSE Merge(Descend(Append(prefix, 0), node.left, mirror, nodes),
                 Descend(Append(prefix, 1), node.right, mirror, nodes))

(***************************************************************************)
(* One crafted key per unexplained subtree: its prefix, zero-padded.  The  *)
(* requests of a round may be answered from another block's trie than the  *)
(* one the walk was seeded with; a round that teaches nothing is an error. *)
(***************************************************************************)
CraftedKey(prefix) ==
  CHOOSE k \in 0..(2^Height - 1) :
    Path(k, 0, Height) = prefix \o [i \in 1..(Height - Len(prefix)) |-> 0]
WalkError == [NoDiff EXCEPT !.unexplained = {"stalled"}]
RECURSIVE Round(_, _, _, _, _)
Round(frontier, diff, mirror, answering, nodes) ==
  LET visit(d, item) == Merge(d, Descend(item.prefix, item.hash, mirror, nodes))
      seen == FoldSet(LAMBDA item, d : visit(d, item), diff, frontier)
      learned == nodes \cup StorageProof(answering, {CraftedKey(u.prefix) : u \in seen.unexplained})
  IN  IF seen.unexplained = {} THEN seen
      ELSE IF learned = nodes THEN WalkError
      ELSE Round(seen.unexplained, [seen EXCEPT !.unexplained = {}], mirror, answering, learned)
EnumerateMissingSlots(mirror, root, answering) ==
  IF root = StorageRoot(mirror) THEN NoDiff
  ELSE Round({[prefix |-> <<>>, hash |-> root]}, NoDiff, mirror, answering, {})
-----------------------------------------------------------------------------
(***************************************************************************)
(* attribute_to_blocks: bisect a slot to a block where it turns nonzero,   *)
(* then let that block's state update claim every missing slot it wrote.   *)
(***************************************************************************)
RECURSIVE Bisect(_, _, _, _)
Bisect(history, slot, lo, hi) ==
  LET mid == lo + (hi - lo) \div 2 IN
  IF lo + 1 >= hi THEN hi
  ELSE IF SqlReadSlot(history, slot, mid).value = 0 THEN Bisect(history, slot, mid, hi)
  ELSE Bisect(history, slot, lo, mid)
Claimed(history, pending, block) ==
  {r.slot : r \in {r \in history.storage : r.block = block}} \cap pending
Attribute(history, slots, to) ==
  LET claim(acc, slot) ==
        LET block == Bisect(history, slot, 0, to)
            claimed == Claimed(history, acc.pending, block)
        IN  IF slot \notin acc.pending \/ acc.failed THEN acc
            ELSE [pending |-> acc.pending \ claimed, blocks |-> acc.blocks \cup {block},
                  failed |-> claimed = {}]
  IN  FoldLeft(claim, [pending |-> slots, blocks |-> {}, failed |-> FALSE], Ascending(slots))

(***************************************************************************)
(* The command enumerate-slots --attribute: the walk against the root the  *)
(* chain has now, and the blocks to rescan for what it found missing.      *)
(***************************************************************************)
EnumerateSlots(history, mirror, answering) ==
  LET diff  == EnumerateMissingSlots(mirror, StorageRoot(SqlSlotSet(history, MaxBlock)), answering)
  IN  [diff |-> diff, attributed |-> Attribute(history, diff.missing, MaxBlock)]
-----------------------------------------------------------------------------
(***************************************************************************)
(* What is exact about a diff, and what the attributed blocks supply.      *)
(***************************************************************************)
ExactDiff(diff, chainAt) ==
  LET shared == DOMAIN chainAt \cap DOMAIN rooted
  IN  /\ diff.missing = DOMAIN chainAt \ DOMAIN rooted /\ diff.unexplained = {}
      /\ diff.divergent = {k \in shared : chainAt[k] # rooted[k]}
      /\ diff.extra \subseteq DOMAIN rooted \ DOMAIN chainAt
Supplied(found, chainAt) ==
  \A k \in DOMAIN chainAt \ DOMAIN rooted : \E r \in sql.storage :
    r.slot = k /\ r.value = chainAt[k] /\ r.block \in found.blocks
WrittenOnce == \A r, q \in sql.storage : r.value # 0 /\ (r.slot = q.slot => r = q)

(***************************************************************************)
(* "Enumerate every pool slot the chain's trie holds that this mirror does *)
(* not, by structure alone" (trie_walk.rs): whatever the mirror holds, the *)
(* walk seeded with a root ends with exactly the slots that are missing    *)
(* and the ones that differ, or, when later answers come from another      *)
(* block's trie, with the same or an error; and where slots are written    *)
(* once, re-ingesting the blocks they are attributed to supplies every one *)
(* of them.                                                                *)
(***************************************************************************)
WalkNamesHoles ==
  \A now \in {SqlSlotSet(sql, MaxBlock)}, before \in {SqlSlotSet(sql, MaxBlock - 1)} :
    /\ \A report \in {EnumerateSlots(sql, rooted, now)} :
         /\ ExactDiff(report.diff, now)
         /\ ~report.attributed.failed /\ report.attributed.pending = {}
         /\ WrittenOnce => Supplied(report.attributed, now)
    /\ before # now =>
         \A moved \in {EnumerateSlots(sql, rooted, before).diff} :
           moved = WalkError \/ ExactDiff(moved, now)
=============================================================================
