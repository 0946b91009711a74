-------------------------------- MODULE Trie --------------------------------
(***************************************************************************)
(* The pool's storage trie: the full computation of its root (feed/src/    *)
(* mpt.rs) and the cached tree a browser updates in place (feed/src/       *)
(* trie.rs).  The Pedersen hash is a term of its arguments: two hashes are *)
(* equal when they hash the same tree.  An optional value is the set of    *)
(* its at most one member; a slot set is a function from keys to nonzero   *)
(* values.                                                                 *)
(***************************************************************************)
EXTENDS Integers, Sequences, FiniteSets, Functions, SequencesExt

CONSTANT Height   \* bits of a key: 251 in the code

Bit(key, depth) == (key \div 2^(Height - 1 - depth)) % 2
Path(key, from, to) == [i \in 1..(to - from) |-> Bit(key, from + i - 1)]

Zero == <<>>
LeafHash(value) == <<"value", value>>
BinaryHash(left, right) == <<"binary", left, right>>
\* The path keeps its length, which the code adds to the hash.
EdgeHash(child, path) == <<"edge", child, path>>
-----------------------------------------------------------------------------
(***************************************************************************)
(* mpt: a subtree as an edge, possibly empty, over a hash.                 *)
(***************************************************************************)
Resolve(n) == IF n.path = <<>> THEN n.bottom ELSE EdgeHash(n.bottom, n.path)
Longer(bit, n) == [n EXCEPT !.path = <<bit>> \o @]
RECURSIVE Subtree(_, _)
Subtree(entries, depth) ==
  IF DOMAIN entries = {} THEN {}
  ELSE IF Cardinality(DOMAIN entries) = 1
  THEN {[path |-> Path(key, depth, Height), bottom |-> LeafHash(entries[key])] :
          key \in DOMAIN entries}
  ELSE LET side(bit) == Subtree(RestrictDomain(entries, LAMBDA key : Bit(key, depth) = bit),
                                depth + 1)
           left == side(0)
           right == side(1)
       IN  IF left # {} /\ right # {}
           THEN {[path |-> <<>>, bottom |-> BinaryHash(Resolve(l), Resolve(r))] :
                   l \in left, r \in right}
           ELSE {Longer(0, l) : l \in left} \cup {Longer(1, r) : r \in right}
StorageRoot(entries) ==
  LET top == Subtree(entries, 0)
  IN  IF top = {} THEN Zero ELSE Resolve(CHOOSE n \in top : TRUE)
-----------------------------------------------------------------------------
(***************************************************************************)
(* trie: leaves and branches, each branch with its hash and the key of its *)
(* leftmost leaf.                                                          *)
(***************************************************************************)
Leaf(key, value) == [key |-> key, depth |-> Height, hash |-> LeafHash(value)]
HashAt(n, start) ==
  IF start = n.depth THEN n.hash ELSE EdgeHash(n.hash, Path(n.key, start, n.depth))
Branch(depth, left, right) ==
  [key |-> left.key, depth |-> depth,
   hash |-> BinaryHash(HashAt(left, depth + 1), HashAt(right, depth + 1)),
   left |-> left, right |-> right]
IsLeaf(n) == n.depth = Height

Differ(a, b, start, to) == {d \in start..(to - 1) : Bit(a, d) # Bit(b, d)}
RECURSIVE Build(_, _)
Build(entries, start) ==
  LET keys == DOMAIN entries
      split == Min(Differ(Min(keys), Max(keys), start, Height))
      side(bit) == Build(RestrictDomain(entries, LAMBDA key : Bit(key, split) = bit), split + 1)
  IN  IF Cardinality(keys) = 1 THEN Leaf(Min(keys), entries[Min(keys)])
      ELSE Branch(split, side(0), side(1))

(***************************************************************************)
(* Node::update: a value of 0 deletes the key, and a branch that loses a   *)
(* side gives way to the other one.                                        *)
(***************************************************************************)
Beside(n, key, value, split) ==
  IF Bit(key, split) = 1 THEN Branch(split, n, Leaf(key, value))
  ELSE Branch(split, Leaf(key, value), n)
RECURSIVE UpdateNode(_, _, _, _)
UpdateNode(n, key, value, start) ==
  LET splits == Differ(n.key, key, start, n.depth) IN
  IF splits # {}
  THEN {IF value = 0 THEN n ELSE Beside(n, key, value, Min(splits))}
  ELSE IF IsLeaf(n)
  THEN IF value = 0 THEN {} ELSE {Leaf(key, value)}
  ELSE IF Bit(key, n.depth) = 1
  THEN LET right == UpdateNode(n.right, key, value, n.depth + 1)
       IN  IF right = {} THEN {n.left} ELSE {Branch(n.depth, n.left, r) : r \in right}
  ELSE LET left == UpdateNode(n.left, key, value, n.depth + 1)
       IN  IF left = {} THEN {n.right} ELSE {Branch(n.depth, l, n.right) : l \in left}

(***************************************************************************)
(* CachedTrie: an optional root and the slot set it stands for.  update    *)
(* applies the slots that changed, then the ones that are gone.            *)
(***************************************************************************)
EmptyTrie == [root |-> {}, values |-> <<>>]
TrieRoot(trie) == IF trie.root = {} THEN Zero ELSE HashAt(CHOOSE n \in trie.root : TRUE, 0)
Changed(values, next) ==
  {key \in DOMAIN next : key \notin DOMAIN values \/ values[key] # next[key]}
\* Mutant: slots that are gone stay in the tree.
RemovedNever(values, next) == {}
Removed(values, next) == DOMAIN values \ DOMAIN next
Put(root, key, value) ==
  IF root = {} THEN (IF value = 0 THEN {} ELSE {Leaf(key, value)})
  ELSE UpdateNode(CHOOSE n \in root : TRUE, key, value, 0)
Ascending(keys) == SetToSortSeq(keys, <)
UpdateTrie(trie, next) ==
  LET put(root, key) == Put(root, key, next[key])
      drop(root, key) == Put(root, key, 0)
      changed == FoldLeft(put, trie.root, Ascending(Changed(trie.values, next)))
      rebuilt == IF DOMAIN next = {} THEN {} ELSE {Build(next, 0)}
  IN  [root |-> IF trie.root = {} THEN rebuilt
                ELSE FoldLeft(drop, changed, Ascending(Removed(trie.values, next))),
       values |-> next]

(***************************************************************************)
(* encode, then decode: leaves, depths and hashes are written; a branch's  *)
(* key and the slot set come back from the leaves.                         *)
(***************************************************************************)
RECURSIVE Leaves(_)
Leaves(n) == IF IsLeaf(n) THEN {n} ELSE Leaves(n.left) \cup Leaves(n.right)
RECURSIVE Decoded(_)
Decoded(n) ==
  IF IsLeaf(n) THEN n
  ELSE [n EXCEPT !.key = Decoded(n.left).key, !.left = Decoded(n.left), !.right = Decoded(n.right)]
RestoreTrie(trie) ==
  LET leaves == UNION {Leaves(n) : n \in trie.root}
  IN  [root |-> {Decoded(n) : n \in trie.root},
       values |-> [key \in {n.key : n \in leaves} |->
                     (CHOOSE n \in leaves : n.key = key).hash[2]]]
-----------------------------------------------------------------------------
(***************************************************************************)
(* The nodes a storage proof is made of: binary and edge nodes, each under *)
(* its hash.                                                               *)
(***************************************************************************)
EdgeNode(n, start) ==
  [hash |-> HashAt(n, start), kind |-> "edge", child |-> n.hash, path |-> Path(n.key, start, n.depth)]
BinaryNode(n) ==
  [hash |-> n.hash, kind |-> "binary", left |-> HashAt(n.left, n.depth + 1),
   right |-> HashAt(n.right, n.depth + 1)]
RECURSIVE ProofNodes(_, _)
ProofNodes(n, start) ==
  (IF start = n.depth THEN {} ELSE {EdgeNode(n, start)})
  \cup (IF IsLeaf(n) THEN {}
        ELSE {BinaryNode(n)} \cup ProofNodes(n.left, n.depth + 1)
                            \cup ProofNodes(n.right, n.depth + 1))

(***************************************************************************)
(* verify_storage_proof: two nodes under one hash, a missing node, a node  *)
(* that does not hash to its name or an edge that is empty or too long is  *)
(* an error; an edge that leaves the key's path, or an empty subtree,      *)
(* proves absence.                                                         *)
(***************************************************************************)
ProofError == <<"error">>
NonMember == <<"absent">>
\* Mutant: an edge is followed whether or not it is on the key's path.
OnPathAlways(node, key, depth) == TRUE
OnPath(node, key, depth) == node.path = Path(key, depth, depth + Len(node.path))
NodeHolds(node, depth) ==
  IF node.kind = "binary" THEN BinaryHash(node.left, node.right) = node.hash
  ELSE /\ Len(node.path) \in 1..(Height - depth)
       /\ EdgeHash(node.child, node.path) = node.hash
RECURSIVE WalkProof(_, _, _, _)
WalkProof(cur, depth, nodes, key) ==
  IF depth = Height THEN cur
  ELSE IF cur = Zero THEN NonMember
  ELSE LET at == {n \in nodes : n.hash = cur}
           node == CHOOSE n \in at : TRUE
       IN  IF at = {} THEN ProofError
           ELSE IF ~NodeHolds(node, depth) THEN ProofError
           ELSE IF node.kind = "binary"
           THEN WalkProof(IF Bit(key, depth) = 1 THEN node.right ELSE node.left,
                          depth + 1, nodes, key)
           ELSE IF OnPath(node, key, depth)
           THEN WalkProof(node.child, depth + Len(node.path), nodes, key)
           ELSE NonMember
VerifyStorageProof(root, nodes, key) ==
  IF \E n, m \in nodes : n # m /\ n.hash = m.hash THEN ProofError
  ELSE WalkProof(root, 0, nodes, key)
=============================================================================
