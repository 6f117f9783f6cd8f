------------------------------ MODULE LeanIMT -------------------------------
(***************************************************************************)
(* The fixed-depth incremental Merkle tree of the contracts: leaves, root  *)
(* and the two caches, a hash per level for empty subtrees and a sparse    *)
(* one for the nodes on the paths of inserted leaves.  hash_pair is        *)
(* concatenation, which is injective on the nodes of one level: a node of  *)
(* level l is the sequence of the 2^l leaves below it.                     *)
(***************************************************************************)
EXTENDS Integers, Sequences, FiniteSets, SequencesExt

CONSTANTS Leaf,       \* leaf values besides zero
          MaxDepth    \* bound on the depth of a tree

VARIABLES depth, leaves, root,
          subtree_cache,   \* level -> hash of an empty subtree
          sparse_cache     \* <<level, index>> -> hash of that node

vars == <<depth, leaves, root, subtree_cache, sparse_cache>>

capacity == 2 ^ depth

Zero == <<0>>

hash_pair(left, right) == left \o right

\* A map with one more entry, or a new value for a key.
Put(map, key, value) ==
    [k \in DOMAIN map \cup {key} |-> IF k = key THEN value ELSE map[k]]

EmptyMap == [k \in {} |-> Zero]

\* Leaf number k, counted from zero; missing leaves are zero.
LeafAt(s, k) == IF k < Len(s) THEN s[k + 1] ELSE Zero

Sibling(k) == IF k % 2 = 0 THEN k + 1 ELSE k - 1

\* The hashes recompute_tree derives level by level: level n is level n - 1
\* hashed with itself.
EmptyLevels ==
    LET h[l \in 0 .. depth] == IF l = 0 THEN Zero ELSE hash_pair(h[l - 1], h[l - 1])
    IN  h

\* recompute_tree: the root of the empty tree and the cache of its levels.
\* Depth zero returns before the cache is filled.
recompute_tree ==
    /\ root' = IF depth = 0 THEN Zero ELSE EmptyLevels[depth]
    /\ subtree_cache' = IF depth = 0 THEN EmptyMap ELSE EmptyLevels

Cached(subtree, sparse, l, k) == <<l, k>> \in DOMAIN sparse \/ l \in DOMAIN subtree

\* The sparse cache first, then the hash of the level.
get_cached_node(subtree, sparse, l, k) ==
    IF <<l, k>> \in DOMAIN sparse THEN sparse[<<l, k>>] ELSE subtree[l]

\* A node from the caches, or from its children down to the leaves.
compute_node_at_level(s, subtree, sparse, k, level) ==
    LET node[l \in 0 .. depth, j \in 0 .. 2 * capacity] ==
            IF Cached(subtree, sparse, l, j) THEN get_cached_node(subtree, sparse, l, j)
            ELSE IF l = 0 THEN LeafAt(s, j)
            ELSE hash_pair(node[l - 1, 2 * j], node[l - 1, 2 * j + 1])
    IN  IF level > depth THEN Zero ELSE node[level, k]

\* The value next to node k of a level on a path.
SiblingValue(s, subtree, sparse, l, k) ==
    IF l = 0 THEN LeafAt(s, Sibling(k))
    ELSE compute_node_at_level(s, subtree, sparse, Sibling(k), l)

\* Node k of a level hashed with its sibling, in the order of their indices.
Parent(value, sibling, k) ==
    IF k % 2 = 0 THEN hash_pair(value, sibling) ELSE hash_pair(sibling, value)

Levels == [n \in 1 .. depth |-> n - 1]

\* recompute_path_to_root_with_cache_update: from leaf number k of s upwards,
\* every parent goes to the sparse cache.
recompute_path_to_root(s, sparse, k) ==
    LET climb(acc, l) ==
            LET j == k \div (2 ^ l)
                parent == Parent(acc.value,
                                 SiblingValue(s, subtree_cache, acc.sparse, l, j), j)
            IN  [value |-> parent, sparse |-> Put(acc.sparse, <<l + 1, j \div 2>>, parent)]
    IN  FoldLeft(climb, [value |-> LeafAt(s, k), sparse |-> sparse], Levels)

Init ==
    /\ depth \in 0 .. MaxDepth
    /\ leaves = << >>
    /\ root = IF depth = 0 THEN Zero ELSE EmptyLevels[depth]
    /\ subtree_cache = IF depth = 0 THEN EmptyMap ELSE EmptyLevels
    /\ sparse_cache = EmptyMap

\* insert and incremental_update; a full tree returns an error.
insert(leaf) ==
    LET s == Append(leaves, leaf)
        k == Len(leaves)
        path == recompute_path_to_root(s, Put(sparse_cache, <<0, k>>, leaf), k)
    IN  /\ k < capacity
        /\ leaves' = s
        /\ root' = path.value
        /\ sparse_cache' = path.sparse
        /\ UNCHANGED <<depth, subtree_cache>>

\* to_storage keeps leaves, depth and root; from_storage starts with empty
\* caches, and an empty tree is recomputed.
from_storage ==
    /\ UNCHANGED <<depth, leaves>>
    /\ sparse_cache' = EmptyMap
    /\ IF leaves = << >> THEN recompute_tree
       ELSE root' = root /\ subtree_cache' = EmptyMap

Next == (\E x \in Leaf : insert(<<x>>)) \/ from_storage

Spec == Init /\ [][Next]_vars

-----------------------------------------------------------------------------
generate_proof_unshifted(k) ==
    [n \in 1 .. depth |-> SiblingValue(leaves, subtree_cache, sparse_cache, n - 1, k)]

\* The siblings generate_proof returns for leaf number k, from the leaf up.
generate_proof(k) ==
    [n \in 1 .. depth |->
        SiblingValue(leaves, subtree_cache, sparse_cache, n - 1, k \div (2 ^ (n - 1)))]

\* The root a verifier (the circuits' commitment path) gets from a leaf and
\* its siblings.
RootOf(leaf, k, siblings) ==
    FoldLeft(LAMBDA value, l : Parent(value, siblings[l + 1], k \div (2 ^ l)), leaf, Levels)

\* The node the leaves define, without any cache.
TrueNode(l, k) == FoldLeft(hash_pair, << >>, [n \in 1 .. 2 ^ l |-> LeafAt(leaves, k * 2 ^ l + n - 1)])

\* The leaves fit the tree and the caches hold nodes of it.
TypeOK ==
    /\ depth \in 0 .. MaxDepth
    /\ \A n \in DOMAIN leaves : leaves[n] \in {<<x>> : x \in Leaf}
    /\ Len(leaves) <= capacity
    /\ Len(root) = capacity
    /\ DOMAIN subtree_cache \subseteq 0 .. depth
    /\ \A e \in DOMAIN sparse_cache : e[1] \in 0 .. depth /\ e[2] < 2 ^ (depth - e[1])

\* The root that insert computes along one path, through caches that may have
\* been lost in between, is the root of the zero-padded leaves.
RootIsOfLeaves == root = TrueNode(depth, 0)

\* What a cached lookup of any node of the tree returns is that node: no
\* insertion leaves a stale entry or an empty-subtree hash for a node that has
\* leaves below it.
CacheIsFresh ==
    \A l \in 0 .. depth : \A k \in 0 .. 2 ^ (depth - l) - 1 :
        compute_node_at_level(leaves, subtree_cache, sparse_cache, k, l) = TrueNode(l, k)

\* generate_proof leads every inserted leaf to the root.
ProofsVerify ==
    \A k \in 0 .. Len(leaves) - 1 : RootOf(leaves[k + 1], k, generate_proof(k)) = root
=============================================================================
