------------------------------ MODULE AppendTree ------------------------------
(***************************************************************************)
(* FixedMerkleAppendTree: the three append-only trees of the bridge state. *)
(* The tree stores no leaves, only its root and, for each level, the left  *)
(* sibling that the next leaf will need.  A caller that rolls back hands   *)
(* in what was overwritten.                                                *)
(*                                                                         *)
(* A hash is modelled by what was hashed: <<v>> is a leaf value and        *)
(* <<l, r>> the hash of two nodes, so that no two differ by accident or    *)
(* agree by accident.  Levels and bits are counted from the leaves.        *)
(*                                                                         *)
(* `leaves' is history: the leaves the tree is meant to hold.  `past'      *)
(* holds the siblings of the tree when it was shorter, from which callers  *)
(* take what a rollback needs.                                             *)
(***************************************************************************)
EXTENDS Integers, SequencesExt

CONSTANTS
  Height,         \* TREE_HEIGHT, 32 in the code
  Values,         \* the leaves that are appended
  Operations,     \* what is done besides appending
  IndexTargets    \* the lengths revert_to_index is called for

VARIABLES
  tree,           \* next_index, current_root, next_siblings
  leaves,
  past,
  delta           \* the last delta Merkle proof

vars == <<tree, leaves, past, delta>>

-----------------------------------------------------------------------------
(* Hashes and paths. *)
MerkleTreeConstants == Height \in Nat \ {0}

Levels == 0..(Height - 1)
Capacity == 2^Height

TwoToOne(left, right) == <<left, right>>

(* SHA256_ZERO_HASHES: the root of an empty tree of each height. *)
ZeroHashes[i \in 0..Height] ==
  IF i = 0 THEN <<"zero">> ELSE TwoToOne(ZeroHashes[i - 1], ZeroHashes[i - 1])

Bit(n, i) == (n \div 2^i) % 2

(* compute_root_merkle_proof_generic and its sha256 twin. *)
ComputeRoot(value, index, siblings) ==
  LET node[i \in 0..Height] ==
        IF i = 0 THEN value
        ELSE IF Bit(index, i - 1) = 0 THEN TwoToOne(node[i - 1], siblings[i - 1])
             ELSE TwoToOne(siblings[i - 1], node[i - 1])
  IN  node[Height]

-----------------------------------------------------------------------------
(* The in-memory tree that the library's own tests compare with: every     *)
(* node is computed from all leaves below it.  NodesOf(lvs)[l] has the     *)
(* nodes of level l.                                                       *)
NodesOf(lvs) ==
  LET nodes[l \in 0..Height] ==
        [k \in 0..(2^(Height - l) - 1) |->
           IF l = 0 THEN (IF k < Len(lvs) THEN lvs[k + 1] ELSE ZeroHashes[0])
           ELSE TwoToOne(nodes[l - 1][2 * k], nodes[l - 1][2 * k + 1])]
  IN  nodes

RootOf(lvs) == NodesOf(lvs)[Height][0]

(* The sibling of the path of leaf `index' at a level. *)
SiblingOf(nodes, index, l) ==
  LET k == index \div 2^l IN nodes[l][IF k % 2 = 0 THEN k + 1 ELSE k - 1]

-----------------------------------------------------------------------------
NoProof == [old |-> <<>>, new |-> <<>>]

(* new_empty *)
NewEmpty == [next |-> 0, root |-> ZeroHashes[Height],
             sib |-> [i \in Levels |-> ZeroHashes[i]]]

(* new: the root is that of an empty slot at the next index. *)
NewTree(next, sib) ==
  IF next = 0 THEN NewEmpty
  ELSE [next |-> next, root |-> ComputeRoot(ZeroHashes[0], next, sib), sib |-> sib]

Init ==
  /\ tree = NewEmpty
  /\ leaves = <<>>
  /\ past = <<NewEmpty.sib>>
  /\ delta = NoProof

-----------------------------------------------------------------------------
(* The node above a new leaf, at each level. *)
PathNodes(t, value) ==
  LET node[i \in 0..Height] ==
        IF i = 0 THEN value
        ELSE IF Bit(t.next, i - 1) = 0 THEN TwoToOne(node[i - 1], ZeroHashes[i - 1])
             ELSE TwoToOne(t.sib[i - 1], node[i - 1])
  IN  node

(* update_siblings_append_merkle_tree *)
Appended(t, value) ==
  LET node == PathNodes(t, value) IN
  [next |-> t.next + 1,
   root |-> node[Height],
   sib  |-> [i \in Levels |->
               IF Bit(t.next, i) = Bit(t.next + 1, i) THEN t.sib[i]
               ELSE IF Bit(t.next, i) = 0 THEN node[i] ELSE ZeroHashes[i]]]

(* get_partial_merkle_proof_for_current_index, and its fixed-size twin *)
CurrentSiblings(t) ==
  [i \in Levels |-> IF Bit(t.next, i) = 1 THEN t.sib[i] ELSE ZeroHashes[i]]

(* append_delta_merkle_proof *)
Append1(value) ==
  /\ tree.next < Capacity
  /\ tree' = Appended(tree, value)
  /\ leaves' = Append(leaves, value)
  /\ past' = Append(past, tree'.sib)
  /\ delta' = [old |-> ComputeRoot(ZeroHashes[0], tree.next, CurrentSiblings(tree)),
               new |-> ComputeRoot(value, tree.next, CurrentSiblings(tree))]

(* The tree is written out and read back (new). *)
Rebuild ==
  /\ "rebuild" \in Operations
  /\ tree.next < Capacity
  /\ tree' = NewTree(tree.next, tree.sib)
  /\ UNCHANGED <<leaves, past, delta>>

Truncated(n) ==
  /\ leaves' = SubSeq(leaves, 1, n)
  /\ past' = SubSeq(past, 1, n + 1)
  /\ delta' = NoProof

-----------------------------------------------------------------------------
(* A level's sibling differs, and has to be handed in, if the two lengths  *)
(* differ at that bit or above.                                            *)
Differs(a, b, i) == a \div 2^i # b \div 2^i

(* get_changed_next_siblings_for_revert: the stored siblings of the target *)
(* length, of the levels that differ, as a list.                           *)
ChangedLeftSiblings(current, target, sib) ==
  LET levels == {i \in Levels : Bit(target, i) = 1 /\ Differs(target, current, i)}
  IN  [k \in 1..Len(SetToSortSeq(levels, <)) |-> sib[SetToSortSeq(levels, <)[k]]]

(* Faulty: only the levels whose own bit differs are restored. *)
RestoreDifferentBits(t, target, changed) ==
  LET right(i) == Bit(target, i) = 1 /\ Bit(t.next, i) = 0
      place(i) == Len(SelectSeq([j \in 1..(i + 1) |-> j - 1], right)) IN
  NewTree(target, [i \in Levels |->
    IF right(i) /\ place(i) <= Len(changed) THEN changed[place(i)]
    ELSE IF Bit(target, i) = Bit(t.next, i) THEN t.sib[i] ELSE ZeroHashes[i]])

(* revert_to_next_index *)
RestoredTree(t, target, changed) ==
  LET right(i) == Bit(target, i) = 1 /\ Differs(target, t.next, i)
      place(i) == Len(SelectSeq([j \in 1..(i + 1) |-> j - 1], right)) IN
  NewTree(target, [i \in Levels |->
    IF right(i) THEN changed[place(i)]
    ELSE IF Differs(target, t.next, i) THEN ZeroHashes[i] ELSE t.sib[i]])

RevertToNextIndex(target) ==
  /\ "revert_to_next_index" \in Operations
  /\ target < tree.next
  /\ tree' = RestoredTree(tree, target,
               ChangedLeftSiblings(tree.next, target, past[target + 1]))
  /\ Truncated(target)

(* revert_to_index: rebuilt from the last leaf that stays and the left     *)
(* siblings on its path.                                                   *)
TreeAfter(t, index, left, value) ==
  LET path == index - 1
      node[i \in 0..Height] ==
        IF i = 0 THEN value
        ELSE IF Bit(path, i - 1) = 1 THEN TwoToOne(left[i - 1], node[i - 1])
             ELSE TwoToOne(node[i - 1], ZeroHashes[i - 1])
  IN  [next |-> index, root |-> node[Height],
       sib |-> [i \in Levels |-> IF Bit(path, i) = 1 THEN ZeroHashes[i] ELSE node[i]]]

RevertToIndex(index) ==
  /\ "revert_to_index" \in Operations
  /\ index < tree.next
  /\ LET nodes == NodesOf(leaves)
         left  == [i \in Levels |-> SiblingOf(nodes, IF index = 0 THEN 0 ELSE index - 1, i)]
     IN tree' = IF index = 0 THEN NewEmpty
                ELSE TreeAfter(tree, index, left, leaves[index])
  /\ Truncated(index)

Next ==
  \/ \E v \in Values : Append1(v)
  \/ Rebuild
  \/ \E n \in 0..(Capacity - 1) : RevertToNextIndex(n)
  \/ \E n \in IndexTargets : RevertToIndex(n)

Spec == Init /\ [][Next]_vars

-----------------------------------------------------------------------------
(* The root is that of the full tree with exactly the leaves that were     *)
(* appended and not rolled back, after every sequence of appends,          *)
(* rollbacks and reloads, up to a full tree: one stored sibling per level  *)
(* is enough, and the siblings a caller is told to keep for a rollback are *)
(* the ones the rollback needs.                                            *)
RootIsReference == tree.root = RootOf(leaves)

(* The delta proof that append_delta_merkle_proof returns leads from the   *)
(* root before the append to the root after it.                            *)
DeltaFollowsRoot ==
  delta # NoProof =>
    /\ delta.old = RootOf(SubSeq(leaves, 1, Len(leaves) - 1))
    /\ delta.new = RootOf(leaves)
=============================================================================
