----------------------------- MODULE DogeTxProof -----------------------------
(***************************************************************************)
(* Merkle proofs of transactions in a Dogecoin block (in_memory.rs and     *)
(* verify_btc_block_tx_tree).  A block's transaction tree repeats the last *)
(* node of a level that has an odd number of them, so that several lists   *)
(* of transactions have the same root; the verifiers must not accept a     *)
(* path through a repeated node.                                           *)
(*                                                                         *)
(* A question is a block, and a path with the transaction and the index it *)
(* claims.  The siblings of a path are nodes of the block's tree, of any   *)
(* level, in any order.                                                    *)
(***************************************************************************)
EXTENDS Integers, Sequences, FiniteSets

CONSTANTS
  MaxTransactions,   \* bound: the transactions of a block
  MaxSiblings        \* bound: the length of a path

DogeTxProofConstants ==
  MaxTransactions \in Nat \ {0} /\ MaxSiblings \in Nat

VARIABLE question

TxId(i) == <<i>>

Hash256(left, right) == <<left, right>>

(* The levels of the tree of a block of n transactions, up to its root. *)
TreeLevels(n) ==
  LET level[l \in 0..MaxTransactions] ==
        IF l = 0 THEN [i \in 1..n |-> TxId(i)]
        ELSE LET b == level[l - 1] IN
             IF Len(b) = 1 THEN b
             ELSE [i \in 1..((Len(b) + 1) \div 2) |->
                     Hash256(b[2 * i - 1],
                             IF 2 * i <= Len(b) THEN b[2 * i] ELSE b[2 * i - 1])]
  IN  level

BlockRoot(n) == TreeLevels(n)[MaxTransactions][1]

BlockNodes(n) ==
  UNION {{TreeLevels(n)[l][i] : i \in 1..Len(TreeLevels(n)[l])} : l \in 0..MaxTransactions}

NoRoot == <<>>

(* Faulty: without the rule against repeated nodes. *)
RootOfAnyPath(value, siblings, index) ==
  LET node[i \in 0..Len(siblings)] ==
        IF i = 0 THEN value
        ELSE IF (index \div 2^(i - 1)) % 2 = 0 THEN Hash256(node[i - 1], siblings[i])
             ELSE Hash256(siblings[i], node[i - 1])
  IN  IF index >= 2^Len(siblings) THEN NoRoot ELSE node[Len(siblings)]

(* compute_dogecoin_block_transaction_merkle_proof_tree_root_in_memory:    *)
(* the root of a path, or none if a left sibling repeats the node beside   *)
(* it or the index has bits left over.                                     *)
RootOfPath(value, siblings, index) ==
  LET node[i \in 0..Len(siblings)] ==
        IF i = 0 THEN value
        ELSE IF (index \div 2^(i - 1)) % 2 = 0 THEN Hash256(node[i - 1], siblings[i])
             ELSE Hash256(siblings[i], node[i - 1])
  IN  IF \/ \E i \in 1..Len(siblings) :
              (index \div 2^(i - 1)) % 2 = 1 /\ siblings[i] = node[i - 1]
         \/ index >= 2^Len(siblings)
      THEN NoRoot ELSE node[Len(siblings)]

(* compute_dogecoin_last_transaction_in_block_merkle_root_in_memory *)
RootOfLastTransaction(value, siblings, index, count) ==
  IF count = 0 \/ index # count - 1 THEN NoRoot
  ELSE RootOfPath(value, siblings, index)

-----------------------------------------------------------------------------
Paths(n) == UNION {[1..k -> BlockNodes(n)] : k \in 0..MaxSiblings}

Init ==
  \E n \in 1..MaxTransactions : \E v \in 1..n : \E s \in Paths(n) :
    \E i \in 0..(2^MaxSiblings - 1) :
      question = [n |-> n, value |-> v, siblings |-> s, index |-> i]

(* The path of transaction v in the tree of n transactions. *)
PathOf(n, v) ==
  LET levels == TreeLevels(n)
      height == CHOOSE h \in 0..MaxTransactions :
                  Len(levels[h]) = 1 /\ \A l \in 0..(h - 1) : Len(levels[l]) > 1
      at(l)  == (v - 1) \div 2^l
      beside(l) == IF at(l) % 2 = 1 THEN levels[l][at(l)]
                   ELSE IF at(l) + 2 <= Len(levels[l]) THEN levels[l][at(l) + 2]
                        ELSE levels[l][at(l) + 1]
  IN  [i \in 1..height |-> beside(i - 1)]

(* A path that leads to the block's root proves that the transaction is    *)
(* the one at the index it claims: the repeated nodes of an odd level give *)
(* no transaction a second place, and no place behind the last one.  The   *)
(* transaction's own path is accepted.                                     *)
PathProvesPlace ==
  LET q == question
      v == TxId(q.value)
      root == BlockRoot(q.n) IN
  /\ RootOfPath(v, q.siblings, q.index) = root => q.index = q.value - 1
  /\ RootOfPath(v, PathOf(q.n, q.value), q.value - 1) = root

(* A proof of the last transaction never claims more transactions than    *)
(* the block has: a count that reaches into the repeated nodes is refused. *)
(* (A smaller count is not refused: the function does not compare the      *)
(* right siblings with the nodes beside them.)                             *)
LastPathNeverOvercounts ==
  LET q == question
      root == BlockRoot(q.n) IN
  \A count \in 0..2^MaxSiblings :
    RootOfLastTransaction(TxId(q.value), q.siblings, q.index, count) = root
      => count <= q.n
=============================================================================
