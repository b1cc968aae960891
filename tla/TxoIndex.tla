------------------------------- MODULE TxoIndex -------------------------------
(***************************************************************************)
(* How one output of one Dogecoin transaction is named by a single number  *)
(* (txo_constants.rs).  The combined index has a field for the block, the  *)
(* transaction in the block and the output in the transaction; a leaf of   *)
(* the txo tree is a bitmap of consecutive outputs, so that the low bits   *)
(* of the output number select a bit of the leaf.  A field of w bits has   *)
(* 2^w values, a shift by w bits multiplies or divides by 2^w, and a mask  *)
(* of w bits is a remainder.  The numbers of values are parameters: 2^28,  *)
(* 2^13, 2^4 and 2^8 in the code.                                          *)
(***************************************************************************)
EXTENDS Integers

CONSTANTS
  BlockNumbers,     \* values of the block field
  TxNumbers,        \* values of the transaction field
  LeavesPerTx,      \* values of the upper part of the output field ...
  LeafSize          \* ... and of its lower part, the bits of a leaf

TxoIndexConstants ==
  /\ BlockNumbers \in Nat \ {0} /\ TxNumbers \in Nat \ {0}
  /\ LeavesPerTx \in Nat \ {0} /\ LeafSize \in Nat \ {0}

ASSUME TxoIndexAssumption == TxoIndexConstants

VARIABLE txo      \* the output under consideration

OutputNumbers == LeavesPerTx * LeafSize

(* is_valid_block_num_tx_num_output_index *)
ValidOutputs == [block : 0..(BlockNumbers - 1), tx : 0..(TxNumbers - 1),
                 output : 0..(OutputNumbers - 1)]

(* get_txo_combined_index; the fields of a valid output do not overlap. *)
CombinedIndex(o) ==
  o.block * (TxNumbers * OutputNumbers) + o.tx * OutputNumbers + o.output

(* Faulty: the output field is taken to have its upper bits only. *)
OutputOfTopBits(index) ==
  [block  |-> (index \div (TxNumbers * OutputNumbers)) % BlockNumbers,
   tx     |-> (index \div OutputNumbers) % TxNumbers,
   output |-> index % LeavesPerTx]

(* get_txo_block_number_tx_number_output_index_from_combined_index *)
OutputOf(index) ==
  [block  |-> (index \div (TxNumbers * OutputNumbers)) % BlockNumbers,
   tx     |-> (index \div OutputNumbers) % TxNumbers,
   output |-> index % OutputNumbers]

(* get_txo_merkle_index_and_leaf_bit_index_from_combined_index *)
LeafAndBit(index) == [leaf |-> index \div LeafSize, bit |-> index % LeafSize]

(* get_txo_merkle_index_and_bit_index *)
MerkleIndexAndBit(o) ==
  [leaf |-> o.block * (TxNumbers * OutputNumbers) + o.tx * OutputNumbers
              + o.output \div LeafSize,
   bit  |-> o.output % LeafSize]

(* 2^TXO_MERKLE_TREE_HEIGHT *)
TreeLeaves == BlockNumbers * TxNumbers * LeavesPerTx

-----------------------------------------------------------------------------
Later(a, b) ==
  \/ a.block > b.block
  \/ a.block = b.block /\ a.tx > b.tx
  \/ a.block = b.block /\ a.tx = b.tx /\ a.output > b.output

(* The combined index names one output only, and lies in the tree: taking  *)
(* it apart gives the output back, the leaf and bit computed from it are a *)
(* leaf of the tree and the bit of that output, and indices follow each    *)
(* other as outputs, transactions and blocks do.                           *)
IndexNamesOutput ==
  LET c == CombinedIndex(txo) IN
  /\ OutputOf(c) = txo
  /\ LeafAndBit(c).leaf < TreeLeaves
  /\ LeafAndBit(c).bit = MerkleIndexAndBit(txo).bit
  /\ c + 1 < TreeLeaves * LeafSize => Later(OutputOf(c + 1), txo)

(* The Merkle index that is computed directly from block, transaction and  *)
(* output is an index of the txo tree.                                     *)
MerkleIndexInTree == MerkleIndexAndBit(txo).leaf < TreeLeaves
=============================================================================
