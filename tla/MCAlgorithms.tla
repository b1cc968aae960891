----------------------------- MODULE MCAlgorithms -----------------------------
(***************************************************************************)
(* The algorithms, each against its reference definition.  Each initial    *)
(* state chooses one `scenario':                                           *)
(*                                                                         *)
(*   "fees"   every configuration of a small word, and every amount        *)
(*   "tree"   appends, reloads and revert_to_next_index, in a tree of      *)
(*            height 3                                                     *)
(*   "last"   appends and revert_to_index, which goes back with the last   *)
(*            leaf that stays, to the lengths the configuration names      *)
(*   "index"  every output of small fields                                 *)
(*   "path"   every path of nodes of a block of up to 5 transactions       *)
(***************************************************************************)
EXTENDS TxoIndex, Sequences

CONSTANT IndexTargets   \* the lengths revert_to_index is called for

VARIABLES scenario, amount, flat, num, den, tree, leaves, past, delta, question

feeVars  == <<amount, flat, num, den>>
treeVars == <<tree, leaves, past, delta>>
vars == <<scenario, feeVars, treeVars, txo, question>>

Word == 16

Fee == INSTANCE Fees

Tree == INSTANCE AppendTree WITH
  Height <- 3, Values <- {<<"a">>, <<"b">>},
  Operations <- {"rebuild", "revert_to_next_index"}

Last == INSTANCE AppendTree WITH
  Height <- 3, Values <- {<<"a">>, <<"b">>}, Operations <- {"revert_to_index"}

Doge == INSTANCE DogeTxProof WITH MaxTransactions <- 5, MaxSiblings <- 3

ASSUME AlgorithmConstants ==
  Tree!MerkleTreeConstants /\ Doge!DogeTxProofConstants

FirstOutput == [block |-> 0, tx |-> 0, output |-> 0]

Zeros == amount = 0 /\ flat = 0 /\ num = 0 /\ den = 0

Init ==
  /\ Tree!Init
  /\ \/ /\ scenario = "fees"
        /\ amount = 0 /\ flat \in 0..(Word - 1)
        /\ num \in 0..(Word - 1) /\ den \in 0..(Word - 1)
        /\ txo = FirstOutput /\ question = 0
     \/ scenario \in {"tree", "last"} /\ Zeros /\ txo = FirstOutput /\ question = 0
     \/ scenario = "index" /\ Zeros /\ txo \in ValidOutputs /\ question = 0
     \/ scenario = "path" /\ Zeros /\ txo = FirstOutput /\ Doge!Init

Next ==
  \/ /\ scenario = "fees"
     /\ amount < Word - 1 /\ amount' = amount + 1
     /\ UNCHANGED <<scenario, flat, num, den, treeVars, txo, question>>
  \/ /\ scenario = "tree"
     /\ Tree!Next
     /\ UNCHANGED <<scenario, feeVars, txo, question>>
  \/ /\ scenario = "last"
     /\ Last!Next
     /\ UNCHANGED <<scenario, feeVars, txo, question>>

Spec == Init /\ [][Next]_vars
-----------------------------------------------------------------------------
(* Whatever fee is accepted is the exact one, and no amount that can pay   *)
(* its exact fee is refused (fees.rs: both functions, the conversion to    *)
(* u64 at their end and the overflow and underflow errors).                *)
FeesAreExact ==
  scenario = "fees" =>
    Fee!FeeIsExact(amount, flat, num, den) /\ Fee!FeeIsFound(amount, flat, num, den)

(* After every sequence of appends, reloads and rollbacks the root of the  *)
(* append tree is that of the full tree with exactly the leaves that were  *)
(* appended and not rolled back, and a delta proof leads from the root     *)
(* before the append to the root after it.                                 *)
RootIsReference ==
  scenario \in {"tree", "last"} => Tree!RootIsReference /\ Tree!DeltaFollowsRoot

(* A path that leads to a block's root proves that the transaction is at   *)
(* the index it claims, and a proof of the last transaction never claims   *)
(* more transactions than the block has, although Dogecoin repeats the     *)
(* last node of an odd level.                                              *)
PathProvesPlace ==
  scenario = "path" => Doge!PathProvesPlace /\ Doge!LastPathNeverOvercounts
=============================================================================
