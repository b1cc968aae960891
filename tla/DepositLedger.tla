---------------------------- MODULE DepositLedger ----------------------------
(***************************************************************************)
(* What the bridge promises to depositors, without buffers, locks, hashes  *)
(* or backlogs: blocks are finalized, and every deposit of a finalized     *)
(* block is minted exactly once, block by block.  Within a block the       *)
(* groups are minted in any order.                                         *)
(***************************************************************************)
EXTENDS Integers, Sequences

CONSTANT Owed          \* Owed[h]: the deposit groups of block h

VARIABLES
  finalized,           \* the height of the last finalized block
  minted,              \* the groups that were minted
  mintTxs              \* how many times a group was minted

ledgerVars == <<finalized, minted, mintTxs>>

(* What is owed up to and including block h. *)
OwedUpTo(h) == UNION {Owed[k] : k \in 1..h}

LedgerInit ==
  /\ finalized = 0
  /\ minted = {}
  /\ mintTxs = 0

(* A batch of blocks becomes final, once nothing is owed any more. *)
Finalize(h) ==
  /\ h > finalized
  /\ OwedUpTo(finalized) \subseteq minted
  /\ finalized' = h
  /\ UNCHANGED <<minted, mintTxs>>

(* A group of block h is minted, for the first time and after everything   *)
(* owed for earlier blocks.                                                *)
MintOwed(h, d) ==
  /\ h <= finalized
  /\ d \in Owed[h] \ minted
  /\ OwedUpTo(h - 1) \subseteq minted
  /\ minted' = minted \cup {d}
  /\ mintTxs' = mintTxs + 1
  /\ UNCHANGED finalized

LedgerNext ==
  \E h \in 1..Len(Owed) : Finalize(h) \/ \E d \in Owed[h] : MintOwed(h, d)

LedgerSpec == LedgerInit /\ [][LedgerNext]_ledgerVars
=============================================================================
