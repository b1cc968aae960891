---------------------------- MODULE ManualClaims ----------------------------
(***************************************************************************)
(* The manual-claim program and the part of the doge-bridge program it     *)
(* calls: a user whose deposit was not minted automatically proves that it *)
(* is in a finalized block, not in the tree of auto-claimed deposits and   *)
(* not in the tree of deposits this user claimed before.                   *)
(*                                                                         *)
(* A root is modelled by what the tree under it contains: the root of the  *)
(* auto-claimed deposits at height h by the set of the deposits up to h,   *)
(* so that blocks without such deposits share a root; the root of the      *)
(* block tree by its height; a user's root by the set of claimed deposits. *)
(***************************************************************************)
EXTENDS BridgeHeader, Fees, FiniteSets

CONSTANTS
  Outputs,         \* the deposits on the Dogecoin chain
  BlockOf,         \* the block of a deposit
  AmountOf,        \* its amount
  OwnerOf,         \* the user whose deposit address it pays
  AutoClaimed,     \* the deposits that the chain of headers auto-claims
  Users,
  DepositFee,      \* [flat, num, den] of config_params
  Held             \* what process_claim still borrows when it calls the bridge

ASSUME ManualClaimsAssumption ==
  /\ BlockOf \in [Outputs -> Heights]
  /\ AmountOf \in [Outputs -> Nat]
  /\ OwnerOf \in [Outputs -> Users]
  /\ AutoClaimed \subseteq Outputs
  /\ IsFiniteSet(Outputs)
  /\ \A h \in Heights :
       Deposits[h] = Cardinality({o \in AutoClaimed : BlockOf[o] = h})
  /\ DepositFee \in [flat : Nat, num : Nat, den : Nat]

VARIABLES
  manual,          \* manual_deposits_tree and total_manual_deposit_fees_sats
  claimed          \* each user's manual_claimed_txo_tree_root

manualVars == <<manual, claimed>>

(* initialize; a user's account is created empty by the first claim. *)
ManualInit ==
  /\ manual = [leaves |-> <<>>, fees |-> 0]
  /\ claimed = [u \in Users |-> {}]

-----------------------------------------------------------------------------
AutoRoot(h) == {o \in AutoClaimed : BlockOf[o] <= h}

InvalidHeight == -1

(* The first slot of the ring whose state has the root. *)
FirstSlot(root, i) ==
  /\ i \in DOMAIN recent.slots
  /\ AutoRoot(recent.slots[i]) = root
  /\ \A j \in 0..(i - 1) : AutoRoot(recent.slots[j]) # root

(* Faulty: any finalized height will do. *)
FindNothing(root) == header.height

(* find_recent_auto_claim_txo_tree_root_and_block_merkle_root: the         *)
(* finalized state first, then the ring in the order of its slots.         *)
FindRecent(root) ==
  IF AutoRoot(header.height) = root THEN header.height
  ELSE IF \E i \in DOMAIN recent.slots : FirstSlot(root, i)
       THEN recent.slots[CHOOSE i \in DOMAIN recent.slots : FirstSlot(root, i)]
       ELSE InvalidHeight

DepositFeeOf(o) ==
  CalculateDepositFee(AmountOf[o], DepositFee.flat, DepositFee.num,
                      DepositFee.den)

(* process_manual_claimed_deposit, with the block root of height h. *)
RootsAreRecent(o, h, root) ==
  LET found == FindRecent(root) IN
  /\ found # InvalidHeight
  /\ BlockOf[o] <= found
  /\ found = h

ProcessManualDeposit(o, h, root) ==
  /\ RootsAreRecent(o, h, root)
  /\ FeeAccepted(DepositFeeOf(o))
  /\ manual' = [leaves |-> Append(manual.leaves, o),
                fees |-> manual.fees + DepositFeeOf(o).fees]

-----------------------------------------------------------------------------
(* The proof system (external): deposit o of user u is in the block tree   *)
(* of height h, and in neither of the two trees of claimed deposits.       *)
ClaimProof(u, o, h, root, old) ==
  /\ OwnerOf[o] = u
  /\ BlockOf[o] <= h
  /\ o \notin root
  /\ o \notin old

(* The accounts of the call into the bridge, and whether the call asks for *)
(* them to be writable.                                                    *)
CallAccounts ==
  [bridge_state |-> TRUE, recipient |-> TRUE, doge_mint |-> TRUE,
   token_program |-> FALSE, claim_pda |-> FALSE]

(* The runtime refuses to pass on an account whose data is mutably         *)
(* borrowed (external).                                                    *)
CallIsPossible == DOMAIN CallAccounts \cap Held = {}

(* process_claim and manual_claim_deposit: a proof over the user's current *)
(* root, the new root, and the call into the bridge.                       *)
ManualClaim(u, o, h, root) ==
  /\ ClaimProof(u, o, h, root, claimed[u])
  /\ CallIsPossible
  /\ ProcessManualDeposit(o, h, root)
  /\ claimed' = [claimed EXCEPT ![u] = @ \cup {o}]

(* A claim whose proof was made against the states at heights h and k, now *)
(* or some time ago.                                                       *)
ClaimAgainst(u, o, h, k) ==
  /\ k <= header.height
  /\ ManualClaim(u, o, h, AutoRoot(k))
=============================================================================
