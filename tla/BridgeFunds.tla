----------------------------- MODULE BridgeFunds -----------------------------
(***************************************************************************)
(* Everything the doge-bridge program does with money: finalized deposits  *)
(* are minted automatically or by manual claims, tokens are burned for     *)
(* withdrawals, withdrawals are paid on Dogecoin, fees are minted to the   *)
(* operator.  Automatic mints are taken as DepositLedger describes them,   *)
(* which is what BridgeMint implements.                                    *)
(***************************************************************************)
EXTENDS Withdrawals, ManualClaims, FiniteSetsExt

(* The prover fills the headers' fee field with the fees of the deposits   *)
(* that are minted automatically, and has only those minted that can pay   *)
(* their fee.                                                              *)
ASSUME BridgeFundsAssumption ==
  /\ \A h \in 0..Len(Deposits) :
       HeaderFees[h] =
         MapThenSumSet(LAMBDA o : DepositFeeOf(o).fees, AutoRoot(h))
  /\ \A o \in AutoClaimed :
       DepositFeeOf(o).fees + DepositFeeOf(o).after = AmountOf[o]

VARIABLES
  autoMinted,      \* the auto-claimed deposits that were minted
  supply           \* the supply of the bridge's token

fundVars == <<header, recent, manual, claimed, autoMinted, supply>>
vars == <<header, recent, manual, claimed, autoMinted, supply, wd, clock,
          proofs, posted, replayed>>

Init ==
  /\ HeaderInit
  /\ WithdrawalsInit
  /\ ManualInit
  /\ autoMinted = {}
  /\ supply = 0

-----------------------------------------------------------------------------
(* A block update or a reorg update, once everything due is minted. *)
FinalizeBlocks(h) ==
  /\ AutoRoot(header.height) \subseteq autoMinted
  /\ SingleBlock(h) \/ ReorgBlocks(h)
  /\ UNCHANGED <<withdrawalVars, manualVars, autoMinted, supply>>

(* One deposit of a finalized block is minted.  Its amount after fees was  *)
(* computed by the prover.                                                 *)
AutoMint(o) ==
  /\ o \in AutoRoot(header.height) \ autoMinted
  /\ autoMinted' = autoMinted \cup {o}
  /\ supply' = supply + DepositFeeOf(o).after
  /\ UNCHANGED <<headerVars, withdrawalVars, manualVars>>

Claim(u, o) ==
  /\ \E h, k \in 0..Len(Deposits) : ClaimAgainst(u, o, h, k)
  /\ supply' = supply + DepositFeeOf(o).after
  /\ UNCHANGED <<headerVars, withdrawalVars, autoMinted>>

(* A user burns tokens; the token program refuses more than there are. *)
Withdraw(amount) ==
  /\ Len(wd.requested) < MaxRequests
  /\ supply >= amount
  /\ RequestWithdrawal(amount)
  /\ supply' = supply - amount
  /\ UNCHANGED <<headerVars, manualVars, autoMinted>>

Snapshot == SnapshotWithdrawals(Len(manual.leaves)) /\ UNCHANGED fundVars

ProveWithdrawal ==
  /\ Cardinality(proofs) < MaxProofs
  /\ \E upTo \in wd.processed..wd.snap.next : Prove(upTo)
  /\ UNCHANGED fundVars

PayWithdrawals ==
  /\ Len(posted) < MaxPosted
  /\ \E p \in proofs : \E data \in PostedForms(p.tx) : ProcessWithdrawal(p, data)
  /\ UNCHANGED fundVars

Replay ==
  /\ Len(replayed) < MaxPosted
  /\ \E p \in proofs : ReplayWithdrawal(Preimage(p.tx))
  /\ UNCHANGED fundVars

WithdrawFees ==
  /\ OperatorWithdrawFees(manual.fees)
  /\ supply' = supply + (TotalFinalizedFees(manual.fees) - wd.feesWithdrawn)
  /\ UNCHANGED <<headerVars, manualVars, autoMinted>>

Claims == \E u \in Users, o \in Outputs : Claim(u, o)

Movements ==
  \/ \E h \in Heights : FinalizeBlocks(h)
  \/ \E o \in Outputs : AutoMint(o)
  \/ \E amount \in Amounts : Withdraw(amount)
  \/ Snapshot
  \/ ProveWithdrawal
  \/ PayWithdrawals
  \/ Replay
  \/ WithdrawFees
  \/ Tick /\ UNCHANGED fundVars

Next == Claims \/ Movements

Spec == Init /\ [][Next]_vars

-----------------------------------------------------------------------------
Claimed == {manual.leaves[i] : i \in DOMAIN manual.leaves}

GrossOf(outs) == MapThenSumSet(LAMBDA o : AmountOf[o], outs)

NetOf(outs) == MapThenSumSet(LAMBDA o : DepositFeeOf(o).after, outs)

RequestedIn(ids) == MapThenSumSet(LAMBDA i : wd.requested[i], ids)

(* The coins the bridge still holds for the deposits it took are what it   *)
(* owes: the tokens in circulation, the requests not yet paid, the fees    *)
(* not yet withdrawn and the deposits not yet minted.  It relates the      *)
(* counters of process_request_withdrawal, process_manual_claimed_deposit, *)
(* update_for_withdrawal and the operator's fees to what is minted, burned *)
(* and paid.  The subtraction in get_operator_withdrawable_fees never      *)
(* underflows.                                                             *)
Solvent ==
  /\ GrossOf(AutoRoot(header.height) \cup Claimed)
       - RequestedIn(1..wd.processed)
     = supply
       + RequestedIn((wd.processed + 1)..Len(wd.requested))
       + (TotalFinalizedFees(manual.fees) - wd.feesWithdrawn)
       + NetOf(AutoRoot(header.height) \ autoMinted)
  /\ wd.feesWithdrawn <= TotalFinalizedFees(manual.fees)

(* No deposit is paid twice.  The leaves of manual_deposits_tree are       *)
(* distinct, because a claim moves the user's own root; and no deposit is  *)
(* both minted automatically, now or ever, and claimed manually, however   *)
(* old the roots of the claim's proof are, nor claimed before its block is *)
(* finalized: the lookup in the ring of recent blocks never pairs an old   *)
(* root with a newer block.                                                *)
NeverPaidTwice ==
  /\ \A i, j \in DOMAIN manual.leaves :
       manual.leaves[i] = manual.leaves[j] => i = j
  /\ Claimed \cap {o \in Outputs : o \in AutoClaimed
                                  \/ BlockOf[o] > header.height} = {}

(* Posted transactions pay the requests in order, each exactly once: the   *)
(* first starts at request 0, each other where the one before it stopped,  *)
(* and the bridge's index is where the last one stopped, within the        *)
(* snapshot, which is within the tree.  A proof made before another one    *)
(* was processed, or before the snapshot was replaced, is never accepted.  *)
RequestsPaidInOrder ==
  /\ \A i \in DOMAIN posted :
       posted[i].data.tx.from = IF i = 1 THEN 0 ELSE posted[i - 1].data.tx.to
  /\ wd.processed = IF posted = <<>> THEN 0 ELSE posted[Len(posted)].data.tx.to
  /\ wd.processed <= wd.snap.next /\ wd.snap.next <= Len(wd.requested)

(* Two replays are at least MIN_WAIT_TIME_REPLAY_WITHDRAWAL_SECS apart,    *)
(* whichever transactions they are of, and whatever is replayed is the     *)
(* preimage of a transaction that was posted before, for requests that are *)
(* recorded as processed.                                                  *)
ReplaysAreSpaced ==
  /\ \A i, j \in DOMAIN replayed :
       i < j => replayed[i].at + ReplayWait <= replayed[j].at
  /\ \A i \in DOMAIN replayed :
       \E j \in DOMAIN posted :
         /\ posted[j].data.tx = replayed[i].data.tx
         /\ posted[j].nonce <= replayed[i].nonce
         /\ posted[j].at <= replayed[i].at

(* replay_withdrawal posts a transaction's message again: once the wait is *)
(* over, the bytes that process_withdrawal posted can be replayed.         *)
PostedCanBeReplayed ==
  \A i \in DOMAIN posted :
    wd.lastProcessed + ReplayWait <= clock =>
      CanReplay(Sha(Sha(posted[i].data)))
=============================================================================
