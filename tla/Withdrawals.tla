----------------------------- MODULE Withdrawals -----------------------------
(***************************************************************************)
(* The way back to Dogecoin, in the doge-bridge program:                   *)
(*                                                                         *)
(*   - a user burns tokens and a request for the rest after fees is        *)
(*     appended to a tree;                                                 *)
(*   - the operator takes a snapshot of the trees;                         *)
(*   - a proof is made that a Dogecoin transaction pays the next requests  *)
(*     of the snapshot out of the previous transaction's return output,    *)
(*     and the bridge, if nothing it was proven against has changed,       *)
(*     records the transaction and posts it for signing;                   *)
(*   - anybody may have a posted transaction posted again;                 *)
(*   - the operator mints the fees that were collected.                    *)
(*                                                                         *)
(* An append tree is the sequence of its leaves.  A request is its amount. *)
(* A transaction is known by its place in the chain of return outputs and  *)
(* by the requests it pays; bytes are a transaction and the rounds of      *)
(* sha256 applied to it.                                                   *)
(***************************************************************************)
EXTENDS BridgeHeader, Fees

CONSTANTS
  Amounts,         \* the amounts users burn
  WithdrawalFee,   \* [flat, num, den] of config_params
  HeaderFees,      \* HeaderFees[h]: the deposit fees in the header of block h
  ReplayWait,      \* 60, MIN_WAIT_TIME_REPLAY_WITHDRAWAL_SECS
  Start,           \* the time at which the bridge was initialized
  MaxRequests,     \* bound: requests
  MaxProofs,       \* bound: proofs that are made
  MaxPosted,       \* bound: posted transactions, and replays
  MaxTime          \* bound: the clock

ASSUME WithdrawalsAssumption ==
  /\ Amounts \subseteq Nat
  /\ WithdrawalFee \in [flat : Nat, num : Nat, den : Nat]
  /\ HeaderFees \in [0..Len(Deposits) -> Nat]
  /\ \A h \in Heights : HeaderFees[h - 1] <= HeaderFees[h]
  /\ ReplayWait \in Nat /\ Start \in Nat
  /\ MaxRequests \in Nat /\ MaxProofs \in Nat
  /\ MaxPosted \in Nat /\ MaxTime \in Nat

VARIABLES
  wd,              \* the fields of PsyBridgeProgramState about withdrawals
  clock,           \* the Clock sysvar, unix seconds
  proofs,          \* the withdrawal proofs that exist
  posted,          \* history: the transactions posted through the shim
  replayed         \* history: those that were posted again

withdrawalVars == <<wd, clock, proofs, posted, replayed>>

(* initialize: the default snapshot has zeros everywhere.  lastProcessed   *)
(* is last_processed_withdrawals_at_ms in seconds, returned the last       *)
(* return output, as the number of transactions so far.                    *)
WithdrawalsInit ==
  /\ wd = [requested |-> <<>>, processed |-> 0, returned |-> 0, sent |-> <<>>,
           snap |-> [height |-> 0, at |-> 0, next |-> 0, manual |-> 0],
           fees |-> 0, feesWithdrawn |-> 0, lastProcessed |-> 0]
  /\ clock = Start
  /\ proofs = {}
  /\ posted = <<>>
  /\ replayed = <<>>

(* A transaction's signing preimage, and one more round of sha256. *)
Preimage(tx) == [tx |-> tx, rounds |-> 0]

Sha(data) == [data EXCEPT !.rounds = @ + 1]

-----------------------------------------------------------------------------
RequestFee(amount) ==
  CalculateWithdrawalFee(amount, WithdrawalFee.flat, WithdrawalFee.num,
                         WithdrawalFee.den)

(* Faulty: the request is for the amount that was burned. *)
RequestGross(amount) ==
  LET f == RequestFee(amount) IN
  /\ FeeAccepted(f)
  /\ wd' = [wd EXCEPT !.fees = @ + f.fees,
                      !.requested = Append(@, amount)]
  /\ UNCHANGED <<clock, proofs, posted, replayed>>

(* request_withdrawal, up to the burn of the amount by the token program.  *)
RequestWithdrawal(amount) ==
  LET f == RequestFee(amount) IN
  /\ FeeAccepted(f)
  /\ wd' = [wd EXCEPT !.fees = @ + f.fees,
                      !.requested = Append(@, f.after)]
  /\ UNCHANGED <<clock, proofs, posted, replayed>>

(* snapshot_withdrawals, signed by the operator. *)
SnapshotWithdrawals(manualDeposits) ==
  /\ wd' = [wd EXCEPT !.snap = [height |-> header.height, at |-> clock,
                                next |-> Len(wd.requested),
                                manual |-> manualDeposits]]
  /\ UNCHANGED <<clock, proofs, posted, replayed>>

(* The proof system (external).  A proof attests that a transaction pays   *)
(* the requests of the snapshot from where the previous transaction        *)
(* stopped up to some index, spending that transaction's return output.    *)
(* Its public inputs are the snapshot, the old and the new return output   *)
(* and spent-output root, and the new index.                               *)
Prove(upTo) ==
  /\ upTo \in wd.processed..wd.snap.next
  /\ proofs' = proofs \cup
       {[snap |-> wd.snap, old |-> wd.returned,
         tx |-> [nr |-> wd.returned + 1, from |-> wd.processed, to |-> upTo]]}
  /\ UNCHANGED <<wd, clock, posted, replayed>>

(* Faulty: the old return output is not among the public inputs. *)
MatchesSnapshotOnly(p) == p.snap = wd.snap

(* get_expected_public_inputs_for_withdrawal_proof: what the proof was     *)
(* made against is what the bridge holds now.                              *)
MatchesPublicInputs(p) == p.snap = wd.snap /\ p.old = wd.returned

(* What the shim is called with: the bytes, and as a nonce the index of    *)
(* the next request.                                                       *)
Message(data, nonce) == [data |-> data, nonce |-> nonce, at |-> clock]

(* The bytes a transaction may be posted as: its signing preimage, or the  *)
(* sha256 of that, so that the leaf is the usual double hash.  The program *)
(* does not tell them apart.                                               *)
PostedForms(tx) == {Preimage(tx), Sha(Preimage(tx))}

(* process_withdrawal with proof p and `data' in the generic buffer.  The  *)
(* sighash in the new return output is the sha256 of the data;             *)
(* update_for_withdrawal appends it to the sent transactions.              *)
ProcessWithdrawal(p, data) ==
  /\ p \in proofs
  /\ MatchesPublicInputs(p)
  /\ wd' = [wd EXCEPT !.returned = p.tx.nr, !.processed = p.tx.to,
                      !.sent = Append(@, Sha(data))]
  /\ posted' = Append(posted, Message(data, p.tx.to))
  /\ UNCHANGED <<clock, proofs, replayed>>

(* process_replay_withdrawal_proof accepts a leaf of the sent tree, once   *)
(* the wait is over.                                                       *)
CanReplay(leaf) ==
  /\ \E i \in DOMAIN wd.sent : wd.sent[i] = leaf
  /\ wd.lastProcessed + ReplayWait <= clock

(* Faulty: the time of the replay is not kept. *)
ReplayUntimed(data) ==
  /\ CanReplay(Sha(Sha(data)))
  /\ replayed' = Append(replayed, Message(data, wd.processed))
  /\ UNCHANGED <<wd, clock, proofs, posted>>

(* process_replay_withdrawal.  The leaf has to be the double sha256 of the *)
(* data.  The increment of the time stamp in line 1089 compares a time in  *)
(* milliseconds with one in seconds and never applies.                     *)
ReplayWithdrawal(data) ==
  /\ CanReplay(Sha(Sha(data)))
  /\ wd' = [wd EXCEPT !.lastProcessed = clock]
  /\ replayed' = Append(replayed, Message(data, wd.processed))
  /\ UNCHANGED <<clock, proofs, posted>>

(* get_total_finalized_fees *)
TotalFinalizedFees(manualFees) ==
  manualFees + wd.fees + HeaderFees[header.height]

(* operator_withdraw_fees, up to the mint of the difference. *)
OperatorWithdrawFees(manualFees) ==
  /\ TotalFinalizedFees(manualFees) > wd.feesWithdrawn
  /\ wd' = [wd EXCEPT !.feesWithdrawn = TotalFinalizedFees(manualFees)]
  /\ UNCHANGED <<clock, proofs, posted, replayed>>

(* Time passes, half a waiting time at a step. *)
Tick ==
  /\ clock < MaxTime
  /\ clock' = clock + ReplayWait \div 2
  /\ UNCHANGED <<wd, proofs, posted, replayed>>
=============================================================================
