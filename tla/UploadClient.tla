----------------------------- MODULE UploadClient -----------------------------
(***************************************************************************)
(* The half that all uploads to a buffer account share: a client works     *)
(* through stages, each of them a set of instructions which it sends at    *)
(* the same time and joins (try_join_all); every instruction is one        *)
(* transaction, retried when it fails (RetryExecutor).  When an            *)
(* instruction is given up the upload returns an error, and the operator   *)
(* starts it again.                                                        *)
(*                                                                         *)
(* The network can hide what became of a transaction: the client then      *)
(* retries, or dies, while the transaction may still land.  `inflight'     *)
(* holds every transaction that may still land.  A transaction changes     *)
(* the account as a whole or not at all, and lands at most once.           *)
(***************************************************************************)
EXTENDS Naturals, Sequences, FiniteSets, Functions

CONSTANTS
  Jobs,         \* the uploads the operator has to make, in order
  MaxRetries,   \* RetryConfig::max_retries
  MaxFaults     \* bound: lost replies and crashes in a behaviour

UploadClientConstants ==
  /\ Len(Jobs) > 0
  /\ MaxRetries \in Nat
  /\ MaxFaults \in Nat

VARIABLES
  session,      \* the upload in progress
  inflight,     \* transactions that may still land
  faults        \* how many lost replies and crashes have happened

clientVars == <<session, inflight, faults>>

NoCalls == [c \in {} |-> 0]

ClientInit ==
  /\ session = [state |-> "idle", job |-> 1, n |-> 0, stages |-> <<>>,
                waiting |-> NoCalls]
  /\ inflight = {}
  /\ faults = 0

Job == Jobs[session.job]
Working == session.state = "running"

(* The calls of a list, at most `window' of them at the same time. *)
Batched(calls, window) ==
  [i \in 1..((Len(calls) + window - 1) \div window) |->
     {calls[k] : k \in ((i - 1) * window + 1)..
                       (IF i * window < Len(calls) THEN i * window ELSE Len(calls))}]

Transactions(n, waiting) ==
  {[n |-> n, call |-> c, try |-> waiting[c]] : c \in DOMAIN waiting}

(* The client still waits for this very transaction. *)
Awaited(t) ==
  /\ Working
  /\ t.n = session.n
  /\ t.call \in DOMAIN session.waiting
  /\ session.waiting[t.call] = t.try

-----------------------------------------------------------------------------
Begin ==
  /\ session.state = "idle"
  /\ session.job <= Len(Jobs)
  /\ session' = [session EXCEPT !.state = "ensure",
                   !.n = CHOOSE k \in 0..Cardinality(inflight) :
                           \A t \in inflight : t.n # k]
  /\ UNCHANGED <<inflight, faults>>

(* The account has been read: the stages of this upload are known. *)
Plan(stages) ==
  /\ session.state = "ensure"
  /\ session' = [session EXCEPT !.state = "running", !.stages = stages]
  /\ UNCHANGED <<inflight, faults>>

(* All calls of a stage are confirmed: send the next, or return Ok. *)
NextStage ==
  /\ Working
  /\ session.waiting = NoCalls
  /\ IF session.stages = <<>>
     THEN /\ session' = [session EXCEPT !.state = "returned"]
          /\ UNCHANGED inflight
     ELSE LET waiting == [c \in Head(session.stages) |-> 0] IN
          /\ session' = [session EXCEPT !.stages = Tail(@), !.waiting = waiting]
          /\ inflight' = inflight \cup Transactions(session.n, waiting)
  /\ UNCHANGED faults

Abandoned == [session EXCEPT !.state = "idle", !.stages = <<>>, !.waiting = NoCalls]

(* RetryExecutor::execute after an error: every error of an RPC call,      *)
(* a refused transaction included, is retryable.  When the retries are     *)
(* used up the joined call fails, and the whole upload with it.            *)
Retry(t, others) ==
  IF t.try < MaxRetries
  THEN /\ session' = [session EXCEPT !.waiting[t.call] = t.try + 1]
       /\ inflight' = others \cup {[t EXCEPT !.try = @ + 1]}
  ELSE /\ session' = Abandoned
       /\ inflight' = others

(* Transaction t was executed; its client learns it if it still waits. *)
Landed(t) ==
  /\ inflight' = inflight \ {t}
  /\ session' = IF Awaited(t)
                THEN [session EXCEPT !.waiting =
                        Restrict(@, DOMAIN @ \ {t.call})]
                ELSE session
  /\ UNCHANGED faults

(* The waits between the retries of one call (exponential backoff, two and *)
(* a half minutes in all) are longer than a blockhash is valid: when the   *)
(* last retry is refused, only retries can still be in flight.             *)
Outlived(t) ==
  Awaited(t) /\ MaxRetries > 0 /\ t.try = MaxRetries =>
    \A o \in inflight \ {t} : o.n = t.n /\ o.try > 0

(* Transaction t was refused by the program. *)
Refused(t) ==
  /\ Outlived(t)
  /\ IF Awaited(t)
     THEN Retry(t, inflight \ {t})
     ELSE inflight' = inflight \ {t} /\ UNCHANGED session
  /\ UNCHANGED faults

(* The RPC node answers with an error although t may still land. *)
LoseReply(t) ==
  /\ Awaited(t)
  /\ faults < MaxFaults
  /\ Retry(t, inflight)
  /\ faults' = faults + 1

(* The blockhash of a transaction nobody waits for has expired. *)
Expire(t) ==
  /\ ~Awaited(t)
  /\ inflight' = inflight \ {t}
  /\ UNCHANGED <<session, faults>>

(* The client process dies and is started again. *)
Crash ==
  /\ session.state \in {"ensure", "running", "returned"}
  /\ faults < MaxFaults
  /\ session' = Abandoned
  /\ faults' = faults + 1
  /\ UNCHANGED inflight

(* The instruction that reads the buffer is sent.  If it is refused the    *)
(* operator gets an error and starts over.                                 *)
Consume(ok) ==
  /\ session.state = "returned"
  /\ session' = [Abandoned EXCEPT !.job = IF ok THEN @ + 1 ELSE @]
  /\ UNCHANGED <<inflight, faults>>

AllAccepted == session.job > Len(Jobs)

(* Everything a client does without the program. *)
ClientStep ==
  \/ Begin
  \/ NextStage
  \/ \E t \in inflight : LoseReply(t) \/ Expire(t)
  \/ Crash
=============================================================================
