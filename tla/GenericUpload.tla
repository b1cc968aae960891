---------------------------- MODULE GenericUpload ----------------------------
(***************************************************************************)
(* create_generic_buffer and the generic-buffer program.  Every upload     *)
(* makes a fresh account, so that a transaction of an earlier upload can   *)
(* only touch an account nobody reads any more.  The reader is             *)
(* process_withdrawal, which hashes the whole body.  A job is a sequence   *)
(* of chunks; the account's bytes are cells of one chunk.                  *)
(***************************************************************************)
EXTENDS Naturals, Sequences, Functions

CONSTANTS
  GenericJobs,      \* the byte strings that are uploaded, in order
  Blank,            \* a chunk of zero bytes
  MaxIncrease,      \* MAX_PERMITTED_DATA_INCREASE, in chunks
  GenericClients,   \* the upload code in use: "parallel", "sequential", "js"
  GenericWindow,    \* ParallelismConfig::max_concurrent_writes
  GenericRetries,   \* RetryConfig::max_retries
  GenericFaults     \* bound: lost replies and crashes in a behaviour

VARIABLES
  account,          \* the account of the current upload
  uploading, underway, mishaps    \* the client

Upload == INSTANCE UploadClient WITH
  Jobs <- GenericJobs, MaxRetries <- GenericRetries, MaxFaults <- GenericFaults,
  session <- uploading, inflight <- underway, faults <- mishaps

GenericUploadConstants ==
  /\ Upload!UploadClientConstants
  /\ GenericJobs \in Seq(Range(GenericJobs))
  /\ \A i \in 1..Len(GenericJobs) : GenericJobs[i] \in Seq(Range(GenericJobs[i]))
  /\ MaxIncrease \in Nat
  /\ GenericClients \subseteq {"parallel", "sequential", "js"}
  /\ GenericWindow \in Nat \ {0}

ASSUME GenericUploadAssumption == GenericUploadConstants

genericClientVars == <<uploading, underway, mishaps>>
genericVars == <<account, genericClientVars>>

NoAccount == [created |-> FALSE, body |-> <<>>]

(* realloc_account, as far as one instruction may go. *)
GrownTo(body, len) ==
  LET new == IF len > Len(body) + MaxIncrease THEN Len(body) + MaxIncrease ELSE len IN
  [i \in 1..new |-> IF i <= Len(body) THEN body[i] ELSE Blank]

(* create_account and tag 0 in one transaction. *)
CreateAndInit(c) ==
  /\ ~account.created
  /\ account' = [created |-> TRUE, body |-> GrownTo(<<>>, c.len)]

(* Faulty: sets the account's length to where the write ends. *)
WriteDataResizes(c) ==
  LET body == GrownTo(account.body, c.offset + 1)
  IN  /\ account.created
      /\ c.offset < Len(body)
      /\ account' = [account EXCEPT !.body = [body EXCEPT ![c.offset + 1] = c.data]]

(* Tag 2: grows the account to hold the write, never shrinks it. *)
WriteData(c) ==
  LET body == IF c.offset < Len(account.body) THEN account.body
              ELSE GrownTo(account.body, c.offset + 1)
  IN  /\ account.created
      /\ c.offset < Len(body)
      /\ account' = [account EXCEPT !.body = [body EXCEPT ![c.offset + 1] = c.data]]

-----------------------------------------------------------------------------
CreateCall(job) == [op |-> "create", len |-> Len(job)]

WriteCalls(job) ==
  [i \in 1..Len(job) |-> [op |-> "write", offset |-> i - 1, data |-> job[i]]]

(* ParallelBufferManager::create_generic_buffer *)
GenericParallelStages(job) ==
  <<{CreateCall(job)}>> \o Upload!Batched(WriteCalls(job), GenericWindow)

(* BufferManager::create_generic_buffer *)
GenericSequentialStages(job) ==
  <<{CreateCall(job)}>> \o [i \in 1..Len(job) |-> {WriteCalls(job)[i]}]

(* createGenericBuffer of the TypeScript client *)
GenericJsStages(job) == GenericSequentialStages(job)

(* The key pair of the new account is made here. *)
GenericPlan ==
  /\ \E client \in GenericClients :
       Upload!Plan(
         CASE client = "parallel"   -> GenericParallelStages(Upload!Job)
           [] client = "sequential" -> GenericSequentialStages(Upload!Job)
           [] client = "js"         -> GenericJsStages(Upload!Job))
  /\ account' = NoAccount

GenericExecute(c) ==
  \/ c.op = "create" /\ CreateAndInit(c)
  \/ c.op = "write" /\ WriteData(c)

(* The program returns an error. *)
GenericRejects(c) == ~ENABLED GenericExecute(c)

GenericLand(t) ==
  \/ t.n = uploading.n /\ GenericExecute(t.call) /\ Upload!Landed(t)
  \/ /\ t.n = uploading.n
     /\ GenericRejects(t.call) /\ Upload!Refused(t) /\ UNCHANGED account
  \/ t.n # uploading.n /\ Upload!Landed(t) /\ UNCHANGED account

Holds(job) == account.created /\ account.body = job

ProcessWithdrawal == Upload!Consume(Holds(Upload!Job)) /\ UNCHANGED account

GenericInit == account = NoAccount /\ Upload!ClientInit

GenericNext ==
  \/ Upload!ClientStep /\ UNCHANGED account
  \/ GenericPlan
  \/ \E t \in underway : GenericLand(t)
  \/ ProcessWithdrawal

GenericSpec == GenericInit /\ [][GenericNext]_genericVars

(* What the client does next, unless it waits for an answer. *)
GenericRuns ==
  \/ (Upload!Begin \/ Upload!NextStage) /\ UNCHANGED account
  \/ GenericPlan
  \/ ProcessWithdrawal

(* A transaction the client waits for is executed or refused. *)
GenericAnswered == \E t \in underway : Upload!Awaited(t) /\ GenericLand(t)

(* One nobody waits for does not stay in flight for ever. *)
GenericForgotten == \E t \in underway : Upload!Expire(t) /\ UNCHANGED account

GenericFairSpec ==
  /\ GenericSpec
  /\ WF_genericVars(GenericRuns)
  /\ WF_genericVars(GenericAnswered)
  /\ WF_genericVars(GenericForgotten)
-----------------------------------------------------------------------------
(* When create_generic_buffer returns Ok the account holds the bytes and   *)
(* nothing else, in whatever order the concurrent writes were executed and *)
(* however often each of them was repeated.                                *)
BytesAreExact == uploading.state = "returned" => Holds(Upload!Job)

(* Every list of bytes gets uploaded, longer than one instruction can grow *)
(* the account or not.                                                     *)
BytesAreAccepted == <>Upload!AllAccepted
=============================================================================
