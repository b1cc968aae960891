------------------------------ MODULE MintUpload ------------------------------
(***************************************************************************)
(* create_pending_mint_buffer: the operator stages the mints of a block in *)
(* its pending-mint buffer, and the bridge locks the buffer when it        *)
(* accepts the block.  A job is [blk, count].  Unlike the instructions of  *)
(* the txo buffer, reinit and insert do not say which upload they belong   *)
(* to.                                                                     *)
(***************************************************************************)
EXTENDS PendingMintBuffer, UploadClient

CONSTANTS
  Operator,     \* the key whose buffer it is
  Bridge,       \* the bridge's PDA, the locker
  Clients,      \* the upload code in use: "parallel", "sequential", "js"
  Window        \* ParallelismConfig::group_batch_size

vars == <<bufs, clientVars>>

Buffer == bufs[Operator]

SetupCalls == IF IsSetUp(Buffer) THEN <<>> ELSE <<{[op |-> "setup"]}>>

ReinitCall(job) == [op |-> "reinit", count |-> job.count]

(* PendingMintBufferBuilder::serialize_group *)
GroupData(job, g) ==
  [blk |-> job.blk, grp |-> g, len |-> MintsInGroup(job.count, g)]

InsertCalls(job) ==
  [i \in 1..MintGroups(job.count) |->
     [op |-> "insert", group |-> i - 1, data |-> GroupData(job, i - 1)]]

(* Faulty: the buffer is not started over. *)
StagesWithoutReinit(job) ==
  Batched(InsertCalls(job), Window)

(* ParallelBufferManager::create_pending_mint_buffer: nothing at all for   *)
(* an empty list.                                                          *)
ParallelStages(job) ==
  IF job.count = 0 THEN <<>>
  ELSE <<{ReinitCall(job)}>> \o Batched(InsertCalls(job), Window)

(* BufferManager::create_pending_mint_buffer *)
SequentialStages(job) ==
  <<{ReinitCall(job)}>>
     \o [i \in 1..MintGroups(job.count) |-> {InsertCalls(job)[i]}]

(* createPendingMintBuffer of the TypeScript client *)
JsStages(job) == SequentialStages(job)

PlanUpload ==
  /\ \E client \in Clients :
       Plan(SetupCalls \o
            CASE client = "parallel"   -> ParallelStages(Job)
              [] client = "sequential" -> SequentialStages(Job)
              [] client = "js"         -> JsStages(Job))
  /\ UNCHANGED bufs

Execute(c) ==
  \/ c.op = "setup" /\ Setup(Operator, Bridge)
  \/ c.op = "reinit" /\ Reinit(Operator, c.count)
  \/ c.op = "insert" /\ Insert(Operator, c.group, c.data)

Land(t) ==
  \/ Execute(t.call) /\ Landed(t)
  \/ ~ENABLED Execute(t.call) /\ Refused(t) /\ UNCHANGED bufs

(* What ensure_pending_mints_ready_for_transition and lock() require: the  *)
(* number of mints and the hashes of the groups the proof was made for.    *)
Lockable(job) ==
  \/ job.count = 0
  \/ /\ CanLock(Buffer, Bridge)
     /\ Buffer.count = job.count
     /\ \A g \in 0..(MintGroups(job.count) - 1) :
          GroupAt(Buffer, MintGroups(job.count), g) = GroupData(job, g)

BlockUpdate ==
  /\ Consume(Lockable(Job))
  /\ bufs' = IF Job.count # 0 /\ Lockable(Job)
             THEN [bufs EXCEPT ![Operator] = LockedBuffer(@)]
             ELSE bufs

(* The last group of the block has been minted. *)
MintsDone == Unlock(Operator, Bridge) /\ UNCHANGED clientVars

Init == BufInit /\ ClientInit

Next ==
  \/ ClientStep /\ UNCHANGED bufs
  \/ PlanUpload
  \/ \E t \in inflight : Land(t)
  \/ BlockUpdate
  \/ MintsDone

Spec == Init /\ [][Next]_vars

(* What the client does next, unless it waits for an answer. *)
ClientRuns ==
  \/ (Begin \/ NextStage) /\ UNCHANGED bufs
  \/ PlanUpload
  \/ BlockUpdate

(* A transaction the client waits for is executed or refused. *)
Answered == \E t \in inflight : Awaited(t) /\ Land(t)

(* One nobody waits for does not stay in flight for ever. *)
Forgotten == \E t \in inflight : Expire(t) /\ UNCHANGED bufs

FairSpec ==
  /\ Spec
  /\ WF_vars(ClientRuns)
  /\ WF_vars(Answered)
  /\ WF_vars(Forgotten)
  /\ WF_vars(MintsDone)
-----------------------------------------------------------------------------
(* Every list of mints is eventually staged and accepted, although         *)
(* instructions of abandoned uploads may still fill or empty the buffer    *)
(* under a later upload, and uploads begun while the previous block is     *)
(* still being minted are refused.                                         *)
UploadsAreAccepted == <>AllAccepted

(* When create_pending_mint_buffer returns Ok the buffer holds the list.   *)
(* It need not: a re-initialisation whose reply was lost, and which was    *)
(* therefore sent again, empties the buffer when it lands after the        *)
(* inserts.                                                                *)
ReturnedIsLockable == session.state = "returned" => Lockable(Job)
=============================================================================
