------------------------------ MODULE TxoUpload ------------------------------
(***************************************************************************)
(* create_txo_buffer: the operator uploads the list of outputs of a block  *)
(* to its txo buffer, and the block update of the bridge reads it.  A job  *)
(* is [height, data], the data a sequence of chunks.                       *)
(***************************************************************************)
EXTENDS TxoBuffer, UploadClient

CONSTANTS
  Operator,     \* the key whose buffer it is
  Payer,        \* the key that pays for the transactions
  Clients,      \* the upload code in use: "parallel", "sequential", "js"
  Window        \* ParallelismConfig::max_concurrent_writes

TxoUploadConstants ==
  /\ UploadClientConstants
  /\ Jobs \in Seq(Range(Jobs))
  /\ \A i \in 1..Len(Jobs) :
       /\ Jobs[i].height \in Nat
       /\ Jobs[i].data \in Seq(Range(Jobs[i].data))
       /\ Jobs[i].data # <<>>   \* only a block with deposits has a list
  /\ MaxGrow \in Nat
  /\ Operator # NoKey
  /\ Clients \subseteq {"parallel", "sequential", "js"}
  /\ Window \in Nat \ {0}

ASSUME TxoUploadAssumption == TxoUploadConstants

txoVars == <<txo, clientVars>>

(* The key that signs as second account of a call.  The builder puts the   *)
(* payer there in set_len, the writer in the other two.                    *)
SignerOf(c) == IF c.op = "set_len" THEN Payer ELSE Operator

SetLen(job, batch, resize, finalize) ==
  [op |-> "set_len", len |-> Len(job.data), resize |-> resize,
   batch |-> batch, height |-> job.height, finalize |-> finalize]

(* TxoBufferBuilder::chunks *)
Chunks(job, batch) ==
  [i \in 1..Len(job.data) |->
     [op |-> "write", batch |-> batch, offset |-> i - 1, data |-> job.data[i]]]

InitCalls == IF txo.writer = NoKey THEN <<{[op |-> "init"]}>> ELSE <<>>

(* ensure_txo_buffer_exists: the batch the upload will use. *)
NextBatch == IF txo.writer = NoKey THEN 0 ELSE txo.batch + 1

(* ParallelBufferManager::create_txo_buffer *)
ParallelStages(job, batch) ==
  <<{SetLen(job, batch, TRUE, FALSE)}>>
     \o Batched(Chunks(job, batch), Window)
     \o <<{SetLen(job, batch, FALSE, TRUE)}>>

(* BufferManager::create_txo_buffer: one call after the other. *)
SequentialStages(job, batch) ==
  <<{SetLen(job, batch, TRUE, FALSE)}>>
     \o [i \in 1..Len(job.data) |-> {Chunks(job, batch)[i]}]
     \o <<{SetLen(job, batch, FALSE, TRUE)}>>

(* createTxoBuffer of the TypeScript client, which does the same. *)
JsStages(job, batch) == SequentialStages(job, batch)

PlanUpload ==
  /\ \E client \in Clients :
       Plan(InitCalls \o
            CASE client = "parallel"   -> ParallelStages(Job, NextBatch)
              [] client = "sequential" -> SequentialStages(Job, NextBatch)
              [] client = "js"         -> JsStages(Job, NextBatch))
  /\ UNCHANGED txo

(* process_instruction of the program. *)
Execute(c) ==
  \/ c.op = "init" /\ TxoInitialize(Operator)
  \/ c.op = "set_len" /\ TxoSetDataLength(SignerOf(c), c)
  \/ c.op = "write" /\ TxoWriteData(SignerOf(c), c)

(* The program returns an error. *)
Rejects(c) == ~ENABLED Execute(c)

Land(t) ==
  \/ Execute(t.call) /\ Landed(t)
  \/ Rejects(t.call) /\ Refused(t) /\ UNCHANGED txo

(* What run_block_transition requires of the buffer: the height, a length, *)
(* and the hash of as many bytes as the proof says.                        *)
Readable(job) ==
  /\ txo.height = job.height
  /\ txo.size # 0
  /\ Len(txo.body) >= Len(job.data)
  /\ SubSeq(txo.body, 1, Len(job.data)) = job.data

BlockUpdate == Consume(Readable(Job)) /\ UNCHANGED txo

TxoInit == txo = NoTxoBuffer /\ ClientInit

TxoNext ==
  \/ ClientStep /\ UNCHANGED txo
  \/ PlanUpload
  \/ \E t \in inflight : Land(t)
  \/ BlockUpdate

TxoSpec == TxoInit /\ [][TxoNext]_txoVars

(* What the client does next, unless it waits for an answer. *)
ClientRuns ==
  \/ (Begin \/ NextStage) /\ UNCHANGED txo
  \/ PlanUpload
  \/ BlockUpdate

(* A transaction the client waits for is executed or refused. *)
Answered == \E t \in inflight : Awaited(t) /\ Land(t)

(* One nobody waits for does not stay in flight for ever. *)
Forgotten == \E t \in inflight : Expire(t) /\ UNCHANGED txo

TxoFairSpec ==
  /\ TxoSpec
  /\ WF_txoVars(ClientRuns)
  /\ WF_txoVars(Answered)
  /\ WF_txoVars(Forgotten)
-----------------------------------------------------------------------------
(* When create_txo_buffer returns Ok the buffer holds the list of the      *)
(* block, all of it and for its height, whatever transactions of earlier   *)
(* attempts and earlier uploads (timed out, or of a client that died) were *)
(* executed in between or will be.                                         *)
ReturnedIsReadable == session.state = "returned" => Readable(Job)

(* A buffer marked finalized holds one upload completely: never a mixture  *)
(* of an abandoned upload and the one that followed it.                    *)
FinalizedIsOneUpload ==
  txo.finalized =>
    \E i \in DOMAIN Jobs :
      Readable(Jobs[i]) /\ txo.size = Len(Jobs[i].data)

(* The two together: what the client reports and what the flag says are    *)
(* both true of the bytes in the account.                                  *)
BufferIsWhole == ReturnedIsReadable /\ FinalizedIsOneUpload

(* Every list is eventually uploaded and accepted by the bridge: no fault  *)
(* leaves the buffer in a state from which uploads are refused for ever.   *)
ListsAreAccepted == <>AllAccepted
=============================================================================
