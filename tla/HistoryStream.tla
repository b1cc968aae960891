---------------------------- MODULE HistoryStream ----------------------------
(***************************************************************************)
(* HistorySync::stream_history: a task collects the signatures after a     *)
(* checkpoint, page by page, and then sends a record for each transaction, *)
(* oldest first, together with checkpoints from which a later call can     *)
(* resume.  The consumer keeps the records in a database and saves a       *)
(* checkpoint once it has the record the checkpoint names; when it dies,   *)
(* what is in the two channels is lost and it resumes from the checkpoint  *)
(* it saved.                                                               *)
(***************************************************************************)
EXTENDS SignatureFeed, FiniteSets

CONSTANTS
  ChannelSize,    \* the capacity of the record channel, 1000
  MaxCrashes,     \* bound: deaths of the consumer
  MaxErrors       \* bound: transactions the RPC node does not return

HistoryStreamConstants ==
  /\ FeedConstants
  /\ ChannelSize \in Nat \ {0}
  /\ MaxCrashes \in Nat /\ MaxErrors \in Nat

ASSUME HistoryStreamAssumption == HistoryStreamConstants

VARIABLES
  task,           \* [state, before, todo, at]: stream_loop and its checkpoint
  channel,        \* records sent and not received
  offer,          \* the checkpoint in its one-place channel; 0: none
  received,       \* the records in the consumer's database
  saved,          \* the checkpoint the consumer saved
  crashes,        \* deaths of the consumer so far
  lost            \* history: transactions the node did not return

streamVars == <<task, channel, offer, received, saved, crashes, lost>>

(* process_transaction: transactions that call the bridge themselves. *)
Recorded == {"request", "failed", "process", "block"}

NoTask == [state |-> "idle", before |-> 0, todo |-> <<>>, at |-> 0]

StreamInit ==
  /\ FeedInit
  /\ task = NoTask /\ channel = <<>> /\ offer = 0
  /\ received = {} /\ saved = 0
  /\ crashes = 0 /\ lost = {}

StreamTransaction == Land /\ UNCHANGED streamVars

StreamHistory ==
  /\ task.state = "idle" /\ channel = <<>>
  /\ task' = [state |-> "collecting", before |-> Top, todo |-> <<>>, at |-> saved]
  /\ offer' = 0
  /\ UNCHANGED <<chain, channel, received, saved, crashes, lost>>

(* Faulty: the list is gone through as it was collected. *)
CollectNewestFirst ==
  LET sigs == Signatures(task.at, task.before, BatchSize) IN
  /\ task.state = "collecting"
  /\ task' = IF sigs = <<>> THEN [task EXCEPT !.state = "sending"]
             ELSE [task EXCEPT !.todo = @ \o sigs, !.before = LastOf(sigs)]
  /\ UNCHANGED <<chain, channel, offer, received, saved, crashes, lost>>

(* One page of collect_all_signatures.  The list is newest first; it is    *)
(* kept here in the order in which stream_loop goes through it.            *)
CollectPage ==
  LET sigs == Signatures(task.at, task.before, BatchSize) IN
  /\ task.state = "collecting"
  /\ task' = IF sigs = <<>> THEN [task EXCEPT !.state = "sending"]
             ELSE [task EXCEPT !.todo = Reversed(sigs) \o @, !.before = LastOf(sigs)]
  /\ UNCHANGED <<chain, channel, offer, received, saved, crashes, lost>>

(* Faulty: a failed send of a checkpoint ends the stream. *)
ProcessUntilOffered ==
  LET sig == Head(task.todo) IN
  /\ task.state = "sending" /\ task.todo # <<>>
  /\ offer = 0
  /\ IF chain[sig] \in Recorded
     THEN /\ Len(channel) < ChannelSize
          /\ channel' = Append(channel, sig)
          /\ offer' = sig
     ELSE UNCHANGED <<channel, offer>>
  /\ task' = [task EXCEPT !.todo = Tail(@), !.at = sig]
  /\ UNCHANGED <<chain, received, saved, crashes, lost>>

(* One turn of the loop of stream_loop: the record is sent, then the       *)
(* checkpoint with try_send, which drops it while an older one is waiting. *)
ProcessTransaction ==
  LET sig == Head(task.todo) IN
  /\ task.state = "sending" /\ task.todo # <<>>
  /\ IF chain[sig] \in Recorded
     THEN /\ Len(channel) < ChannelSize
          /\ channel' = Append(channel, sig)
          /\ offer' = IF offer = 0 THEN sig ELSE offer
     ELSE UNCHANGED <<channel, offer>>
  /\ task' = [task EXCEPT !.todo = Tail(@), !.at = sig]
  /\ UNCHANGED <<chain, received, saved, crashes, lost>>

(* An RPC error for one transaction: a warning, and on to the next. *)
TransactionError ==
  /\ task.state = "sending" /\ task.todo # <<>>
  /\ Cardinality(lost) < MaxErrors /\ lost' = lost \cup {Head(task.todo)}
  /\ task' = [task EXCEPT !.todo = Tail(@)]
  /\ UNCHANGED <<chain, channel, offer, received, saved, crashes>>

(* The list is done: the task ends.  The consumer calls again. *)
Finish ==
  /\ task.state = "sending" /\ task.todo = <<>>
  /\ task' = NoTask
  /\ UNCHANGED <<chain, channel, offer, received, saved, crashes, lost>>
-----------------------------------------------------------------------------
Receive ==
  /\ channel # <<>>
  /\ received' = received \cup {Head(channel)}
  /\ channel' = Tail(channel)
  /\ UNCHANGED <<chain, task, offer, saved, crashes, lost>>

(* get_checkpoint *)
SaveCheckpoint ==
  /\ offer # 0 /\ offer \in received
  /\ saved' = offer
  /\ offer' = 0
  /\ UNCHANGED <<chain, task, channel, received, crashes, lost>>

ConsumerDies ==
  /\ task.state # "idle" \/ channel # <<>>
  /\ crashes < MaxCrashes /\ crashes' = crashes + 1
  /\ task' = NoTask /\ channel' = <<>> /\ offer' = 0
  /\ UNCHANGED <<chain, received, saved, lost>>

StreamNext ==
  \/ StreamTransaction \/ StreamHistory \/ CollectPage \/ ProcessTransaction
  \/ TransactionError \/ Finish \/ Receive \/ SaveCheckpoint \/ ConsumerDies

StreamSpec == StreamInit /\ [][StreamNext]_<<chain, streamVars>>

(* The task runs, and the consumer streams again when a stream has ended. *)
TaskRuns == StreamHistory \/ CollectPage \/ ProcessTransaction \/ Finish

StreamFairSpec ==
  StreamSpec /\ WF_streamVars(TaskRuns) /\ WF_streamVars(Receive)
-----------------------------------------------------------------------------
RecordsUpTo(n) == {i \in 1..n : chain[i] \in Recorded}

(* Whenever the consumer dies, every record up to the checkpoint it        *)
(* resumes from is in its database, except for transactions the node did   *)
(* not return.                                                             *)
NothingBeforeCheckpointMissing == RecordsUpTo(saved) \subseteq received \cup lost

(* "Checkpoint support for resumable syncs": the same without exception.   *)
CheckpointIsComplete == RecordsUpTo(saved) \subseteq received

(* Every transaction on the chain ends up in the database, although the    *)
(* consumer dies between records and stale checkpoints are offered.        *)
HistoryComplete ==
  \A i \in 1..MaxChain :
    (i <= Len(chain) /\ chain[i] \in Recorded) ~> (i \in received \cup lost)
=============================================================================
