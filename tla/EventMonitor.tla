----------------------------- MODULE EventMonitor -----------------------------
(***************************************************************************)
(* BridgeMonitor and NoopShimMonitor, the clients through which an         *)
(* operator learns of withdrawal requests and of posted withdrawals.  A    *)
(* consumer either starts a monitor and receives events from its channel   *)
(* (Live), or asks from time to time for everything since the last event   *)
(* it knows of (CatchUp: fetch_since, fetch_bridge_events_since).          *)
(*                                                                         *)
(* The two monitors poll in the same way and differ in what they report.   *)
(***************************************************************************)
EXTENDS SignatureFeed

CONSTANTS
  Uses,         \* [monitor, mode]: which monitor a consumer uses, and how
  Limit,        \* the limit of fetch_since; more than MaxChain for None
  KeepsPace,    \* no more than a batch happens between two polls
  MaxFaults     \* bound: RPC errors and aborted monitors

MonitorConstants ==
  /\ FeedConstants
  /\ Uses \subseteq [monitor : {"bridge", "shim"}, mode : {"live", "catch_up"}]
                \cup {[monitor |-> "shim", mode |-> "pages"]}
  /\ Limit \in Nat \ {0}
  /\ KeepsPace \in BOOLEAN /\ MaxFaults \in Nat

ASSUME MonitorAssumption == MonitorConstants

VARIABLES
  reader,       \* [monitor, mode, state, after, before, work]: the monitor's task
  delivered,    \* the events the consumer has received
  faults

monitorVars == <<reader, delivered, faults>>

(* parse_transaction_static of BridgeMonitor looks at the instructions of  *)
(* the transaction itself, whether it succeeded or not.                    *)
BridgeEvents == {"request", "failed", "process"}

(* parse_transaction_static of NoopShimMonitor looks at the calls inside,  *)
(* and its callers at the emitter.                                         *)
ShimMessages == {"message"}

Events == IF reader.monitor = "bridge" THEN BridgeEvents ELSE ShimMessages

(* The consumer's checkpoint: the last event it received. *)
LastDelivered == IF delivered = <<>> THEN 0 ELSE LastOf(delivered)

MonitorInit ==
  /\ FeedInit
  /\ \E u \in Uses :
       reader = [monitor |-> u.monitor, mode |-> u.mode, state |-> "stopped",
                 after |-> 0, before |-> 0, work |-> <<>>]
  /\ delivered = <<>>
  /\ faults = 0

MonitoredTransaction ==
  /\ Land
  /\ KeepsPace => Len(chain) < reader.after + BatchSize
  /\ UNCHANGED <<reader, delivered, faults>>
-----------------------------------------------------------------------------
(* start(): from the last event the consumer knows of. *)
Start ==
  /\ reader.state = "stopped"
  /\ reader' = [reader EXCEPT !.state = "running", !.after = LastDelivered]
  /\ UNCHANGED <<chain, delivered, faults>>

(* Faulty: events are sent as the node lists them. *)
PollNewestFirst ==
  LET sigs == Signatures(reader.after, Top, BatchSize) IN
  /\ reader.state = "running"
  /\ reader.work = <<>> /\ sigs # <<>>
  /\ reader' = [reader EXCEPT !.after = Head(sigs), !.work = sigs]
  /\ UNCHANGED <<chain, delivered, faults>>

(* poll_once, up to the loop: the checkpoint is the newest signature       *)
(* before any transaction is looked at.                                    *)
PollOnce ==
  LET sigs == Signatures(reader.after, Top, BatchSize) IN
  /\ reader.state = "running"
  /\ reader.work = <<>> /\ sigs # <<>>
  /\ reader' = [reader EXCEPT !.after = Head(sigs), !.work = Reversed(sigs)]
  /\ UNCHANGED <<chain, delivered, faults>>

(* One turn of the loop: fetch, parse, send.  (When the receiver is gone   *)
(* the rest of the batch is dropped, and nobody misses it.)                *)
Process ==
  /\ reader.state = "running"
  /\ reader.work # <<>>
  /\ delivered' = delivered \o Reported(<<Head(reader.work)>>, Events)
  /\ reader' = [reader EXCEPT !.work = Tail(@)]
  /\ UNCHANGED <<chain, faults>>

(* A transaction cannot be fetched or decoded: poll_once returns the       *)
(* error, monitor_loop logs it and polls again.  (An error of the list of  *)
(* signatures changes nothing.)                                            *)
PollError ==
  /\ reader.state = "running"
  /\ reader.work # <<>>
  /\ faults < MaxFaults
  /\ faults' = faults + 1
  /\ reader' = [reader EXCEPT !.work = <<>>]
  /\ UNCHANGED <<chain, delivered>>

(* MonitorHandle::stop takes effect between polls, abort anywhere. *)
Stop ==
  /\ reader.state = "running"
  /\ faults < MaxFaults
  /\ faults' = faults + 1
  /\ reader' = [reader EXCEPT !.state = "stopped", !.work = <<>>]
  /\ UNCHANGED <<chain, delivered>>

NextLive ==
  /\ reader.mode = "live"
  /\ Start \/ PollOnce \/ Process \/ PollError \/ Stop

(* The monitor's task is scheduled, and the node answers. *)
MonitorRuns == Start \/ PollOnce \/ Process
-----------------------------------------------------------------------------
(* A call of fetch_since begins at the newest transaction. *)
FetchSince ==
  /\ reader.state = "stopped"
  /\ reader' = [reader EXCEPT !.state = "fetching", !.before = Top]
  /\ UNCHANGED <<chain, delivered, faults>>

NextPage ==
  Signatures(reader.after, reader.before,
             IF BatchSize < Limit - Len(reader.work) THEN BatchSize
             ELSE Limit - Len(reader.work))

Unfinished == Len(reader.work) < Limit /\ NextPage # <<>>

(* One turn of its loop: a page further back. *)
FetchPage ==
  /\ reader.state = "fetching"
  /\ Unfinished
  /\ reader' = [reader EXCEPT !.work = @ \o Reported(NextPage, Events),
                              !.before = LastOf(NextPage)]
  /\ UNCHANGED <<chain, delivered, faults>>

(* The events are returned oldest first; the last one is the signature to  *)
(* go on from.                                                             *)
FetchReturn ==
  /\ reader.state = "fetching"
  /\ ~Unfinished
  /\ delivered' = delivered \o Reversed(reader.work)
  /\ reader' = [reader EXCEPT !.state = "stopped", !.work = <<>>,
                  !.after = IF reader.work = <<>> THEN @ ELSE Head(reader.work)]
  /\ UNCHANGED <<chain, faults>>

(* Faulty: after an error, what was fetched so far is returned. *)
FetchPartly ==
  /\ reader.state = "fetching"
  /\ faults < MaxFaults
  /\ faults' = faults + 1
  /\ delivered' = delivered \o Reversed(reader.work)
  /\ reader' = [reader EXCEPT !.state = "stopped", !.work = <<>>,
                  !.after = IF reader.work = <<>> THEN @ ELSE Head(reader.work)]
  /\ UNCHANGED chain

(* An RPC error anywhere: the call returns nothing but the error. *)
FetchError ==
  /\ reader.state = "fetching"
  /\ faults < MaxFaults
  /\ faults' = faults + 1
  /\ reader' = [reader EXCEPT !.state = "stopped", !.work = <<>>]
  /\ UNCHANGED <<chain, delivered>>

NextCatchUp ==
  /\ reader.mode = "catch_up"
  /\ FetchSince \/ FetchPage \/ FetchReturn \/ FetchError

NextBridge == reader.monitor = "bridge" /\ (NextLive \/ NextCatchUp)
-----------------------------------------------------------------------------
Seen == {i \in 1..reader.after : chain[i] \in Events}

(* Events reach the consumer in the order in which they happened and never *)
(* twice, although a batch is fetched newest first and a monitor may be    *)
(* aborted in the middle of one and started again.                         *)
DeliveredInOrder == reader.mode # "pages" => Increasing(delivered)

(* As long as no more than a batch of transactions happens between two     *)
(* polls and the node answers, the consumer receives every event.          *)
EventsArrive ==
  \A i \in 1..MaxChain :
    (i <= Len(chain) /\ chain[i] \in Events) ~> (i \in Range(delivered))

(* A consumer that goes on from the signature it was given has every event *)
(* up to that signature, whatever happened while pages were fetched and    *)
(* whichever calls failed.                                                 *)
CaughtUp ==
  reader.mode = "catch_up" /\ reader.state = "stopped" =>
    Seen \subseteq Range(delivered)

(* "Returns a receiver that will receive all bridge events": an event the  *)
(* monitor has gone past was sent, or is about to be.                      *)
NothingSkipped ==
  reader.state = "running" =>
    Seen \subseteq Range(delivered) \cup Range(reader.work)

(* "A user requested a withdrawal (burned tokens)": what is reported       *)
(* happened.                                                               *)
ReportedHappened == \A i \in Range(delivered) : chain[i] # "failed"

(* The monitor reports withdrawal requests, processed withdrawals,         *)
(* manually claimed deposits and block transitions.                        *)
EveryKindReported ==
  reader.work = <<>> /\ reader.state = "running" =>
    \A i \in 1..reader.after :
      chain[i] \in {"request", "process", "claim", "block"} => i \in Range(delivered)
=============================================================================
