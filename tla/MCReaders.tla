------------------------------ MODULE MCReaders ------------------------------
(***************************************************************************)
(* The readers of the chain.  Each initial state chooses one `scenario':   *)
(*                                                                         *)
(*   "live"      a monitor that keeps pace with a node that answers        *)
(*   "errors"    the same with RPC errors and restarts                     *)
(*   "bursts"    more than a batch of transactions between two polls, and  *)
(*               fetch_since, again and again                              *)
(*   "shim"      the monitor of posted withdrawals, used in the three ways *)
(*   "claims"    a user's claim history                                    *)
(*   "stream"    the history stream and a consumer that dies               *)
(*   "blocks", "jit", "refused"  rebuilding blocks from the operator's     *)
(*               transactions: plainly, with uploads given up or made for  *)
(*               an auto-advance, and with block updates refused           *)
(***************************************************************************)
EXTENDS ShimMonitor, ClaimHistory, HistoryStream

CONSTANT Scenarios

VARIABLES scenario, log, op

blockVars == <<log, op>>
vars == <<scenario, chain, monitorVars, claimVars, streamVars, blockVars>>

Withdrawals == {"request", "other"}
Messages    == {"message", "foreign"}

Use(monitor, modes) == [monitor : {monitor}, mode : modes]

(* The monitor of "live". *)
LiveUse == Use("bridge", {"live"})

Errors == INSTANCE ShimMonitor WITH
  Kinds <- Withdrawals, MaxFaults <- 2

Bursts == INSTANCE ShimMonitor WITH
  Kinds <- Withdrawals, MaxChain <- 6, KeepsPace <- FALSE, MaxFaults <- 3,
  Uses <- Use("bridge", {"live", "catch_up"})

Shim == INSTANCE ShimMonitor WITH
  Kinds <- Messages, MaxChain <- 6, BatchSize <- 3, KeepsPace <- FALSE,
  MaxFaults <- 2, Uses <- Use("shim", {"live", "catch_up", "pages"})

Claim == INSTANCE ClaimHistory WITH
  Kinds <- {"claim", "failed"}, MaxChain <- 6

Stream == INSTANCE HistoryStream WITH
  Kinds <- {"block", "other"}, MaxChain <- 4

Block(h, groups, chunks) ==
  [height |-> h, groups |-> groups, chunks |-> chunks, use |-> "update"]
Advance(h, groups, chunks) ==
  [height |-> h, groups |-> groups, chunks |-> chunks, use |-> "advance"]

Plain == INSTANCE BlockHistory WITH
  Jobs <- <<Block(1, 2, 2), Block(2, 1, 1), Block(3, 3, 3)>>,
  Lookback <- 100, MaxAbandoned <- 0, MaxRefused <- 0

Jit == INSTANCE BlockHistory WITH
  Jobs <- <<Block(1, 2, 2), Advance(2, 2, 2), Block(3, 1, 3)>>,
  Lookback <- 100, MaxAbandoned <- 1, MaxRefused <- 0

Refused == INSTANCE BlockHistory WITH
  Jobs <- <<Block(1, 1, 1), Block(2, 1, 1)>>,
  Lookback <- 100, MaxAbandoned <- 2, MaxRefused <- 2

ASSUME ReaderConstants ==
  /\ Errors!ShimConstants /\ Bursts!ShimConstants /\ Shim!ShimConstants
  /\ Claim!ClaimHistoryConstants
  /\ Stream!HistoryStreamConstants
  /\ Plain!BlockHistoryConstants /\ Jit!BlockHistoryConstants
  /\ Refused!BlockHistoryConstants

Init ==
  /\ scenario \in Scenarios
  /\ \/ scenario = "bursts" /\ Bursts!MonitorInit
     \/ scenario = "shim" /\ Shim!MonitorInit
     \/ scenario \notin {"bursts", "shim"} /\ MonitorInit
  /\ ClaimInit /\ StreamInit /\ Plain!Init

Next ==
  /\ UNCHANGED scenario
  /\ \/ /\ \/ scenario = "live" /\ MonitorNext
           \/ scenario = "errors" /\ Errors!MonitorNext
           \/ scenario = "bursts" /\ Bursts!MonitorNext
           \/ scenario = "shim" /\ Shim!MonitorNext
        /\ UNCHANGED <<claimVars, streamVars, blockVars>>
     \/ /\ scenario = "claims" /\ Claim!ClaimNext
        /\ UNCHANGED <<monitorVars, streamVars, blockVars>>
     \/ /\ scenario = "stream" /\ Stream!StreamNext
        /\ UNCHANGED <<monitorVars, claimVars, blockVars>>
     \/ /\ \/ scenario = "blocks" /\ Plain!Next
           \/ scenario = "jit" /\ Jit!Next
           \/ scenario = "refused" /\ Refused!Next
        /\ UNCHANGED <<chain, monitorVars, claimVars, streamVars>>

Spec == Init /\ [][Next]_vars

(* The readers are scheduled as their modules say. *)
FairSpec ==
  /\ Spec
  /\ WF_reader(scenario = "live" /\ MonitorRuns)
  /\ WF_task(scenario = "stream" /\ Stream!TaskRuns)
  /\ WF_channel(scenario = "stream" /\ Receive)
-----------------------------------------------------------------------------
(* The blocks rebuilt from the operator's transactions are the staged      *)
(* ones: the mints when no other upload comes between, the txo indices     *)
(* also when uploads were given up or served an auto-advance; after a      *)
(* refused update the txo indices are right or empty, never a mixture.     *)
BlocksRebuilt ==
  /\ scenario = "blocks" => Plain!MintsRebuilt /\ Plain!TxosRebuilt
  /\ scenario = "jit" => Jit!TxosRebuilt
  /\ scenario = "refused" => Refused!TxosNeverMixed

Owed(i) ==
  /\ i <= Len(chain)
  /\ \/ scenario = "live" /\ chain[i] \in Events
     \/ scenario = "stream" /\ chain[i] \in Recorded

Obtained(i) ==
  \/ scenario = "live" /\ i \in Range(delivered)
  \/ scenario = "stream" /\ i \in received \cup lost

(* Every event reaches the consumer of a monitor that keeps pace, and      *)
(* every record of the history stream the database of a consumer that dies *)
(* and resumes, also when its checkpoints are stale.                       *)
EverythingArrives == \A i \in 1..5 : Owed(i) ~> Obtained(i)
=============================================================================
