------------------------------ MODULE MCUploads ------------------------------
(***************************************************************************)
(* The uploads of the operator and the rate limiter in front of the RPC    *)
(* node.  Each initial state chooses one `scenario', the part that runs:   *)
(*                                                                         *)
(*   "txo"      lists of outputs, chunks sent in parallel                  *)
(*   "txo_seq"  the same by the clients that send one call at a time       *)
(*   "generic"  the transactions that withdrawals read                     *)
(*   "mint"     the mints of three blocks, one of them without mints       *)
(*   "limiter"  four requests at a time, one token, room for two to wait   *)
(***************************************************************************)
EXTENDS TxoUpload, GenericUpload, RateLimiter

CONSTANTS Scenarios, bridge, ZeroHash, p1, p2, q1, q2, q3

VARIABLES
  scenario,
  bufs,                                     \* the mint buffers ...
  mintSession, mintInflight, mintFaults     \* ... and the client that fills them

mintVars == <<bufs, mintSession, mintInflight, mintFaults>>
vars == <<scenario, txoVars, genericVars, mintVars, limiterVars>>

(* The second list replaces the block of the first after a reorganisation. *)
TxoJobs == <<[height |-> 1, data |-> <<q1, q2, q3>>],
             [height |-> 1, data |-> <<p1, p2>>]>>

(* More than twice what one instruction may grow the account by, then less. *)
ByteJobs == << <<q1, q2, q3, p1, p2>>, <<q2, q1>> >>

(* Two groups, none, and one. *)
MintJobs == <<[blk |-> 1, count |-> 26], [blk |-> 2, count |-> 0],
              [blk |-> 3, count |-> 3]>>

TxoSeq == INSTANCE TxoUpload WITH
  MaxRetries <- 0, Clients <- {"sequential", "js"}, Window <- 1

Mint == INSTANCE MintUpload WITH
  Jobs <- MintJobs, Writers <- {Operator}, Lockers <- {bridge},
  MintCounts <- {0, 3, 26}, MintData <- [blk : 1..3, grp : 0..1, len : 1..24],
  MaxIncrease <- 10240, Bridge <- bridge,
  Clients <- {"parallel", "sequential", "js"},
  session <- mintSession, inflight <- mintInflight, faults <- mintFaults

ASSUME UploadConstants ==
  TxoSeq!TxoUploadConstants /\ Mint!UploadClientConstants

Init ==
  /\ scenario \in Scenarios
  /\ TxoInit /\ GenericInit /\ Mint!Init /\ LimiterInit

Next ==
  /\ UNCHANGED scenario
  /\ \/ /\ \/ scenario = "txo" /\ TxoNext
           \/ scenario = "txo_seq" /\ TxoSeq!TxoNext
        /\ UNCHANGED <<genericVars, mintVars, limiterVars>>
     \/ /\ scenario = "generic" /\ GenericNext
        /\ UNCHANGED <<txoVars, mintVars, limiterVars>>
     \/ /\ scenario = "mint" /\ Mint!Next
        /\ UNCHANGED <<txoVars, genericVars, limiterVars>>
     \/ /\ scenario = "limiter" /\ LimiterNext
        /\ UNCHANGED <<txoVars, genericVars, mintVars>>

Spec == Init /\ [][Next]_vars

(* The uploads are scheduled as their modules say. *)
FairSpec ==
  /\ Spec
  /\ WF_session(\/ scenario = "txo" /\ ClientRuns
                \/ scenario = "txo_seq" /\ TxoSeq!ClientRuns)
  /\ WF_inflight(\/ scenario = "txo" /\ Answered
                 \/ scenario = "txo_seq" /\ TxoSeq!Answered)
  /\ WF_inflight(\/ scenario = "txo" /\ Forgotten
                 \/ scenario = "txo_seq" /\ TxoSeq!Forgotten)
  /\ WF_uploading(scenario = "generic" /\ GenericRuns)
  /\ WF_underway(scenario = "generic" /\ GenericAnswered)
  /\ WF_underway(scenario = "generic" /\ GenericForgotten)
  /\ WF_mintSession(scenario = "mint" /\ Mint!ClientRuns)
  /\ WF_mintInflight(scenario = "mint" /\ Mint!Answered)
  /\ WF_mintInflight(scenario = "mint" /\ Mint!Forgotten)
  /\ WF_bufs(scenario = "mint" /\ Mint!MintsDone)
-----------------------------------------------------------------------------
(* No lost reply, late transaction or restart leaves a buffer in which     *)
(* uploads are refused for ever: every list is uploaded and accepted.      *)
UploadsAreAccepted ==
  <>(\/ scenario \in {"txo", "txo_seq"} /\ AllAccepted
     \/ scenario = "generic" /\ Upload!AllAccepted
     \/ scenario = "mint" /\ Mint!AllAccepted
     \/ scenario = "limiter")
=============================================================================
