-------------------------- MODULE MintClient_proofs --------------------------
(***************************************************************************)
(* Proofs about the operator's clients, for any chain of deposits, any     *)
(* number of clients at work at the same time, and any number of retries,  *)
(* lost replies and crashes.                                               *)
(***************************************************************************)
EXTENDS MintClient, BridgeMint_proofs

(* The time each prover has for a step that names none. *)
USE SMTT(30), ZenonT(30)

-----------------------------------------------------------------------------
(* A set of numbers that is not empty has a smallest element. *)
LEMMA SmallestGroup ==
  ASSUME NEW S, S \subseteq Nat, S # {}
  PROVE  Min(S) \in S
<1> DEFINE R == OpToRel(<, Nat)
<1>1. IsWellFoundedOn(R, Nat)
  BY NatLessThanWellFounded, Zenon
<1>2. PICK x \in S : \A y \in S : ~(<<y, x>> \in R)
  BY <1>1, WFMin, Zenon
<1>3. x \in Nat /\ \A y \in S : y \in Nat
  BY <1>2, Zenon
<1>4. \A y \in S : ~(y < x)
  BY <1>2, <1>3, Zenon DEF OpToRel
<1>5. \A y \in S : x <= y
  BY <1>3, <1>4
<1> QED
  BY <1>2, <1>5, Zenon DEF Min

-----------------------------------------------------------------------------
(* The calls and the transactions are well-formed: a client that works on  *)
(* a list has groups left, and waits for the transaction of the first one. *)
CallOK(k) ==
  \/ k.state = "idle"
  \/ k.state = "called" /\ k.block \in Heights
  \/ /\ k.state \in {"loop", "sent"}
     /\ k.block \in Heights
     /\ k.todo \subseteq Nat /\ k.todo # {}
     /\ k.state = "sent" => k.tx.block = k.block /\ k.tx.grp = Min(k.todo)

ClientOK ==
  /\ DOMAIN call = Callers
  /\ \A c \in Callers : CallOK(call[c])
  /\ \A t \in sent : t.grp \in Nat

(* What a call promises.  Before it has looked at the tracker, its block   *)
(* is under way or done; afterwards, whatever is not minted of its list is *)
(* among the groups it still goes through.                                 *)
Promise(k) ==
  /\ k.state = "called" =>
       GroupsOf(k.block) \subseteq minted \/ (Pending /\ Cursor(mgr) = k.block)
  /\ k.state \in {"loop", "sent"} =>
       GroupsOf(k.block) \subseteq minted \cup {GroupData(k.block, g) : g \in k.todo}

(* Without reorg updates there is never more than one block to mint, and   *)
(* it is armed from the start.                                             *)
OneBlock == ~ManagerIsEmpty(mgr) => Pending /\ mgr.total = 1

CompletedInv ==
  /\ OneBlock
  /\ \A c \in Callers : Promise(call[c])
  /\ CompletedMeansMinted

-----------------------------------------------------------------------------
(* What the steps of a client do to its call. *)
Others(c) ==
  /\ DOMAIN call' = Callers
  /\ \A d \in Callers \ {c} : call'[d] = call[d]

(* A call that fails is over. *)
LEMMA FailsFacts ==
  ASSUME ClientOK, NEW c \in Callers, Fails(c)
  PROVE  Others(c) /\ call'[c].state = "idle"
  BY DEF ClientOK, Fails, Idle, Others

(* A client that waits keeps its list. *)
LEMMA WaitsFacts ==
  ASSUME ClientOK, NEW c \in Callers, NEW t, Waits(c, t)
  PROVE  /\ Others(c)
         /\ call'[c].state = "sent" /\ call'[c].tx = t
         /\ call'[c].block = call[c].block /\ call'[c].todo = call[c].todo
  BY DEF ClientOK, Waits, Others

(* A call that goes on has groups left; one that has none returns and      *)
(* reports.                                                                *)
LEMMA ContinueFacts ==
  ASSUME ClientOK, NEW c \in Callers, NEW h, NEW auto, NEW total, NEW todo,
         Continue(c, h, auto, total, todo)
  PROVE  /\ Others(c)
         /\ todo = {} => call'[c].state = "idle" /\ completed' = completed \cup {h}
         /\ todo # {} => /\ call'[c].state = "loop" /\ call'[c].block = h
                         /\ call'[c].todo = todo /\ completed' = completed
  BY DEF ClientOK, Continue, Idle, Others

(* One caller's new call is well-formed, and so are the transactions. *)
LEMMA ClientStepOK ==
  ASSUME ClientOK, NEW c \in Callers, Others(c), CallOK(call'[c]),
         \A t \in sent' : t.grp \in Nat
  PROVE  ClientOK'
<1>1. ASSUME NEW d \in Callers
      PROVE  CallOK(call'[d])
  BY DEF ClientOK, Others
<1> QED
  BY <1>1 DEF ClientOK, Others

(* Steps that leave the calls alone. *)
LEMMA ClientFrame ==
  ASSUME ClientOK, UNCHANGED call, \A t \in sent' : t.grp \in Nat
  PROVE  ClientOK'
  BY DEF ClientOK

(* A call that goes on is well-formed. *)
LEMMA ContinueOK ==
  ASSUME ClientOK, NEW c \in Callers, NEW h \in Heights, NEW auto, NEW total,
         NEW todo, todo \subseteq Nat, Continue(c, h, auto, total, todo),
         sent' \subseteq sent
  PROVE  ClientOK'
<1>1. Others(c) /\ CallOK(call'[c])
  BY ContinueFacts, ZenonT(60) DEF CallOK
<1>2. \A t \in sent' : t.grp \in Nat
  BY DEF ClientOK
<1> QED
  BY <1>1, <1>2, ClientStepOK

(* A client that waits is at work, with the group of its transaction. *)
LEMMA AwaitsFacts ==
  ASSUME ClientOK, NEW c \in Callers, NEW t, Awaits(c, t)
  PROVE  /\ call[c].state = "sent" /\ call[c].block \in Heights
         /\ call[c].todo \subseteq Nat /\ call[c].todo # {}
         /\ t.block = call[c].block /\ t.grp = Min(call[c].todo)
<1>1. call[c].state = "sent" /\ call[c].tx = t /\ CallOK(call[c])
  BY DEF Awaits, ClientOK
<1> QED
  BY <1>1 DEF CallOK

(* After an error the same group is sent again, or the call is over. *)
LEMMA AfterErrorOK ==
  ASSUME ClientOK, NEW c \in Callers, NEW t \in sent, Awaits(c, t),
         NEW others, others \subseteq sent, AfterError(c, t, others)
  PROVE  /\ ClientOK' /\ Others(c) /\ UNCHANGED completed
         /\ \/ call'[c].state = "idle"
            \/ /\ call'[c].state = "sent" /\ call'[c].block = call[c].block
               /\ call'[c].todo = call[c].todo
<1>1. CASE t.try < MaxRetries
  <2> DEFINE again == [t EXCEPT !.try = @ + 1]
  <2>1. Waits(c, again) /\ sent' = others \cup {again} /\ UNCHANGED completed
    BY <1>1 DEF AfterError
  <2>2. again.block = t.block /\ again.grp = t.grp
    OBVIOUS
  <2> HIDE DEF again
  <2>3. /\ Others(c) /\ call'[c].state = "sent" /\ call'[c].tx = again
        /\ call'[c].block = call[c].block /\ call'[c].todo = call[c].todo
    BY <2>1, WaitsFacts
  <2>4. CallOK(call'[c])
    BY <2>2, <2>3, AwaitsFacts DEF CallOK
  <2>5. \A u \in sent' : u.grp \in Nat
    BY <2>1, <2>2 DEF ClientOK
  <2> QED
    BY <2>1, <2>3, <2>4, <2>5, ClientStepOK
<1>2. CASE ~(t.try < MaxRetries)
  <2>1. Fails(c) /\ sent' = others /\ UNCHANGED completed
    BY <1>2 DEF AfterError
  <2>2. Others(c) /\ call'[c].state = "idle" /\ CallOK(call'[c])
    BY <2>1, FailsFacts DEF CallOK
  <2>3. \A u \in sent' : u.grp \in Nat
    BY <2>1 DEF ClientOK
  <2> QED
    BY <2>1, <2>2, <2>3, ClientStepOK
<1> QED
  BY <1>1, <1>2

(* The first group that is left is sent, or the call is over. *)
LEMMA SendGroupOK ==
  ASSUME ClientOK, NEW c \in Callers, SendGroup(c)
  PROVE  /\ ClientOK' /\ Others(c) /\ UNCHANGED <<vars, completed>>
         /\ \/ call'[c].state = "idle"
            \/ /\ call'[c].state = "sent" /\ call'[c].block = call[c].block
               /\ call'[c].todo = call[c].todo /\ call[c].state = "loop"
<1> DEFINE k == call[c]
           g == Min(k.todo)
           n == CHOOSE i \in 0..Cardinality(sent) : \A t \in sent : t.n # i
           t == [n |-> n, block |-> k.block, grp |-> g, last |-> g = k.total - 1,
                 auto |-> k.auto, try |-> 0]
<1>1. k.state = "loop" /\ CallOK(k)
  BY DEF SendGroup, ClientOK
<1>2. k.block \in Heights /\ k.todo \subseteq Nat /\ k.todo # {} /\ g \in Nat
  BY <1>1, SmallestGroup DEF CallOK
<1>3. UNCHANGED <<vars, completed>>
  BY DEF SendGroup
<1>4. CASE Fails(c) /\ UNCHANGED sent
  <2>1. Others(c) /\ call'[c].state = "idle" /\ CallOK(call'[c])
    BY <1>4, FailsFacts DEF CallOK
  <2>2. \A u \in sent' : u.grp \in Nat
    BY <1>4 DEF ClientOK
  <2> QED
    BY <1>3, <2>1, <2>2, ClientStepOK
<1>5. CASE Waits(c, t) /\ sent' = sent \cup {t}
  <2>1. t.block = k.block /\ t.grp = g
    OBVIOUS
  <2> HIDE DEF t
  <2>2. /\ Others(c) /\ call'[c].state = "sent" /\ call'[c].tx = t
        /\ call'[c].block = k.block /\ call'[c].todo = k.todo
    BY <1>5, WaitsFacts
  <2>3. CallOK(call'[c])
    BY <1>2, <2>1, <2>2 DEF CallOK
  <2>4. \A u \in sent' : u.grp \in Nat
    BY <1>2, <1>5, <2>1 DEF ClientOK
  <2> QED
    BY <1>1, <1>3, <2>2, <2>3, <2>4, ClientStepOK
<1> QED
  BY <1>4, <1>5 DEF SendGroup

-----------------------------------------------------------------------------
(* What the operator's steps do to the bridge. *)

(* What the operator stages is the proven list of a block. *)
LEMMA StageBlockOK ==
  ASSUME IInv, NEW h \in Heights, StageBlock(h)
  PROVE  IInv' /\ UNCHANGED <<mgr, minted, header>>
<1> DEFINE b == StagedBuffer(h)
           n == Deposits[h]
           m == MintGroups(n)
<1>1. Operator \in Writers /\ n \in MintCounts /\ GroupsOf(h) \subseteq MintData
  BY MintClientAssumption DEF MintClientConstants
<1>2. n \in 0..(U16 - 1) /\ n \in Nat /\ m \in Nat
  BY <1>1, PendingMintBufferAssumption, DepositsType, MintGroupsFacts
<1>3. BlockHash(h) \in [0..(m - 1) -> MintData \cup {ZeroHash}]
  <2>1. \A g \in BlockGroups(h) : GroupData(h, g) \in MintData
    BY <1>1 DEF GroupsOf
  <2> QED
    BY <2>1 DEF BlockHash, BlockGroups
<1>4. BufferSize(m, n) \in Nat
  BY <1>2, BufferSizeType, Zenon
<1>5. Bridge \in Lockers /\ Bridge # NoKey
  BY BridgeMintAssumption, PendingMintBufferAssumption
<1> HIDE DEF n, m
<1>6. b = [locker |-> Bridge, locked |-> FALSE, count |-> n, groups |-> m,
           initialized |-> n, len |-> BufferSize(m, n), hash |-> BlockHash(h)]
  BY DEF StagedBuffer, n, m
<1>7. BufOK(b) /\ ~b.locked
  BY <1>2, <1>3, <1>4, <1>5, <1>6 DEF BufOK, IsSetUp
<1>8. bufs' = [bufs EXCEPT ![Operator] = b] /\ DOMAIN bufs = Writers
  BY DEF StageBlock, IInv, TypeOK, BufTypeOK
<1> HIDE DEF b
<1>9. Touches(Operator) /\ bufs'[Operator] = b
  BY <1>1, <1>8, Zenon DEF Touches
<1>10. BufTypeOK'
  BY Zenon, <1>1, <1>7, <1>9, BufStep DEF IInv, TypeOK
<1>11. txo' \in [Writers -> 0..Len(Deposits)]
  <2>1. h \in 0..Len(Deposits)
    BY BridgeHeaderAssumption DEF Heights
  <2>2. txo' = [txo EXCEPT ![Operator] = h] /\ txo \in [Writers -> 0..Len(Deposits)]
    BY DEF StageBlock, IInv, TypeOK
  <2> QED
    BY <1>1, <2>1, <2>2
<1>12. UNCHANGED <<header, recent, mgr, minted, mintTxs>>
  BY Zenon DEF StageBlock
<1>13. TypeOK'
  BY ZenonT(60), <1>10, <1>11, <1>12 DEF TypeOK, IInv
<1>14. ~bufs[Operator].locked
  BY DEF StageBlock
<1> QED
  BY ZenonT(60), <1>1, <1>7, <1>9, <1>12, <1>13, <1>14, OutsideOK

(* A transaction that succeeds mints one group, for the first time. *)
LEMMA ExecutesOK ==
  ASSUME IInv, NEW t, t.grp \in Nat, Executes(t)
  PROVE  IInv' /\ MintsOne
<1>1. Operator \in Writers
  BY MintClientAssumption DEF MintClientConstants
<1>2. ASSUME NEW m, NEW b, MintGroup(m, Operator, b, t.grp)
      PROVE  t.grp \in GroupIndices
  <2>1. t.grp < BitmapBits
    BY <1>2 DEF MintGroup, CanClaim
  <2> QED
    BY <2>1, MintManagerAssumption DEF GroupIndices
<1>3. CASE t.auto
  <2>1. ProcessMintGroupAutoAdvance(Operator, Operator, t.grp)
    BY <1>3 DEF Executes
  <2>2. t.grp \in GroupIndices
    BY ZenonT(60), <1>2, <2>1 DEF ProcessMintGroupAutoAdvance
  <2> QED
    BY <1>1, <2>1, <2>2, AutoAdvanceOK
<1>4. CASE ~t.auto
  <2>1. MintGroup(mgr, Operator, bufs[Operator], t.grp)
    BY <1>4 DEF Executes, ProcessMintGroup
  <2>2. t.grp \in GroupIndices
    BY ZenonT(60), <1>2, <2>1
  <2> QED
    BY <1>1, <2>1, <2>2, MintGroupOK
<1> QED
  BY <1>3, <1>4

(* The groups a client goes through are numbers, whichever tracker it saw. *)
LEMMA TodoType ==
  ASSUME IInv, NEW h \in Heights
  PROVE  /\ JsGroups(mgr.tracker, h).todo = BlockGroups(h) /\ BlockGroups(h) \subseteq Nat
         /\ RemainingGroups(mgr.tracker, h).todo =
              (0..(TrackerGroups(mgr.tracker) - 1)) \ mgr.tracker.claimed
         /\ RemainingGroups(mgr.tracker, h).todo \subseteq Nat
<1>1. TrackerGroups(mgr.tracker) \in Nat
  <2>1. mgr.tracker.total \in Nat
    BY DEF IInv, TypeOK
  <2>2. mgr.tracker.total % U16 \in Nat
    BY <2>1, U16Type
  <2> QED
    BY <2>2, MintGroupsFacts DEF TrackerGroups
<1>2. 0..(TrackerGroups(mgr.tracker) - 1) \subseteq Nat
  BY <1>1
<1> QED
  BY <1>2, BlockGroupsFacts DEF JsGroups, RemainingGroups

(* What ReadTracker goes on with. *)
Snapshot(c) ==
  (IF c \in JsCallers THEN JsGroups(mgr.tracker, call[c].block)
   ELSE RemainingGroups(mgr.tracker, call[c].block)).todo

(* The look at the tracker: what is in its snapshot is what the call goes  *)
(* on with.                                                                *)
LEMMA ReadTrackerFacts ==
  ASSUME IInv, ClientOK, NEW c \in Callers, ReadTracker(c)
  PROVE  /\ call[c].state = "called" /\ call[c].block \in Heights
         /\ Snapshot(c) \subseteq Nat
         /\ \E auto, total : Continue(c, call[c].block, auto, total, Snapshot(c))
         /\ UNCHANGED <<vars, sent>>
<1>1. call[c].state = "called" /\ CallOK(call[c])
  BY DEF ReadTracker, ClientOK
<1>2. call[c].block \in Heights
  BY <1>1 DEF CallOK
<1>3. Snapshot(c) \subseteq Nat
  BY <1>2, TodoType DEF Snapshot
<1>4. \E auto, total : Continue(c, call[c].block, auto, total, Snapshot(c))
  BY Zenon DEF ReadTracker, Snapshot
<1> QED
  BY <1>1, <1>2, <1>3, <1>4 DEF ReadTracker

(* The look at the tracker leaves the call well-formed. *)
LEMMA ReadTrackerOK ==
  ASSUME IInv, ClientOK, NEW c \in Callers, ReadTracker(c)
  PROVE  ClientOK' /\ UNCHANGED vars
<1>1. PICK auto, total : Continue(c, call[c].block, auto, total, Snapshot(c))
  BY ZenonT(60), ReadTrackerFacts
<1>2. /\ call[c].block \in Heights /\ Snapshot(c) \subseteq Nat
      /\ sent' \subseteq sent /\ UNCHANGED vars
  BY ReadTrackerFacts
<1> QED
  BY ZenonT(60), <1>1, <1>2, ContinueOK

(* A transaction lands while nobody waits for it, or one client does. *)
LEMMA LandFacts ==
  ASSUME ClientOK, NEW t \in sent, Land(t)
  PROVE  /\ Executes(t) /\ sent' \subseteq sent /\ t.grp \in Nat
         /\ \/ UNCHANGED <<call, completed>>
            \/ \E c \in Callers : \E auto, total :
                 /\ Awaits(c, t)
                 /\ Continue(c, call[c].block, auto, total, call[c].todo \ {t.grp})
<1>1. ASSUME NEW c \in Callers, Awaits(c, t)
      PROVE  call[c].todo \ {Min(call[c].todo)} = call[c].todo \ {t.grp}
  BY <1>1, AwaitsFacts
<1>2. Executes(t) /\ sent' \subseteq sent /\ t.grp \in Nat
  BY DEF Land, ClientOK
<1>3. CASE \E c \in Callers : Awaits(c, t)
  <2>1. PICK c \in Callers :
          /\ Awaits(c, t)
          /\ Continue(c, call[c].block, call[c].auto, call[c].total,
                      call[c].todo \ {Min(call[c].todo)})
    BY Zenon, <1>3 DEF Land
  <2>2. Continue(c, call[c].block, call[c].auto, call[c].total, call[c].todo \ {t.grp})
    BY Zenon, <1>1, <2>1
  <2> QED
    BY Zenon, <1>2, <2>1, <2>2
<1>4. CASE ~\E c \in Callers : Awaits(c, t)
  BY Zenon, <1>2, <1>4 DEF Land
<1> QED
  BY <1>3, <1>4, ZenonT(60)

(* A transaction that lands preserves the invariant of the bridge. *)
LEMMA LandOK ==
  ASSUME IInv, ClientOK, NEW t \in sent, Land(t)
  PROVE  IInv' /\ ClientOK'
<1>1. Executes(t) /\ sent' \subseteq sent /\ t.grp \in Nat
  BY LandFacts
<1>2. IInv'
  BY <1>1, ExecutesOK
<1>3. CASE UNCHANGED <<call, completed>>
  <2>1. \A u \in sent' : u.grp \in Nat
    BY <1>1 DEF ClientOK
  <2> QED
    BY <1>2, <1>3, <2>1, ClientFrame
<1>4. ASSUME NEW c \in Callers, NEW auto, NEW total, Awaits(c, t),
             Continue(c, call[c].block, auto, total, call[c].todo \ {t.grp})
      PROVE  ClientOK'
  <2>1. call[c].block \in Heights /\ call[c].todo \ {t.grp} \subseteq Nat
    BY <1>4, AwaitsFacts
  <2> QED
    BY Zenon, <1>1, <1>4, <2>1, ContinueOK
<1> QED
  BY <1>2, <1>3, <1>4, LandFacts, ZenonT(60)

(* A transaction is refused, or its reply is lost: the bridge is as it     *)
(* was, and at most one client goes on with the same list or gives up.     *)
Retries(c) ==
  /\ Others(c)
  /\ \/ call'[c].state = "idle"
     \/ /\ call'[c].state = "sent" /\ call'[c].block = call[c].block
        /\ call'[c].todo = call[c].todo /\ call[c].state \in {"loop", "sent"}

(* A transaction that is refused changes nothing of the bridge. *)
LEMMA RefuseOK ==
  ASSUME ClientOK, NEW t \in sent, Refuse(t)
  PROVE  /\ ClientOK' /\ UNCHANGED <<vars, completed>>
         /\ UNCHANGED call \/ \E c \in Callers : Retries(c)
<1>1. UNCHANGED vars
  BY DEF Refuse
<1>2. CASE \E c \in Callers : Awaits(c, t)
  <2>1. PICK c \in Callers : Awaits(c, t) /\ AfterError(c, t, sent \ {t})
    BY ZenonT(60), <1>2 DEF Refuse
  <2>2. sent \ {t} \subseteq sent /\ call[c].state = "sent"
    BY <2>1 DEF Awaits
  <2> QED
    BY <1>1, <2>1, <2>2, AfterErrorOK DEF Retries
<1>3. CASE ~\E c \in Callers : Awaits(c, t)
  <2>1. sent' = sent \ {t} /\ UNCHANGED <<call, completed>>
    BY ZenonT(60), <1>3 DEF Refuse
  <2>2. \A u \in sent' : u.grp \in Nat
    BY <2>1 DEF ClientOK
  <2> QED
    BY <1>1, <2>1, <2>2, ClientFrame
<1> QED
  BY <1>2, <1>3

(* Nor does a reply that is lost. *)
LEMMA LoseReplyOK ==
  ASSUME ClientOK, NEW c \in Callers, NEW t \in sent, LoseReply(c, t)
  PROVE  ClientOK' /\ UNCHANGED <<vars, completed>> /\ Retries(c)
<1>1. Awaits(c, t) /\ AfterError(c, t, sent) /\ UNCHANGED vars /\ call[c].state = "sent"
  BY DEF LoseReply, Awaits
<1> QED
  BY <1>1, AfterErrorOK DEF Retries

(* Nor does a client that dies. *)
LEMMA CrashOK ==
  ASSUME ClientOK, NEW c \in Callers, Crash(c)
  PROVE  ClientOK' /\ UNCHANGED <<vars, completed>> /\ Retries(c)
<1>1. Others(c) /\ call'[c].state = "idle" /\ CallOK(call'[c])
  BY FailsFacts DEF Crash, CallOK
<1>2. (\A u \in sent' : u.grp \in Nat) /\ UNCHANGED <<vars, completed>>
  BY DEF Crash, ClientOK
<1> QED
  BY <1>1, <1>2, ClientStepOK DEF Retries

(* A client is called for the next block to mint. *)
LEMMA CallClientOK ==
  ASSUME ClientOK, NEW c \in Callers, NEW h \in Heights, NEW auto \in BOOLEAN,
         CallClient(c, h, auto)
  PROVE  /\ ClientOK' /\ Others(c) /\ NextToMint(h) /\ UNCHANGED <<vars, completed>>
         /\ call'[c].state = "called" /\ call'[c].block = h
<1>1. /\ Others(c) /\ call'[c].state = "called" /\ call'[c].block = h
      /\ UNCHANGED <<vars, sent, completed>>
  BY DEF CallClient, ClientOK, Others
<1>2. CallOK(call'[c]) /\ \A u \in sent' : u.grp \in Nat
  BY <1>1 DEF CallOK, ClientOK
<1> QED
  BY <1>1, <1>2, ClientStepOK DEF CallClient

-----------------------------------------------------------------------------
(* The bridge under its operator: staging in one step, updates of both     *)
(* kinds, and mints that are sent again, land late or twice.               *)
LEMMA OpInitOK == OpInit => IInv /\ ClientOK
<1> SUFFICES ASSUME OpInit PROVE IInv /\ ClientOK
  OBVIOUS
<1>1. IInv
  BY InitOK DEF OpInit
<1>2. ClientOK
  BY DEF OpInit, ClientOK, CallOK, Idle
<1> QED
  BY <1>1, <1>2

(* The submissions leave the clients alone. *)
LEMMA SubmitsOK ==
  ASSUME IInv, ClientOK, Submits
  PROVE  IInv' /\ ClientOK'
<1>1. Operator \in Writers /\ Reorgs \subseteq Heights
  BY MintClientAssumption DEF MintClientConstants
<1>2. ASSUME UNCHANGED clientVars
      PROVE  ClientOK'
  BY <1>2, ClientFrame DEF clientVars, ClientOK
<1>3. ASSUME NEW h \in Heights, StageBlock(h)
      PROVE  IInv' /\ ClientOK'
  BY <1>2, <1>3, StageBlockOK, Zenon DEF StageBlock
<1>4. CASE ProcessBlockTransition
  BY <1>1, <1>2, <1>4, BlockUpdateOK DEF ProcessBlockTransition
<1>5. CASE ProcessBlockReorg
  <2>1. PICK h \in Reorgs : ProcessReorgBlocks(Operator, h)
    BY <1>5 DEF ProcessBlockReorg
  <2>2. h \in Heights /\ UNCHANGED clientVars
    BY <1>1, <1>5 DEF ProcessBlockReorg
  <2> QED
    BY <1>1, <1>2, <2>1, <2>2, ReorgOK
<1> QED
  BY <1>3, <1>4, <1>5 DEF Submits

(* Whatever a client does by itself leaves the bridge alone. *)
LEMMA KeepsBridge ==
  ASSUME IInv, UNCHANGED vars
  PROVE  IInv'
  BY StutterOK

(* Every step of the operator, its clients and the network. *)
LEMMA OpNextOK ==
  ASSUME IInv, ClientOK, [OpNext]_opVars
  PROVE  IInv' /\ ClientOK'
<1>1. CASE UNCHANGED opVars
  <2>1. UNCHANGED <<vars, clientVars>>
    BY <1>1 DEF opVars
  <2> QED
    BY <2>1, KeepsBridge, ClientFrame DEF clientVars, ClientOK
<1>2. CASE Submits
  BY <1>2, SubmitsOK
<1>3. ASSUME NEW c \in Callers, ClientStep(c)
      PROVE  IInv' /\ ClientOK'
  BY <1>3, CallClientOK, ReadTrackerOK, SendGroupOK, KeepsBridge DEF ClientStep
<1>4. CASE Network
  BY <1>4, LandOK, RefuseOK, KeepsBridge DEF Network
<1>5. ASSUME NEW c \in Callers, Crash(c) \/ \E t \in sent : LoseReply(c, t)
      PROVE  IInv' /\ ClientOK'
  BY <1>5, CrashOK, LoseReplyOK, KeepsBridge
<1> QED
  BY <1>1, <1>2, <1>3, <1>4, <1>5 DEF OpNext

(* The invariant of the two programs holds as well when the clients of the *)
(* operator drive them, with blocks and reorg updates, retries and mints   *)
(* that land after their client has given up.                              *)
THEOREM OperatorKeepsInvariant == OpSpec => [](IInv /\ ClientOK)
<1>1. IInv /\ ClientOK /\ [OpNext]_opVars => (IInv /\ ClientOK)'
  BY OpNextOK
<1> QED
  BY OpInitOK, <1>1, PTL DEF OpSpec

(* No client, however often it sends a group again, has it minted twice.   *)
THEOREM RetriesMintOnce == OpSpec => []NoDoubleMint
<1>1. IInv /\ ClientOK => NoDoubleMint
  BY DEF IInv
<1> QED
  BY <1>1, OperatorKeepsInvariant, PTL

-----------------------------------------------------------------------------
(* What every step does for the calls that it does not end. *)
Keeps ==
  /\ minted \subseteq minted'
  /\ \A h \in Heights :
       Pending /\ Cursor(mgr) = h =>
         GroupsOf(h) \subseteq minted' \/ (Pending' /\ Cursor(mgr)' = h)

(* The promise of a call that the step does not touch. *)
LEMMA PromiseKept ==
  ASSUME Keeps, NEW d \in Callers, CallOK(call[d]), Promise(call[d]),
         call'[d] = call[d]
  PROVE  Promise(call[d])'
<1> DEFINE k == call[d]
<1>1. ASSUME k.state = "called"
      PROVE  GroupsOf(k.block) \subseteq minted' \/ (Pending' /\ Cursor(mgr)' = k.block)
  <2>1. k.block \in Heights
    BY <1>1 DEF CallOK
  <2> QED
    BY <1>1, <2>1 DEF Promise, Keeps
<1>2. ASSUME k.state \in {"loop", "sent"}
      PROVE  GroupsOf(k.block) \subseteq minted' \cup {GroupData(k.block, g) : g \in k.todo}
  BY <1>2 DEF Promise, Keeps
<1> QED
  BY <1>1, <1>2 DEF Promise

(* A step of one client. *)
LEMMA CompletedStep ==
  ASSUME ClientOK, CompletedInv, Keeps, OneBlock', NEW c \in Callers, Others(c),
         Promise(call[c])',
         \A h \in completed' \ completed : GroupsOf(h) \subseteq minted'
  PROVE  CompletedInv'
<1>1. ASSUME NEW d \in Callers
      PROVE  Promise(call[d])'
  <2>1. CASE d = c
    BY <2>1
  <2>2. CASE d # c
    BY <2>2, PromiseKept DEF Others, ClientOK, CompletedInv
  <2> QED
    BY <2>1, <2>2
<1>2. CompletedMeansMinted'
  BY DEF CompletedMeansMinted, CompletedInv, Keeps
<1> QED
  BY <1>1, <1>2 DEF CompletedInv

(* A step of nobody's. *)
LEMMA CompletedFrame ==
  ASSUME ClientOK, CompletedInv, Keeps, OneBlock', UNCHANGED <<call, completed>>
  PROVE  CompletedInv'
<1>1. ASSUME NEW d \in Callers
      PROVE  Promise(call[d])'
  BY PromiseKept DEF ClientOK, CompletedInv
<1>2. CompletedMeansMinted'
  BY DEF CompletedMeansMinted, CompletedInv, Keeps
<1> QED
  BY <1>1, <1>2 DEF CompletedInv

(* A step that leaves the manager and the mints alone. *)
LEMMA SameManager ==
  ASSUME UNCHANGED <<mgr, minted>>, OneBlock
  PROVE  Keeps /\ OneBlock'
<1>1. (Pending' <=> Pending) /\ Cursor(mgr)' = Cursor(mgr)
      /\ (ManagerIsEmpty(mgr)' <=> ManagerIsEmpty(mgr))
  BY DEF Pending, Cursor, ManagerIsEmpty
<1> QED
  BY <1>1 DEF Keeps, OneBlock

(* A client that goes on with its list, or gives up. *)
LEMMA RetriesKeep ==
  ASSUME ClientOK, CompletedInv, UNCHANGED <<vars, completed>>,
         NEW c \in Callers, Retries(c)
  PROVE  CompletedInv'
<1>1. Keeps /\ OneBlock' /\ minted' = minted
  BY SameManager DEF vars, CompletedInv
<1>2. Promise(call[c])'
  BY <1>1 DEF Promise, Retries, CompletedInv
<1> QED
  BY <1>1, <1>2, CompletedStep DEF Retries

-----------------------------------------------------------------------------
(* With one block to mint, the cursor is at the finalized block, and that  *)
(* is the block the operator has its clients mint.                         *)
LEMMA CursorFacts ==
  ASSUME IInv, OneBlock, ~ManagerIsEmpty(mgr)
  PROVE  /\ Pending /\ mgr.total = 1 /\ mgr.current = 0
         /\ Cursor(mgr) = header.height /\ Frontier = header.height
         /\ Cursor(mgr) \in Heights
<1>1. Pending /\ mgr.total = 1 /\ Follows(mgr) /\ MgrOK(mgr)
  BY DEF OneBlock, IInv, TypeOK, MgrOK
<1>2. mgr.start \in Nat /\ mgr.current \in Nat
  BY <1>1 DEF MgrOK
<1>3. mgr.start > 0 /\ mgr.start + 1 - 1 = header.height /\ mgr.current < 1
  BY <1>1 DEF Follows
<1>4. mgr.current = 0 /\ mgr.start = header.height
  BY <1>2, <1>3
<1>5. Cursor(mgr) = header.height /\ Frontier = header.height
  BY <1>2, <1>4 DEF Cursor, Frontier
<1>6. header.height \in Heights
  <2>1. header.height \in 0..Len(Deposits) /\ Len(Deposits) \in Nat
    BY BridgeHeaderAssumption DEF IInv, TypeOK
  <2> QED
    BY <1>3, <1>4, <2>1 DEF Heights
<1> QED
  BY <1>1, <1>4, <1>5, <1>6

(* A call is made for the block at the cursor. *)
LEMMA CallClientKeeps ==
  ASSUME IInv, ClientOK, CompletedInv, NEW c \in Callers, NEW h \in Heights,
         NEW auto \in BOOLEAN, CallClient(c, h, auto)
  PROVE  CompletedInv'
<1>1. /\ Others(c) /\ NextToMint(h) /\ UNCHANGED <<vars, completed>>
      /\ call'[c].state = "called" /\ call'[c].block = h
  BY CallClientOK
<1>2. Keeps /\ OneBlock' /\ mgr' = mgr
  BY <1>1, SameManager DEF vars, CompletedInv
<1>3. ~ManagerIsEmpty(mgr) /\ h \in Frontier..header.height
  BY <1>1 DEF NextToMint
<1>4. Pending /\ Cursor(mgr) = h
  <2>1. Pending /\ Cursor(mgr) = header.height /\ Frontier = header.height
    BY <1>3, CursorFacts DEF CompletedInv
  <2>2. header.height \in Int
    BY BridgeHeaderAssumption DEF IInv, TypeOK
  <2> QED
    BY <1>3, <2>1, <2>2
<1>5. Pending' /\ Cursor(mgr)' = h
  BY <1>2, <1>4 DEF Pending, Cursor
<1>6. Promise(call[c])'
  BY <1>1, <1>5 DEF Promise
<1> QED
  BY <1>1, <1>2, <1>6, CompletedStep

(* The snapshot of the tracker leaves out only groups that are minted.     *)
LEMMA SnapshotCovers ==
  ASSUME IInv, CompletedInv, NEW c \in Callers, call[c].state = "called",
         call[c].block \in Heights
  PROVE  GroupsOf(call[c].block) \subseteq
           minted \cup {GroupData(call[c].block, g) : g \in Snapshot(c)}
<1> DEFINE h == call[c].block
<1>1. CASE c \in JsCallers
  <2>1. Snapshot(c) = BlockGroups(h)
    BY <1>1, TodoType DEF Snapshot
  <2> QED
    BY <2>1 DEF GroupsOf
<1>2. CASE GroupsOf(h) \subseteq minted
  BY <1>2
<1>3. CASE c \notin JsCallers /\ Pending /\ Cursor(mgr) = h
  <2>1. Armed(mgr, bufs[mgr.tracker.account]) /\ MgrOK(mgr) /\ TypeOK
    BY <1>3 DEF IInv, TypeOK, MgrOK
  <2>2. Follows(mgr)
    BY <1>3 DEF IInv
  <2>3. TrackerGroups(mgr.tracker) = MintGroups(Deposits[h])
    BY <1>3, <2>1, <2>2, ArmedFacts
  <2>4. Snapshot(c) = BlockGroups(h) \ mgr.tracker.claimed
    BY <1>3, <2>3, TodoType DEF Snapshot, BlockGroups
  <2>5. {GroupData(h, g) : g \in mgr.tracker.claimed} \subseteq minted
    BY <1>3, <2>1 DEF Armed
  <2> QED
    BY <2>4, <2>5 DEF GroupsOf
<1> QED
  BY <1>1, <1>2, <1>3 DEF CompletedInv, Promise

(* A call that goes on to what is left of its list, or returns.            *)
LEMMA ContinueKeeps ==
  ASSUME ClientOK, CompletedInv, Keeps, OneBlock', NEW c \in Callers, NEW h,
         NEW auto, NEW total, NEW todo, Continue(c, h, auto, total, todo),
         GroupsOf(h) \subseteq minted' \cup {GroupData(h, g) : g \in todo}
  PROVE  CompletedInv'
<1>1. CASE todo = {}
  <2>1. Others(c) /\ call'[c].state = "idle" /\ completed' = completed \cup {h}
    BY <1>1, ContinueFacts
  <2>2. GroupsOf(h) \subseteq minted'
    BY <1>1
  <2>3. Promise(call[c])' /\ \A j \in completed' \ completed : GroupsOf(j) \subseteq minted'
    BY <2>1, <2>2 DEF Promise
  <2> QED
    BY <2>1, <2>3, CompletedStep
<1>2. CASE todo # {}
  <2>1. /\ Others(c) /\ call'[c].state = "loop" /\ call'[c].block = h
        /\ call'[c].todo = todo /\ completed' = completed
    BY <1>2, ContinueFacts
  <2>2. Promise(call[c])'
    BY <2>1 DEF Promise
  <2> QED
    BY <2>1, <2>2, CompletedStep
<1> QED
  BY <1>1, <1>2

(* The promise of a call that has looked at the tracker. *)
LEMMA ReadTrackerKeeps ==
  ASSUME IInv, ClientOK, CompletedInv, NEW c \in Callers, ReadTracker(c)
  PROVE  CompletedInv'
<1>1. PICK auto, total : Continue(c, call[c].block, auto, total, Snapshot(c))
  BY ZenonT(60), ReadTrackerFacts
<1>2. call[c].state = "called" /\ call[c].block \in Heights /\ UNCHANGED vars
  BY ReadTrackerFacts
<1>3. Keeps /\ OneBlock' /\ minted' = minted
  BY <1>2, SameManager DEF vars, CompletedInv
<1>4. GroupsOf(call[c].block) \subseteq
        minted' \cup {GroupData(call[c].block, g) : g \in Snapshot(c)}
  BY <1>2, <1>3, SnapshotCovers
<1> QED
  BY ZenonT(60), <1>1, <1>3, <1>4, ContinueKeeps

-----------------------------------------------------------------------------
(* A block update comes when nothing is pending, so no call can be about   *)
(* a block under way; it starts a backlog of one block, or none.           *)
LEMMA TransitionKeeps ==
  ASSUME IInv, ClientOK, CompletedInv, ProcessBlockTransition
  PROVE  CompletedInv'
<1> DEFINE w == Operator
           h == header.height + 1
           b == LockedBuffer(bufs[w])
           n == b.count
<1>1. /\ w \in Writers /\ ProcessBlockUpdate(w) /\ ManagerIsEmpty(mgr)
      /\ h \in Heights /\ CanLock(bufs[w], Bridge)
      /\ UNCHANGED minted /\ UNCHANGED <<call, completed>>
  BY MintClientAssumption
     DEF MintClientConstants, ProcessBlockTransition, ProcessBlockUpdate, clientVars
<1>2. Keeps
  BY <1>1, BeforeUpdate DEF Keeps
<1>3. CASE Deposits[h] = 0 /\ LockAndRelease(w) /\ UNCHANGED mgr
  <2>1. OneBlock'
    BY <1>1, <1>3, SameManager DEF CompletedInv
  <2> QED
    BY <1>1, <1>2, <2>1, CompletedFrame
<1>4. CASE Deposits[h] # 0 /\ StartBacklog(w, h, <<Info(h)>>)
  <2> DEFINE infos == <<Info(h)>>
  <2>1. infos[1] = h /\ Len(infos) = 1 /\ h # EmptyInfo
    BY <1>1, <1>4, DepositsType DEF Info, EmptyInfo
  <2> HIDE DEF infos
  <2>2. StartBacklog(w, h, infos)
    BY <1>4 DEF infos
  <2>3. MintsReady(b, h)
    BY ZenonT(60), <2>1, <2>2 DEF StartBacklog
  <2>4. BufOK(b)
    <3>1. BufOK(bufs[w]) /\ bufs[w].locker # NoKey
      BY ZenonT(60), <1>1, BridgeMintAssumption, PendingMintBufferAssumption
         DEF IInv, TypeOK, BufTypeOK, BufOK, CanLock
    <3> QED
      BY ZenonT(60), <3>1, LockOK
  <2>5. n \in Nat /\ MintGroups(n) \in Nat /\ MintGroups(n) # 0
    BY ZenonT(60), <1>1, <1>4, <2>3, <2>4, FreshTracker
  <2>6. PICK i \in 0..Len(infos) :
          /\ CanAppend(mgr, infos, n, MintGroups(n), i)
          /\ mgr' = StandardAppendBlock(h, infos, w, n, MintGroups(n), i)
    BY ZenonT(60), <2>2 DEF StartBacklog
  <2> HIDE DEF b, n, h
  <2>7. i = 0
    <3> SUFFICES ASSUME i # 0 PROVE FALSE
      OBVIOUS
    <3>1. 0 \in 0..(i - 1)
      BY <2>1
    <3>2. infos[0 + 1] = EmptyInfo
      BY ZenonT(60), <2>6, <3>1 DEF CanAppend, FirstNonEmpty
    <3> QED
      BY <2>1, <3>2
  <2>8. mgr' = [infos |-> infos, current |-> 0, total |-> 1, start |-> h,
                tracker |-> Tracker(w, n, MintGroups(n))]
    <3>1. StandardAppendBlock(h, infos, w, n, MintGroups(n), 0) =
            [infos |-> infos, current |-> 0, total |-> Len(infos), start |-> h,
             tracker |-> Tracker(w, n, MintGroups(n))]
      BY SMTT(40), <2>5, AppendFacts
    <3> QED
      BY ZenonT(60), <2>1, <2>6, <2>7, <3>1
  <2>9. mgr'.total = 1 /\ mgr'.tracker.remaining = MintGroups(n)
    BY <2>8 DEF Tracker
  <2>10. OneBlock'
    BY <2>5, <2>9 DEF OneBlock, Pending, TrackerIsEmpty
  <2> QED
    BY <1>1, <1>2, <2>10, CompletedFrame
<1> QED
  BY <1>1, <1>3, <1>4 DEF ProcessBlockUpdate

(* A transaction that lands mints the very group it was made for.  If it   *)
(* was the last one, the whole block is minted.                            *)
LEMMA LandMints ==
  ASSUME IInv, OneBlock, NEW t, t.grp \in Nat, Executes(t)
  PROVE  Keeps /\ OneBlock' /\ minted' = minted \cup {GroupData(t.block, t.grp)}
<1> DEFINE w == Operator
           g == t.grp
           b == bufs[w]
           h == Cursor(mgr)
<1>1. w \in Writers
  BY MintClientAssumption DEF MintClientConstants
<1>2. MintGroup(mgr, w, b, g)
  BY Zenon DEF Executes, ProcessMintGroup, ProcessMintGroupAutoAdvance, OneBlock, Pending
<1>3. /\ Pending /\ ~ManagerIsEmpty(mgr) /\ mgr.tracker.account = w
      /\ CanClaim(mgr.tracker, g) /\ mgr' = ClaimManagerGroup(mgr, g) /\ UNCHANGED header
  BY ZenonT(60), <1>2 DEF MintGroup, Pending
<1>4. g \in GroupIndices
  BY <1>3, MintManagerAssumption DEF CanClaim, GroupIndices
<1>5. Follows(mgr) /\ Armed(mgr, b) /\ MgrOK(mgr) /\ BufOK(b)
  BY ZenonT(60), <1>1, <1>3 DEF IInv, TypeOK, MgrOK, BufTypeOK, BufOK
<1>6. \A v \in Writers \ {w} : ~(bufs[v].locked /\ bufs[v].locker = Bridge)
  BY ZenonT(60), <1>3 DEF IInv, LockedOnlyWhilePending
<1>7. /\ IInv' /\ g \in BlockGroups(h)
      /\ minted' = minted \cup {GroupData(h, g)}
  <2>1. TypeOK /\ IsFiniteSet(minted) /\ NoDoubleMint
    BY DEF IInv
  <2> HIDE DEF b, g, w
  <2> QED
    BY ZenonT(60), <1>1, <1>2, <1>3, <1>4, <1>5, <1>6, <2>1, MintStep
<1>8. t.block = h
  <2>1. b.groups = MintGroups(Deposits[h]) /\ b.hash = BlockHash(h)
    BY <1>5 DEF Armed, MintsReady
  <2>2. b.hash[g] = GroupData(h, g)
    BY <1>7, <2>1 DEF BlockHash
  <2>3. g < b.groups
    <3>1. MintGroups(Deposits[h]) \in Nat
      BY <1>3, CursorFacts, DepositsType, MintGroupsFacts
    <3> QED
      BY <1>7, <2>1, <3>1 DEF BlockGroups
  <2>4. GroupAt(b, b.groups, g) = GroupData(t.block, g)
    BY DEF Executes
  <2> QED
    BY <2>2, <2>3, <2>4, GroupDataDiffers, SMTT(60) DEF GroupAt
<1>9. /\ mgr.total = 1 /\ mgr.current = 0 /\ h = header.height /\ h \in Heights
  BY <1>3, CursorFacts
<1>10. /\ mgr'.total = 1 /\ mgr'.start = mgr.start
       /\ mgr'.current = IF mgr.tracker.remaining - 1 = 0 THEN 1 ELSE 0
       /\ TrackerIsEmpty(mgr'.tracker) <=> mgr.tracker.remaining - 1 = 0
  <2>1. mgr.current < mgr.total
    BY <1>9
  <2>2. LET next == ClaimManagerGroup(mgr, g)
            last == mgr.tracker.remaining - 1 = 0
        IN  /\ next.total = mgr.total /\ next.start = mgr.start
            /\ next.current = IF last THEN mgr.current + 1 ELSE mgr.current
            /\ TrackerIsEmpty(next.tracker) <=> last
    <3>1. MgrOK(mgr) /\ CanClaim(mgr.tracker, g)
      BY <1>3, <1>5, ZenonT(60)
    <3> HIDE DEF g
    <3> QED BY <1>4, <2>1, <3>1, ClaimFacts, ZenonT(60)
  <2>3. mgr' = ClaimManagerGroup(mgr, g) /\ mgr.total = 1 /\ mgr.current + 1 = 1
    BY <1>3, <1>9
  <2> HIDE DEF g
  <2> QED
    BY <1>9, <2>2, <2>3, ZenonT(60)
<1>11. OneBlock'
  BY <1>10 DEF OneBlock, Pending, ManagerIsEmpty
<1>12. GroupsOf(h) \subseteq minted' \/ (Pending' /\ Cursor(mgr)' = h)
  <2>1. CASE mgr.tracker.remaining - 1 = 0
    <3>1. ManagerIsEmpty(mgr)'
      BY <1>10, <2>1, SMTT(60) DEF ManagerIsEmpty
    <3>2. minted' = OwedUpTo(header.height)
      BY <1>3, <1>7, <3>1 DEF IInv
    <3>3. h \in 1..header.height
      BY <1>9, DepositsType
    <3> QED
      BY <3>2, <3>3 DEF OwedUpTo
  <2>2. CASE mgr.tracker.remaining - 1 # 0
    BY <1>9, <1>10, <2>2 DEF Pending, Cursor
  <2> QED
    BY <2>1, <2>2
<1>13. Keeps
  BY <1>7, <1>12 DEF Keeps
<1> QED
  BY <1>7, <1>8, <1>11, <1>13

(* A client drops a group from its list only when the group is minted. *)
LEMMA LandKeeps ==
  ASSUME IInv, ClientOK, CompletedInv, NEW t \in sent, Land(t)
  PROVE  CompletedInv'
<1>1. Executes(t) /\ t.grp \in Nat
  BY LandFacts
<1>2. Keeps /\ OneBlock' /\ minted' = minted \cup {GroupData(t.block, t.grp)}
  BY <1>1, LandMints DEF CompletedInv
<1>3. CASE UNCHANGED <<call, completed>>
  BY <1>2, <1>3, CompletedFrame
<1>4. ASSUME NEW c \in Callers, NEW auto, NEW total, Awaits(c, t),
             Continue(c, call[c].block, auto, total, call[c].todo \ {t.grp})
      PROVE  CompletedInv'
  <2>1. t.block = call[c].block /\ call[c].state = "sent"
    BY <1>4, AwaitsFacts
  <2>2. GroupsOf(call[c].block) \subseteq
          minted \cup {GroupData(call[c].block, g) : g \in call[c].todo}
    BY <2>1 DEF CompletedInv, Promise
  <2>3. GroupsOf(call[c].block) \subseteq
          minted' \cup {GroupData(call[c].block, g) : g \in call[c].todo \ {t.grp}}
    BY <1>2, <2>1, <2>2
  <2> QED
    BY Zenon, <1>2, <1>4, <2>3, ContinueKeeps
<1> QED
  BY <1>3, <1>4, LandFacts, ZenonT(60)

-----------------------------------------------------------------------------
(* The whole system of the operator, with block updates only.  A reorg     *)
(* update finalizes several blocks at once, and a tracker that has been    *)
(* left behind by one of them says nothing of the next.                    *)
LEMMA CompletedInit == OpInit => CompletedInv
<1> SUFFICES ASSUME OpInit PROVE CompletedInv
  OBVIOUS
<1>1. OneBlock
  BY DEF OpInit, Init, NewManager, OneBlock, ManagerIsEmpty
<1>2. \A c \in Callers : Promise(call[c])
  BY DEF OpInit, Idle, Promise
<1>3. CompletedMeansMinted
  BY DEF OpInit, CompletedMeansMinted
<1> QED
  BY <1>1, <1>2, <1>3 DEF CompletedInv

(* Every step preserves the promises. *)
LEMMA CompletedNext ==
  ASSUME Reorgs = {}, IInv, ClientOK, CompletedInv, [OpNext]_opVars
  PROVE  CompletedInv'
<1>1. CASE UNCHANGED opVars
  BY <1>1, SameManager, CompletedFrame DEF opVars, vars, clientVars, CompletedInv
<1>2. CASE Submits
  <2>1. ASSUME NEW h \in Heights, StageBlock(h)
        PROVE  CompletedInv'
    <3>1. UNCHANGED <<mgr, minted>> /\ UNCHANGED <<call, completed>>
      BY <2>1 DEF StageBlock, clientVars
    <3> QED
      BY <3>1, SameManager, CompletedFrame DEF CompletedInv
  <2>2. ~ProcessBlockReorg
    BY DEF ProcessBlockReorg
  <2> QED
    BY <1>2, <2>1, <2>2, TransitionKeeps DEF Submits
<1>3. ASSUME NEW c \in Callers, ClientStep(c)
      PROVE  CompletedInv'
  <2>1. SendGroup(c) => Retries(c) /\ UNCHANGED <<vars, completed>>
    BY SendGroupOK DEF Retries
  <2> QED
    BY <1>3, <2>1, CallClientKeeps, ReadTrackerKeeps, RetriesKeep DEF ClientStep
<1>4. ASSUME NEW t \in sent, Refuse(t)
      PROVE  CompletedInv'
  <2>1. UNCHANGED <<vars, completed>> /\ (UNCHANGED call \/ \E c \in Callers : Retries(c))
    BY <1>4, RefuseOK
  <2>2. CASE UNCHANGED call
    BY <2>1, <2>2, SameManager, CompletedFrame DEF vars, CompletedInv
  <2> QED
    BY <2>1, <2>2, RetriesKeep
<1>5. CASE Network
  BY <1>4, <1>5, LandKeeps DEF Network
<1>6. ASSUME NEW c \in Callers, Crash(c) \/ \E t \in sent : LoseReply(c, t)
      PROVE  CompletedInv'
  BY <1>6, CrashOK, LoseReplyOK, RetriesKeep
<1> QED
  BY <1>1, <1>2, <1>3, <1>5, <1>6 DEF OpNext

(* A client that reports fully_completed for the list of a block tells the *)
(* truth, for any number of clients of either kind at work on the same     *)
(* groups, although none of them looks at the tracker more than once, and  *)
(* whichever replies are lost and clients die, as long as blocks are       *)
(* submitted one by one.                                                   *)
THEOREM ReportsAreTrue ==
  ASSUME Reorgs = {}
  PROVE  OpSpec => []CompletedMeansMinted
<1>1. IInv /\ ClientOK /\ CompletedInv /\ [OpNext]_opVars => CompletedInv'
  BY CompletedNext
<1>2. CompletedInv => CompletedMeansMinted
  BY DEF CompletedInv
<1> QED
  BY CompletedInit, OperatorKeepsInvariant, <1>1, <1>2, PTL DEF OpSpec
=============================================================================
