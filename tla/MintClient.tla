------------------------------ MODULE MintClient ------------------------------
(***************************************************************************)
(* The operator's side of minting: it stages the lists of a block, submits *)
(* the block, and then has a client mint the groups of the block one       *)
(* transaction after the other (process_remaining_pending_mints_groups and *)
(* its auto-advance form).  The client looks at the bridge's tracker once, *)
(* at the start, and works from that snapshot; replies get lost, clients   *)
(* die and are called again, and two of them may work at the same time.    *)
(*                                                                         *)
(* The programs are those of BridgeMint.  The staging of a buffer is one   *)
(* step here; MintUpload and TxoUpload have its transactions.              *)
(***************************************************************************)
EXTENDS BridgeMint

CONSTANTS
  Operator,      \* the key that stages, submits and mints
  Callers,       \* the client processes that mint for it
  JsCallers,     \* those of them that run the TypeScript client
  Reorgs,        \* the heights the operator finalizes with a reorg update
  MaxRetries,    \* RetryConfig::max_retries
  MaxFaults      \* bound: lost replies and crashes in a behaviour

MintClientConstants ==
  /\ Operator \in Writers
  /\ JsCallers \subseteq Callers
  /\ Reorgs \subseteq Heights
  /\ MaxRetries \in Nat /\ MaxFaults \in Nat
  /\ \A h \in Heights : Deposits[h] \in MintCounts /\ GroupsOf(h) \subseteq MintData

ASSUME MintClientAssumption == MintClientConstants

VARIABLES
  call,          \* what each caller is doing
  sent,          \* mint transactions that may still land
  faults,        \* how many lost replies and crashes have happened
  completed      \* the blocks a client has reported as fully_completed

clientVars == <<call, sent, faults, completed>>
opVars == <<vars, clientVars>>

Idle == [state |-> "idle"]

OpInit ==
  /\ Init
  /\ call = [c \in Callers |-> Idle]
  /\ sent = {}
  /\ faults = 0
  /\ completed = {}

-----------------------------------------------------------------------------
(* Block h is the next one whose groups are to be minted. *)
NextToMint(h) ==
  /\ ~ManagerIsEmpty(mgr)
  /\ h \in Frontier..header.height
  /\ Deposits[h] # 0
  /\ \A k \in Frontier..(h - 1) : Deposits[k] = 0

(* Block h is the one whose lists go with the next update: the next block, *)
(* or the first one with mints of those a reorg update finalizes.          *)
NextToSubmit(h) ==
  /\ ManagerIsEmpty(mgr)
  /\ h \in (header.height + 1)..Len(Deposits)
  /\ IF Reorgs = {} THEN h = header.height + 1
     ELSE Deposits[h] # 0 /\ \A k \in (header.height + 1)..(h - 1) : Deposits[k] = 0

StagedBuffer(h) ==
  [locker |-> Bridge, locked |-> FALSE, count |-> Deposits[h],
   groups |-> MintGroups(Deposits[h]), initialized |-> Deposits[h],
   len |-> BufferSize(MintGroups(Deposits[h]), Deposits[h]), hash |-> BlockHash(h)]

(* setup_pending_mints_buffer and setup_txo_buffer, as a whole. *)
StageBlock(h) ==
  /\ NextToMint(h) \/ NextToSubmit(h)
  /\ ~bufs[Operator].locked
  /\ bufs[Operator] # StagedBuffer(h) \/ txo[Operator] # h
  /\ bufs' = [bufs EXCEPT ![Operator] = StagedBuffer(h)]
  /\ txo' = [txo EXCEPT ![Operator] = h]
  /\ UNCHANGED <<header, recent, mgr, minted, mintTxs, clientVars>>

(* process_block_transition and process_block_reorg *)
ProcessBlockTransition ==
  /\ Reorgs = {}
  /\ ProcessBlockUpdate(Operator)
  /\ UNCHANGED clientVars

ProcessBlockReorg ==
  /\ \E h \in Reorgs : ProcessReorgBlocks(Operator, h)
  /\ UNCHANGED clientVars

-----------------------------------------------------------------------------
(* A client is called to mint the list of block h, with the standard       *)
(* instruction while the block is under way, or with auto-advance.         *)
CallClient(c, h, auto) ==
  /\ call[c] = Idle
  /\ NextToMint(h)
  /\ Pending \/ (auto /\ bufs[Operator].hash = BlockHash(h) /\ txo[Operator] = h)
  /\ call' = [call EXCEPT ![c] = [state |-> "called", block |-> h, auto |-> auto]]
  /\ UNCHANGED <<vars, sent, faults, completed>>

(* Faulty: the groups that are already claimed are not left out. *)
AllGroups(t, h) == [total |-> TrackerGroups(t), todo |-> 0..(TrackerGroups(t) - 1)]

(* The groups the Rust client goes through: those of the tracker, read     *)
(* once, that are not claimed in it.                                       *)
RemainingGroups(t, h) ==
  [total |-> TrackerGroups(t), todo |-> (0..(TrackerGroups(t) - 1)) \ t.claimed]

(* The TypeScript client does not look at the tracker. *)
JsGroups(t, h) == [total |-> MintGroups(Deposits[h]), todo |-> BlockGroups(h)]

(* The call goes on to the groups `todo', in ascending order, or returns. *)
Continue(c, h, auto, total, todo) ==
  IF todo = {}
  THEN /\ call' = [call EXCEPT ![c] = Idle]
       /\ completed' = completed \cup {h}
  ELSE /\ call' = [call EXCEPT ![c] = [state |-> "loop", block |-> h, auto |-> auto,
                                       total |-> total, todo |-> todo]]
       /\ UNCHANGED completed

ReadTracker(c) ==
  LET h == call[c].block
      p == IF c \in JsCallers THEN JsGroups(mgr.tracker, h)
           ELSE RemainingGroups(mgr.tracker, h)
  IN  /\ call[c].state = "called"
      /\ Continue(c, h, call[c].auto, p.total, p.todo)
      /\ UNCHANGED <<vars, sent, faults>>

Fails(c) == call' = [call EXCEPT ![c] = Idle]

Waits(c, t) ==
  call' = [call EXCEPT ![c] = [state |-> "sent", block |-> @.block, auto |-> @.auto,
                               total |-> @.total, todo |-> @.todo, tx |-> t]]

(* One turn of the loop: the instruction for the next group.  A group that *)
(* starts behind the end of the caller's list panics on the slice.         *)
SendGroup(c) ==
  LET k == call[c]
      g == Min(k.todo)
      n == CHOOSE i \in 0..Cardinality(sent) : \A t \in sent : t.n # i
      t == [n |-> n, block |-> k.block, grp |-> g, last |-> g = k.total - 1,
            auto |-> k.auto, try |-> 0]
  IN  /\ k.state = "loop"
      /\ IF g * GroupSize > Deposits[k.block]
         THEN Fails(c) /\ UNCHANGED sent
         ELSE Waits(c, t) /\ sent' = sent \cup {t}
      /\ UNCHANGED <<vars, faults, completed>>

Awaits(c, t) == call[c].state = "sent" /\ call[c].tx = t

(* The instruction succeeds: the recipients it lists are those of the      *)
(* mints in the buffer, and should_unlock agrees with can_unlock.          *)
Executes(t) ==
  /\ GroupAt(bufs[Operator], bufs[Operator].groups, t.grp) = GroupData(t.block, t.grp)
  /\ IF t.auto THEN ProcessMintGroupAutoAdvance(Operator, Operator, t.grp)
     ELSE ProcessMintGroup(Operator, t.grp)
  /\ t.last <=> TrackerIsEmpty(mgr'.tracker)

Rejects(t) == ~ENABLED Executes(t)

Land(t) ==
  /\ Executes(t)
  /\ sent' = sent \ {t}
  /\ IF \E c \in Callers : Awaits(c, t)
     THEN \E c \in Callers :
            LET k == call[c] IN
            /\ Awaits(c, t)
            /\ Continue(c, k.block, k.auto, k.total, k.todo \ {Min(k.todo)})
     ELSE UNCHANGED <<call, completed>>
  /\ UNCHANGED faults

(* Faulty: a group that fails is passed over. *)
SkipOnError(c, t, others) ==
  /\ Continue(c, t.block, t.auto, call[c].total, call[c].todo \ {Min(call[c].todo)})
  /\ sent' = others

(* send_and_confirm (or sendWithRetry) after an error of transaction t:    *)
(* the same instruction again, and in the end the error, which ends the    *)
(* whole call.                                                             *)
AfterError(c, t, others) ==
  /\ IF t.try < MaxRetries
     THEN LET again == [t EXCEPT !.try = @ + 1] IN
          Waits(c, again) /\ sent' = others \cup {again}
     ELSE Fails(c) /\ sent' = others
  /\ UNCHANGED completed

Refuse(t) ==
  /\ Rejects(t)
  /\ IF \E c \in Callers : Awaits(c, t)
     THEN \E c \in Callers : Awaits(c, t) /\ AfterError(c, t, sent \ {t})
     ELSE sent' = sent \ {t} /\ UNCHANGED <<call, completed>>
  /\ UNCHANGED <<vars, faults>>

(* The client is told of an error although t may still land. *)
LoseReply(c, t) ==
  /\ Awaits(c, t)
  /\ faults < MaxFaults
  /\ faults' = faults + 1
  /\ AfterError(c, t, sent)
  /\ UNCHANGED vars

(* The client process dies; its transaction may still land. *)
Crash(c) ==
  /\ call[c] # Idle
  /\ faults < MaxFaults
  /\ faults' = faults + 1
  /\ Fails(c)
  /\ UNCHANGED <<vars, sent, completed>>

-----------------------------------------------------------------------------
Submits ==
  \/ \E h \in Heights : StageBlock(h)
  \/ ProcessBlockTransition
  \/ ProcessBlockReorg

ClientStep(c) ==
  \/ \E h \in Heights, auto \in BOOLEAN : CallClient(c, h, auto)
  \/ ReadTracker(c)
  \/ SendGroup(c)

Network == \E t \in sent : Land(t) \/ Refuse(t)

Answers(c) == \E t \in sent : Awaits(c, t) /\ (Land(t) \/ Refuse(t))

OpNext ==
  \/ Submits
  \/ \E c \in Callers : ClientStep(c)
  \/ Network
  \/ \E c \in Callers : Crash(c) \/ \E t \in sent : LoseReply(c, t)

OpSpec == OpInit /\ [][OpNext]_opVars

(* The operator goes on submitting blocks and calling its clients, a       *)
(* client goes on until its call ends, and the network decides every       *)
(* transaction that somebody waits for.                                    *)
OpFairSpec ==
  /\ OpSpec
  /\ WF_opVars(Submits)
  /\ \A c \in Callers : WF_opVars(ClientStep(c)) /\ WF_opVars(Answers(c))

-----------------------------------------------------------------------------
(* fully_completed says what ProcessMintsResult promises: a client reports *)
(* it for the list it was given only if every group of that list has been  *)
(* minted, by whichever transaction, although it works from a tracker that *)
(* others change under it and never looks again.                           *)
CompletedMeansMinted == \A h \in completed : GroupsOf(h) \subseteq minted

(* The mints of all blocks are executed in the end: an interrupted call, a *)
(* lost reply, or another client at work on the same groups never leaves a *)
(* block that calling the client again does not finish.                    *)
EverythingIsMinted == <>(minted = OwedUpTo(Len(Deposits)))
=============================================================================
