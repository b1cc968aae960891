------------------------------ MODULE BridgeMint ------------------------------
(***************************************************************************)
(* How the bridge turns finalized Dogecoin deposits into minted tokens:    *)
(* block updates and reorg updates of the doge-bridge program, the two     *)
(* instructions that mint one group, and the pending-mint buffers and txo  *)
(* buffers they work on.                                                   *)
(*                                                                         *)
(*   - any writer stages the mints of a block in its own buffer;           *)
(*   - a block update (or a reorg update, for several blocks) locks the    *)
(*     buffer, checks it against the hashes in the proven header and       *)
(*     makes it the source of the pending mints;                           *)
(*   - each group is then minted by a transaction of its own, and the last *)
(*     one releases the buffer;                                            *)
(*   - when a reorg finalized several blocks, the first mint of the next   *)
(*     block brings in a new buffer ("just in time").                      *)
(*                                                                         *)
(* minted and mintTxs are history: which group data has been minted, and   *)
(* by how many successful transactions.                                    *)
(***************************************************************************)
EXTENDS PendingMintBuffer, MintManager, BridgeHeader

CONSTANTS
  Bridge           \* the bridge_state PDA, as a locker of buffers

ASSUME BridgeMintAssumption ==
  /\ Bridge \in Lockers
  /\ NoAccount \notin Writers

VARIABLES
  mgr,             \* pending_mint_txos
  txo,             \* the block whose txo list a writer's txo buffer holds
  minted,          \* the group data that was minted
  mintTxs          \* the number of groups that were minted

vars == <<bufs, header, recent, mgr, txo, minted, mintTxs>>

-----------------------------------------------------------------------------
(* What the proven hashes of block h commit to. *)
GroupData(h, g) ==
  [blk |-> h, grp |-> g, len |-> MintsInGroup(Deposits[h], g)]

BlockGroups(h) == 0..(MintGroups(Deposits[h]) - 1)

BlockHash(h) == [g \in BlockGroups(h) |-> GroupData(h, g)]

Info(h) == IF Deposits[h] = 0 THEN EmptyInfo ELSE h

(* Faulty: the hashes are not compared. *)
MintsReadyUnproven(b, h) ==
  /\ b.locker = Bridge
  /\ b.groups = MintGroups(b.count)
  /\ b.len >= BufferSize(MintGroups(b.count), b.count)
  /\ b.count = Deposits[h]

(* ensure_pending_mints_ready_for_transition_inner: buffer b is under the  *)
(* bridge's lock, is laid out as the bridge will read it, and the sha256   *)
(* of its count and group hashes is the one proven for block h.            *)
MintsReady(b, h) ==
  /\ b.locker = Bridge
  /\ b.groups = MintGroups(b.count)
  /\ b.count < U16 - 1
  /\ b.len >= BufferSize(MintGroups(b.count), b.count)
  /\ b.count = Deposits[h] /\ b.hash = BlockHash(h)

(* The buffer of a block that brought no mints is locked on entry and      *)
(* released on exit of the same transaction.                               *)
LockAndRelease(w) ==
  bufs' = [bufs EXCEPT ![w] = UnlockedBuffer(LockedBuffer(@))]

(* The blocks `infos' (the first at `height') become the backlog, with the *)
(* buffer of writer w as the source of the first one's mints.              *)
StartBacklog(w, height, infos) ==
  LET b == LockedBuffer(bufs[w])
      n == b.count
  IN  /\ MintsReady(b, infos[1])
      /\ txo[w] = height
      /\ \E i \in 0..Len(infos) :
           /\ CanAppend(mgr, infos, n, MintGroups(n), i)
           /\ mgr' = StandardAppendBlock(height, infos, w, n, MintGroups(n), i)
      /\ bufs' = [bufs EXCEPT ![w] = b]

(* Faulty: a block without mints is accepted while mints are pending. *)
BlockUpdateWhilePending(w) ==
  LET h == header.height + 1 IN
  /\ h \in Heights
  /\ CanLock(bufs[w], Bridge)
  /\ SingleBlock(h)
  /\ \/ Deposits[h] = 0 /\ LockAndRelease(w) /\ UNCHANGED mgr
     \/ Deposits[h] # 0 /\ StartBacklog(w, h, <<Info(h)>>)
  /\ UNCHANGED <<txo, minted, mintTxs>>

(* process_block_update by signer w, with w's own buffers. *)
ProcessBlockUpdate(w) ==
  LET h == header.height + 1 IN
  /\ h \in Heights
  /\ CanLock(bufs[w], Bridge)
  /\ ManagerIsEmpty(mgr)
  /\ SingleBlock(h)
  /\ Deposits[h] < U16
  /\ \/ Deposits[h] = 0 /\ LockAndRelease(w) /\ UNCHANGED mgr
     \/ Deposits[h] # 0 /\ StartBacklog(w, h, <<Info(h)>>)
  /\ UNCHANGED <<txo, minted, mintTxs>>

(* Faulty: the backlog starts at the first new block although leading      *)
(* blocks without mints were dropped from it.                              *)
ReorgFromFirstBlock(w, h) ==
  LET old   == header.height
      items == [i \in 1..(h - old) |-> Info(old + i)]
  IN  /\ CanLock(bufs[w], Bridge)
      /\ ReorgBlocks(h)
      /\ \E f \in 0..(h - old - 1) :
           /\ FirstNonEmpty(items, 0, f)
           /\ StartBacklog(w, old + 1, SubSeq(items, f + 1, h - old))
      /\ UNCHANGED <<txo, minted, mintTxs>>

(* process_reorg_blocks: the finalized height jumps to h.  The buffers are *)
(* those of the first of the new blocks that has mints.                    *)
ProcessReorgBlocks(w, h) ==
  LET old   == header.height
      items == [i \in 1..(h - old) |-> Info(old + i)]
  IN  /\ CanLock(bufs[w], Bridge)
      /\ ManagerIsEmpty(mgr)
      /\ ReorgBlocks(h)
      /\ \E f \in 0..(h - old) :
           /\ FirstNonEmpty(items, 0, f)
           /\ \/ f = h - old /\ LockAndRelease(w) /\ UNCHANGED mgr
              \/ /\ f < h - old
                 /\ StartBacklog(w, old + f + 1, SubSeq(items, f + 1, h - old))
      /\ UNCHANGED <<txo, minted, mintTxs>>

-----------------------------------------------------------------------------
(* The mints that are read from buffer b for group g: the data of the      *)
(* group, if it lies where the tracker's counters say and has the length   *)
(* they say; otherwise ZeroHash, for any other bytes.                      *)
MintsRead(b, t, g) ==
  LET d == GroupAt(b, TrackerGroups(t), g) IN
  IF d # ZeroHash /\ d.len = MintsInGroup(t.total % U16, g) THEN d ELSE ZeroHash

(* run_auto_mint_group_precheck on manager m, the mints of group g from    *)
(* buffer b of writer w, and the release of b after the last group.  The   *)
(* caller's should_unlock has to agree with can_unlock; the recipients it  *)
(* passes have to be those of the mints.                                   *)
MintGroup(m, w, b, g) ==
  LET t    == m.tracker
      next == ClaimManagerGroup(m, g)
      last == TrackerIsEmpty(next.tracker)
  IN  /\ ~ManagerIsEmpty(m)
      /\ TrackerGroups(t) # 0
      /\ ~TrackerIsEmpty(t)
      /\ CanClaim(t, g)
      /\ t.account = w
      /\ last => CanUnlock(b, Bridge)
      /\ mgr' = next
      /\ bufs' = [bufs EXCEPT ![w] = IF last THEN UnlockedBuffer(b) ELSE b]
      /\ minted' = minted \cup {MintsRead(b, t, g)}
      /\ mintTxs' = mintTxs + 1
      /\ UNCHANGED <<header, recent, txo>>

(* process_process_mint_group, signed by the operator of the bridge. *)
ProcessMintGroup(w, g) == MintGroup(mgr, w, bufs[w], g)

(* run_setup_next_pending_buffer, when fast_forward_empty stops at i: the  *)
(* buffer of writer w becomes the source of the next block's mints.        *)
SetupNextPendingBuffer(signer, w, i) ==
  LET b == bufs[w] IN
  /\ ~ManagerIsEmpty(mgr)
  /\ ReadyToStartNext(mgr)
  /\ FirstNonEmpty(mgr.infos, mgr.current, i)
  /\ i < mgr.total
  /\ MintsReady(b, mgr.infos[i + 1])
  /\ txo[signer] = mgr.start + i
  /\ txo[signer] = mgr.infos[i + 1]

NextPendingBuffer(w, i) ==
  LET n == bufs[w].count IN
  [FastForwardEmpty(mgr, i) EXCEPT !.tracker = Tracker(w, n, MintGroups(n))]

(* process_process_mint_group_auto_advance, by any signer: mints group g   *)
(* of the current block, or moves on to the next block with mints, locks   *)
(* its buffer and mints group g of that one.                               *)
ProcessMintGroupAutoAdvance(signer, w, g) ==
  IF TrackerIsEmpty(mgr.tracker) /\ ~ManagerIsEmpty(mgr)
  THEN \E i \in mgr.current..mgr.total :
         /\ SetupNextPendingBuffer(signer, w, i)
         /\ CanLock(bufs[w], Bridge)
         /\ MintGroup(NextPendingBuffer(w, i), w, LockedBuffer(bufs[w]), g)
  ELSE MintGroup(mgr, w, bufs[w], g)

-----------------------------------------------------------------------------
(* Writers at work on their buffers.  The txo-buffer program has no lock,  *)
(* so the list a txo buffer holds (0: none that belongs to the height it   *)
(* is tagged with) may change at any time.  Lockers other than the bridge  *)
(* can lock and release buffers that were set up for them.                 *)
StageMints(w) ==
  /\ WriterStep(w)
  /\ UNCHANGED <<header, recent, mgr, txo, minted, mintTxs>>

ForeignLock(w) ==
  /\ \E k \in Lockers \ {Bridge} : Lock(w, k) \/ Unlock(w, k)
  /\ UNCHANGED <<header, recent, mgr, txo, minted, mintTxs>>

StageTxos(w) ==
  /\ \E h \in 0..Len(Deposits) : txo' = [txo EXCEPT ![w] = h]
  /\ UNCHANGED <<bufs, header, recent, mgr, minted, mintTxs>>

Init ==
  /\ BufInit
  /\ HeaderInit
  /\ mgr = NewManager
  /\ txo = [w \in Writers |-> 0]
  /\ minted = {}
  /\ mintTxs = 0

(* The group indices worth trying: all that the counters of any block and  *)
(* the bitmap admit.                                                       *)
GroupIndices == 0..(BitmapBits - 1)

Next ==
  \/ \E w \in Writers :
       \/ StageMints(w)
       \/ StageTxos(w)
       \/ ForeignLock(w)
       \/ ProcessBlockUpdate(w)
       \/ \E h \in Heights : ProcessReorgBlocks(w, h)
       \/ \E g \in GroupIndices : ProcessMintGroup(w, g)
  \/ \E signer, w \in Writers : \E g \in GroupIndices :
       ProcessMintGroupAutoAdvance(signer, w, g)

Spec == Init /\ [][Next]_vars

(* The operator goes on submitting mint groups as long as one goes         *)
(* through (process_remaining_pending_mints_groups, called again after an  *)
(* error).  Nothing is assumed of anybody else.                            *)
OperatorMints == \E w \in Writers : \E g \in GroupIndices : ProcessMintGroup(w, g)

FairSpec == Spec /\ WF_vars(OperatorMints)
-----------------------------------------------------------------------------
GroupsOf(h) == {GroupData(h, g) : g \in BlockGroups(h)}

(* Everything owed for the blocks up to and including h. *)
OwedUpTo(h) == UNION {GroupsOf(k) : k \in 1..h}

(* The abstract ledger, seen through the header and the two histories. *)
Ledger == INSTANCE DepositLedger WITH
            Owed      <- [h \in Heights |-> GroupsOf(h)],
            finalized <- header.height

(* A block's mints are being executed. *)
Pending == ~TrackerIsEmpty(mgr.tracker)

(* The first block that is not completely minted. *)
Frontier ==
  IF ManagerIsEmpty(mgr) THEN header.height + 1 ELSE mgr.start + mgr.current

(* The program's accounts have the shape of their structs. *)
TypeOK ==
  /\ BufTypeOK
  /\ header \in [height : 0..Len(Deposits), tip : Nat]
  /\ recent \in [slots : [0..(RecentSlots - 1) -> 0..Len(Deposits)],
                 next : 0..(RecentSlots - 1)]
  /\ mgr \in [infos : Seq(0..Len(Deposits)), current : Nat, total : Nat,
              start : Nat,
              tracker : [account : Writers \cup {NoAccount},
                         claimed : SUBSET GroupIndices,
                         total : Nat, remaining : Nat]]
  /\ mgr.total = Len(mgr.infos) /\ mgr.total <= BacklogLimit
  /\ mgr.current <= mgr.total
  /\ txo \in [Writers -> 0..Len(Deposits)]
  /\ minted \subseteq MintData \cup {ZeroHash}
  /\ mintTxs \in Nat

(* No group is ever minted twice: not by the two minting instructions one  *)
(* after the other, not after a buffer was staged again with a list that   *)
(* was minted before, not by bringing the same block in again.             *)
NoDoubleMint == mintTxs = Cardinality(minted)

(* Only what the proven headers commit to is minted: whole groups, from    *)
(* finalized blocks, read from the buffer exactly as they were hashed.     *)
OnlyProvenMints == minted \subseteq OwedUpTo(header.height)

(* The bridge considers itself ready for a new block only when every       *)
(* deposit of every finalized block is minted: nothing is left behind when *)
(* the backlog is overwritten.                                             *)
NothingLeftBehind ==
  ManagerIsEmpty(mgr) => OwedUpTo(header.height) \subseteq minted

(* What has been minted is exactly what the cursor and the bitmap say.     *)
MintedMatchesCursor ==
  minted = OwedUpTo(Frontier - 1) \cup
             (IF Pending THEN {GroupData(Frontier, g) : g \in mgr.tracker.claimed}
              ELSE {})

(* The buffer that mints are read from is frozen, and holds the list that  *)
(* was proven for the block at the cursor, for as long as one of its       *)
(* groups is still to be minted.                                           *)
PendingBufferIsProven ==
  Pending =>
    /\ mgr.tracker.account \in Writers
    /\ LET b == bufs[mgr.tracker.account] IN
       /\ b.locked
       /\ MintsReady(b, Frontier)
       /\ mgr.tracker.total = b.count

(* The bridge holds the lock of a buffer exactly while that buffer is the  *)
(* source of pending mints: no update or mint leaves a writer's buffer     *)
(* locked for good, and none releases it early.                            *)
LockedOnlyWhilePending ==
  \A w \in Writers :
    bufs[w].locked /\ bufs[w].locker = Bridge
      <=> Pending /\ mgr.tracker.account = w

(* The count of remaining groups, which decides when a block is done, is   *)
(* the number of groups whose bit is not set.                              *)
RemainingIsUnclaimed ==
  Pending =>
    mgr.tracker.remaining = Cardinality(BlockGroups(Frontier) \ mgr.tracker.claimed)

(* The backlog is the chain from its start to the finalized block: its     *)
(* infos and its cursor never drift from the heights they stand for.       *)
BacklogIsChain ==
  ~ManagerIsEmpty(mgr) =>
    /\ mgr.start + mgr.total - 1 = header.height
    /\ \A i \in 1..mgr.total : mgr.infos[i] = Info(mgr.start + i - 1)
    /\ mgr.current < mgr.total

(* The bridge implements the ledger: every step of either program is a     *)
(* finalization after full payment, one owed group minted in block order,  *)
(* or invisible.                                                           *)
ImplementsLedger == Ledger!LedgerSpec

(* Once everything that is owed is minted, the bridge accepts the next     *)
(* block.                                                                  *)
ReadyWhenAllMinted ==
  OwedUpTo(header.height) \subseteq minted => ManagerIsEmpty(mgr)

(* The only way not to be ready then is a backlog that ends with blocks    *)
(* without mints.                                                          *)
StuckOnlyOnTrailingEmpty ==
  OwedUpTo(header.height) \subseteq minted /\ ~ManagerIsEmpty(mgr) =>
    Deposits[header.height] = 0 /\ mgr.total > 1

(* Mints that have become pending are all executed in the end, and the     *)
(* buffer goes back to its writer: there is no state in which the last     *)
(* groups of a block are refused, so an operator that keeps minting always *)
(* gets through.                                                           *)
PendingDrains == Pending ~> ~Pending
=============================================================================
