----------------------------- MODULE MintManager -----------------------------
(***************************************************************************)
(* FinalizedBlockMintTxoManager, the part of the bridge's state that       *)
(* remembers which finalized blocks still have mints to execute.  A block  *)
(* update appends one block, a reorg update up to BacklogLimit of them;    *)
(* the tracker follows the one block whose mints are being executed.       *)
(*                                                                         *)
(* The operators take and return the manager's record.  A method that      *)
(* returns Err is a guard (Can..., Ready...) beside the operator for the   *)
(* state it leaves behind.                                                 *)
(* The 8-slot array is modelled by its first total_count entries: the      *)
(* others are never read.                                                  *)
(***************************************************************************)
EXTENDS MintGroups, Sequences, FiniteSets

CONSTANTS
  NoAccount,      \* the all-zero storage account key
  BacklogLimit,   \* 8, the length of pending_finalized_info
  BitmapBits      \* 256, the bits of pending_mint_groups_claimed

ASSUME MintManagerAssumption ==
  /\ BacklogLimit \in Nat \ {0}
  /\ BitmapBits \in Nat \ {0}

(* An info is a pair of hashes that commit to the lists of one block.  It  *)
(* is modelled by the height of that block; 0 stands for the two default   *)
(* hashes, which all blocks without mints share.                           *)
EmptyInfo == 0

-----------------------------------------------------------------------------
(* PendingMintsTracker.  The bitmap is the set of its bits. *)
Tracker(account, mints, groups) ==
  [account |-> account, claimed |-> {}, total |-> mints, remaining |-> groups]

ZeroTracker == Tracker(NoAccount, 0, 0)

TrackerIsEmpty(t) == t.remaining = 0

(* Faulty: rounds down. *)
FullTrackerGroups(t) == (t.total % U16) \div GroupSize

(* get_current_total_pending_mints_groups: the cast to u16 included. *)
TrackerGroups(t) == MintGroups(t.total % U16)

(* Faulty: does not look at the bitmap. *)
CanClaimAgain(t, g) ==
  /\ t.total # 0
  /\ t.remaining # 0
  /\ g < BitmapBits
  /\ g < TrackerGroups(t)

(* ensure_can_claim_pending_mints_group, followed by the same checks in    *)
(* mark_pending_mints_group_claimed.  An index of exactly 256 passes the   *)
(* comparison with 256 and panics on the bitmap; larger ones are refused:  *)
(* either way the transaction changes nothing.                             *)
CanClaim(t, g) ==
  /\ t.total # 0
  /\ t.remaining # 0
  /\ g < BitmapBits
  /\ g < TrackerGroups(t)
  /\ g \notin t.claimed

(* Faulty: sets the bit but does not count it. *)
ClaimUncounted(t, g) == [t EXCEPT !.claimed = @ \cup {g}]

ClaimGroup(t, g) ==
  [t EXCEPT !.claimed = @ \cup {g}, !.remaining = @ - 1]

-----------------------------------------------------------------------------
NewManager ==
  [infos |-> <<>>, current |-> 0, total |-> 0, start |-> 0,
   tracker |-> ZeroTracker]

(* Faulty: forgets the blocks behind the cursor's. *)
TrackerOnlyIsEmpty(m) == m.total = 0 \/ TrackerIsEmpty(m.tracker)

ManagerIsEmpty(m) ==
  \/ m.total = 0
  \/ m.total = m.current /\ TrackerIsEmpty(m.tracker)

(* i is the number of infos, counted from the start of the backlog, that   *)
(* lie before the first one that is not empty, looking from index `from'   *)
(* on; the length of the backlog if there is none.                         *)
FirstNonEmpty(infos, from, i) ==
  /\ i \in from..Len(infos)
  /\ \A j \in from..(i - 1) : infos[j + 1] = EmptyInfo
  /\ i < Len(infos) => infos[i + 1] # EmptyInfo

(* fast_forward_empty, when it stops at index i.  It is called only with   *)
(* the tracker empty and infos left, where its early returns do not apply. *)
FastForwardEmpty(m, i) ==
  IF i = m.current THEN m
  ELSE [m EXCEPT !.current = i, !.tracker = ZeroTracker]

(* Faulty: never leaves a block. *)
ClaimStaysOnBlock(m, g) == [m EXCEPT !.tracker = ClaimGroup(m.tracker, g)]

(* mark_pending_mints_group_claimed of the manager: the block is left      *)
(* behind with its last group.                                             *)
ClaimManagerGroup(m, g) ==
  LET t == ClaimGroup(m.tracker, g) IN
  [m EXCEPT !.tracker = t,
            !.current = IF TrackerIsEmpty(t) /\ m.current < m.total
                        THEN @ + 1 ELSE @]

(* ensure_ready_to_start_next_pending_finalized_info *)
ReadyToStartNext(m) ==
  /\ TrackerIsEmpty(m.tracker)
  /\ m.current < m.total

(* standard_append_block, when fast_forward_empty stops at index i of the  *)
(* new list.                                                               *)
CanAppend(m, infos, mints, groups, i) ==
  /\ ManagerIsEmpty(m)
  /\ Len(infos) \in 1..BacklogLimit
  /\ FirstNonEmpty(infos, 0, i)
  /\ i = Len(infos) => mints = 0 /\ groups = 0

StandardAppendBlock(height, infos, account, mints, groups, i) ==
  LET a == FastForwardEmpty([infos |-> infos, current |-> 0,
                             total |-> Len(infos), start |-> height,
                             tracker |-> Tracker(account, 0, 0)], i)
  IN  [a EXCEPT !.tracker = [@ EXCEPT !.total = mints, !.remaining = groups]]
=============================================================================
