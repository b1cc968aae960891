-------------------------- MODULE PendingMintBuffer --------------------------
(***************************************************************************)
(* The pending-mint-buffer program.  Every writer owns one buffer account  *)
(* (a PDA of the writer's key) in which the mints of one block are staged  *)
(* group by group.  The locker named when the account is set up (the       *)
(* bridge's PDA, if the buffer is to be of any use) can freeze the buffer  *)
(* while its mints are executed, and releases it afterwards.               *)
(*                                                                         *)
(* A group's data is a record [blk, grp, len]: `len' mints which start     *)
(* with the first mint of group `grp' of the list of block `blk'.  The     *)
(* sha256 of a group is modelled by the data itself (no collisions).       *)
(* A transaction either succeeds as a whole or changes nothing, so an      *)
(* action is enabled exactly when the instruction succeeds.                *)
(***************************************************************************)
EXTENDS MintGroups, FiniteSetsExt

CONSTANTS
  Writers,        \* the keys that stage mints; each owns one buffer
  Lockers,        \* the keys a buffer may be set up with as its locker
  NoKey,          \* the all-zero key of an account that was never set up
  ZeroHash,       \* the all-zero bytes of a group that was never inserted
  MintData,       \* the group data writers upload
  MintCounts,     \* the lengths writers re-initialise a buffer to
  MaxIncrease     \* MAX_PERMITTED_DATA_INCREASE: growth per instruction

ASSUME PendingMintBufferAssumption ==
  /\ NoKey \notin Lockers
  /\ ZeroHash \notin MintData
  /\ MintData \subseteq [blk : Nat, grp : Nat, len : Nat]
  /\ MintCounts \subseteq 0..(U16 - 1)
  /\ MaxIncrease \in Nat

VARIABLE bufs     \* the buffer account of each writer

bufVars == <<bufs>>

NoGroups == [g \in {} |-> ZeroHash]

(* An account nobody has set up: no data, no owner. *)
AbsentBuffer ==
  [locker |-> NoKey, locked |-> FALSE, count |-> 0, groups |-> 0,
   initialized |-> 0, len |-> 0, hash |-> NoGroups]

IsSetUp(b) == b.locker # NoKey

(* The length of an account after an instruction that wants it to be       *)
(* `target' bytes long has grown it as far as one instruction may.         *)
Grown(len, target) ==
  IF target > len
  THEN len + (IF target - len < MaxIncrease THEN target - len ELSE MaxIncrease)
  ELSE len

(* The group data at the place where a reader looks that assumes `groups'  *)
(* groups in front of the mints; ZeroHash stands for anything else.        *)
GroupAt(b, groups, g) ==
  IF groups = b.groups /\ g < groups THEN b.hash[g] ELSE ZeroHash

-----------------------------------------------------------------------------
(* Tag 0.  The PDA is derived from the writer's key; the header accepts    *)
(* its locker only once.                                                   *)
Setup(w, k) ==
  /\ ~IsSetUp(bufs[w])
  /\ bufs' = [bufs EXCEPT ![w] = [AbsentBuffer EXCEPT !.locker = k,
                                                      !.len = HeaderSize]]

(* Faulty: forgets the lock. *)
ReinitWhileLocked(w, n) ==
  /\ IsSetUp(bufs[w])
  /\ bufs' = [bufs EXCEPT ![w] =
       [@ EXCEPT !.count = n, !.groups = ReinitGroups(n), !.initialized = 0,
                 !.hash = [g \in 0..(ReinitGroups(n) - 1) |-> ZeroHash]]]

(* Faulty: clears as many hashes as the list has groups, not as many as    *)
(* the header says.                                                        *)
ReinitOtherLayout(w, n) ==
  /\ IsSetUp(bufs[w])
  /\ ~bufs[w].locked
  /\ bufs' = [bufs EXCEPT ![w] =
       [@ EXCEPT !.count = n, !.groups = ReinitGroups(n), !.initialized = 0,
                 !.hash = [g \in 0..(MintGroups(n) - 1) |-> ZeroHash]]]

(* Tag 1.  The account follows the new length, down at once and up by at   *)
(* most MaxIncrease; the hashes of the new layout are zeroed.              *)
Reinit(w, n) ==
  LET b      == bufs[w]
      target == BufferSize(MintGroups(n), n)
  IN  /\ IsSetUp(b)
      /\ ~b.locked
      /\ bufs' = [bufs EXCEPT ![w] =
           [b EXCEPT !.count       = n,
                     !.groups      = ReinitGroups(n),
                     !.initialized = 0,
                     !.len         = IF target < b.len THEN target
                                     ELSE Grown(b.len, target),
                     !.hash        = [g \in 0..(ReinitGroups(n) - 1) |-> ZeroHash]]]

(* Tag 2.  Grows the account towards its layout; never shrinks it. *)
Resize(w) ==
  LET b      == bufs[w]
      target == BufferSize(b.groups, b.count)
  IN  /\ IsSetUp(b)
      /\ ~b.locked
      /\ target >= b.len
      /\ bufs' = [bufs EXCEPT ![w].len = Grown(b.len, target)]

(* Faulty: accepts a group that is already there. *)
InsertAgain(w, g, d) ==
  LET b == bufs[w] IN
  /\ IsSetUp(b)
  /\ ~b.locked
  /\ g < b.groups
  /\ d.len <= GroupSize
  /\ bufs' = [bufs EXCEPT ![w].hash[g] = d,
                          ![w].initialized = (@ + d.len) % U16]

(* Tag 3.  One group, once, inside the account as far as it has grown. *)
Insert(w, g, d) ==
  LET b     == bufs[w]
      len   == Grown(b.len, BufferSize(b.groups, b.count))
      start == (g * GroupSize) % U16
  IN  /\ IsSetUp(b)
      /\ ~b.locked
      /\ g < b.groups
      /\ d.len <= GroupSize
      /\ MintOffset(b.groups, start) + PendingMintSize * d.len <= len
      /\ b.hash[g] = ZeroHash
      /\ bufs' = [bufs EXCEPT ![w] =
           [b EXCEPT !.len         = len,
                     !.hash        = [@ EXCEPT ![g] = d],
                     !.initialized = (@ + d.len) % U16]]

(* Faulty: locks a list that is not complete. *)
CanLockIncomplete(b, k) == IsSetUp(b) /\ ~b.locked /\ b.locker = k

(* Tag 4, as a guard and the locked header: the CPI of the bridge. *)
CanLock(b, k) ==
  /\ IsSetUp(b)
  /\ ~b.locked
  /\ b.initialized = b.count
  /\ b.locker = k

(* Faulty: the lock is not taken. *)
NotLockedBuffer(b) == b

LockedBuffer(b) == [b EXCEPT !.locked = TRUE]

Lock(w, k) ==
  /\ CanLock(bufs[w], k)
  /\ bufs' = [bufs EXCEPT ![w] = LockedBuffer(@)]

(* Tag 5: releasing a buffer also forgets what it held. *)
CanUnlock(b, k) ==
  /\ b.locked
  /\ b.locker = k

(* Faulty: the list is forgotten but the lock is kept. *)
StillLockedBuffer(b) ==
  [b EXCEPT !.groups = 0, !.count = 0, !.initialized = 0, !.hash = NoGroups]

UnlockedBuffer(b) ==
  [b EXCEPT !.locked = FALSE, !.groups = 0, !.count = 0,
            !.initialized = 0, !.hash = NoGroups]

Unlock(w, k) ==
  /\ CanUnlock(bufs[w], k)
  /\ bufs' = [bufs EXCEPT ![w] = UnlockedBuffer(@)]

-----------------------------------------------------------------------------
BufInit == bufs = [w \in Writers |-> AbsentBuffer]

(* What a writer can do to its own account. *)
WriterStep(w) ==
  \/ \E k \in Lockers : Setup(w, k)
  \/ \E n \in MintCounts : Reinit(w, n)
  \/ Resize(w)
  \/ \E g \in 0..(bufs[w].groups - 1) : \E d \in MintData : Insert(w, g, d)

BufNext ==
  \E w \in Writers :
    \/ WriterStep(w)
    \/ \E k \in Lockers : Lock(w, k)
    \/ \E k \in Lockers : Unlock(w, k)

BufSpec == BufInit /\ [][BufNext]_bufVars

-----------------------------------------------------------------------------
(* Every account has the shape of PendingMintsBufferStateHeader and its    *)
(* hash area has one entry per group of the header.                        *)
BufTypeOK ==
  /\ DOMAIN bufs = Writers
  /\ \A w \in Writers :
       /\ bufs[w] \in [locker : Lockers \cup {NoKey}, locked : BOOLEAN,
                       count : 0..(U16 - 1), groups : Nat,
                       initialized : 0..(U16 - 1), len : Nat,
                       hash : [0..(bufs[w].groups - 1) -> MintData \cup {ZeroHash}]]
       /\ IsSetUp(bufs[w]) \/ bufs[w] = AbsentBuffer

(* The number of mints stored in the groups of a buffer. *)
StoredMints(b) ==
  MapThenSumSet(LAMBDA g : IF b.hash[g] = ZeroHash THEN 0 ELSE b.hash[g].len,
                DOMAIN b.hash)

(* pending_mints_initialized, the only thing lock() looks at, is the       *)
(* number of mints really stored: no sequence of re-initialisations,       *)
(* inserts, resizes and unlocks makes it drift, wrap or count a group      *)
(* twice.                                                                  *)
InitializedIsStored ==
  \A w \in Writers : bufs[w].initialized = StoredMints(bufs[w])

(* A buffer that could be locked is complete: every group of the list is   *)
(* there, each with exactly the number of mints the bridge will read from  *)
(* it, although insert_pending_mints accepts short groups and lock()       *)
(* compares nothing but two counters.  In particular the group count that  *)
(* wraps in reinit() can never be locked.                                  *)
LockedIsComplete ==
  \A w \in Writers :
    LET b == bufs[w] IN
    b.locked =>
      /\ b.groups = MintGroups(b.count)
      /\ \A g \in 0..(b.groups - 1) :
            b.hash[g] # ZeroHash /\ b.hash[g].len = MintsInGroup(b.count, g)

(* While a buffer is locked nothing about it changes, except that its own  *)
(* locker releases it: the writer can not touch it by any instruction.     *)
LockedIsFrozen ==
  [][\A w \in Writers :
       bufs[w].locked /\ bufs'[w] # bufs[w] =>
         /\ Unlock(w, bufs[w].locker)
         /\ bufs'[w].locker = bufs[w].locker]_bufVars

(* Data that was written to a group stays there, byte for byte, until the  *)
(* whole buffer is started over: a second insert of the same group (a      *)
(* retry, or a concurrent upload) never replaces it.                       *)
GroupsAreWrittenOnce ==
  [][\A w \in Writers : \A g \in DOMAIN bufs[w].hash :
       bufs[w].hash[g] # ZeroHash =>
         \/ bufs'[w].initialized = 0 /\ StoredMints(bufs[w])' = 0
         \/ g \in DOMAIN bufs'[w].hash /\ bufs'[w].hash[g] = bufs[w].hash[g]]_bufVars
=============================================================================
