-------------------------- MODULE BridgeMint_proofs --------------------------
(***************************************************************************)
(* Proofs about block updates and minting, for any chain of deposits and   *)
(* any set of writers.                                                     *)
(***************************************************************************)
EXTENDS BridgeMint, PendingMintBuffer_proofs

(* The time each prover has for a step that names none. *)
USE SMTT(30), ZenonT(30)

-----------------------------------------------------------------------------
(* A part of a sequence. *)
LEMMA SubSeqFacts ==
  ASSUME NEW S, NEW s, NEW a \in Int, NEW b \in Int, a <= b,
         \A i \in a..b : s[i] \in S
  PROVE  /\ SubSeq(s, a, b) \in Seq(S)
         /\ Len(SubSeq(s, a, b)) = b - a + 1
         /\ \A i \in 1..(b - a + 1) : SubSeq(s, a, b)[i] = s[a + i - 1]
  OBVIOUS

(* Facts about the way a list is cut into groups. *)
LEMMA MintGroupsFacts ==
  ASSUME NEW n \in Nat
  PROVE  /\ MintGroups(n) \in Nat
         /\ MintGroups(n) = 0 <=> n = 0
  BY DEF MintGroups, GroupSize

(* A height of the chain is positive and has a number of deposits. *)
LEMMA DepositsType ==
  ASSUME NEW h \in Heights
  PROVE  h \in Nat /\ h > 0 /\ Deposits[h] \in Nat
  BY BridgeHeaderAssumption DEF Heights

(* A block has as many groups as its deposits need, none without deposits. *)
LEMMA BlockGroupsFacts ==
  ASSUME NEW h \in Heights
  PROVE  /\ IsFiniteSet(BlockGroups(h))
         /\ BlockGroups(h) \subseteq Nat
         /\ Cardinality(BlockGroups(h)) = MintGroups(Deposits[h])
         /\ BlockGroups(h) = {} <=> Deposits[h] = 0
<1> DEFINE n == MintGroups(Deposits[h])
<1>1. n \in Nat /\ (n = 0 <=> Deposits[h] = 0)
  BY DepositsType, MintGroupsFacts
<1> HIDE DEF n
<1>2. IsFiniteSet(0..(n - 1)) /\ Cardinality(0..(n - 1)) = n
  <2>1. 0 - 1 < n /\ 0 \in Int /\ n - 1 \in Int
    BY <1>1
  <2> QED
    BY <1>1, <2>1, FS_Interval
<1>3. 0..(n - 1) \subseteq Nat /\ (0..(n - 1) = {} <=> n = 0)
  BY <1>1
<1> QED
  BY <1>1, <1>2, <1>3 DEF BlockGroups, n

(* Groups of different blocks, and different groups of one block, differ.  *)
LEMMA GroupDataDiffers ==
  ASSUME NEW h, NEW k, NEW g, NEW i, GroupData(h, g) = GroupData(k, i)
  PROVE  h = k /\ g = i
<1>1. GroupData(h, g).blk = h /\ GroupData(h, g).grp = g
  BY DEF GroupData
<1>2. GroupData(k, i).blk = k /\ GroupData(k, i).grp = i
  BY DEF GroupData
<1> QED
  BY <1>1, <1>2

(* A group that is owed up to block h belongs to one of those blocks. *)
LEMMA NotOwedBefore ==
  ASSUME NEW h, NEW k, NEW g, GroupData(k, g) \in OwedUpTo(h)
  PROVE  k \in 1..h /\ g \in BlockGroups(k)
<1>1. PICK j \in 1..h : GroupData(k, g) \in GroupsOf(j)
  BY DEF OwedUpTo
<1>2. PICK i \in BlockGroups(j) : GroupData(k, g) = GroupData(j, i)
  BY <1>1 DEF GroupsOf
<1> QED
  BY <1>2, GroupDataDiffers

(* Before the first block nothing is owed. *)
LEMMA OwedNothing == OwedUpTo(0) = {}
  BY DEF OwedUpTo

(* One more block adds exactly its own groups to what is owed. *)
LEMMA OwedStep ==
  ASSUME NEW h \in Nat
  PROVE  OwedUpTo(h + 1) = OwedUpTo(h) \cup GroupsOf(h + 1)
<1>1. 1..(h + 1) = (1..h) \cup {h + 1}
  OBVIOUS
<1> QED
  BY <1>1 DEF OwedUpTo

(* Blocks without deposits owe nothing. *)
LEMMA OwedSkip ==
  ASSUME NEW h \in 0..Len(Deposits), NEW k \in h..Len(Deposits),
         \A j \in (h + 1)..k : Deposits[j] = 0
  PROVE  OwedUpTo(k) = OwedUpTo(h)
<1>1. \A j \in (h + 1)..k : GroupsOf(j) = {}
  <2> TAKE j \in (h + 1)..k
  <2>1. j \in Heights
    BY BridgeHeaderAssumption DEF Heights
  <2> QED
    BY <2>1, BlockGroupsFacts DEF GroupsOf
<1>2. 1..k = (1..h) \cup ((h + 1)..k)
  BY BridgeHeaderAssumption
<1> QED
  BY <1>1, <1>2 DEF OwedUpTo

-----------------------------------------------------------------------------
(* The inductive invariant.  Both minting instructions end with the same   *)
(* step, MintGroup, but the auto-advance one reaches it through a manager  *)
(* and a buffer that exist only inside the transaction.  So what the step  *)
(* needs is stated of any manager m and buffer b.                          *)
MgrOK(m) ==
  /\ m \in [infos : Seq(0..Len(Deposits)), current : Nat, total : Nat,
            start : Nat,
            tracker : [account : Writers \cup {NoAccount},
                       claimed : SUBSET GroupIndices,
                       total : Nat, remaining : Nat]]
  /\ m.total = Len(m.infos) /\ m.total <= BacklogLimit
  /\ m.current <= m.total

Cursor(m) == m.start + m.current

(* The backlog is the chain up to the finalized block, the cursor in it. *)
Follows(m) ==
  /\ m.start > 0
  /\ m.start + m.total - 1 = header.height
  /\ \A i \in 1..m.total : m.infos[i] = Info(m.start + i - 1)
  /\ m.current < m.total

(* The mints of the block at the cursor are being executed from b. *)
Armed(m, b) ==
  /\ b.locked
  /\ MintsReady(b, Cursor(m))
  /\ m.tracker.account \in Writers
  /\ m.tracker.total = b.count
  /\ m.tracker.claimed \subseteq BlockGroups(Cursor(m))
  /\ m.tracker.remaining = Cardinality(BlockGroups(Cursor(m)) \ m.tracker.claimed)
  /\ minted = OwedUpTo(Cursor(m) - 1) \cup
                {GroupData(Cursor(m), g) : g \in m.tracker.claimed}

IInv ==
  /\ TypeOK
  /\ IsFiniteSet(minted)
  /\ NoDoubleMint
  /\ LockedOnlyWhilePending
  /\ ManagerIsEmpty(mgr) => ~Pending /\ minted = OwedUpTo(header.height)
  /\ ~ManagerIsEmpty(mgr) => Follows(mgr)
  /\ Pending => Armed(mgr, bufs[mgr.tracker.account])
  /\ ~ManagerIsEmpty(mgr) /\ ~Pending =>
       mgr.current > 0 /\ minted = OwedUpTo(Cursor(mgr) - 1)

(* What the counters of an armed manager say about the chain. *)
LEMMA ArmedFacts ==
  ASSUME TypeOK, NEW m, NEW b, MgrOK(m), Follows(m), Armed(m, b)
  PROVE  /\ Cursor(m) \in Heights
         /\ Cursor(m) <= header.height
         /\ m.tracker.total % U16 = Deposits[Cursor(m)]
         /\ TrackerGroups(m.tracker) = MintGroups(Deposits[Cursor(m)])
<1>1. Cursor(m) \in Heights /\ Cursor(m) <= header.height
  <2>1. Len(Deposits) \in Nat /\ header.height \in 0..Len(Deposits)
    BY BridgeHeaderAssumption DEF TypeOK
  <2>2. m.start \in Nat /\ m.current \in Nat /\ m.total \in Nat
    BY DEF MgrOK
  <2>3. m.start > 0 /\ m.start + m.total - 1 = header.height /\ m.current < m.total
    BY DEF Follows
  <2>4. m.start + m.current \in 1..Len(Deposits) /\ m.start + m.current <= header.height
    BY <2>1, <2>2, <2>3
  <2> QED
    BY <2>4, Zenon DEF Cursor, Heights
<1>2. m.tracker.total = Deposits[Cursor(m)] /\ m.tracker.total < U16
  BY U16Type, <1>1, DepositsType DEF Armed, MintsReady
<1>3. m.tracker.total % U16 = Deposits[Cursor(m)]
  BY <1>1, <1>2, U16Mod, DepositsType
<1> QED
  BY <1>1, <1>3 DEF TrackerGroups

(* The bytes that are minted are the group that was proven. *)
LEMMA MintsReadProven ==
  ASSUME TypeOK, NEW m, NEW b, MgrOK(m), Follows(m), Armed(m, b),
         NEW g \in Nat, CanClaim(m.tracker, g)
  PROVE  /\ g \in BlockGroups(Cursor(m))
         /\ MintsRead(b, m.tracker, g) = GroupData(Cursor(m), g)
<1> DEFINE h == Cursor(m)
           n == MintGroups(Deposits[h])
<1>1. h \in Heights /\ TrackerGroups(m.tracker) = n
  BY ArmedFacts
<1>2. n \in Nat
  BY <1>1, DepositsType, MintGroupsFacts
<1>3. g < n
  BY <1>1 DEF CanClaim
<1>4. g \in BlockGroups(h)
  BY <1>2, <1>3 DEF BlockGroups
<1>5. b.groups = n /\ b.hash = BlockHash(h)
  BY DEF Armed, MintsReady
<1>6. GroupAt(b, n, g) = GroupData(h, g)
  BY <1>3, <1>4, <1>5 DEF GroupAt, BlockHash
<1>7. GroupData(h, g).len = MintsInGroup(m.tracker.total % U16, g)
  BY ArmedFacts DEF GroupData
<1> HIDE DEF h, n
<1> QED
  BY <1>1, <1>4, <1>6, <1>7 DEF MintsRead, h

(* Claiming one group: the manager that is left. *)
LEMMA ClaimFacts ==
  ASSUME NEW m, MgrOK(m), m.current < m.total, NEW g \in GroupIndices,
         CanClaim(m.tracker, g)
  PROVE  LET next == ClaimManagerGroup(m, g)
             last == m.tracker.remaining - 1 = 0
         IN  /\ MgrOK(next)
             /\ next.infos = m.infos /\ next.total = m.total /\ next.start = m.start
             /\ next.current = IF last THEN m.current + 1 ELSE m.current
             /\ next.tracker.account = m.tracker.account
             /\ next.tracker.total = m.tracker.total
             /\ next.tracker.claimed = m.tracker.claimed \cup {g}
             /\ next.tracker.remaining = m.tracker.remaining - 1
             /\ TrackerIsEmpty(next.tracker) <=> last
<1> DEFINE t == ClaimGroup(m.tracker, g)
           c == IF TrackerIsEmpty(t) /\ m.current < m.total
                THEN m.current + 1 ELSE m.current
           next == ClaimManagerGroup(m, g)
<1>1. /\ t.account = m.tracker.account /\ t.total = m.tracker.total
      /\ t.claimed = m.tracker.claimed \cup {g}
      /\ t.remaining = m.tracker.remaining - 1
      /\ t \in [account : Writers \cup {NoAccount}, claimed : SUBSET GroupIndices,
                total : Nat, remaining : Nat]
  <2>1. m.tracker \in [account : Writers \cup {NoAccount},
                       claimed : SUBSET GroupIndices, total : Nat, remaining : Nat]
    BY DEF MgrOK
  <2>2. m.tracker.remaining \in Nat /\ m.tracker.remaining - 1 \in Nat
    BY <2>1 DEF CanClaim
  <2>3. m.tracker.claimed \cup {g} \in SUBSET GroupIndices
    BY <2>1
  <2> QED
    BY Zenon, <2>1, <2>2, <2>3 DEF ClaimGroup
<1>2. next = [m EXCEPT !.tracker = t, !.current = c]
  BY DEF ClaimManagerGroup
<1>3. c = (IF m.tracker.remaining - 1 = 0 THEN m.current + 1 ELSE m.current)
  BY <1>1 DEF TrackerIsEmpty
<1>4. c \in Nat /\ c <= m.total
  BY <1>3 DEF MgrOK
<1> HIDE DEF t, c, next
<1>5. /\ next.infos = m.infos /\ next.total = m.total /\ next.start = m.start
      /\ next.current = c /\ next.tracker = t /\ MgrOK(next)
  BY Zenon, <1>1, <1>2, <1>4 DEF MgrOK
<1> QED
  BY Zenon, <1>1, <1>3, <1>5 DEF next, TrackerIsEmpty

(* The step both minting instructions end with. *)
LEMMA MintStep ==
  ASSUME TypeOK, IsFiniteSet(minted), NoDoubleMint,
         NEW m, NEW b, NEW w \in Writers, NEW g \in GroupIndices,
         MgrOK(m), BufOK(b), Follows(m), Armed(m, b), m.tracker.account = w,
         \A v \in Writers \ {w} : ~(bufs[v].locked /\ bufs[v].locker = Bridge),
         MintGroup(m, w, b, g)
  PROVE  /\ IInv'
         /\ Cursor(m) \in Heights /\ Cursor(m) <= header.height
         /\ g \in BlockGroups(Cursor(m))
         /\ GroupData(Cursor(m), g) \notin minted
         /\ minted' = minted \cup {GroupData(Cursor(m), g)}
         /\ OwedUpTo(Cursor(m) - 1) \subseteq minted
<1> DEFINE h == Cursor(m)
           claimed == m.tracker.claimed
           next == ClaimManagerGroup(m, g)
           last == m.tracker.remaining - 1 = 0
<1>1. h \in Heights /\ h <= header.height /\ h \in Nat /\ h > 0
  BY ArmedFacts, DepositsType
<1>2. CanClaim(m.tracker, g) /\ g \notin claimed
  BY DEF MintGroup, CanClaim
<1>3. g \in BlockGroups(h) /\ MintsRead(b, m.tracker, g) = GroupData(h, g)
  BY <1>2, MintsReadProven, MintManagerAssumption DEF GroupIndices
<1>4. minted = OwedUpTo(h - 1) \cup {GroupData(h, i) : i \in claimed}
  BY DEF Armed
<1>5. GroupData(h, g) \notin minted
  <2>1. GroupData(h, g) \notin OwedUpTo(h - 1)
    BY <1>1, NotOwedBefore
  <2>2. \A i \in claimed : GroupData(h, g) # GroupData(h, i)
    BY <1>2, GroupDataDiffers
  <2> QED
    BY <1>4, <2>1, <2>2
<1>6. minted' = minted \cup {GroupData(h, g)} /\ mintTxs' = mintTxs + 1
  BY <1>3 DEF MintGroup
<1>7. IsFiniteSet(minted') /\ NoDoubleMint'
  BY <1>5, <1>6, FS_AddElement DEF NoDoubleMint
<1>8. /\ mgr' = next /\ UNCHANGED <<header, recent, txo>>
      /\ bufs' = [bufs EXCEPT ![w] = IF last THEN UnlockedBuffer(b) ELSE b]
  BY ZenonT(60), <1>2, ClaimFacts DEF MintGroup, Follows
<1>9. /\ MgrOK(next)
      /\ next.infos = m.infos /\ next.total = m.total /\ next.start = m.start
      /\ next.current = IF last THEN m.current + 1 ELSE m.current
      /\ next.tracker.account = w
      /\ next.tracker.total = m.tracker.total
      /\ next.tracker.claimed = claimed \cup {g}
      /\ next.tracker.remaining = m.tracker.remaining - 1
      /\ TrackerIsEmpty(next.tracker) <=> last
  BY <1>2, ClaimFacts DEF Follows
<1> DEFINE left == BlockGroups(h) \ claimed
<1>10. /\ IsFiniteSet(left \ {g}) /\ left \ {g} = BlockGroups(h) \ (claimed \cup {g})
       /\ m.tracker.remaining - 1 = Cardinality(left \ {g})
  <2>1. IsFiniteSet(left) /\ g \in left
    BY ZenonT(60), <1>1, <1>2, <1>3, BlockGroupsFacts, FS_Difference
  <2>2. m.tracker.remaining = Cardinality(left)
    BY DEF Armed
  <2>3. IsFiniteSet(left \ {g}) /\ Cardinality(left \ {g}) = Cardinality(left) - 1
    BY Zenon, <2>1, FS_RemoveElement
  <2>4. left \ {g} = BlockGroups(h) \ (claimed \cup {g})
    OBVIOUS
  <2> HIDE DEF left
  <2> QED
    BY <2>2, <2>3, <2>4
<1>11. claimed \cup {g} \subseteq BlockGroups(h)
  BY <1>3 DEF Armed
<1>12. BufTypeOK' /\ TypeOK'
  <2>1. Touches(w) /\ BufOK(bufs'[w])
    <3>1. b.locker # NoKey
      BY BridgeMintAssumption, PendingMintBufferAssumption DEF Armed, MintsReady
    <3> QED
      BY ZenonT(60), <1>8, <3>1, UnlockOK DEF Touches, TypeOK, BufTypeOK
  <2>2. BufTypeOK'
    BY <2>1, BufStep DEF TypeOK
  <2>3. minted' \subseteq MintData \cup {ZeroHash}
    <3>1. g \in 0..(b.groups - 1) /\ b.hash[g] = GroupData(h, g)
      BY <1>3 DEF Armed, MintsReady, BlockGroups, BlockHash
    <3> QED
      BY <1>6, <3>1, SMTT(60) DEF BufOK, TypeOK
  <2>4. mintTxs' \in Nat
    BY <1>6 DEF TypeOK
  <2>5. MgrOK(mgr')
    BY <1>8, <1>9
  <2> HIDE DEF next
  <2> QED
    BY ZenonT(60), <1>8, <2>2, <2>3, <2>4, <2>5 DEF TypeOK, MgrOK
<1> HIDE DEF next, left
<1>13. m.current \in Nat /\ m.total \in Nat /\ m.start \in Nat /\ m.tracker.remaining \in Nat
  BY DEF MgrOK
<1>14. ASSUME ~last
       PROVE  IInv'
  <2>1. Pending' /\ ~ManagerIsEmpty(mgr)'
    BY <1>8, <1>9, <1>13, <1>14 DEF Pending, ManagerIsEmpty, TrackerIsEmpty, Follows
  <2>2. Follows(mgr)' /\ Cursor(mgr)' = h
    BY <1>8, <1>9, <1>14 DEF Follows, Cursor
  <2>3. bufs'[w] = b
    BY <1>8, <1>14 DEF TypeOK, BufTypeOK
  <2>4. minted' = OwedUpTo(h - 1) \cup {GroupData(h, i) : i \in claimed \cup {g}}
    BY <1>4, <1>6
  <2>5. Armed(mgr, bufs[mgr.tracker.account])'
    BY ZenonT(60), <1>8, <1>9, <1>10, <1>11, <2>2, <2>3, <2>4 DEF Armed, MintsReady
  <2>6. LockedOnlyWhilePending'
    BY ZenonT(60), <1>8, <1>9, <2>1, <2>3
       DEF LockedOnlyWhilePending, Armed, MintsReady, TypeOK, BufTypeOK
  <2> QED
    BY <1>7, <1>12, <2>1, <2>2, <2>5, <2>6 DEF IInv
<1>15. ASSUME last
       PROVE  IInv'
  <2>1. claimed \cup {g} = BlockGroups(h)
    BY <1>10, <1>11, <1>15, FS_EmptySet
  <2>2. minted' = OwedUpTo(h)
    <3>1. minted' = OwedUpTo(h - 1) \cup GroupsOf(h)
      BY <1>4, <1>6, <2>1 DEF GroupsOf
    <3>2. OwedUpTo((h - 1) + 1) = OwedUpTo(h - 1) \cup GroupsOf((h - 1) + 1)
      BY <1>1, OwedStep
    <3>3. (h - 1) + 1 = h
      BY <1>1
    <3> QED
      BY <3>1, <3>2, <3>3
  <2>3. ~Pending'
    BY <1>8, <1>9, <1>15 DEF Pending
  <2>4. Cursor(mgr)' = h + 1 /\ mgr'.current > 0
    BY <1>8, <1>9, <1>13, <1>15 DEF Cursor
  <2>5. ManagerIsEmpty(mgr)' => h = header'.height
    BY <1>8, <1>9, <1>13, <1>15 DEF ManagerIsEmpty, Follows, Cursor
  <2>6. ~ManagerIsEmpty(mgr)' => Follows(mgr)'
    BY <1>8, <1>9, <1>13, <1>15 DEF ManagerIsEmpty, Follows, Cursor
  <2>7. bufs'[w] = UnlockedBuffer(b) /\ ~bufs'[w].locked
    BY <1>8, <1>15 DEF TypeOK, BufTypeOK, BufOK, UnlockedBuffer
  <2>8. LockedOnlyWhilePending'
    BY ZenonT(60), <1>8, <2>3, <2>7 DEF LockedOnlyWhilePending, TypeOK, BufTypeOK
  <2>9. (h + 1) - 1 = h
    BY <1>1
  <2> QED
    BY <1>7, <1>12, <2>2, <2>3, <2>4, <2>5, <2>6, <2>8, <2>9 DEF IInv
<1>16. OwedUpTo(h - 1) \subseteq minted
  BY <1>4
<1> QED
  BY <1>1, <1>3, <1>5, <1>6, <1>14, <1>15, <1>16

-----------------------------------------------------------------------------
(* Block updates.  Before one, nothing is pending: the bridge holds no     *)
(* lock and everything that was owed is minted.                            *)
LEMMA BeforeUpdate ==
  ASSUME IInv, ManagerIsEmpty(mgr)
  PROVE  /\ ~Pending /\ minted = OwedUpTo(header.height)
         /\ \A v \in Writers : ~(bufs[v].locked /\ bufs[v].locker = Bridge)
  BY DEF IInv, LockedOnlyWhilePending

(* The new header is well-formed. *)
HeaderStep(h) ==
  /\ h \in Heights /\ h > header.height
  /\ header' = ProvenHeader(h)
  /\ recent' \in [slots : [0..(RecentSlots - 1) -> 0..Len(Deposits)],
                  next : 0..(RecentSlots - 1)]

(* The next index of the ring, which wraps at its length, is a slot. *)
LEMMA RingIndex ==
  ASSUME NEW n \in Nat, NEW k \in Nat \ {0}
  PROVE  (n + 1) % k \in 0..(k - 1)
OBVIOUS

(* The header part of a block update moves the header by one block. *)
LEMMA SingleBlockOK ==
  ASSUME TypeOK, NEW h \in Heights, SingleBlock(h)
  PROVE  HeaderStep(h) /\ h = header.height + 1
<1>1. h > header.height /\ h = header.height + 1 /\ header' = ProvenHeader(h)
  BY BridgeHeaderAssumption DEF SingleBlock, TypeOK
<1>2. (recent.next + 1) % RecentSlots \in 0..(RecentSlots - 1)
  <2>1. RecentSlots \in Nat \ {0}
    BY BridgeHeaderAssumption
  <2>2. recent.next \in Nat
    BY <2>1 DEF TypeOK
  <2> QED
    BY <2>1, <2>2, RingIndex
<1>3. [recent.slots EXCEPT ![recent.next] = h] \in [0..(RecentSlots - 1) -> 0..Len(Deposits)]
  BY BridgeHeaderAssumption DEF TypeOK, Heights
<1> QED
  BY <1>1, <1>2, <1>3 DEF SingleBlock, HeaderStep

(* The header part of a reorg update moves the header upwards. *)
LEMMA ReorgBlocksOK ==
  ASSUME TypeOK, NEW h \in Heights, ReorgBlocks(h)
  PROVE  HeaderStep(h)
  BY ZenonT(60) DEF ReorgBlocks, HeaderStep, TypeOK

(* An update that finalizes only blocks without deposits. *)
LEMMA EmptyUpdate ==
  ASSUME IInv, NEW w \in Writers, NEW h \in Heights, HeaderStep(h),
         CanLock(bufs[w], Bridge), ManagerIsEmpty(mgr), LockAndRelease(w),
         \A j \in (header.height + 1)..h : Deposits[j] = 0,
         UNCHANGED <<mgr, txo, minted, mintTxs>>
  PROVE  IInv'
<1>1. header.height \in 0..Len(Deposits) /\ h \in header.height..Len(Deposits)
  BY BridgeHeaderAssumption DEF IInv, TypeOK, HeaderStep, Heights
<1>2. minted' = OwedUpTo(h)
  BY <1>1, OwedSkip, BeforeUpdate
<1>3. header' \in [height : 0..Len(Deposits), tip : Nat] /\ header'.height = h
  BY BridgeHeaderAssumption DEF HeaderStep, ProvenHeader, Heights
<1> DEFINE b == UnlockedBuffer(LockedBuffer(bufs[w]))
<1>4. bufs' = [bufs EXCEPT ![w] = b] /\ bufs'[w] = b /\ DOMAIN bufs = Writers
  BY DEF LockAndRelease, IInv, TypeOK, BufTypeOK
<1>5. BufOK(b) /\ ~b.locked
  <2>1. BufOK(bufs[w]) /\ bufs[w].locker # NoKey
    BY ZenonT(60), BridgeMintAssumption, PendingMintBufferAssumption
       DEF IInv, TypeOK, BufTypeOK, BufOK, CanLock
  <2>2. BufOK(LockedBuffer(bufs[w])) /\ LockedBuffer(bufs[w]).locker # NoKey
    BY Zenon, <2>1, LockOK DEF LockedBuffer, BufOK
  <2> QED
    BY Zenon, <2>2, UnlockOK DEF UnlockedBuffer, BufOK
<1> HIDE DEF b
<1>6. BufTypeOK'
  BY ZenonT(60), <1>4, <1>5, BufStep DEF Touches, IInv, TypeOK
<1>7. TypeOK'
  BY ZenonT(60), <1>3, <1>6 DEF TypeOK, HeaderStep, IInv
<1>8. LockedOnlyWhilePending'
  BY <1>4, <1>5, BeforeUpdate DEF LockedOnlyWhilePending, Pending
<1> QED
  BY <1>2, <1>3, <1>7, <1>8 DEF IInv, Pending, NoDoubleMint

(* A tracker that has just been pointed at buffer b, which holds the list  *)
(* of block h.                                                             *)
LEMMA FreshTracker ==
  ASSUME NEW b, BufOK(b), NEW h \in Heights, MintsReady(b, h), Deposits[h] # 0
  PROVE  /\ b.count \in Nat /\ MintGroups(b.count) \in Nat
         /\ MintGroups(b.count) # 0
         /\ MintGroups(b.count) = Cardinality(BlockGroups(h) \ {})
<1>1. b.count = Deposits[h]
  BY DEF MintsReady
<1>2. BlockGroups(h) \ {} = BlockGroups(h)
  OBVIOUS
<1> QED
  BY <1>1, <1>2, BlockGroupsFacts, MintGroupsFacts, DepositsType

(* A backlog that starts with a block with mints. *)
LEMMA AppendFacts ==
  ASSUME NEW height, NEW infos, NEW account, NEW mints \in Nat, NEW groups \in Nat
  PROVE  StandardAppendBlock(height, infos, account, mints, groups, 0) =
           [infos |-> infos, current |-> 0, total |-> Len(infos),
            start |-> height, tracker |-> Tracker(account, mints, groups)]
<1> DEFINE t == Tracker(account, 0, 0)
           a == [infos |-> infos, current |-> 0, total |-> Len(infos),
                 start |-> height, tracker |-> t]
<1>1. FastForwardEmpty(a, 0) = a
  BY DEF FastForwardEmpty
<1>2. [t EXCEPT !.total = mints, !.remaining = groups] = Tracker(account, mints, groups)
  <2> DEFINE T == [account : {account}, claimed : {{}}, total : {mints},
                   remaining : {groups}]
  <2>1. [t EXCEPT !.total = mints, !.remaining = groups] \in T
    BY Zenon DEF Tracker
  <2>2. \A z \in T : z = Tracker(account, mints, groups)
    BY DEF Tracker
  <2> QED
    BY Zenon, <2>1, <2>2
<1> HIDE DEF t
<1>3. [a EXCEPT !.tracker = [t EXCEPT !.total = mints, !.remaining = groups]] =
        [infos |-> infos, current |-> 0, total |-> Len(infos),
         start |-> height, tracker |-> Tracker(account, mints, groups)]
  BY <1>2
<1>4. StandardAppendBlock(height, infos, account, mints, groups, 0) =
        [FastForwardEmpty(a, 0) EXCEPT
           !.tracker = [@ EXCEPT !.total = mints, !.remaining = groups]]
  BY DEF StandardAppendBlock, t
<1>5. a.tracker = t
  BY ZenonT(60)
<1> QED
  BY ZenonT(60), <1>1, <1>3, <1>4, <1>5

(* An update whose first block with deposits is block k. *)
LEMMA StartUpdate ==
  ASSUME IInv, NEW w \in Writers, NEW h \in Heights, HeaderStep(h),
         CanLock(bufs[w], Bridge), ManagerIsEmpty(mgr),
         NEW k \in (header.height + 1)..h, Deposits[k] # 0,
         \A j \in (header.height + 1)..(k - 1) : Deposits[j] = 0,
         NEW infos \in Seq(0..Len(Deposits)), Len(infos) = h - k + 1,
         \A i \in 1..Len(infos) : infos[i] = Info(k + i - 1),
         StartBacklog(w, k, infos),
         UNCHANGED <<txo, minted, mintTxs>>
  PROVE  IInv'
<1> DEFINE b == LockedBuffer(bufs[w])
           n == b.count
           t == Tracker(w, n, MintGroups(n))
           m == [infos |-> infos, current |-> 0, total |-> Len(infos),
                 start |-> k, tracker |-> t]
<1>1. /\ header.height \in 0..Len(Deposits) /\ Len(Deposits) \in Nat
      /\ k \in Heights /\ k \in Nat /\ k > 0 /\ k - 1 \in header.height..Len(Deposits)
      /\ h \in Nat /\ k <= h
  <2>1. header.height \in 0..Len(Deposits) /\ Len(Deposits) \in Nat /\ h \in 1..Len(Deposits)
    BY BridgeHeaderAssumption DEF IInv, TypeOK, HeaderStep, Heights
  <2> QED
    BY <2>1 DEF Heights
<1>2. Len(infos) >= 1 /\ infos[1] = k
  BY <1>1 DEF Info
<1>3. MintsReady(b, k)
  BY Zenon, <1>2 DEF StartBacklog
<1>4. BufOK(b) /\ b.locked /\ b.locker = Bridge
  <2>1. BufOK(bufs[w]) /\ bufs[w].locker # NoKey
    BY ZenonT(60), BridgeMintAssumption, PendingMintBufferAssumption
       DEF IInv, TypeOK, BufTypeOK, BufOK, CanLock
  <2> QED
    BY ZenonT(60), <1>3, <2>1, LockOK DEF LockedBuffer, BufOK, MintsReady
<1>5. bufs' = [bufs EXCEPT ![w] = b] /\ bufs'[w] = b /\ DOMAIN bufs = Writers
  BY DEF StartBacklog, IInv, TypeOK, BufTypeOK
<1>6. n \in Nat /\ MintGroups(n) \in Nat /\ MintGroups(n) # 0
      /\ MintGroups(n) = Cardinality(BlockGroups(k) \ {})
  BY ZenonT(60), <1>1, <1>3, <1>4, FreshTracker
<1>7. mgr' = m /\ Len(infos) <= BacklogLimit
  <2>1. PICK i \in 0..Len(infos) :
          /\ CanAppend(mgr, infos, n, MintGroups(n), i)
          /\ mgr' = StandardAppendBlock(k, infos, w, n, MintGroups(n), i)
    BY DEF StartBacklog
  <2>2. i = 0
    <3> SUFFICES ASSUME i # 0 PROVE FALSE
      OBVIOUS
    <3>1. 0 \in 0..(i - 1)
      BY <1>2
    <3>2. infos[0 + 1] = EmptyInfo
      BY ZenonT(60), <2>1, <3>1 DEF CanAppend, FirstNonEmpty
    <3> QED
      BY <1>1, <1>2, <3>2 DEF EmptyInfo
  <2>3. StandardAppendBlock(k, infos, w, n, MintGroups(n), 0) = m
    BY SMTT(40), <1>6, AppendFacts
  <2>4. mgr' = m
    BY Zenon, <2>1, <2>2, <2>3
  <2>5. Len(infos) \in 1..BacklogLimit
    BY Zenon, <2>1 DEF CanAppend
  <2> HIDE DEF m
  <2>6. Len(infos) <= BacklogLimit
    BY <2>5, MintManagerAssumption
  <2> QED
    BY ZenonT(60), <2>4, <2>6
<1>8. /\ t \in [account : Writers \cup {NoAccount}, claimed : SUBSET GroupIndices,
                total : Nat, remaining : Nat]
      /\ t.account = w /\ t.claimed = {} /\ t.total = n /\ t.remaining = MintGroups(n)
  BY ZenonT(60), <1>6 DEF Tracker
<1> HIDE DEF b, n, t
<1>9. /\ mgr'.infos = infos /\ mgr'.current = 0 /\ mgr'.total = Len(infos)
      /\ mgr'.start = k /\ mgr'.tracker = t /\ MgrOK(mgr')
  BY <1>1, <1>2, <1>7, <1>8 DEF MgrOK
<1>10. header' \in [height : 0..Len(Deposits), tip : Nat] /\ header'.height = h
  BY BridgeHeaderAssumption DEF HeaderStep, ProvenHeader, Heights
<1>11. TypeOK'
  <2>1. BufTypeOK'
    BY ZenonT(60), <1>4, <1>5, BufStep DEF Touches, IInv, TypeOK
  <2> QED
    BY ZenonT(60), <1>9, <1>10, <2>1 DEF TypeOK, MgrOK, HeaderStep, IInv
<1>12. Pending' /\ ~ManagerIsEmpty(mgr)' /\ Cursor(mgr)' = k
  BY <1>1, <1>2, <1>6, <1>8, <1>9 DEF Pending, ManagerIsEmpty, TrackerIsEmpty, Cursor
<1>13. Follows(mgr)'
  <2>1. k > 0 /\ k + Len(infos) - 1 = h /\ 0 < Len(infos)
    BY SMTT(40), <1>1, <1>2
  <2>2. /\ mgr'.start > 0 /\ mgr'.start + mgr'.total - 1 = header'.height
        /\ mgr'.current < mgr'.total
    BY <1>9, <1>10, <2>1
  <2>3. \A i \in 1..mgr'.total : mgr'.infos[i] = Info(mgr'.start + i - 1)
    BY Zenon, <1>9
  <2> QED
    BY Zenon, <2>2, <2>3 DEF Follows
<1>14. minted' = OwedUpTo(k - 1)
  BY Zenon, <1>1, OwedSkip, BeforeUpdate
<1>15. Armed(mgr, bufs[mgr.tracker.account])'
  <2>1. {GroupData(k, g) : g \in {}} = {}
    BY ZenonT(60)
  <2> QED
    BY ZenonT(60), <1>3, <1>4, <1>5, <1>6, <1>8, <1>9, <1>12, <1>14, <2>1 DEF Armed, MintsReady, n
<1>16. LockedOnlyWhilePending'
  BY <1>4, <1>5, <1>8, <1>9, <1>12, BeforeUpdate DEF LockedOnlyWhilePending
<1> QED
  BY <1>11, <1>12, <1>13, <1>15, <1>16 DEF IInv, NoDoubleMint

(* process_block_update preserves the invariant and moves the header up. *)
LEMMA BlockUpdateOK ==
  ASSUME IInv, NEW w \in Writers, ProcessBlockUpdate(w)
  PROVE  IInv' /\ \E h \in Heights : HeaderStep(h)
<1> DEFINE h == header.height + 1
<1>1. h \in Heights /\ CanLock(bufs[w], Bridge) /\ ManagerIsEmpty(mgr) /\ SingleBlock(h)
  BY DEF ProcessBlockUpdate
<1>2. HeaderStep(h)
  BY <1>1, SingleBlockOK DEF IInv
<1>3. header.height \in Nat /\ h \in (header.height + 1)..h
  BY BridgeHeaderAssumption DEF IInv, TypeOK
<1>4. CASE Deposits[h] = 0 /\ LockAndRelease(w) /\ UNCHANGED mgr
  <2>1. \A j \in (header.height + 1)..h : Deposits[j] = 0
    BY SMTT(40), <1>3, <1>4
  <2> QED
    BY ZenonT(60), <1>1, <1>2, <1>4, <2>1, EmptyUpdate DEF ProcessBlockUpdate
<1>5. CASE Deposits[h] # 0 /\ StartBacklog(w, h, <<Info(h)>>)
  <2> DEFINE infos == <<Info(h)>>
  <2>1. infos \in Seq(0..Len(Deposits)) /\ Len(infos) = h - h + 1
    BY <1>1, <1>3, BridgeHeaderAssumption DEF Info, Heights, EmptyInfo
  <2>2. \A i \in 1..Len(infos) : infos[i] = Info(h + i - 1)
    BY <1>3
  <2>3. \A j \in (header.height + 1)..(h - 1) : Deposits[j] = 0
    BY <1>3
  <2> HIDE DEF infos
  <2>4. StartBacklog(w, h, infos)
    BY <1>5 DEF infos
  <2> HIDE DEF h
  <2> QED
    BY <1>1, <1>2, <1>3, <1>5, <2>1, <2>2, <2>3, <2>4, StartUpdate
       DEF ProcessBlockUpdate
<1> QED
  BY <1>1, <1>2, <1>4, <1>5 DEF ProcessBlockUpdate

(* process_reorg_blocks preserves the invariant and moves the header up. *)
LEMMA ReorgOK ==
  ASSUME IInv, NEW w \in Writers, NEW h \in Heights, ProcessReorgBlocks(w, h)
  PROVE  IInv' /\ HeaderStep(h)
<1> DEFINE old == header.height
           items == [i \in 1..(h - old) |-> Info(old + i)]
<1>1. CanLock(bufs[w], Bridge) /\ ManagerIsEmpty(mgr) /\ UNCHANGED <<txo, minted, mintTxs>>
  BY DEF ProcessReorgBlocks
<1>2. HeaderStep(h)
  BY ReorgBlocksOK DEF ProcessReorgBlocks, IInv
<1>3. /\ old \in 0..Len(Deposits) /\ Len(Deposits) \in Nat /\ old \in Nat
      /\ h \in Nat /\ h > old /\ h <= Len(Deposits) /\ h - old \in Nat
  <2>1. old \in 0..Len(Deposits) /\ Len(Deposits) \in Nat
    BY BridgeHeaderAssumption DEF IInv, TypeOK
  <2>2. h \in 1..Len(Deposits) /\ h > old
    BY <1>2 DEF HeaderStep, Heights
  <2> HIDE DEF old
  <2> QED
    BY <2>1, <2>2
<1>4. Len(items) = h - old /\ \A i \in 1..(h - old) : items[i] = Info(old + i)
  BY <1>3
<1>5. PICK f \in 0..(h - old) :
        /\ FirstNonEmpty(items, 0, f)
        /\ \/ f = h - old /\ LockAndRelease(w) /\ UNCHANGED mgr
           \/ /\ f < h - old
              /\ StartBacklog(w, old + f + 1, SubSeq(items, f + 1, h - old))
  BY Zenon DEF ProcessReorgBlocks
<1> HIDE DEF items
<1>6. \A j \in (old + 1)..(old + f) : Deposits[j] = 0
  <2> TAKE j \in (old + 1)..(old + f)
  <2>1. j - old - 1 \in 0..(f - 1) /\ j - old - 1 + 1 = j - old
        /\ j - old \in 1..(h - old) /\ old + (j - old) = j /\ j # 0
    BY <1>3, SMTT(60)
  <2>2. items[j - old] = EmptyInfo
    BY <1>5, <2>1 DEF FirstNonEmpty
  <2> QED
    BY <1>4, <2>1, <2>2 DEF Info, EmptyInfo
<1>7. CASE f = h - old /\ LockAndRelease(w) /\ UNCHANGED mgr
  <2>1. old + f = h
    BY SMTT(40), <1>3, <1>7
  <2> QED
    BY <1>1, <1>2, <1>6, <1>7, <2>1, EmptyUpdate
<1>8. CASE /\ f < h - old
           /\ StartBacklog(w, old + f + 1, SubSeq(items, f + 1, h - old))
  <2> DEFINE k == old + f + 1
             infos == SubSeq(items, f + 1, h - old)
  <2>1. k \in (old + 1)..h /\ k - 1 = old + f /\ f + 1 \in 1..(h - old) /\ f \in Nat
    BY <1>3, <1>8
  <2>2. Deposits[k] # 0
    <3>1. items[f + 1] # EmptyInfo
      BY <1>4, <1>5, <1>8 DEF FirstNonEmpty
    <3>2. old + (f + 1) = k
      BY <1>3, <2>1
    <3>3. items[f + 1] = Info(k)
      BY <1>4, <2>1, <3>2
    <3> QED
      BY <3>1, <3>3 DEF Info
  <2>3. \A i \in (f + 1)..(h - old) : items[i] \in 0..Len(Deposits)
    <3> TAKE i \in (f + 1)..(h - old)
    <3>1. old + i \in 0..Len(Deposits) /\ i \in 1..(h - old)
      <4> HIDE DEF old
      <4> QED BY <1>3, <2>1
    <3>2. items[i] = Info(old + i)
      BY <1>4, <3>1
    <3>3. 0 \in 0..Len(Deposits)
      BY <1>3
    <3> QED
      BY <3>1, <3>2, <3>3 DEF Info, EmptyInfo
  <2>4. /\ infos \in Seq(0..Len(Deposits)) /\ Len(infos) = h - k + 1
        /\ \A i \in 1..Len(infos) : infos[i] = items[f + i]
    <3>1. f + 1 \in Int /\ h - old \in Int /\ f + 1 <= h - old
          /\ h - old - (f + 1) + 1 = h - k + 1
      <4> HIDE DEF old
      <4> QED BY <1>3, <2>1
    <3>2. /\ infos \in Seq(0..Len(Deposits))
          /\ Len(infos) = h - old - (f + 1) + 1
          /\ \A i \in 1..(h - old - (f + 1) + 1) : infos[i] = items[(f + 1) + i - 1]
      BY <2>3, <3>1, SubSeqFacts
    <3>3. \A i \in Int : (f + 1) + i - 1 = f + i
      BY <2>1
    <3> QED
      BY <3>1, <3>2, <3>3
  <2>5. \A i \in 1..Len(infos) : infos[i] = Info(k + i - 1)
    <3> SUFFICES ASSUME NEW i \in 1..Len(infos)
                 PROVE  infos[i] = Info(k + i - 1)
      BY Zenon
    <3>1. f + i \in 1..(h - old) /\ old + (f + i) = k + i - 1
      <4>1. i \in 1..(h - k + 1)
        BY <2>4
      <4> HIDE DEF old, infos
      <4> QED BY <1>3, <2>1, <4>1
    <3> QED
      BY <1>4, <2>4, <3>1
  <2>6. \A j \in (old + 1)..(k - 1) : Deposits[j] = 0
    BY <1>6, <2>1
  <2>7. StartBacklog(w, k, infos)
    BY <1>8
  <2> HIDE DEF k, infos
  <2> QED
    BY <1>1, <1>2, <2>1, <2>2, <2>4, <2>5, <2>6, <2>7, StartUpdate
<1> QED
  BY <1>2, <1>5, <1>7, <1>8

-----------------------------------------------------------------------------
(* What a minting transaction does, seen from the chain: one group of a    *)
(* finalized block, for the first time, after everything before it.        *)
MintsOne ==
  \E h \in Heights : \E g \in BlockGroups(h) :
    /\ h <= header.height
    /\ GroupData(h, g) \notin minted
    /\ OwedUpTo(h - 1) \subseteq minted
    /\ minted' = minted \cup {GroupData(h, g)}
    /\ mintTxs' = mintTxs + 1
    /\ UNCHANGED header

(* A transaction that mints from the buffer that is already armed. *)
LEMMA MintGroupOK ==
  ASSUME IInv, NEW w \in Writers, NEW g \in GroupIndices, MintGroup(mgr, w, bufs[w], g)
  PROVE  IInv' /\ MintsOne
<1>1. Pending /\ ~ManagerIsEmpty(mgr) /\ mgr.tracker.account = w
  BY ZenonT(60) DEF MintGroup, Pending
<1>2. Follows(mgr) /\ Armed(mgr, bufs[w])
  BY <1>1 DEF IInv
<1>3. MgrOK(mgr) /\ BufOK(bufs[w])
  BY Zenon DEF IInv, TypeOK, MgrOK, BufTypeOK, BufOK
<1>4. \A v \in Writers \ {w} : ~(bufs[v].locked /\ bufs[v].locker = Bridge)
  BY ZenonT(60), <1>1 DEF IInv, LockedOnlyWhilePending
<1>5. mintTxs' = mintTxs + 1 /\ UNCHANGED header
  BY DEF MintGroup
<1>6. TypeOK /\ IsFiniteSet(minted) /\ NoDoubleMint
  BY ZenonT(60) DEF IInv
<1>7. /\ IInv'
      /\ Cursor(mgr) \in Heights /\ Cursor(mgr) <= header.height
      /\ g \in BlockGroups(Cursor(mgr))
      /\ GroupData(Cursor(mgr), g) \notin minted
      /\ minted' = minted \cup {GroupData(Cursor(mgr), g)}
      /\ OwedUpTo(Cursor(mgr) - 1) \subseteq minted
  BY <1>1, <1>2, <1>3, <1>4, <1>6, MintStep
<1> QED
  BY Zenon, <1>5, <1>7 DEF MintsOne

(* run_setup_next_pending_buffer arms the next block of the backlog that   *)
(* has mints, and passes over no other.                                    *)
LEMMA SetupNextOK ==
  ASSUME IInv, NEW w \in Writers, NEW signer \in Writers,
         NEW i \in mgr.current..mgr.total,
         TrackerIsEmpty(mgr.tracker), ~ManagerIsEmpty(mgr),
         SetupNextPendingBuffer(signer, w, i), CanLock(bufs[w], Bridge)
  PROVE  LET m == NextPendingBuffer(w, i)
             b == LockedBuffer(bufs[w])
         IN  /\ MgrOK(m) /\ BufOK(b) /\ Follows(m) /\ Armed(m, b)
             /\ m.tracker.account = w
<1> DEFINE n == bufs[w].count
           k == mgr.start + i
           b == LockedBuffer(bufs[w])
           t == Tracker(w, n, MintGroups(n))
           m == NextPendingBuffer(w, i)
<1>1. Follows(mgr) /\ MgrOK(mgr) /\ minted = OwedUpTo(Cursor(mgr) - 1)
  BY DEF IInv, TypeOK, MgrOK, Pending
<1>2. /\ mgr.start \in Nat /\ mgr.current \in Nat /\ mgr.total \in Nat
      /\ mgr.start > 0 /\ mgr.start + mgr.total - 1 = header.height
      /\ i \in Nat /\ mgr.current <= i /\ i < mgr.total
      /\ header.height \in 0..Len(Deposits) /\ Len(Deposits) \in Nat
  <2>1. mgr.start \in Nat /\ mgr.current \in Nat /\ mgr.total \in Nat
    BY <1>1 DEF MgrOK
  <2>2. mgr.start > 0 /\ mgr.start + mgr.total - 1 = header.height
    BY ZenonT(60), <1>1 DEF Follows
  <2>3. i \in Nat /\ mgr.current <= i /\ i < mgr.total
    BY <2>1 DEF SetupNextPendingBuffer
  <2>4. header.height \in 0..Len(Deposits) /\ Len(Deposits) \in Nat
    BY SMTT(60), BridgeHeaderAssumption DEF IInv, TypeOK
  <2> QED
    BY <2>1, <2>2, <2>3, <2>4
<1>3. \A j \in 1..mgr.total : mgr.infos[j] = Info(mgr.start + j - 1)
  BY <1>1 DEF Follows
<1>4. /\ k \in Heights /\ i + 1 \in 1..mgr.total /\ mgr.start + (i + 1) - 1 = k
      /\ Cursor(mgr) - 1 \in 0..Len(Deposits) /\ (Cursor(mgr) - 1) + 1 = Cursor(mgr)
      /\ k - 1 \in (Cursor(mgr) - 1)..Len(Deposits)
      /\ \A j \in Cursor(mgr)..(k - 1) :
           /\ j - mgr.start \in mgr.current..(i - 1)
           /\ (j - mgr.start) + 1 \in 1..mgr.total
           /\ mgr.start + ((j - mgr.start) + 1) - 1 = j /\ j # 0
  <2> DEFINE start == mgr.start
             cur == mgr.current
             total == mgr.total
             len == Len(Deposits)
  <2>1. /\ start \in Nat /\ cur \in Nat /\ total \in Nat /\ len \in Nat /\ i \in Nat
        /\ start > 0 /\ cur <= i /\ i < total /\ start + total - 1 <= len
    BY <1>2
  <2>2. k = start + i /\ Cursor(mgr) = start + cur /\ Heights = 1..len
    BY DEF Cursor, Heights
  <2> HIDE DEF start, cur, total, len, k
  <2>3. k \in Heights /\ i + 1 \in 1..total /\ start + (i + 1) - 1 = k
    BY <2>1, <2>2
  <2>4. /\ Cursor(mgr) - 1 \in 0..len /\ (Cursor(mgr) - 1) + 1 = Cursor(mgr)
        /\ k - 1 \in (Cursor(mgr) - 1)..len
    BY <2>1, <2>2
  <2>5. ASSUME NEW j \in Cursor(mgr)..(k - 1)
        PROVE  /\ j - start \in cur..(i - 1) /\ (j - start) + 1 \in 1..total
               /\ start + ((j - start) + 1) - 1 = j /\ j # 0
    BY <2>1, <2>2
  <2> QED
    BY <2>3, <2>4, <2>5 DEF start, cur, total, len
<1> HIDE DEF k
<1>5. mgr.infos[i + 1] = k /\ Deposits[k] # 0
  <2>1. mgr.infos[i + 1] = Info(k)
    BY ZenonT(60), <1>3, <1>4
  <2>2. mgr.infos[i + 1] # EmptyInfo
    BY <1>1, <1>2 DEF SetupNextPendingBuffer, FirstNonEmpty, MgrOK
  <2> QED
    BY <2>1, <2>2 DEF Info
<1>6. \A j \in Cursor(mgr)..(k - 1) : Deposits[j] = 0
  <2> TAKE j \in Cursor(mgr)..(k - 1)
  <2> DEFINE p == j - mgr.start
  <2>1. p \in mgr.current..(i - 1) /\ mgr.infos[p + 1] = Info(j) /\ j # 0
    BY ZenonT(60), <1>3, <1>4
  <2> HIDE DEF p
  <2>2. mgr.infos[p + 1] = EmptyInfo
    BY <2>1 DEF SetupNextPendingBuffer, FirstNonEmpty
  <2> QED
    BY <2>1, <2>2 DEF Info, EmptyInfo
<1>7. minted = OwedUpTo(k - 1)
  <2> DEFINE lo == Cursor(mgr) - 1
  <2>1. \A j \in (lo + 1)..(k - 1) : Deposits[j] = 0
    BY <1>4, <1>6
  <2>2. lo \in 0..Len(Deposits) /\ k - 1 \in lo..Len(Deposits)
    BY <1>4
  <2>3. minted = OwedUpTo(lo)
    BY <1>1
  <2> HIDE DEF lo
  <2>4. OwedUpTo(k - 1) = OwedUpTo(lo)
    BY <2>1, <2>2, OwedSkip
  <2> QED
    BY <2>3, <2>4
<1>8. BufOK(bufs[w]) /\ MintsReady(bufs[w], k) /\ bufs[w].locker # NoKey
  BY ZenonT(60), <1>5, BridgeMintAssumption, PendingMintBufferAssumption
     DEF IInv, TypeOK, BufTypeOK, BufOK, SetupNextPendingBuffer, CanLock
<1>9. BufOK(b) /\ b.locked /\ b.count = n /\ MintsReady(b, k)
  <2>1. BufOK(b)
    BY ZenonT(60), <1>8, LockOK
  <2> QED
    BY ZenonT(60), <1>8, <2>1 DEF LockedBuffer, BufOK, MintsReady
<1>10. n \in Nat /\ MintGroups(n) \in Nat /\ MintGroups(n) = Cardinality(BlockGroups(k) \ {})
  BY ZenonT(60), <1>4, <1>5, <1>8, FreshTracker
<1>11. /\ t \in [account : Writers \cup {NoAccount}, claimed : SUBSET GroupIndices,
                 total : Nat, remaining : Nat]
       /\ t.account = w /\ t.claimed = {} /\ t.total = n /\ t.remaining = MintGroups(n)
  BY ZenonT(60), <1>10 DEF Tracker
<1> HIDE DEF b, n, t
<1>12. /\ m.infos = mgr.infos /\ m.current = i /\ m.total = mgr.total
       /\ m.start = mgr.start /\ m.tracker = t /\ MgrOK(m)
  <2>1. m = [FastForwardEmpty(mgr, i) EXCEPT !.tracker = t]
    BY DEF NextPendingBuffer, n, t
  <2>2. /\ FastForwardEmpty(mgr, i).infos = mgr.infos /\ FastForwardEmpty(mgr, i).current = i
        /\ FastForwardEmpty(mgr, i).total = mgr.total
        /\ FastForwardEmpty(mgr, i).start = mgr.start
        /\ FastForwardEmpty(mgr, i) \in
             [infos : Seq(0..Len(Deposits)), current : Nat, total : Nat, start : Nat,
              tracker : {mgr.tracker, ZeroTracker}]
    BY ZenonT(60), <1>1, <1>2 DEF FastForwardEmpty, MgrOK
  <2>3. /\ m.infos = mgr.infos /\ m.current = i /\ m.total = mgr.total
        /\ m.start = mgr.start /\ m.tracker = t
        /\ m \in [infos : Seq(0..Len(Deposits)), current : Nat, total : Nat,
                  start : Nat, tracker : {t}]
    BY ZenonT(60), <2>1, <2>2
  <2> HIDE DEF m
  <2> QED
    BY <1>1, <1>2, <1>11, <2>3 DEF MgrOK
<1> HIDE DEF m
<1>13. Cursor(m) = k
  BY <1>12 DEF Cursor, k
<1>14. Follows(m)
  BY ZenonT(60), <1>1, <1>2, <1>12 DEF Follows
<1>15. Armed(m, b)
  <2>1. {GroupData(k, g) : g \in {}} = {}
    OBVIOUS
  <2> QED
    BY <1>7, <1>9, <1>10, <1>11, <1>12, <1>13, <2>1, ZenonT(60) DEF Armed
<1> QED
  BY ZenonT(60), <1>9, <1>11, <1>12, <1>14, <1>15 DEF m, b

(* The auto-advance instruction preserves the invariant and mints one group *)
(* that was owed and not minted.                                            *)
LEMMA AutoAdvanceOK ==
  ASSUME IInv, NEW signer \in Writers, NEW w \in Writers, NEW g \in GroupIndices,
         ProcessMintGroupAutoAdvance(signer, w, g)
  PROVE  IInv' /\ MintsOne
<1>1. CASE ~(TrackerIsEmpty(mgr.tracker) /\ ~ManagerIsEmpty(mgr))
  BY <1>1, MintGroupOK DEF ProcessMintGroupAutoAdvance
<1>2. CASE TrackerIsEmpty(mgr.tracker) /\ ~ManagerIsEmpty(mgr)
  <2>1. PICK i \in mgr.current..mgr.total :
          /\ SetupNextPendingBuffer(signer, w, i)
          /\ CanLock(bufs[w], Bridge)
          /\ MintGroup(NextPendingBuffer(w, i), w, LockedBuffer(bufs[w]), g)
    BY Zenon, <1>2 DEF ProcessMintGroupAutoAdvance
  <2> DEFINE m == NextPendingBuffer(w, i)
             b == LockedBuffer(bufs[w])
  <2>2. /\ MgrOK(m) /\ BufOK(b) /\ Follows(m) /\ Armed(m, b)
        /\ m.tracker.account = w
    BY ZenonT(60), <1>2, <2>1, SetupNextOK
  <2>3. \A v \in Writers \ {w} : ~(bufs[v].locked /\ bufs[v].locker = Bridge)
    BY <1>2 DEF IInv, LockedOnlyWhilePending, Pending
  <2>4. TypeOK /\ IsFiniteSet(minted) /\ NoDoubleMint
    BY DEF IInv
  <2>5. MintGroup(m, w, b, g)
    BY Zenon, <2>1
  <2> HIDE DEF m, b
  <2>6. /\ IInv'
        /\ Cursor(m) \in Heights /\ Cursor(m) <= header.height
        /\ g \in BlockGroups(Cursor(m))
        /\ GroupData(Cursor(m), g) \notin minted
        /\ minted' = minted \cup {GroupData(Cursor(m), g)}
        /\ OwedUpTo(Cursor(m) - 1) \subseteq minted
    BY ZenonT(60), <2>2, <2>3, <2>4, <2>5, MintStep
  <2>7. mintTxs' = mintTxs + 1 /\ UNCHANGED header
    BY Zenon, <2>5 DEF MintGroup
  <2> QED
    BY <2>6, <2>7 DEF MintsOne
<1> QED
  BY <1>1, <1>2

-----------------------------------------------------------------------------
(* The writers and the other lockers: the only buffer that matters to the  *)
(* bridge is one they can not touch.                                       *)
LEMMA OutsideOK ==
  ASSUME IInv, NEW w \in Writers, TypeOK', Touches(w),
         ~(bufs[w].locked /\ bufs[w].locker = Bridge),
         ~(bufs'[w].locked /\ bufs'[w].locker = Bridge),
         UNCHANGED <<header, mgr, minted, mintTxs>>
  PROVE  IInv'
<1>1. TypeOK'
  OBVIOUS
<1>2. \A v \in Writers \ {w} : bufs'[v] = bufs[v]
  BY Zenon DEF Touches, IInv, TypeOK, BufTypeOK
<1>3. Pending' <=> Pending
  BY DEF Pending
<1>4. LockedOnlyWhilePending'
  BY ZenonT(60), <1>2, <1>3 DEF LockedOnlyWhilePending, IInv
<1>5. ASSUME Pending
      PROVE  Armed(mgr, bufs[mgr.tracker.account])'
  <2>1. Armed(mgr, bufs[mgr.tracker.account])
    BY Zenon, <1>5 DEF IInv
  <2>2. mgr.tracker.account \in Writers \ {w}
    BY Zenon, <2>1 DEF Armed, MintsReady
  <2>3. bufs'[mgr.tracker.account] = bufs[mgr.tracker.account]
    BY ZenonT(60), <1>2, <2>2
  <2> QED
    BY Zenon, <2>1, <2>3 DEF Armed, MintsReady, Cursor
<1>6. (ManagerIsEmpty(mgr)' <=> ManagerIsEmpty(mgr)) /\ (Follows(mgr)' <=> Follows(mgr))
  BY DEF ManagerIsEmpty, Follows
<1> QED
  BY ZenonT(60), <1>1, <1>3, <1>4, <1>5, <1>6 DEF IInv, NoDoubleMint, Cursor

(* A writer at work on its own buffer preserves the invariant. *)
LEMMA StageMintsOK ==
  ASSUME IInv, NEW w \in Writers, StageMints(w)
  PROVE  IInv'
<1>1. BufTypeOK' /\ Touches(w) /\ ~bufs[w].locked /\ ~bufs'[w].locked
  BY WriterStepOK DEF StageMints, IInv, TypeOK
<1>2. TypeOK'
  BY ZenonT(60), <1>1 DEF TypeOK, IInv, StageMints
<1> QED
  BY ZenonT(60), <1>1, <1>2, OutsideOK DEF StageMints

(* Lockers other than the bridge preserve the invariant. *)
LEMMA ForeignLockOK ==
  ASSUME IInv, NEW w \in Writers, ForeignLock(w)
  PROVE  IInv'
<1>1. PICK k \in Lockers \ {Bridge} : Lock(w, k) \/ Unlock(w, k)
  BY ZenonT(60) DEF ForeignLock
<1>2. BufTypeOK' /\ Touches(w) /\ bufs[w].locker = k /\ bufs'[w].locker = k
  BY <1>1, LockStepOK, Zenon DEF IInv, TypeOK
<1>3. TypeOK'
  BY Zenon, <1>2 DEF TypeOK, IInv, ForeignLock
<1> QED
  BY ZenonT(60), <1>1, <1>2, <1>3, OutsideOK DEF ForeignLock

(* The txo buffers and the ring play no part in the invariant. *)
LEMMA FrameOK ==
  ASSUME IInv, TypeOK', UNCHANGED <<bufs, header, mgr, minted, mintTxs>>
  PROVE  IInv'
<1>1. Pending' <=> Pending
  BY DEF Pending
<1>2. (ManagerIsEmpty(mgr)' <=> ManagerIsEmpty(mgr)) /\ (Follows(mgr)' <=> Follows(mgr))
  BY Zenon DEF ManagerIsEmpty, Follows
<1>3. Armed(mgr, bufs[mgr.tracker.account])' <=> Armed(mgr, bufs[mgr.tracker.account])
  BY ZenonT(60) DEF Armed, MintsReady, Cursor
<1>4. LockedOnlyWhilePending'
  BY <1>1 DEF LockedOnlyWhilePending, IInv
<1> QED
  BY ZenonT(60), <1>1, <1>2, <1>3, <1>4 DEF IInv, NoDoubleMint, Cursor

(* A writer at work on its txo buffer preserves the invariant. *)
LEMMA StageTxosOK ==
  ASSUME IInv, NEW w \in Writers, StageTxos(w)
  PROVE  IInv'
<1>1. TypeOK'
  <2>1. BufTypeOK'
    BY DEF StageTxos, TypeOK, IInv, BufTypeOK
  <2>2. txo' \in [Writers -> 0..Len(Deposits)]
    BY DEF StageTxos, TypeOK, IInv
  <2> QED
    BY ZenonT(60), <2>1, <2>2 DEF StageTxos, TypeOK, IInv
<1> QED
  BY ZenonT(60), <1>1, FrameOK DEF StageTxos

(* A step that changes nothing preserves the invariant. *)
LEMMA StutterOK ==
  ASSUME IInv, UNCHANGED vars
  PROVE  IInv'
<1>1. TypeOK'
  BY ZenonT(60) DEF vars, TypeOK, IInv, BufTypeOK
<1> QED
  BY <1>1, FrameOK DEF vars

-----------------------------------------------------------------------------
(* A freshly initialized bridge satisfies the invariant. *)
LEMMA InitOK == Init => IInv
<1> SUFFICES ASSUME Init PROVE IInv
  OBVIOUS
<1>1. BufTypeOK
  BY BufInitOK DEF Init
<1>2. /\ header \in [height : 0..Len(Deposits), tip : Nat]
      /\ header.height = 0
      /\ recent \in [slots : [0..(RecentSlots - 1) -> 0..Len(Deposits)],
                     next : 0..(RecentSlots - 1)]
  BY BridgeHeaderAssumption DEF Init, HeaderInit, ProvenHeader
<1>3. /\ MgrOK(mgr) /\ mgr.total = 0 /\ mgr.tracker.remaining = 0
  <2>1. /\ ZeroTracker \in [account : Writers \cup {NoAccount},
                            claimed : SUBSET GroupIndices, total : Nat, remaining : Nat]
        /\ ZeroTracker.remaining = 0
    BY DEF ZeroTracker, Tracker
  <2>2. <<>> \in Seq(0..Len(Deposits)) /\ Len(<<>>) = 0
    BY SMTT(40)
  <2> QED
    BY <2>1, <2>2, MintManagerAssumption DEF Init, NewManager, MgrOK
<1>4. TypeOK
  BY <1>1, <1>2, <1>3, BridgeHeaderAssumption DEF TypeOK, MgrOK, Init
<1>5. ManagerIsEmpty(mgr) /\ ~Pending
  BY <1>3 DEF ManagerIsEmpty, Pending, TrackerIsEmpty
<1>6. minted = OwedUpTo(header.height) /\ IsFiniteSet(minted) /\ NoDoubleMint
  BY <1>2, OwedNothing, FS_EmptySet DEF Init, NoDoubleMint
<1>7. LockedOnlyWhilePending
  BY <1>5 DEF LockedOnlyWhilePending, Init, BufInit, AbsentBuffer
<1> QED
  BY <1>4, <1>5, <1>6, <1>7 DEF IInv

(* One step of the bridge, or of anybody else. *)
LEMMA NextOK ==
  ASSUME IInv, [Next]_vars
  PROVE  /\ IInv'
         /\ \/ UNCHANGED <<header, minted, mintTxs>>
            \/ MintsOne
            \/ /\ \E h \in Heights : HeaderStep(h)
               /\ ManagerIsEmpty(mgr)
               /\ UNCHANGED <<minted, mintTxs>>
<1>1. CASE UNCHANGED vars
  BY <1>1, StutterOK DEF vars
<1>2. ASSUME NEW w \in Writers, StageMints(w) \/ StageTxos(w) \/ ForeignLock(w)
      PROVE  IInv' /\ UNCHANGED <<header, minted, mintTxs>>
  BY <1>2, StageMintsOK, StageTxosOK, ForeignLockOK DEF StageMints, StageTxos, ForeignLock
<1>3. ASSUME NEW w \in Writers, ProcessBlockUpdate(w)
      PROVE  /\ IInv' /\ (\E h \in Heights : HeaderStep(h))
             /\ ManagerIsEmpty(mgr) /\ UNCHANGED <<minted, mintTxs>>
  BY <1>3, BlockUpdateOK DEF ProcessBlockUpdate
<1>4. ASSUME NEW w \in Writers, NEW h \in Heights, ProcessReorgBlocks(w, h)
      PROVE  /\ IInv' /\ (\E k \in Heights : HeaderStep(k))
             /\ ManagerIsEmpty(mgr) /\ UNCHANGED <<minted, mintTxs>>
  BY ZenonT(60), <1>4, ReorgOK DEF ProcessReorgBlocks
<1>5. ASSUME NEW w \in Writers, NEW g \in GroupIndices, ProcessMintGroup(w, g)
      PROVE  IInv' /\ MintsOne
  BY <1>5, MintGroupOK DEF ProcessMintGroup
<1>6. ASSUME NEW signer \in Writers, NEW w \in Writers, NEW g \in GroupIndices,
             ProcessMintGroupAutoAdvance(signer, w, g)
      PROVE  IInv' /\ MintsOne
  BY <1>6, AutoAdvanceOK
<1> QED
  BY <1>1, <1>2, <1>3, <1>4, <1>5, <1>6 DEF Next

(* The inductive invariant holds in every state the two programs reach:     *)
(* cursor, bitmap, lock and buffer contents always describe the same part   *)
(* of the chain.                                                            *)
THEOREM InductiveInvariant == Spec => []IInv
<1>1. IInv /\ [Next]_vars => IInv'
  BY NextOK
<1> QED
  BY InitOK, <1>1, PTL DEF Spec

(* The accounts of the bridge keep the shape of their structs, for every   *)
(* chain: no counter of the manager goes below zero, the cursor stays in   *)
(* the backlog and the backlog in its array.                               *)
THEOREM TypeCorrect == Spec => []TypeOK
<1>1. IInv => TypeOK
  BY DEF IInv
<1> QED
  BY <1>1, InductiveInvariant, PTL

(* No deposit group is minted by two transactions: neither by the two      *)
(* minting instructions one after the other, nor by staging a list that    *)
(* was minted before, nor by a reorg update.                               *)
THEOREM NeverMintsTwice == Spec => []NoDoubleMint
<1>1. IInv => NoDoubleMint
  BY DEF IInv
<1> QED
  BY <1>1, InductiveInvariant, PTL

(* The bridge's lock on a buffer and the pending mints it serves begin and *)
(* end together.                                                           *)
THEOREM LockMatchesPending == Spec => []LockedOnlyWhilePending
<1>1. IInv => LockedOnlyWhilePending
  BY ZenonT(60) DEF IInv
<1> QED
  BY <1>1, InductiveInvariant, PTL

(* Where the cursor is, in terms of the invariant. *)
LEMMA FrontierFacts ==
  ASSUME IInv
  PROVE  /\ Pending => ~ManagerIsEmpty(mgr) /\ Frontier = Cursor(mgr)
                       /\ Follows(mgr) /\ Armed(mgr, bufs[mgr.tracker.account])
         /\ ~Pending => minted = OwedUpTo(Frontier - 1)
         /\ Frontier \in Nat /\ Frontier - 1 \in 0..header.height
         /\ Pending => Frontier \in 1..header.height
<1>1. Pending => ~ManagerIsEmpty(mgr)
  BY DEF IInv
<1>2. header.height \in Nat /\ (header.height + 1) - 1 = header.height
  BY SMTT(40), BridgeHeaderAssumption DEF IInv, TypeOK
<1>3. CASE ManagerIsEmpty(mgr)
  BY <1>1, <1>2, <1>3 DEF Frontier, IInv
<1>4. CASE ~ManagerIsEmpty(mgr)
  <2>1. Frontier = Cursor(mgr) /\ Follows(mgr)
    BY <1>4 DEF Frontier, Cursor, IInv
  <2>2. mgr.start \in Nat /\ mgr.current \in Nat /\ mgr.total \in Nat
    BY DEF IInv, TypeOK
  <2>3. Frontier \in Nat /\ Frontier - 1 \in 0..header.height /\ Frontier \in 1..header.height
    <3>1. mgr.start > 0 /\ mgr.start + mgr.total - 1 = header.height /\ mgr.current < mgr.total
      BY <2>1 DEF Follows
    <3> QED
      BY <1>2, <2>1, <2>2, <3>1 DEF Cursor
  <2> QED
    BY <1>4, <2>1, <2>3 DEF IInv
<1> QED
  BY <1>3, <1>4

(* The set of mints that were executed can be read off the manager at any  *)
(* time: all blocks before the cursor, and the groups of the bitmap.       *)
THEOREM MintedAtCursor == Spec => []MintedMatchesCursor
<1>1. IInv => MintedMatchesCursor
  BY FrontierFacts, SMTT(60) DEF MintedMatchesCursor, Armed
<1> QED
  BY <1>1, InductiveInvariant, PTL

(* Between the check of the hashes and the last read, the buffer the mints *)
(* come from is locked and holds the proven list.                          *)
THEOREM BufferStaysProven == Spec => []PendingBufferIsProven
<1>1. IInv => PendingBufferIsProven
  BY FrontierFacts DEF PendingBufferIsProven, Armed
<1> QED
  BY <1>1, InductiveInvariant, PTL

(* The counter that decides when a block is done never drifts from the     *)
(* bitmap.                                                                 *)
THEOREM RemainingCorrect == Spec => []RemainingIsUnclaimed
<1>1. IInv => RemainingIsUnclaimed
  BY FrontierFacts DEF RemainingIsUnclaimed, Armed
<1> QED
  BY <1>1, InductiveInvariant, PTL

(* The backlog never drifts from the chain it was built from. *)
THEOREM BacklogCorrect == Spec => []BacklogIsChain
<1>1. IInv => BacklogIsChain
  BY DEF BacklogIsChain, IInv, Follows
<1> QED
  BY <1>1, InductiveInvariant, PTL

(* What is owed only grows with the height. *)
LEMMA OwedMonotone ==
  ASSUME NEW h \in Nat, NEW k \in 0..h
  PROVE  OwedUpTo(k) \subseteq OwedUpTo(h)
<1>1. 1..k \subseteq 1..h
  OBVIOUS
<1> QED
  BY <1>1 DEF OwedUpTo

(* Nothing is minted that the proven headers do not commit to. *)
THEOREM MintsAreProven == Spec => []OnlyProvenMints
<1>1. IInv => OnlyProvenMints
  <2> SUFFICES ASSUME IInv PROVE OnlyProvenMints
    OBVIOUS
  <2>1. header.height \in Nat
    BY BridgeHeaderAssumption DEF IInv, TypeOK
  <2>2. OwedUpTo(Frontier - 1) \subseteq OwedUpTo(header.height)
    BY <2>1, FrontierFacts, OwedMonotone
  <2>3. ASSUME Pending
        PROVE  {GroupData(Frontier, g) : g \in mgr.tracker.claimed}
                 \subseteq OwedUpTo(header.height)
    <3>1. mgr.tracker.claimed \subseteq BlockGroups(Frontier) /\ Frontier \in 1..header.height
      BY ZenonT(60), <2>3, FrontierFacts DEF Armed
    <3> QED
      BY SMTT(40), <3>1 DEF OwedUpTo, GroupsOf
  <2>4. Pending => minted = OwedUpTo(Frontier - 1) \cup
                              {GroupData(Frontier, g) : g \in mgr.tracker.claimed}
    BY FrontierFacts DEF Armed
  <2> QED
    BY <2>2, <2>3, <2>4, FrontierFacts DEF OnlyProvenMints
<1> QED
  BY <1>1, InductiveInvariant, PTL

(* The bridge is ready for the next block only when every deposit of every *)
(* finalized block is minted.                                              *)
THEOREM ReadyMeansDone == Spec => []NothingLeftBehind
<1>1. IInv => NothingLeftBehind
  BY DEF NothingLeftBehind, IInv
<1> QED
  BY <1>1, InductiveInvariant, PTL

(* When everything is minted and the bridge still is not ready, the        *)
(* backlog ends with a block without deposits.                             *)
THEOREM OnlyTrailingEmptyBlocks == Spec => []StuckOnlyOnTrailingEmpty
<1>1. IInv => StuckOnlyOnTrailingEmpty
  <2> SUFFICES ASSUME IInv, OwedUpTo(header.height) \subseteq minted, ~ManagerIsEmpty(mgr)
               PROVE  Deposits[header.height] = 0 /\ mgr.total > 1
    BY DEF StuckOnlyOnTrailingEmpty
  <2> DEFINE top == header.height
  <2>1. Follows(mgr) /\ Cursor(mgr) = Frontier
    BY DEF IInv, Frontier, Cursor
  <2>2. /\ mgr.start \in Nat /\ mgr.current \in Nat /\ mgr.total \in Nat
        /\ mgr.current < mgr.total /\ mgr.start > 0 /\ mgr.start + mgr.total - 1 = top
        /\ top \in Nat /\ top <= Len(Deposits) /\ Len(Deposits) \in Nat
    BY <2>1, BridgeHeaderAssumption DEF IInv, TypeOK, Follows
  <2> HIDE DEF top
  <2>3. top \in Heights /\ Frontier - 1 < top /\ top \in 1..top
    BY <2>1, <2>2 DEF Cursor, Heights
  <2>4. ~Pending
    <3> SUFFICES ASSUME Pending PROVE FALSE
      OBVIOUS
    <3> DEFINE left == BlockGroups(Frontier) \ mgr.tracker.claimed
    <3>1. Armed(mgr, bufs[mgr.tracker.account]) /\ Frontier \in 1..top /\ Frontier \in Nat
      BY FrontierFacts DEF top
    <3>2. left # {}
      BY ZenonT(60), <2>1, <3>1, FS_EmptySet DEF Armed, Pending, TrackerIsEmpty
    <3>3. PICK g \in left : TRUE
      BY <3>2
    <3>4. GroupData(Frontier, g) \in minted
      BY <3>1, <3>3 DEF OwedUpTo, GroupsOf, top
    <3>5. GroupData(Frontier, g) \notin OwedUpTo(Frontier - 1)
      <4>1. Frontier \notin 1..(Frontier - 1)
        BY <3>1
      <4> QED
        BY <4>1, NotOwedBefore
    <3>6. \A i \in mgr.tracker.claimed : GroupData(Frontier, g) # GroupData(Frontier, i)
      BY <3>3, GroupDataDiffers
    <3> QED
      BY <2>1, <3>1, <3>4, <3>5, <3>6 DEF Armed
  <2>5. mgr.total > 1
    BY <2>2, <2>4 DEF IInv
  <2>6. Deposits[top] = 0
    <3> SUFFICES ASSUME Deposits[top] # 0 PROVE FALSE
      OBVIOUS
    <3>1. PICK g \in BlockGroups(top) : TRUE
      BY <2>3, BlockGroupsFacts
    <3>2. GroupData(top, g) \in OwedUpTo(Frontier - 1)
      BY <2>3, <2>4, <3>1, FrontierFacts DEF OwedUpTo, GroupsOf, top
    <3>3. top \in 1..(Frontier - 1)
      BY <3>2, NotOwedBefore
    <3> QED
      BY <2>2, <2>3, <3>3, FrontierFacts
  <2> QED
    BY <2>5, <2>6 DEF top
<1> QED
  BY <1>1, InductiveInvariant, PTL

-----------------------------------------------------------------------------
(* The ledger's and the bridge's idea of what is owed. *)
LEMMA LedgerOwed ==
  ASSUME NEW h \in 0..Len(Deposits)
  PROVE  Ledger!OwedUpTo(h) = OwedUpTo(h)
<1>1. \A k \in 1..h : [i \in Heights |-> GroupsOf(i)][k] = GroupsOf(k)
  BY BridgeHeaderAssumption DEF Heights
<1> QED
  BY Zenon, <1>1 DEF Ledger!OwedUpTo, OwedUpTo

(* Every execution of the bridge, its buffers, writers and callers is an   *)
(* execution of the deposit ledger: blocks become final only after all     *)
(* that was owed is paid, and every owed group is paid once, in the order  *)
(* of the blocks.                                                          *)
THEOREM BridgeImplementsLedger == Spec => ImplementsLedger
<1>1. Init => Ledger!LedgerInit
  BY DEF Init, HeaderInit, ProvenHeader, Ledger!LedgerInit
<1>2. IInv /\ [Next]_vars => [Ledger!LedgerNext]_(Ledger!ledgerVars)
  <2> SUFFICES ASSUME IInv, [Next]_vars
               PROVE  Ledger!LedgerNext \/ UNCHANGED Ledger!ledgerVars
    OBVIOUS
  <2> DEFINE owed == [i \in Heights |-> GroupsOf(i)]
  <2>1. Len(owed) = Len(Deposits) /\ 1..Len(owed) = Heights
    BY BridgeHeaderAssumption DEF Heights
  <2>2. CASE UNCHANGED <<header, minted, mintTxs>>
    BY <2>2 DEF Ledger!ledgerVars
  <2>3. CASE MintsOne
    <3>0. PICK h \in Heights : \E g \in BlockGroups(h) :
            /\ h <= header.height
            /\ GroupData(h, g) \notin minted
            /\ OwedUpTo(h - 1) \subseteq minted
            /\ minted' = minted \cup {GroupData(h, g)}
            /\ mintTxs' = mintTxs + 1
            /\ UNCHANGED header
      BY <2>3 DEF MintsOne
    <3>1. PICK g \in BlockGroups(h) :
            /\ h <= header.height
            /\ GroupData(h, g) \notin minted
            /\ OwedUpTo(h - 1) \subseteq minted
            /\ minted' = minted \cup {GroupData(h, g)}
            /\ mintTxs' = mintTxs + 1
            /\ UNCHANGED header
      BY <3>0
    <3>2. GroupData(h, g) \in owed[h]
      BY DEF GroupsOf
    <3>3. h - 1 \in 0..Len(Deposits)
      BY BridgeHeaderAssumption DEF Heights
    <3>4. Ledger!MintOwed(h, GroupData(h, g))
      BY <3>1, <3>2, <3>3, LedgerOwed DEF Ledger!MintOwed
    <3> QED
      BY <2>1, <3>2, <3>4 DEF Ledger!LedgerNext
  <2>4. CASE /\ \E h \in Heights : HeaderStep(h)
             /\ ManagerIsEmpty(mgr)
             /\ UNCHANGED <<minted, mintTxs>>
    <3>1. PICK h \in Heights : HeaderStep(h)
      BY <2>4
    <3>2. header.height \in 0..Len(Deposits) /\ OwedUpTo(header.height) \subseteq minted
      BY <2>4 DEF IInv, TypeOK
    <3>3. header'.height = h /\ h > header.height
      BY <3>1 DEF HeaderStep, ProvenHeader
    <3>4. Ledger!Finalize(h)
      BY <2>4, <3>2, <3>3, LedgerOwed DEF Ledger!Finalize
    <3> QED
      BY <2>1, <3>4 DEF Ledger!LedgerNext
  <2> QED
    BY <2>2, <2>3, <2>4, NextOK
<1> QED
  BY <1>1, <1>2, InductiveInvariant, PTL DEF Spec, ImplementsLedger, Ledger!LedgerSpec
=============================================================================
