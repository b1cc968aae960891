----------------------- MODULE PendingMintBuffer_proofs -----------------------
(***************************************************************************)
(* Proofs about the pending-mint-buffer program, for any set of writers,   *)
(* lockers, uploads and lengths.                                           *)
(***************************************************************************)
EXTENDS PendingMintBuffer, FiniteSums, TLAPS

(* The time each prover has for a step that names none. *)
USE SMTT(30), ZenonT(30)

(* The counters of a header are natural numbers. *)
LEMMA U16Type == U16 \in Nat /\ U16 > 0 /\ 0 \in 0..(U16 - 1) /\ 0..(U16 - 1) \subseteq Nat
  BY DEF U16

(* Arithmetic in a u16, where it wraps and where it does not. *)
LEMMA U16Mod ==
  ASSUME NEW x \in Nat
  PROVE  x % U16 \in 0..(U16 - 1) /\ (x < U16 => x % U16 = x)
<1>1. x % U16 \in 0..(U16 - 1)
  BY U16Type
<1>2. x < U16 => x % U16 = x
  BY U16Type
<1> QED BY <1>1, <1>2

(* Both ways of counting groups give natural numbers. *)
LEMMA GroupCountType ==
  ASSUME NEW n \in Nat
  PROVE  /\ MintGroups(n) \in Nat
         /\ ReinitGroups(n) \in Nat
  BY DEF MintGroups, ReinitGroups, GroupSize, U16

(* The length of an account after it was grown. *)
LEMMA GrownType ==
  ASSUME NEW len \in Nat, NEW target \in Nat
  PROVE  /\ Grown(len, target) \in Nat
         /\ Grown(len, target) >= len
         /\ target >= len => Grown(len, target) <= target
  BY PendingMintBufferAssumption DEF Grown

(* The size of a layout is a number. *)
LEMMA BufferSizeType ==
  ASSUME NEW groups \in Nat, NEW mints \in Nat
  PROVE  BufferSize(groups, mints) \in Nat
  BY DEF BufferSize, HeaderSize, HashSize, PendingMintSize

(* One buffer of the right shape. *)
BufOK(b) ==
  /\ b \in [locker : Lockers \cup {NoKey}, locked : BOOLEAN,
            count : 0..(U16 - 1), groups : Nat,
            initialized : 0..(U16 - 1), len : Nat,
            hash : [0..(b.groups - 1) -> MintData \cup {ZeroHash}]]
  /\ IsSetUp(b) \/ b = AbsentBuffer

(* An account that was never set up has the right shape. *)
LEMMA AbsentBufferOK == BufOK(AbsentBuffer)
  BY U16Type DEF BufOK, AbsentBuffer, NoGroups, IsSetUp

(* reinit leaves a buffer of the right shape, even when its u16 sum wraps. *)
LEMMA ReinitOK ==
  ASSUME BufTypeOK, NEW w \in Writers, NEW n \in MintCounts, Reinit(w, n)
  PROVE  BufOK(bufs'[w])
<1> DEFINE b == bufs[w]
<1>1. n \in 0..(U16 - 1) /\ n \in Nat
  BY PendingMintBufferAssumption, U16Type
<1>2. ReinitGroups(n) \in Nat /\ BufferSize(MintGroups(n), n) \in Nat
  BY <1>1, GroupCountType, BufferSizeType
<1>3. Grown(b.len, BufferSize(MintGroups(n), n)) \in Nat
  BY <1>2, GrownType DEF BufTypeOK
<1> DEFINE len == IF BufferSize(MintGroups(n), n) < b.len
                  THEN BufferSize(MintGroups(n), n)
                  ELSE Grown(b.len, BufferSize(MintGroups(n), n))
           hash == [g \in 0..(ReinitGroups(n) - 1) |-> ZeroHash]
<1>4. len \in Nat
  BY <1>2, <1>3
<1>5. hash \in [0..(ReinitGroups(n) - 1) -> MintData \cup {ZeroHash}]
  OBVIOUS
<1>6. bufs'[w] = [b EXCEPT !.count = n, !.groups = ReinitGroups(n),
                           !.initialized = 0, !.len = len, !.hash = hash]
  BY DEF Reinit, BufTypeOK
<1>7. IsSetUp(b)
  BY DEF Reinit
<1> HIDE DEF len, hash
<1> QED
  BY <1>1, <1>2, <1>4, <1>5, <1>6, <1>7, U16Type, Zenon DEF BufTypeOK, BufOK, IsSetUp

(* insert_pending_mints leaves a buffer of the right shape. *)
LEMMA InsertOK ==
  ASSUME BufTypeOK, NEW w \in Writers, NEW g \in Nat, NEW d \in MintData,
         Insert(w, g, d)
  PROVE  BufOK(bufs'[w])
<1> DEFINE b == bufs[w]
           len == Grown(b.len, BufferSize(b.groups, b.count))
<1>1. len \in Nat
  BY GrownType, BufferSizeType, U16Type DEF BufTypeOK
<1>2. d.len \in Nat
  BY PendingMintBufferAssumption
<1>3. (b.initialized + d.len) % U16 \in 0..(U16 - 1)
  <2>1. b.initialized + d.len \in Nat
    BY <1>2, U16Type DEF BufTypeOK
  <2> QED BY <2>1, U16Mod
<1>4. bufs'[w] = [b EXCEPT !.len = len, !.hash = [@ EXCEPT ![g] = d],
                           !.initialized = (@ + d.len) % U16]
  BY DEF Insert, BufTypeOK
<1> HIDE DEF len
<1> QED
  BY <1>1, <1>3, <1>4, ZenonT(60) DEF BufTypeOK, BufOK, Insert, IsSetUp

(* A resize leaves a buffer of the right shape. *)
LEMMA ResizeOK ==
  ASSUME BufTypeOK, NEW w \in Writers, Resize(w)
  PROVE  BufOK(bufs'[w])
<1>1. Grown(bufs[w].len, BufferSize(bufs[w].groups, bufs[w].count)) \in Nat
  BY GrownType, BufferSizeType, U16Type, Zenon DEF BufTypeOK
<1> QED
  BY <1>1, ZenonT(60) DEF BufTypeOK, BufOK, Resize, IsSetUp

(* lock() leaves a buffer of the right shape. *)
LEMMA LockOK ==
  ASSUME NEW b, BufOK(b), b.locker # NoKey
  PROVE  BufOK(LockedBuffer(b))
  BY Zenon DEF BufOK, LockedBuffer, IsSetUp

(* unlock() leaves a buffer of the right shape. *)
LEMMA UnlockOK ==
  ASSUME NEW b, BufOK(b), b.locker # NoKey
  PROVE  BufOK(UnlockedBuffer(b))
<1>1. NoGroups \in [0..(0 - 1) -> MintData \cup {ZeroHash}]
  BY DEF NoGroups
<1> QED
  BY <1>1, U16Type, Zenon DEF BufOK, UnlockedBuffer, IsSetUp

(* A step on the buffer of writer w: the other buffers are as before. *)
Touches(w) == \E b : bufs' = [bufs EXCEPT ![w] = b]

(* A step that leaves the one buffer it touches well-formed preserves the  *)
(* type invariant.                                                         *)
LEMMA BufStep ==
  ASSUME BufTypeOK, NEW w \in Writers, Touches(w), BufOK(bufs'[w])
  PROVE  BufTypeOK'
<1>1. DOMAIN bufs' = Writers
  BY DEF BufTypeOK, Touches
<1>2. ASSUME NEW v \in Writers
      PROVE  BufOK(bufs'[v])
  BY DEF BufTypeOK, BufOK, Touches
<1> QED
  BY <1>1, <1>2 DEF BufTypeOK, BufOK

(* No instruction of a writer goes through while its buffer is locked, and *)
(* none reaches another writer's buffer.                                   *)
LEMMA WriterStepOK ==
  ASSUME BufTypeOK, NEW w \in Writers, WriterStep(w)
  PROVE  BufTypeOK' /\ Touches(w) /\ ~bufs[w].locked /\ ~bufs'[w].locked
<1>1. ASSUME NEW k \in Lockers, Setup(w, k)
      PROVE  BufOK(bufs'[w]) /\ Touches(w) /\ ~bufs[w].locked /\ ~bufs'[w].locked
  <2> DEFINE b == [AbsentBuffer EXCEPT !.locker = k, !.len = HeaderSize]
  <2>1. bufs' = [bufs EXCEPT ![w] = b]
    BY <1>1 DEF Setup
  <2>2. BufOK(b) /\ ~b.locked
    <3>1. k # NoKey /\ HeaderSize \in Nat
      BY PendingMintBufferAssumption DEF HeaderSize
    <3> QED
      BY <3>1, AbsentBufferOK, Zenon DEF BufOK, AbsentBuffer, IsSetUp
  <2>3. ~bufs[w].locked
    BY <1>1 DEF Setup, BufTypeOK, AbsentBuffer
  <2> HIDE DEF b
  <2> QED
    BY <2>1, <2>2, <2>3, Zenon DEF BufTypeOK, Touches
<1>2. ASSUME NEW n \in MintCounts, Reinit(w, n)
      PROVE  BufOK(bufs'[w]) /\ Touches(w) /\ ~bufs[w].locked /\ ~bufs'[w].locked
  <2>1. Touches(w)
    BY <1>2, Zenon DEF Reinit, Touches
  <2>2. ~bufs[w].locked /\ ~bufs'[w].locked
    BY <1>2 DEF Reinit, BufTypeOK
  <2> QED
    BY <1>2, <2>1, <2>2, ReinitOK
<1>3. ASSUME Resize(w)
      PROVE  BufOK(bufs'[w]) /\ Touches(w) /\ ~bufs[w].locked /\ ~bufs'[w].locked
  <2>1. Touches(w)
    BY <1>3, Zenon DEF Resize, Touches
  <2>2. ~bufs[w].locked /\ ~bufs'[w].locked
    BY <1>3 DEF Resize, BufTypeOK
  <2> QED
    BY <1>3, <2>1, <2>2, ResizeOK
<1>4. ASSUME NEW g \in 0..(bufs[w].groups - 1), NEW d \in MintData, Insert(w, g, d)
      PROVE  BufOK(bufs'[w]) /\ Touches(w) /\ ~bufs[w].locked /\ ~bufs'[w].locked
  <2>1. Touches(w)
    BY <1>4, Zenon DEF Insert, Touches
  <2>2. ~bufs[w].locked /\ ~bufs'[w].locked
    BY <1>4 DEF Insert, BufTypeOK
  <2>3. g \in Nat
    BY DEF BufTypeOK
  <2> QED
    BY <1>4, <2>1, <2>2, <2>3, InsertOK
<1>5. BufOK(bufs'[w]) /\ Touches(w) /\ ~bufs[w].locked /\ ~bufs'[w].locked
  BY <1>1, <1>2, <1>3, <1>4 DEF WriterStep
<1> QED
  BY <1>5, BufStep

(* Locking and releasing, by whoever the buffer names. *)
LEMMA LockStepOK ==
  ASSUME BufTypeOK, NEW w \in Writers, NEW k \in Lockers, Lock(w, k) \/ Unlock(w, k)
  PROVE  BufTypeOK' /\ Touches(w) /\ bufs[w].locker = k /\ bufs'[w].locker = k
<1>1. BufOK(bufs[w]) /\ bufs[w].locker = k /\ k # NoKey
  BY PendingMintBufferAssumption DEF BufTypeOK, BufOK, Lock, Unlock, CanLock, CanUnlock
<1>2. Touches(w) /\ bufs'[w] \in {LockedBuffer(bufs[w]), UnlockedBuffer(bufs[w])}
  BY DEF Lock, Unlock, Touches, BufTypeOK
<1>3. BufOK(bufs'[w])
  BY <1>1, <1>2, LockOK, UnlockOK
<1>4. bufs'[w].locker = k
  BY <1>1, <1>2, Zenon DEF BufOK, LockedBuffer, UnlockedBuffer
<1> QED
  BY <1>1, <1>2, <1>3, <1>4, BufStep

(* The accounts start out with the right shape. *)
LEMMA BufInitOK == BufInit => BufTypeOK
  BY AbsentBufferOK DEF BufInit, BufTypeOK, BufOK

(* Every instruction of the buffer program keeps the shape of the accounts. *)
LEMMA BufNextOK == BufTypeOK /\ [BufNext]_bufVars => BufTypeOK'
<1> SUFFICES ASSUME BufTypeOK, [BufNext]_bufVars
             PROVE  BufTypeOK'
  OBVIOUS
<1>1. CASE UNCHANGED bufVars
  BY <1>1 DEF BufTypeOK, bufVars
<1>2. ASSUME NEW w \in Writers, WriterStep(w)
      PROVE  BufTypeOK'
  BY <1>2, WriterStepOK
<1>3. ASSUME NEW w \in Writers, NEW k \in Lockers, Lock(w, k) \/ Unlock(w, k)
      PROVE  BufTypeOK'
  BY <1>3, LockStepOK
<1> QED
  BY <1>1, <1>2, <1>3 DEF BufNext

(* The accounts of the buffer program always have the shape of their       *)
(* header, whatever is staged and however the u16 counters wrap: in        *)
(* particular there is a hash for exactly the groups of the header, which  *)
(* is what insert_pending_mints and the bridge index.                      *)
THEOREM BufTypeCorrect == BufSpec => []BufTypeOK
  BY BufInitOK, BufNextOK, PTL DEF BufSpec

(* What a step may do to a locked buffer. *)
LEMMA FrozenStep ==
  ASSUME BufTypeOK, [BufNext]_bufVars, NEW v \in Writers,
         bufs[v].locked, bufs'[v] # bufs[v]
  PROVE  Unlock(v, bufs[v].locker) /\ bufs'[v].locker = bufs[v].locker
<1>1. ASSUME NEW w \in Writers, Touches(w)
      PROVE  w = v
  BY <1>1 DEF Touches, BufTypeOK
<1>2. ASSUME NEW w \in Writers, WriterStep(w)
      PROVE  FALSE
  BY <1>1, <1>2, WriterStepOK
<1>3. ASSUME NEW w \in Writers, NEW k \in Lockers, Lock(w, k) \/ Unlock(w, k)
      PROVE  Unlock(v, bufs[v].locker) /\ bufs'[v].locker = bufs[v].locker
  <2>1. w = v /\ bufs[v].locker = k /\ bufs'[v].locker = k
    BY <1>1, <1>3, LockStepOK
  <2>2. ~Lock(v, k)
    BY DEF Lock, CanLock
  <2> QED
    BY <1>3, <2>1, <2>2
<1>4. BufNext
  BY DEF bufVars
<1> QED
  BY <1>2, <1>3, <1>4 DEF BufNext

(* A locked buffer can not be modified by its writer: for every writer,    *)
(* upload and length, the only instruction that changes it is the release  *)
(* by the locker it was set up with.  This is the invariant the buffer     *)
(* program documents, and what makes it safe for the bridge to check the   *)
(* hashes once and to read the mints in later transactions.                *)
THEOREM LockedStaysFrozen == BufSpec => LockedIsFrozen
<1>1. BufTypeOK /\ [BufNext]_bufVars =>
        [\A w \in Writers :
           bufs[w].locked /\ bufs'[w] # bufs[w] =>
             /\ Unlock(w, bufs[w].locker)
             /\ bufs'[w].locker = bufs[w].locker]_bufVars
  BY FrozenStep
<1> QED
  BY <1>1, BufTypeCorrect, PTL DEF BufSpec, LockedIsFrozen

-----------------------------------------------------------------------------
(* What each group of a buffer contributes to StoredMints. *)
Stored(b) ==
  [g \in DOMAIN b.hash |-> IF b.hash[g] = ZeroHash THEN 0 ELSE b.hash[g].len]

(* What each group of a complete list of n mints contributes. *)
Complete(n) == [g \in 0..(MintGroups(n) - 1) |-> MintsInGroup(n, g)]

(* StoredMints is the sum of the contributions. *)
LEMMA StoredIsSum ==
  ASSUME NEW b
  PROVE  StoredMints(b) = SumOver(Stored(b), DOMAIN b.hash)
  BY ZenonT(60) DEF StoredMints, Stored, SumOver, MapThenSumSet, MapThenFoldSet

(* The groups of a list are finitely many. *)
LEMMA GroupsFinite ==
  ASSUME NEW n \in Nat
  PROVE  IsFiniteSet(0..(n - 1)) /\ Cardinality(0..(n - 1)) = n
<1>1. IsFiniteSet(0..(n - 1))
  BY FS_Interval
<1>2. Cardinality(0..(n - 1)) = n
  BY FS_Interval
<1> QED BY <1>1, <1>2

(* One past the largest u16, in decimal. *)
LEMMA U16Value == U16 = 65536
  BY DEF U16

(* The range of a u16. *)
LEMMA U16Range ==
  ASSUME NEW n \in 0..(U16 - 1)
  PROVE  n \in Nat /\ n < U16
  BY U16Type

(* The ceiling division in u16 agrees with the bridge's count of groups up *)
(* to the length where its sum wraps, and beyond it gives no group at all. *)
LEMMA ReinitGroupsValue ==
  ASSUME NEW n \in Nat, n < U16
  PROVE  /\ n + 23 < U16 => ReinitGroups(n) = MintGroups(n)
         /\ n + 23 >= U16 => ReinitGroups(n) = 0
         /\ ReinitGroups(n) * GroupSize < U16
<1> DEFINE m == n + 23
<1>1. n < 65536 /\ m \in Nat /\ n + 24 - 1 = m
  BY U16Value, SMT
<1>2. ReinitGroups(n) = (m % U16) \div 24
  BY <1>1 DEF ReinitGroups, GroupSize
<1>3. MintGroups(n) = IF n % 24 = 0 THEN n \div 24 ELSE n \div 24 + 1
  BY DEF MintGroups, GroupSize
<1>4. ASSUME m < U16 PROVE ReinitGroups(n) = MintGroups(n)
  <2>1. m % U16 = m
    BY <1>1, <1>4, U16Value, SMT
  <2>2. m \div 24 = IF n % 24 = 0 THEN n \div 24 ELSE n \div 24 + 1
    BY <1>1, SMT
  <2> QED BY <1>2, <1>3, <2>1, <2>2
<1>5. ASSUME m >= U16 PROVE ReinitGroups(n) = 0
  <2>1. m % U16 = m - 65536 /\ m - 65536 \in 0..22
    BY <1>1, <1>5, U16Value, SMT
  <2>2. \A k \in 0..22 : k \div 24 = 0
    BY SMT
  <2> QED BY <1>2, <2>1, <2>2, SMT
<1>6. ((m % U16) \div 24) * 24 < U16
  BY <1>1, U16Value, SMT
<1> HIDE DEF m
<1>7. ReinitGroups(n) * GroupSize < U16
  BY <1>2, <1>6 DEF GroupSize
<1> QED BY <1>4, <1>5, <1>7 DEF m

(* The size of a group, from the length of the list. *)
LEMMA MintsInGroupValue ==
  ASSUME NEW n \in Nat, NEW g \in 0..(MintGroups(n) - 1)
  PROVE  /\ MintsInGroup(n, g) \in 1..GroupSize
         /\ g < MintGroups(n) - 1 => MintsInGroup(n, g) = GroupSize
         /\ g = MintGroups(n) - 1 => MintsInGroup(n, g) = n - g * GroupSize
  BY DEF MintsInGroup, LastGroupSize, MintGroups, GroupSize

(* The groups of a list hold all of it. *)
LEMMA CompleteIsAll ==
  ASSUME NEW n \in Nat
  PROVE  SumOver(Complete(n), 0..(MintGroups(n) - 1)) = n
<1> DEFINE G == MintGroups(n)
           S == 0..(G - 1)
           f == Complete(n)
<1>1. G \in Nat
  BY GroupCountType
<1>2. IsFiniteSet(S) /\ \A g \in S : f[g] \in Int
  <2>1. ASSUME NEW g \in S PROVE f[g] \in Int
    BY MintsInGroupValue DEF Complete
  <2> QED BY <1>1, <2>1, GroupsFinite
<1>3. CASE G = 0
  <2>1. S = {} /\ n = 0
    BY <1>3 DEF MintGroups, GroupSize
  <2> QED BY <2>1, SumEmpty, Zenon
<1>4. CASE G > 0
  <2> DEFINE e == G - 1
             R == 0..(e - 1)
  <2>1. e \in S /\ e \in Nat /\ S \ {e} = R
    BY <1>1, <1>4
  <2>2. SumOver(f, S) = f[e] + SumOver(f, R)
    <3>1. SumOver(f, S) = f[e] + SumOver(f, S \ {e})
      <4>1. e \in S
        BY <2>1, Zenon
      <4> HIDE DEF f, S, e, R
      <4> QED BY <1>2, <4>1, SumRemove, ZenonT(60)
    <3> QED BY <2>1, <3>1, Zenon
  <2>3. f[e] = n - e * GroupSize
    BY <2>1, MintsInGroupValue DEF Complete
  <2>4. SumOver(f, R) = GroupSize * e
    <3>1. IsFiniteSet(R) /\ Cardinality(R) = e
      BY <2>1, GroupsFinite
    <3>2. \A g \in R : f[g] = GroupSize
      <4> SUFFICES ASSUME NEW g \in R PROVE f[g] = GroupSize
        OBVIOUS
      <4>1. g \in S /\ g < G - 1
        BY <1>1, <2>1
      <4> QED BY <4>1, MintsInGroupValue DEF Complete
    <3>3. GroupSize \in Int
      BY DEF GroupSize
    <3> HIDE DEF f, R, e
    <3> QED BY <3>1, <3>2, <3>3, SumConstant
  <2>5. e * GroupSize = GroupSize * e /\ GroupSize * e \in Int
    BY <2>1 DEF GroupSize
  <2> HIDE DEF f, R, S, e
  <2>6. n - GroupSize * e + GroupSize * e = n
    BY <2>5
  <2>7. SumOver(f, S) = n - e * GroupSize + GroupSize * e
    BY <2>2, <2>3, <2>4, Zenon
  <2>8. SumOver(f, S) = n
    BY <2>5, <2>6, <2>7
  <2> QED BY <2>8 DEF f, S
<1> QED BY <1>1, <1>3, <1>4

-----------------------------------------------------------------------------
(* No group holds more than its share of the list. *)
WithinShares(b) ==
  /\ b.groups = ReinitGroups(b.count)
  /\ \A g \in 0..(b.groups - 1) : Stored(b)[g] <= MintsInGroup(b.count, g)

(* The inductive invariant of one buffer.  Its header counts what is       *)
(* stored; no group holds more than its share, which the length of the     *)
(* account enforces for the last group; and a buffer was only locked with  *)
(* its counters equal.                                                     *)
StagedOK(b) ==
  /\ WithinShares(b)
  /\ b.initialized = StoredMints(b)
  /\ b.groups > 0 => b.len <= BufferSize(b.groups, b.count)
  /\ b.locked => b.initialized = b.count

BufInv == BufTypeOK /\ \A w \in Writers : StagedOK(bufs[w])

(* What the parts of a buffer are, when no group exceeds its share. *)
LEMMA StoredFits ==
  ASSUME NEW b, BufOK(b), WithinShares(b)
  PROVE  /\ IsFiniteSet(DOMAIN b.hash) /\ DOMAIN b.hash = 0..(b.groups - 1)
         /\ \A g \in DOMAIN b.hash : Stored(b)[g] \in Nat
         /\ b.groups * GroupSize < U16
         /\ b.groups > 0 => b.groups = MintGroups(b.count)
<1>1. b.groups \in Nat /\ b.count \in 0..(U16 - 1) /\ DOMAIN b.hash = 0..(b.groups - 1)
  BY DEF BufOK
<1>2. IsFiniteSet(DOMAIN b.hash)
  BY <1>1, GroupsFinite
<1>3. \A g \in DOMAIN b.hash : Stored(b)[g] \in Nat
  BY PendingMintBufferAssumption DEF BufOK, Stored
<1>4. b.groups * GroupSize < U16 /\ (b.groups > 0 => b.groups = MintGroups(b.count))
  <2>1. b.count + 23 \in Nat /\ U16 \in Nat /\ b.count \in Nat /\ b.count < U16
    BY <1>1, U16Type, U16Range
  <2> QED BY <1>1, <2>1, ReinitGroupsValue DEF WithinShares
<1> QED BY <1>1, <1>2, <1>3, <1>4

(* No more is stored than there is room for in full groups, which fits     *)
(* into a u16: the counter never wraps.                                    *)
LEMMA StoredBelowLimit ==
  ASSUME NEW b, BufOK(b), WithinShares(b)
  PROVE  StoredMints(b) \in Nat /\ StoredMints(b) < U16
<1> DEFINE S == DOMAIN b.hash
           f == Stored(b)
           full == [g \in S |-> GroupSize]
<1>1. IsFiniteSet(S) /\ S = 0..(b.groups - 1) /\ b.groups \in Nat /\ b.count \in Nat
  BY StoredFits, U16Range DEF BufOK
<1>2. \A g \in S : f[g] \in Int /\ full[g] \in Int /\ f[g] <= full[g]
  <2> SUFFICES ASSUME NEW g \in S PROVE f[g] \in Int /\ GroupSize \in Int /\ f[g] <= GroupSize
    OBVIOUS
  <2>1. f[g] \in Nat /\ f[g] <= MintsInGroup(b.count, g)
    BY <1>1, StoredFits DEF WithinShares
  <2>2. g \in 0..(MintGroups(b.count) - 1)
    BY <1>1, StoredFits
  <2>3. MintsInGroup(b.count, g) \in 1..GroupSize /\ GroupSize \in Int
    <3>1. MintsInGroup(b.count, g) \in 1..GroupSize
      BY <1>1, <2>2, MintsInGroupValue
    <3> QED BY <3>1 DEF GroupSize
  <2> QED BY <2>1, <2>3
<1>3. SumOver(f, S) \in Nat
  <2>1. \A g \in S : f[g] \in Nat
    BY StoredFits
  <2> HIDE DEF f, S
  <2> QED BY <1>1, <2>1, SumType
<1>4. SumOver(f, S) <= SumOver(full, S)
  <2> HIDE DEF f, full, S
  <2> QED BY <1>1, <1>2, SumBounded
<1>5. SumOver(full, S) = GroupSize * b.groups
  <2>1. Cardinality(S) = b.groups
    BY <1>1, GroupsFinite
  <2>2. GroupSize \in Int /\ \A g \in S : full[g] = GroupSize
    BY DEF GroupSize
  <2> HIDE DEF full, S
  <2> QED BY <1>1, <2>1, <2>2, SumConstant
<1>6. GroupSize * b.groups = b.groups * GroupSize /\ b.groups * GroupSize < U16
  BY <1>1, StoredFits DEF GroupSize
<1>7. StoredMints(b) = SumOver(f, S)
  BY StoredIsSum
<1> HIDE DEF f, S, full
<1> QED BY <1>1, <1>3, <1>4, <1>5, <1>6, <1>7, U16Type DEF GroupSize

(* A buffer that was started over. *)
LEMMA StartedOver ==
  ASSUME NEW b, b.count \in Nat, b.count < U16, b.groups = ReinitGroups(b.count),
         DOMAIN b.hash = 0..(b.groups - 1),
         \A g \in DOMAIN b.hash : b.hash[g] = ZeroHash,
         b.initialized = 0, ~b.locked,
         b.groups > 0 => b.len <= BufferSize(b.groups, b.count)
  PROVE  StagedOK(b) /\ StoredMints(b) = 0
<1>1. b.groups \in Nat
  BY GroupCountType, Zenon
<1>2. IsFiniteSet(DOMAIN b.hash)
  BY <1>1, GroupsFinite
<1>3. \A g \in DOMAIN b.hash : Stored(b)[g] = 0
  BY DEF Stored
<1>4. StoredMints(b) = 0
  <2>1. SumOver(Stored(b), DOMAIN b.hash) = 0 * Cardinality(DOMAIN b.hash)
    <3> DEFINE f == Stored(b)
               S == DOMAIN b.hash
    <3>1. IsFiniteSet(S) /\ 0 \in Int /\ \A g \in S : f[g] = 0
      BY <1>2, <1>3
    <3> HIDE DEF f, S
    <3>2. SumOver(f, S) = 0 * Cardinality(S)
      BY <3>1, SumConstant
    <3> QED BY <3>2 DEF f, S
  <2>2. Cardinality(DOMAIN b.hash) \in Nat
    BY <1>2, FS_CardinalityType
  <2> QED BY <2>1, <2>2, StoredIsSum
<1>5. ASSUME NEW g \in 0..(b.groups - 1)
      PROVE  Stored(b)[g] <= MintsInGroup(b.count, g)
  <2>1. b.groups = MintGroups(b.count)
    BY <1>1, ReinitGroupsValue, U16Type
  <2>2. MintsInGroup(b.count, g) \in 1..GroupSize
    BY <2>1, MintsInGroupValue
  <2>3. GroupSize \in Nat
    BY DEF GroupSize
  <2> QED BY <1>3, <2>2, <2>3
<1> QED BY <1>4, <1>5 DEF StagedOK, WithinShares

(* There are no groups without mints. *)
LEMMA NoMintsNoGroups == ReinitGroups(0) = 0
<1>1. 0 + 23 < U16 /\ 0 < U16
  BY U16Value, SMT
<1>2. MintGroups(0) = 0
  BY DEF MintGroups, GroupSize
<1> QED BY <1>1, <1>2, ReinitGroupsValue

(* initialize_pending_mints_buffer *)
LEMMA SetupStaged ==
  ASSUME BufTypeOK, NEW w \in Writers, NEW k \in Lockers, Setup(w, k)
  PROVE  StagedOK(bufs'[w])
<1> DEFINE b == [AbsentBuffer EXCEPT !.locker = k, !.len = HeaderSize]
<1>1. bufs'[w] = b
  BY DEF Setup, BufTypeOK
<1>2. b.count = 0 /\ b.groups = 0 /\ b.initialized = 0 /\ ~b.locked /\ b.hash = NoGroups
  BY DEF AbsentBuffer
<1>3. DOMAIN NoGroups = {} /\ 0..(0 - 1) = {}
  BY DEF NoGroups
<1> HIDE DEF b
<1>4. StagedOK(b)
  BY <1>2, <1>3, NoMintsNoGroups, StartedOver, U16Type
<1> QED BY <1>1, <1>4

(* reinit, which also forgets the old length of the account if that was    *)
(* longer than the new layout.                                             *)
LEMMA ReinitStaged ==
  ASSUME BufTypeOK, NEW w \in Writers, NEW n \in MintCounts, Reinit(w, n)
  PROVE  /\ StagedOK(bufs'[w])
         /\ bufs'[w].initialized = 0 /\ StoredMints(bufs'[w]) = 0
<1> DEFINE b == bufs[w]
           c == bufs'[w]
           target == BufferSize(MintGroups(n), n)
<1>1. n \in Nat /\ n < U16
  BY PendingMintBufferAssumption, U16Range
<1>2. target \in Nat /\ b.len \in Nat
  BY <1>1, GroupCountType, BufferSizeType, Zenon DEF BufTypeOK
<1>3. /\ c.count = n /\ c.groups = ReinitGroups(n) /\ c.initialized = 0 /\ ~c.locked
      /\ c.len = IF target < b.len THEN target ELSE Grown(b.len, target)
      /\ c.hash = [g \in 0..(ReinitGroups(n) - 1) |-> ZeroHash]
  BY DEF Reinit, BufTypeOK
<1>4. c.len <= target
  <2>1. target >= b.len => Grown(b.len, target) <= target
    BY <1>2, GrownType
  <2> HIDE DEF b, c, target
  <2> QED BY <1>2, <1>3, <2>1
<1>5. c.groups > 0 => c.len <= BufferSize(c.groups, c.count)
  <2>1. ReinitGroups(n) > 0 => ReinitGroups(n) = MintGroups(n)
    BY <1>1, ReinitGroupsValue, U16Type
  <2> QED BY <1>3, <1>4, <2>1
<1>6. DOMAIN c.hash = 0..(c.groups - 1) /\ \A g \in DOMAIN c.hash : c.hash[g] = ZeroHash
  BY <1>3
<1> HIDE DEF c
<1>7. StagedOK(c) /\ StoredMints(c) = 0
  BY <1>1, <1>3, <1>5, <1>6, StartedOver, Zenon
<1> QED BY <1>3, <1>7 DEF c

(* Buffers that store the same. *)
LEMMA SameStored ==
  ASSUME NEW b, NEW c, c.hash = b.hash
  PROVE  Stored(c) = Stored(b) /\ StoredMints(c) = StoredMints(b)
<1>1. Stored(c) = Stored(b)
  BY DEF Stored
<1> QED BY <1>1, StoredIsSum

(* A resize. *)
LEMMA ResizeStaged ==
  ASSUME BufTypeOK, NEW w \in Writers, Resize(w), StagedOK(bufs[w])
  PROVE  StagedOK(bufs'[w]) /\ bufs'[w].hash = bufs[w].hash
<1> DEFINE b == bufs[w]
           c == bufs'[w]
           target == BufferSize(b.groups, b.count)
<1>1. target \in Nat /\ b.len \in Nat /\ target >= b.len
  BY BufferSizeType, U16Range DEF BufTypeOK, Resize
<1>2. /\ c.count = b.count /\ c.groups = b.groups /\ c.initialized = b.initialized
      /\ c.locked = b.locked /\ c.hash = b.hash
      /\ c.len = Grown(b.len, target)
  BY DEF Resize, BufTypeOK
<1>3. c.len <= target
  BY <1>1, <1>2, GrownType
<1>4. Stored(c) = Stored(b) /\ StoredMints(c) = StoredMints(b)
  BY <1>2, SameStored
<1> HIDE DEF b, c
<1> QED BY <1>2, <1>3, <1>4 DEF StagedOK, WithinShares, b, c

(* Data that ends before the layout does fits into its group's share. *)
LEMMA ShareOfGroup ==
  ASSUME NEW count \in Nat, NEW groups \in Nat, NEW g \in Nat, NEW n \in Nat,
         NEW len \in Nat, g < groups, groups = MintGroups(count),
         groups * GroupSize < U16, n <= GroupSize,
         len <= BufferSize(groups, count),
         MintOffset(groups, (g * GroupSize) % U16) + PendingMintSize * n <= len
  PROVE  n <= MintsInGroup(count, g)
<1> DEFINE start == g * 24
<1>1. start \in Nat /\ start < groups * 24 /\ groups * 24 \in Nat
  OBVIOUS
<1>2. g * GroupSize = start /\ groups * GroupSize = groups * 24
  BY DEF GroupSize
<1>3. start % U16 = start
  <2>1. start < U16
    BY <1>1, <1>2, U16Type
  <2> QED BY <1>1, <2>1, U16Mod
<1>4. 72 + 32 * groups + 40 * start + 40 * n <= 72 + 32 * groups + 40 * count
  <2>1. MintOffset(groups, start) = 72 + 32 * groups + 40 * start
    BY DEF MintOffset, BufferSize, HeaderSize, HashSize, PendingMintSize
  <2>2. BufferSize(groups, count) = 72 + 32 * groups + 40 * count
    BY DEF BufferSize, HeaderSize, HashSize, PendingMintSize
  <2>3. MintOffset(groups, start) + 40 * n <= len
    BY <1>2, <1>3 DEF PendingMintSize
  <2> HIDE DEF start
  <2> QED BY <1>1, <2>1, <2>2, <2>3
<1>5. n <= count - start
  <2> HIDE DEF start
  <2> QED BY <1>1, <1>4
<1>6. g \in 0..(MintGroups(count) - 1)
  OBVIOUS
<1>7. g < MintGroups(count) - 1 => MintsInGroup(count, g) = GroupSize
  BY <1>6, MintsInGroupValue
<1>8. g = MintGroups(count) - 1 => MintsInGroup(count, g) = count - start
  BY <1>2, <1>6, MintsInGroupValue
<1>9. g < MintGroups(count) - 1 \/ g = MintGroups(count) - 1
  OBVIOUS
<1> QED BY <1>5, <1>7, <1>8, <1>9

(* Filling an empty group adds its mints to what is stored. *)
LEMMA StoredGrows ==
  ASSUME NEW b, NEW c, NEW S, IsFiniteSet(S), DOMAIN b.hash = S, DOMAIN c.hash = S,
         NEW g \in S, \A i \in S : Stored(b)[i] \in Nat,
         \A i \in S \ {g} : Stored(c)[i] = Stored(b)[i],
         Stored(b)[g] = 0, NEW n \in Nat, Stored(c)[g] = n
  PROVE  StoredMints(c) = StoredMints(b) + n
<1> DEFINE fb == Stored(b)
           fc == Stored(c)
<1>1. \A i \in S : fb[i] \in Int /\ fc[i] \in Int
  <2> SUFFICES ASSUME NEW i \in S PROVE fb[i] \in Int /\ fc[i] \in Int
    OBVIOUS
  <2>1. CASE i = g
    BY <2>1
  <2>2. CASE i # g
    BY <2>2
  <2> QED BY <2>1, <2>2
<1>2. \A i \in S \ {g} : fb[i] = fc[i]
  OBVIOUS
<1>3. fb[g] = 0 /\ fc[g] = n
  OBVIOUS
<1>4. StoredMints(b) = SumOver(fb, S) /\ StoredMints(c) = SumOver(fc, S)
  BY StoredIsSum
<1> HIDE DEF fb, fc
<1>5. SumOver(fc, S) = SumOver(fb, S) - fb[g] + fc[g]
  BY <1>1, <1>2, SumUpdate
<1>6. SumOver(fb, S) \in Int
  BY <1>1, SumType
<1> QED BY <1>3, <1>4, <1>5, <1>6

(* insert_pending_mints.  The group was empty, so what is stored grows by  *)
(* the length of the data, and the end of the account keeps the last group *)
(* from getting more than its share.                                       *)
LEMMA InsertStaged ==
  ASSUME BufTypeOK, NEW w \in Writers, NEW g \in 0..(bufs[w].groups - 1),
         NEW d \in MintData, Insert(w, g, d), StagedOK(bufs[w])
  PROVE  /\ StagedOK(bufs'[w])
         /\ DOMAIN bufs'[w].hash = DOMAIN bufs[w].hash
         /\ \A i \in DOMAIN bufs[w].hash \ {g} : bufs'[w].hash[i] = bufs[w].hash[i]
         /\ bufs[w].hash[g] = ZeroHash
<1> DEFINE b == bufs[w]
           c == bufs'[w]
           target == BufferSize(b.groups, b.count)
           len == Grown(b.len, target)
           S == 0..(b.groups - 1)
<1>1. BufOK(b) /\ WithinShares(b) /\ BufOK(c)
  BY InsertOK DEF BufTypeOK, BufOK, StagedOK
<1>2. /\ b.count \in Nat /\ b.groups \in Nat /\ b.len \in Nat /\ target \in Nat
      /\ b.groups = MintGroups(b.count) /\ b.groups * GroupSize < U16
      /\ DOMAIN b.hash = S /\ IsFiniteSet(S) /\ g \in Nat /\ d.len \in Nat
  <2>1. b.count \in Nat /\ b.groups \in Nat /\ b.len \in Nat
    BY U16Range DEF BufTypeOK
  <2>2. target \in Nat
    BY <2>1, BufferSizeType, Zenon
  <2>3. b.groups > 0 /\ g \in Nat
    BY <2>1
  <2>4. b.groups = MintGroups(b.count) /\ b.groups * GroupSize < U16
    BY <1>1, <2>1, <2>3, StoredFits
  <2>5. DOMAIN b.hash = S /\ IsFiniteSet(S)
    BY <1>1, <2>1, StoredFits
  <2>6. d.len \in Nat
    BY PendingMintBufferAssumption
  <2> QED BY <2>1, <2>2, <2>3, <2>4, <2>5, <2>6
<1>3. /\ c.count = b.count /\ c.groups = b.groups /\ c.locked = b.locked
      /\ c.initialized = (b.initialized + d.len) % U16
      /\ c.len = len
      /\ c.hash = [b.hash EXCEPT ![g] = d]
      /\ b.hash[g] = ZeroHash /\ d # ZeroHash /\ ~b.locked
  BY PendingMintBufferAssumption DEF Insert, BufTypeOK
<1>4. c.len <= target
  <2>1. b.len <= target
    BY <1>2 DEF StagedOK, WithinShares
  <2>2. target >= b.len => Grown(b.len, target) <= target
    BY <1>2, GrownType
  <2> HIDE DEF b, c, target
  <2> QED BY <1>2, <1>3, <2>1, <2>2
<1>5. d.len <= MintsInGroup(b.count, g)
  <2>1. d.len <= GroupSize
    BY DEF Insert
  <2>2. MintOffset(b.groups, (g * GroupSize) % U16) + PendingMintSize * d.len <= c.len
    BY <1>3 DEF Insert
  <2>3. c.len \in Nat /\ g < b.groups
    BY <1>1, <1>2 DEF BufOK
  <2> HIDE DEF b, c
  <2> QED BY <1>2, <1>4, <2>1, <2>2, <2>3, ShareOfGroup
<1>6. /\ DOMAIN c.hash = S
      /\ \A i \in S \ {g} : c.hash[i] = b.hash[i]
      /\ c.hash[g] = d
  BY <1>2, <1>3
<1>7. /\ \A i \in S \ {g} : Stored(c)[i] = Stored(b)[i]
      /\ Stored(c)[g] = d.len /\ Stored(b)[g] = 0
  BY <1>2, <1>3, <1>6 DEF Stored
<1>8. ASSUME NEW i \in 0..(c.groups - 1)
      PROVE  Stored(c)[i] <= MintsInGroup(c.count, i)
  <2>1. i \in S /\ (i # g => Stored(b)[i] <= MintsInGroup(b.count, i))
    BY <1>3 DEF StagedOK, WithinShares
  <2> QED BY <1>3, <1>5, <1>7, <2>1
<1>9. StoredMints(c) = StoredMints(b) + d.len
  <2>1. \A i \in S : Stored(b)[i] \in Nat
    BY <1>1, <1>2, StoredFits
  <2>2. g \in S
    OBVIOUS
  <2>3. IsFiniteSet(S) /\ DOMAIN b.hash = S /\ DOMAIN c.hash = S
    BY <1>2, <1>6, Zenon
  <2>4. d.len \in Nat
    BY <1>2, Zenon
  <2>5. StoredMints(c) = StoredMints(b) + Stored(c)[g]
    <3> HIDE DEF b, c, S
    <3>1. Stored(c)[g] \in Nat
      BY <1>7, <2>4, Zenon
    <3> QED BY <1>7, <2>1, <2>2, <2>3, <3>1, StoredGrows, ZenonT(60)
  <2> QED BY <1>7, <2>5, Zenon
<1>10. StoredMints(c) < U16 /\ StoredMints(c) \in Nat
  <2>1. WithinShares(c)
    BY <1>3, <1>8, <1>1 DEF WithinShares
  <2> QED BY <1>1, <2>1, StoredBelowLimit
<1>11. c.initialized = StoredMints(c)
  <2>1. b.initialized = StoredMints(b)
    BY DEF StagedOK
  <2> QED BY <1>3, <1>9, <1>10, <2>1, U16Mod
<1>12. c.groups > 0 => c.len <= BufferSize(c.groups, c.count)
  BY <1>3, <1>4
<1>13. WithinShares(c)
  BY <1>1, <1>3, <1>8 DEF WithinShares
<1>14. StagedOK(c)
  BY <1>3, <1>11, <1>12, <1>13 DEF StagedOK
<1> QED BY <1>2, <1>3, <1>6, <1>14

(* lock() compares the two counters and keeps the data. *)
LEMMA LockStaged ==
  ASSUME BufTypeOK, NEW w \in Writers, NEW k \in Lockers, Lock(w, k), StagedOK(bufs[w])
  PROVE  StagedOK(bufs'[w]) /\ bufs'[w].hash = bufs[w].hash
<1> DEFINE b == bufs[w]
           c == bufs'[w]
<1>1. /\ c.count = b.count /\ c.groups = b.groups /\ c.initialized = b.initialized
      /\ c.len = b.len /\ c.hash = b.hash /\ b.initialized = b.count
  BY DEF Lock, CanLock, LockedBuffer, BufTypeOK
<1>2. Stored(c) = Stored(b) /\ StoredMints(c) = StoredMints(b)
  BY <1>1, SameStored
<1> HIDE DEF b, c
<1> QED BY <1>1, <1>2, Zenon DEF StagedOK, WithinShares, b, c

(* unlock() starts the buffer over. *)
LEMMA UnlockStaged ==
  ASSUME BufTypeOK, NEW w \in Writers, NEW k \in Lockers, Unlock(w, k)
  PROVE  /\ StagedOK(bufs'[w])
         /\ bufs'[w].initialized = 0 /\ StoredMints(bufs'[w]) = 0
<1> DEFINE c == bufs'[w]
<1>1. c.count = 0 /\ c.groups = 0 /\ c.initialized = 0 /\ ~c.locked /\ c.hash = NoGroups
  BY DEF Unlock, UnlockedBuffer, BufTypeOK
<1>2. DOMAIN NoGroups = {} /\ 0..(0 - 1) = {}
  BY DEF NoGroups
<1> HIDE DEF c
<1>3. StagedOK(c) /\ StoredMints(c) = 0
  BY <1>1, <1>2, NoMintsNoGroups, StartedOver, U16Type
<1> QED BY <1>1, <1>3 DEF c

(* What one instruction does to the data of the buffer it touches: it      *)
(* starts it over, or keeps every group that is filled.                    *)
StartsOver(c) == c.initialized = 0 /\ StoredMints(c) = 0

KeepsGroups(b, c) ==
  \A g \in DOMAIN b.hash :
    b.hash[g] # ZeroHash => g \in DOMAIN c.hash /\ c.hash[g] = b.hash[g]

(* Every instruction keeps the invariant of the buffer it touches. *)
LEMMA StagedStep ==
  ASSUME BufInv, NEW w \in Writers,
         \/ WriterStep(w)
         \/ \E k \in Lockers : Lock(w, k) \/ Unlock(w, k)
  PROVE  /\ BufTypeOK' /\ Touches(w) /\ StagedOK(bufs'[w])
         /\ StartsOver(bufs'[w]) \/ KeepsGroups(bufs[w], bufs'[w])
<1>0. BufTypeOK /\ StagedOK(bufs[w])
  BY DEF BufInv
<1>1. BufTypeOK' /\ Touches(w)
  BY <1>0, WriterStepOK, LockStepOK
<1> DEFINE Goal == /\ StagedOK(bufs'[w])
                   /\ StartsOver(bufs'[w]) \/ KeepsGroups(bufs[w], bufs'[w])
<1>2. ASSUME NEW k \in Lockers, Setup(w, k)
      PROVE  Goal
  <2>1. bufs[w].hash = NoGroups
    BY <1>0, <1>2 DEF Setup, BufTypeOK, AbsentBuffer
  <2>2. KeepsGroups(bufs[w], bufs'[w])
    BY <2>1 DEF KeepsGroups, NoGroups
  <2> QED BY <1>0, <1>2, <2>2, SetupStaged
<1>3. ASSUME NEW n \in MintCounts, Reinit(w, n)
      PROVE  Goal
  BY <1>0, <1>3, ReinitStaged DEF StartsOver
<1>4. ASSUME Resize(w)
      PROVE  Goal
  BY <1>0, <1>4, ResizeStaged DEF KeepsGroups
<1>5. ASSUME NEW g \in 0..(bufs[w].groups - 1), NEW d \in MintData, Insert(w, g, d)
      PROVE  Goal
  <2>1. /\ StagedOK(bufs'[w])
        /\ DOMAIN bufs'[w].hash = DOMAIN bufs[w].hash
        /\ \A i \in DOMAIN bufs[w].hash \ {g} : bufs'[w].hash[i] = bufs[w].hash[i]
        /\ bufs[w].hash[g] = ZeroHash
    BY <1>0, <1>5, InsertStaged
  <2>2. KeepsGroups(bufs[w], bufs'[w])
    BY <2>1 DEF KeepsGroups
  <2> QED BY <2>1, <2>2
<1>6. ASSUME NEW k \in Lockers, Lock(w, k)
      PROVE  Goal
  BY <1>0, <1>6, LockStaged DEF KeepsGroups
<1>7. ASSUME NEW k \in Lockers, Unlock(w, k)
      PROVE  Goal
  BY <1>0, <1>7, UnlockStaged DEF StartsOver
<1>8. Goal
  BY <1>2, <1>3, <1>4, <1>5, <1>6, <1>7 DEF WriterStep
<1> QED BY <1>1, <1>8

(* The invariant holds at the start ... *)
LEMMA BufInvInit == BufInit => BufInv
<1> SUFFICES ASSUME BufInit PROVE BufInv
  OBVIOUS
<1>1. DOMAIN NoGroups = {} /\ 0..(0 - 1) = {}
  BY DEF NoGroups
<1>2. StagedOK(AbsentBuffer)
  <2> DEFINE b == AbsentBuffer
  <2>1. b.count = 0 /\ b.groups = 0 /\ b.initialized = 0 /\ ~b.locked /\ b.hash = NoGroups
    BY DEF AbsentBuffer
  <2> HIDE DEF b
  <2>2. StagedOK(b)
    BY <1>1, <2>1, NoMintsNoGroups, StartedOver, U16Type
  <2> QED BY <2>2 DEF b
<1> QED BY <1>2, BufInitOK DEF BufInit, BufInv

(* ... is kept by every instruction ... *)
LEMMA BufInvNext == BufInv /\ [BufNext]_bufVars => BufInv'
<1> SUFFICES ASSUME BufInv, [BufNext]_bufVars
             PROVE  BufInv'
  OBVIOUS
<1>1. CASE UNCHANGED bufVars
  <2>1. bufs' = bufs
    BY <1>1 DEF bufVars
  <2> QED BY <2>1 DEF BufInv, BufTypeOK
<1>2. CASE BufNext
  <2>1. PICK w \in Writers : \/ WriterStep(w)
                             \/ \E k \in Lockers : Lock(w, k) \/ Unlock(w, k)
    BY <1>2 DEF BufNext
  <2>2. BufTypeOK' /\ Touches(w) /\ StagedOK(bufs'[w])
    BY <2>1, StagedStep
  <2>3. ASSUME NEW v \in Writers PROVE StagedOK(bufs'[v])
    <3>1. v # w => bufs'[v] = bufs[v]
      BY <2>2 DEF Touches, BufInv, BufTypeOK
    <3> QED BY <2>2, <3>1 DEF BufInv
  <2> QED BY <2>2, <2>3 DEF BufInv
<1> QED BY <1>1, <1>2

(* ... and so holds in every state. *)
LEMMA BufInvariant == BufSpec => []BufInv
  BY BufInvInit, BufInvNext, PTL DEF BufSpec

(* pending_mints_initialized is the number of mints in the buffer, for any *)
(* uploads, lengths and growth limit: the u16 counter never drifts from    *)
(* what is stored and never wraps.                                         *)
THEOREM CounterIsStored == BufSpec => []InitializedIsStored
<1>1. BufInv => InitializedIsStored
  BY DEF BufInv, StagedOK, InitializedIsStored
<1> QED BY <1>1, BufInvariant, PTL

(* A buffer with equal counters holds the whole list. *)
LEMMA EqualCountersAreComplete ==
  ASSUME NEW b, BufOK(b), StagedOK(b), b.initialized = b.count
  PROVE  /\ b.groups = MintGroups(b.count)
         /\ \A g \in 0..(b.groups - 1) :
              b.hash[g] # ZeroHash /\ b.hash[g].len = MintsInGroup(b.count, g)
<1> DEFINE S == 0..(b.groups - 1)
           f == Stored(b)
           full == Complete(b.count)
<1>1. b.count \in Nat /\ b.count < U16 /\ b.groups \in Nat /\ WithinShares(b)
  BY U16Range DEF BufOK, StagedOK
<1>2. IsFiniteSet(S) /\ DOMAIN b.hash = S /\ \A g \in S : f[g] \in Nat
  BY <1>1, StoredFits
<1>3. SumOver(f, S) = b.count
  BY <1>2, StoredIsSum, Zenon DEF StagedOK
<1>4. b.groups = MintGroups(b.count)
  <2>1. CASE b.groups > 0
    BY <1>1, <2>1, StoredFits
  <2>2. CASE b.groups = 0
    <3>1. S = {}
      BY <2>2
    <3>2. b.count = 0
      BY <1>3, <3>1, SumEmpty, Zenon
    <3> QED BY <2>2, <3>2 DEF MintGroups, GroupSize
  <2> QED BY <1>1, <2>1, <2>2
<1>5. SumOver(full, S) = b.count
  BY <1>1, <1>4, CompleteIsAll
<1>6. \A g \in S : full[g] \in Int /\ f[g] \in Int /\ f[g] <= full[g] /\ full[g] >= 1
  <2> SUFFICES ASSUME NEW g \in S
               PROVE  full[g] \in Int /\ f[g] \in Int /\ f[g] <= full[g] /\ full[g] >= 1
    OBVIOUS
  <2>1. full[g] = MintsInGroup(b.count, g)
    BY <1>4 DEF Complete
  <2>2. full[g] \in 1..GroupSize /\ GroupSize \in Nat
    <3>1. full[g] \in 1..GroupSize
      BY <1>1, <1>4, <2>1, MintsInGroupValue
    <3> QED BY <3>1 DEF GroupSize
  <2>3. f[g] <= MintsInGroup(b.count, g)
    BY <1>1 DEF WithinShares
  <2> QED BY <1>2, <2>1, <2>2, <2>3
<1>7. \A g \in S : f[g] = full[g]
  <2> HIDE DEF f, full, S
  <2> QED BY <1>2, <1>3, <1>5, <1>6, SumBounded
<1>8. ASSUME NEW g \in S
      PROVE  b.hash[g] # ZeroHash /\ b.hash[g].len = MintsInGroup(b.count, g)
  <2>1. f[g] # 0 /\ f[g] = MintsInGroup(b.count, g)
    BY <1>4, <1>6, <1>7 DEF Complete
  <2> QED BY <1>2, <2>1 DEF Stored
<1> QED BY <1>4, <1>8

(* A locked buffer is complete, for any uploads, lengths and growth limit: *)
(* lock() compares two counters only, and yet every group is there with    *)
(* exactly the number of mints the bridge reads from it; the wrapped group *)
(* count of a list of more than 65512 mints is never locked.               *)
THEOREM LockedIsWhole == BufSpec => []LockedIsComplete
<1>1. BufInv => LockedIsComplete
  <2> SUFFICES ASSUME BufInv, NEW w \in Writers, bufs[w].locked
               PROVE  /\ bufs[w].groups = MintGroups(bufs[w].count)
                      /\ \A g \in 0..(bufs[w].groups - 1) :
                           /\ bufs[w].hash[g] # ZeroHash
                           /\ bufs[w].hash[g].len = MintsInGroup(bufs[w].count, g)
    BY DEF LockedIsComplete
  <2>1. BufOK(bufs[w]) /\ StagedOK(bufs[w])
    BY DEF BufInv, BufTypeOK, BufOK
  <2>2. bufs[w].initialized = bufs[w].count
    BY <2>1 DEF StagedOK
  <2> QED BY <2>1, <2>2, EqualCountersAreComplete
<1> QED BY <1>1, BufInvariant, PTL

(* What a writer put into a group stays there until the buffer is started  *)
(* over, for any sequence of instructions: a second insert never replaces  *)
(* data, and neither a resize nor a lock touches it.                       *)
THEOREM GroupsStay == BufSpec => GroupsAreWrittenOnce
<1> DEFINE Kept == \A w \in Writers : \A g \in DOMAIN bufs[w].hash :
                     bufs[w].hash[g] # ZeroHash =>
                       \/ bufs'[w].initialized = 0 /\ StoredMints(bufs[w])' = 0
                       \/ g \in DOMAIN bufs'[w].hash /\ bufs'[w].hash[g] = bufs[w].hash[g]
<1>1. BufInv /\ [BufNext]_bufVars => [Kept]_bufVars
  <2> SUFFICES ASSUME BufInv, BufNext
               PROVE  Kept
    OBVIOUS
  <2>1. PICK w \in Writers : \/ WriterStep(w)
                             \/ \E k \in Lockers : Lock(w, k) \/ Unlock(w, k)
    BY DEF BufNext
  <2>2. Touches(w) /\ (StartsOver(bufs'[w]) \/ KeepsGroups(bufs[w], bufs'[w]))
    BY <2>1, StagedStep
  <2>3. ASSUME NEW v \in Writers, v # w PROVE bufs'[v] = bufs[v]
    BY <2>2, <2>3 DEF Touches, BufInv, BufTypeOK
  <2> QED BY <2>2, <2>3 DEF StartsOver, KeepsGroups
<1> QED BY <1>1, BufInvariant, PTL DEF BufSpec, GroupsAreWrittenOnce
=============================================================================
