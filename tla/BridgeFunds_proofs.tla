-------------------------- MODULE BridgeFunds_proofs --------------------------
(***************************************************************************)
(* Proofs about the bridge's funds, for any chain of deposits, any number  *)
(* of slots in the ring of recent states, any fees and any word.           *)
(***************************************************************************)
EXTENDS BridgeFunds, FiniteSums, TLAPS

(* The time each prover has for a step that names none. *)
USE SMTT(30), ZenonT(30)

-----------------------------------------------------------------------------
(* Integer division, as the fees use it. *)
LEMMA Quotient ==
  ASSUME NEW p \in Nat, NEW d \in Nat, d > 0
  PROVE  /\ p \div d \in Nat
         /\ (p \div d) * d <= p
         /\ p < (p \div d + 1) * d
  OBVIOUS

(* The quotient is the only number with these two bounds. *)
LEMMA QuotientUnique ==
  ASSUME NEW p \in Nat, NEW d \in Nat, d > 0, NEW q \in Nat,
         q * d <= p, p < (q + 1) * d
  PROVE  q = p \div d
  OBVIOUS

(* A rate of at most one takes at most the amount. *)
LEMMA QuotientBound ==
  ASSUME NEW a \in Nat, NEW n \in Nat, NEW d \in Nat, d > 0, n <= d
  PROVE  (a * n) \div d \in Nat /\ (a * n) \div d <= a
<1>1. a * n \in Nat /\ a * n <= a * d
  OBVIOUS
<1> DEFINE q == (a * n) \div d
<1>2. q \in Nat /\ q * d <= a * n
  BY <1>1, Quotient
<1> HIDE DEF q
<1>3. q * d <= a * d
  BY <1>1, <1>2
<1>4. q <= a
  BY <1>2, <1>3
<1> QED
  BY <1>2, <1>4 DEF q

(* calcuate_deposit_fee and calcuate_withdrawal_fee are exact: what they   *)
(* return and their callers accept is the rate rounded down and the flat   *)
(* part, and every amount that can pay that is accepted, for every width   *)
(* of a word, every rate of at most one and every amount whose sum with    *)
(* the flat part is a word.                                                *)
THEOREM ExactFees ==
  ASSUME NEW amount \in Nat, NEW flat \in Nat, NEW num \in Nat, NEW den \in Nat
  PROVE  FeeIsExact(amount, flat, num, den) /\ FeeIsFound(amount, flat, num, den)
<1> DEFINE q == (amount * num) \div den
           f == Deducted(amount, q + flat)
<1>1. ASSUME den > 0, num <= den, amount + flat < Word
      PROVE  /\ q \in Nat /\ q * den <= amount * num /\ amount * num < (q + 1) * den
             /\ CalculateDepositFee(amount, flat, num, den) = f
             /\ CalculateWithdrawalFee(amount, flat, num, den) = f
  <2>1. amount * num \in Nat
    OBVIOUS
  <2>2. q \in Nat /\ q * den <= amount * num /\ amount * num < (q + 1) * den
    BY <1>1, <2>1, Quotient
  <2>3. q <= amount
    BY <1>1, QuotientBound
  <2> HIDE DEF q
  <2>4. q + flat \in 0..(Word - 1)
    BY <1>1, <2>2, <2>3, FeesAssumption
  <2>5. (q + flat) % Word = q + flat /\ den # 0
    BY <1>1, <2>4, FeesAssumption
  <2> QED
    BY <2>2, <2>5 DEF CalculateDepositFee, CalculateWithdrawalFee, q
<1>2. FeeIsExact(amount, flat, num, den)
  <2> SUFFICES ASSUME num <= den, amount + flat < Word,
                      NEW g \in {CalculateDepositFee(amount, flat, num, den),
                                 CalculateWithdrawalFee(amount, flat, num, den)},
                      FeeAccepted(g)
               PROVE  IsExactFee(g, amount, flat, num, den)
    BY DEF FeeIsExact
  <2>1. den > 0
    <3>1. den = 0 => g = NoFee
      BY DEF CalculateDepositFee, CalculateWithdrawalFee
    <3> QED
      BY <3>1 DEF NoFee, FeeAccepted
  <2>2. g = f
    BY <1>1, <2>1
  <2>3. q \in Nat /\ q * den <= amount * num /\ amount * num < (q + 1) * den
    BY <1>1, <2>1
  <2> HIDE DEF q
  <2>4. q + flat <= amount /\ g.fees = q + flat /\ g.after = amount - (q + flat)
    BY <2>2 DEF Deducted, NoFee, FeeAccepted
  <2>5. g.fees - flat = q /\ g.fees + g.after = amount /\ g.fees >= flat
    BY <2>3, <2>4
  <2> QED
    BY <2>3, <2>5 DEF IsExactFee
<1>3. FeeIsFound(amount, flat, num, den)
  <2> DEFINE g(fees) == [fees |-> fees, after |-> amount - fees]
  <2> SUFFICES ASSUME NEW fees \in 1..amount, den > 0, num <= den,
                      amount + flat < Word,
                      IsExactFee(g(fees), amount, flat, num, den)
               PROVE  /\ CalculateDepositFee(amount, flat, num, den) = g(fees)
                      /\ CalculateWithdrawalFee(amount, flat, num, den) = g(fees)
    BY DEF FeeIsFound
  <2>1. /\ fees >= flat
        /\ (fees - flat) * den <= amount * num
        /\ amount * num < (fees - flat + 1) * den
    BY DEF IsExactFee
  <2>2. fees - flat \in Nat /\ amount * num \in Nat
    BY <2>1
  <2>3. fees - flat = q
    BY <2>1, <2>2, QuotientUnique
  <2>4. q \in Nat
    BY <2>2, <2>3
  <2> HIDE DEF q
  <2>5. f = g(fees)
    BY <2>3, <2>4 DEF Deducted
  <2> QED
    BY <1>1, <2>5
<1> QED
  BY <1>2, <1>3

-----------------------------------------------------------------------------
(* What makes NeverPaidTwice inductive: the ring holds heights that were   *)
(* finalized, and every claimed deposit is in its owner's tree.            *)
HeaderInv ==
  /\ header.height \in 0..Len(Deposits)
  /\ recent.slots \in [0..(RecentSlots - 1) -> 0..header.height]
  /\ recent.next \in 0..(RecentSlots - 1)

ClaimsInv ==
  /\ claimed \in [Users -> SUBSET Outputs]
  /\ manual.leaves \in Seq(Outputs)
  /\ \A i \in 1..Len(manual.leaves) :
       /\ manual.leaves[i] \in claimed[OwnerOf[manual.leaves[i]]]
       /\ manual.leaves[i] \notin AutoClaimed
       /\ BlockOf[manual.leaves[i]] <= header.height
  /\ \A i, j \in 1..Len(manual.leaves) :
       manual.leaves[i] = manual.leaves[j] => i = j

(* The chain has a length, and every output a block and an owner. *)
LEMMA HeightsFacts ==
  /\ Len(Deposits) \in Nat
  /\ \A o \in Outputs : BlockOf[o] \in 1..Len(Deposits) /\ OwnerOf[o] \in Users
<1>1. Len(Deposits) \in Nat
  BY BridgeHeaderAssumption
<1> QED
  BY <1>1, ManualClaimsAssumption DEF Heights

(* The height that FindRecent gives belongs to the root it was asked for,  *)
(* and is finalized.                                                       *)
LEMMA FoundHasRoot ==
  ASSUME HeaderInv, NEW root, FindRecent(root) # InvalidHeight
  PROVE  /\ FindRecent(root) \in 0..header.height
         /\ AutoRoot(FindRecent(root)) = root
<1>1. CASE AutoRoot(header.height) = root
  <2>1. FindRecent(root) = header.height
    BY <1>1 DEF FindRecent
  <2>2. header.height \in 0..header.height
    BY HeightsFacts DEF HeaderInv
  <2> QED
    BY <1>1, <2>1, <2>2
<1>2. CASE AutoRoot(header.height) # root
  <2> DEFINE c == CHOOSE i \in DOMAIN recent.slots : FirstSlot(root, i)
  <2>1. \E i \in DOMAIN recent.slots : FirstSlot(root, i)
    BY <1>2 DEF FindRecent
  <2>2. c \in DOMAIN recent.slots /\ FirstSlot(root, c)
    BY <2>1
  <2>3. FindRecent(root) = recent.slots[c]
    BY <1>2, <2>1 DEF FindRecent
  <2> HIDE DEF c
  <2>4. recent.slots[c] \in 0..header.height /\ AutoRoot(recent.slots[c]) = root
    BY <2>2, Zenon DEF FirstSlot, HeaderInv
  <2> QED
    BY <2>3, <2>4
<1> QED
  BY <1>1, <1>2

(* A deposit that process_manual_claimed_deposit accepts is in a finalized *)
(* block and is never minted automatically.                                *)
LEMMA AcceptedClaim ==
  ASSUME HeaderInv, NEW o \in Outputs, NEW h, NEW root,
         RootsAreRecent(o, h, root), o \notin root
  PROVE  o \notin AutoClaimed /\ BlockOf[o] <= header.height
<1> DEFINE found == FindRecent(root)
<1>1. found # InvalidHeight /\ BlockOf[o] <= found
  BY DEF RootsAreRecent
<1>2. found \in 0..header.height /\ AutoRoot(found) = root
  BY <1>1, FoundHasRoot
<1> HIDE DEF found
<1>3. o \notin AutoClaimed
  BY <1>1, <1>2 DEF AutoRoot
<1>4. BlockOf[o] <= header.height
  BY <1>1, <1>2, HeightsFacts DEF HeaderInv
<1> QED
  BY <1>3, <1>4

(* Nothing is claimed when the bridge is initialized. *)
LEMMA ClaimsStart ==
  Init => HeaderInv /\ ClaimsInv
<1> SUFFICES ASSUME Init
             PROVE  HeaderInv /\ ClaimsInv
  OBVIOUS
<1>1. HeaderInv
  BY HeightsFacts, BridgeHeaderAssumption
     DEF Init, HeaderInit, ProvenHeader, HeaderInv
<1>2. ClaimsInv
  BY DEF Init, ManualInit, ClaimsInv
<1> QED
  BY <1>1, <1>2

(* Finalized heights grow, and every slot of the ring holds one of them. *)
LEMMA FinalizePreserves ==
  ASSUME HeaderInv, ClaimsInv, NEW h \in Heights, FinalizeBlocks(h)
  PROVE  HeaderInv' /\ ClaimsInv'
<1>1. /\ h \in 0..Len(Deposits) /\ header.height <= h
      /\ header'.height = h
      /\ recent'.slots \in [0..(RecentSlots - 1) -> 0..h]
      /\ recent'.next \in 0..(RecentSlots - 1)
  <2>1. h \in 1..Len(Deposits) /\ Len(Deposits) \in Nat
    BY HeightsFacts DEF Heights
  <2>2. CASE SingleBlock(h)
    <3>1. /\ h = header.height + 1
          /\ header'.height = h
          /\ recent'.slots = [recent.slots EXCEPT ![recent.next] = h]
          /\ recent'.next = (recent.next + 1) % RecentSlots
      BY <2>2 DEF SingleBlock, ProvenHeader
    <3>2. header.height \in Nat /\ 0..header.height \subseteq 0..h /\ h \in 0..h
      BY <2>1, <3>1 DEF HeaderInv
    <3>3. recent'.slots \in [0..(RecentSlots - 1) -> 0..h]
      BY <3>1, <3>2 DEF HeaderInv
    <3>4. (recent.next + 1) % RecentSlots \in 0..(RecentSlots - 1)
      BY BridgeHeaderAssumption DEF HeaderInv
    <3> QED
      BY <2>1, <3>1, <3>2, <3>3, <3>4
  <2>3. CASE ReorgBlocks(h)
    BY <2>1, <2>3 DEF ReorgBlocks, ProvenHeader, HeaderInv
  <2> QED
    BY <2>2, <2>3 DEF FinalizeBlocks
<1>2. HeaderInv'
  BY <1>1 DEF HeaderInv
<1>3. manual' = manual /\ claimed' = claimed
  BY DEF FinalizeBlocks, manualVars
<1>4. \A i \in 1..Len(manual.leaves) : BlockOf[manual.leaves[i]] <= h
  <2> SUFFICES ASSUME NEW i \in 1..Len(manual.leaves)
               PROVE  BlockOf[manual.leaves[i]] <= h
    OBVIOUS
  <2>1. manual.leaves[i] \in Outputs /\ BlockOf[manual.leaves[i]] <= header.height
    BY DEF ClaimsInv
  <2> QED
    BY <1>1, <2>1, HeightsFacts DEF HeaderInv
<1>5. ClaimsInv'
  BY <1>1, <1>3, <1>4 DEF ClaimsInv
<1> QED
  BY <1>2, <1>5

(* A claim appends a deposit that its owner had not claimed before. *)
LEMMA ClaimPreserves ==
  ASSUME HeaderInv, ClaimsInv, NEW u \in Users, NEW o \in Outputs, Claim(u, o)
  PROVE  HeaderInv' /\ ClaimsInv'
<1>1. PICK h \in 0..Len(Deposits), k \in 0..Len(Deposits) : ClaimAgainst(u, o, h, k)
  BY DEF Claim
<1>2. /\ ClaimProof(u, o, h, AutoRoot(k), claimed[u])
      /\ RootsAreRecent(o, h, AutoRoot(k))
      /\ manual'.leaves = Append(manual.leaves, o)
      /\ claimed' = [claimed EXCEPT ![u] = @ \cup {o}]
  BY <1>1 DEF ClaimAgainst, ManualClaim, ProcessManualDeposit
<1>3. OwnerOf[o] = u /\ o \notin AutoRoot(k) /\ o \notin claimed[u]
  BY <1>2 DEF ClaimProof
<1>4. header' = header /\ recent' = recent
  BY DEF Claim, headerVars
<1>5. HeaderInv'
  BY <1>4 DEF HeaderInv
<1>6. o \notin AutoClaimed /\ BlockOf[o] <= header.height
  BY <1>2, <1>3, AcceptedClaim
<1> DEFINE n == Len(manual.leaves)
<1>7. /\ manual.leaves \in Seq(Outputs) /\ n \in Nat
      /\ manual'.leaves \in Seq(Outputs) /\ Len(manual'.leaves) = n + 1
      /\ manual'.leaves[n + 1] = o
      /\ \A i \in 1..n : manual'.leaves[i] = manual.leaves[i]
  BY <1>2 DEF ClaimsInv
<1>8. claimed' \in [Users -> SUBSET Outputs] /\ o \in claimed'[u]
  BY <1>2 DEF ClaimsInv
<1>9. \A v \in Users : claimed[v] \subseteq claimed'[v]
  BY <1>2 DEF ClaimsInv
<1>10. ASSUME NEW i \in 1..n
       PROVE  /\ manual'.leaves[i] \in claimed'[OwnerOf[manual'.leaves[i]]]
              /\ manual'.leaves[i] \notin AutoClaimed
              /\ BlockOf[manual'.leaves[i]] <= header.height
              /\ manual'.leaves[i] # o
  <2>1. /\ manual.leaves[i] \in claimed[OwnerOf[manual.leaves[i]]]
        /\ manual.leaves[i] \notin AutoClaimed
        /\ BlockOf[manual.leaves[i]] <= header.height
    BY DEF ClaimsInv
  <2>2. manual'.leaves[i] = manual.leaves[i] /\ manual.leaves[i] \in Outputs
    BY <1>7
  <2>3. manual.leaves[i] # o
    BY <1>3, <2>1
  <2>4. OwnerOf[manual.leaves[i]] \in Users
    BY <2>2, HeightsFacts
  <2> QED
    BY <1>9, <2>1, <2>2, <2>3, <2>4
<1>11. \A i \in 1..(n + 1) : i \in 1..n \/ i = n + 1
  BY <1>7
<1>12. ASSUME NEW i \in 1..(n + 1)
       PROVE  /\ manual'.leaves[i] \in claimed'[OwnerOf[manual'.leaves[i]]]
              /\ manual'.leaves[i] \notin AutoClaimed
              /\ BlockOf[manual'.leaves[i]] <= header.height
  BY <1>3, <1>6, <1>7, <1>8, <1>10, <1>11
<1>13. ASSUME NEW i \in 1..(n + 1), NEW j \in 1..(n + 1),
              manual'.leaves[i] = manual'.leaves[j]
       PROVE  i = j
  <2>1. CASE i \in 1..n /\ j \in 1..n
    BY <1>7, <1>13, <2>1 DEF ClaimsInv
  <2>2. CASE i = n + 1 \/ j = n + 1
    BY <1>7, <1>10, <1>11, <1>13, <2>2
  <2> QED
    BY <1>11, <2>1, <2>2
<1>14. ClaimsInv'
  BY <1>4, <1>7, <1>8, <1>12, <1>13 DEF ClaimsInv
<1> QED
  BY <1>5, <1>14

(* Every step preserves what is known of the claims. *)
LEMMA ClaimsStep ==
  ASSUME HeaderInv, ClaimsInv, [Next]_vars
  PROVE  HeaderInv' /\ ClaimsInv'
<1>1. ASSUME UNCHANGED <<header, recent, manual, claimed>>
      PROVE  HeaderInv' /\ ClaimsInv'
  BY <1>1 DEF HeaderInv, ClaimsInv
<1>2. CASE UNCHANGED vars
  BY <1>1, <1>2 DEF vars
<1>3. CASE Claims
  BY <1>3, ClaimPreserves DEF Claims
<1>4. CASE Movements
  <2>1. CASE \E h \in Heights : FinalizeBlocks(h)
    BY <2>1, FinalizePreserves
  <2>2. CASE \E o \in Outputs : AutoMint(o)
    BY <1>1, <2>2 DEF AutoMint, headerVars, manualVars
  <2>3. CASE \E amount \in Amounts : Withdraw(amount)
    BY <1>1, <2>3 DEF Withdraw, headerVars, manualVars
  <2>4. CASE Snapshot \/ ProveWithdrawal \/ PayWithdrawals \/ Replay
             \/ (Tick /\ UNCHANGED fundVars)
    BY <1>1, <2>4
       DEF Snapshot, ProveWithdrawal, PayWithdrawals, Replay, fundVars
  <2>5. CASE WithdrawFees
    BY <1>1, <2>5 DEF WithdrawFees, headerVars, manualVars
  <2> QED
    BY <1>4, <2>1, <2>2, <2>3, <2>4, <2>5 DEF Movements
<1> QED
  BY <1>2, <1>3, <1>4 DEF Next

(* The invariant rules out that a deposit is paid twice. *)
LEMMA ClaimsInvImplies ==
  ASSUME HeaderInv, ClaimsInv
  PROVE  NeverPaidTwice
<1>1. DOMAIN manual.leaves = 1..Len(manual.leaves)
  BY DEF ClaimsInv
<1>2. \A i, j \in DOMAIN manual.leaves :
        manual.leaves[i] = manual.leaves[j] => i = j
  BY <1>1 DEF ClaimsInv
<1>3. ASSUME NEW o \in Claimed, o \in Outputs
      PROVE  o \notin AutoClaimed /\ ~(BlockOf[o] > header.height)
  <2>1. PICK i \in 1..Len(manual.leaves) : o = manual.leaves[i]
    BY <1>1 DEF Claimed
  <2>2. o \notin AutoClaimed /\ BlockOf[o] <= header.height
    BY <2>1 DEF ClaimsInv
  <2> QED
    BY <1>3, <2>2, HeightsFacts DEF HeaderInv
<1> QED
  BY <1>2, <1>3 DEF NeverPaidTwice

(* No deposit is paid twice, however the instructions that mint are        *)
(* interleaved and whichever old roots claims are made against, for every  *)
(* chain, every split of its deposits and every length of the ring.        *)
THEOREM DepositsPaidOnce ==
  Spec => []NeverPaidTwice
<1>1. Init => HeaderInv /\ ClaimsInv
  BY ClaimsStart
<1>2. HeaderInv /\ ClaimsInv /\ [Next]_vars => (HeaderInv /\ ClaimsInv)'
  BY ClaimsStep
<1>3. HeaderInv /\ ClaimsInv => NeverPaidTwice
  BY ClaimsInvImplies
<1> QED
  BY <1>1, <1>2, <1>3, PTL DEF Spec

-----------------------------------------------------------------------------
(* What makes RequestsPaidInOrder and ReplaysAreSpaced inductive.  A proof *)
(* that was made against the current return output continues where the     *)
(* last transaction stopped, because every payment moves the return        *)
(* output; the sent tree holds the hashes of what was posted.              *)
WdFields == {"requested", "processed", "returned", "sent", "snap", "fees",
             "feesWithdrawn", "lastProcessed"}

Txs      == [nr : Nat, from : Nat, to : Nat]
Datas    == [tx : Txs, rounds : Nat]
Messages == [data : Datas, nonce : Nat, at : Nat]

IndexInv ==
  /\ wd = [x \in WdFields |-> wd[x]]
  /\ wd.requested \in Seq(Int)
  /\ wd.processed \in Nat /\ wd.returned \in Nat /\ wd.snap.next \in Nat
  /\ wd.processed <= wd.snap.next /\ wd.snap.next <= Len(wd.requested)

ProofsInv ==
  \A p \in proofs :
    /\ p.old \in Nat /\ p.old <= wd.returned
    /\ p.tx \in Txs /\ p.tx.nr = p.old + 1
    /\ p.tx.from <= p.tx.to /\ p.tx.to <= p.snap.next
    /\ p.old = wd.returned => p.tx.from = wd.processed

PostedInv ==
  /\ clock \in Nat
  /\ posted \in Seq(Messages)
  /\ \A i \in 1..Len(posted) :
       /\ posted[i].data.tx.from = IF i = 1 THEN 0 ELSE posted[i - 1].data.tx.to
       /\ posted[i].nonce <= wd.processed
       /\ posted[i].at <= clock
  /\ wd.processed = IF posted = <<>> THEN 0 ELSE posted[Len(posted)].data.tx.to
  /\ wd.sent \in Seq(Datas) /\ Len(wd.sent) = Len(posted)
  /\ \A i \in 1..Len(posted) : wd.sent[i] = Sha(posted[i].data)

WasPosted(m) ==
  \E j \in 1..Len(posted) :
    /\ posted[j].data.tx = m.data.tx
    /\ posted[j].nonce <= m.nonce
    /\ posted[j].at <= m.at

ReplayInv ==
  /\ wd.lastProcessed \in Nat
  /\ replayed \in Seq(Messages)
  /\ \A i \in 1..Len(replayed) :
       replayed[i].at <= wd.lastProcessed /\ WasPosted(replayed[i])
  /\ \A i, j \in 1..Len(replayed) :
       i < j => replayed[i].at + ReplayWait <= replayed[j].at

PayInv == IndexInv /\ ProofsInv /\ PostedInv /\ ReplayInv

(* What is left of a request after its fee is a number. *)
LEMMA RequestFeeType ==
  ASSUME NEW amount \in Amounts
  PROVE  RequestFee(amount).after \in Int
<1>1. amount \in Nat /\ WithdrawalFee.flat \in Nat /\ WithdrawalFee.num \in Nat
      /\ WithdrawalFee.den \in Nat
  BY WithdrawalsAssumption
<1> DEFINE d == WithdrawalFee.den
           x == (amount * WithdrawalFee.num) \div d + WithdrawalFee.flat
<1>2. CASE d = 0
  BY <1>2 DEF RequestFee, CalculateWithdrawalFee, NoFee
<1>3. CASE d # 0
  <2>1. amount * WithdrawalFee.num \in Nat /\ d > 0
    BY <1>1, <1>3
  <2>2. x \in Nat
    BY <1>1, <2>1, Quotient
  <2>3. RequestFee(amount) = Deducted(amount, x % Word)
    BY <1>3 DEF RequestFee, CalculateWithdrawalFee
  <2> HIDE DEF x
  <2>4. x % Word \in Int
    BY <2>2, FeesAssumption
  <2> QED
    BY <1>1, <2>3, <2>4 DEF Deducted, NoFee
<1> QED
  BY <1>2, <1>3

(* A round of sha256 keeps the transaction. *)
LEMMA ShaKeeps ==
  ASSUME NEW d \in Datas
  PROVE  Sha(d) \in Datas /\ Sha(d).tx = d.tx
  BY DEF Datas, Sha

(* A freshly initialized bridge has no requests. *)
LEMMA PayStart == Init => PayInv
<1> SUFFICES ASSUME WithdrawalsInit
             PROVE  PayInv
  BY DEF Init
<1>1. IndexInv
  BY DEF WithdrawalsInit, IndexInv, WdFields
<1>2. ProofsInv
  BY DEF WithdrawalsInit, ProofsInv
<1>3. PostedInv
  BY WithdrawalsAssumption DEF WithdrawalsInit, PostedInv
<1>4. ReplayInv
  BY DEF WithdrawalsInit, ReplayInv
<1> QED
  BY <1>1, <1>2, <1>3, <1>4 DEF PayInv

(* A step that leaves the indices, the proofs and the histories alone. *)
LEMMA PayFrame ==
  ASSUME PayInv, IndexInv', UNCHANGED <<proofs, posted, replayed>>,
         wd'.processed = wd.processed, wd'.returned = wd.returned,
         wd'.sent = wd.sent, wd'.lastProcessed = wd.lastProcessed,
         clock' \in Nat, clock <= clock'
  PROVE  PayInv'
<1>1. ProofsInv'
  BY DEF PayInv, ProofsInv
<1>2. PostedInv'
  <2>1. clock \in Nat /\ \A i \in 1..Len(posted) :
                           posted[i] \in Messages /\ posted[i].at <= clock
    BY DEF PayInv, PostedInv
  <2>2. \A i \in 1..Len(posted) : posted[i].at \in Nat
    BY <2>1 DEF Messages
  <2>3. \A i \in 1..Len(posted) : posted[i].at <= clock'
    BY <2>1, <2>2
  <2> QED
    BY <2>3 DEF PayInv, PostedInv, Sha
<1>3. ReplayInv'
  BY DEF PayInv, ReplayInv, WasPosted
<1> QED
  BY <1>1, <1>2, <1>3 DEF PayInv

(* A new request is added behind those the invariant speaks of. *)
LEMMA RequestPreserves ==
  ASSUME PayInv, NEW amount \in Amounts, RequestWithdrawal(amount)
  PROVE  PayInv'
<1>1. /\ wd' = [wd EXCEPT !.fees = @ + RequestFee(amount).fees,
                          !.requested = Append(@, RequestFee(amount).after)]
      /\ UNCHANGED <<clock, proofs, posted, replayed>>
  BY DEF RequestWithdrawal
<1>2. IndexInv
  BY DEF PayInv
<1>3. /\ wd' = [x \in WdFields |-> wd'[x]]
      /\ wd'.requested = Append(wd.requested, RequestFee(amount).after)
      /\ wd'.processed = wd.processed /\ wd'.returned = wd.returned
      /\ wd'.sent = wd.sent /\ wd'.snap = wd.snap
      /\ wd'.lastProcessed = wd.lastProcessed
  BY <1>1, <1>2, Zenon DEF IndexInv, WdFields
<1>4. wd'.requested \in Seq(Int) /\ Len(wd'.requested) = Len(wd.requested) + 1
  BY <1>2, <1>3, RequestFeeType DEF IndexInv
<1>5. IndexInv'
  BY <1>2, <1>3, <1>4 DEF IndexInv
<1> QED
  BY <1>1, <1>3, <1>5, PayFrame DEF PayInv, PostedInv

(* A snapshot takes in the requests that exist. *)
LEMMA SnapshotPreserves ==
  ASSUME PayInv, NEW n, SnapshotWithdrawals(n)
  PROVE  PayInv'
<1>1. IndexInv
  BY DEF PayInv
<1>2. /\ wd' = [x \in WdFields |-> wd'[x]]
      /\ wd'.requested = wd.requested
      /\ wd'.processed = wd.processed /\ wd'.returned = wd.returned
      /\ wd'.sent = wd.sent /\ wd'.snap.next = Len(wd.requested)
      /\ wd'.lastProcessed = wd.lastProcessed
  BY <1>1, Zenon DEF SnapshotWithdrawals, IndexInv, WdFields
<1>3. IndexInv'
  BY <1>1, <1>2 DEF IndexInv
<1> QED
  BY <1>2, <1>3, PayFrame DEF SnapshotWithdrawals, PayInv, PostedInv

(* The operator's fees play no part in the payments. *)
LEMMA FeesPreserve ==
  ASSUME PayInv, NEW n, OperatorWithdrawFees(n)
  PROVE  PayInv'
<1>1. IndexInv
  BY DEF PayInv
<1>2. /\ wd' = [x \in WdFields |-> wd'[x]]
      /\ wd'.requested = wd.requested
      /\ wd'.processed = wd.processed /\ wd'.returned = wd.returned
      /\ wd'.sent = wd.sent /\ wd'.snap = wd.snap
      /\ wd'.lastProcessed = wd.lastProcessed
  BY <1>1, Zenon DEF OperatorWithdrawFees, IndexInv, WdFields
<1>3. IndexInv'
  BY <1>1, <1>2 DEF IndexInv
<1> QED
  BY <1>2, <1>3, PayFrame DEF OperatorWithdrawFees, PayInv, PostedInv

(* Time that passes only lifts the cooldown of a replay. *)
LEMMA TickPreserves ==
  ASSUME PayInv, Tick
  PROVE  PayInv'
<1>1. wd' = wd /\ UNCHANGED <<proofs, posted, replayed>>
  BY DEF Tick
<1>2. clock' \in Nat /\ clock <= clock'
  <2>1. ReplayWait \div 2 \in Nat
    BY WithdrawalsAssumption
  <2> QED
    BY <2>1 DEF Tick, PayInv, PostedInv
<1>3. IndexInv'
  BY <1>1 DEF PayInv, IndexInv
<1> QED
  BY <1>1, <1>2, <1>3, PayFrame

(* A new proof starts where the bridge stands and ends in the snapshot. *)
LEMMA ProvePreserves ==
  ASSUME PayInv, NEW upTo, Prove(upTo)
  PROVE  PayInv'
<1> DEFINE new == [snap |-> wd.snap, old |-> wd.returned,
                   tx |-> [nr |-> wd.returned + 1, from |-> wd.processed, to |-> upTo]]
<1>1. /\ upTo \in wd.processed..wd.snap.next
      /\ proofs' = proofs \cup {new}
      /\ UNCHANGED <<wd, clock, posted, replayed>>
  BY DEF Prove
<1>2. IndexInv'
  BY <1>1 DEF PayInv, IndexInv
<1>3. /\ new.old = wd.returned /\ new.snap = wd.snap /\ new.tx.nr = wd.returned + 1
      /\ new.tx.from = wd.processed /\ new.tx.to = upTo
      /\ new.tx = [nr |-> wd.returned + 1, from |-> wd.processed, to |-> upTo]
  OBVIOUS
<1> HIDE DEF new
<1>4. ProofsInv'
  <2>1. /\ new.old \in Nat /\ new.old <= wd.returned
        /\ new.tx \in Txs
        /\ new.tx.from <= new.tx.to /\ new.tx.to <= new.snap.next
    BY <1>1, <1>3 DEF PayInv, IndexInv, Txs
  <2> QED
    BY <1>1, <1>3, <2>1 DEF PayInv, ProofsInv
<1>5. PostedInv'
  BY <1>1 DEF PayInv, PostedInv, Sha
<1>6. ReplayInv'
  BY <1>1, Zenon DEF PayInv, ReplayInv, WasPosted
<1> QED
  BY <1>2, <1>4, <1>5, <1>6 DEF PayInv

(* Whatever form a transaction is posted in, it stays the same             *)
(* transaction.                                                            *)
LEMMA FormsType ==
  ASSUME NEW tx \in Txs, NEW data \in PostedForms(tx)
  PROVE  data \in Datas /\ data.tx = tx /\ Sha(data) \in Datas
<1>1. Preimage(tx) \in Datas /\ Preimage(tx).tx = tx
  BY DEF Preimage, Datas
<1>2. Sha(Preimage(tx)) \in Datas /\ Sha(Preimage(tx)).tx = tx
  BY <1>1, ShaKeeps
<1>3. data \in Datas /\ data.tx = tx
  BY <1>1, <1>2 DEF PostedForms
<1> QED
  BY <1>3, ShaKeeps

(* Only a proof against the current return output is accepted, so that the *)
(* transaction continues where the last one stopped; its return output is  *)
(* newer than the one any other proof was made against.                    *)
LEMMA PayPreserves ==
  ASSUME PayInv, NEW p \in proofs, NEW data \in PostedForms(p.tx),
         ProcessWithdrawal(p, data)
  PROVE  PayInv'
<1> DEFINE m == Message(data, p.tx.to)
           n == Len(posted)
<1>1. /\ p.snap = wd.snap /\ p.old = wd.returned
      /\ wd' = [wd EXCEPT !.returned = p.tx.nr, !.processed = p.tx.to,
                          !.sent = Append(@, Sha(data))]
      /\ posted' = Append(posted, m)
      /\ UNCHANGED <<clock, proofs, replayed>>
  BY DEF ProcessWithdrawal, MatchesPublicInputs
<1>2. IndexInv /\ ProofsInv /\ PostedInv /\ ReplayInv
  BY DEF PayInv
<1>3. /\ p.tx \in Txs /\ p.tx.nr = wd.returned + 1
      /\ p.tx.from = wd.processed
      /\ p.tx.from <= p.tx.to /\ p.tx.to <= wd.snap.next
  BY <1>1, <1>2 DEF ProofsInv
<1>4. p.tx.nr \in Nat /\ p.tx.from \in Nat /\ p.tx.to \in Nat
  BY <1>3 DEF Txs
<1>5. data \in Datas /\ data.tx = p.tx /\ Sha(data) \in Datas
  BY <1>3, FormsType
<1>6. m \in Messages /\ m.data = data /\ m.nonce = p.tx.to /\ m.at = clock
  BY <1>2, <1>4, <1>5 DEF Message, Messages, PostedInv
<1> HIDE DEF m
<1>7. /\ wd' = [x \in WdFields |-> wd'[x]]
      /\ wd'.requested = wd.requested /\ wd'.snap = wd.snap
      /\ wd'.processed = p.tx.to /\ wd'.returned = p.tx.nr
      /\ wd'.sent = Append(wd.sent, Sha(data))
      /\ wd'.lastProcessed = wd.lastProcessed
  BY <1>1, <1>2, Zenon DEF IndexInv, WdFields
<1>8. IndexInv'
  BY <1>2, <1>3, <1>4, <1>7 DEF IndexInv
<1>9. ProofsInv'
  <2> SUFFICES ASSUME NEW r \in proofs
               PROVE  /\ r.old \in Nat /\ r.old <= p.tx.nr
                      /\ r.tx \in Txs /\ r.tx.nr = r.old + 1
                      /\ r.tx.from <= r.tx.to /\ r.tx.to <= r.snap.next
                      /\ r.old # p.tx.nr
    BY <1>1, <1>7 DEF ProofsInv
  <2>1. r.old \in Nat /\ r.old <= wd.returned
    BY <1>2 DEF ProofsInv
  <2>2. r.old <= p.tx.nr /\ r.old # p.tx.nr
    BY <1>2, <1>3, <2>1 DEF IndexInv
  <2> QED
    BY <1>2, <2>2 DEF ProofsInv
<1>10. /\ n \in Nat
       /\ posted' \in Seq(Messages) /\ Len(posted') = n + 1 /\ posted'[n + 1] = m
       /\ posted' # <<>>
       /\ \A i \in 1..n : posted'[i] = posted[i] /\ posted[i] \in Messages
  BY <1>1, <1>2, <1>6 DEF PostedInv
<1>11. /\ wd'.sent \in Seq(Datas) /\ Len(wd'.sent) = n + 1
       /\ wd'.sent[n + 1] = Sha(data)
       /\ \A i \in 1..n : wd'.sent[i] = wd.sent[i]
  BY <1>2, <1>5, <1>7 DEF PostedInv
<1>12. \A i \in 1..(n + 1) : i \in 1..n \/ i = n + 1
  BY <1>10
<1>13. PostedInv'
  <2>1. ASSUME NEW i \in 1..n
        PROVE  /\ posted'[i].data.tx.from = IF i = 1 THEN 0 ELSE posted'[i - 1].data.tx.to
               /\ posted'[i].nonce <= p.tx.to
               /\ posted'[i].at <= clock
               /\ wd'.sent[i] = Sha(posted'[i].data)
    <3>1. posted'[i] = posted[i] /\ posted[i].nonce \in Nat
      BY <1>10 DEF Messages
    <3>2. i # 1 => i - 1 \in 1..n
      BY <1>10
    <3>3. posted[i].nonce <= p.tx.to
      BY <1>2, <1>3, <1>4, <3>1 DEF PostedInv
    <3>4. wd'.sent[i] = Sha(posted'[i].data)
      BY <1>2, <1>11, <3>1 DEF PostedInv
    <3>5. posted[i].data.tx.from = IF i = 1 THEN 0 ELSE posted[i - 1].data.tx.to
      BY <1>2 DEF PostedInv
    <3>6. posted[i].at <= clock
      BY <1>2 DEF PostedInv
    <3> QED
      BY <1>10, <3>1, <3>2, <3>3, <3>4, <3>5, <3>6
  <2>2. posted'[n + 1].data.tx.from
          = IF n + 1 = 1 THEN 0 ELSE posted'[n + 1 - 1].data.tx.to
    <3>1. CASE n = 0
      <4>1. posted = <<>>
        BY <1>2, <3>1 DEF PostedInv
      <4> QED
        BY <1>2, <1>3, <1>5, <1>6, <1>10, <3>1, <4>1 DEF PostedInv
    <3>2. CASE n # 0
      <4>1. posted # <<>> /\ n \in 1..n /\ n + 1 - 1 = n /\ n + 1 # 1
        BY <1>10, <3>2
      <4>2. wd.processed = posted[n].data.tx.to
        BY <1>2, <4>1 DEF PostedInv
      <4> QED
        BY <1>3, <1>5, <1>6, <1>10, <4>1, <4>2
    <3> QED
      BY <3>1, <3>2
  <2>3. posted'[n + 1].nonce <= p.tx.to /\ posted'[n + 1].at <= clock
    BY <1>2, <1>4, <1>6, <1>10 DEF PostedInv
  <2>4. wd'.sent[n + 1] = Sha(posted'[n + 1].data)
    BY <1>6, <1>10, <1>11
  <2>5. wd'.processed = posted'[Len(posted')].data.tx.to
    BY <1>5, <1>6, <1>7, <1>10
  <2>6. \A i \in 1..Len(posted') :
          /\ posted'[i].data.tx.from = IF i = 1 THEN 0 ELSE posted'[i - 1].data.tx.to
          /\ posted'[i].nonce <= wd'.processed
          /\ posted'[i].at <= clock'
          /\ wd'.sent[i] = Sha(posted'[i].data)
    <3> SUFFICES ASSUME NEW i \in 1..(n + 1)
                 PROVE  /\ posted'[i].data.tx.from
                             = IF i = 1 THEN 0 ELSE posted'[i - 1].data.tx.to
                        /\ posted'[i].nonce <= p.tx.to
                        /\ posted'[i].at <= clock
                        /\ wd'.sent[i] = Sha(posted'[i].data)
      BY <1>1, <1>7, <1>10, ZenonT(60)
    <3>1. CASE i \in 1..n
      BY <2>1, <3>1
    <3>2. CASE i = n + 1
      BY <2>2, <2>3, <2>4, <3>2
    <3> QED
      BY <1>12, <3>1, <3>2
  <2> QED
    BY <1>1, <1>2, <1>10, <1>11, <2>5, <2>6, ZenonT(60) DEF PostedInv, Sha
<1>14. ReplayInv'
  <2>1. \A i \in 1..Len(replayed) : WasPosted(replayed[i]) => WasPosted(replayed[i])'
    BY <1>1, <1>10 DEF WasPosted
  <2> QED
    BY <1>1, <1>2, <1>7, <2>1 DEF ReplayInv
<1> QED
  BY <1>8, <1>9, <1>13, <1>14 DEF PayInv

(* What is replayed is a leaf of the sent tree, and its hash gives it      *)
(* away; the time of the replay becomes the one the next has to wait for.  *)
LEMMA ReplayPreserves ==
  ASSUME PayInv, NEW p \in proofs, ReplayWithdrawal(Preimage(p.tx))
  PROVE  PayInv'
<1> DEFINE data == Preimage(p.tx)
           m == Message(data, wd.processed)
           n == Len(replayed)
<1>1. /\ CanReplay(Sha(Sha(data)))
      /\ wd' = [wd EXCEPT !.lastProcessed = clock]
      /\ replayed' = Append(replayed, m)
      /\ UNCHANGED <<clock, proofs, posted>>
  BY DEF ReplayWithdrawal
<1>2. IndexInv /\ ProofsInv /\ PostedInv /\ ReplayInv
  BY DEF PayInv
<1>3. p.tx \in Txs
  BY <1>2 DEF ProofsInv
<1>4. data \in Datas /\ data.tx = p.tx
  BY <1>3 DEF Preimage, Datas
<1>5. /\ wd' = [x \in WdFields |-> wd'[x]]
      /\ wd'.requested = wd.requested /\ wd'.snap = wd.snap
      /\ wd'.processed = wd.processed /\ wd'.returned = wd.returned
      /\ wd'.sent = wd.sent /\ wd'.lastProcessed = clock
  BY <1>1, <1>2, SMTT(60) DEF IndexInv, WdFields
<1>6. PICK j \in DOMAIN wd.sent : wd.sent[j] = Sha(Sha(data))
  BY <1>1 DEF CanReplay
<1>7. wd.lastProcessed + ReplayWait <= clock
  BY <1>1 DEF CanReplay
<1> HIDE DEF data
<1>8. j \in 1..Len(posted) /\ posted[j] \in Messages
  BY <1>2, <1>6 DEF PostedInv
<1>9. posted[j].data.tx = p.tx
  <2>1. posted[j].data \in Datas
    BY <1>8 DEF Messages
  <2>2. wd.sent[j] = Sha(posted[j].data)
    BY <1>2, <1>8 DEF PostedInv
  <2>3. Sha(Sha(data)).tx = p.tx
    BY <1>4, ShaKeeps
  <2> QED
    BY <1>6, <2>1, <2>2, <2>3, ShaKeeps
<1>10. m \in Messages /\ m.data = data /\ m.nonce = wd.processed /\ m.at = clock
  BY <1>2, <1>4 DEF Message, Messages, PostedInv, IndexInv
<1> HIDE DEF m
<1>11. posted[j].nonce <= m.nonce /\ posted[j].at <= m.at
  BY <1>2, <1>8, <1>10 DEF PostedInv
<1>12. WasPosted(m)
  BY <1>4, <1>8, <1>9, <1>10, <1>11 DEF WasPosted
<1>13. IndexInv'
  BY <1>2, <1>5 DEF IndexInv
<1>14. ProofsInv'
  BY <1>1, <1>2, <1>5 DEF ProofsInv
<1>15. PostedInv'
  BY <1>1, <1>2, <1>5 DEF PostedInv, Sha
<1>16. /\ n \in Nat
       /\ replayed' \in Seq(Messages) /\ Len(replayed') = n + 1 /\ replayed'[n + 1] = m
       /\ \A i \in 1..n : replayed'[i] = replayed[i] /\ replayed[i] \in Messages
  BY <1>1, <1>2, <1>10 DEF ReplayInv
<1>17. \A i \in 1..(n + 1) : i \in 1..n \/ i = n + 1
  BY <1>16
<1>18. ASSUME NEW i \in 1..n
       PROVE  /\ replayed'[i].at <= clock /\ WasPosted(replayed'[i])
              /\ replayed'[i].at + ReplayWait <= clock
  <2>1. replayed'[i] = replayed[i] /\ replayed[i].at \in Nat
    BY <1>16 DEF Messages
  <2>2. replayed[i].at <= wd.lastProcessed /\ WasPosted(replayed[i])
        /\ wd.lastProcessed \in Nat /\ clock \in Nat /\ ReplayWait \in Nat
    BY <1>2, WithdrawalsAssumption DEF ReplayInv, PostedInv
  <2> QED
    BY <1>7, <2>1, <2>2
<1>19. ASSUME NEW i \in 1..(n + 1)
       PROVE  replayed'[i].at <= clock /\ WasPosted(replayed'[i])
  BY <1>2, <1>10, <1>12, <1>16, <1>17, <1>18 DEF PostedInv
<1>20. ASSUME NEW i \in 1..(n + 1), NEW k \in 1..(n + 1), i < k
       PROVE  replayed'[i].at + ReplayWait <= replayed'[k].at
  <2>1. i \in 1..n
    BY <1>16, <1>20
  <2>2. CASE k \in 1..n
    BY <1>2, <1>16, <1>20, <2>1, <2>2 DEF ReplayInv
  <2>3. CASE k = n + 1
    BY <1>10, <1>16, <1>18, <2>1, <2>3
  <2> QED
    BY <1>17, <2>2, <2>3
<1>21. \A i \in 1..(n + 1) : WasPosted(replayed'[i]) => WasPosted(replayed[i])'
  BY <1>1 DEF WasPosted
<1>22. ReplayInv'
  BY <1>1, <1>2, <1>5, <1>16, <1>19, <1>20, <1>21, ZenonT(60) DEF ReplayInv, PostedInv
<1> QED
  BY <1>13, <1>14, <1>15, <1>22 DEF PayInv

(* Every step preserves what is known of the payments. *)
LEMMA PayStep ==
  ASSUME PayInv, [Next]_vars
  PROVE  PayInv'
<1>1. ASSUME UNCHANGED withdrawalVars
      PROVE  PayInv'
  BY <1>1, Zenon DEF withdrawalVars, PayInv, IndexInv, ProofsInv, PostedInv, ReplayInv,
              WasPosted, Sha
<1>2. CASE UNCHANGED vars
  BY <1>1, <1>2 DEF vars, withdrawalVars
<1>3. CASE Claims
  BY <1>1, <1>3 DEF Claims, Claim
<1>4. CASE Movements
  <2>1. CASE \E h \in Heights : FinalizeBlocks(h)
    BY <1>1, <2>1 DEF FinalizeBlocks
  <2>2. CASE \E o \in Outputs : AutoMint(o)
    BY <1>1, <2>2 DEF AutoMint
  <2>3. CASE \E amount \in Amounts : Withdraw(amount)
    BY <2>3, RequestPreserves DEF Withdraw
  <2>4. CASE Snapshot
    BY <2>4, SnapshotPreserves DEF Snapshot
  <2>5. CASE ProveWithdrawal
    BY <2>5, ProvePreserves DEF ProveWithdrawal
  <2>6. CASE PayWithdrawals
    BY <2>6, PayPreserves DEF PayWithdrawals
  <2>7. CASE Replay
    BY <2>7, ReplayPreserves DEF Replay
  <2>8. CASE WithdrawFees
    BY <2>8, FeesPreserve DEF WithdrawFees
  <2>9. CASE Tick /\ UNCHANGED fundVars
    BY <2>9, TickPreserves
  <2> QED
    BY <1>4, <2>1, <2>2, <2>3, <2>4, <2>5, <2>6, <2>7, <2>8, <2>9 DEF Movements
<1> QED
  BY <1>2, <1>3, <1>4 DEF Next

(* The invariant rules out that requests are paid out of order, or         *)
(* replayed too soon.                                                      *)
LEMMA PayInvImplies ==
  ASSUME PayInv
  PROVE  RequestsPaidInOrder /\ ReplaysAreSpaced
<1>1. DOMAIN posted = 1..Len(posted) /\ DOMAIN replayed = 1..Len(replayed)
  BY DEF PayInv, PostedInv, ReplayInv
<1>2. RequestsPaidInOrder
  BY <1>1, ZenonT(60) DEF PayInv, IndexInv, PostedInv, RequestsPaidInOrder
<1>3. ReplaysAreSpaced
  BY <1>1 DEF PayInv, ReplayInv, WasPosted, ReplaysAreSpaced
<1> QED
  BY <1>2, <1>3

(* Every request is paid at most once and in order, and nothing is paid    *)
(* that was not in a snapshot, whatever proofs are in flight when requests *)
(* arrive, snapshots are replaced and other proofs are processed.          *)
THEOREM PaidInOrder ==
  Spec => []RequestsPaidInOrder
<1>1. Init => PayInv
  BY PayStart
<1>2. PayInv /\ [Next]_vars => PayInv'
  BY PayStep
<1>3. PayInv => RequestsPaidInOrder
  BY PayInvImplies
<1> QED
  BY <1>1, <1>2, <1>3, PTL DEF Spec

(* Replays are at least the waiting time apart, and each repeats a         *)
(* transaction that was posted before, for requests recorded as processed. *)
THEOREM ReplaysSpaced ==
  Spec => []ReplaysAreSpaced
<1>1. Init => PayInv
  BY PayStart
<1>2. PayInv /\ [Next]_vars => PayInv'
  BY PayStep
<1>3. PayInv => ReplaysAreSpaced
  BY PayInvImplies
<1> QED
  BY <1>1, <1>2, <1>3, PTL DEF Spec

-----------------------------------------------------------------------------
(* The totals of Solvent as sums of functions. *)
FeeTable  == [o \in Outputs |-> DepositFeeOf(o).fees]
NetTable  == [o \in Outputs |-> DepositFeeOf(o).after]

(* Solvent's equation: of the deposits A that are finalized automatically, *)
(* C that are claimed and M that are minted, the requests q of which p are *)
(* paid, the supply s and the fees f that are not withdrawn.               *)
Balanced(A, C, M, q, p, s, f) ==
  SumOver(AmountOf, A \cup C) - SumOver(q, 1..p)
    = s + SumOver(q, (p + 1)..Len(q)) + f + SumOver(NetTable, A \ M)

(* Together with HeaderInv, ClaimsInv and PayInv, what makes Solvent       *)
(* inductive: nothing is minted automatically that is not due.             *)
FundsInv ==
  /\ supply \in Int /\ manual.fees \in Nat
  /\ wd.fees \in Nat /\ wd.feesWithdrawn \in Nat
  /\ autoMinted \subseteq AutoRoot(header.height)
  /\ Solvent

(* A fee is a natural number, and an accepted one is deducted from the     *)
(* amount.                                                                 *)
LEMMA DeductedFee ==
  ASSUME NEW amount \in Nat, NEW flat \in Nat, NEW num \in Nat, NEW den \in Nat,
         NEW f, f = CalculateDepositFee(amount, flat, num, den)
                \/ f = CalculateWithdrawalFee(amount, flat, num, den)
  PROVE  /\ f.fees \in Nat /\ f.after \in Nat
         /\ FeeAccepted(f) => f.fees + f.after = amount
<1> DEFINE x == (amount * num) \div den + flat
<1>1. CASE den = 0
  <2>1. f = NoFee
    BY <1>1 DEF CalculateDepositFee, CalculateWithdrawalFee
  <2> QED BY <2>1 DEF NoFee, FeeAccepted
<1>2. CASE den # 0
  <2>1. amount * num \in Nat /\ den > 0
    BY <1>2
  <2>2. x \in Nat
    BY <2>1, Quotient
  <2>3. f = Deducted(amount, x % Word)
    BY <1>2 DEF CalculateDepositFee, CalculateWithdrawalFee
  <2> HIDE DEF x
  <2>4. x % Word \in Nat
    BY <2>2, FeesAssumption
  <2> QED BY <2>3, <2>4 DEF Deducted, NoFee, FeeAccepted
<1> QED BY <1>1, <1>2

(* The fee of a deposit. *)
LEMMA DepositFeeFacts ==
  ASSUME NEW o \in Outputs
  PROVE  /\ AmountOf[o] \in Nat
         /\ DepositFeeOf(o).fees \in Nat /\ DepositFeeOf(o).after \in Nat
         /\ FeeAccepted(DepositFeeOf(o)) =>
              DepositFeeOf(o).fees + DepositFeeOf(o).after = AmountOf[o]
         /\ FeeTable[o] = DepositFeeOf(o).fees /\ NetTable[o] = DepositFeeOf(o).after
<1>1. AmountOf[o] \in Nat /\ DepositFee.flat \in Nat /\ DepositFee.num \in Nat
      /\ DepositFee.den \in Nat
  BY ManualClaimsAssumption
<1> DEFINE a == AmountOf[o]  flat == DepositFee.flat
           num == DepositFee.num  den == DepositFee.den  f == DepositFeeOf(o)
<1>2. f = CalculateDepositFee(a, flat, num, den)
  BY DEF DepositFeeOf
<1>3. FeeTable[o] = f.fees /\ NetTable[o] = f.after
  BY DEF FeeTable, NetTable
<1>4. a \in Nat /\ flat \in Nat /\ num \in Nat /\ den \in Nat
  BY <1>1
<1> HIDE DEF a, flat, num, den, f
<1>5. f.fees \in Nat /\ f.after \in Nat /\ (FeeAccepted(f) => f.fees + f.after = a)
  BY <1>2, <1>4, DeductedFee
<1> QED BY <1>3, <1>4, <1>5 DEF a, f

(* The fee of a request. *)
LEMMA RequestFeeFacts ==
  ASSUME NEW amount \in Amounts
  PROVE  /\ amount \in Nat
         /\ RequestFee(amount).fees \in Nat /\ RequestFee(amount).after \in Nat
         /\ FeeAccepted(RequestFee(amount)) =>
              RequestFee(amount).fees + RequestFee(amount).after = amount
<1>1. amount \in Nat /\ WithdrawalFee.flat \in Nat /\ WithdrawalFee.num \in Nat
      /\ WithdrawalFee.den \in Nat
  BY WithdrawalsAssumption
<1> QED BY <1>1, DeductedFee DEF RequestFee

(* The totals are sums. *)
LEMMA GrossIsSum ==
  ASSUME NEW outs
  PROVE  GrossOf(outs) = SumOver(AmountOf, outs)
  BY DEF GrossOf, SumOver

(* The amounts of some requests, as a sum over their indices. *)
LEMMA RequestedIsSum ==
  ASSUME NEW ids
  PROVE  RequestedIn(ids) = SumOver(wd.requested, ids)
  BY DEF RequestedIn, SumOver

(* What some outputs pay after fees, as a sum over them. *)
LEMMA NetIsSum ==
  ASSUME NEW outs \in SUBSET Outputs
  PROVE  NetOf(outs) = SumOver(NetTable, outs)
<1> DEFINE A(s, it) == IF s = {} THEN 0
                       ELSE DepositFeeOf(CHOOSE x \in s : TRUE).after + it[s \ {CHOOSE x \in s : TRUE}]
           B(s, it) == IF s = {} THEN 0
                       ELSE NetTable[CHOOSE x \in s : TRUE] + it[s \ {CHOOSE x \in s : TRUE}]
           ItA == CHOOSE it : it = [s \in SUBSET outs |-> A(s, it)]
           ItB == CHOOSE it : it = [s \in SUBSET outs |-> B(s, it)]
<1>1. \A s \in SUBSET outs : \A it : A(s, it) = B(s, it)
  BY DEF NetTable
<1>2. NetOf(outs) = ItA[outs]
  BY Zenon DEF NetOf, MapThenSumSet, MapThenFoldSet
<1>3. SumOver(NetTable, outs) = ItB[outs]
  BY Zenon DEF SumOver, MapThenSumSet, MapThenFoldSet
<1> HIDE DEF A, B
<1>4. \A it : [s \in SUBSET outs |-> A(s, it)] = [s \in SUBSET outs |-> B(s, it)]
  BY <1>1
<1>5. ItA = ItB
  BY <1>4, Zenon
<1> QED BY <1>2, <1>3, <1>5, Zenon

(* The fees in a header are those of the outputs that are minted           *)
(* automatically.                                                          *)
LEMMA HeaderFeesAreSum ==
  ASSUME NEW h \in 0..Len(Deposits)
  PROVE  HeaderFees[h] = SumOver(FeeTable, AutoRoot(h))
<1>1. AutoRoot(h) \in SUBSET Outputs
  BY ManualClaimsAssumption DEF AutoRoot
<1> DEFINE R == AutoRoot(h)
           A(s, it) == IF s = {} THEN 0
                       ELSE DepositFeeOf(CHOOSE x \in s : TRUE).fees + it[s \ {CHOOSE x \in s : TRUE}]
           B(s, it) == IF s = {} THEN 0
                       ELSE FeeTable[CHOOSE x \in s : TRUE] + it[s \ {CHOOSE x \in s : TRUE}]
           ItA == CHOOSE it : it = [s \in SUBSET R |-> A(s, it)]
           ItB == CHOOSE it : it = [s \in SUBSET R |-> B(s, it)]
<1>2. \A s \in SUBSET R : \A it : A(s, it) = B(s, it)
  BY <1>1 DEF FeeTable
<1>3. HeaderFees[h] = MapThenSumSet(LAMBDA o : DepositFeeOf(o).fees, R)
  BY BridgeFundsAssumption, Zenon
<1>4. MapThenSumSet(LAMBDA o : DepositFeeOf(o).fees, R) = ItA[R]
  BY Zenon DEF MapThenSumSet, MapThenFoldSet
<1>5. SumOver(FeeTable, R) = ItB[R]
  BY Zenon DEF SumOver, MapThenSumSet, MapThenFoldSet
<1> HIDE DEF A, B
<1>6. \A it : [s \in SUBSET R |-> A(s, it)] = [s \in SUBSET R |-> B(s, it)]
  BY <1>2
<1>7. ItA = ItB
  BY <1>6, Zenon
<1> QED BY <1>3, <1>4, <1>5, <1>7, Zenon

(* Every subset of the deposits is finite, and so are its totals numbers. *)
LEMMA OutputTotals ==
  ASSUME NEW S \in SUBSET Outputs
  PROVE  /\ IsFiniteSet(S)
         /\ SumOver(AmountOf, S) \in Nat
         /\ SumOver(FeeTable, S) \in Nat
         /\ SumOver(NetTable, S) \in Nat
<1>1. IsFiniteSet(S)
  BY ManualClaimsAssumption, FS_Subset
<1>2. \A o \in S : AmountOf[o] \in Nat /\ FeeTable[o] \in Nat /\ NetTable[o] \in Nat
  BY DepositFeeFacts
<1>3. Nat \in {Nat, Int}
  OBVIOUS
<1> QED BY <1>1, <1>2, <1>3, SumType

(* The totals of the paid and of the waiting requests are numbers, and     *)
(* paying moves requests from the second to the first.                     *)
LEMMA RequestTotals ==
  ASSUME NEW q \in Seq(Int), NEW p \in 0..Len(q)
  PROVE  /\ SumOver(q, 1..p) \in Int
         /\ SumOver(q, (p + 1)..Len(q)) \in Int
         /\ SumOver(q, 1..Len(q)) = SumOver(q, 1..p) + SumOver(q, (p + 1)..Len(q))
<1> DEFINE S == 1..p  T == (p + 1)..Len(q)
<1>1. Len(q) \in Nat /\ p \in Nat
  OBVIOUS
<1>2. IsFiniteSet(S) /\ IsFiniteSet(T)
  BY <1>1, FS_Interval
<1>3. S \cap T = {} /\ S \cup T = 1..Len(q)
  BY <1>1
<1>4. \A i \in S \cup T : q[i] \in Int
  BY <1>3
<1>5. Int \in {Nat, Int}
  OBVIOUS
<1> HIDE DEF S, T
<1>6. SumOver(q, S) \in Int /\ SumOver(q, T) \in Int
  BY <1>2, <1>4, <1>5, SumType
<1>7. SumOver(q, S \cup T) = SumOver(q, S) + SumOver(q, T)
  BY <1>2, <1>3, <1>4, SumUnion
<1> QED BY <1>3, <1>6, <1>7, Zenon DEF S, T

(* Finalizing blocks takes in deposits that are still to be minted, and    *)
(* their fees.                                                             *)
LEMMA BalancedFinalize ==
  ASSUME NEW A \in SUBSET Outputs, NEW A2 \in SUBSET Outputs, A \subseteq A2,
         NEW C \in SUBSET Outputs, A2 \cap C = {}, NEW M, A \subseteq M, M \subseteq A,
         \A o \in A2 : AmountOf[o] = FeeTable[o] + NetTable[o],
         NEW q \in Seq(Int), NEW p \in 0..Len(q), NEW s \in Int, NEW f \in Int,
         Balanced(A, C, M, q, p, s, f)
  PROVE  Balanced(A2, C, M, q, p, s, f + SumOver(FeeTable, A2 \ A))
<1> DEFINE D == A2 \ A
           x == SumOver(q, 1..p)  y == SumOver(q, (p + 1)..Len(q))
           g == SumOver(AmountOf, A \cup C)  gD == SumOver(AmountOf, D)
           fD == SumOver(FeeTable, D)  nD == SumOver(NetTable, D)
           g2 == SumOver(AmountOf, A2 \cup C)  n2 == SumOver(NetTable, A2 \ M)
<1>1. x \in Int /\ y \in Int
  BY RequestTotals
<1>2. D \in SUBSET Outputs /\ A \cup C \in SUBSET Outputs
  OBVIOUS
<1> HIDE DEF D
<1>3. /\ IsFiniteSet(D) /\ IsFiniteSet(A \cup C)
      /\ g \in Int /\ gD \in Int /\ fD \in Int /\ nD \in Int
  BY <1>2, OutputTotals
<1>4. A2 \cup C = (A \cup C) \cup D /\ (A \cup C) \cap D = {} /\ A2 \ M = D /\ A \ M = {}
  BY DEF D
<1>5. \A o \in (A \cup C) \cup D : AmountOf[o] \in Int
  BY <1>2, DepositFeeFacts
<1>6. g2 = g + gD
  BY <1>3, <1>4, <1>5, SumUnion
<1>7. \A o \in D : FeeTable[o] \in Int /\ NetTable[o] \in Int
                   /\ AmountOf[o] = FeeTable[o] + NetTable[o]
  BY <1>2, DepositFeeFacts DEF D
<1>8. gD = fD + nD
  BY <1>3, <1>7, SumPlus
<1>9. n2 = nD /\ SumOver(NetTable, A \ M) = 0
  BY <1>4, SumEmpty, Zenon
<1> HIDE DEF x, y, g, gD, fD, nD, g2, n2
<1>10. g - x = s + y + f + 0
  BY <1>9 DEF Balanced, g, x, y
<1>11. g + gD - x = s + y + (f + fD) + nD
  BY <1>1, <1>3, <1>8, <1>10
<1>12. g2 - x = s + y + (f + fD) + n2
  BY <1>1, <1>3, <1>6, <1>9, <1>11
<1> QED BY <1>12, ZenonT(60) DEF Balanced, x, y, fD, D, g2, n2

(* A mint turns what is to be minted into supply. *)
LEMMA BalancedMint ==
  ASSUME NEW A \in SUBSET Outputs, NEW C, NEW M, NEW o \in A \ M,
         NEW q \in Seq(Int), NEW p \in 0..Len(q), NEW s \in Int, NEW f \in Int,
         SumOver(AmountOf, A \cup C) \in Int,
         Balanced(A, C, M, q, p, s, f)
  PROVE  Balanced(A, C, M \cup {o}, q, p, s + NetTable[o], f)
<1> DEFINE x == SumOver(q, 1..p)  y == SumOver(q, (p + 1)..Len(q))
           S == A \ M  n == SumOver(NetTable, S)  n1 == SumOver(NetTable, S \ {o})
           e == NetTable[o]  g == SumOver(AmountOf, A \cup C)
<1>1. x \in Int /\ y \in Int
  BY RequestTotals
<1>2. S \in SUBSET Outputs /\ S \ {o} \in SUBSET Outputs /\ o \in S /\ A \ (M \cup {o}) = S \ {o}
  OBVIOUS
<1> HIDE DEF S
<1>3. n \in Int /\ n1 \in Int /\ IsFiniteSet(S) /\ e \in Int /\ g \in Int
  BY <1>2, OutputTotals, DepositFeeFacts
<1>4. \A d \in S : NetTable[d] \in Int
  BY <1>2, DepositFeeFacts
<1>5. n = e + n1
  BY <1>2, <1>3, <1>4, SumRemove
<1> HIDE DEF x, y, n, n1, g, e
<1>6. g - x = s + y + f + n
  BY DEF Balanced, g, x, y, n, S
<1>7. g - x = (s + e) + y + f + n1
  BY <1>1, <1>3, <1>5, <1>6
<1> QED BY <1>2, <1>7, Zenon DEF Balanced, g, x, y, n1, e

(* A claim takes in a deposit, mints it and keeps its fee. *)
LEMMA BalancedClaim ==
  ASSUME NEW A \in SUBSET Outputs, NEW C \in SUBSET Outputs, NEW M,
         NEW o \in Outputs \ (A \cup C), AmountOf[o] = FeeTable[o] + NetTable[o],
         NEW q \in Seq(Int), NEW p \in 0..Len(q), NEW s \in Int, NEW f \in Int,
         Balanced(A, C, M, q, p, s, f)
  PROVE  Balanced(A, C \cup {o}, M, q, p, s + NetTable[o], f + FeeTable[o])
<1> DEFINE x == SumOver(q, 1..p)  y == SumOver(q, (p + 1)..Len(q))
           S == A \cup C  n == SumOver(NetTable, A \ M)
           g == SumOver(AmountOf, S)  g1 == SumOver(AmountOf, S \cup {o})
           e == NetTable[o]  k == FeeTable[o]  m == AmountOf[o]
<1>1. x \in Int /\ y \in Int
  BY RequestTotals
<1>2. S \in SUBSET Outputs /\ A \ M \in SUBSET Outputs /\ o \notin S /\ A \cup (C \cup {o}) = S \cup {o}
  OBVIOUS
<1> HIDE DEF S
<1>3. n \in Int /\ g \in Int /\ IsFiniteSet(S)
      /\ e \in Int /\ k \in Int /\ m \in Int /\ m = k + e
  BY <1>2, OutputTotals, DepositFeeFacts
<1>4. \A d \in S \cup {o} : AmountOf[d] \in Int
  BY <1>2, DepositFeeFacts
<1>5. g1 = m + g
  BY <1>2, <1>3, <1>4, SumAdd
<1> HIDE DEF x, y, n, g1, g, e, k, m
<1>6. g - x = s + y + f + n
  BY DEF Balanced, g, x, y, n, S
<1>7. g1 - x = (s + e) + y + (f + k) + n
  BY <1>1, <1>3, <1>5, <1>6, SMTT(60)
<1> QED BY <1>2, <1>7, ZenonT(60) DEF Balanced, g1, x, y, n, e, k

(* A request burns what it is for and its fee. *)
LEMMA BalancedRequest ==
  ASSUME NEW A \in SUBSET Outputs, NEW C \in SUBSET Outputs, NEW M,
         NEW q \in Seq(Int), NEW p \in 0..Len(q), NEW s \in Int, NEW f \in Int,
         NEW e \in Int, NEW k \in Int,
         Balanced(A, C, M, q, p, s, f)
  PROVE  Balanced(A, C, M, Append(q, e), p, s - (k + e), f + k)
<1> DEFINE L == Len(q)  P == 1..p  T == (p + 1)..L  q2 == Append(q, e)
           x == SumOver(q, P)  y == SumOver(q, T)
           x2 == SumOver(q2, P)  y2 == SumOver(q2, T \cup {L + 1})
           g == SumOver(AmountOf, A \cup C)  n == SumOver(NetTable, A \ M)
<1>1. x \in Int /\ y \in Int
  BY RequestTotals
<1>2. g \in Int /\ n \in Int
  <2>1. A \cup C \in SUBSET Outputs /\ A \ M \in SUBSET Outputs
    OBVIOUS
  <2> QED BY <2>1, OutputTotals
<1>3. L \in Nat /\ p \in Nat /\ p <= L
  OBVIOUS
<1>4. /\ q2 \in Seq(Int) /\ Len(q2) = L + 1 /\ q2[L + 1] = e
      /\ \A i \in 1..L : q2[i] = q[i]
  OBVIOUS
<1>5. L + 1 \notin T /\ (p + 1)..(L + 1) = T \cup {L + 1}
      /\ T \subseteq 1..L /\ P \subseteq 1..L
  BY <1>3
<1>6. IsFiniteSet(P) /\ IsFiniteSet(T)
  BY <1>3, FS_Interval
<1>7. \A i \in 1..(L + 1) : q2[i] \in Int
  BY <1>4
<1>8. T \cup {L + 1} \subseteq 1..(L + 1)
  BY <1>3
<1> HIDE DEF L, P, T, q2
<1>9. x2 = x
  BY <1>4, <1>5, <1>6, SumCongruence, Zenon
<1>10. SumOver(q2, T) = y
  BY <1>4, <1>5, <1>6, SumCongruence, ZenonT(60)
<1>11. y2 = e + SumOver(q2, T)
  BY <1>4, <1>5, <1>6, <1>7, <1>8, SumAdd, ZenonT(60)
<1> HIDE DEF x, y, x2, y2, g, n
<1>12. g - x = s + y + f + n
  BY DEF Balanced, g, x, y, n, P, T, L
<1>13. g - x2 = (s - (k + e)) + y2 + (f + k) + n
  BY <1>1, <1>2, <1>9, <1>10, <1>11, <1>12
<1>14. SumOver(q2, (p + 1)..Len(q2)) = y2
  BY <1>4, <1>5, Zenon DEF y2
<1>15. g - x2 = (s - (k + e)) + SumOver(q2, (p + 1)..Len(q2)) + (f + k) + n
  BY <1>13, <1>14
<1> QED BY <1>15, Zenon DEF Balanced, g, x2, n, P, q2

(* Paying leaves the sum of what is paid and what waits. *)
LEMMA BalancedPay ==
  ASSUME NEW A \in SUBSET Outputs, NEW C \in SUBSET Outputs, NEW M,
         NEW q \in Seq(Int), NEW p \in 0..Len(q), NEW p2 \in 0..Len(q),
         NEW s \in Int, NEW f \in Int,
         Balanced(A, C, M, q, p, s, f)
  PROVE  Balanced(A, C, M, q, p2, s, f)
<1> DEFINE x == SumOver(q, 1..p)  y == SumOver(q, (p + 1)..Len(q))
           x2 == SumOver(q, 1..p2)  y2 == SumOver(q, (p2 + 1)..Len(q))
           g == SumOver(AmountOf, A \cup C)  n == SumOver(NetTable, A \ M)
<1>1. x \in Int /\ y \in Int /\ SumOver(q, 1..Len(q)) = x + y
  BY RequestTotals
<1>2. x2 \in Int /\ y2 \in Int /\ SumOver(q, 1..Len(q)) = x2 + y2
  BY RequestTotals
<1>3. g \in Int /\ n \in Int
  <2>1. A \cup C \in SUBSET Outputs /\ A \ M \in SUBSET Outputs
    OBVIOUS
  <2> QED BY <2>1, OutputTotals
<1> HIDE DEF x, y, x2, y2, g, n
<1>4. g - x = s + y + f + n
  BY DEF Balanced, g, x, y, n
<1>5. x + y = x2 + y2
  BY <1>1, <1>2
<1>6. g - x2 = s + y2 + f + n
  BY <1>1, <1>2, <1>3, <1>4, <1>5
<1> QED BY <1>6, Zenon DEF Balanced, g, x2, y2, n

(* Withdrawn fees become supply. *)
LEMMA BalancedFees ==
  ASSUME NEW A \in SUBSET Outputs, NEW C \in SUBSET Outputs, NEW M,
         NEW q \in Seq(Int), NEW p \in 0..Len(q), NEW s \in Int, NEW f \in Int,
         Balanced(A, C, M, q, p, s, f)
  PROVE  Balanced(A, C, M, q, p, s + f, 0)
<1> DEFINE x == SumOver(q, 1..p)  y == SumOver(q, (p + 1)..Len(q))
           g == SumOver(AmountOf, A \cup C)  n == SumOver(NetTable, A \ M)
<1>1. x \in Int /\ y \in Int
  BY RequestTotals
<1>2. g \in Int /\ n \in Int
  <2>1. A \cup C \in SUBSET Outputs /\ A \ M \in SUBSET Outputs
    OBVIOUS
  <2> QED BY <2>1, OutputTotals
<1> HIDE DEF x, y, g, n
<1>3. g - x = s + y + f + n
  BY DEF Balanced, g, x, y, n
<1>4. g - x = (s + f) + y + 0 + n
  BY <1>1, <1>2, <1>3
<1> QED BY <1>4, Zenon DEF Balanced, g, x, y, n

(* Solvent, in terms of sums. *)
Outstanding == TotalFinalizedFees(manual.fees) - wd.feesWithdrawn

SolventInSums ==
  /\ Balanced(AutoRoot(header.height), Claimed, autoMinted, wd.requested,
              wd.processed, supply, Outstanding)
  /\ wd.feesWithdrawn <= TotalFinalizedFees(manual.fees)

(* Solvency, with every total a sum over a finite set. *)
LEMMA SolventSums == Solvent <=> SolventInSums
<1> DEFINE A == AutoRoot(header.height)
<1>1. A \ autoMinted \in SUBSET Outputs
  BY ManualClaimsAssumption DEF AutoRoot
<1> HIDE DEF A
<1>2. NetOf(A \ autoMinted) = SumOver(NetTable, A \ autoMinted)
  BY <1>1, NetIsSum
<1>3. GrossOf(A \cup Claimed) = SumOver(AmountOf, A \cup Claimed)
  BY GrossIsSum
<1>4. /\ RequestedIn(1..wd.processed) = SumOver(wd.requested, 1..wd.processed)
      /\ RequestedIn((wd.processed + 1)..Len(wd.requested))
           = SumOver(wd.requested, (wd.processed + 1)..Len(wd.requested))
  BY RequestedIsSum
<1> QED
  BY <1>2, <1>3, <1>4, Zenon DEF Solvent, SolventInSums, Balanced, Outstanding, A

(* The same in the next state. *)
LEMMA SolventSumsNext == Solvent' <=> SolventInSums'
  BY SolventSums, PTL

(* What the sums of Solvent are taken over. *)
LEMMA FundFacts ==
  ASSUME HeaderInv, ClaimsInv, IndexInv, FundsInv
  PROVE  /\ AutoRoot(header.height) \in SUBSET Outputs
         /\ Claimed \in SUBSET Outputs
         /\ AutoRoot(header.height) \cap Claimed = {}
         /\ wd.requested \in Seq(Int)
         /\ wd.processed \in 0..Len(wd.requested)
         /\ HeaderFees[header.height] \in Nat
         /\ TotalFinalizedFees(manual.fees) \in Nat
         /\ Outstanding \in Int
         /\ SolventInSums
<1>1. AutoRoot(header.height) \in SUBSET AutoClaimed /\ AutoClaimed \subseteq Outputs
  BY ManualClaimsAssumption DEF AutoRoot
<1>2. Claimed \in SUBSET Outputs /\ Claimed \cap AutoClaimed = {}
  BY DEF Claimed, ClaimsInv
<1>3. wd.requested \in Seq(Int) /\ wd.processed \in 0..Len(wd.requested)
  BY DEF IndexInv
<1>4. HeaderFees[header.height] \in Nat
  BY WithdrawalsAssumption DEF HeaderInv
<1>5. TotalFinalizedFees(manual.fees) \in Nat
  BY <1>4 DEF FundsInv, TotalFinalizedFees
<1>6. Outstanding \in Int
  BY <1>5 DEF FundsInv, Outstanding
<1>7. SolventInSums
  BY SolventSums DEF FundsInv
<1> QED BY <1>1, <1>2, <1>3, <1>4, <1>5, <1>6, <1>7

(* FundsInv, from its parts after a step. *)
LEMMA FundsFromSums ==
  ASSUME (supply \in Int /\ manual.fees \in Nat /\ wd.fees \in Nat
          /\ wd.feesWithdrawn \in Nat /\ autoMinted \subseteq AutoRoot(header.height)
          /\ SolventInSums)'
  PROVE  FundsInv'
  BY SolventSumsNext DEF FundsInv

(* A finalized block raises what is held by what it owes and its fees. *)
LEMMA FundsFinalize ==
  ASSUME HeaderInv, ClaimsInv, IndexInv, FundsInv, NEW h \in Heights, FinalizeBlocks(h),
         HeaderInv', ClaimsInv'
  PROVE  FundsInv'
<1> DEFINE A == AutoRoot(header.height)  A2 == AutoRoot(h)
           D == A2 \ A  f == SumOver(FeeTable, D)  C == Claimed
<1>1. /\ header'.height = h /\ header.height < h
      /\ UNCHANGED <<wd, manual, autoMinted, supply>>
      /\ A \subseteq autoMinted
  <2>1. h \in Int /\ header.height \in Int
    BY HeightsFacts DEF Heights, HeaderInv
  <2> QED BY <2>1 DEF FinalizeBlocks, SingleBlock, ReorgBlocks, ProvenHeader,
                  withdrawalVars, manualVars
<1>2. A2 \in SUBSET Outputs /\ A \subseteq A2
  <2>1. \A o \in Outputs : BlockOf[o] \in Int /\ header.height \in Int /\ h \in Int
    BY HeightsFacts DEF Heights, HeaderInv
  <2> QED BY <1>1, <2>1, ManualClaimsAssumption DEF AutoRoot
<1>3. A2 \cap C = {}
  <2>1. A2 \subseteq AutoClaimed
    BY DEF AutoRoot
  <2>2. C \cap AutoClaimed = {}
    BY DEF Claimed, ClaimsInv
  <2> QED BY <2>1, <2>2
<1>4. \A o \in A2 : AmountOf[o] = FeeTable[o] + NetTable[o]
  <2> SUFFICES ASSUME NEW o \in A2 PROVE AmountOf[o] = FeeTable[o] + NetTable[o]
    OBVIOUS
  <2>1. o \in Outputs /\ o \in AutoClaimed
    BY <1>2 DEF AutoRoot
  <2>2. DepositFeeOf(o).fees + DepositFeeOf(o).after = AmountOf[o]
    BY <2>1, BridgeFundsAssumption
  <2>3. FeeTable[o] = DepositFeeOf(o).fees /\ NetTable[o] = DepositFeeOf(o).after
    BY <2>1, DepositFeeFacts
  <2> QED BY <2>2, <2>3
<1>5. autoMinted \subseteq A /\ supply \in Int /\ manual.fees \in Nat
      /\ wd.fees \in Nat /\ wd.feesWithdrawn \in Nat
  BY DEF FundsInv
<1>6. /\ A \in SUBSET Outputs /\ C \in SUBSET Outputs
      /\ wd.requested \in Seq(Int) /\ wd.processed \in 0..Len(wd.requested)
      /\ Outstanding \in Int /\ HeaderFees[header.height] \in Nat
      /\ SolventInSums
  BY FundFacts
<1>7. Balanced(A, C, autoMinted, wd.requested, wd.processed, supply, Outstanding)
      /\ wd.feesWithdrawn <= TotalFinalizedFees(manual.fees)
  BY <1>6 DEF SolventInSums
<1>8. HeaderFees[header.height] = SumOver(FeeTable, A) /\ HeaderFees[h] = SumOver(FeeTable, A2)
  BY <1>1, HeaderFeesAreSum DEF HeaderInv
<1> HIDE DEF A, A2, C
<1>9. D \in SUBSET Outputs /\ A2 = A \cup D /\ A \cap D = {}
  BY <1>2
<1> HIDE DEF D
<1>10. IsFiniteSet(A) /\ IsFiniteSet(D) /\ f \in Nat /\ SumOver(FeeTable, A) \in Nat
  BY <1>6, <1>9, OutputTotals
<1>11. \A o \in A \cup D : FeeTable[o] \in Int
  BY <1>6, <1>9, DepositFeeFacts
<1>12. SumOver(FeeTable, A2) = SumOver(FeeTable, A) + f
  BY <1>9, <1>10, <1>11, SumUnion
<1>13. Balanced(A2, C, autoMinted, wd.requested, wd.processed, supply,
                Outstanding + SumOver(FeeTable, A2 \ A))
  BY <1>1, <1>2, <1>3, <1>4, <1>5, <1>6, <1>7, BalancedFinalize, SMTT(60)
<1>14. HeaderFees[h] = HeaderFees[header.height] + f /\ HeaderFees[h] \in Nat
  BY <1>8, <1>10, <1>12
<1> HIDE DEF f
<1>15. /\ TotalFinalizedFees(manual.fees)' = manual.fees + wd.fees + HeaderFees[h]
       /\ TotalFinalizedFees(manual.fees) = manual.fees + wd.fees + HeaderFees[header.height]
  BY <1>1 DEF TotalFinalizedFees
<1>16. /\ Outstanding' = Outstanding + f
       /\ wd'.feesWithdrawn <= TotalFinalizedFees(manual.fees)'
  <2> DEFINE m == manual.fees  v == wd.fees  w == wd.feesWithdrawn
             a == HeaderFees[header.height]  b == HeaderFees[h]
  <2>1. Outstanding' = (m + v + b) - w /\ Outstanding = (m + v + a) - w
    BY <1>1, <1>15 DEF Outstanding
  <2>2. m \in Nat /\ v \in Nat /\ w \in Nat /\ a \in Nat /\ f \in Nat /\ b = a + f
    BY <1>5, <1>6, <1>10, <1>14
  <2>3. w <= m + v + a /\ wd'.feesWithdrawn = w
        /\ TotalFinalizedFees(manual.fees)' = m + v + b
    BY <1>1, <1>7, <1>15
  <2> HIDE DEF m, v, w, a, b
  <2>4. Outstanding' = Outstanding + f
    BY <2>1, <2>2
  <2>5. w <= m + v + b
    BY <2>2, <2>3
  <2> QED BY <2>3, <2>4, <2>5
<1>17. Claimed' = C
  BY <1>1 DEF Claimed, C
<1>18. SolventInSums'
  <2>1. Balanced(A2, C, autoMinted, wd.requested, wd.processed, supply, Outstanding + f)
    BY <1>13 DEF f, D
  <2> QED BY <1>1, <1>16, <1>17, <2>1 DEF SolventInSums, A2
<1>19. autoMinted' \subseteq AutoRoot(header'.height)
  BY <1>1, <1>2, <1>5 DEF A2
<1> QED BY <1>1, <1>5, <1>18, <1>19, FundsFromSums

(* An automatic mint turns what is owed into tokens. *)
LEMMA FundsMint ==
  ASSUME HeaderInv, ClaimsInv, IndexInv, FundsInv, NEW o \in Outputs, AutoMint(o)
  PROVE  FundsInv'
<1> DEFINE A == AutoRoot(header.height)  C == Claimed
<1>1. /\ o \in A \ autoMinted /\ autoMinted' = autoMinted \cup {o}
      /\ supply' = supply + DepositFeeOf(o).after
      /\ UNCHANGED <<header, wd, manual>>
  BY DEF AutoMint, headerVars, withdrawalVars, manualVars
<1>2. /\ autoMinted \subseteq A /\ supply \in Int /\ manual.fees \in Nat
      /\ wd.fees \in Nat /\ wd.feesWithdrawn \in Nat
  BY DEF FundsInv
<1>3. /\ A \in SUBSET Outputs /\ C \in SUBSET Outputs
      /\ wd.requested \in Seq(Int) /\ wd.processed \in 0..Len(wd.requested)
      /\ Outstanding \in Int /\ SolventInSums
  BY FundFacts
<1>4. Balanced(A, C, autoMinted, wd.requested, wd.processed, supply, Outstanding)
      /\ wd.feesWithdrawn <= TotalFinalizedFees(manual.fees)
  BY <1>3 DEF SolventInSums
<1>5. NetTable[o] = DepositFeeOf(o).after /\ NetTable[o] \in Int
  BY DepositFeeFacts
<1>6. Claimed' = C /\ Outstanding' = Outstanding
      /\ TotalFinalizedFees(manual.fees)' = TotalFinalizedFees(manual.fees)
      /\ AutoRoot(header'.height) = A
  BY <1>1 DEF Claimed, Outstanding, TotalFinalizedFees
<1> HIDE DEF A, C
<1>7. A \cup C \in SUBSET Outputs
  BY <1>3
<1>8. SumOver(AmountOf, A \cup C) \in Int
  BY <1>7, OutputTotals
<1>9. Balanced(A, C, autoMinted \cup {o}, wd.requested, wd.processed,
               supply + NetTable[o], Outstanding)
  BY <1>1, <1>2, <1>3, <1>4, <1>8, BalancedMint, ZenonT(60)
<1>10. SolventInSums'
  <2>1. supply' = supply + NetTable[o]
    BY <1>1, <1>5
  <2> QED BY <1>1, <1>4, <1>6, <1>9, <2>1 DEF SolventInSums
<1>11. supply' \in Int /\ autoMinted' \subseteq A
  BY <1>1, <1>2, <1>5
<1> QED BY <1>1, <1>2, <1>6, <1>10, <1>11, FundsFromSums

(* A manual claim turns what is owed into tokens. *)
LEMMA FundsClaim ==
  ASSUME HeaderInv, ClaimsInv, IndexInv, FundsInv, NEW u \in Users, NEW o \in Outputs,
         Claim(u, o)
  PROVE  FundsInv'
<1> DEFINE A == AutoRoot(header.height)  C == Claimed  n == Len(manual.leaves)
           e == DepositFeeOf(o).after  k == DepositFeeOf(o).fees
<1>1. PICK h \in 0..Len(Deposits), j \in 0..Len(Deposits) : ClaimAgainst(u, o, h, j)
  BY DEF Claim
<1>2. /\ ClaimProof(u, o, h, AutoRoot(j), claimed[u])
      /\ RootsAreRecent(o, h, AutoRoot(j))
      /\ FeeAccepted(DepositFeeOf(o))
      /\ manual'.leaves = Append(manual.leaves, o)
      /\ manual'.fees = manual.fees + k
  BY <1>1 DEF ClaimAgainst, ManualClaim, ProcessManualDeposit
<1>3. supply' = supply + e /\ UNCHANGED <<header, wd, autoMinted>>
  BY DEF Claim, headerVars, withdrawalVars
<1>4. OwnerOf[o] = u /\ o \notin AutoRoot(j) /\ o \notin claimed[u]
  BY <1>2 DEF ClaimProof
<1>5. o \notin AutoClaimed
  BY <1>2, <1>4, AcceptedClaim
<1>6. o \notin C
  BY <1>4 DEF Claimed, ClaimsInv
<1>7. o \notin A
  BY <1>5 DEF AutoRoot
<1>8. Claimed' = C \cup {o}
  <2>1. /\ n \in Nat /\ DOMAIN manual.leaves = 1..n /\ DOMAIN manual'.leaves = 1..(n + 1)
        /\ manual'.leaves[n + 1] = o
        /\ \A i \in 1..n : manual'.leaves[i] = manual.leaves[i]
    BY <1>2 DEF ClaimsInv
  <2>2. 1..(n + 1) = 1..n \cup {n + 1}
    BY <2>1
  <2> DEFINE l == manual.leaves  l2 == manual'.leaves
  <2>3. C = {l[i] : i \in 1..n} /\ Claimed' = {l2[i] : i \in 1..n \cup {n + 1}}
    BY <2>1, <2>2 DEF Claimed
  <2>4. l2[n + 1] = o /\ \A i \in 1..n : l2[i] = l[i]
    BY <2>1
  <2> HIDE DEF l, l2, n, C
  <2> QED BY <2>3, <2>4, ZenonT(60)
<1>9. /\ autoMinted \subseteq A /\ supply \in Int /\ manual.fees \in Nat
      /\ wd.fees \in Nat /\ wd.feesWithdrawn \in Nat
  BY DEF FundsInv
<1>10. /\ A \in SUBSET Outputs /\ C \in SUBSET Outputs
       /\ wd.requested \in Seq(Int) /\ wd.processed \in 0..Len(wd.requested)
       /\ Outstanding \in Int /\ HeaderFees[header.height] \in Nat /\ SolventInSums
  BY FundFacts
<1>11. Balanced(A, C, autoMinted, wd.requested, wd.processed, supply, Outstanding)
       /\ wd.feesWithdrawn <= TotalFinalizedFees(manual.fees)
  BY <1>10, SMTT(60) DEF SolventInSums
<1>12. /\ e \in Nat /\ k \in Nat /\ NetTable[o] = e /\ FeeTable[o] = k
       /\ AmountOf[o] = k + e
  BY <1>2, DepositFeeFacts, ZenonT(60)
<1> HIDE DEF A, C, e, k
<1>13. Balanced(A, C \cup {o}, autoMinted, wd.requested, wd.processed,
                supply + e, Outstanding + k)
  BY <1>6, <1>7, <1>9, <1>10, <1>11, <1>12, BalancedClaim, ZenonT(60)
<1>14. /\ Outstanding' = Outstanding + k
       /\ wd'.feesWithdrawn <= TotalFinalizedFees(manual.fees)'
  <2> DEFINE m == manual.fees  v == wd.fees  w == wd.feesWithdrawn
             a == HeaderFees[header.height]
  <2>1. Outstanding' = (m + k + v + a) - w /\ Outstanding = (m + v + a) - w
    BY <1>2, <1>3, ZenonT(60) DEF Outstanding, TotalFinalizedFees
  <2>2. m \in Nat /\ v \in Nat /\ w \in Nat /\ a \in Nat /\ k \in Nat
    BY <1>9, <1>10, <1>12, ZenonT(60)
  <2>3. w <= m + v + a /\ wd'.feesWithdrawn = w
        /\ TotalFinalizedFees(manual.fees)' = m + k + v + a
    BY <1>2, <1>3, <1>11, ZenonT(60) DEF TotalFinalizedFees
  <2> HIDE DEF m, v, w, a
  <2>4. Outstanding' = Outstanding + k
    BY <2>1, <2>2
  <2>5. w <= m + k + v + a
    BY <2>2, <2>3
  <2> QED BY <2>3, <2>4, <2>5, SMTT(60)
<1>15. SolventInSums'
  BY <1>3, <1>8, <1>13, <1>14 DEF SolventInSums, A
<1>16. supply' \in Int /\ manual'.fees \in Nat
  <2>1. supply + e \in Int /\ manual.fees + k \in Nat
    BY <1>9, <1>12
  <2> QED BY <1>2, <1>3, <2>1, ZenonT(60)
<1> QED BY <1>3, <1>9, <1>15, <1>16, FundsFromSums DEF A

(* A withdrawal turns tokens into a request and a fee. *)
LEMMA FundsRequest ==
  ASSUME HeaderInv, ClaimsInv, IndexInv, FundsInv, NEW amount \in Amounts,
         Withdraw(amount)
  PROVE  FundsInv'
<1> DEFINE A == AutoRoot(header.height)  C == Claimed  q == wd.requested
           e == RequestFee(amount).after  k == RequestFee(amount).fees
<1>1. /\ FeeAccepted(RequestFee(amount))
      /\ wd' = [wd EXCEPT !.fees = @ + k, !.requested = Append(@, e)]
      /\ supply' = supply - amount
      /\ UNCHANGED <<header, manual, autoMinted>>
  BY DEF Withdraw, RequestWithdrawal, headerVars, manualVars
<1>2. /\ wd'.fees = wd.fees + k /\ wd'.requested = Append(q, e)
      /\ wd'.processed = wd.processed /\ wd'.feesWithdrawn = wd.feesWithdrawn
  BY <1>1 DEF IndexInv, WdFields
<1>3. e \in Nat /\ k \in Nat /\ amount = k + e
  BY <1>1, RequestFeeFacts, SMTT(60)
<1>4. /\ autoMinted \subseteq A /\ supply \in Int /\ manual.fees \in Nat
      /\ wd.fees \in Nat /\ wd.feesWithdrawn \in Nat
  BY DEF FundsInv
<1>5. /\ A \in SUBSET Outputs /\ C \in SUBSET Outputs
      /\ q \in Seq(Int) /\ wd.processed \in 0..Len(q)
      /\ Outstanding \in Int /\ HeaderFees[header.height] \in Nat /\ SolventInSums
  BY FundFacts, ZenonT(60)
<1>6. Balanced(A, C, autoMinted, q, wd.processed, supply, Outstanding)
      /\ wd.feesWithdrawn <= TotalFinalizedFees(manual.fees)
  BY <1>5, Zenon DEF SolventInSums
<1>7. Claimed' = C
  BY <1>1 DEF Claimed
<1> HIDE DEF A, C, e, k, q
<1>8. Balanced(A, C, autoMinted, Append(q, e), wd.processed, supply - (k + e),
               Outstanding + k)
  <2>1. e \in Int /\ k \in Int
    BY <1>3
  <2> QED BY <1>4, <1>5, <1>6, <2>1, BalancedRequest, ZenonT(60)
<1>9. /\ Outstanding' = Outstanding + k
      /\ wd'.feesWithdrawn <= TotalFinalizedFees(manual.fees)'
  <2> DEFINE m == manual.fees  v == wd.fees  w == wd.feesWithdrawn
             a == HeaderFees[header.height]
  <2>1. Outstanding' = (m + (v + k) + a) - w /\ Outstanding = (m + v + a) - w
    BY <1>1, <1>2 DEF Outstanding, TotalFinalizedFees
  <2>2. m \in Nat /\ v \in Nat /\ w \in Nat /\ a \in Nat /\ k \in Nat
    BY <1>3, <1>4, <1>5
  <2>3. w <= m + v + a /\ wd'.feesWithdrawn = w
        /\ TotalFinalizedFees(manual.fees)' = m + (v + k) + a
    BY <1>1, <1>2, <1>6 DEF TotalFinalizedFees
  <2> HIDE DEF m, v, w, a
  <2>4. Outstanding' = Outstanding + k
    BY <2>1, <2>2
  <2>5. w <= m + (v + k) + a
    BY <2>2, <2>3
  <2> QED BY <2>3, <2>4, <2>5
<1>10. supply' = supply - (k + e)
  BY <1>1, <1>3
<1>11. SolventInSums'
  BY <1>1, <1>2, <1>7, <1>8, <1>9, <1>10, ZenonT(60) DEF SolventInSums, A
<1>12. supply' \in Int /\ wd'.fees \in Nat
  <2>1. supply - (k + e) \in Int /\ wd.fees + k \in Nat
    BY <1>3, <1>4
  <2> QED BY <1>2, <1>10, <2>1, ZenonT(60)
<1> QED BY <1>1, <1>2, <1>4, <1>11, <1>12, FundsFromSums DEF A

(* A withdrawal that is paid takes from what is held the requests it pays. *)
LEMMA FundsPay ==
  ASSUME HeaderInv, ClaimsInv, IndexInv, ProofsInv, FundsInv, PayWithdrawals
  PROVE  FundsInv'
<1> DEFINE A == AutoRoot(header.height)  C == Claimed  q == wd.requested
<1>1. PICK p \in proofs : \E data \in PostedForms(p.tx) : ProcessWithdrawal(p, data)
  BY DEF PayWithdrawals
<1>2. PICK data \in PostedForms(p.tx) : ProcessWithdrawal(p, data)
  BY <1>1
<1>3. /\ p.snap = wd.snap
      /\ wd' = [wd EXCEPT !.returned = p.tx.nr, !.processed = p.tx.to,
                          !.sent = Append(@, Sha(data))]
      /\ UNCHANGED <<header, manual, autoMinted, supply>>
  BY <1>2 DEF PayWithdrawals, ProcessWithdrawal, MatchesPublicInputs, fundVars
<1>4. /\ wd'.fees = wd.fees /\ wd'.requested = q
      /\ wd'.processed = p.tx.to /\ wd'.feesWithdrawn = wd.feesWithdrawn
  BY <1>3 DEF IndexInv, WdFields
<1>5. p.tx.to \in 0..Len(q)
  <2>1. p.tx.to \in Nat /\ p.tx.to <= wd.snap.next
    BY <1>3 DEF ProofsInv, Txs
  <2> QED BY <2>1 DEF IndexInv
<1>6. /\ autoMinted \subseteq A /\ supply \in Int /\ manual.fees \in Nat
      /\ wd.fees \in Nat /\ wd.feesWithdrawn \in Nat
  BY DEF FundsInv
<1>7. /\ A \in SUBSET Outputs /\ C \in SUBSET Outputs
      /\ q \in Seq(Int) /\ wd.processed \in 0..Len(q)
      /\ Outstanding \in Int /\ SolventInSums
  BY FundFacts
<1>8. Balanced(A, C, autoMinted, q, wd.processed, supply, Outstanding)
      /\ wd.feesWithdrawn <= TotalFinalizedFees(manual.fees)
  BY <1>7 DEF SolventInSums
<1>9. Claimed' = C /\ Outstanding' = Outstanding
      /\ TotalFinalizedFees(manual.fees)' = TotalFinalizedFees(manual.fees)
  BY <1>3, <1>4 DEF Claimed, Outstanding, TotalFinalizedFees
<1> HIDE DEF A, C, q
<1>10. Balanced(A, C, autoMinted, q, p.tx.to, supply, Outstanding)
  BY <1>5, <1>6, <1>7, <1>8, BalancedPay
<1>11. SolventInSums'
  BY <1>3, <1>4, <1>8, <1>9, <1>10 DEF SolventInSums, A
<1> QED BY <1>3, <1>4, <1>6, <1>11, FundsFromSums DEF A

(* The operator takes no more than the fees. *)
LEMMA FundsFees ==
  ASSUME HeaderInv, ClaimsInv, IndexInv, FundsInv, WithdrawFees
  PROVE  FundsInv'
<1> DEFINE A == AutoRoot(header.height)  C == Claimed  q == wd.requested
           t == TotalFinalizedFees(manual.fees)
<1>1. /\ wd' = [wd EXCEPT !.feesWithdrawn = t]
      /\ supply' = supply + Outstanding
      /\ UNCHANGED <<header, manual, autoMinted>>
  BY DEF WithdrawFees, OperatorWithdrawFees, headerVars, manualVars, Outstanding
<1>2. /\ wd'.fees = wd.fees /\ wd'.requested = q
      /\ wd'.processed = wd.processed /\ wd'.feesWithdrawn = t
  BY <1>1 DEF IndexInv, WdFields
<1>3. /\ autoMinted \subseteq A /\ supply \in Int /\ manual.fees \in Nat
      /\ wd.fees \in Nat /\ wd.feesWithdrawn \in Nat
  BY DEF FundsInv
<1>4. /\ A \in SUBSET Outputs /\ C \in SUBSET Outputs
      /\ q \in Seq(Int) /\ wd.processed \in 0..Len(q)
      /\ Outstanding \in Int /\ t \in Nat /\ SolventInSums
  BY FundFacts
<1>5. Balanced(A, C, autoMinted, q, wd.processed, supply, Outstanding)
  BY <1>4 DEF SolventInSums
<1>6. Claimed' = C /\ TotalFinalizedFees(manual.fees)' = t
  BY <1>1, <1>2 DEF Claimed, TotalFinalizedFees
<1> HIDE DEF A, C, q, t
<1>7. Outstanding' = 0
  BY <1>2, <1>4, <1>6 DEF Outstanding
<1>8. Balanced(A, C, autoMinted, q, wd.processed, supply + Outstanding, 0)
  BY <1>3, <1>4, <1>5, BalancedFees, ZenonT(60)
<1>9. wd'.feesWithdrawn <= TotalFinalizedFees(manual.fees)'
  BY <1>2, <1>4, <1>6
<1>10. SolventInSums'
  BY <1>1, <1>2, <1>6, <1>7, <1>8, <1>9 DEF SolventInSums, A
<1>11. supply' \in Int
  BY <1>1, <1>3, <1>4
<1> QED BY <1>1, <1>2, <1>3, <1>4, <1>10, <1>11, FundsFromSums DEF A

(* Steps that move no funds. *)
LEMMA FundsFrame ==
  ASSUME FundsInv,
         UNCHANGED <<header, manual, autoMinted, supply, wd.requested, wd.processed,
                     wd.fees, wd.feesWithdrawn>>
  PROVE  FundsInv'
<1>1. SolventInSums
  BY SolventSums DEF FundsInv
<1>2. SolventInSums'
  BY <1>1 DEF SolventInSums, Outstanding, TotalFinalizedFees, Claimed
<1> QED BY <1>2, FundsFromSums DEF FundsInv

(* At first nothing is held and nothing is owed. *)
LEMMA FundsStart ==
  Init => FundsInv
<1> SUFFICES ASSUME Init PROVE FundsInv
  OBVIOUS
<1>1. /\ header.height = 0 /\ manual.leaves = <<>> /\ manual.fees = 0
      /\ autoMinted = {} /\ supply = 0
      /\ wd.requested = <<>> /\ wd.processed = 0 /\ wd.fees = 0 /\ wd.feesWithdrawn = 0
  BY DEF Init, HeaderInit, ProvenHeader, WithdrawalsInit, ManualInit
<1>2. AutoRoot(0) = {}
  <2>1. \A o \in Outputs : BlockOf[o] \in Int /\ BlockOf[o] >= 1
    BY HeightsFacts
  <2> QED BY <2>1, ManualClaimsAssumption DEF AutoRoot
<1>3. HeaderFees[0] = 0
  <2>1. 0 \in 0..Len(Deposits)
    BY HeightsFacts
  <2> QED BY <1>2, <2>1, HeaderFeesAreSum, SumEmpty, ZenonT(60)
<1>4. Claimed = {}
  BY <1>1 DEF Claimed
<1>5. 1..0 = {} /\ (0 + 1)..Len(<<>>) = {}
  OBVIOUS
<1>6. TotalFinalizedFees(manual.fees) = 0 /\ Outstanding = 0
  BY <1>1, <1>3 DEF TotalFinalizedFees, Outstanding
<1>7. /\ SumOver(AmountOf, {} \cup {}) = 0 /\ SumOver(<<>>, 1..0) = 0
      /\ SumOver(<<>>, (0 + 1)..Len(<<>>)) = 0 /\ SumOver(NetTable, {} \ {}) = 0
  <2>1. {} \cup {} = {} /\ {} \ {} = {}
    OBVIOUS
  <2> QED BY <1>5, <2>1, SumEmpty
<1>8. Balanced({}, {}, {}, <<>>, 0, 0, 0)
  BY <1>7 DEF Balanced
<1>9. SolventInSums
  <2>1. Balanced(AutoRoot(header.height), Claimed, autoMinted, wd.requested,
                 wd.processed, supply, Outstanding)
    BY <1>1, <1>2, <1>4, <1>6, <1>8, ZenonT(60)
  <2>2. wd.feesWithdrawn <= TotalFinalizedFees(manual.fees)
    BY <1>1, <1>6
  <2> QED BY <2>1, <2>2 DEF SolventInSums
<1> QED BY <1>1, <1>9, SolventSums DEF FundsInv

(* Every step preserves the balance. *)
LEMMA FundsStep ==
  ASSUME HeaderInv, ClaimsInv, PayInv, FundsInv, [Next]_vars
  PROVE  FundsInv'
<1>0. HeaderInv' /\ ClaimsInv' /\ IndexInv /\ ProofsInv
  BY ClaimsStep DEF PayInv
<1>1. CASE UNCHANGED vars
  BY <1>1, FundsFrame DEF vars
<1>2. CASE Claims
  BY <1>0, <1>2, FundsClaim DEF Claims
<1>3. CASE Movements
  <2>1. CASE \E h \in Heights : FinalizeBlocks(h)
    BY <1>0, <2>1, FundsFinalize
  <2>2. CASE \E o \in Outputs : AutoMint(o)
    BY <1>0, <2>2, FundsMint
  <2>3. CASE \E amount \in Amounts : Withdraw(amount)
    BY <1>0, <2>3, FundsRequest
  <2>4. CASE Snapshot
    <3>1. UNCHANGED <<wd.requested, wd.processed, wd.fees, wd.feesWithdrawn>>
      BY <1>0, <2>4 DEF Snapshot, SnapshotWithdrawals, IndexInv, WdFields
    <3> QED BY <2>4, <3>1, FundsFrame DEF Snapshot, fundVars
  <2>5. CASE ProveWithdrawal
    BY <2>5, FundsFrame DEF ProveWithdrawal, Prove, fundVars
  <2>6. CASE PayWithdrawals
    BY <1>0, <2>6, FundsPay
  <2>7. CASE Replay
    <3>1. UNCHANGED <<wd.requested, wd.processed, wd.fees, wd.feesWithdrawn>>
      BY <1>0, <2>7 DEF Replay, ReplayWithdrawal, IndexInv, WdFields
    <3> QED BY <2>7, <3>1, FundsFrame DEF Replay, fundVars
  <2>8. CASE WithdrawFees
    BY <1>0, <2>8, FundsFees
  <2>9. CASE Tick /\ UNCHANGED fundVars
    BY <2>9, FundsFrame DEF Tick, fundVars
  <2> QED
    BY <1>3, <2>1, <2>2, <2>3, <2>4, <2>5, <2>6, <2>7, <2>8, <2>9 DEF Movements
<1> QED
  BY <1>1, <1>2, <1>3 DEF Next

(* The bridge is solvent: what its deposits brought, less what it paid     *)
(* out, is what it owes in supply, waiting requests, fees and deposits to  *)
(* mint, in every order of blocks, mints, claims, requests, payments and   *)
(* fee withdrawals; and no more fees are withdrawn than were earned.       *)
THEOREM BridgeIsSolvent ==
  Spec => []Solvent
<1> DEFINE Inv == HeaderInv /\ ClaimsInv /\ PayInv /\ FundsInv
<1>1. Init => Inv
  BY ClaimsStart, PayStart, FundsStart
<1>2. Inv /\ [Next]_vars => Inv'
  BY ClaimsStep, PayStep, FundsStep
<1>3. Inv => Solvent
  BY DEF FundsInv
<1> QED
  BY <1>1, <1>2, <1>3, PTL DEF Spec
=============================================================================
