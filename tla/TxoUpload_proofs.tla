--------------------------- MODULE TxoUpload_proofs ---------------------------
(***************************************************************************)
(* That a txo buffer holds one upload and all of it whenever the client or *)
(* the finalized flag says so, for any lists, any number of retries and    *)
(* faults, and any window of parallel writes.                              *)
(*                                                                         *)
(* Two uploads may use the same batch number, but only for the same list   *)
(* and only while the first of them has not got beyond the call that opens *)
(* the batch.  Everything sent later names a batch that is open, so it can *)
(* neither open a batch nor reach one opened after it.                     *)
(***************************************************************************)
EXTENDS TxoUpload, TLAPS

(* The time each prover has for a step that names none. *)
USE SMTT(30), ZenonT(30)

Cells == {Zero} \cup UNION {Range(Jobs[i].data) : i \in 1..Len(Jobs)}

TxoRecord ==
  [writer : {NoKey, Operator}, finalized : BOOLEAN, height : Nat, batch : Nat,
   size : Nat, body : Seq(Cells)]

TxoType ==
  /\ txo \in TxoRecord
  /\ txo.writer = NoKey => txo.batch = 0 /\ ~txo.finalized

States == {"idle", "ensure", "running", "returned"}

ClientType ==
  /\ session = [state |-> session.state, job |-> session.job, n |-> session.n,
                stages |-> session.stages, waiting |-> session.waiting]
  /\ session.state \in States
  /\ session.job \in Nat \ {0}
  /\ \A t \in inflight : t = [n |-> t.n, call |-> t.call, try |-> t.try]
  /\ session.state # "idle" => session.job \in 1..Len(Jobs)
  /\ session.state # "running" => session.waiting = NoCalls

(* The calls of an upload of the current list as batch b, and the order in *)
(* which they are made.                                                    *)
InitCall == [op |-> "init"]
Opening(b) == SetLen(Job, b, TRUE, FALSE)
Closing(b) == SetLen(Job, b, FALSE, TRUE)
Writes(b) == {Chunks(Job, b)[i] : i \in 1..Len(Job.data)}
PlanCalls(b) == {InitCall, Opening(b), Closing(b)} \cup Writes(b)

Rank(c) == CASE c.op = "init"                 -> 0
             [] c.op = "set_len" /\ c.resize  -> 1
             [] c.op = "write"                -> 2
             [] c.op = "set_len" /\ ~c.resize -> 3

(* The account is set up for the current list, and holds it. *)
Opened ==
  /\ txo.height = Job.height
  /\ Len(txo.body) = Len(Job.data)
  /\ txo.size = Len(Job.data)

Written == Opened /\ txo.body = Job.data

(* What a transaction in flight may still be: one of an old batch, which   *)
(* will be refused, one of the current batch which the account is ready    *)
(* for, or one that opens the next batch, for the current list.            *)
Sound(c) ==
  \/ c = InitCall
  \/ /\ c.op \in {"set_len", "write"}
     /\ txo.writer # NoKey
     /\ c.batch \in Nat
     /\ c.batch <= txo.batch + 1
     /\ c.batch = txo.batch + 1 => session.job \in 1..Len(Jobs) /\ c = Opening(c.batch)
     /\ c.batch = txo.batch /\ ~txo.finalized =>
          /\ session.job \in 1..Len(Jobs)
          /\ \/ c = Opening(c.batch)
             \/ c \in Writes(c.batch) /\ Opened
             \/ c = Closing(c.batch) /\ Written

FlightInv == \A t \in inflight : Sound(t.call)

(* No transaction in flight belongs to a batch after b. *)
NoneAfter(b) == \A t \in inflight : t.call = InitCall \/ t.call.batch <= b

(* The client has not had the confirmation of call c. *)
Coming(c) ==
  \/ c \in DOMAIN session.waiting
  \/ \E i \in 1..Len(session.stages) : c \in session.stages[i]

InOrder(stages) ==
  \A i, j \in 1..Len(stages) : i <= j =>
    \A c \in stages[i], d \in stages[j] : Rank(c) <= Rank(d)

(* An upload as batch b has in the account whatever was confirmed to it. *)
RunInv(b) ==
  /\ session.stages \in Seq(SUBSET PlanCalls(b))
  /\ DOMAIN session.waiting \subseteq PlanCalls(b)
  /\ InOrder(session.stages)
  /\ NoneAfter(b)
  /\ Coming(InitCall) \/ txo.writer # NoKey
  /\ Coming(Opening(b)) \/ (txo.batch = b /\ Opened)
  /\ \A i \in 1..Len(Job.data) :
       \/ Coming(Chunks(Job, b)[i])
       \/ txo.batch = b /\ Opened /\ txo.body[i] = Job.data[i]
  /\ Coming(Closing(b)) \/ (txo.batch = b /\ txo.finalized)
  /\ txo.batch = b /\ txo.finalized => Written

SessionInv ==
  /\ session.state = "running" =>
       \E b \in {txo.batch, txo.batch + 1} : RunInv(b)
  /\ session.state = "returned" =>
       txo.finalized /\ Written /\ NoneAfter(txo.batch)

UploadInv ==
  TxoType /\ ClientType /\ FlightInv /\ SessionInv /\ FinalizedIsOneUpload
-----------------------------------------------------------------------------
(* The model's operators. *)

(* Rounding up: the number of windows of w that L elements take. *)
LEMMA WindowsCover ==
  ASSUME NEW L \in Nat, NEW w \in Nat \ {0}, NEW k \in 1..L
  PROVE  \E i \in 1..((L + w - 1) \div w) :
            k \in ((i - 1) * w + 1)..(IF i * w < L THEN i * w ELSE L)
<1> DEFINE N == (L + w - 1) \div w
           q == (k - 1) \div w
<1>1. N \in Nat /\ L + w - 1 < N * w + w
  OBVIOUS
<1>2. q \in Nat /\ q * w <= k - 1 /\ k - 1 < q * w + w
  OBVIOUS
<1> HIDE DEF N, q
<1>3. q + 1 <= N
  <2> SUFFICES ASSUME N <= q
               PROVE  FALSE
    BY <1>1, <1>2
  <2>1. N * w <= q * w
    BY <1>1, <1>2
  <2> QED
    BY <1>1, <1>2, <2>1
<1>4. (q + 1) * w = q * w + w
  BY <1>2
<1>5. k \in ((q + 1 - 1) * w + 1)..(IF (q + 1) * w < L THEN (q + 1) * w ELSE L)
  BY <1>2, <1>4
<1> QED
  BY <1>1, <1>2, <1>3, <1>5 DEF N

(* Cutting the calls into windows loses none. *)
LEMMA BatchedFacts ==
  ASSUME NEW S, NEW calls \in Seq(S), NEW w \in Nat \ {0}
  PROVE  /\ Batched(calls, w) \in Seq(SUBSET S)
         /\ \A k \in 1..Len(calls) :
              \E i \in 1..Len(Batched(calls, w)) : calls[k] \in Batched(calls, w)[i]
<1> DEFINE L == Len(calls)
           N == (L + w - 1) \div w
           Part(i) == ((i - 1) * w + 1)..(IF i * w < L THEN i * w ELSE L)
           B == Batched(calls, w)
<1>0. B = [i \in 1..N |-> {calls[k] : k \in Part(i)}]
  BY DEF Batched
<1>1. L \in Nat
  OBVIOUS
<1> HIDE DEF L, B
<1>2. N \in Nat
  BY <1>1
<1>3. \A i \in 1..N : \A k \in Part(i) : k \in 1..L
  <2> TAKE i \in 1..N
  <2>1. (i - 1) * w \in Nat /\ i * w \in Nat
    BY <1>2
  <2> QED
    BY <1>1, <2>1
<1>4. \A k \in 1..L : \E i \in 1..N : k \in Part(i)
  BY <1>1, WindowsCover, Zenon
<1> HIDE DEF N, Part
<1>5. \A k \in 1..L : calls[k] \in S
  BY DEF L
<1>6. B \in Seq(SUBSET S) /\ Len(B) = N
  BY <1>0, <1>2, <1>3, <1>5
<1>7. ASSUME NEW k \in 1..L
      PROVE  \E i \in 1..Len(B) : calls[k] \in B[i]
  <2>1. PICK i \in 1..N : k \in Part(i)
    BY <1>4
  <2>2. calls[k] \in B[i]
    BY <1>0, <2>1
  <2> QED
    BY <1>6, <2>2
<1> QED
  BY <1>6, <1>7 DEF B, L

(* The list that is being uploaded. *)
LEMMA JobFacts ==
  ASSUME session.job \in 1..Len(Jobs)
  PROVE  /\ Job.height \in Nat
         /\ Job.data \in Seq(Cells)
         /\ Len(Job.data) \in Nat \ {0}
<1>1. /\ Job.height \in Nat
      /\ Job.data \in Seq(Range(Job.data))
      /\ Job.data # <<>>
  BY TxoUploadAssumption DEF TxoUploadConstants, Job
<1>2. Range(Job.data) \subseteq Cells
  BY DEF Cells, Job
<1> DEFINE d == Job.data
           R == Range(Job.data)
<1> HIDE DEF d, R
<1>3. d \in Seq(R) /\ d # <<>> /\ R \subseteq Cells
  BY <1>1, <1>2 DEF d, R
<1>4. d \in Seq(Cells) /\ Len(d) \in Nat \ {0}
  BY <1>3
<1> QED
  BY <1>1, <1>4 DEF d

(* The writes of an upload are its chunks, each at its own offset. *)
LEMMA ChunkFacts ==
  ASSUME session.job \in 1..Len(Jobs), NEW b
  PROVE  /\ Chunks(Job, b) \in Seq(Writes(b))
         /\ Len(Chunks(Job, b)) = Len(Job.data)
         /\ \A i \in 1..Len(Job.data) :
              /\ Chunks(Job, b)[i] \in Writes(b)
              /\ Chunks(Job, b)[i] = [op |-> "write", batch |-> b, offset |-> i - 1,
                                      data |-> Job.data[i]]
         /\ \A c \in Writes(b) : \E i \in 1..Len(Job.data) :
              /\ c = Chunks(Job, b)[i]
              /\ c = [op |-> "write", batch |-> b, offset |-> i - 1, data |-> Job.data[i]]
<1> DEFINE n == Len(Job.data)
           C == Chunks(Job, b)
           W == Writes(b)
<1>1. n \in Nat
  BY JobFacts
<1>2. C = [i \in 1..n |-> [op |-> "write", batch |-> b, offset |-> i - 1,
                           data |-> Job.data[i]]]
  BY DEF Chunks
<1>3. W = {C[i] : i \in 1..n}
  BY DEF Writes
<1> HIDE DEF n, C, W
<1>4. \A i \in 1..n : /\ C[i] \in W
                      /\ C[i] = [op |-> "write", batch |-> b, offset |-> i - 1,
                                 data |-> Job.data[i]]
  BY <1>2, <1>3, Zenon
<1>5. C \in Seq(W) /\ Len(C) = n
  <2>1. DOMAIN C = 1..n /\ C = [i \in 1..n |-> C[i]]
    BY <1>2
  <2>2. \A i \in 1..n : C[i] \in W
    BY <1>4, Zenon
  <2> QED
    BY <1>1, <2>1, <2>2
<1>6. ASSUME NEW c \in W
      PROVE  \E i \in 1..n :
               /\ c = C[i]
               /\ c = [op |-> "write", batch |-> b, offset |-> i - 1, data |-> Job.data[i]]
  <2>1. PICK i \in 1..n : c = C[i]
    BY <1>3
  <2> QED
    BY <1>4, <2>1
<1> QED
  BY <1>4, <1>5, <1>6 DEF n, C, W

(* The order of the calls of an upload: set up, open, write, close. *)
LEMMA Ranks ==
  ASSUME NEW b, session.job \in 1..Len(Jobs)
  PROVE  /\ Rank(InitCall) = 0
         /\ Rank(Opening(b)) = 1
         /\ \A c \in Writes(b) : Rank(c) = 2
         /\ Rank(Closing(b)) = 3
<1>1. Rank(InitCall) = 0
  BY DEF Rank, InitCall
<1>2. Rank(Opening(b)) = 1 /\ Rank(Closing(b)) = 3
  BY DEF Rank, Opening, Closing, SetLen
<1>3. \A c \in Writes(b) : c.op = "write"
  BY ChunkFacts
<1>4. \A c \in Writes(b) : Rank(c) = 2
  BY <1>3 DEF Rank
<1> QED
  BY <1>1, <1>2, <1>4

Occurs(c, stages) == \E i \in 1..Len(stages) : c \in stages[i]

(* A list of stages whose calls are in order and have ranks lo to hi. *)
Ordered(stages, S, lo, hi) ==
  /\ stages \in Seq(SUBSET S)
  /\ InOrder(stages)
  /\ \A i \in 1..Len(stages) : \A c \in stages[i] :
       Rank(c) \in Nat /\ lo <= Rank(c) /\ Rank(c) <= hi

(* Stages of calls of one rank are in order. *)
LEMMA SameRankOrdered ==
  ASSUME NEW S, NEW stages \in Seq(SUBSET S), NEW r \in Nat,
         \A i \in 1..Len(stages) : \A c \in stages[i] : Rank(c) = r
  PROVE  Ordered(stages, S, r, r)
  BY DEF Ordered, InOrder

(* Stages of lower rank may come before stages of higher rank. *)
LEMMA JoinOrdered ==
  ASSUME NEW S, NEW s, NEW t, NEW lo \in Nat, NEW m \in Nat, NEW k \in Nat, NEW hi \in Nat,
         lo <= m, m <= k, k <= hi, Ordered(s, S, lo, m), Ordered(t, S, k, hi)
  PROVE  /\ Ordered(s \o t, S, lo, hi)
         /\ \A c : Occurs(c, s) \/ Occurs(c, t) => Occurs(c, s \o t)
<1> DEFINE u == s \o t
           p == Len(s)
           q == Len(t)
<1>1. s \in Seq(SUBSET S) /\ t \in Seq(SUBSET S) /\ p \in Nat /\ q \in Nat
  BY DEF Ordered
<1>2. /\ u \in Seq(SUBSET S) /\ Len(u) = p + q
      /\ \A i \in 1..p : u[i] = s[i]
      /\ \A i \in 1..(p + q) : i > p => u[i] = t[i - p]
  BY <1>1
<1>3. /\ \A i \in 1..p : \A c \in s[i] : Rank(c) \in Nat /\ lo <= Rank(c) /\ Rank(c) <= m
      /\ \A i \in 1..q : \A c \in t[i] : Rank(c) \in Nat /\ k <= Rank(c) /\ Rank(c) <= hi
      /\ InOrder(s) /\ InOrder(t)
  BY DEF Ordered
<1> HIDE DEF u, p, q
<1>4. \A i \in 1..(p + q) : i > p => i - p \in 1..q
  BY <1>1
<1>5. \A i \in 1..Len(u) : \A c \in u[i] : Rank(c) \in Nat /\ lo <= Rank(c) /\ Rank(c) <= hi
  <2> TAKE i \in 1..Len(u)
  <2>1. CASE i <= p
    <3>1. i \in 1..p /\ u[i] = s[i]
      BY <1>1, <1>2, <2>1
    <3> QED
      BY <1>3, <3>1
  <2>2. CASE i > p
    <3>1. i - p \in 1..q /\ u[i] = t[i - p]
      BY <1>1, <1>2, <1>4, <2>2
    <3> QED
      BY <1>3, <3>1
  <2> QED
    BY <1>1, <1>2, <2>1, <2>2
<1>6. InOrder(u)
  <2> SUFFICES ASSUME NEW i \in 1..Len(u), NEW j \in 1..Len(u), i <= j,
                      NEW c \in u[i], NEW d \in u[j]
               PROVE  Rank(c) <= Rank(d)
    BY DEF InOrder
  <2>1. CASE j <= p
    <3>1. i \in 1..p /\ j \in 1..p /\ u[i] = s[i] /\ u[j] = s[j]
      BY <1>1, <1>2, <2>1
    <3> QED
      BY <1>3, <3>1 DEF InOrder, p
  <2>2. CASE i > p
    <3>1. /\ i - p \in 1..q /\ j - p \in 1..q /\ i - p <= j - p
          /\ u[i] = t[i - p] /\ u[j] = t[j - p]
      BY <1>1, <1>2, <1>4, <2>2
    <3> QED
      BY <1>3, <3>1 DEF InOrder, q
  <2>3. CASE i <= p /\ j > p
    <3>1. i \in 1..p /\ j - p \in 1..q /\ u[i] = s[i] /\ u[j] = t[j - p]
      BY <1>1, <1>2, <1>4, <2>3
    <3>2. Rank(c) \in Nat /\ Rank(c) <= m /\ Rank(d) \in Nat /\ k <= Rank(d)
      BY <1>3, <3>1
    <3> QED
      BY <3>2
  <2> QED
    BY <1>1, <1>2, <2>1, <2>2, <2>3
<1>7. \A c : Occurs(c, s) => Occurs(c, u)
  <2> SUFFICES ASSUME NEW c, NEW i \in 1..p, c \in s[i]
               PROVE  \E j \in 1..Len(u) : c \in u[j]
    BY DEF Occurs, p
  <2>1. i \in 1..Len(u) /\ c \in u[i]
    BY <1>1, <1>2
  <2> QED
    BY <2>1
<1>8. \A c : Occurs(c, t) => Occurs(c, u)
  <2> SUFFICES ASSUME NEW c, NEW i \in 1..q, c \in t[i]
               PROVE  \E j \in 1..Len(u) : c \in u[j]
    BY DEF Occurs, q
  <2>1. p + i \in 1..Len(u) /\ (p + i) - p = i /\ p + i > p
    BY <1>1, <1>2
  <2>2. u[p + i] = t[i]
    BY <1>2, <2>1
  <2> QED
    BY <2>1, <2>2
<1> QED
  BY <1>2, <1>5, <1>6, <1>7, <1>8 DEF Ordered, u

(* What PlanUpload hands to the client, whichever client it is. *)
IsPlan(stages, b) ==
  /\ stages \in Seq(SUBSET PlanCalls(b))
  /\ InOrder(stages)
  /\ txo.writer = NoKey => Occurs(InitCall, stages)
  /\ Occurs(Opening(b), stages)
  /\ \A i \in 1..Len(Job.data) : Occurs(Chunks(Job, b)[i], stages)
  /\ Occurs(Closing(b), stages)

(* A stage of one call is in order. *)
LEMMA OneStage ==
  ASSUME NEW S, NEW c \in S, NEW r \in Nat, Rank(c) = r
  PROVE  Ordered(<<{c}>>, S, r, r) /\ Occurs(c, <<{c}>>)
<1> DEFINE s == <<{c}>>
<1>1. s \in Seq(SUBSET S) /\ Len(s) = 1 /\ s[1] = {c}
  OBVIOUS
<1> HIDE DEF s
<1>2. \A i \in 1..Len(s) : \A d \in s[i] : Rank(d) = r
  BY <1>1
<1>3. Ordered(s, S, r, r)
  BY <1>1, <1>2, SameRankOrdered
<1>4. Occurs(c, s)
  BY <1>1 DEF Occurs
<1> QED
  BY <1>3, <1>4 DEF s

(* What a client plans: every chunk between the opening and the closing    *)
(* call.                                                                   *)
LEMMA PlanFacts ==
  ASSUME session.job \in 1..Len(Jobs), NEW b \in Nat, NEW writes \in Seq(SUBSET Writes(b)),
         \A i \in 1..Len(Job.data) : Occurs(Chunks(Job, b)[i], writes)
  PROVE  IsPlan(InitCalls \o (<<{Opening(b)}>> \o writes \o <<{Closing(b)}>>), b)
<1> DEFINE S == PlanCalls(b)
           o == Opening(b)
           z == Closing(b)
           P == <<{o}>> \o writes
           Q == P \o <<{z}>>
<1>0. InitCall \in S /\ o \in S /\ z \in S /\ Writes(b) \subseteq S
  BY DEF PlanCalls
<1>1. Rank(InitCall) = 0 /\ Rank(o) = 1 /\ Rank(z) = 3 /\ \A c \in Writes(b) : Rank(c) = 2
  BY Ranks
<1>2. Ordered(writes, S, 2, 2)
  <2>1. writes \in Seq(SUBSET S)
    BY <1>0
  <2>2. \A i \in 1..Len(writes) : \A c \in writes[i] : Rank(c) = 2
    BY <1>1
  <2> HIDE DEF S
  <2> QED
    BY <2>1, <2>2, SameRankOrdered, Zenon
<1> HIDE DEF S, o, z
<1>3. Ordered(<<{o}>>, S, 1, 1) /\ Occurs(o, <<{o}>>)
  BY <1>0, <1>1, OneStage
<1>4. Ordered(<<{z}>>, S, 3, 3) /\ Occurs(z, <<{z}>>)
  BY <1>0, <1>1, OneStage
<1>5. /\ Ordered(P, S, 1, 2)
      /\ \A c : Occurs(c, <<{o}>>) \/ Occurs(c, writes) => Occurs(c, P)
  <2> DEFINE first == <<{o}>>
  <2> HIDE DEF first
  <2>1. Ordered(first, S, 1, 1)
    BY <1>3 DEF first
  <2>2. /\ Ordered(first \o writes, S, 1, 2)
        /\ \A c : Occurs(c, first) \/ Occurs(c, writes) => Occurs(c, first \o writes)
    BY <1>2, <2>1, JoinOrdered
  <2> QED
    BY <2>2, Zenon DEF first
<1>6. /\ Ordered(Q, S, 1, 3)
      /\ \A c : Occurs(c, P) \/ Occurs(c, <<{z}>>) => Occurs(c, Q)
  <2> DEFINE last == <<{z}>>
  <2> HIDE DEF last, P
  <2>1. Ordered(last, S, 3, 3)
    BY <1>4 DEF last
  <2>2. /\ Ordered(P \o last, S, 1, 3)
        /\ \A c : Occurs(c, P) \/ Occurs(c, last) => Occurs(c, P \o last)
    BY <1>5, <2>1, JoinOrdered
  <2> QED
    BY <2>2, Zenon DEF last
<1> HIDE DEF Q, P
<1>7. /\ Occurs(o, Q) /\ Occurs(z, Q)
      /\ \A i \in 1..Len(Job.data) : Occurs(Chunks(Job, b)[i], Q)
  BY <1>3, <1>4, <1>5, <1>6, Zenon
<1>8. CASE txo.writer # NoKey
  <2>1. InitCalls \o Q = Q
    BY <1>6, <1>8 DEF InitCalls, Ordered
  <2> QED
    BY <1>6, <1>7, <1>8, <2>1, Zenon DEF IsPlan, Ordered, S, o, z, P, Q
<1>9. CASE txo.writer = NoKey
  <2> DEFINE first == InitCalls
  <2>1. Ordered(first, S, 0, 0) /\ Occurs(InitCall, first)
    <3>1. Ordered(<<{InitCall}>>, S, 0, 0) /\ Occurs(InitCall, <<{InitCall}>>)
      BY <1>0, <1>1, OneStage, Zenon
    <3>2. InitCalls = <<{InitCall}>>
      BY <1>9 DEF InitCalls, InitCall
    <3> QED
      BY <3>1, <3>2
  <2> HIDE DEF first
  <2>2. /\ Ordered(first \o Q, S, 0, 3)
        /\ \A c : Occurs(c, first) \/ Occurs(c, Q) => Occurs(c, first \o Q)
    BY <1>6, <2>1, JoinOrdered
  <2>3. IsPlan(first \o Q, b)
    BY <1>7, <2>1, <2>2 DEF IsPlan, Ordered, S, o, z
  <2> QED
    BY <2>3 DEF first, Q, P, o, z
<1> QED
  BY <1>8, <1>9
-----------------------------------------------------------------------------
(* Steps that leave the account alone. *)

(* Nothing is under way at first. *)
LEMMA UploadStart == TxoInit => UploadInv
<1> SUFFICES ASSUME TxoInit
             PROVE  UploadInv
  OBVIOUS
<1>1. TxoType
  BY DEF TxoInit, NoTxoBuffer, TxoType, TxoRecord
<1>2. ClientType
  BY DEF TxoInit, ClientInit, ClientType, States
<1>3. FlightInv /\ SessionInv
  BY DEF TxoInit, ClientInit, FlightInv, SessionInv
<1>4. FinalizedIsOneUpload
  BY DEF TxoInit, NoTxoBuffer, FinalizedIsOneUpload
<1> QED
  BY <1>1, <1>2, <1>3, <1>4 DEF UploadInv

(* Transactions expire, land, or are sent again: no new call. *)
NothingNew ==
  \A t \in inflight' :
    /\ t = [n |-> t.n, call |-> t.call, try |-> t.try]
    /\ \E u \in inflight : u.call = t.call

(* A call stays sound while the buffer and the list are the same. *)
LEMMA SoundKept ==
  ASSUME UNCHANGED txo, session'.job = session.job, NEW c, Sound(c)
  PROVE  Sound(c)'
  BY DEF Sound, Opening, Closing, Writes, Opened, Written, Job, SetLen, Chunks

(* The calls in flight stay sound while none is added. *)
LEMMA FlightKept ==
  ASSUME UNCHANGED txo, session'.job = session.job, FlightInv, NothingNew
  PROVE  FlightInv'
<1> SUFFICES ASSUME NEW t \in inflight'
             PROVE  Sound(t.call)'
  BY DEF FlightInv
<1>1. PICK u \in inflight : u.call = t.call
  BY DEF NothingNew
<1> QED
  BY <1>1, SoundKept DEF FlightInv

(* No call appears by itself. *)
LEMMA NoneAfterKept ==
  ASSUME NothingNew, NEW b, NoneAfter(b)
  PROVE  NoneAfter(b)'
  BY DEF NoneAfter, NothingNew

(* A buffer that is not touched stays whole. *)
LEMMA FinalizedKept ==
  ASSUME UNCHANGED txo, FinalizedIsOneUpload
  PROVE  FinalizedIsOneUpload'
  BY DEF FinalizedIsOneUpload, Readable

(* The upload ends, with an error or because the process dies. *)
LEMMA Abandons ==
  ASSUME UploadInv, UNCHANGED txo, session' = Abandoned, NothingNew
  PROVE  UploadInv'
<1>1. /\ session'.state = "idle" /\ session'.job = session.job
      /\ session'.waiting = NoCalls
      /\ session' = [state |-> "idle", job |-> session.job, n |-> session.n,
                     stages |-> <<>>, waiting |-> NoCalls]
  BY Zenon DEF UploadInv, ClientType, Abandoned
<1>2. TxoType' /\ FinalizedIsOneUpload'
  BY FinalizedKept DEF UploadInv, TxoType
<1>3. FlightInv'
  BY <1>1, FlightKept DEF UploadInv
<1>4. ClientType'
  BY <1>1 DEF UploadInv, ClientType, NothingNew, States
<1>5. SessionInv'
  BY <1>1 DEF SessionInv
<1> QED
  BY <1>2, <1>3, <1>4, <1>5 DEF UploadInv

(* The upload goes on, waiting for the same calls. *)
LEMMA GoesOn ==
  ASSUME UploadInv, UNCHANGED txo, NothingNew,
         session' = [state |-> session.state, job |-> session.job, n |-> session.n,
                     stages |-> session.stages, waiting |-> session'.waiting],
         DOMAIN session'.waiting = DOMAIN session.waiting,
         session.state # "running" => session'.waiting = session.waiting
  PROVE  UploadInv'
<1>1. /\ session'.state = session.state /\ session'.job = session.job
      /\ session'.stages = session.stages
  OBVIOUS
<1>2. TxoType' /\ FinalizedIsOneUpload'
  BY FinalizedKept DEF UploadInv, TxoType
<1>3. FlightInv'
  BY <1>1, FlightKept DEF UploadInv
<1>4. ClientType'
  BY <1>1 DEF UploadInv, ClientType, NothingNew
<1>5. Job' = Job
  BY <1>1 DEF Job
<1>6. ASSUME session.state = "running"
      PROVE  \E b \in {txo.batch, txo.batch + 1} : RunInv(b)'
  <2>1. PICK b \in {txo.batch, txo.batch + 1} : RunInv(b)
    BY <1>6 DEF UploadInv, SessionInv
  <2>2. NoneAfter(b)'
    BY <2>1, NoneAfterKept DEF RunInv
  <2>3. /\ PlanCalls(b)' = PlanCalls(b) /\ Opening(b)' = Opening(b)
        /\ Closing(b)' = Closing(b) /\ Chunks(Job, b)' = Chunks(Job, b)
        /\ Opened' = Opened /\ Written' = Written
    BY <1>5 DEF PlanCalls, Opening, Closing, Writes, Opened, Written
  <2>4. \A c : Coming(c)' = Coming(c)
    BY <1>1 DEF Coming
  <2>5. RunInv(b)'
    BY <1>1, <1>5, <2>1, <2>2, <2>3, <2>4 DEF RunInv
  <2> QED
    BY <2>5
<1>7. ASSUME session.state = "returned"
      PROVE  (txo.finalized /\ Written /\ NoneAfter(txo.batch))'
  <2>1. txo.finalized /\ Written /\ NoneAfter(txo.batch)
    BY <1>7 DEF UploadInv, SessionInv
  <2> QED
    BY <2>1, <1>5, NoneAfterKept DEF Written, Opened, NoneAfter, NothingNew
<1>8. SessionInv'
  BY <1>1, <1>6, <1>7 DEF SessionInv
<1> QED
  BY <1>2, <1>3, <1>4, <1>8 DEF UploadInv

(* A retry sends the same call. *)
LEMMA SameCallAgain ==
  ASSUME ClientType, NEW t \in inflight
  PROVE  LET u == [t EXCEPT !.try = @ + 1]
         IN  u.call = t.call /\ u = [n |-> u.n, call |-> u.call, try |-> u.try]
<1>1. t = [n |-> t.n, call |-> t.call, try |-> t.try]
  BY DEF ClientType
<1>2. [t EXCEPT !.try = @ + 1] = [n |-> t.n, call |-> t.call, try |-> t.try + 1]
  BY <1>1
<1> QED
  BY <1>2

(* An awaited call is answered with an error. *)
LEMMA Retries ==
  ASSUME UploadInv, UNCHANGED txo, NEW t \in inflight, Awaited(t),
         NEW others \in SUBSET inflight, Retry(t, others)
  PROVE  UploadInv'
<1>1. ClientType
  BY DEF UploadInv
<1>2. CASE t.try < MaxRetries
  <2>1. /\ session' = [session EXCEPT !.waiting[t.call] = t.try + 1]
        /\ inflight' = others \cup {[t EXCEPT !.try = @ + 1]}
    BY <1>2 DEF Retry
  <2>2. NothingNew
    BY <1>1, <2>1, SameCallAgain DEF NothingNew, ClientType
  <2>3. /\ session' = [state |-> session.state, job |-> session.job, n |-> session.n,
                       stages |-> session.stages, waiting |-> session'.waiting]
        /\ session'.waiting = [session.waiting EXCEPT ![t.call] = t.try + 1]
    BY <1>1, <2>1 DEF ClientType
  <2>4. DOMAIN session'.waiting = DOMAIN session.waiting
    BY <2>3
  <2>5. session.state = "running"
    BY DEF Awaited, Working
  <2> QED
    BY <2>2, <2>3, <2>4, <2>5, GoesOn
<1>3. CASE ~(t.try < MaxRetries)
  <2>1. session' = Abandoned /\ inflight' = others
    BY <1>3 DEF Retry
  <2>2. NothingNew
    BY <1>1, <2>1 DEF NothingNew, ClientType
  <2> QED
    BY <2>1, <2>2, Abandons
<1> QED
  BY <1>2, <1>3

(* A call that nobody waits for may vanish. *)
LEMMA Quiet ==
  ASSUME UploadInv, UNCHANGED <<txo, session>>, inflight' \subseteq inflight
  PROVE  UploadInv'
<1>1. NothingNew
  BY DEF NothingNew, UploadInv, ClientType
<1>2. session' = [state |-> session.state, job |-> session.job, n |-> session.n,
                  stages |-> session.stages, waiting |-> session'.waiting]
  BY DEF UploadInv, ClientType
<1> QED
  BY <1>1, <1>2, GoesOn

(* A call that is refused is sent again or ends the upload. *)
LEMMA UploadRefused ==
  ASSUME UploadInv, UNCHANGED txo, NEW t \in inflight, Refused(t)
  PROVE  UploadInv'
<1>1. CASE Awaited(t)
  <2>1. Retry(t, inflight \ {t}) /\ inflight \ {t} \in SUBSET inflight
    BY <1>1 DEF Refused
  <2> QED
    BY <1>1, <2>1, Retries
<1>2. CASE ~Awaited(t)
  BY <1>2, Quiet DEF Refused
<1> QED
  BY <1>1, <1>2

(* An upload begins; calls of an earlier one may still be in flight. *)
LEMMA UploadBegin ==
  ASSUME UploadInv, UNCHANGED txo, Begin
  PROVE  UploadInv'
<1>1. /\ session' = [state |-> "ensure", job |-> session.job, n |-> session'.n,
                     stages |-> session.stages, waiting |-> session.waiting]
      /\ session.state = "idle" /\ session.job <= Len(Jobs) /\ inflight' = inflight
  BY Zenon DEF Begin, UploadInv, ClientType
<1>2. /\ session'.state = "ensure" /\ session'.job = session.job
      /\ session'.waiting = session.waiting
  BY <1>1
<1>3. session.job \in 1..Len(Jobs)
  <2>1. Len(Jobs) \in Nat /\ session.job \in Nat \ {0}
    BY TxoUploadAssumption DEF TxoUploadConstants, UploadInv, ClientType
  <2> QED
    BY <1>1, <2>1
<1>4. NothingNew
  BY <1>1 DEF NothingNew, UploadInv, ClientType
<1>5. TxoType' /\ FinalizedIsOneUpload' /\ FlightInv'
  BY <1>2, <1>4, FinalizedKept, FlightKept DEF UploadInv, TxoType
<1>6. ClientType'
  BY <1>1, <1>2, <1>3, <1>4 DEF ClientType, UploadInv, NothingNew, States
<1>7. SessionInv'
  BY <1>2 DEF SessionInv
<1> QED
  BY <1>5, <1>6, <1>7 DEF UploadInv

(* An upload begins, is told of an error, gives a call up, or dies. *)
LEMMA UploadClientStep ==
  ASSUME UploadInv, UNCHANGED txo, ClientStep, ~NextStage
  PROVE  UploadInv'
<1>1. CASE Begin
  BY <1>1, UploadBegin
<1>2. ASSUME NEW t \in inflight, LoseReply(t)
      PROVE  UploadInv'
  <2>1. Awaited(t) /\ Retry(t, inflight) /\ inflight \in SUBSET inflight
    BY <1>2 DEF LoseReply
  <2> QED
    BY <2>1, Retries
<1>3. ASSUME NEW t \in inflight, Expire(t)
      PROVE  UploadInv'
  BY <1>3, Quiet DEF Expire
<1>4. CASE Crash
  <2>1. NothingNew
    BY <1>4 DEF Crash, NothingNew, UploadInv, ClientType
  <2> QED
    BY <1>4, <2>1, Abandons DEF Crash
<1> QED
  BY <1>1, <1>2, <1>3, <1>4 DEF ClientStep

(* The batch is new, or the account is: nothing of it is in the account. *)
LEMMA UploadPlan ==
  ASSUME UploadInv, PlanUpload
  PROVE  UploadInv'
<1>1. PICK client \in Clients :
        Plan(InitCalls \o
             CASE client = "parallel"   -> ParallelStages(Job, NextBatch)
               [] client = "sequential" -> SequentialStages(Job, NextBatch)
               [] client = "js"         -> JsStages(Job, NextBatch))
  BY Zenon DEF PlanUpload
<1> DEFINE stages == session'.stages
<1>2. TxoType /\ ClientType /\ FlightInv /\ UNCHANGED txo
  BY DEF UploadInv, PlanUpload
<1>0. PICK b \in Nat : b = NextBatch
  BY <1>2 DEF NextBatch, TxoType, TxoRecord
<1>3. session.state = "ensure" /\ inflight' = inflight
  BY <1>1 DEF Plan
<1>4. session.job \in 1..Len(Jobs) /\ session.waiting = NoCalls
  BY <1>2, <1>3 DEF ClientType
<1>5. /\ txo.batch \in Nat /\ b \in Nat
      /\ txo.writer # NoKey => b = txo.batch + 1
      /\ txo.writer = NoKey => b = txo.batch /\ ~txo.finalized
  BY <1>0, <1>2 DEF NextBatch, TxoType, TxoRecord
<1>6. PICK writes \in Seq(SUBSET Writes(b)) :
        /\ \A i \in 1..Len(Job.data) : Occurs(Chunks(Job, b)[i], writes)
        /\ session' = [session EXCEPT !.state = "running",
             !.stages = InitCalls \o (<<{Opening(b)}>> \o writes \o <<{Closing(b)}>>)]
  <2> DEFINE C == Chunks(Job, b)
             W == Writes(b)
             n == Len(Job.data)
  <2>1. C \in Seq(W) /\ Len(C) = n /\ n \in Nat /\ \A i \in 1..n : C[i] \in W
    BY <1>4, ChunkFacts, JobFacts
  <2>2. CASE client = "parallel"
    <3>1. /\ Batched(C, Window) \in Seq(SUBSET W)
          /\ \A i \in 1..n : Occurs(C[i], Batched(C, Window))
      <4> HIDE DEF C, W, n
      <4>1. Window \in Nat \ {0}
        BY TxoUploadAssumption DEF TxoUploadConstants
      <4> QED
        BY <2>1, <4>1, BatchedFacts, SMTT(60) DEF Occurs
    <3>2. session' = [session EXCEPT !.state = "running",
            !.stages = InitCalls \o
              (<<{Opening(b)}>> \o Batched(C, Window) \o <<{Closing(b)}>>)]
      BY <1>0, <1>1, <2>2 DEF Plan, ParallelStages, Opening, Closing
    <3> QED
      BY <3>1, <3>2, Zenon
  <2>3. CASE client \in {"sequential", "js"}
    <3> DEFINE each == [i \in 1..n |-> {C[i]}]
    <3>1. each \in Seq(SUBSET W) /\ \A i \in 1..n : Occurs(C[i], each)
      <4> HIDE DEF C, W, n
      <4>1. each \in Seq(SUBSET W) /\ Len(each) = n /\ \A i \in 1..n : each[i] = {C[i]}
        BY <2>1
      <4> QED
        BY <4>1, Zenon DEF Occurs
    <3>2. session' = [session EXCEPT !.state = "running",
            !.stages = InitCalls \o (<<{Opening(b)}>> \o each \o <<{Closing(b)}>>)]
      BY <1>0, <1>1, <2>3, Zenon DEF Plan, SequentialStages, JsStages, Opening, Closing
    <3> QED
      BY <3>1, <3>2, Zenon
  <2> QED
    BY <2>2, <2>3, TxoUploadAssumption, Zenon DEF TxoUploadConstants
<1>7. /\ session' = [state |-> "running", job |-> session.job, n |-> session.n,
                     stages |-> stages, waiting |-> NoCalls]
      /\ stages = InitCalls \o (<<{Opening(b)}>> \o writes \o <<{Closing(b)}>>)
  BY <1>2, <1>4, <1>6, Zenon DEF ClientType
<1>8. IsPlan(stages, b)
  BY <1>4, <1>5, <1>6, <1>7, PlanFacts, Zenon
<1> HIDE DEF stages
<1>9. session'.state = "running" /\ session'.job = session.job
      /\ session'.waiting = NoCalls /\ session'.stages = stages
  BY <1>7 DEF stages
<1>10. NothingNew
  BY <1>2, <1>3 DEF NothingNew, ClientType
<1>11. TxoType' /\ FinalizedIsOneUpload' /\ FlightInv'
  BY <1>2, <1>9, <1>10, FinalizedKept, FlightKept DEF UploadInv, TxoType
<1>12. ClientType'
  BY <1>2, <1>4, <1>7, <1>9, <1>10 DEF ClientType, NothingNew, States
<1>13. NoneAfter(b)
  BY <1>2, <1>5 DEF FlightInv, NoneAfter, Sound, TxoType, TxoRecord
<1>14. RunInv(b)'
  <2>1. Job' = Job
    BY <1>9 DEF Job
  <2>2. /\ PlanCalls(b)' = PlanCalls(b) /\ Opening(b)' = Opening(b)
        /\ Closing(b)' = Closing(b) /\ Chunks(Job, b)' = Chunks(Job, b)
    BY <2>1 DEF PlanCalls, Opening, Closing, Writes
  <2>3. \A c : Occurs(c, stages) => Coming(c)'
    BY <1>9 DEF Occurs, Coming
  <2>4. DOMAIN session'.waiting = {}
    BY <1>9 DEF NoCalls
  <2>5. NoneAfter(b)'
    BY <1>10, <1>13, NoneAfterKept
  <2>6. ~(txo.batch = b /\ txo.finalized)
    BY <1>5
  <2> QED
    BY <1>2, <1>8, <1>9, <2>1, <2>2, <2>3, <2>4, <2>5, <2>6 DEF RunInv, IsPlan
<1>15. SessionInv'
  BY <1>2, <1>5, <1>9, <1>14 DEF SessionInv
<1> QED
  BY <1>11, <1>12, <1>15 DEF UploadInv

(* The calls of a plan are of three kinds. *)
LEMMA PlanCallFacts ==
  ASSUME session.job \in 1..Len(Jobs), NEW b, NEW c \in PlanCalls(b)
  PROVE  \/ c = InitCall
         \/ c \in {Opening(b), Closing(b)} /\ c.op = "set_len" /\ c.batch = b
         \/ c \in Writes(b) /\ c.op = "write" /\ c.batch = b
<1>1. CASE c \in Writes(b)
  BY <1>1, ChunkFacts
<1>2. CASE c \in {Opening(b), Closing(b)}
  BY <1>2 DEF Opening, Closing, SetLen
<1> QED
  BY <1>1, <1>2 DEF PlanCalls

(* All that is left to an upload when its calls have been confirmed. *)
LEMMA WrittenWhen ==
  ASSUME session.job \in 1..Len(Jobs), TxoType, Opened,
         \A i \in 1..Len(Job.data) : txo.body[i] = Job.data[i]
  PROVE  Written
<1> DEFINE d == Job.data
           e == txo.body
<1>1. d \in Seq(Cells) /\ e \in Seq(Cells) /\ Len(e) = Len(d)
  BY JobFacts DEF Opened, TxoType, TxoRecord
<1>2. \A i \in 1..Len(d) : e[i] = d[i]
  OBVIOUS
<1> HIDE DEF d, e
<1>3. e = d
  BY <1>1, <1>2
<1> QED
  BY <1>3 DEF Written, d, e

(* An upload returns when all its calls have landed. *)
LEMMA UploadReturns ==
  ASSUME UploadInv, UNCHANGED txo, NextStage, session.stages = <<>>
  PROVE  UploadInv'
<1>1. /\ session.state = "running" /\ session.waiting = NoCalls
      /\ session' = [session EXCEPT !.state = "returned"] /\ inflight' = inflight
  BY DEF NextStage, Working
<1>2. TxoType /\ ClientType /\ FlightInv /\ session.job \in 1..Len(Jobs)
  BY <1>1 DEF UploadInv, ClientType
<1>3. PICK b \in {txo.batch, txo.batch + 1} : RunInv(b)
  BY <1>1 DEF UploadInv, SessionInv
<1>4. \A c : ~Coming(c)
  BY <1>1 DEF Coming, NoCalls
<1>5. txo.batch = b /\ txo.finalized /\ Written /\ NoneAfter(txo.batch)
  BY <1>3, <1>4 DEF RunInv
<1>6. session' = [state |-> "returned", job |-> session.job, n |-> session.n,
                  stages |-> session.stages, waiting |-> session.waiting]
  BY <1>1, <1>2 DEF ClientType
<1>7. /\ session'.state = "returned" /\ session'.job = session.job
      /\ session'.waiting = session.waiting
  BY <1>6
<1>8. NothingNew
  BY <1>1, <1>2 DEF NothingNew, ClientType
<1>9. TxoType' /\ FinalizedIsOneUpload' /\ FlightInv'
  BY <1>2, <1>7, <1>8, FinalizedKept, FlightKept DEF UploadInv, TxoType
<1>10. ClientType'
  BY <1>1, <1>2, <1>6, <1>7, <1>8 DEF ClientType, NothingNew, States
<1>11. SessionInv'
  BY <1>1, <1>5, <1>7 DEF SessionInv, Written, Opened, NoneAfter, Job
<1> QED
  BY <1>9, <1>10, <1>11 DEF UploadInv

(* The next stage is sent: by the order of the stages the account is ready *)
(* for each of its calls.                                                  *)
LEMMA UploadSends ==
  ASSUME UploadInv, UNCHANGED txo, NextStage, session.stages # <<>>
  PROVE  UploadInv'
<1> DEFINE stages == session.stages
           h == Head(stages)
           waiting == [c \in h |-> 0]
<1>1. /\ session.state = "running" /\ session.waiting = NoCalls
      /\ session' = [session EXCEPT !.stages = Tail(@), !.waiting = waiting]
      /\ inflight' = inflight \cup Transactions(session.n, waiting)
  BY DEF NextStage, Working
<1>2. TxoType /\ ClientType /\ FlightInv /\ session.job \in 1..Len(Jobs)
  BY <1>1 DEF UploadInv, ClientType
<1>3. PICK b \in {txo.batch, txo.batch + 1} : RunInv(b)
  BY <1>1 DEF UploadInv, SessionInv
<1>4. /\ stages \in Seq(SUBSET PlanCalls(b)) /\ Len(stages) \in Nat \ {0}
      /\ h = stages[1] /\ h \subseteq PlanCalls(b)
      /\ Tail(stages) \in Seq(SUBSET PlanCalls(b))
      /\ Len(Tail(stages)) = Len(stages) - 1
      /\ \A i \in 1..Len(Tail(stages)) : i + 1 \in 1..Len(stages) /\ Tail(stages)[i] = stages[i + 1]
  <2> DEFINE S == SUBSET PlanCalls(b)
  <2>1. stages \in Seq(S) /\ stages # <<>>
    BY <1>3 DEF RunInv
  <2> HIDE DEF S, stages
  <2>2. /\ Len(stages) \in Nat \ {0} /\ h = stages[1] /\ h \in S
        /\ Tail(stages) \in Seq(S) /\ Len(Tail(stages)) = Len(stages) - 1
        /\ \A i \in 1..Len(Tail(stages)) : i + 1 \in 1..Len(stages) /\ Tail(stages)[i] = stages[i + 1]
    BY <2>1
  <2> QED
    BY <2>1, <2>2 DEF S
<1>5. \A c : ~Coming(c) \/ \E i \in 1..Len(stages) : c \in stages[i]
  BY <1>1 DEF Coming, NoCalls
<1>6. \A c \in h : \A d : Coming(d) => Rank(c) <= Rank(d)
  BY <1>3, <1>4, <1>5 DEF RunInv, InOrder
<1>7. /\ session' = [state |-> "running", job |-> session.job, n |-> session.n,
                     stages |-> Tail(stages), waiting |-> waiting]
      /\ session'.state = "running" /\ session'.job = session.job
      /\ session'.stages = Tail(stages) /\ session'.waiting = waiting
  BY <1>1, <1>2, Zenon DEF ClientType
<1>8. \A c \in h : Sound(c) /\ (c = InitCall \/ c.batch <= b)
  <2> SUFFICES ASSUME NEW c \in h, c # InitCall
               PROVE  Sound(c) /\ c.batch <= b
    BY DEF Sound
  <2>1. /\ Rank(InitCall) = 0 /\ Rank(Opening(b)) = 1
        /\ \A d \in Writes(b) : Rank(d) = 2
        /\ Rank(Closing(b)) = 3
    BY <1>2, Ranks
  <2>2. /\ c \in {Opening(b), Closing(b)} \cup Writes(b)
        /\ c.op \in {"set_len", "write"} /\ c.batch = b
    BY <1>2, <1>4, PlanCallFacts
  <2>3. txo.batch \in Nat /\ b \in Nat
    BY <1>2, <1>3 DEF TxoType, TxoRecord
  <2>4. txo.writer # NoKey
    <3>1. ~Coming(InitCall)
      BY <1>6, <2>1, <2>2
    <3> QED
      BY <1>3, <3>1 DEF RunInv
  <2>5. CASE c = Opening(b)
    BY <1>2, <1>3, <2>2, <2>3, <2>4, <2>5 DEF Sound
  <2>6. ASSUME c # Opening(b)
        PROVE  txo.batch = b /\ Opened
    <3>1. ~Coming(Opening(b))
      BY <1>6, <2>1, <2>2, <2>6
    <3> QED
      BY <1>3, <3>1 DEF RunInv
  <2>7. CASE c \in Writes(b) /\ c # Opening(b)
    BY <1>2, <2>2, <2>3, <2>4, <2>6, <2>7 DEF Sound
  <2>8. CASE c = Closing(b) /\ c # Opening(b)
    <3>1. \A i \in 1..Len(Job.data) : ~Coming(Chunks(Job, b)[i])
      <4>1. \A i \in 1..Len(Job.data) : Chunks(Job, b)[i] \in Writes(b)
        BY <1>2, ChunkFacts
      <4>2. \A i \in 1..Len(Job.data) : Rank(Chunks(Job, b)[i]) = 2
        BY <2>1, <4>1
      <4> QED
        BY <1>6, <2>1, <2>8, <4>2
    <3>2. \A i \in 1..Len(Job.data) : txo.body[i] = Job.data[i]
      BY <1>3, <3>1 DEF RunInv
    <3>3. Written
      BY <1>2, <2>6, <2>8, <3>2, WrittenWhen
    <3> QED
      BY <1>2, <2>2, <2>3, <2>4, <2>6, <2>8, <3>3 DEF Sound
  <2> QED
    BY <2>2, <2>5, <2>7, <2>8
<1>9. \A t \in inflight' :
        \/ t \in inflight
        \/ t.call \in h /\ t = [n |-> t.n, call |-> t.call, try |-> t.try]
  BY <1>1 DEF Transactions
<1>10. FlightInv'
  <2> SUFFICES ASSUME NEW t \in inflight'
               PROVE  Sound(t.call)'
    BY DEF FlightInv
  <2>1. Sound(t.call)
    BY <1>2, <1>8, <1>9 DEF FlightInv
  <2> QED
    BY <1>7, <2>1, SoundKept
<1>11. NoneAfter(b)'
  BY <1>3, <1>8, <1>9 DEF RunInv, NoneAfter
<1>12. TxoType' /\ FinalizedIsOneUpload'
  BY FinalizedKept DEF UploadInv, TxoType
<1>13. ClientType'
  BY <1>2, <1>7, <1>9 DEF ClientType, States
<1> HIDE DEF stages, h
<1>14. \A c : Coming(c) => Coming(c)'
  <2> SUFFICES ASSUME NEW c, NEW i \in 1..Len(stages), c \in stages[i]
               PROVE  Coming(c)'
    BY <1>5
  <2>1. CASE i = 1
    BY <1>4, <1>7, <2>1 DEF Coming
  <2>2. CASE i # 1
    <3>1. i - 1 \in 1..Len(Tail(stages)) /\ (i - 1) + 1 = i
      BY <1>4, <2>2
    <3>2. c \in Tail(stages)[i - 1]
      BY <1>4, <3>1
    <3> QED
      BY <1>7, <3>1, <3>2 DEF Coming
  <2> QED
    BY <2>1, <2>2
<1>15. InOrder(Tail(stages))
  <2>1. InOrder(stages)
    BY <1>3 DEF RunInv, stages
  <2> SUFFICES ASSUME NEW i \in 1..Len(Tail(stages)), NEW j \in 1..Len(Tail(stages)), i <= j,
                      NEW c \in Tail(stages)[i], NEW d \in Tail(stages)[j]
               PROVE  Rank(c) <= Rank(d)
    BY DEF InOrder
  <2>2. /\ i + 1 \in 1..Len(stages) /\ j + 1 \in 1..Len(stages) /\ i + 1 <= j + 1
        /\ c \in stages[i + 1] /\ d \in stages[j + 1]
    BY <1>4
  <2> QED
    BY <2>1, <2>2 DEF InOrder
<1>16. RunInv(b)'
  <2>1. Job' = Job
    BY <1>7 DEF Job
  <2>2. /\ PlanCalls(b)' = PlanCalls(b) /\ Opening(b)' = Opening(b)
        /\ Closing(b)' = Closing(b) /\ Chunks(Job, b)' = Chunks(Job, b)
        /\ Opened' = Opened /\ Written' = Written
    BY <2>1 DEF PlanCalls, Opening, Closing, Writes, Opened, Written
  <2>3. DOMAIN session'.waiting \subseteq PlanCalls(b)
    BY <1>4, <1>7
  <2> QED
    BY <1>3, <1>4, <1>7, <1>11, <1>14, <1>15, <2>1, <2>2, <2>3 DEF RunInv
<1>17. SessionInv'
  BY <1>3, <1>7, <1>16 DEF SessionInv
<1> QED
  BY <1>10, <1>12, <1>13, <1>17 DEF UploadInv

(* The block update reads the buffer and finds the list. *)
LEMMA UploadConsumed ==
  ASSUME UploadInv, BlockUpdate
  PROVE  UploadInv'
<1>1. /\ session.state = "returned" /\ inflight' = inflight /\ UNCHANGED txo
      /\ session' = [Abandoned EXCEPT !.job = IF Readable(Job) THEN @ + 1 ELSE @]
  BY DEF BlockUpdate, Consume
<1>2. TxoType /\ ClientType /\ FlightInv
  BY DEF UploadInv
<1>3. txo.finalized /\ NoneAfter(txo.batch)
  BY <1>1 DEF UploadInv, SessionInv
<1>4. /\ session' = [state |-> "idle", job |-> session'.job, n |-> session.n,
                     stages |-> <<>>, waiting |-> NoCalls]
      /\ session'.job = session.job + 1 \/ session'.job = session.job
  BY <1>1, <1>2, Zenon DEF ClientType, Abandoned
<1>5. session'.state = "idle" /\ session'.waiting = NoCalls /\ session'.job \in Nat \ {0}
  BY <1>2, <1>4 DEF ClientType
<1>6. TxoType' /\ FinalizedIsOneUpload'
  BY <1>1, FinalizedKept DEF UploadInv, TxoType
<1>7. ClientType'
  BY <1>1, <1>2, <1>4, <1>5 DEF ClientType, States
<1>8. FlightInv'
  <2> SUFFICES ASSUME NEW t \in inflight, t.call # InitCall
               PROVE  Sound(t.call)'
    BY <1>1 DEF FlightInv, Sound
  <2>1. Sound(t.call) /\ t.call.batch <= txo.batch /\ txo.batch \in Nat
    BY <1>2, <1>3 DEF FlightInv, NoneAfter, TxoType, TxoRecord
  <2> QED
    BY <1>1, <1>3, <2>1 DEF Sound
<1>9. SessionInv'
  BY <1>5 DEF SessionInv
<1> QED
  BY <1>6, <1>7, <1>8, <1>9 DEF UploadInv
-----------------------------------------------------------------------------
(* Transactions that are executed. *)

(* A call that lands is not waited for any more. *)
LEMMA LandedFacts ==
  ASSUME ClientType, NEW t \in inflight, Landed(t)
  PROVE  /\ ClientType'
         /\ inflight' \subseteq inflight
         /\ session'.state = session.state /\ session'.job = session.job
         /\ session'.stages = session.stages
         /\ DOMAIN session'.waiting \subseteq DOMAIN session.waiting
         /\ \A c : Coming(c) /\ c # t.call => Coming(c)'
<1>1. inflight' \subseteq inflight
  BY DEF Landed
<1>2. CASE Awaited(t)
  <2>1. session' = [session EXCEPT !.waiting = Restrict(@, DOMAIN @ \ {t.call})]
    BY <1>2 DEF Landed
  <2>2. /\ session' = [state |-> session.state, job |-> session.job, n |-> session.n,
                       stages |-> session.stages, waiting |-> session'.waiting]
        /\ session'.waiting = Restrict(session.waiting, DOMAIN session.waiting \ {t.call})
    BY <2>1 DEF ClientType
  <2>3. DOMAIN session'.waiting = DOMAIN session.waiting \ {t.call}
    BY <2>2 DEF Restrict
  <2>4. /\ session'.state = session.state /\ session'.job = session.job
        /\ session'.stages = session.stages /\ session.state = "running"
    BY <1>2, <2>2 DEF Awaited, Working
  <2>5. ClientType'
    BY <1>1, <2>2, <2>4 DEF ClientType
  <2> QED
    BY <1>1, <2>3, <2>4, <2>5 DEF Coming
<1>3. CASE ~Awaited(t)
  BY <1>1, <1>3 DEF Landed, ClientType, Coming
<1> QED
  BY <1>2, <1>3

(* set_len changes the length of the body and nothing that stays in it. *)
LEMMA ResizedFacts ==
  ASSUME NEW body \in Seq(Cells), NEW n \in Nat
  PROVE  /\ Resized(body, n) \in Seq(Cells)
         /\ Len(Resized(body, n)) = n
         /\ Len(body) = n => Resized(body, n) = body
<1>1. Zero \in Cells
  BY DEF Cells
<1>2. \A i \in 1..n : (IF i <= Len(body) THEN body[i] ELSE Zero) \in Cells
  BY <1>1
<1>3. Resized(body, n) \in Seq(Cells) /\ Len(Resized(body, n)) = n
  BY <1>2 DEF Resized
<1>4. ASSUME Len(body) = n
      PROVE  Resized(body, n) = body
  <2>1. \A i \in 1..n : Resized(body, n)[i] = body[i]
    BY <1>4 DEF Resized
  <2> HIDE DEF Cells
  <2> QED
    BY <1>3, <1>4, <2>1
<1> QED
  BY <1>3, <1>4

(* What an executed call was, and what it has made of the account. *)
OpensAs(c, b, next) ==
  /\ c = Opening(b)
  /\ next = [writer |-> txo.writer, finalized |-> FALSE, height |-> Job.height,
             batch |-> b, size |-> Len(Job.data),
             body |-> Resized(txo.body, Len(Job.data))]

WritesAs(c, next) ==
  /\ Opened
  /\ \E i \in 1..Len(Job.data) :
       /\ c = Chunks(Job, txo.batch)[i]
       /\ next = [txo EXCEPT !.body = [@ EXCEPT ![i] = Job.data[i]]]

ClosesAs(c, next) ==
  /\ Written
  /\ c = Closing(txo.batch)
  /\ next = [txo EXCEPT !.finalized = TRUE]

(* What a sound call can do to the buffer. *)
LEMMA Executed ==
  ASSUME TxoType, NEW c, Sound(c), Execute(c)
  PROVE  \/ c = InitCall /\ txo' = [txo EXCEPT !.writer = Operator]
         \/ /\ session.job \in 1..Len(Jobs) /\ txo.writer # NoKey
            /\ \/ OpensAs(c, txo.batch + 1, txo')
               \/ ~txo.finalized /\ OpensAs(c, txo.batch, txo')
               \/ ~txo.finalized /\ WritesAs(c, txo')
               \/ ~txo.finalized /\ ClosesAs(c, txo')
<1>1. CASE c = InitCall
  BY <1>1 DEF Execute, InitCall, TxoInitialize
<1>2. CASE c # InitCall
  <2>1. /\ c.op \in {"set_len", "write"} /\ c.batch \in Nat /\ txo.writer # NoKey
        /\ c.batch = txo.batch + 1 => session.job \in 1..Len(Jobs) /\ c = Opening(c.batch)
        /\ c.batch = txo.batch /\ ~txo.finalized =>
             /\ session.job \in 1..Len(Jobs)
             /\ \/ c = Opening(c.batch)
                \/ c \in Writes(c.batch) /\ Opened
                \/ c = Closing(c.batch) /\ Written
    BY <1>2 DEF Sound
  <2>2. \/ c.op = "set_len" /\ TxoSetDataLength(SignerOf(c), c)
        \/ c.op = "write" /\ TxoWriteData(SignerOf(c), c)
    BY <2>1 DEF Execute
  <2>3. \/ c.batch = txo.batch /\ ~txo.finalized
        \/ c.batch = txo.batch + 1
    BY <2>2 DEF TxoSetDataLength, TxoWriteData, BatchAllowed
  <2>4. session.job \in 1..Len(Jobs)
    BY <2>1, <2>3
  <2>5. txo = [writer |-> txo.writer, finalized |-> txo.finalized, height |-> txo.height,
               batch |-> txo.batch, size |-> txo.size, body |-> txo.body]
    BY DEF TxoType, TxoRecord
  <2>6. ASSUME NEW b, c = Opening(b)
        PROVE  OpensAs(c, b, txo')
    <3>1. /\ c.op = "set_len" /\ c.len = Len(Job.data) /\ c.resize = TRUE
          /\ c.batch = b /\ c.height = Job.height /\ c.finalize = FALSE
      BY <2>6 DEF Opening, SetLen
    <3>2. TxoSetDataLength(SignerOf(c), c)
      BY <2>2, <3>1
    <3> QED
      BY <2>5, <2>6, <3>1, <3>2, Zenon DEF TxoSetDataLength, BatchTransition, OpensAs
  <2>7. CASE c = Opening(c.batch)
    BY <2>1, <2>3, <2>4, <2>6, <2>7
  <2>8. CASE c \in Writes(txo.batch) /\ Opened /\ ~txo.finalized
    <3>0. PICK b : b = txo.batch
      OBVIOUS
    <3>1. PICK i \in 1..Len(Job.data) :
            /\ c = Chunks(Job, b)[i]
            /\ c = [op |-> "write", batch |-> b, offset |-> i - 1, data |-> Job.data[i]]
      <4>1. \A d \in Writes(b) : \E j \in 1..Len(Job.data) :
              /\ d = Chunks(Job, b)[j]
              /\ d = [op |-> "write", batch |-> b, offset |-> j - 1, data |-> Job.data[j]]
        BY <2>4, ChunkFacts, Zenon
      <4>2. c \in Writes(b)
        BY <2>8, <3>0, Zenon
      <4> QED BY <4>1, <4>2, Zenon
    <3>2. Len(Job.data) \in Nat /\ txo.size = Len(Job.data)
      BY <2>4, <2>8, JobFacts DEF Opened
    <3>3. (i - 1) + 1 = i /\ ~(i > txo.size)
      BY <3>2
    <3>4. /\ c.op = "write" /\ c.batch = txo.batch /\ c.offset + 1 = i
          /\ c.data = Job.data[i]
      BY <3>0, <3>1, <3>3
    <3>5. TxoWriteData(SignerOf(c), c)
      BY <2>2, <3>4
    <3>6. txo' = [txo EXCEPT !.body = [@ EXCEPT ![i] = Job.data[i]]]
      <4>1. BatchTransition(txo, c.batch) = txo
        <5>1. txo.finalized = FALSE
          BY <2>8 DEF TxoType, TxoRecord
        <5> QED
          BY <2>5, <3>4, <5>1, Zenon DEF BatchTransition
      <4>2. txo' = [txo EXCEPT !.body[i] = Job.data[i],
                      !.size = IF i > @ THEN i ELSE @]
        BY <3>4, <3>5, <4>1, Zenon DEF TxoWriteData
      <4>3. (IF i > txo.size THEN i ELSE txo.size) = txo.size
        BY <3>3
      <4> QED
        BY <2>5, <4>2, <4>3, Zenon
    <3> QED
      BY <2>1, <2>4, <2>8, <3>0, <3>1, <3>6, Zenon DEF WritesAs
  <2>9. CASE c = Closing(txo.batch) /\ Written /\ ~txo.finalized
    <3>1. /\ c.op = "set_len" /\ c.len = Len(Job.data) /\ c.resize = FALSE
          /\ c.batch = txo.batch /\ c.height = Job.height /\ c.finalize = TRUE
      BY <2>9 DEF Closing, SetLen
    <3>2. TxoSetDataLength(SignerOf(c), c)
      BY <2>2, <3>1
    <3>3. txo.height = Job.height /\ txo.size = Len(Job.data)
      BY <2>9 DEF Written, Opened
    <3>4. txo' = [txo EXCEPT !.finalized = TRUE]
      BY <2>5, <3>1, <3>2, <3>3, Zenon DEF TxoSetDataLength, BatchTransition
    <3> QED
      BY <2>1, <2>4, <2>9, <3>4 DEF ClosesAs
  <2> QED
    BY <2>1, <2>3, <2>7, <2>8, <2>9
<1> QED
  BY <1>1, <1>2

(* The call that sets the buffer up. *)
LEMMA ExecutesInit ==
  ASSUME UploadInv, NEW t \in inflight, Landed(t), t.call = InitCall,
         txo' = [txo EXCEPT !.writer = Operator]
  PROVE  UploadInv'
<1>1. TxoType /\ ClientType /\ FlightInv /\ SessionInv /\ FinalizedIsOneUpload
  BY DEF UploadInv
<1>2. /\ ClientType' /\ inflight' \subseteq inflight
      /\ session'.state = session.state /\ session'.job = session.job
      /\ session'.stages = session.stages
      /\ DOMAIN session'.waiting \subseteq DOMAIN session.waiting
      /\ \A c : Coming(c) /\ c # InitCall => Coming(c)'
  BY <1>1, LandedFacts
<1>3. /\ txo' \in TxoRecord /\ txo'.writer = Operator /\ txo'.finalized = txo.finalized
      /\ txo'.height = txo.height /\ txo'.batch = txo.batch
      /\ txo'.size = txo.size /\ txo'.body = txo.body
  BY <1>1 DEF TxoType, TxoRecord
<1>4. Operator # NoKey
  BY TxoUploadAssumption DEF TxoUploadConstants
<1>5. TxoType'
  BY <1>3, <1>4 DEF TxoType
<1>6. FinalizedIsOneUpload'
  BY <1>1, <1>3 DEF FinalizedIsOneUpload, Readable
<1>7. /\ Job' = Job /\ Opened' = Opened /\ Written' = Written
      /\ \A b : Opening(b)' = Opening(b) /\ Closing(b)' = Closing(b)
  BY <1>2, <1>3 DEF Job, Opened, Written, Opening, Closing
<1>8. \A b : Writes(b)' = Writes(b) /\ Chunks(Job, b)' = Chunks(Job, b)
  BY <1>7 DEF Writes
<1>9. FlightInv'
  BY <1>1, <1>2, <1>3, <1>4, <1>7, <1>8 DEF FlightInv, Sound
<1>10. \A b : NoneAfter(b) => NoneAfter(b)'
  BY <1>2 DEF NoneAfter
<1>11. ASSUME NEW b \in {txo.batch, txo.batch + 1}, RunInv(b), session.state = "running"
       PROVE  RunInv(b)'
  <2>1. session.job \in 1..Len(Jobs)
    BY <1>1, <1>11 DEF ClientType
  <2>2. PlanCalls(b)' = PlanCalls(b)
    BY <1>7, <1>8 DEF PlanCalls
  <2>3. /\ Opening(b) # InitCall /\ Closing(b) # InitCall
        /\ \A i \in 1..Len(Job.data) : Chunks(Job, b)[i] # InitCall
    <3>1. Rank(InitCall) = 0 /\ Rank(Opening(b)) = 1 /\ Rank(Closing(b)) = 3
          /\ \A c \in Writes(b) : Rank(c) = 2
      BY <2>1, Ranks
    <3>2. \A i \in 1..Len(Job.data) : Chunks(Job, b)[i] \in Writes(b)
      BY <2>1, ChunkFacts
    <3> QED
      BY <3>1, <3>2
  <2> QED
    BY <1>2, <1>3, <1>4, <1>7, <1>8, <1>10, <1>11, <2>2, <2>3 DEF RunInv
<1>12. SessionInv'
  BY <1>1, <1>2, <1>3, <1>7, <1>10, <1>11 DEF SessionInv
<1> QED
  BY <1>2, <1>5, <1>6, <1>9, <1>12 DEF UploadInv

(* The job and its calls are the same after a call has landed. *)
SameJob ==
  /\ session'.job = session.job /\ Job' = Job
  /\ \A b : /\ Opening(b)' = Opening(b) /\ Closing(b)' = Closing(b)
            /\ Writes(b)' = Writes(b) /\ PlanCalls(b)' = PlanCalls(b)
            /\ Chunks(Job, b)' = Chunks(Job, b)

(* A call that lands does not change the list that is uploaded. *)
LEMMA LandsInJob ==
  ASSUME ClientType, NEW t \in inflight, Landed(t)
  PROVE  SameJob
<1>1. session'.job = session.job
  BY LandedFacts
<1>2. Job' = Job
  BY <1>1 DEF Job
<1> QED
  BY <1>1, <1>2 DEF SameJob, Opening, Closing, Writes, PlanCalls

(* A call of the current upload that was outstanding still is after        *)
(* another call has landed.                                                *)
LEMMA StillComing ==
  ASSUME ClientType, NEW t \in inflight, Landed(t), NEW b
  PROVE  /\ Coming(Opening(b)) /\ Opening(b) # t.call => Coming(Opening(b))'
         /\ Coming(Closing(b)) /\ Closing(b) # t.call => Coming(Closing(b))'
         /\ \A i : Coming(Chunks(Job, b)[i]) /\ Chunks(Job, b)[i] # t.call
                    => Coming(Chunks(Job, b)[i])'
<1>1. \A c : Coming(c) /\ c # t.call => Coming(c)'
  BY LandedFacts, Zenon
<1>2. /\ Opening(b)' = Opening(b) /\ Closing(b)' = Closing(b)
      /\ Chunks(Job, b)' = Chunks(Job, b)
  BY LandsInJob, Zenon DEF SameJob
<1> QED BY <1>1, <1>2, Zenon

(* The calls of one upload differ from each other, and from those of       *)
(* another batch.                                                          *)
LEMMA CallsDiffer ==
  ASSUME session.job \in 1..Len(Jobs), NEW a, NEW b
  PROVE  /\ Opening(a) # Closing(b) /\ Opening(a) # InitCall /\ Closing(a) # InitCall
         /\ \A i \in 1..Len(Job.data) :
              /\ Chunks(Job, a)[i] # Opening(b) /\ Chunks(Job, a)[i] # Closing(b)
              /\ Chunks(Job, a)[i] # InitCall
         /\ a # b => /\ Opening(a) # Opening(b) /\ Closing(a) # Closing(b)
                     /\ \A i, j \in 1..Len(Job.data) : Chunks(Job, a)[i] # Chunks(Job, b)[j]
         /\ \A i, j \in 1..Len(Job.data) :
              i # j => Chunks(Job, a)[i] # Chunks(Job, a)[j]
<1>1. \A c \in {a, b} :
        /\ Rank(Opening(c)) = 1 /\ Rank(Closing(c)) = 3
        /\ \A i \in 1..Len(Job.data) : Rank(Chunks(Job, c)[i]) = 2
        /\ Opening(c).batch = c /\ Closing(c).batch = c
  BY Ranks, ChunkFacts DEF Opening, Closing, SetLen
<1>2. Rank(InitCall) = 0
  BY Ranks
<1>3. \A c \in {a, b} : \A i \in 1..Len(Job.data) :
        Chunks(Job, c)[i].batch = c /\ Chunks(Job, c)[i].offset = i - 1
  <2> TAKE c \in {a, b}
  <2> TAKE i \in 1..Len(Job.data)
  <2>1. Chunks(Job, c)[i] = [op |-> "write", batch |-> c, offset |-> i - 1,
                             data |-> Job.data[i]]
    BY ChunkFacts, Zenon
  <2> QED
    BY <2>1
<1>4. \A i, j \in 1..Len(Job.data) : i # j => i - 1 # j - 1
  BY JobFacts
<1> QED
  BY <1>1, <1>2, <1>3, <1>4, SMTT(60)

(* A write is no call that sets the length. *)
LEMMA ChunkDiffers ==
  ASSUME session.job \in 1..Len(Jobs), NEW a, NEW b, NEW i \in 1..Len(Job.data)
  PROVE  Chunks(Job, a)[i] # Opening(b) /\ Chunks(Job, a)[i] # Closing(b)
  BY CallsDiffer, Zenon

(* A call opens a batch, or opens the current one once more. *)
LEMMA ExecutesOpening ==
  ASSUME UploadInv, NEW t \in inflight, Landed(t), NEW b,
         session.job \in 1..Len(Jobs), txo.writer # NoKey,
         b = txo.batch + 1 \/ (b = txo.batch /\ ~txo.finalized),
         OpensAs(t.call, b, txo')
  PROVE  UploadInv'
<1> DEFINE n == Len(Job.data)
<1>1. TxoType /\ ClientType /\ FlightInv /\ SessionInv
  BY DEF UploadInv
<1>2. /\ ClientType' /\ inflight' \subseteq inflight
      /\ session'.state = session.state /\ session'.stages = session.stages
      /\ DOMAIN session'.waiting \subseteq DOMAIN session.waiting
      /\ \A c : Coming(c) /\ c # t.call => Coming(c)'
      /\ SameJob
  BY <1>1, LandedFacts, LandsInJob
<1>3. /\ txo.batch \in Nat /\ b \in Nat /\ txo.body \in Seq(Cells)
      /\ n \in Nat /\ Job.height \in Nat
  BY <1>1, JobFacts DEF TxoType, TxoRecord
<1>4. t.call = Opening(b) /\ t.call.batch = b
  BY DEF OpensAs, Opening, SetLen
<1>5. /\ txo'.writer = txo.writer /\ txo'.finalized = FALSE /\ txo'.height = Job.height
      /\ txo'.batch = b /\ txo'.size = n /\ txo'.body = Resized(txo.body, n)
      /\ txo' = [writer |-> txo.writer, finalized |-> FALSE, height |-> Job.height,
                 batch |-> b, size |-> n, body |-> Resized(txo.body, n)]
  BY DEF OpensAs
<1>6. /\ Resized(txo.body, n) \in Seq(Cells) /\ Len(Resized(txo.body, n)) = n
      /\ Opened => txo'.body = txo.body
  BY <1>3, <1>5, ResizedFacts, Zenon DEF Opened
<1>7. TxoType'
  BY <1>1, <1>3, <1>5, <1>6 DEF TxoType, TxoRecord
<1>8. FinalizedIsOneUpload'
  BY <1>5 DEF FinalizedIsOneUpload
<1>9. Opened' /\ (Written => Written')
  BY <1>2, <1>5, <1>6 DEF Opened, Written, SameJob
<1>10. FlightInv'
  <2> SUFFICES ASSUME NEW u \in inflight', u.call # InitCall
               PROVE  Sound(u.call)'
    BY DEF FlightInv, Sound
  <2> DEFINE c == u.call
  <2>1. Sound(c) /\ c # InitCall
    BY <1>1, <1>2 DEF FlightInv
  <2> HIDE DEF c
  <2>2. /\ c.op \in {"set_len", "write"} /\ c.batch \in Nat /\ c.batch <= txo.batch + 1
        /\ c.batch = txo.batch + 1 => c = Opening(c.batch)
        /\ c.batch = txo.batch /\ ~txo.finalized =>
             \/ c = Opening(c.batch)
             \/ c \in Writes(c.batch) /\ Opened
             \/ c = Closing(c.batch) /\ Written
    BY <2>1 DEF Sound
  <2>3. c.batch <= b + 1 /\ (c.batch = b + 1 => c = Opening(c.batch))
    BY <1>3, <2>2, SMTT(60)
  <2>4. c.batch = b => \/ c = Opening(c.batch)
                       \/ c \in Writes(c.batch)
                       \/ c = Closing(c.batch) /\ Written
    BY <1>3, <2>2
  <2>5. Sound(c)'
    BY <1>2, <1>5, <1>9, <2>2, <2>3, <2>4, Zenon DEF Sound, SameJob
  <2> QED
    BY <2>5 DEF c
<1>11. ASSUME session.state = "running"
       PROVE  \E s \in {txo.batch, txo.batch + 1}' : RunInv(s)'
  <2>1. PICK s \in {txo.batch, txo.batch + 1} : RunInv(s)
    BY <1>1, <1>11 DEF SessionInv
  <2>2. Opening(b) # InitCall
    BY CallsDiffer
  <2>3. b <= s /\ NoneAfter(s)'
    BY <1>2, <1>4, <2>1, <2>2 DEF RunInv, NoneAfter
  <2>4. s \in Nat /\ s \in {b, b + 1} /\ (s = b \/ txo.batch # s)
    BY <1>3, <2>1, <2>3, SMTT(60)
  <2>5. Coming(Closing(s))'
    <3>1. Coming(Closing(s))
      BY <1>3, <2>1, <2>3 DEF RunInv
    <3>2. Closing(s) # t.call
      BY <1>4, CallsDiffer
    <3> QED
      BY <1>1, <3>1, <3>2, StillComing, Zenon
  <2>6. Coming(Opening(s))' \/ s = b
    <3>1. s # b => Coming(Opening(s))
      BY <2>1, <2>4 DEF RunInv
    <3>2. s # b => Opening(s) # t.call
      BY <1>4, CallsDiffer
    <3> QED
      BY <1>1, <3>1, <3>2, StillComing, Zenon
  <2>7. ASSUME NEW i \in 1..n
        PROVE  \/ Coming(Chunks(Job, s)[i])'
               \/ s = b /\ txo'.body[i] = Job.data[i]
    <3>1. CASE Coming(Chunks(Job, s)[i])
      <4>1. Chunks(Job, s)[i] # t.call
        BY <1>4, ChunkDiffers, ZenonT(60)
      <4> QED
        BY <1>1, <3>1, <4>1, StillComing, Zenon
    <3>2. CASE ~Coming(Chunks(Job, s)[i])
      <4>1. txo.batch = s /\ Opened /\ txo.body[i] = Job.data[i]
        BY <2>1, <3>2 DEF RunInv
      <4> QED
        BY <1>6, <2>4, <4>1
    <3> QED
      BY <3>1, <3>2
  <2>8. RunInv(s)'
    <3>1. /\ session'.stages \in Seq(SUBSET PlanCalls(s))
          /\ DOMAIN session'.waiting \subseteq PlanCalls(s)
          /\ InOrder(session'.stages)
      BY <1>2, <2>1, Zenon DEF RunInv
    <3> QED
      BY <1>2, <1>5, <1>9, <2>3, <2>5, <2>6, <2>7, <3>1, Zenon DEF RunInv, SameJob
  <2> QED
    BY <1>5, <2>4, <2>8
<1>12. session.state # "returned"
  <2> SUFFICES ASSUME session.state = "returned"
               PROVE  FALSE
    OBVIOUS
  <2>1. txo.finalized /\ NoneAfter(txo.batch) /\ Opening(b) # InitCall
    BY <1>1, CallsDiffer DEF SessionInv
  <2> QED
    BY <1>3, <1>4, <2>1 DEF NoneAfter
<1>13. SessionInv'
  BY <1>2, <1>11, <1>12 DEF SessionInv
<1> QED
  BY <1>2, <1>7, <1>8, <1>10, <1>13 DEF UploadInv

(* A chunk is written to the batch that is open. *)
LEMMA ExecutesWrite ==
  ASSUME UploadInv, NEW t \in inflight, Landed(t),
         session.job \in 1..Len(Jobs), txo.writer # NoKey, ~txo.finalized,
         WritesAs(t.call, txo')
  PROVE  UploadInv'
<1> DEFINE n == Len(Job.data)
<1>1. TxoType /\ ClientType /\ FlightInv /\ SessionInv
  BY DEF UploadInv
<1>2. /\ ClientType' /\ inflight' \subseteq inflight
      /\ session'.state = session.state /\ session'.stages = session.stages
      /\ DOMAIN session'.waiting \subseteq DOMAIN session.waiting
      /\ \A c : Coming(c) /\ c # t.call => Coming(c)'
      /\ SameJob
  BY <1>1, LandedFacts, LandsInJob
<1>3. PICK k \in 1..n :
        /\ t.call = Chunks(Job, txo.batch)[k]
        /\ txo' = [txo EXCEPT !.body = [@ EXCEPT ![k] = Job.data[k]]]
  BY Zenon DEF WritesAs
<1>4. /\ Opened /\ txo.body \in Seq(Cells) /\ Len(txo.body) = n /\ n \in Nat
      /\ Job.data \in Seq(Cells)
  BY <1>1, JobFacts DEF WritesAs, Opened, TxoType, TxoRecord
<1>5. /\ txo'.writer = txo.writer /\ txo'.finalized = txo.finalized
      /\ txo'.height = txo.height /\ txo'.batch = txo.batch /\ txo'.size = txo.size
      /\ txo'.body = [txo.body EXCEPT ![k] = Job.data[k]]
  BY <1>1, <1>3 DEF TxoType, TxoRecord
<1>6. /\ txo'.body \in Seq(Cells) /\ Len(txo'.body) = n
      /\ \A i \in 1..n : txo'.body[i] = IF i = k THEN Job.data[k] ELSE txo.body[i]
  <2> DEFINE e == txo.body
             x == Job.data[k]
  <2>1. e \in Seq(Cells) /\ Len(e) = n /\ x \in Cells
    BY <1>4
  <2> HIDE DEF e, x, n
  <2>2. /\ [e EXCEPT ![k] = x] \in Seq(Cells) /\ Len([e EXCEPT ![k] = x]) = n
        /\ \A i \in 1..n : [e EXCEPT ![k] = x][i] = IF i = k THEN x ELSE e[i]
    BY <2>1
  <2> QED
    BY <1>5, <2>2 DEF e, x
<1>7. txo' \in TxoRecord
  BY <1>1, <1>3, <1>5, <1>6, ZenonT(60) DEF TxoType, TxoRecord
<1>8. TxoType'
  BY <1>1, <1>5, <1>7 DEF TxoType
<1>9. FinalizedIsOneUpload'
  BY <1>5 DEF FinalizedIsOneUpload
<1>10. Opened'
  BY <1>2, <1>4, <1>5, <1>6 DEF Opened, SameJob
<1>11. Written => Written'
  <2> SUFFICES ASSUME Written
               PROVE  Written'
    OBVIOUS
  <2>1. \A i \in 1..n : txo'.body[i] = txo.body[i]
    BY <1>6 DEF Written
  <2>2. txo'.body = txo.body
    <3> DEFINE e == txo.body
               f == txo'.body
    <3>1. e \in Seq(Cells) /\ f \in Seq(Cells) /\ Len(e) = n /\ Len(f) = n
          /\ \A i \in 1..n : f[i] = e[i]
      BY <1>4, <1>6, <2>1
    <3> HIDE DEF e, f, n
    <3>2. f = e
      BY <3>1
    <3> QED
      BY <3>2 DEF e, f
  <2> QED
    BY <1>2, <1>10, <2>2 DEF Written, SameJob
<1>12. FlightInv'
  BY <1>1, <1>2, <1>5, <1>10, <1>11, SMTT(60) DEF FlightInv, Sound, SameJob
<1>13. ASSUME session.state = "running", NEW s \in {txo.batch, txo.batch + 1}, RunInv(s)
       PROVE  RunInv(s)'
  <2>1. NoneAfter(s)'
    BY <1>2, <1>13 DEF RunInv, NoneAfter
  <2>2. Coming(Closing(s))'
    <3>1. Coming(Closing(s))
      BY <1>13 DEF RunInv
    <3>2. Closing(s) # t.call
      BY <1>3, CallsDiffer, Zenon
    <3> QED
      BY <1>1, <3>1, <3>2, StillComing, ZenonT(60)
  <2>3. Coming(Opening(s))' \/ txo.batch = s
    <3>1. Opening(s) # t.call
      BY <1>3, CallsDiffer, ZenonT(60)
    <3>2. Coming(Opening(s)) \/ txo.batch = s
      BY <1>13 DEF RunInv
    <3> QED
      BY <1>1, <3>1, <3>2, StillComing, Zenon
  <2>4. ASSUME NEW i \in 1..n
        PROVE  \/ Coming(Chunks(Job, s)[i])'
               \/ txo.batch = s /\ txo'.body[i] = Job.data[i]
    <3>1. CASE Chunks(Job, s)[i] = t.call
      <4>1. s = txo.batch
        BY <1>3, <3>1, CallsDiffer, ZenonT(60)
      <4>2. i = k
        BY <1>3, <3>1, <4>1, CallsDiffer
      <4> QED
        BY <1>6, <4>1, <4>2
    <3>2. CASE Chunks(Job, s)[i] # t.call /\ Coming(Chunks(Job, s)[i])
      BY <1>1, <3>2, StillComing, Zenon
    <3>3. CASE ~Coming(Chunks(Job, s)[i])
      <4>1. txo.batch = s /\ txo.body[i] = Job.data[i]
        BY <1>13, <3>3 DEF RunInv
      <4> QED
        BY <1>6, <4>1
    <3> QED
      BY <3>1, <3>2, <3>3
  <2>5. /\ session'.stages \in Seq(SUBSET PlanCalls(s))
        /\ DOMAIN session'.waiting \subseteq PlanCalls(s)
        /\ InOrder(session'.stages)
    BY <1>2, <1>13 DEF RunInv
  <2> QED
    BY <1>2, <1>5, <1>10, <2>1, <2>2, <2>3, <2>4, <2>5, ZenonT(60) DEF RunInv, SameJob
<1>14. SessionInv'
  BY <1>1, <1>2, <1>5, <1>13 DEF SessionInv
<1> QED
  BY <1>2, <1>8, <1>9, <1>12, <1>14 DEF UploadInv

(* The batch is finalized, by a client that has written all of it. *)
LEMMA ExecutesClosing ==
  ASSUME UploadInv, NEW t \in inflight, Landed(t),
         session.job \in 1..Len(Jobs), txo.writer # NoKey, ~txo.finalized,
         ClosesAs(t.call, txo')
  PROVE  UploadInv'
<1>1. TxoType /\ ClientType /\ FlightInv /\ SessionInv /\ Written
  BY DEF UploadInv, ClosesAs
<1>2. /\ ClientType' /\ inflight' \subseteq inflight
      /\ session'.state = session.state /\ session'.stages = session.stages
      /\ DOMAIN session'.waiting \subseteq DOMAIN session.waiting
      /\ \A c : Coming(c) /\ c # t.call => Coming(c)'
      /\ SameJob
  BY <1>1, LandedFacts, LandsInJob
<1>3. /\ txo' \in TxoRecord /\ txo'.writer = txo.writer /\ txo'.finalized = TRUE
      /\ txo'.height = txo.height /\ txo'.batch = txo.batch /\ txo'.size = txo.size
      /\ txo'.body = txo.body
  BY <1>1, ZenonT(60) DEF ClosesAs, TxoType, TxoRecord
<1>4. t.call = Closing(txo.batch)
  BY DEF ClosesAs
<1>5. TxoType'
  BY <1>3 DEF TxoType
<1>6. Opened' = Opened /\ Written'
  BY <1>1, <1>2, <1>3 DEF Opened, Written, SameJob
<1>7. FinalizedIsOneUpload'
  <2>1. /\ txo'.height = Job.height /\ txo'.size = Len(Job.data) /\ txo'.body = Job.data
        /\ Job.data \in Seq(Cells) /\ Len(Job.data) \in Nat \ {0}
    BY <1>1, <1>3, JobFacts DEF Written, Opened
  <2>2. SubSeq(Job.data, 1, Len(Job.data)) = Job.data
    <3> DEFINE d == Job.data
    <3>1. d \in Seq(Cells)
      BY <2>1
    <3> HIDE DEF d
    <3>2. SubSeq(d, 1, Len(d)) = d
      BY <3>1
    <3> QED
      BY <3>2 DEF d
  <2>3. Readable(Jobs[session.job])' /\ txo'.size = Len(Jobs[session.job].data)
    BY <1>2, <2>1, <2>2 DEF Readable, Job, SameJob
  <2>4. DOMAIN Jobs = 1..Len(Jobs)
    BY TxoUploadAssumption, SMTT(60) DEF TxoUploadConstants
  <2> QED
    BY <1>2, <2>3, <2>4 DEF FinalizedIsOneUpload, SameJob
<1>8. FlightInv'
  <2> SUFFICES ASSUME NEW u \in inflight', u.call # InitCall
               PROVE  Sound(u.call)'
    BY SMTT(60) DEF FlightInv, Sound
  <2>1. Sound(u.call)
    BY <1>1, <1>2 DEF FlightInv
  <2> QED
    BY <1>2, <1>3, <2>1, ZenonT(60) DEF Sound, SameJob
<1>9. ASSUME session.state = "running", NEW s \in {txo.batch, txo.batch + 1}, RunInv(s)
      PROVE  RunInv(s)'
  <2>1. NoneAfter(s)'
    BY <1>2, <1>9, SMTT(60) DEF RunInv, NoneAfter
  <2>2. Coming(Closing(s))' \/ txo.batch = s
    <3>1. txo.batch # s => Closing(s) # t.call
      BY <1>4, CallsDiffer, ZenonT(60)
    <3>2. Coming(Closing(s)) \/ txo.batch = s
      BY <1>9 DEF RunInv
    <3> QED
      BY <1>1, <3>1, <3>2, StillComing, Zenon
  <2>3. Coming(Opening(s))' \/ (txo.batch = s /\ Opened)
    <3>1. Opening(s) # t.call
      BY <1>4, CallsDiffer
    <3>2. Coming(Opening(s)) \/ (txo.batch = s /\ Opened)
      BY <1>9 DEF RunInv
    <3> QED
      BY <1>1, <3>1, <3>2, StillComing, ZenonT(60)
  <2>4. ASSUME NEW i \in 1..Len(Job.data)
        PROVE  \/ Coming(Chunks(Job, s)[i])'
               \/ txo.batch = s /\ Opened /\ txo.body[i] = Job.data[i]
    <3>1. Chunks(Job, s)[i] # t.call
      BY <1>4, ChunkDiffers, ZenonT(60)
    <3>2. \/ Coming(Chunks(Job, s)[i])
          \/ txo.batch = s /\ Opened /\ txo.body[i] = Job.data[i]
      BY <1>9 DEF RunInv
    <3> QED
      BY <1>1, <3>1, <3>2, StillComing, Zenon
  <2>5. /\ session'.stages \in Seq(SUBSET PlanCalls(s))
        /\ DOMAIN session'.waiting \subseteq PlanCalls(s)
        /\ InOrder(session'.stages)
    BY <1>2, <1>9 DEF RunInv
  <2> QED
    BY <1>2, <1>3, <1>6, <2>1, <2>2, <2>3, <2>4, <2>5, ZenonT(60) DEF RunInv, SameJob
<1>10. SessionInv'
  BY <1>1, <1>2, <1>3, <1>9 DEF SessionInv
<1> QED
  BY <1>2, <1>5, <1>7, <1>8, <1>10 DEF UploadInv

(* Every step preserves the invariant. *)
LEMMA UploadStep ==
  ASSUME UploadInv, [TxoNext]_txoVars
  PROVE  UploadInv'
<1>1. CASE UNCHANGED txoVars
  <2>1. UNCHANGED <<txo, session>> /\ inflight' \subseteq inflight
    BY <1>1 DEF txoVars, clientVars
  <2> QED
    BY <2>1, Quiet
<1>2. CASE NextStage /\ UNCHANGED txo
  BY <1>2, UploadReturns, UploadSends
<1>3. CASE ClientStep /\ UNCHANGED txo /\ ~NextStage
  BY <1>3, UploadClientStep
<1>4. CASE PlanUpload
  BY <1>4, UploadPlan
<1>5. CASE BlockUpdate
  BY <1>5, UploadConsumed
<1>6. ASSUME NEW t \in inflight, Land(t)
      PROVE  UploadInv'
  <2>1. CASE Execute(t.call) /\ Landed(t)
    <3> DEFINE c == t.call
    <3>1. TxoType /\ Sound(c)
      BY DEF UploadInv, FlightInv
    <3> HIDE DEF c
    <3>2. \/ c = InitCall /\ txo' = [txo EXCEPT !.writer = Operator]
          \/ /\ session.job \in 1..Len(Jobs) /\ txo.writer # NoKey
             /\ \/ OpensAs(c, txo.batch + 1, txo')
                \/ ~txo.finalized /\ OpensAs(c, txo.batch, txo')
                \/ ~txo.finalized /\ WritesAs(c, txo')
                \/ ~txo.finalized /\ ClosesAs(c, txo')
      BY <2>1, <3>1, Executed DEF c
    <3>3. \A b : /\ session.job \in 1..Len(Jobs) /\ txo.writer # NoKey
                 /\ b = txo.batch + 1 \/ (b = txo.batch /\ ~txo.finalized)
                 /\ OpensAs(t.call, b, txo')
                 => UploadInv'
      BY <2>1, ExecutesOpening, Zenon
    <3> QED
      BY <2>1, <3>2, <3>3, ExecutesInit, ExecutesWrite, ExecutesClosing DEF c
  <2>2. CASE UNCHANGED txo /\ Refused(t)
    BY <2>2, UploadRefused
  <2> QED
    BY <1>6, <2>1, <2>2 DEF Land
<1> QED
  BY <1>1, <1>2, <1>3, <1>4, <1>5, <1>6 DEF TxoNext

(* When create_txo_buffer returns Ok the buffer holds the list of the      *)
(* block, and while it is marked finalized it holds one upload completely, *)
(* for lists of any length and any window of parallel writes, whatever     *)
(* transactions of abandoned uploads land late, twice or never.            *)
THEOREM UploadsAreWhole == TxoSpec => []BufferIsWhole
<1>1. UploadInv /\ [TxoNext]_txoVars => UploadInv'
  BY UploadStep
<1>2. UploadInv => BufferIsWhole
  <2> SUFFICES ASSUME UploadInv, session.state = "returned"
               PROVE  Readable(Job)
    BY DEF BufferIsWhole, ReturnedIsReadable, UploadInv
  <2>1. Written /\ session.job \in 1..Len(Jobs)
    BY DEF UploadInv, SessionInv, ClientType
  <2>2. Job.data \in Seq(Cells) /\ Len(Job.data) \in Nat \ {0}
    BY <2>1, JobFacts
  <2>3. SubSeq(Job.data, 1, Len(Job.data)) = Job.data
    <3> DEFINE d == Job.data
    <3>1. d \in Seq(Cells)
      BY <2>2
    <3> HIDE DEF d
    <3>2. SubSeq(d, 1, Len(d)) = d
      BY <3>1
    <3> QED
      BY <3>2 DEF d
  <2> QED
    BY <2>1, <2>2, <2>3 DEF Written, Opened, Readable
<1> QED
  BY <1>1, <1>2, UploadStart, PTL DEF TxoSpec
=============================================================================
