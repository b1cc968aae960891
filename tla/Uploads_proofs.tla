---------------------------- MODULE Uploads_proofs ----------------------------
(***************************************************************************)
(* That a generic buffer holds exactly the bytes of its upload when the    *)
(* client returns, for any bytes, any number of retries and faults, and    *)
(* any window of parallel writes; the bound of the rate limiter's queue,   *)
(* for any number of callers and any limits; and that a combined index     *)
(* names one output, for any sizes of its fields.                          *)
(*                                                                         *)
(* The account of an upload is a new one, so every transaction that        *)
(* reaches it is a call of this very upload.  No write is sent before the  *)
(* account was made, and a write that lands again writes what is there.    *)
(***************************************************************************)
EXTENDS GenericUpload, RateLimiter, TxoIndex, FiniteSetTheorems, TLAPS

(* The time each prover has for a step that names none. *)
USE SMTT(30), ZenonT(30)

States == {"idle", "ensure", "running", "returned"}

(* The calls of the current upload. *)
Creation == CreateCall(Upload!Job)
Puts == {WriteCalls(Upload!Job)[i] : i \in 1..Len(Upload!Job)}
GenericCalls == {Creation} \cup Puts

Content == {Blank} \cup Range(Upload!Job)

GenericType ==
  /\ account = [created |-> account.created, body |-> account.body]
  /\ uploading = [state |-> uploading.state, job |-> uploading.job, n |-> uploading.n,
                  stages |-> uploading.stages, waiting |-> uploading.waiting]
  /\ uploading.state \in States
  /\ uploading.job \in Nat \ {0}
  /\ uploading.state # "idle" => uploading.job \in 1..Len(GenericJobs)
  /\ uploading.state # "running" => uploading.waiting = Upload!NoCalls
  /\ \A t \in underway : t = [n |-> t.n, call |-> t.call, try |-> t.try]
  /\ IsFiniteSet(underway)

(* No transaction can reach the account that is about to be made. *)
Untouched == \A t \in underway : t.n # uploading.n

(* Those that can reach the account are calls of this upload. *)
OwnCalls ==
  \A t \in underway : t.n = uploading.n =>
    /\ t.call \in GenericCalls
    /\ t.call # Creation => account.created = TRUE

(* The account is never longer than the bytes that are uploaded. *)
NotTooLong ==
  account.created = TRUE =>
    account.body \in Seq(Content) /\ Len(account.body) <= Len(Upload!Job)

Occurs(c, stages) == \E i \in 1..Len(stages) : c \in stages[i]

(* The client has not had the confirmation of call c. *)
Due(c) == c \in DOMAIN uploading.waiting \/ Occurs(c, uploading.stages)

Stored(i) ==
  /\ account.created = TRUE
  /\ i <= Len(account.body)
  /\ account.body[i] = Upload!Job[i]

(* The account has whatever was confirmed. *)
Progress ==
  /\ uploading.stages \in Seq(SUBSET GenericCalls)
  /\ \A i \in 1..Len(uploading.stages) : Creation \in uploading.stages[i] =>
       i = 1 /\ uploading.stages[1] = {Creation} /\ DOMAIN uploading.waiting = {}
  /\ Due(Creation) \/ account.created = TRUE
  /\ \A i \in 1..Len(Upload!Job) : Due(WriteCalls(Upload!Job)[i]) \/ Stored(i)

GenericInv ==
  /\ GenericType
  /\ uploading.state = "ensure" => Untouched
  /\ uploading.state \in {"running", "returned"} => OwnCalls /\ NotTooLong
  /\ uploading.state = "running" => Progress
  /\ BytesAreExact
-----------------------------------------------------------------------------
(* Rounding up: the number of windows of w that L elements take. *)
LEMMA WindowsCover ==
  ASSUME NEW L \in Nat, NEW w \in Nat \ {0}, NEW k \in 1..L
  PROVE  \E i \in 1..((L + w - 1) \div w) :
            k \in ((i - 1) * w + 1)..(IF i * w < L THEN i * w ELSE L)
<1> DEFINE N == (L + w - 1) \div w
           q == (k - 1) \div w
<1>1. N \in Nat /\ L + w - 1 < N * w + w
  OBVIOUS
<1>2. q \in Nat /\ q * w <= k - 1 /\ k - 1 < q * w + w
  OBVIOUS
<1> HIDE DEF N, q
<1>3. q + 1 <= N
  <2> SUFFICES ASSUME N <= q
               PROVE  FALSE
    BY <1>1, <1>2
  <2>1. N * w <= q * w
    BY <1>1, <1>2
  <2> QED
    BY <1>1, <1>2, <2>1
<1>4. (q + 1) * w = q * w + w
  BY <1>2
<1>5. k \in ((q + 1 - 1) * w + 1)..(IF (q + 1) * w < L THEN (q + 1) * w ELSE L)
  BY <1>2, <1>4
<1> QED
  BY <1>1, <1>2, <1>3, <1>5 DEF N

(* Cutting the calls into windows loses none. *)
LEMMA BatchedFacts ==
  ASSUME NEW S, NEW calls \in Seq(S), NEW w \in Nat \ {0}
  PROVE  /\ Upload!Batched(calls, w) \in Seq(SUBSET S)
         /\ \A k \in 1..Len(calls) :
              \E i \in 1..Len(Upload!Batched(calls, w)) : calls[k] \in Upload!Batched(calls, w)[i]
<1> DEFINE L == Len(calls)
           N == (L + w - 1) \div w
           Part(i) == ((i - 1) * w + 1)..(IF i * w < L THEN i * w ELSE L)
           B == Upload!Batched(calls, w)
<1>0. B = [i \in 1..N |-> {calls[k] : k \in Part(i)}]
  BY DEF Upload!Batched
<1>1. L \in Nat
  OBVIOUS
<1> HIDE DEF L, B
<1>2. N \in Nat
  BY <1>1
<1>3. \A i \in 1..N : \A k \in Part(i) : k \in 1..L
  <2> TAKE i \in 1..N
  <2>1. (i - 1) * w \in Nat /\ i * w \in Nat
    BY <1>2
  <2> QED
    BY <1>1, <2>1
<1>4. \A k \in 1..L : \E i \in 1..N : k \in Part(i)
  BY <1>1, WindowsCover, Zenon
<1> HIDE DEF N, Part
<1>5. \A k \in 1..L : calls[k] \in S
  BY DEF L
<1>6. B \in Seq(SUBSET S) /\ Len(B) = N
  BY <1>0, <1>2, <1>3, <1>5
<1>7. ASSUME NEW k \in 1..L
      PROVE  \E i \in 1..Len(B) : calls[k] \in B[i]
  <2>1. PICK i \in 1..N : k \in Part(i)
    BY <1>4
  <2>2. calls[k] \in B[i]
    BY <1>0, <2>1
  <2> QED
    BY <1>6, <2>2
<1> QED
  BY <1>6, <1>7 DEF B, L

(* The bytes that are being uploaded. *)
LEMMA ByteFacts ==
  ASSUME uploading.job \in 1..Len(GenericJobs)
  PROVE  /\ Upload!Job \in Seq(Content)
         /\ Len(Upload!Job) \in Nat
         /\ \A i \in 1..Len(Upload!Job) : Upload!Job[i] \in Content
<1> DEFINE d == Upload!Job
           R == Range(Upload!Job)
<1>1. d \in Seq(R)
  BY GenericUploadAssumption DEF GenericUploadConstants, Upload!Job
<1>2. R \subseteq Content
  BY DEF Content
<1> HIDE DEF d, R
<1>3. d \in Seq(Content) /\ Len(d) \in Nat /\ \A i \in 1..Len(d) : d[i] \in Content
  BY <1>1, <1>2
<1> QED
  BY <1>3 DEF d

(* The writes of an upload, each for a place of its own. *)
LEMMA PutFacts ==
  ASSUME uploading.job \in 1..Len(GenericJobs)
  PROVE  /\ WriteCalls(Upload!Job) \in Seq(Puts)
         /\ Len(WriteCalls(Upload!Job)) = Len(Upload!Job)
         /\ \A i \in 1..Len(Upload!Job) :
              /\ WriteCalls(Upload!Job)[i] \in Puts
              /\ WriteCalls(Upload!Job)[i]
                   = [op |-> "write", offset |-> i - 1, data |-> Upload!Job[i]]
         /\ \A c \in Puts : \E i \in 1..Len(Upload!Job) :
              /\ c = WriteCalls(Upload!Job)[i]
              /\ c = [op |-> "write", offset |-> i - 1, data |-> Upload!Job[i]]
         /\ Creation.op = "create" /\ Creation.len = Len(Upload!Job)
         /\ \A c \in Puts : c.op = "write" /\ c # Creation
<1> DEFINE n == Len(Upload!Job)
           C == WriteCalls(Upload!Job)
           W == Puts
<1>1. n \in Nat
  BY ByteFacts
<1>2. C = [i \in 1..n |-> [op |-> "write", offset |-> i - 1, data |-> Upload!Job[i]]]
  BY DEF WriteCalls
<1>3. W = {C[i] : i \in 1..n}
  BY DEF Puts
<1> HIDE DEF n, C, W
<1>4. \A i \in 1..n : /\ C[i] \in W
                      /\ C[i] = [op |-> "write", offset |-> i - 1, data |-> Upload!Job[i]]
  BY <1>2, <1>3, Zenon
<1>5. C \in Seq(W) /\ Len(C) = n
  <2>1. DOMAIN C = 1..n /\ C = [i \in 1..n |-> C[i]]
    BY <1>2
  <2>2. \A i \in 1..n : C[i] \in W
    BY <1>4, Zenon
  <2> QED
    BY <1>1, <2>1, <2>2
<1>6. ASSUME NEW c \in W
      PROVE  \E i \in 1..n :
               c = C[i] /\ c = [op |-> "write", offset |-> i - 1, data |-> Upload!Job[i]]
  <2>1. PICK i \in 1..n : c = C[i]
    BY <1>3
  <2> QED
    BY <1>4, <2>1
<1>7. Creation.op = "create" /\ Creation.len = n
  BY DEF Creation, CreateCall, n
<1>8. \A c \in W : c.op = "write" /\ c # Creation
  BY <1>6, <1>7
<1> QED
  BY <1>4, <1>5, <1>6, <1>7, <1>8, Zenon DEF n, C, W

(* An upload has finitely many calls. *)
LEMMA CallsAreFinite ==
  ASSUME uploading.job \in 1..Len(GenericJobs)
  PROVE  IsFiniteSet(GenericCalls)
<1> DEFINE n == Len(Upload!Job)
           C == WriteCalls(Upload!Job)
           W == Puts
<1>1. C \in Seq(W) /\ Len(C) = n /\ \A c \in W : \E i \in 1..n : C[i] = c
  BY PutFacts, Zenon
<1>2. n \in Nat
  BY ByteFacts
<1> HIDE DEF n, C, W
<1>3. C \in [1..n -> W]
  BY <1>1
<1>4. C \in Surjection(1..n, W)
  BY <1>1, <1>3, Zenon DEF Surjection
<1>5. IsFiniteSet(1..n)
  BY <1>2, FS_Interval
<1>6. IsFiniteSet(W)
  BY <1>4, <1>5, FS_Surjection
<1>7. IsFiniteSet(W \cup {Creation})
  BY <1>6, FS_AddElement
<1>8. GenericCalls = W \cup {Creation}
  BY DEF GenericCalls, W
<1> QED
  BY <1>7, <1>8

(* So has a stage of it: the transactions sent are finitely many. *)
LEMMA SentAreFinite ==
  ASSUME NEW n, NEW w, IsFiniteSet(DOMAIN w)
  PROVE  IsFiniteSet(Upload!Transactions(n, w))
<1> DEFINE D == DOMAIN w
           T == Upload!Transactions(n, w)
           f == [c \in D |-> [n |-> n, call |-> c, try |-> w[c]]]
<1>1. T = {f[c] : c \in D}
  BY DEF Upload!Transactions
<1> HIDE DEF D, T, f
<1>2. f \in Surjection(D, T)
  BY <1>1 DEF Surjection, f
<1> QED
  BY <1>2, FS_Surjection DEF D, T

(* The client counts its transactions with the same function. *)
LEMMA SameCount ==
  ASSUME NEW S
  PROVE  Upload!Cardinality(S) = Cardinality(S)
  BY Zenon DEF Cardinality, Upload!Cardinality

(* There is always an account name that no transaction in flight has. *)
LEMMA FreshName ==
  ASSUME NEW S, IsFiniteSet(S)
  PROVE  \E k \in 0..Cardinality(S) : \A t \in S : t.n # k
<1> SUFFICES ASSUME \A k \in 0..Cardinality(S) : \E t \in S : t.n = k
             PROVE  FALSE
  OBVIOUS
<1> DEFINE N == Cardinality(S)
           f == [t \in S |-> t.n]
           T == {f[t] : t \in S}
<1>1. N \in Nat
  BY FS_CardinalityType
<1> HIDE DEF N
<1>2. f \in Surjection(S, T)
  BY DEF Surjection
<1>3. IsFiniteSet(T) /\ Cardinality(T) <= N
  <2> HIDE DEF T, f
  <2> QED
    BY <1>2, FS_Surjection DEF N
<1>4. 0..N \subseteq T
  BY DEF N
<1> HIDE DEF T, f
<1>5. Cardinality(0..N) <= Cardinality(T)
  BY <1>3, <1>4, FS_Subset, Zenon
<1>6. Cardinality(0..N) = N + 1
  BY <1>1, FS_Interval
<1>7. Cardinality(T) \in Nat
  BY <1>3, FS_CardinalityType
<1> QED
  BY <1>1, <1>3, <1>5, <1>6, <1>7
-----------------------------------------------------------------------------
(* Steps that leave the account alone. *)

(* Nothing is under way at first. *)
LEMMA GenericStart == GenericInit => GenericInv
<1> SUFFICES ASSUME GenericInit
             PROVE  GenericInv
  OBVIOUS
<1>1. /\ account = [created |-> FALSE, body |-> <<>>]
      /\ uploading = [state |-> "idle", job |-> 1, n |-> 0, stages |-> <<>>,
                      waiting |-> Upload!NoCalls]
      /\ underway = {}
  BY DEF GenericInit, NoAccount, Upload!ClientInit
<1>2. GenericType
  BY <1>1, FS_EmptySet DEF GenericType, States
<1> QED
  BY <1>1, <1>2 DEF GenericInv, BytesAreExact

(* Transactions expire, land, or are sent again: no new call. *)
OnlyKnown ==
  /\ IsFiniteSet(underway')
  /\ \A t \in underway' :
       /\ t = [n |-> t.n, call |-> t.call, try |-> t.try]
       /\ \E u \in underway : u.n = t.n /\ u.call = t.call

(* Fewer transactions in flight are finitely many, and known. *)
LEMMA FewerAreKnown ==
  ASSUME GenericType, underway' \subseteq underway
  PROVE  OnlyKnown
<1>1. IsFiniteSet(underway')
  BY FS_Subset, Zenon DEF GenericType
<1> QED
  BY <1>1, Zenon DEF OnlyKnown, GenericType

(* What is in flight for the account stays a call of its upload. *)
LEMMA OwnCallsKept ==
  ASSUME OnlyKnown, OwnCalls, uploading'.n = uploading.n,
         uploading'.job = uploading.job,
         account.created = TRUE => account'.created = TRUE
  PROVE  OwnCalls'
<1>1. GenericCalls' = GenericCalls /\ Creation' = Creation
  BY Zenon DEF GenericCalls, Creation, Puts, Upload!Job
<1> SUFFICES ASSUME NEW t \in underway', t.n = uploading.n
             PROVE  /\ t.call \in GenericCalls
                    /\ t.call # Creation => account'.created = TRUE
  BY <1>1, Zenon DEF OwnCalls
<1>2. PICK u \in underway : u.n = t.n /\ u.call = t.call
  BY Zenon DEF OnlyKnown
<1> QED
  BY <1>2, Zenon DEF OwnCalls

(* The upload ends, with an error, with success, or as the process dies. *)
LEMMA GenericEnds ==
  ASSUME GenericInv, UNCHANGED account, OnlyKnown, NEW j \in Nat \ {0},
         uploading' = [state |-> "idle", job |-> j, n |-> uploading.n,
                       stages |-> <<>>, waiting |-> Upload!NoCalls]
  PROVE  GenericInv'
<1>1. GenericType /\ Upload!NoCalls' = Upload!NoCalls
  BY DEF GenericInv, Upload!NoCalls
<1>2. uploading'.state = "idle" /\ uploading'.job = j /\ uploading'.waiting = Upload!NoCalls
  OBVIOUS
<1>3. GenericType'
  BY <1>1, <1>2 DEF GenericType, OnlyKnown, States
<1> QED
  BY <1>2, <1>3 DEF GenericInv, BytesAreExact

(* The upload goes on, waiting for the same calls. *)
LEMMA GenericGoesOn ==
  ASSUME GenericInv, UNCHANGED account, OnlyKnown,
         uploading' = [state |-> uploading.state, job |-> uploading.job, n |-> uploading.n,
                       stages |-> uploading.stages, waiting |-> uploading'.waiting],
         DOMAIN uploading'.waiting = DOMAIN uploading.waiting,
         uploading.state # "running" => uploading'.waiting = uploading.waiting
  PROVE  GenericInv'
<1>1. /\ uploading'.state = uploading.state /\ uploading'.job = uploading.job
      /\ uploading'.n = uploading.n /\ uploading'.stages = uploading.stages
  OBVIOUS
<1>2. GenericType /\ Upload!NoCalls' = Upload!NoCalls
  BY DEF GenericInv, Upload!NoCalls
<1>3. GenericType'
  BY <1>1, <1>2, Zenon DEF GenericType, OnlyKnown
<1>4. /\ Upload!Job' = Upload!Job /\ Creation' = Creation /\ GenericCalls' = GenericCalls
      /\ Content' = Content
  BY <1>1, Zenon DEF Upload!Job, Creation, GenericCalls, Puts, Content
<1>5. uploading.state = "ensure" => Untouched'
  BY <1>1, Zenon DEF GenericInv, Untouched, OnlyKnown
<1>6. uploading.state \in {"running", "returned"} => OwnCalls' /\ NotTooLong'
  BY <1>1, <1>4, OwnCallsKept, Zenon DEF GenericInv, NotTooLong
<1>7. \A c : Due(c)' = Due(c)
  BY <1>1, Zenon DEF Due, Occurs
<1>8. \A i : Stored(i)' = Stored(i)
  BY <1>4, Zenon DEF Stored
<1>9. uploading.state = "running" => Progress'
  <2> SUFFICES ASSUME Progress
               PROVE  Progress'
    BY Zenon DEF GenericInv
  <2>1. \A i : WriteCalls(Upload!Job')[i] = WriteCalls(Upload!Job)[i]
    BY <1>4, Zenon
  <2> QED
    BY <1>1, <1>4, <1>7, <1>8, <2>1, Zenon DEF Progress
<1>10. BytesAreExact'
  BY <1>1, <1>4, Zenon DEF GenericInv, BytesAreExact, Holds
<1> QED
  BY <1>1, <1>3, <1>5, <1>6, <1>9, <1>10, Zenon DEF GenericInv

(* What giving an upload up leaves. *)
LEMMA AbandonedFacts ==
  ASSUME GenericType
  PROVE  Upload!Abandoned = [state |-> "idle", job |-> uploading.job, n |-> uploading.n,
                             stages |-> <<>>, waiting |-> Upload!NoCalls]
<1> DEFINE no == Upload!NoCalls
<1>1. Upload!Abandoned = [uploading EXCEPT !.state = "idle", !.stages = <<>>, !.waiting = no]
  BY DEF Upload!Abandoned
<1> HIDE DEF no
<1>2. Upload!Abandoned = [state |-> "idle", job |-> uploading.job, n |-> uploading.n,
                          stages |-> <<>>, waiting |-> no]
  BY <1>1, Zenon DEF GenericType
<1> QED
  BY <1>2 DEF no

(* An awaited call is answered with an error. *)
LEMMA GenericRetry ==
  ASSUME GenericInv, UNCHANGED account, NEW t \in underway, Upload!Awaited(t),
         NEW others \in SUBSET underway, Upload!Retry(t, others)
  PROVE  GenericInv'
<1>1. GenericType
  BY DEF GenericInv
<1>2. CASE t.try < GenericRetries
  <2> DEFINE u == [t EXCEPT !.try = @ + 1]
  <2>1. /\ uploading' = [uploading EXCEPT !.waiting[t.call] = t.try + 1]
        /\ underway' = others \cup {u}
    BY <1>2 DEF Upload!Retry
  <2>2. t = [n |-> t.n, call |-> t.call, try |-> t.try]
    BY <1>1 DEF GenericType
  <2>3. u = [n |-> t.n, call |-> t.call, try |-> t.try + 1]
    BY <2>2
  <2>4. u.n = t.n /\ u.call = t.call /\ u = [n |-> u.n, call |-> u.call, try |-> u.try]
    BY <2>3
  <2> HIDE DEF u
  <2>5. IsFiniteSet(underway')
    <3>1. IsFiniteSet(others)
      BY <1>1, FS_Subset, Zenon DEF GenericType
    <3> QED
      BY <2>1, <3>1, FS_AddElement, Zenon
  <2>6. OnlyKnown
    BY <1>1, <2>1, <2>4, <2>5, Zenon DEF OnlyKnown, GenericType
  <2>7. /\ uploading' = [state |-> uploading.state, job |-> uploading.job, n |-> uploading.n,
                         stages |-> uploading.stages, waiting |-> uploading'.waiting]
        /\ uploading'.waiting = [uploading.waiting EXCEPT ![t.call] = t.try + 1]
    BY <1>1, <2>1 DEF GenericType
  <2>8. DOMAIN uploading'.waiting = DOMAIN uploading.waiting
    BY <2>7
  <2>9. uploading.state = "running"
    BY DEF Upload!Awaited, Upload!Working
  <2> QED
    BY <2>6, <2>7, <2>8, <2>9, GenericGoesOn, Zenon
<1>3. CASE ~(t.try < GenericRetries)
  <2>1. uploading' = Upload!Abandoned /\ underway' = others
    BY <1>3 DEF Upload!Retry
  <2>2. OnlyKnown
    BY <1>1, <2>1, FewerAreKnown, Zenon
  <2>3. uploading.job \in Nat \ {0}
    BY <1>1 DEF GenericType
  <2> QED
    BY <1>1, <2>1, <2>2, <2>3, AbandonedFacts, GenericEnds, Zenon
<1> QED
  BY <1>2, <1>3

(* A call that nobody waits for may vanish. *)
LEMMA GenericQuiet ==
  ASSUME GenericInv, UNCHANGED <<account, uploading>>, underway' \subseteq underway
  PROVE  GenericInv'
<1>1. GenericType
  BY DEF GenericInv
<1>2. OnlyKnown
  BY <1>1, FewerAreKnown
<1>3. uploading' = [state |-> uploading.state, job |-> uploading.job, n |-> uploading.n,
                    stages |-> uploading.stages, waiting |-> uploading'.waiting]
  BY <1>1, Zenon DEF GenericType
<1> QED
  BY <1>2, <1>3, GenericGoesOn, Zenon

(* A call that is refused is sent again or ends the upload. *)
LEMMA GenericRefused ==
  ASSUME GenericInv, UNCHANGED account, NEW t \in underway, Upload!Refused(t)
  PROVE  GenericInv'
<1>1. CASE Upload!Awaited(t)
  <2>1. Upload!Retry(t, underway \ {t}) /\ underway \ {t} \in SUBSET underway
    BY <1>1, Zenon DEF Upload!Refused
  <2> QED
    BY <1>1, <2>1, GenericRetry, Zenon
<1>2. CASE ~Upload!Awaited(t)
  <2>1. UNCHANGED uploading /\ underway' \subseteq underway
    BY <1>2, Zenon DEF Upload!Refused
  <2> QED
    BY <2>1, GenericQuiet, Zenon
<1> QED
  BY <1>1, <1>2

(* An upload begins, for an account that no transaction in flight names. *)
LEMMA GenericBegin ==
  ASSUME GenericInv, UNCHANGED account, Upload!Begin
  PROVE  GenericInv'
<1>1. GenericType /\ Upload!NoCalls' = Upload!NoCalls
  BY DEF GenericInv, Upload!NoCalls
<1>2. /\ uploading.state = "idle" /\ uploading.job <= Len(GenericJobs)
      /\ underway' = underway
  BY DEF Upload!Begin
<1> DEFINE k == CHOOSE k \in 0..Upload!Cardinality(underway) : \A t \in underway : t.n # k
<1>3. \A t \in underway : t.n # k
  <2>1. \E i \in 0..Upload!Cardinality(underway) : \A t \in underway : t.n # i
    BY <1>1, FreshName, SameCount, Zenon DEF GenericType
  <2> QED
    BY <2>1, Zenon
<1>4. uploading' = [uploading EXCEPT !.state = "ensure", !.n = k]
  BY Zenon DEF Upload!Begin
<1> HIDE DEF k
<1>5. uploading' = [state |-> "ensure", job |-> uploading.job, n |-> k,
                    stages |-> uploading.stages, waiting |-> uploading.waiting]
  BY <1>1, <1>4, Zenon DEF GenericType
<1>6. /\ uploading'.state = "ensure" /\ uploading'.job = uploading.job
      /\ uploading'.n = k /\ uploading'.waiting = uploading.waiting
      /\ uploading'.stages = uploading.stages
  BY <1>5
<1>7. uploading.job \in 1..Len(GenericJobs)
  <2>1. Len(GenericJobs) \in Nat /\ uploading.job \in Nat \ {0}
    BY <1>1, GenericUploadAssumption DEF GenericUploadConstants, GenericType
  <2> QED
    BY <1>2, <2>1
<1>8. GenericType'
  BY <1>1, <1>2, <1>5, <1>6, <1>7 DEF GenericType, States
<1>9. Untouched'
  BY <1>2, <1>3, <1>6, Zenon DEF Untouched
<1> QED
  BY <1>6, <1>8, <1>9 DEF GenericInv, BytesAreExact

(* An upload begins, is told of an error, gives a call up, or dies. *)
LEMMA GenericClientStep ==
  ASSUME GenericInv, UNCHANGED account, Upload!ClientStep, ~Upload!NextStage
  PROVE  GenericInv'
<1>1. ASSUME NEW t \in underway, Upload!LoseReply(t)
      PROVE  GenericInv'
  <2>1. Upload!Awaited(t) /\ Upload!Retry(t, underway) /\ underway \in SUBSET underway
    BY <1>1, Zenon DEF Upload!LoseReply
  <2> QED
    BY <2>1, GenericRetry, Zenon
<1>2. ASSUME NEW t \in underway, Upload!Expire(t)
      PROVE  GenericInv'
  <2>1. UNCHANGED uploading /\ underway' \subseteq underway
    BY <1>2, Zenon DEF Upload!Expire
  <2> QED
    BY <2>1, GenericQuiet, Zenon
<1>3. CASE Upload!Crash
  <2>1. GenericType /\ uploading' = Upload!Abandoned /\ underway' \subseteq underway
    BY <1>3, Zenon DEF Upload!Crash, GenericInv
  <2>2. OnlyKnown /\ uploading.job \in Nat \ {0}
    BY <2>1, FewerAreKnown, Zenon DEF GenericType
  <2> QED
    BY <2>1, <2>2, AbandonedFacts, GenericEnds, Zenon
<1> QED
  BY <1>1, <1>2, <1>3, GenericBegin, Zenon DEF Upload!ClientStep

(* The reader takes the bytes, or refuses them. *)
LEMMA GenericConsumed ==
  ASSUME GenericInv, ProcessWithdrawal
  PROVE  GenericInv'
<1>1. GenericType /\ UNCHANGED account /\ underway' \subseteq underway
  BY DEF GenericInv, ProcessWithdrawal, Upload!Consume
<1>2. uploading' = [Upload!Abandoned EXCEPT
                      !.job = IF Holds(Upload!Job) THEN @ + 1 ELSE @]
  BY Zenon DEF ProcessWithdrawal, Upload!Consume
<1>3. PICK j \in Nat \ {0} :
        uploading' = [state |-> "idle", job |-> j, n |-> uploading.n,
                      stages |-> <<>>, waiting |-> Upload!NoCalls]
  <2>1. uploading.job \in Nat \ {0}
    BY <1>1 DEF GenericType
  <2> DEFINE j == IF Holds(Upload!Job) THEN uploading.job + 1 ELSE uploading.job
  <2>2. j \in Nat \ {0}
    BY <2>1
  <2>3. uploading' = [state |-> "idle", job |-> j, n |-> uploading.n,
                      stages |-> <<>>, waiting |-> Upload!NoCalls]
    BY <1>1, <1>2, AbandonedFacts
  <2> HIDE DEF j
  <2> QED
    BY <2>2, <2>3
<1> QED
  BY <1>1, <1>3, FewerAreKnown, GenericEnds, Zenon

(* The calls depend on the bytes alone. *)
LEMMA SameBytes ==
  ASSUME uploading'.job = uploading.job
  PROVE  /\ Upload!Job' = Upload!Job /\ Creation' = Creation
         /\ GenericCalls' = GenericCalls /\ Content' = Content
         /\ \A i : WriteCalls(Upload!Job')[i] = WriteCalls(Upload!Job)[i]
<1>1. Upload!Job' = Upload!Job
  BY Zenon DEF Upload!Job
<1> QED
  BY <1>1, Zenon DEF Creation, GenericCalls, Puts, Content

(* The stages of a plan: the account is made, then written. *)
LEMMA PlannedStages ==
  ASSUME uploading.job \in 1..Len(GenericJobs), NEW writes \in Seq(SUBSET Puts),
         \A i \in 1..Len(Upload!Job) : Occurs(WriteCalls(Upload!Job)[i], writes)
  PROVE  LET stages == <<{Creation}>> \o writes
         IN  /\ stages \in Seq(SUBSET GenericCalls)
             /\ \A i \in 1..Len(stages) : Creation \in stages[i] =>
                  i = 1 /\ stages[1] = {Creation}
             /\ Occurs(Creation, stages)
             /\ \A i \in 1..Len(Upload!Job) : Occurs(WriteCalls(Upload!Job)[i], stages)
<1> DEFINE G == SUBSET GenericCalls
           first == {Creation}
           stages == <<first>> \o writes
           m == Len(writes)
<1>1. first \in G /\ SUBSET Puts \subseteq G /\ Creation \in first
  BY DEF GenericCalls
<1>2. \A c \in Puts : c # Creation
  BY PutFacts, Zenon
<1>3. \A i \in 1..m : writes[i] \in SUBSET Puts
  OBVIOUS
<1>4. m \in Nat
  OBVIOUS
<1> HIDE DEF G, first
<1>5. /\ stages \in Seq(G) /\ Len(stages) = m + 1 /\ stages[1] = first
      /\ \A i \in 1..(m + 1) : i # 1 => i - 1 \in 1..m /\ stages[i] = writes[i - 1]
      /\ \A i \in 1..m : i + 1 \in 1..(m + 1) /\ stages[i + 1] = writes[i]
  <2>1. writes \in Seq(G)
    BY <1>1, <1>3
  <2>2. <<first>> \in Seq(G) /\ Len(<<first>>) = 1 /\ <<first>>[1] = first
    BY <1>1
  <2> QED
    BY <1>4, <2>1, <2>2
<1> HIDE DEF stages, m
<1>6. \A i \in 1..Len(stages) : Creation \in stages[i] => i = 1 /\ stages[1] = first
  <2> SUFFICES ASSUME NEW i \in 1..Len(stages), i # 1
               PROVE  Creation \notin stages[i]
    BY <1>5
  <2>1. i - 1 \in 1..m /\ stages[i] = writes[i - 1]
    BY <1>5
  <2> QED
    BY <1>2, <1>3, <2>1, Zenon
<1>7. Occurs(Creation, stages)
  <2>1. 1 \in 1..Len(stages)
    BY <1>4, <1>5
  <2> QED
    BY <1>1, <1>5, <2>1, Zenon DEF Occurs
<1>8. \A c : Occurs(c, writes) => Occurs(c, stages)
  BY <1>5, Zenon DEF Occurs, m
<1> QED
  BY <1>5, <1>6, <1>7, <1>8, Zenon DEF G, first, stages

(* The account is still to be made: every call is due. *)
LEMMA GenericPlanned ==
  ASSUME GenericInv, GenericPlan
  PROVE  GenericInv'
<1> DEFINE C == WriteCalls(Upload!Job)
           n == Len(Upload!Job)
<1>1. PICK client \in GenericClients :
        Upload!Plan(CASE client = "parallel"   -> GenericParallelStages(Upload!Job)
                      [] client = "sequential" -> GenericSequentialStages(Upload!Job)
                      [] client = "js"         -> GenericJsStages(Upload!Job))
  BY Zenon DEF GenericPlan
<1>2. /\ GenericType /\ uploading.state = "ensure" /\ underway' = underway
      /\ account' = [created |-> FALSE, body |-> <<>>]
  BY <1>1 DEF GenericInv, Upload!Plan, GenericPlan, NoAccount
<1>3. /\ uploading.job \in 1..Len(GenericJobs) /\ uploading.waiting = Upload!NoCalls
      /\ Untouched
  BY <1>2 DEF GenericType, GenericInv
<1>4. C \in Seq(Puts) /\ Len(C) = n /\ n \in Nat /\ \A i \in 1..n : C[i] \in Puts
  BY <1>3, PutFacts, ByteFacts, Zenon
<1>5. PICK writes \in Seq(SUBSET Puts) :
        /\ \A i \in 1..n : Occurs(C[i], writes)
        /\ uploading' = [uploading EXCEPT !.state = "running",
                                         !.stages = <<{Creation}>> \o writes]
  <2>1. CASE client = "parallel"
    <3> DEFINE B == Upload!Batched(C, GenericWindow)
    <3>1. GenericWindow \in Nat \ {0}
      BY GenericUploadAssumption DEF GenericUploadConstants
    <3>2. uploading' = [uploading EXCEPT !.state = "running",
                                         !.stages = <<{Creation}>> \o B]
      BY <1>1, <2>1, Zenon DEF Upload!Plan, GenericParallelStages, Creation
    <3> HIDE DEF B, C, n
    <3>3. B \in Seq(SUBSET Puts) /\ \A i \in 1..n : Occurs(C[i], B)
      BY <1>4, <3>1, BatchedFacts, Zenon DEF Occurs, B
    <3> QED
      BY <3>2, <3>3, Zenon
  <2>2. CASE client \in {"sequential", "js"}
    <3> DEFINE each == [i \in 1..n |-> {C[i]}]
    <3>1. uploading' = [uploading EXCEPT !.state = "running",
                                         !.stages = <<{Creation}>> \o each]
      BY <1>1, <2>2, Zenon DEF Upload!Plan, GenericSequentialStages, GenericJsStages, Creation
    <3>2. each \in Seq(SUBSET Puts) /\ \A i \in 1..n : Occurs(C[i], each)
      <4> DEFINE W == Puts
      <4> HIDE DEF C, n, W
      <4>0. \A i \in 1..n : C[i] \in W
        BY <1>4, Zenon DEF W
      <4>1. each \in Seq(SUBSET W) /\ Len(each) = n /\ \A i \in 1..n : each[i] = {C[i]}
        BY <1>4, <4>0
      <4> HIDE DEF each
      <4> QED
        BY <4>1, Zenon DEF Occurs, W
    <3> HIDE DEF each
    <3> QED
      BY <3>1, <3>2, Zenon
  <2> QED
    BY <2>1, <2>2, GenericUploadAssumption, Zenon DEF GenericUploadConstants
<1> DEFINE stages == <<{Creation}>> \o writes
<1>6. /\ stages \in Seq(SUBSET GenericCalls)
      /\ \A i \in 1..Len(stages) : Creation \in stages[i] => i = 1 /\ stages[1] = {Creation}
      /\ Occurs(Creation, stages) /\ \A i \in 1..n : Occurs(C[i], stages)
  BY <1>3, <1>5, PlannedStages, Zenon
<1> HIDE DEF stages
<1>7. uploading' = [state |-> "running", job |-> uploading.job, n |-> uploading.n,
                    stages |-> stages, waiting |-> uploading.waiting]
  BY <1>2, <1>5, Zenon DEF GenericType, stages
<1>8. /\ uploading'.state = "running" /\ uploading'.job = uploading.job
      /\ uploading'.n = uploading.n /\ uploading'.stages = stages
      /\ uploading'.waiting = uploading.waiting
  BY <1>7
<1>9. GenericType'
  <2>1. account' = [created |-> account'.created, body |-> account'.body]
    BY <1>2
  <2> QED
    BY <1>2, <1>3, <1>7, <1>8, <2>1, Zenon DEF GenericType, States
<1>10. OwnCalls' /\ NotTooLong'
  <2>1. account'.created = FALSE
    BY <1>2
  <2> QED
    BY <1>2, <1>3, <1>8, <2>1, Zenon DEF OwnCalls, NotTooLong, Untouched
<1>11. Progress'
  <2>1. DOMAIN uploading'.waiting = {}
    BY <1>3, <1>8 DEF Upload!NoCalls
  <2>2. \A c : Occurs(c, stages) => Due(c)'
    BY <1>8, Zenon DEF Due
  <2> QED
    BY <1>6, <1>8, <2>1, <2>2, SameBytes, Zenon DEF Progress
<1> QED
  BY <1>8, <1>9, <1>10, <1>11 DEF GenericInv, BytesAreExact

(* An account with every byte in its place, and none besides. *)
LEMMA ExactWhen ==
  ASSUME uploading.job \in 1..Len(GenericJobs), account.created = TRUE, NotTooLong,
         \A i \in 1..Len(Upload!Job) : Stored(i)
  PROVE  Holds(Upload!Job)
<1> DEFINE d == Upload!Job
           body == account.body
           C == Content
<1>1. /\ d \in Seq(C) /\ Len(d) \in Nat
      /\ body \in Seq(C) /\ Len(body) <= Len(d)
      /\ \A i \in 1..Len(d) : i <= Len(body) /\ body[i] = d[i]
  BY ByteFacts, Zenon DEF NotTooLong, Stored
<1> HIDE DEF d, body, C
<1>2. Len(body) = Len(d)
  <2>1. Len(body) \in Nat
    BY <1>1
  <2>2. CASE Len(d) = 0
    BY <1>1, <2>1, <2>2
  <2>3. CASE Len(d) # 0
    <3>1. Len(d) \in 1..Len(d)
      BY <1>1, <2>3
    <3> QED
      BY <1>1, <2>1, <3>1
  <2> QED
    BY <2>2, <2>3
<1>3. body = d
  BY <1>1, <1>2
<1> QED
  BY <1>3 DEF Holds, body, d

(* Every call is confirmed: the upload returns, and the bytes are there. *)
LEMMA GenericReturns ==
  ASSUME GenericInv, UNCHANGED account, Upload!NextStage, uploading.stages = <<>>
  PROVE  GenericInv'
<1>1. /\ uploading.state = "running" /\ uploading.waiting = Upload!NoCalls
      /\ uploading' = [uploading EXCEPT !.state = "returned"] /\ underway' = underway
  BY DEF Upload!NextStage, Upload!Working
<1>2. /\ GenericType /\ OwnCalls /\ NotTooLong /\ Progress
      /\ uploading.job \in 1..Len(GenericJobs)
  BY <1>1 DEF GenericInv, GenericType
<1>3. \A c : ~Due(c)
  BY <1>1 DEF Due, Occurs, Upload!NoCalls
<1>4. Holds(Upload!Job)
  BY <1>2, <1>3, ExactWhen, Zenon DEF Progress
<1>5. uploading' = [state |-> "returned", job |-> uploading.job, n |-> uploading.n,
                    stages |-> uploading.stages, waiting |-> uploading.waiting]
  BY <1>1, <1>2, Zenon DEF GenericType
<1>6. /\ uploading'.state = "returned" /\ uploading'.job = uploading.job
      /\ uploading'.n = uploading.n /\ uploading'.stages = uploading.stages
      /\ uploading'.waiting = uploading.waiting
  BY <1>5
<1>7. OnlyKnown
  BY <1>1, <1>2, FewerAreKnown, Zenon
<1>8. Upload!NoCalls' = Upload!NoCalls
  BY DEF Upload!NoCalls
<1>9. GenericType'
  BY <1>1, <1>2, <1>5, <1>6, <1>7, <1>8, Zenon DEF GenericType, OnlyKnown, States
<1>10. OwnCalls' /\ NotTooLong'
  BY <1>2, <1>6, <1>7, OwnCallsKept, SameBytes, Zenon DEF NotTooLong
<1>11. BytesAreExact'
  BY <1>4, <1>6, SameBytes, Zenon DEF BytesAreExact, Holds
<1> QED
  BY <1>6, <1>9, <1>10, <1>11 DEF GenericInv

(* The next stage is sent: writes only after the account was made. *)
LEMMA GenericSends ==
  ASSUME GenericInv, UNCHANGED account, Upload!NextStage, uploading.stages # <<>>
  PROVE  GenericInv'
<1> DEFINE stages == uploading.stages
           h == Head(stages)
           waiting == [c \in h |-> 0]
           sent == Upload!Transactions(uploading.n, waiting)
<1>1. /\ uploading.state = "running" /\ uploading.waiting = Upload!NoCalls
      /\ uploading' = [uploading EXCEPT !.stages = Tail(@), !.waiting = waiting]
      /\ underway' = underway \cup sent
  BY DEF Upload!NextStage, Upload!Working
<1>2. /\ GenericType /\ OwnCalls /\ NotTooLong /\ Progress
      /\ uploading.job \in 1..Len(GenericJobs)
  BY <1>1 DEF GenericInv, GenericType
<1>3. /\ stages \in Seq(SUBSET GenericCalls) /\ Len(stages) \in Nat \ {0}
      /\ h = stages[1] /\ h \subseteq GenericCalls
      /\ Tail(stages) \in Seq(SUBSET GenericCalls)
      /\ Len(Tail(stages)) = Len(stages) - 1
      /\ \A i \in 1..Len(Tail(stages)) : i + 1 \in 1..Len(stages) /\ Tail(stages)[i] = stages[i + 1]
  <2> DEFINE S == SUBSET GenericCalls
  <2>1. stages \in Seq(S) /\ stages # <<>>
    BY <1>2, Zenon DEF Progress
  <2> HIDE DEF S, stages
  <2>2. /\ Len(stages) \in Nat \ {0} /\ h = stages[1] /\ h \in S
        /\ Tail(stages) \in Seq(S) /\ Len(Tail(stages)) = Len(stages) - 1
        /\ \A i \in 1..Len(Tail(stages)) : i + 1 \in 1..Len(stages) /\ Tail(stages)[i] = stages[i + 1]
    BY <2>1
  <2> QED
    BY <2>1, <2>2, Zenon DEF S
<1>4. \A c : Due(c) => Occurs(c, stages)
  BY <1>1 DEF Due, Upload!NoCalls
<1>5. /\ uploading' = [state |-> "running", job |-> uploading.job, n |-> uploading.n,
                       stages |-> Tail(stages), waiting |-> waiting]
      /\ uploading'.state = "running" /\ uploading'.job = uploading.job
      /\ uploading'.n = uploading.n
      /\ uploading'.stages = Tail(stages) /\ uploading'.waiting = waiting
  BY <1>1, <1>2, Zenon DEF GenericType
<1>6. \A t \in sent : /\ t = [n |-> t.n, call |-> t.call, try |-> t.try]
                      /\ t.call \in h
  BY DEF Upload!Transactions
<1>7. IsFiniteSet(sent)
  <2>1. IsFiniteSet(h)
    BY <1>2, <1>3, CallsAreFinite, FS_Subset, Zenon
  <2>2. DOMAIN waiting = h
    OBVIOUS
  <2> HIDE DEF h, waiting, sent
  <2>3. IsFiniteSet(DOMAIN waiting)
    BY <2>1, <2>2
  <2> QED
    BY <2>3, SentAreFinite, Zenon DEF sent
<1>8. IsFiniteSet(underway')
  <2> HIDE DEF sent
  <2> QED
    BY <1>1, <1>2, <1>7, FS_Union, Zenon DEF GenericType
<1>9. \A c \in h : c # Creation => account.created = TRUE
  <2> SUFFICES ASSUME NEW c \in h, c # Creation
               PROVE  account.created = TRUE
    BY ZenonT(60)
  <2> HIDE DEF stages, h
  <2>0. \A i \in 1..Len(stages) : Creation \in stages[i] => stages[1] = {Creation}
    BY <1>2, Zenon DEF Progress, stages
  <2>1. ~Occurs(Creation, stages)
    BY <1>3, <2>0, Zenon DEF Occurs
  <2> QED
    BY <1>2, <1>4, <2>1, Zenon DEF Progress
<1> HIDE DEF h, sent
<1>10. GenericType'
  BY <1>1, <1>2, <1>5, <1>6, <1>8, Zenon DEF GenericType, States
<1>11. OwnCalls' /\ NotTooLong'
  <2>1. NotTooLong'
    BY <1>2, <1>5, SameBytes, Zenon DEF NotTooLong
  <2>2. OwnCalls'
    BY <1>1, <1>2, <1>3, <1>5, <1>6, <1>9, SameBytes, Zenon DEF OwnCalls
  <2> QED
    BY <2>1, <2>2
<1> HIDE DEF stages, waiting
<1>12. ASSUME NEW c, Due(c)
       PROVE  Due(c)'
  <2>1. PICK i \in 1..Len(stages) : c \in stages[i]
    BY <1>4, <1>12, Zenon DEF Occurs
  <2>2. CASE i = 1
    <3>1. c \in DOMAIN waiting
      BY <1>3, <2>1, <2>2 DEF waiting
    <3> QED
      BY <1>5, <3>1, Zenon DEF Due
  <2>3. CASE i # 1
    <3>1. i - 1 \in 1..Len(Tail(stages)) /\ (i - 1) + 1 = i
      BY <1>3, <2>3
    <3>2. c \in Tail(stages)[i - 1]
      BY <1>3, <2>1, <3>1
    <3> QED
      BY <1>5, <3>1, <3>2, Zenon DEF Due, Occurs
  <2> QED
    BY <2>2, <2>3
<1>13. \A i \in 1..Len(Tail(stages)) : Creation \notin Tail(stages)[i]
  <2> SUFFICES ASSUME NEW i \in 1..Len(Tail(stages)), Creation \in Tail(stages)[i]
               PROVE  FALSE
    OBVIOUS
  <2>1. i + 1 \in 1..Len(stages) /\ Creation \in stages[i + 1] /\ i + 1 # 1
    BY <1>3
  <2> QED
    BY <1>2, <2>1, Zenon DEF Progress, stages
<1>14. \A i : Stored(i)' = Stored(i)
  BY <1>5, SameBytes, Zenon DEF Stored
<1>15. Progress'
  <2>1. /\ Upload!Job' = Upload!Job /\ Creation' = Creation /\ GenericCalls' = GenericCalls
        /\ \A i : WriteCalls(Upload!Job')[i] = WriteCalls(Upload!Job)[i]
    BY <1>5, SameBytes, Zenon
  <2> QED
    BY <1>2, <1>3, <1>5, <1>12, <1>13, <1>14, <2>1, Zenon DEF Progress
<1> QED
  BY <1>5, <1>10, <1>11, <1>15 DEF GenericInv, BytesAreExact
-----------------------------------------------------------------------------
(* Transactions that are executed. *)

(* A call that lands is not waited for any more. *)
LEMMA GenericLanded ==
  ASSUME GenericType, NEW t \in underway, Upload!Landed(t),
         account' = [created |-> account'.created, body |-> account'.body]
  PROVE  /\ GenericType' /\ OnlyKnown
         /\ uploading'.state = uploading.state /\ uploading'.job = uploading.job
         /\ uploading'.n = uploading.n /\ uploading'.stages = uploading.stages
         /\ DOMAIN uploading'.waiting \subseteq DOMAIN uploading.waiting
         /\ \A c : Due(c) /\ c # t.call => Due(c)'
<1>1. underway' \subseteq underway
  BY DEF Upload!Landed
<1>2. OnlyKnown
  BY <1>1, FewerAreKnown
<1>3. Upload!NoCalls' = Upload!NoCalls
  BY DEF Upload!NoCalls
<1>4. CASE Upload!Awaited(t)
  <2> DEFINE w == uploading.waiting
             left == Upload!Restrict(w, DOMAIN w \ {t.call})
  <2>1. uploading' = [uploading EXCEPT !.waiting = left]
    BY <1>4 DEF Upload!Landed
  <2>2. DOMAIN left = DOMAIN w \ {t.call}
    BY DEF Upload!Restrict
  <2> HIDE DEF left
  <2>3. uploading' = [state |-> uploading.state, job |-> uploading.job, n |-> uploading.n,
                      stages |-> uploading.stages, waiting |-> left]
    BY <2>1, Zenon DEF GenericType
  <2>4. /\ uploading'.state = uploading.state /\ uploading'.job = uploading.job
        /\ uploading'.n = uploading.n /\ uploading'.stages = uploading.stages
        /\ uploading'.waiting = left
    BY <2>3
  <2>5. uploading.state = "running"
    BY <1>4 DEF Upload!Awaited, Upload!Working
  <2>6. GenericType'
    BY <1>2, <1>3, <2>3, <2>4, <2>5, Zenon DEF GenericType, OnlyKnown
  <2>7. \A c : Due(c) /\ c # t.call => Due(c)'
    BY <2>2, <2>4, Zenon DEF Due
  <2> QED
    BY <1>2, <2>2, <2>4, <2>6, <2>7
<1>5. CASE ~Upload!Awaited(t)
  <2>1. uploading' = uploading
    BY <1>5 DEF Upload!Landed
  <2>2. GenericType'
    BY <1>2, <1>3, <2>1, Zenon DEF GenericType, OnlyKnown
  <2> QED
    BY <1>2, <2>1, <2>2, Zenon DEF Due
<1> QED
  BY <1>4, <1>5

(* The account grows to the length asked for, or as far as it may. *)
LEMMA GrownFacts ==
  ASSUME NEW S, NEW body \in Seq(S), Blank \in S, NEW len \in Nat, Len(body) <= len
  PROVE  /\ GrownTo(body, len) \in Seq(S)
         /\ Len(GrownTo(body, len)) <= len
         /\ Len(body) <= Len(GrownTo(body, len))
         /\ \A i \in 1..Len(body) : GrownTo(body, len)[i] = body[i]
<1> DEFINE new == IF len > Len(body) + MaxIncrease THEN Len(body) + MaxIncrease ELSE len
           g == [i \in 1..new |-> IF i <= Len(body) THEN body[i] ELSE Blank]
<1>1. MaxIncrease \in Nat
  BY GenericUploadAssumption DEF GenericUploadConstants
<1>2. new \in Nat /\ new <= len /\ Len(body) <= new
  BY <1>1
<1>3. GrownTo(body, len) = g
  BY DEF GrownTo
<1> HIDE DEF new
<1>4. /\ g \in Seq(S) /\ Len(g) = new
      /\ \A i \in 1..Len(body) : g[i] = body[i]
  BY <1>2
<1> HIDE DEF g
<1> QED
  BY <1>2, <1>3, <1>4

(* A write puts its byte in its place and leaves the others. *)
LEMMA WriteFacts ==
  ASSUME GenericType, uploading.job \in 1..Len(GenericJobs), NotTooLong,
         account.created = TRUE, NEW i \in 1..Len(Upload!Job),
         WriteData(WriteCalls(Upload!Job)[i])
  PROVE  /\ account' = [created |-> TRUE, body |-> account'.body]
         /\ account'.body \in Seq(Content)
         /\ Len(account'.body) <= Len(Upload!Job)
         /\ Len(account.body) <= Len(account'.body)
         /\ i <= Len(account'.body) /\ account'.body[i] = Upload!Job[i]
         /\ \A k \in 1..Len(account.body) : k # i => account'.body[k] = account.body[k]
<1> DEFINE c == WriteCalls(Upload!Job)[i]
           old == account.body
           n == Len(Upload!Job)
           x == Upload!Job[i]
           S == Content
           mid == IF c.offset < Len(old) THEN old ELSE GrownTo(old, c.offset + 1)
           new == [mid EXCEPT ![c.offset + 1] = c.data]
<1>1. c.offset = i - 1 /\ c.data = x
  <2>1. c = [op |-> "write", offset |-> i - 1, data |-> x]
    BY PutFacts, Zenon
  <2> HIDE DEF c, x
  <2> QED
    BY <2>1
<1>2. n \in Nat /\ x \in S /\ Blank \in S
  BY ByteFacts, Zenon DEF Content
<1>3. old \in Seq(S) /\ Len(old) <= n
  BY DEF NotTooLong
<1>4. c.offset < Len(mid) /\ account' = [account EXCEPT !.body = new]
  BY Zenon DEF WriteData
<1> HIDE DEF c, old, x, S, n, new
<1>5. account = [created |-> TRUE, body |-> account.body]
  BY Zenon DEF GenericType
<1>6. account' = [created |-> TRUE, body |-> new] /\ account'.body = new
  BY <1>4, <1>5, Zenon
<1>7. /\ mid \in Seq(S) /\ Len(mid) <= n /\ Len(old) <= Len(mid)
      /\ \A k \in 1..Len(old) : mid[k] = old[k]
  <2>1. CASE c.offset < Len(old)
    BY <1>3, <2>1
  <2>2. CASE ~(c.offset < Len(old))
    <3>1. c.offset + 1 = i /\ i \in Nat /\ i <= n /\ Len(old) \in Nat
      BY <1>1, <1>2, <1>3 DEF n
    <3>2. Len(old) <= i
      BY <1>1, <2>2, <3>1
    <3> DEFINE g == GrownTo(old, i)
    <3>3. /\ g \in Seq(S) /\ Len(g) <= i /\ Len(old) <= Len(g)
          /\ \A k \in 1..Len(old) : g[k] = old[k]
      BY <1>2, <1>3, <3>1, <3>2, GrownFacts, Zenon
    <3>4. mid = g
      BY <2>2, <3>1, Zenon
    <3> HIDE DEF g, mid
    <3> QED
      BY <1>2, <3>1, <3>3, <3>4
  <2> QED
    BY <2>1, <2>2
<1> HIDE DEF mid
<1>8. i <= Len(mid) /\ i \in 1..Len(mid)
  <2>1. i \in Nat /\ i >= 1 /\ Len(mid) \in Nat
    BY <1>2, <1>7 DEF n
  <2> QED
    BY <1>1, <1>4, <2>1
<1>9. new = [mid EXCEPT ![i] = x]
  <2>1. c.offset + 1 = i
    BY <1>1, <1>8, <1>7
  <2> QED
    BY <1>1, <2>1, Zenon DEF new
<1>10. /\ new \in Seq(S) /\ Len(new) = Len(mid) /\ new[i] = x
       /\ \A k \in 1..Len(mid) : k # i => new[k] = mid[k]
  BY <1>2, <1>7, <1>8, <1>9
<1>11. \A k \in 1..Len(old) : k # i => new[k] = old[k]
  BY <1>3, <1>7, <1>10
<1> QED
  BY <1>6, <1>7, <1>8, <1>10, <1>11, Zenon DEF old, n, x, S

(* An executed call leaves an account. *)
LEMMA AccountShape ==
  ASSUME GenericType, NEW c, GenericExecute(c)
  PROVE  account' = [created |-> account'.created, body |-> account'.body]
<1>1. CASE CreateAndInit(c)
  <2>1. PICK body : account' = [created |-> TRUE, body |-> body]
    BY <1>1, Zenon DEF CreateAndInit
  <2> QED
    BY <2>1
<1>2. CASE WriteData(c)
  <2>1. PICK body : account' = [account EXCEPT !.body = body]
    BY <1>2, Zenon DEF WriteData
  <2>2. account' = [created |-> account.created, body |-> body]
    BY <2>1, Zenon DEF GenericType
  <2> QED
    BY <2>2
<1> QED
  BY <1>1, <1>2, Zenon DEF GenericExecute

(* The account is made, as long as one instruction can make it. *)
LEMMA ExecutesCreation ==
  ASSUME GenericInv, NEW t \in underway, t.n = uploading.n, Upload!Landed(t),
         uploading.state \in {"running", "returned"},
         t.call = Creation, GenericExecute(t.call)
  PROVE  GenericInv'
<1>1. /\ GenericType /\ OwnCalls /\ uploading.job \in 1..Len(GenericJobs)
      /\ uploading.state = "running" => Progress
  BY DEF GenericInv, GenericType
<1>2. Creation.op = "create" /\ Creation.len = Len(Upload!Job)
  BY <1>1, PutFacts, Zenon
<1>3. ~account.created /\ account' = [created |-> TRUE, body |-> GrownTo(<<>>, Len(Upload!Job))]
  BY <1>2 DEF GenericExecute, CreateAndInit
<1>4. uploading.state = "running" /\ Progress
  BY <1>1, <1>3 DEF GenericInv, BytesAreExact, Holds
<1>5. /\ GenericType' /\ OnlyKnown
      /\ uploading'.state = uploading.state /\ uploading'.job = uploading.job
      /\ uploading'.n = uploading.n /\ uploading'.stages = uploading.stages
      /\ DOMAIN uploading'.waiting \subseteq DOMAIN uploading.waiting
      /\ \A c : Due(c) /\ c # Creation => Due(c)'
  BY <1>1, AccountShape, GenericLanded, Zenon
<1>6. account'.created = TRUE /\ account'.body = GrownTo(<<>>, Len(Upload!Job))
  BY <1>3
<1>7. /\ Upload!Job' = Upload!Job /\ Creation' = Creation /\ Content' = Content
      /\ GenericCalls' = GenericCalls
      /\ \A i : WriteCalls(Upload!Job')[i] = WriteCalls(Upload!Job)[i]
  BY <1>5, SameBytes, Zenon
<1>8. OwnCalls'
  BY <1>1, <1>5, <1>6, OwnCallsKept, Zenon
<1>9. NotTooLong'
  <2> DEFINE S == Content
             n == Len(Upload!Job)
  <2>1. Blank \in S /\ n \in Nat
    BY <1>1, ByteFacts DEF Content
  <2> HIDE DEF S, n
  <2>2. <<>> \in Seq(S) /\ Len(<<>>) <= n
    BY <2>1
  <2>3. GrownTo(<<>>, n) \in Seq(S) /\ Len(GrownTo(<<>>, n)) <= n
    BY <2>1, <2>2, GrownFacts, Zenon
  <2> QED
    BY <1>6, <1>7, <2>3, Zenon DEF NotTooLong, S, n
<1>10. Progress'
  <2>1. \A i \in 1..Len(Upload!Job) : /\ Due(WriteCalls(Upload!Job)[i])
                                      /\ WriteCalls(Upload!Job)[i] # Creation
    BY <1>1, <1>3, <1>4, PutFacts, Zenon DEF Progress, Stored
  <2>2. DOMAIN uploading.waiting = {} => DOMAIN uploading'.waiting = {}
    BY <1>5
  <2> QED
    BY <1>4, <1>5, <1>6, <1>7, <2>1, <2>2, Zenon DEF Progress
<1> QED
  BY <1>4, <1>5, <1>8, <1>9, <1>10, Zenon DEF GenericInv, BytesAreExact

(* A write lands, for the first time or again. *)
LEMMA ExecutesPut ==
  ASSUME GenericInv, NEW t \in underway, t.n = uploading.n, Upload!Landed(t),
         uploading.state \in {"running", "returned"},
         t.call \in Puts, GenericExecute(t.call)
  PROVE  GenericInv'
<1>1. /\ GenericType /\ OwnCalls /\ NotTooLong /\ uploading.job \in 1..Len(GenericJobs)
      /\ uploading.state = "running" => Progress
  BY DEF GenericInv, GenericType
<1>2. t.call.op = "write" /\ t.call # Creation
  BY <1>1, PutFacts, Zenon
<1>3. WriteData(t.call) /\ account.created = TRUE
  <2>1. WriteData(t.call)
    BY <1>2 DEF GenericExecute
  <2> QED
    BY <1>1, <1>2, <2>1, Zenon DEF OwnCalls
<1>4. PICK i \in 1..Len(Upload!Job) : t.call = WriteCalls(Upload!Job)[i]
  BY <1>1, PutFacts, Zenon
<1>5. /\ account' = [created |-> TRUE, body |-> account'.body]
      /\ account'.body \in Seq(Content)
      /\ Len(account'.body) <= Len(Upload!Job)
      /\ Len(account.body) <= Len(account'.body)
      /\ i <= Len(account'.body) /\ account'.body[i] = Upload!Job[i]
      /\ \A k \in 1..Len(account.body) : k # i => account'.body[k] = account.body[k]
  BY <1>1, <1>3, <1>4, WriteFacts, Zenon
<1>6. account'.created = TRUE
  BY <1>5
<1>7. /\ GenericType' /\ OnlyKnown
      /\ uploading'.state = uploading.state /\ uploading'.job = uploading.job
      /\ uploading'.n = uploading.n /\ uploading'.stages = uploading.stages
      /\ DOMAIN uploading'.waiting \subseteq DOMAIN uploading.waiting
      /\ \A c : Due(c) /\ c # t.call => Due(c)'
  BY <1>1, AccountShape, GenericLanded, Zenon
<1>8. /\ Upload!Job' = Upload!Job /\ Creation' = Creation /\ Content' = Content
      /\ GenericCalls' = GenericCalls
      /\ \A k : WriteCalls(Upload!Job')[k] = WriteCalls(Upload!Job)[k]
  BY <1>7, SameBytes, Zenon
<1>9. OwnCalls' /\ NotTooLong'
  BY <1>1, <1>5, <1>6, <1>7, <1>8, OwnCallsKept, Zenon DEF NotTooLong
<1>10. Stored(i)'
  BY <1>5, <1>6, <1>8, Zenon DEF Stored
<1>11. ASSUME NEW k \in 1..Len(Upload!Job), Stored(k)
       PROVE  Stored(k)'
  <2>1. CASE k = i
    BY <1>10, <2>1, Zenon
  <2>2. CASE k # i
    <3> DEFINE old == account.body
               new == account'.body
               n == Len(Upload!Job)
    <3>1. old \in Seq(Content) /\ k <= Len(old) /\ old[k] = Upload!Job[k] /\ n \in Nat
      BY <1>1, <1>3, <1>11, ByteFacts, Zenon DEF NotTooLong, Stored
    <3>2. new \in Seq(Content) /\ Len(old) <= Len(new)
      BY <1>5
    <3> HIDE DEF old, new, n
    <3>3. k \in 1..Len(old) /\ k <= Len(new)
      BY <3>1, <3>2 DEF n
    <3>4. new[k] = old[k]
      BY <1>5, <2>2, <3>3, Zenon DEF old, new
    <3> QED
      BY <1>6, <1>8, <3>1, <3>3, <3>4, Zenon DEF Stored, new
  <2> QED
    BY <2>1, <2>2
<1>12. ASSUME uploading.state = "running"
       PROVE  Progress'
  <2>1. Progress
    BY <1>1, <1>12
  <2>2. \A k \in 1..Len(Upload!Job) : Due(WriteCalls(Upload!Job)[k])' \/ Stored(k)'
    <3> SUFFICES ASSUME NEW k \in 1..Len(Upload!Job), ~Stored(k)'
                 PROVE  Due(WriteCalls(Upload!Job)[k])'
      BY Zenon
    <3>1. k # i /\ ~Stored(k)
      BY <1>10, <1>11, Zenon
    <3>2. Due(WriteCalls(Upload!Job)[k])
      BY <2>1, <3>1, Zenon DEF Progress
    <3>3. WriteCalls(Upload!Job)[k] # t.call
      <4>1. /\ WriteCalls(Upload!Job)[k] = [op |-> "write", offset |-> k - 1, data |-> Upload!Job[k]]
            /\ t.call = [op |-> "write", offset |-> i - 1, data |-> Upload!Job[i]]
        BY <1>1, <1>4, PutFacts, Zenon
      <4>2. k - 1 # i - 1
        BY <3>1
      <4> QED
        BY <4>1, <4>2
    <3> QED
      BY <1>7, <1>8, <3>2, <3>3, Zenon
  <2>3. DOMAIN uploading.waiting = {} => DOMAIN uploading'.waiting = {}
    BY <1>7
  <2> QED
    BY <1>6, <1>7, <1>8, <2>1, <2>2, <2>3, Zenon DEF Progress
<1>13. ASSUME uploading.state = "returned"
       PROVE  Holds(Upload!Job)'
  <2>1. account.body = Upload!Job
    BY <1>13 DEF GenericInv, BytesAreExact, Holds
  <2>2. \A k \in 1..Len(Upload!Job) : Stored(k)
    <3>1. \A k \in 1..Len(Upload!Job) : k <= Len(Upload!Job)
      BY <1>1, ByteFacts
    <3> QED
      BY <1>3, <2>1, <3>1, Zenon DEF Stored
  <2>3. \A k \in 1..Len(Upload!Job) : Stored(k)'
    BY <1>11, <2>2, Zenon
  <2> DEFINE d == Upload!Job
             new == account'.body
             S == Content
  <2>4. /\ d \in Seq(S) /\ new \in Seq(S)
        /\ Len(new) <= Len(d) /\ Len(d) <= Len(new)
        /\ \A k \in 1..Len(d) : new[k] = d[k]
    BY <1>1, <1>5, <1>8, <2>1, <2>3, ByteFacts, Zenon DEF Stored
  <2> HIDE DEF d, new, S
  <2>5. new = d
    BY <2>4
  <2> QED
    BY <1>6, <1>8, <2>5, Zenon DEF Holds, new, d
<1> QED
  BY <1>7, <1>9, <1>12, <1>13, Zenon DEF GenericInv, BytesAreExact, GenericType, States

(* A transaction reaches the account of its own upload, or one that nobody *)
(* reads.                                                                  *)
LEMMA GenericLands ==
  ASSUME GenericInv, NEW t \in underway, GenericLand(t)
  PROVE  GenericInv'
<1>1. CASE t.n = uploading.n /\ GenericExecute(t.call) /\ Upload!Landed(t)
  <2>1. GenericType
    BY DEF GenericInv
  <2>2. CASE uploading.state = "idle"
    <3>1. GenericType' /\ uploading'.state = uploading.state
      BY <1>1, <2>1, AccountShape, GenericLanded, Zenon
    <3> QED
      BY <2>2, <3>1 DEF GenericInv, BytesAreExact
  <2>3. CASE uploading.state = "ensure"
    BY <1>1, <2>3, Zenon DEF GenericInv, Untouched
  <2>4. CASE uploading.state \in {"running", "returned"}
    <3>1. t.call = Creation \/ t.call \in Puts
      BY <1>1, <2>4, Zenon DEF GenericInv, OwnCalls, GenericCalls
    <3> QED
      BY <1>1, <2>4, <3>1, ExecutesCreation, ExecutesPut, Zenon
  <2> QED
    BY <2>1, <2>2, <2>3, <2>4 DEF GenericType, States
<1>2. CASE Upload!Refused(t) /\ UNCHANGED account
  BY <1>2, GenericRefused, Zenon
<1>3. CASE t.n # uploading.n /\ Upload!Landed(t) /\ UNCHANGED account
  <2>1. UNCHANGED uploading /\ underway' \subseteq underway
    BY <1>3, Zenon DEF Upload!Landed, Upload!Awaited
  <2> QED
    BY <1>3, <2>1, GenericQuiet, Zenon
<1> QED
  BY <1>1, <1>2, <1>3, Zenon DEF GenericLand

(* Every step preserves the invariant. *)
LEMMA GenericStep ==
  ASSUME GenericInv, [GenericNext]_genericVars
  PROVE  GenericInv'
<1>1. CASE UNCHANGED genericVars
  <2>1. UNCHANGED <<account, uploading>> /\ underway' \subseteq underway
    BY <1>1 DEF genericVars, genericClientVars
  <2> QED
    BY <2>1, GenericQuiet, Zenon
<1>2. CASE Upload!ClientStep /\ UNCHANGED account
  <2>1. CASE Upload!NextStage
    BY <1>2, <2>1, GenericReturns, GenericSends, Zenon
  <2> QED
    BY <1>2, <2>1, GenericClientStep, Zenon
<1> QED
  BY <1>1, <1>2, GenericPlanned, GenericLands, GenericConsumed, Zenon DEF GenericNext

(* When create_generic_buffer returns Ok the account holds the bytes and   *)
(* nothing else: in whatever order parallel writes are executed, however   *)
(* often one is repeated after a lost reply, whatever of an abandoned      *)
(* upload still lands, and however little an instruction can grow it.      *)
THEOREM GenericUploadsAreExact == GenericSpec => []BytesAreExact
<1>1. GenericInit => GenericInv
  BY GenericStart
<1>2. GenericInv /\ [GenericNext]_genericVars => GenericInv'
  BY GenericStep
<1>3. GenericInv => BytesAreExact
  BY DEF GenericInv
<1> QED
  BY <1>1, <1>2, <1>3, PTL DEF GenericSpec
-----------------------------------------------------------------------------
(* The rate limiter. *)

Labels == {"idle", "limited", "waiting", "leaving", "granted", "refused"}

(* queue_size never falls behind the requests that wait: one that is       *)
(* dropped leaves it too high, which errs on the safe side.                *)
LimiterInv ==
  /\ at \in [Tasks -> Labels]
  /\ tokens \in Nat
  /\ queueSize \in Nat
  /\ QueueOnLimit => queueSize <= MaxQueueDepth
  /\ IsFiniteSet(Queued)
  /\ Cardinality(Queued) <= queueSize

(* The counts that a change of one task's place gives. *)
LEMMA QueuedChanges ==
  ASSUME LimiterInv, NEW t \in Tasks, NEW label \in Labels, Goto(t, label)
  PROVE  /\ at' \in [Tasks -> Labels]
         /\ IsFiniteSet(Queued')
         /\ label \in {"waiting", "leaving"} => Queued' = Queued \cup {t}
         /\ label \notin {"waiting", "leaving"} => Queued' = Queued \ {t}
<1>1. at' \in [Tasks -> Labels]
  BY DEF Goto, LimiterInv
<1>2. label \in {"waiting", "leaving"} => Queued' = Queued \cup {t}
  BY DEF Goto, LimiterInv, Queued
<1>3. label \notin {"waiting", "leaving"} => Queued' = Queued \ {t}
  BY DEF Goto, LimiterInv, Queued
<1>4. IsFiniteSet(Queued \cup {t}) /\ IsFiniteSet(Queued \ {t})
  BY FS_AddElement, FS_RemoveElement DEF LimiterInv
<1> QED
  BY <1>1, <1>2, <1>3, <1>4

(* The length of the queue when a task leaves or joins it. *)
LEMMA CardinalityChanges ==
  ASSUME LimiterInv, NEW t \in Tasks
  PROVE  /\ Cardinality(Queued) \in Nat
         /\ Cardinality(Queued \ {t})
              = IF t \in Queued THEN Cardinality(Queued) - 1 ELSE Cardinality(Queued)
         /\ Cardinality(Queued \cup {t})
              = IF t \in Queued THEN Cardinality(Queued) ELSE Cardinality(Queued) + 1
  BY FS_AddElement, FS_RemoveElement, FS_CardinalityType DEF LimiterInv

(* Every step preserves the invariant. *)
LEMMA LimiterStep ==
  ASSUME LimiterInv, [LimiterNext]_limiterVars
  PROVE  LimiterInv'
<1>1. CASE UNCHANGED limiterVars
  BY <1>1 DEF limiterVars, LimiterInv, Queued
<1>2. CASE Refill
  BY <1>2 DEF Refill, LimiterInv, Queued
<1>3. ASSUME NEW t \in Tasks, NEW label \in Labels \ {"waiting", "leaving"},
             Goto(t, label), tokens' \in Nat, queueSize' = queueSize
      PROVE  LimiterInv'
  <2>1. /\ at' \in [Tasks -> Labels] /\ IsFiniteSet(Queued')
        /\ Queued' = Queued \ {t}
    BY <1>3, QueuedChanges
  <2>2. Cardinality(Queued') <= queueSize
    BY <2>1, CardinalityChanges DEF LimiterInv
  <2> QED
    BY <1>3, <2>1, <2>2 DEF LimiterInv
<1>4. ASSUME NEW t \in Tasks, Call(t) \/ TryAcquire(t) \/ Drop(t)
      PROVE  LimiterInv'
  <2>1. PICK label \in {"granted", "limited", "idle"} : Goto(t, label)
    BY <1>4 DEF Call, TryAcquire, Drop
  <2>2. tokens' \in Nat /\ queueSize' = queueSize
    BY <1>4 DEF Call, TryAcquire, Drop, LimiterInv
  <2>3. label \in Labels \ {"waiting", "leaving"}
    BY <2>1 DEF Labels
  <2> QED
    BY <1>3, <2>1, <2>2, <2>3
<1>5. ASSUME NEW t \in Tasks, Enqueue(t)
      PROVE  LimiterInv'
  <2>1. CASE QueueFull
    BY <1>3, <1>5, <2>1 DEF Enqueue, Labels, LimiterInv
  <2>2. CASE ~QueueFull
    <3>1. Goto(t, "waiting") /\ queueSize' = queueSize + 1 /\ tokens' = tokens
      BY <1>5, <2>2 DEF Enqueue
    <3>2. /\ at' \in [Tasks -> Labels] /\ IsFiniteSet(Queued')
          /\ Queued' = Queued \cup {t}
      BY <3>1, QueuedChanges DEF Labels
    <3>3. Cardinality(Queued') <= queueSize + 1
      <4>1. /\ Cardinality(Queued) \in Nat
            /\ \/ Cardinality(Queued') = Cardinality(Queued)
               \/ Cardinality(Queued') = Cardinality(Queued) + 1
        BY <3>2, CardinalityChanges, Zenon
      <4>2. queueSize \in Nat /\ Cardinality(Queued) <= queueSize
        BY DEF LimiterInv
      <4> QED
        BY <4>1, <4>2
    <3>4. QueueOnLimit => queueSize + 1 <= MaxQueueDepth
      BY <2>2, RateLimiterAssumption DEF QueueFull, LimiterInv, RateLimiterConstants
    <3> QED
      BY <3>1, <3>2, <3>3, <3>4 DEF LimiterInv
  <2> QED
    BY <2>1, <2>2
<1>6. ASSUME NEW t \in Tasks, UntilReady(t)
      PROVE  LimiterInv'
  <2>1. /\ Goto(t, "leaving") /\ queueSize' = queueSize
        /\ tokens' \in Nat /\ t \in Queued
    BY <1>6 DEF UntilReady, LimiterInv, Queued
  <2>2. /\ at' \in [Tasks -> Labels] /\ IsFiniteSet(Queued')
        /\ Queued' = Queued \cup {t}
    BY <2>1, QueuedChanges DEF Labels
  <2>3. Queued' = Queued
    BY <2>1, <2>2
  <2> QED
    BY <2>1, <2>2, <2>3 DEF LimiterInv
<1>7. ASSUME NEW t \in Tasks, Leave(t)
      PROVE  LimiterInv'
  <2>1. /\ Goto(t, "granted") /\ tokens' = tokens /\ t \in Queued
        /\ queueSize' = IF queueSize = 0 THEN 0 ELSE queueSize - 1
    BY <1>7 DEF Leave, Queued
  <2>2. /\ at' \in [Tasks -> Labels] /\ IsFiniteSet(Queued')
        /\ Queued' = Queued \ {t}
    BY <2>1, QueuedChanges DEF Labels
  <2>3. Cardinality(Queued') = Cardinality(Queued) - 1 /\ Cardinality(Queued') \in Nat
    BY <2>1, <2>2, CardinalityChanges, FS_CardinalityType, Zenon
  <2>4. Cardinality(Queued) \in Nat /\ Cardinality(Queued) <= queueSize /\ queueSize \in Nat
    BY CardinalityChanges, <2>1, Zenon DEF LimiterInv, Queued
  <2>5. /\ queueSize' \in Nat /\ queueSize' <= queueSize
        /\ Cardinality(Queued') <= queueSize'
    BY <2>1, <2>3, <2>4
  <2>6. QueueOnLimit => queueSize' <= MaxQueueDepth
    BY <2>4, <2>5, RateLimiterAssumption DEF LimiterInv, RateLimiterConstants
  <2> QED
    BY <2>1, <2>2, <2>5, <2>6 DEF LimiterInv
<1> QED
  BY <1>1, <1>2, <1>4, <1>5, <1>6, <1>7 DEF LimiterNext, Acquire

(* However requests of any number of tasks interleave, and wherever their  *)
(* futures are dropped, acquire() never lets more of them wait than        *)
(* max_queue_depth.                                                        *)
THEOREM QueueBounded == LimiterSpec => []QueueIsBounded
<1>1. LimiterInit => LimiterInv
  <2> SUFFICES ASSUME LimiterInit
               PROVE  LimiterInv
    OBVIOUS
  <2>1. Queued = {}
    BY DEF LimiterInit, Queued
  <2> QED
    BY <2>1, FS_EmptySet, RateLimiterAssumption DEF LimiterInit, LimiterInv, Labels, RateLimiterConstants
<1>2. LimiterInv /\ [LimiterNext]_limiterVars => LimiterInv'
  BY LimiterStep
<1>3. LimiterInv => QueueIsBounded
  <2> SUFFICES ASSUME LimiterInv, QueueOnLimit
               PROVE  Cardinality(Queued) <= MaxQueueDepth
    BY DEF QueueIsBounded
  <2>1. Cardinality(Queued) \in Nat
    BY FS_CardinalityType DEF LimiterInv
  <2> QED
    BY <2>1, RateLimiterAssumption DEF LimiterInv, RateLimiterConstants
<1> QED
  BY <1>1, <1>2, <1>3, PTL DEF LimiterSpec
-----------------------------------------------------------------------------
(* The combined index. *)

(* Division with remainder has one result. *)
LEMMA OneQuotient ==
  ASSUME NEW q \in Nat, NEW m \in Nat \ {0}, NEW r \in 0..(m - 1)
  PROVE  (q * m + r) \div m = q /\ (q * m + r) % m = r
<1> DEFINE x == q * m + r
           p == x \div m
           z == x % m
<1>1. x \in Nat /\ q * m \in Nat
  OBVIOUS
<1> HIDE DEF x
<1>2. p \in Nat /\ z \in 0..(m - 1) /\ x = m * p + z
  BY <1>1
<1> HIDE DEF p, z
<1>3. x = m * q + r
  BY DEF x
<1>4. ~(p < q)
  <2> SUFFICES ASSUME p + 1 <= q
               PROVE  FALSE
    BY <1>2
  <2>1. m * (p + 1) <= m * q
    BY <1>2
  <2>2. m * (p + 1) = m * p + m /\ m * p \in Nat /\ m * q \in Nat
    BY <1>2
  <2> QED
    BY <1>2, <1>3, <2>1, <2>2
<1>5. ~(q < p)
  <2> SUFFICES ASSUME q + 1 <= p
               PROVE  FALSE
    BY <1>2
  <2>1. m * (q + 1) <= m * p
    BY <1>2
  <2>2. m * (q + 1) = m * q + m /\ m * p \in Nat /\ m * q \in Nat
    BY <1>2
  <2> QED
    BY <1>2, <1>3, <2>1, <2>2
<1>6. p = q
  BY <1>2, <1>4, <1>5
<1>7. z = r
  <2>1. m * q \in Nat
    OBVIOUS
  <2> QED
    BY <1>2, <1>3, <1>6, <2>1
<1> QED
  BY <1>6, <1>7 DEF p, z, x

(* A sum of multiples and a remainder is below the next multiple. *)
LEMMA BelowNext ==
  ASSUME NEW q \in Nat, NEW n \in Nat, q < n, NEW m \in Nat \ {0}, NEW r \in 0..(m - 1)
  PROVE  q * m + r < n * m
<1>1. (q + 1) * m <= n * m
  OBVIOUS
<1>2. (q + 1) * m = q * m + m /\ q * m \in Nat /\ n * m \in Nat
  OBVIOUS
<1> QED
  BY <1>1, <1>2

(* Taking the index of a valid output apart gives the output. *)
LEMMA TakenApart ==
  ASSUME NEW o \in ValidOutputs
  PROVE  OutputOf(CombinedIndex(o)) = o /\ CombinedIndex(o) \in Nat
<1> DEFINE B == BlockNumbers
           T == TxNumbers
           O == OutputNumbers
           b == o.block
           t == o.tx
           u == o.output
           c == CombinedIndex(o)
<1>1. B \in Nat \ {0} /\ T \in Nat \ {0} /\ O \in Nat \ {0}
  BY TxoIndexAssumption DEF TxoIndexConstants, OutputNumbers
<1>2. /\ b \in 0..(B - 1) /\ t \in 0..(T - 1) /\ u \in 0..(O - 1)
      /\ o = [block |-> b, tx |-> t, output |-> u]
  BY DEF ValidOutputs
<1>3. c = b * (T * O) + t * O + u
  BY DEF CombinedIndex
<1>4. OutputOf(c) = [block |-> (c \div (T * O)) % B, tx |-> (c \div O) % T, output |-> c % O]
  BY DEF OutputOf
<1> HIDE DEF B, T, O, b, t, u, c
<1>5. /\ b \in Nat /\ t \in Nat /\ u \in Nat /\ t < T
      /\ T * O \in Nat \ {0} /\ t * O \in Nat /\ b * T \in Nat
  BY <1>1, <1>2
<1>6. c \div O = b * T + t /\ c % O = u
  <2>1. c = (b * T + t) * O + u
    <3>1. (b * T + t) * O = b * T * O + t * O /\ b * T * O = b * (T * O)
      BY <1>1, <1>5
    <3> QED
      BY <1>3, <3>1
  <2>2. b * T + t \in Nat
    BY <1>5
  <2> QED
    BY <1>1, <1>2, <2>1, <2>2, OneQuotient, Zenon
<1>7. (b * T + t) % T = t
  BY <1>1, <1>2, <1>5, OneQuotient, Zenon
<1>8. c \div (T * O) = b
  <2> DEFINE M == T * O
             r == t * O + u
  <2>1. r < M /\ r \in Nat
    BY <1>1, <1>2, <1>5, BelowNext
  <2>2. c = b * M + r
    <3>1. b * (T * O) \in Nat
      BY <1>5
    <3> QED
      BY <1>3, <1>5, <3>1
  <2>3. M \in Nat \ {0}
    BY <1>5
  <2> HIDE DEF M, r
  <2>4. r \in 0..(M - 1)
    BY <2>1, <2>3
  <2>5. c \div M = b
    BY <1>5, <2>2, <2>3, <2>4, OneQuotient, Zenon
  <2> QED
    BY <2>5 DEF M
<1>9. b % B = b
  <2>1. (0 * B + b) % B = b
    BY <1>1, <1>2, OneQuotient, Zenon
  <2>2. 0 * B + b = b
    BY <1>1, <1>5
  <2> QED
    BY <2>1, <2>2, Zenon
<1>10. OutputOf(c) = o
  BY <1>2, <1>4, <1>6, <1>7, <1>8, <1>9
<1>11. c \in Nat
  <2>1. b * (T * O) \in Nat
    BY <1>5
  <2> QED
    BY <1>3, <1>5, <2>1
<1> QED
  BY <1>10, <1>11 DEF c

(* The number after the index of an output is the index of the output that *)
(* follows: in the transaction, in the block, or in the next block.        *)
LEMMA NextOutput ==
  ASSUME NEW o \in ValidOutputs, CombinedIndex(o) + 1 < TreeLeaves * LeafSize
  PROVE  \E p \in ValidOutputs :
           CombinedIndex(p) = CombinedIndex(o) + 1 /\ Later(p, o)
<1> DEFINE B == BlockNumbers
           T == TxNumbers
           O == OutputNumbers
           b == o.block
           t == o.tx
           u == o.output
<1>1. B \in Nat \ {0} /\ T \in Nat \ {0} /\ O \in Nat \ {0}
  BY TxoIndexAssumption DEF TxoIndexConstants, OutputNumbers
<1>2. b \in 0..(B - 1) /\ t \in 0..(T - 1) /\ u \in 0..(O - 1)
  BY DEF ValidOutputs
<1>3. \A p : CombinedIndex(p) = p.block * (T * O) + p.tx * O + p.output
  BY DEF CombinedIndex
<1>4. CombinedIndex(o) + 1 < B * (T * O)
  <2>1. TreeLeaves * LeafSize = B * (T * O)
    BY TxoIndexAssumption DEF TxoIndexConstants, TreeLeaves, OutputNumbers
  <2> QED
    BY <2>1
<1>5. \A x \in 0..(B - 1), y \in 0..(T - 1), w \in 0..(O - 1) :
        [block |-> x, tx |-> y, output |-> w] \in ValidOutputs
  BY DEF ValidOutputs
<1> HIDE DEF B, T, O
<1>6. T * O \in Nat \ {0} /\ t * O \in Nat /\ b * (T * O) \in Nat
  BY <1>1, <1>2
<1>7. CASE u + 1 < O
  <2> DEFINE p == [block |-> b, tx |-> t, output |-> u + 1]
  <2>1. p \in ValidOutputs
    BY <1>1, <1>2, <1>5, <1>7
  <2>2. CombinedIndex(p) = CombinedIndex(o) + 1
    BY <1>2, <1>3, <1>6
  <2>3. Later(p, o)
    BY <1>2 DEF Later
  <2> QED
    BY <2>1, <2>2, <2>3
<1>8. CASE ~(u + 1 < O) /\ t + 1 < T
  <2> DEFINE p == [block |-> b, tx |-> t + 1, output |-> 0]
  <2>1. p \in ValidOutputs
    BY <1>1, <1>2, <1>5, <1>8
  <2>2. CombinedIndex(p) = CombinedIndex(o) + 1
    <3>1. (t + 1) * O = t * O + O /\ u + 1 = O
      BY <1>1, <1>2, <1>8
    <3> QED
      BY <1>1, <1>2, <1>3, <1>6, <3>1
  <2>3. Later(p, o)
    BY <1>2 DEF Later
  <2> QED
    BY <2>1, <2>2, <2>3
<1>9. CASE ~(u + 1 < O) /\ ~(t + 1 < T)
  <2> DEFINE p == [block |-> b + 1, tx |-> 0, output |-> 0]
             M == T * O
  <2>1. u + 1 = O /\ t + 1 = T
    BY <1>1, <1>2, <1>9
  <2>2. CombinedIndex(o) + 1 = (b + 1) * M
    <3>1. (t + 1) * O = t * O + O /\ (b + 1) * (T * O) = b * (T * O) + T * O
      BY <1>1, <1>2
    <3> QED
      BY <1>1, <1>2, <1>3, <1>6, <2>1, <3>1
  <2>3. b + 1 < B
    <3>1. M \in Nat \ {0} /\ (b + 1) * M < B * M
      BY <1>4, <1>6, <2>2
    <3> HIDE DEF M
    <3> SUFFICES ASSUME B <= b + 1
                 PROVE  FALSE
      BY <1>1, <1>2
    <3>2. B * M <= (b + 1) * M
      BY <1>1, <1>2, <3>1
    <3>3. B * M \in Nat /\ (b + 1) * M \in Nat
      BY <1>1, <1>2, <3>1
    <3> QED
      BY <3>1, <3>2, <3>3
  <2>4. p \in ValidOutputs
    BY <1>1, <1>2, <1>5, <2>3
  <2>5. CombinedIndex(p) = CombinedIndex(o) + 1
    <3>1. 0 * O = 0 /\ (b + 1) * M \in Nat
      BY <1>1, <1>2, <1>6
    <3>2. CombinedIndex(p) = (b + 1) * M + 0 * O + 0
      BY <1>3
    <3> QED
      BY <2>2, <3>1, <3>2
  <2>6. Later(p, o)
    BY <1>2 DEF Later
  <2> QED
    BY <2>4, <2>5, <2>6
<1> QED
  BY <1>7, <1>8, <1>9

(* The leaf and the bit of an index are in the tree, and the bit is that   *)
(* of the output number.                                                   *)
LEMMA LeafInTree ==
  ASSUME NEW o \in ValidOutputs
  PROVE  /\ LeafAndBit(CombinedIndex(o)).leaf < TreeLeaves
         /\ LeafAndBit(CombinedIndex(o)).bit = MerkleIndexAndBit(o).bit
<1> DEFINE B == BlockNumbers
           T == TxNumbers
           L == LeavesPerTx
           S == LeafSize
           b == o.block
           t == o.tx
           u == o.output
           c == CombinedIndex(o)
           w == u \div S
           r == u % S
           q == b * (T * L) + t * L + w
<1>1. /\ B \in Nat \ {0} /\ T \in Nat \ {0} /\ L \in Nat \ {0} /\ S \in Nat \ {0}
      /\ OutputNumbers = L * S /\ TreeLeaves = B * T * L
  BY TxoIndexAssumption DEF TxoIndexConstants, OutputNumbers, TreeLeaves
<1>2. b \in 0..(B - 1) /\ t \in 0..(T - 1) /\ u \in 0..(L * S - 1)
  BY <1>1 DEF ValidOutputs
<1>3. c = b * (T * (L * S)) + t * (L * S) + u
  BY <1>1 DEF CombinedIndex
<1>4. /\ LeafAndBit(c).leaf = c \div S /\ LeafAndBit(c).bit = c % S
      /\ MerkleIndexAndBit(o).bit = r
  BY DEF LeafAndBit, MerkleIndexAndBit
<1> HIDE DEF B, T, L, S, b, t, u, c
<1>5. b \in Nat /\ t \in Nat /\ u \in Nat /\ b < B /\ t < T /\ u < L * S /\ L * S \in Nat
  BY <1>1, <1>2
<1>6. w \in Nat /\ r \in 0..(S - 1) /\ u = w * S + r
  <2>1. w \in Nat /\ r \in 0..(S - 1) /\ u = S * w + r
    BY <1>1, <1>5
  <2> HIDE DEF w, r
  <2> QED
    BY <1>1, <2>1
<1> HIDE DEF w, r
<1>7. w < L
  <2> SUFFICES ASSUME L <= w
               PROVE  FALSE
    BY <1>1, <1>6
  <2>1. L * S <= w * S /\ w * S \in Nat
    BY <1>1, <1>6
  <2> QED
    BY <1>5, <1>6, <2>1
<1>8. t * L + w < T * L /\ t * L \in Nat /\ T * L \in Nat \ {0}
  <2>1. w \in 0..(L - 1)
    BY <1>1, <1>6, <1>7
  <2>2. t * L + w < T * L
    BY <1>1, <1>5, <2>1, BelowNext, Zenon
  <2> QED
    BY <1>1, <1>5, <2>2
<1>9. q < B * T * L /\ q \in Nat
  <2> DEFINE M == T * L
             v == t * L + w
  <2>1. M \in Nat \ {0} /\ v \in 0..(M - 1)
    BY <1>6, <1>8
  <2>2. B * T * L = B * M
    BY <1>1
  <2>3. q = b * M + v /\ b * M \in Nat
    BY <1>5, <1>6, <1>8
  <2> HIDE DEF M, v
  <2>4. b * M + v < B * M
    BY <1>1, <1>5, <2>1, BelowNext, Zenon
  <2> HIDE DEF q
  <2> QED
    BY <2>1, <2>2, <2>3, <2>4
<1>10. c = q * S + r
  <2>1. q * S = b * (T * L) * S + t * L * S + w * S
    BY <1>1, <1>5, <1>6
  <2>2. b * (T * L) * S = b * (T * (L * S)) /\ t * L * S = t * (L * S)
    BY <1>1, <1>5
  <2>3. b * (T * (L * S)) \in Nat /\ t * (L * S) \in Nat /\ w * S \in Nat
    BY <1>1, <1>5, <1>6
  <2> HIDE DEF q
  <2> QED
    BY <1>3, <1>6, <2>1, <2>2, <2>3
<1> HIDE DEF q
<1>11. c \div S = q /\ c % S = r
  BY <1>1, <1>6, <1>9, <1>10, OneQuotient, Zenon
<1> QED
  BY <1>1, <1>4, <1>9, <1>11 DEF c

(* For every width of the fields, get_txo_combined_index names one output  *)
(* only: its index is taken apart into the same output, its leaf and its   *)
(* bit are in the tree, and the next index is that of a later output.      *)
THEOREM IndexIsExact == txo \in ValidOutputs => IndexNamesOutput
<1> SUFFICES ASSUME txo \in ValidOutputs
             PROVE  IndexNamesOutput
  OBVIOUS
<1> DEFINE c == CombinedIndex(txo)
<1>1. OutputOf(c) = txo
  BY TakenApart, Zenon
<1>2. LeafAndBit(c).leaf < TreeLeaves /\ LeafAndBit(c).bit = MerkleIndexAndBit(txo).bit
  BY LeafInTree, Zenon
<1>3. ASSUME c + 1 < TreeLeaves * LeafSize
      PROVE  Later(OutputOf(c + 1), txo)
  <2>1. PICK p \in ValidOutputs : CombinedIndex(p) = c + 1 /\ Later(p, txo)
    BY <1>3, NextOutput, Zenon
  <2>2. OutputOf(c + 1) = p
    BY <2>1, TakenApart, Zenon
  <2> QED
    BY <2>1, <2>2, Zenon
<1> QED
  BY <1>1, <1>2, <1>3, Zenon DEF IndexNamesOutput
=============================================================================
