----------------------------- MODULE RateLimiter -----------------------------
(***************************************************************************)
(* RpcRateLimiter: every RPC call of the Rust client first acquires a slot *)
(* of a token bucket.  A request that finds the bucket empty counts itself *)
(* in queue_size, waits for a token, and counts itself out again; when     *)
(* queue_size has reached max_queue_depth it is refused.                   *)
(*                                                                         *)
(* acquire() gives up the processor where it awaits: between the attempt   *)
(* to take a token and the lock of queue_size, while it waits for a token, *)
(* and before the second lock.  Any other request can run there, and a     *)
(* request can be dropped there: try_join_all drops the uploads that are   *)
(* still waiting when one of them fails.                                   *)
(***************************************************************************)
EXTENDS Naturals, FiniteSets

CONSTANTS
  Tasks,            \* the futures that may call acquire() at the same time
  Burst,            \* RateLimitConfig::burst_size
  QueueOnLimit,     \* RateLimitConfig::queue_on_limit
  MaxQueueDepth,    \* RateLimitConfig::max_queue_depth
  MaxRequests,      \* bound: requests in a behaviour
  MaxDrops          \* bound: futures dropped in a behaviour

RateLimiterConstants ==
  /\ Burst \in Nat \ {0} /\ MaxQueueDepth \in Nat
  /\ MaxRequests \in Nat /\ MaxDrops \in Nat
  /\ QueueOnLimit \in BOOLEAN

ASSUME RateLimiterAssumption == RateLimiterConstants

VARIABLES
  tokens,       \* what the bucket holds
  queueSize,    \* queue_size
  at,           \* where each task is in acquire()
  requests,     \* requests made so far
  drops         \* futures dropped so far

limiterVars == <<tokens, queueSize, at, requests, drops>>

LimiterInit ==
  /\ tokens = Burst
  /\ queueSize = 0
  /\ at = [t \in Tasks |-> "idle"]
  /\ requests = 0
  /\ drops = 0

(* The bucket of the governor crate: one more token, up to the burst. *)
Refill ==
  /\ tokens < Burst
  /\ tokens' = tokens + 1
  /\ UNCHANGED <<queueSize, at, requests, drops>>

Goto(t, label) == at' = [at EXCEPT ![t] = label]

(* A call of acquire(): the immediate attempt. *)
Call(t) ==
  /\ at[t] \in {"idle", "granted", "refused"}
  /\ requests < MaxRequests
  /\ requests' = requests + 1
  /\ IF tokens > 0
     THEN tokens' = tokens - 1 /\ Goto(t, "granted")
     ELSE UNCHANGED tokens /\ Goto(t, "limited")
  /\ UNCHANGED <<queueSize, drops>>

(* try_acquire() and would_allow(): both take the token they find. *)
TryAcquire(t) ==
  /\ at[t] \in {"idle", "granted", "refused"}
  /\ requests < MaxRequests
  /\ requests' = requests + 1
  /\ tokens > 0 /\ tokens' = tokens - 1
  /\ Goto(t, "granted")
  /\ UNCHANGED <<queueSize, drops>>

(* Faulty: one request too many may wait. *)
QueueFullBeyond == QueueOnLimit /\ queueSize > MaxQueueDepth

QueueFull == QueueOnLimit /\ queueSize >= MaxQueueDepth

(* The first critical section of queue_size. *)
Enqueue(t) ==
  /\ at[t] = "limited"
  /\ IF QueueFull
     THEN Goto(t, "refused") /\ UNCHANGED queueSize
     ELSE Goto(t, "waiting") /\ queueSize' = queueSize + 1
  /\ UNCHANGED <<tokens, requests, drops>>

(* until_ready(): sleeps until it finds a token. *)
UntilReady(t) ==
  /\ at[t] = "waiting"
  /\ tokens > 0 /\ tokens' = tokens - 1
  /\ Goto(t, "leaving")
  /\ UNCHANGED <<queueSize, requests, drops>>

(* The second critical section, with its saturating subtraction. *)
Leave(t) ==
  /\ at[t] = "leaving"
  /\ queueSize' = IF queueSize = 0 THEN 0 ELSE queueSize - 1
  /\ Goto(t, "granted")
  /\ UNCHANGED <<tokens, requests, drops>>

(* The future of the request is dropped where it awaits. *)
Drop(t) ==
  /\ at[t] \in {"limited", "waiting", "leaving"}
  /\ drops < MaxDrops
  /\ drops' = drops + 1
  /\ Goto(t, "idle")
  /\ UNCHANGED <<tokens, queueSize, requests>>

Acquire(t) == Call(t) \/ Enqueue(t) \/ UntilReady(t) \/ Leave(t)

LimiterNext ==
  \/ Refill
  \/ \E t \in Tasks : Acquire(t) \/ TryAcquire(t) \/ Drop(t)

LimiterSpec == LimiterInit /\ [][LimiterNext]_limiterVars

-----------------------------------------------------------------------------
Queued == {t \in Tasks : at[t] \in {"waiting", "leaving"}}

(* However requests interleave and are dropped, no more than               *)
(* max_queue_depth of them wait for a slot.                                *)
QueueIsBounded == QueueOnLimit => Cardinality(Queued) <= MaxQueueDepth

(* acquire() "returns an error if the queue is full": a request is refused *)
(* only while as many others wait as may wait.                             *)
RefusedOnlyWhenFull ==
  [][\A t \in Tasks : at[t] = "limited" /\ at'[t] = "refused"
       => Cardinality(Queued) >= MaxQueueDepth]_limiterVars
=============================================================================
