---------------------------- MODULE ClaimHistory ----------------------------
(***************************************************************************)
(* ManualClaimClient::get_all_claim_history of the user clients (Rust and  *)
(* TypeScript): collects a user's manual claims by paging backwards        *)
(* through the transactions of the user's claim account.                   *)
(***************************************************************************)
EXTENDS SignatureFeed

CONSTANTS
  ClaimClients, \* the clients in use: "rust", "js"
  MaxUnread     \* bound: transactions that cannot be fetched in one call

ClaimHistoryConstants ==
  /\ FeedConstants
  /\ ClaimClients \subseteq {"rust", "js"}
  /\ MaxUnread \in Nat

ASSUME ClaimHistoryAssumption == ClaimHistoryConstants

VARIABLES
  scan,         \* [state, client, start, before]: a call in progress
  claims,       \* all_claims
  unreadable    \* history: the transactions this call could not fetch

claimVars == <<scan, claims, unreadable>>

ClaimInit ==
  /\ FeedInit
  /\ scan = [state |-> "idle", client |-> "none", start |-> 0, before |-> 0]
  /\ claims = <<>>
  /\ unreadable = {}

ClaimTransaction == Land /\ UNCHANGED claimVars

GetAllClaimHistory ==
  /\ scan.state = "idle"
  /\ \E client \in ClaimClients :
       scan' = [state |-> "paging", client |-> client, start |-> Len(chain),
                before |-> Top]
  /\ claims' = <<>>
  /\ unreadable' = {}
  /\ UNCHANGED chain

(* get_claim_history: a page of signatures, of which failed transactions,  *)
(* those that cannot be fetched and those without a claim instruction are  *)
(* left out.                                                               *)
GetClaimHistory(bad) ==
  Kept(Signatures(0, scan.before, BatchSize), OfKind({"claim"}) \ bad)

(* The pages a call may get: none, or some, of the transactions fail. *)
Failing ==
  {bad \in SUBSET Range(Signatures(0, scan.before, BatchSize)) :
     Cardinality(unreadable \cup bad) <= MaxUnread}

(* Faulty: a page begins at its cursor. *)
TurnTwice(found) ==
  /\ claims' = claims \o found
  /\ scan' = IF Len(found) < BatchSize
             THEN [scan EXCEPT !.state = "idle"]
             ELSE [scan EXCEPT !.before = LastOf(found) + 1]

(* One turn of the loop of get_all_claim_history. *)
Turn(found) ==
  /\ claims' = claims \o found
  /\ scan' = IF Len(found) < BatchSize
             THEN [scan EXCEPT !.state = "idle"]
             ELSE [scan EXCEPT !.before = LastOf(found)]

GetPage ==
  /\ scan.state = "paging" /\ scan.client = "rust"
  /\ \E bad \in Failing :
       Turn(GetClaimHistory(bad)) /\ unreadable' = unreadable \cup bad
  /\ UNCHANGED chain

(* getClaimHistory and getAllClaimHistory of the TypeScript client. *)
JsGetClaimHistory(bad) == GetClaimHistory(bad)

JsGetPage ==
  /\ scan.state = "paging" /\ scan.client = "js"
  /\ \E bad \in Failing :
       Turn(JsGetClaimHistory(bad)) /\ unreadable' = unreadable \cup bad
  /\ UNCHANGED chain

ClaimNext == ClaimTransaction \/ GetAllClaimHistory \/ GetPage \/ JsGetPage

ClaimSpec == ClaimInit /\ [][ClaimNext]_<<chain, claimVars>>
-----------------------------------------------------------------------------
Claims == {i \in 1..scan.start : chain[i] = "claim"}

(* The claims found so far are the newest ones that could be read, newest  *)
(* first: no other between two of them is missing and none is listed       *)
(* twice.                                                                  *)
NewestClaims ==
  /\ Decreasing(claims)
  /\ claims # <<>> =>
       Range(claims) = {i \in Claims : i >= LastOf(claims)} \ unreadable

(* "This repeatedly calls get_claim_history until all claims are fetched." *)
AllClaimsFetched == scan.state = "idle" => Range(claims) = Claims
=============================================================================
