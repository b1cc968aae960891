---------------------------- MODULE SignatureFeed ----------------------------
(***************************************************************************)
(* What the readers of the chain have in common: the confirmed             *)
(* transactions that touch one account, oldest first, of which they ask an *)
(* RPC node for the newest between two signatures.  A signature is the     *)
(* position of its transaction.  A transaction is one of a few kinds:      *)
(*                                                                         *)
(*   "request", "process"  the withdrawal instructions of the bridge;      *)
(*   "failed"              a request that the bridge refused: it is on the *)
(*                         chain all the same;                             *)
(*   "claim"               a manual claim; the bridge is called by the     *)
(*                         manual-claim program, not by the transaction;   *)
(*   "block"               a block update;                                 *)
(*   "message"             a withdrawal posted to the noop shim by the     *)
(*                         bridge, "foreign" one posted by somebody else;  *)
(*   "other"               anything else.                                  *)
(***************************************************************************)
EXTENDS Naturals, Sequences, FiniteSets, Functions

CONSTANTS
  Kinds,        \* the kinds of transactions that happen
  MaxChain,     \* bound: how many of them
  BatchSize     \* how many signatures a reader asks for at a time

FeedConstants ==
  /\ Kinds \subseteq {"request", "process", "failed", "claim", "block",
                      "message", "foreign", "other"}
  /\ MaxChain \in Nat /\ BatchSize \in Nat \ {0}

ASSUME FeedAssumption == FeedConstants

VARIABLE
  chain         \* the kinds of the transactions so far

FeedInit == chain = <<>>

Land ==
  /\ Len(chain) < MaxChain
  /\ \E k \in Kinds : chain' = Append(chain, k)

(* getSignaturesForAddress: the n newest signatures after `until' and      *)
(* before `before', newest first.                                          *)
Signatures(until, before, n) ==
  [i \in 1..(IF before - 1 - until < n THEN before - 1 - until ELSE n) |->
     before - i]

(* `before: None': from the newest transaction on. *)
Top == Len(chain) + 1

(* last() and rev() of a list of signatures. *)
LastOf(sigs) == sigs[Len(sigs)]
Reversed(sigs) == [i \in 1..Len(sigs) |-> sigs[(Len(sigs) - i) + 1]]

(* The signatures of the list that are wanted, in the order of the list. *)
Kept(sigs, wanted) ==
  LET kept[n \in 0..Len(sigs)] ==
        IF n = 0 THEN <<>>
        ELSE IF sigs[n] \in wanted THEN Append(kept[n - 1], sigs[n])
        ELSE kept[n - 1]
  IN  kept[Len(sigs)]

OfKind(kinds) == {i \in 1..Len(chain) : chain[i] \in kinds}

(* The transactions of the list that the reader reports. *)
Reported(sigs, kinds) == Kept(sigs, OfKind(kinds))

Increasing(s) == \A i, j \in 1..Len(s) : i < j => s[i] < s[j]
Decreasing(s) == \A i, j \in 1..Len(s) : i < j => s[i] > s[j]
=============================================================================
