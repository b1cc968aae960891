---------------------------- MODULE BridgeHeader ----------------------------
(***************************************************************************)
(* The part of the bridge's state that follows the Dogecoin chain: the     *)
(* header and the ring of recently finalized states.                       *)
(*                                                                         *)
(* The Dogecoin chain itself is a constant: block h, once buried deep      *)
(* enough, contains Deposits[h] deposits that are minted automatically.    *)
(* A header is accepted only with a zero-knowledge proof that it extends   *)
(* the previous one along that chain, so a header is modelled by its two   *)
(* heights and every hash in it by the height it belongs to.               *)
(***************************************************************************)
EXTENDS Integers, Sequences

CONSTANTS
  Deposits,        \* Deposits[h]: the auto-claimed deposits of block h
  Confirmations,   \* how far the tip is ahead of the finalized block
  RecentSlots      \* 8, the length of recent_finalized_blocks

ASSUME BridgeHeaderAssumption ==
  /\ Deposits \in Seq(Nat)
  /\ Confirmations \in Nat
  /\ RecentSlots \in Nat \ {0}

VARIABLES
  header,          \* bridge_header
  recent           \* recent_finalized_blocks and its next index

headerVars == <<header, recent>>

Heights == 1..Len(Deposits)

(* The headers the proof system attests (external).  The finalized block   *)
(* trails the tip by the number of confirmations.                          *)
ProvenHeader(h) == [height |-> h, tip |-> h + Confirmations]

(* initialize: every slot of the ring holds the starting state. *)
HeaderInit ==
  /\ header = ProvenHeader(0)
  /\ recent = [slots |-> [i \in 0..(RecentSlots - 1) |-> 0], next |-> 0]

(* Faulty: the ring index does not wrap. *)
SingleBlockNoWrap(h) ==
  /\ h = header.height + 1
  /\ ProvenHeader(h).tip > header.tip
  /\ header' = ProvenHeader(h)
  /\ recent' = [slots |-> [recent.slots EXCEPT ![recent.next] = h],
                next  |-> recent.next + 1]

(* The header checks and updates of run_standard_single_block_transition. *)
SingleBlock(h) ==
  /\ h = header.height + 1
  /\ ProvenHeader(h).tip > header.tip
  /\ header' = ProvenHeader(h)
  /\ recent' = [slots |-> [recent.slots EXCEPT ![recent.next] = h],
                next  |-> (recent.next + 1) % RecentSlots]

(* The header checks and updates of run_block_transition_reorg: the ring   *)
(* is left as it is.                                                       *)
ReorgBlocks(h) ==
  /\ h > header.height
  /\ ProvenHeader(h).tip > header.tip
  /\ header' = ProvenHeader(h)
  /\ UNCHANGED recent
=============================================================================
