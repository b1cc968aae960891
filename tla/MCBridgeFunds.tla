---------------------------- MODULE MCBridgeFunds ----------------------------
(***************************************************************************)
(* The funds of the bridge on a chain of four blocks: blocks 1 and 3 have  *)
(* an auto-claimed deposit, blocks 1 and 2 one that is not.  Each initial  *)
(* state chooses what the behaviour is mostly about:                       *)
(*                                                                         *)
(*   "claims"    all blocks, manual claims and a request that is not paid  *)
(*   "payments"  block 1 only, no manual claims, everything about requests *)
(***************************************************************************)
EXTENDS BridgeFunds, TLC

CONSTANTS a1, a3, m1, m2, u1, u2

VARIABLE scenario

MCDeposits   == <<1, 0, 1, 0>>
MCOutputs    == {a1, a3, m1, m2}
MCBlockOf    == (a1 :> 1) @@ (a3 :> 3) @@ (m1 :> 1) @@ (m2 :> 2)
MCAmountOf   == (a1 :> 12) @@ (a3 :> 4) @@ (m1 :> 4) @@ (m2 :> 8)
MCOwnerOf    == [o \in MCOutputs |-> IF o = m2 THEN u2 ELSE u1]
MCAuto       == {a1, a3}
MCUsers      == {u1, u2}
MCFee        == [flat |-> 1, num |-> 1, den |-> 4]
MCHeaderFees == [h \in 0..4 |-> IF h = 0 THEN 0 ELSE IF h < 3 THEN 4 ELSE 6]

MCInit == scenario \in {"claims", "payments"} /\ Init

MCNext ==
  /\ (scenario = "claims" /\ Claims) \/ Movements
  /\ scenario = "claims" => Len(wd'.requested) <= 1 /\ proofs' = {} /\ clock' = Start
  /\ scenario = "payments" => header'.height <= 1
  /\ UNCHANGED scenario

MCSpec == MCInit /\ [][MCNext]_<<vars, scenario>>
=============================================================================
