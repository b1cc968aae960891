------------------------- MODULE MCPendingMintBuffer -------------------------
(* One writer, two possible lockers; the lengths are chosen around the     *)
(* group size, and one above 65512 where the ceiling division of reinit()  *)
(* wraps.  Growth is bounded so that two groups take several instructions. *)
EXTENDS PendingMintBuffer

CONSTANTS w1, bridge, other

MCWriters     == {w1}
MCLockers     == {bridge, other}
MCMintCounts  == {0, 1, 24, 25, 26, 49, 65513, 65535}
MCMintData    == [blk : {1}, grp : {0}, len : {0, 1, 2, 23, 24, 25}]
MCMaxIncrease == 700
=============================================================================
