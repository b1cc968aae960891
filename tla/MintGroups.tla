------------------------------ MODULE MintGroups ------------------------------
(***************************************************************************)
(* How a block's pending mints are cut into groups.  One transaction mints *)
(* one group, so the bridge, the buffer program and the clients all have   *)
(* to cut the same list in the same way.  The operators below are pure     *)
(* functions of the number of pending mints of a block.                    *)
(***************************************************************************)
EXTENDS Integers

(* PM_MAX_PENDING_MINTS_PER_GROUP, the same literal in both programs. *)
GroupSize == 24

(* One past the largest value of a u16. *)
U16 == 256 * 256

(* compute_mint_group_info, first component: how many groups n mints need. *)
MintGroups(n) ==
  IF n % GroupSize = 0 THEN n \div GroupSize ELSE n \div GroupSize + 1

(* compute_mint_group_info, second component: the size of the last group.  *)
(* run_auto_mint_group_precheck computes the same number inline.           *)
LastGroupSize(n) ==
  IF n = 0 THEN 0 ELSE IF n % GroupSize = 0 THEN GroupSize ELSE n % GroupSize

(* The number of mints in group g of a list of n mints. *)
MintsInGroup(n, g) ==
  IF g = MintGroups(n) - 1 THEN LastGroupSize(n) ELSE GroupSize

(* PendingMintsBufferStateHeader::reinit: the ceiling division of the      *)
(* buffer program.  The addition is done in u16 and wraps in a release     *)
(* build.                                                                  *)
ReinitGroups(n) == ((n + GroupSize - 1) % U16) \div GroupSize

-----------------------------------------------------------------------------
(* Both programs lay a buffer out as a 72 byte header, one 32 byte hash    *)
(* per group and 40 bytes per mint.                                        *)
HeaderSize      == 72
HashSize        == 32
PendingMintSize == 40

(* get_total_buffer_size (buffer program, from the header's two counters), *)
(* calculate_target_size and pm_calculate_data_account_min_size (from the  *)
(* number of mints only).                                                  *)
BufferSize(groups, mints) ==
  HeaderSize + HashSize * groups + PendingMintSize * mints

(* get_nth_pending_mint_offset, in both programs. *)
MintOffset(groups, mintIndex) == BufferSize(groups, mintIndex)
=============================================================================
