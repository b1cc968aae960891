---------------------------- MODULE Instructions ----------------------------
(***************************************************************************)
(* The accounts each client lists for each instruction, in the order it    *)
(* lists them.  An account is named by the part it plays; the same part is *)
(* the same key in every list.  The bytes of the instruction are left out. *)
(***************************************************************************)
EXTENDS Naturals, Sequences, TLC

(* AccountMeta::new and new_readonly, with is_signer false and true. *)
Account(role, signer, writable) ==
  [role |-> role, signer |-> signer, writable |-> writable]

R(role) == Account(role, FALSE, FALSE)
W(role) == Account(role, FALSE, TRUE)
S(role) == Account(role, TRUE, FALSE)
WS(role) == Account(role, TRUE, TRUE)

(* The accounts of the n mints of one group, named by their place in it. *)
Recipients(n) == [i \in 1..n |-> W(ToString(i))]

-----------------------------------------------------------------------------
(* The operator's client in Rust *)
RustInitializeBridge == <<W("bridge_state"), WS("payer"), R("system")>>

RustBlockUpdate ==
  <<W("bridge_state"), W("mint_buffer"), W("txo_buffer"), S("operator"),
    WS("payer"), R("mint_buffer_program"), R("txo_buffer_program")>>

RustProcessReorgBlocks ==
  <<W("bridge_state"), W("mint_buffer"), W("txo_buffer"), S("operator"),
    WS("payer"), R("mint_buffer_program"), R("txo_buffer_program")>>

RustRequestWithdrawal ==
  <<W("bridge_state"), W("user_token"), W("mint"), S("user"), R("token")>>

RustProcessWithdrawal ==
  <<W("bridge_state"), R("generic_buffer"), R("shim"), W("bridge_config"),
    W("message"), W("sequence"), WS("payer"), W("fee_collector"), R("clock"),
    R("system"), R("core_bridge"), R("event_authority")>>

RustReplayWithdrawal ==
  <<W("bridge_state"), R("generic_buffer"), R("shim"), W("bridge_config"),
    W("message"), W("sequence"), WS("payer"), W("fee_collector"), R("clock"),
    R("system"), R("core_bridge"), R("event_authority")>>

RustManualClaimDeposit ==
  <<W("claim_pda"), R("bridge_state"), W("user_token"), W("mint"), R("token"),
    R("bridge"), S("user"), WS("payer"), R("system")>>

RustProcessMintGroup(n) ==
  <<W("bridge_state"), W("mint_buffer"), S("operator"), W("mint"),
    WS("operator"), R("mint_buffer_program"), R("token")>> \o Recipients(n)

RustProcessMintGroupAutoAdvance(n) ==
  <<W("bridge_state"), W("mint_buffer"), W("txo_buffer"), S("operator"),
    W("mint"), WS("operator"), R("mint_buffer_program"),
    R("txo_buffer_program"), R("token")>> \o Recipients(n)

RustOperatorWithdrawFees ==
  <<W("bridge_state"), W("operator_token"), W("mint"), WS("operator"),
    R("token")>>

RustSnapshotWithdrawals == <<W("bridge_state"), S("operator"), WS("payer")>>

RustGenericBufferInit == <<W("generic_buffer"), WS("payer"), R("system")>>
RustGenericBufferWrite == <<W("generic_buffer"), WS("payer"), R("system")>>
RustPendingMintSetup == <<W("mint_buffer"), R("system")>>
RustPendingMintReinit == <<W("mint_buffer"), WS("payer"), R("system")>>
RustPendingMintInsert == <<W("mint_buffer"), WS("payer"), R("system")>>
RustTxoBufferInit == <<W("txo_buffer"), R("system")>>
RustTxoBufferSetLen ==
  <<W("txo_buffer"), WS("payer"), R("system"), S("operator")>>
RustTxoBufferWrite == <<W("txo_buffer"), WS("operator")>>

-----------------------------------------------------------------------------
(* The operator's client in TypeScript *)
JsInitializeBridge == <<W("bridge_state"), WS("payer"), R("system")>>

JsBlockUpdate ==
  <<W("bridge_state"), W("mint_buffer"), W("txo_buffer"), S("operator"),
    WS("payer"), R("mint_buffer_program"), R("txo_buffer_program")>>

JsProcessReorgBlocks ==
  <<W("bridge_state"), W("mint_buffer"), W("txo_buffer"), S("operator"),
    WS("payer"), R("mint_buffer_program"), R("txo_buffer_program")>>

JsRequestWithdrawal ==
  <<W("bridge_state"), W("user_token"), W("mint"), S("user"), R("token")>>

JsProcessWithdrawal ==
  <<W("bridge_state"), R("generic_buffer"), R("shim"), W("bridge_config"),
    W("message"), W("sequence"), WS("payer"), W("fee_collector"), R("clock"),
    R("system"), R("core_bridge"), R("event_authority")>>

JsReplayWithdrawal ==
  <<W("bridge_state"), R("generic_buffer"), R("shim"), W("bridge_config"),
    W("message"), W("sequence"), WS("payer"), W("fee_collector"), R("clock"),
    R("system"), R("core_bridge"), R("event_authority")>>

JsManualClaimDeposit ==
  <<W("claim_pda"), R("bridge_state"), W("user_token"), W("mint"), R("token"),
    R("bridge"), S("user"), WS("payer"), R("system")>>

JsProcessMintGroup(n) ==
  <<W("bridge_state"), W("mint_buffer"), S("operator"), W("mint"),
    WS("operator"), R("mint_buffer_program"), R("token")>> \o Recipients(n)

JsProcessMintGroupAutoAdvance(n) ==
  <<W("bridge_state"), W("mint_buffer"), W("txo_buffer"), S("operator"),
    W("mint"), WS("operator"), R("mint_buffer_program"),
    R("txo_buffer_program"), R("token")>> \o Recipients(n)

JsOperatorWithdrawFees ==
  <<W("bridge_state"), W("operator_token"), W("mint"), WS("operator"),
    R("token")>>

JsSnapshotWithdrawals == <<W("bridge_state"), S("operator"), WS("payer")>>

JsGenericBufferInit == <<W("generic_buffer"), WS("payer"), R("system")>>
JsGenericBufferWrite == <<W("generic_buffer"), WS("payer"), R("system")>>
JsPendingMintSetup == <<W("mint_buffer"), R("system")>>
JsPendingMintReinit == <<W("mint_buffer"), WS("payer"), R("system")>>
JsPendingMintInsert == <<W("mint_buffer"), WS("payer"), R("system")>>
JsTxoBufferInit == <<W("txo_buffer"), R("system")>>
JsTxoBufferSetLen ==
  <<W("txo_buffer"), WS("payer"), R("system"), S("operator")>>
JsTxoBufferWrite == <<W("txo_buffer"), WS("operator")>>

-----------------------------------------------------------------------------
(* The users' clients *)
UserRequestWithdrawal ==
  <<W("bridge_state"), W("user_token"), W("mint"), S("user"), R("token")>>

UserManualClaim ==
  <<W("claim_pda"), R("bridge_state"), W("user_token"), W("mint"), R("token"),
    R("bridge"), S("user"), WS("payer"), R("system")>>

UserJsRequestWithdrawal ==
  <<W("bridge_state"), W("user_token"), W("mint"), S("user"), R("token")>>

UserJsManualClaim ==
  <<W("claim_pda"), R("bridge_state"), W("user_token"), W("mint"), R("token"),
    R("bridge"), S("user"), WS("payer"), R("system")>>
=============================================================================
