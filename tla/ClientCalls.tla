----------------------------- MODULE ClientCalls -----------------------------
(***************************************************************************)
(* The functions of the clients that send one instruction.                 *)
(***************************************************************************)
EXTENDS Instructions

(* The client functions: the instruction, its accounts for a group of n    *)
(* mints, who pays the fee, and the keys that sign beside the fee payer's. *)
Sent(ix, accounts, payer, signers) ==
  [ix |-> ix, accounts |-> accounts, payer |-> payer, signers |-> signers]

(* BridgeClient of the Rust client *)
ApiBlockTransition == Sent("block_update", RustBlockUpdate, "payer", {"operator"})
ApiBlockReorg == Sent("block_update", RustProcessReorgBlocks, "payer", {"operator"})
ApiMintGroup(n) == Sent("mint_group", RustProcessMintGroup(n), "payer", {"operator"})
ApiAutoAdvance(n) ==
  Sent("auto_advance", RustProcessMintGroupAutoAdvance(n), "payer", {"operator"})
ApiRequestWithdrawal == Sent("request", RustRequestWithdrawal, "payer", {"user"})
ApiProcessWithdrawal ==
  Sent("withdrawal", RustProcessWithdrawal, "payer", {"operator"})
ApiReplayWithdrawal == Sent("replay", RustReplayWithdrawal, "payer", {})
ApiSnapshot == Sent("snapshot", RustSnapshotWithdrawals, "payer", {"operator"})
ApiManualClaim == Sent("claim", RustManualClaimDeposit, "payer", {"user"})
ApiInitialize == Sent("initialize", RustInitializeBridge, "payer", {"operator"})
ApiWithdrawFees == Sent("fees", RustOperatorWithdrawFees, "payer", {"operator"})

(* DogeBridgeClient, the older client of the same crate *)
ClientInitialize == Sent("initialize", RustInitializeBridge, "payer", {})
ClientRequestWithdrawal == Sent("request", RustRequestWithdrawal, "payer", {"user"})
ClientProcessWithdrawal == Sent("withdrawal", RustProcessWithdrawal, "payer", {})
BuilderExecute(reorg) ==
  Sent("block_update",
       IF reorg THEN RustProcessReorgBlocks ELSE RustBlockUpdate, "payer", {})

(* The buffer managers: the payer signs alone, the operator with it only   *)
(* for the TXO buffer.                                                     *)
BufferGenericInit == Sent("generic", RustGenericBufferInit, "payer", {})
BufferGenericWrite == Sent("generic", RustGenericBufferWrite, "payer", {})
BufferMintSetup == Sent("mint_setup", RustPendingMintSetup, "payer", {})
BufferMintReinit == Sent("mint_reinit", RustPendingMintReinit, "payer", {})
BufferMintInsert == Sent("mint_insert", RustPendingMintInsert, "payer", {})
BufferTxoInit == Sent("txo_init", RustTxoBufferInit, "payer", {})
BufferTxoSetLen == Sent("txo_set_len", RustTxoBufferSetLen, "payer", {"operator"})
BufferTxoWrite == Sent("txo_write", RustTxoBufferWrite, "payer", {"operator"})

(* BridgeClient of the TypeScript client *)
JsBlockTransition == Sent("block_update", JsBlockUpdate, "payer", {"operator"})
JsBlockReorg == Sent("block_update", JsProcessReorgBlocks, "payer", {"operator"})
JsMintGroup(n) == Sent("mint_group", JsProcessMintGroup(n), "payer", {"operator"})
JsAutoAdvance(n) ==
  Sent("auto_advance", JsProcessMintGroupAutoAdvance(n), "payer", {"operator"})
JsSendRequest == Sent("request", JsRequestWithdrawal, "payer", {"user"})
JsSendWithdrawal == Sent("withdrawal", JsProcessWithdrawal, "payer", {})
JsSendReplay == Sent("replay", JsReplayWithdrawal, "payer", {})
JsSnapshot == Sent("snapshot", JsSnapshotWithdrawals, "payer", {"operator"})
JsManualClaim == Sent("claim", JsManualClaimDeposit, "payer", {"user"})
JsInitialize == Sent("initialize", JsInitializeBridge, "payer", {})
JsWithdrawFees == Sent("fees", JsOperatorWithdrawFees, "payer", {"operator"})
JsGenericBuffer == Sent("generic", JsGenericBufferInit, "payer", {})
JsGenericWrite == Sent("generic", JsGenericBufferWrite, "payer", {})
JsMintBuffer ==
  [setup |-> Sent("mint_setup", JsPendingMintSetup, "payer", {}),
   reinit |-> Sent("mint_reinit", JsPendingMintReinit, "payer", {}),
   insert |-> Sent("mint_insert", JsPendingMintInsert, "payer", {})]
JsTxoBuffer ==
  [init |-> Sent("txo_init", JsTxoBufferInit, "payer", {}),
   set_len |-> Sent("txo_set_len", JsTxoBufferSetLen, "payer", {}),
   write |-> Sent("txo_write", JsTxoBufferWrite, "payer", {})]

(* The users' clients: the user pays for a request. *)
UserSendRequest == Sent("request", UserRequestWithdrawal, "user", {})
UserSubmitClaim == Sent("claim", UserManualClaim, "payer", {"user"})
UserJsSendRequest == Sent("request", UserJsRequestWithdrawal, "user", {})
UserJsSubmitClaim == Sent("claim", UserJsManualClaim, "payer", {"user"})

(* Every function, by its name *)
Sends(n) ==
  [ApiBlockTransition |-> ApiBlockTransition, ApiBlockReorg |-> ApiBlockReorg,
   ApiMintGroup |-> ApiMintGroup(n), ApiAutoAdvance |-> ApiAutoAdvance(n),
   ApiRequestWithdrawal |-> ApiRequestWithdrawal,
   ApiProcessWithdrawal |-> ApiProcessWithdrawal,
   ApiReplayWithdrawal |-> ApiReplayWithdrawal, ApiSnapshot |-> ApiSnapshot,
   ApiManualClaim |-> ApiManualClaim, ApiInitialize |-> ApiInitialize,
   ApiWithdrawFees |-> ApiWithdrawFees, ClientInitialize |-> ClientInitialize,
   ClientRequestWithdrawal |-> ClientRequestWithdrawal,
   ClientProcessWithdrawal |-> ClientProcessWithdrawal,
   BuilderUpdate |-> BuilderExecute(FALSE),
   BuilderReorg |-> BuilderExecute(TRUE),
   BufferGenericInit |-> BufferGenericInit,
   BufferGenericWrite |-> BufferGenericWrite,
   BufferMintSetup |-> BufferMintSetup, BufferMintReinit |-> BufferMintReinit,
   BufferMintInsert |-> BufferMintInsert, BufferTxoInit |-> BufferTxoInit,
   BufferTxoSetLen |-> BufferTxoSetLen, BufferTxoWrite |-> BufferTxoWrite,
   JsBlockTransition |-> JsBlockTransition, JsBlockReorg |-> JsBlockReorg,
   JsMintGroup |-> JsMintGroup(n), JsAutoAdvance |-> JsAutoAdvance(n),
   JsSendRequest |-> JsSendRequest, JsSendWithdrawal |-> JsSendWithdrawal,
   JsSendReplay |-> JsSendReplay, JsSnapshot |-> JsSnapshot,
   JsManualClaim |-> JsManualClaim, JsInitialize |-> JsInitialize,
   JsWithdrawFees |-> JsWithdrawFees, JsGenericBuffer |-> JsGenericBuffer,
   JsGenericWrite |-> JsGenericWrite, JsMintSetup |-> JsMintBuffer.setup,
   JsMintReinit |-> JsMintBuffer.reinit, JsMintInsert |-> JsMintBuffer.insert,
   JsTxoInit |-> JsTxoBuffer.init, JsTxoSetLen |-> JsTxoBuffer.set_len,
   JsTxoWrite |-> JsTxoBuffer.write, UserSendRequest |-> UserSendRequest,
   UserSubmitClaim |-> UserSubmitClaim,
   UserJsSendRequest |-> UserJsSendRequest,
   UserJsSubmitClaim |-> UserJsSubmitClaim]
=============================================================================
