---------------------------- MODULE ProgramCalls ----------------------------
(***************************************************************************)
(* The accounts each handler of the five programs reads, in order, what it *)
(* checks of them or does to them itself, and the calls it makes with      *)
(* them.  R marks an account the handler itself only reads or hands on.    *)
(***************************************************************************)
EXTENDS Instructions

(* The programs: the accounts an instruction takes, in order, with what it *)
(* checks of them or does to them, and the calls it makes.                 *)
Program(accounts, calls) == [accounts |-> accounts, calls |-> calls]

(* A call: the accounts it lists, those signed for by address, those the   *)
(* caller has borrowed to write, and whether it is made every time.        *)
Call(ix, accounts, seeds, borrowed, always) ==
  [ix |-> ix, accounts |-> accounts, seeds |-> seeds, borrowed |-> borrowed,
   always |-> always]

CreateAccount(role, always) ==
  Call("create_account", <<WS("payer"), WS(role)>>, {role}, {}, always)

PayRent(role) ==
  Call("transfer", <<WS("payer"), W(role)>>, {}, {}, FALSE)

Lock(always) ==
  Call("lock", <<W("mint_buffer"), S("bridge_state")>>, {"bridge_state"}, {},
       always)

Unlock ==
  Call("unlock", <<W("mint_buffer"), S("bridge_state")>>, {"bridge_state"}, {},
       FALSE)

MintTo(role) ==
  Call("mint_to", <<W("mint"), W(role), S("bridge_state")>>, {"bridge_state"},
       {}, TRUE)

Burn ==
  Call("burn", <<W("user_token"), W("mint"), S("user")>>, {},
       {"bridge_state"}, TRUE)

SendWormholeVaa ==
  Call("post_message",
       <<W("bridge_config"), W("message"), S("bridge_state"), W("sequence"),
         WS("payer"), W("fee_collector"), R("clock"), R("system"),
         R("core_bridge"), R("event_authority")>>,
       {"bridge_state"}, {}, TRUE)

(* manual-claim has borrowed its claim account to write when it calls. *)
CallManualDeposit ==
  Call("manual_deposit",
       <<W("bridge_state"), W("user_token"), W("mint"), R("token"),
         S("claim_pda")>>, {"claim_pda"}, {"claim_pda"}, TRUE)

(* allocate and assign: both are made for a new account only *)
Adopt(role) == Call("assign", <<WS(role)>>, {role}, {}, FALSE)

-----------------------------------------------------------------------------
ProcessInitialize ==
  Program(<<W("bridge_state"), R("payer"), R("system")>>,
          <<CreateAccount("bridge_state", FALSE)>>)

(* run_block_update_common, for both block updates *)
ProcessBlockUpdate ==
  Program(<<W("bridge_state"), R("mint_buffer"), R("txo_buffer"),
            S("operator"), R("payer"), R("mint_buffer_program"),
            R("txo_buffer_program")>>,
          <<Lock(TRUE), Unlock>>)

ProcessMintGroup(n) ==
  Program(<<W("bridge_state"), R("mint_buffer"), S("operator"), R("mint"),
            R("operator"), R("mint_buffer_program"), R("token")>>
            \o [i \in 1..n |-> R(ToString(i))],
          [i \in 1..n |-> MintTo(ToString(i))] \o <<Unlock>>)

(* Faulty: locks the buffer with its data borrowed. *)
AutoAdvanceBorrowed(n) ==
  Program(<<W("bridge_state"), R("mint_buffer"), R("txo_buffer"),
            S("operator"), R("mint"), R("operator"),
            R("mint_buffer_program"), R("txo_buffer_program"), R("token")>>
            \o [i \in 1..n |-> R(ToString(i))],
          <<[Lock(FALSE) EXCEPT !.borrowed = {"bridge_state"}]>>
            \o [i \in 1..n |-> MintTo(ToString(i))] \o <<Unlock>>)

ProcessMintGroupAutoAdvance(n) ==
  Program(<<W("bridge_state"), R("mint_buffer"), R("txo_buffer"),
            S("operator"), R("mint"), R("operator"),
            R("mint_buffer_program"), R("txo_buffer_program"), R("token")>>
            \o [i \in 1..n |-> R(ToString(i))],
          <<Lock(FALSE)>> \o [i \in 1..n |-> MintTo(ToString(i))]
            \o <<Unlock>>)

ProcessRequestWithdrawal ==
  Program(<<W("bridge_state"), R("user_token"), R("mint"), R("user"),
            R("token")>>, <<Burn>>)

ProcessWithdrawal ==
  Program(<<W("bridge_state"), R("generic_buffer"), R("shim"),
            R("bridge_config"), R("message"), R("sequence"), R("payer"),
            R("fee_collector"), R("clock"), R("system"), R("core_bridge"),
            R("event_authority")>>, <<SendWormholeVaa>>)

ProcessReplayWithdrawal ==
  Program(<<W("bridge_state"), R("generic_buffer"), R("shim"),
            R("bridge_config"), R("message"), R("sequence"), R("payer"),
            R("fee_collector"), R("clock"), R("system"), R("core_bridge"),
            R("event_authority")>>, <<SendWormholeVaa>>)

ProcessOperatorWithdrawFees ==
  Program(<<W("bridge_state"), R("operator_token"), R("mint"), S("operator"),
            R("token")>>, <<MintTo("operator_token")>>)

ProcessManualDeposit ==
  Program(<<W("bridge_state"), R("user_token"), R("mint"), R("token"),
            S("claim_pda")>>, <<MintTo("user_token")>>)

ProcessSnapshotWithdrawals ==
  Program(<<W("bridge_state"), S("operator"), R("payer")>>, <<>>)

(* process_claim of manual-claim *)
ProcessClaim ==
  Program(<<W("claim_pda"), R("bridge_state"), R("user_token"), R("mint"),
            R("token"), R("bridge"), S("user"), R("payer"), R("system")>>,
          <<CreateAccount("claim_pda", FALSE), CallManualDeposit>>)

(* The shim only looks at the emitter and the payer. *)
PostMessage ==
  Program(<<R("bridge_config"), R("message"), S("bridge_state"),
            R("sequence"), S("payer")>>, <<>>)

GenericBuffer ==
  Program(<<W("generic_buffer"), S("payer"), R("system")>>,
          <<PayRent("generic_buffer")>>)

MintBufferSetup == Program(<<W("mint_buffer")>>, <<Adopt("mint_buffer")>>)

MintBufferReinit ==
  Program(<<W("mint_buffer"), S("payer"), R("system")>>,
          <<PayRent("mint_buffer")>>)

MintBufferInsert ==
  Program(<<W("mint_buffer"), S("payer"), R("system")>>, <<>>)

MintBufferLock == Program(<<W("mint_buffer"), S("bridge_state")>>, <<>>)

TxoBufferInit == Program(<<W("txo_buffer")>>, <<Adopt("txo_buffer")>>)

TxoBufferSetLen ==
  Program(<<W("txo_buffer"), S("payer"), R("system")>>,
          <<PayRent("txo_buffer")>>)

TxoBufferWrite == Program(<<W("txo_buffer"), S("operator")>>, <<>>)

(* The token and the system program need what their callers list. *)
Library(accounts) == Program(accounts, <<>>)

(* process_instruction of the programs: n is the number of recipients. *)
Programs(n) ==
  [initialize |-> ProcessInitialize, block_update |-> ProcessBlockUpdate,
   mint_group |-> ProcessMintGroup(n),
   auto_advance |-> ProcessMintGroupAutoAdvance(n),
   request |-> ProcessRequestWithdrawal, withdrawal |-> ProcessWithdrawal,
   replay |-> ProcessReplayWithdrawal, fees |-> ProcessOperatorWithdrawFees,
   manual_deposit |-> ProcessManualDeposit,
   snapshot |-> ProcessSnapshotWithdrawals, claim |-> ProcessClaim,
   post_message |-> PostMessage, generic |-> GenericBuffer,
   mint_setup |-> MintBufferSetup, mint_reinit |-> MintBufferReinit,
   mint_insert |-> MintBufferInsert, lock |-> MintBufferLock,
   unlock |-> MintBufferLock, txo_init |-> TxoBufferInit,
   txo_set_len |-> TxoBufferSetLen, txo_write |-> TxoBufferWrite]

ProgramOf(ix, n, accounts) ==
  IF ix \in DOMAIN Programs(n) THEN Programs(n)[ix] ELSE Library(accounts)
=============================================================================
