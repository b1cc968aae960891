----------------------------- MODULE UserWallet -----------------------------
(***************************************************************************)
(* The users' client, in Rust and in TypeScript: it opens token accounts,  *)
(* transfers tokens and requests withdrawals.  Every operation reads the   *)
(* chain first and sends one transaction afterwards; other users' and the  *)
(* same user's other transactions land in between.                         *)
(*                                                                         *)
(* The token programs are external: an account is opened once, a transfer  *)
(* needs both accounts and the amount, and an account with nothing in it   *)
(* is closed by its close authority, or by its owner if it has none.       *)
(***************************************************************************)
EXTENDS Naturals

CONSTANTS
  Users,
  JsUsers,      \* those who use the TypeScript client, the others use Rust's
  Funds,        \* what each user's account holds at first
  Opened,       \* the users who have an account at first
  Goal,         \* what each user wants: an operation, a recipient, an amount
  MaxCloses     \* how often accounts are closed

UserWalletConstants ==
  /\ Opened \subseteq Users /\ JsUsers \subseteq Users
  /\ Funds \in [Users -> Nat] /\ \A u \in Users \ Opened : Funds[u] = 0
  /\ Goal \in [Users -> [op : {"create", "transfer", "withdraw", "null"},
                         to : Users, amount : Nat]]
  /\ MaxCloses \in Nat

VARIABLES
  account,   \* of each user: open or not, and its amount
  call,      \* of each user: where the operation is, and what it has read
  done,      \* the users who have what they want
  closes     \* how often accounts were closed

vars == <<account, call, done, closes>>

Idle == [at |-> "idle", create |-> FALSE]

Init ==
  /\ account = [u \in Users |-> [open |-> u \in Opened, amount |-> Funds[u]]]
  /\ call = [u \in Users |-> Idle]
  /\ done = {} /\ closes = 0

At(u, op, at) == u \notin done /\ Goal[u].op = op /\ call[u].at = at

Goto(u, at) == call' = [call EXCEPT ![u].at = at]

Answered(u, ok) ==
  /\ call' = [call EXCEPT ![u] = Idle]
  /\ done' = IF ok THEN done \cup {u} ELSE done

Steady == UNCHANGED <<account, closes>>

-----------------------------------------------------------------------------
(* get_balance, and the check of it that transfer and request_withdrawal   *)
(* make: without an account it is an error too.                            *)
CheckBalance(u, op, next) ==
  /\ At(u, op, "idle")
  /\ IF account[u].open /\ account[u].amount >= Goal[u].amount
     THEN Goto(u, next) /\ UNCHANGED done
     ELSE Answered(u, FALSE)
  /\ Steady

(* Faulty: never looks for the recipient's account. *)
AssumeRecipient(u) ==
  At(u, "transfer", "recipient") /\ Goto(u, "send") /\ UNCHANGED done /\ Steady

(* transfer opens the recipient's account if it has found none. *)
CheckRecipient(u) ==
  /\ At(u, "transfer", "recipient")
  /\ call' = [call EXCEPT ![u] = [at |-> "send",
                                  create |-> ~account[Goal[u].to].open]]
  /\ UNCHANGED done
  /\ Steady

Moved(a, from, to, n) ==
  LET b == [a EXCEPT ![from].amount = @ - n] IN [b EXCEPT ![to].amount = @ + n]

Open(a, u) == [a EXCEPT ![u] = [open |-> TRUE, amount |-> 0]]

Sends(u, a) ==
  /\ a[Goal[u].to].open /\ a[u].open /\ a[u].amount >= Goal[u].amount
  /\ ~(call[u].create /\ account[Goal[u].to].open)

(* transfer's transaction: the new account and the tokens, or neither. *)
Transfer(u) ==
  /\ At(u, "transfer", "send")
  /\ LET g == Goal[u]
         a == IF call[u].create THEN Open(account, g.to) ELSE account
     IN  IF Sends(u, a)
         THEN /\ account' = Moved(a, u, g.to, g.amount)
              /\ Answered(u, TRUE) /\ UNCHANGED closes
         ELSE Answered(u, FALSE) /\ Steady

(* request_withdrawal: the bridge burns the amount. *)
RequestWithdrawal(u) ==
  /\ At(u, "withdraw", "send")
  /\ IF account[u].open /\ account[u].amount >= Goal[u].amount
     THEN /\ account' = [account EXCEPT ![u].amount = @ - Goal[u].amount]
          /\ Answered(u, TRUE) /\ UNCHANGED closes
     ELSE Answered(u, FALSE) /\ Steady

(* create_token_account, before its transaction: an account that exists is *)
(* an error.                                                               *)
CheckAccount(u) ==
  /\ At(u, "create", "idle")
  /\ IF account[Goal[u].to].open THEN Answered(u, FALSE)
     ELSE Goto(u, "send") /\ UNCHANGED done
  /\ Steady

CreateTokenAccount(u) ==
  /\ At(u, "create", "send")
  /\ IF account[Goal[u].to].open THEN Answered(u, FALSE) /\ Steady
     ELSE /\ account' = Open(account, Goal[u].to)
          /\ Answered(u, TRUE) /\ UNCHANGED closes

(* set_close_authority_to_null: the owner is the authority and no other    *)
(* was ever set, so nothing is left behind.                                *)
SetCloseAuthorityToNull(u) ==
  At(u, "null", "idle") /\ account[u].open /\ Answered(u, TRUE) /\ Steady

(* External: the owner closes an empty account. *)
Close(u) ==
  /\ closes < MaxCloses
  /\ account[u].open /\ account[u].amount = 0
  /\ account' = [account EXCEPT ![u].open = FALSE]
  /\ closes' = closes + 1
  /\ UNCHANGED <<call, done>>

Operation(u) ==
  \/ CheckBalance(u, "transfer", "recipient")
  \/ CheckBalance(u, "withdraw", "send")
  \/ CheckRecipient(u) \/ Transfer(u)
  \/ RequestWithdrawal(u)
  \/ CheckAccount(u) \/ CreateTokenAccount(u)
  \/ SetCloseAuthorityToNull(u)

-----------------------------------------------------------------------------
(* The TypeScript client makes the same requests in the same order. *)
JsCheckBalance(u, op, next) == CheckBalance(u, op, next)
JsCheckRecipient(u) == CheckRecipient(u)
JsTransfer(u) == Transfer(u)
JsRequestWithdrawal(u) == RequestWithdrawal(u)
JsCheckAccount(u) == CheckAccount(u)
JsCreateTokenAccount(u) == CreateTokenAccount(u)
JsSetCloseAuthorityToNull(u) == SetCloseAuthorityToNull(u)

JsOperation(u) ==
  \/ JsCheckBalance(u, "transfer", "recipient")
  \/ JsCheckBalance(u, "withdraw", "send")
  \/ JsCheckRecipient(u) \/ JsTransfer(u)
  \/ JsRequestWithdrawal(u)
  \/ JsCheckAccount(u) \/ JsCreateTokenAccount(u)
  \/ JsSetCloseAuthorityToNull(u)

Next ==
  \/ \E u \in Users \ JsUsers : Operation(u)
  \/ \E u \in JsUsers : JsOperation(u)
  \/ \E u \in Users : Close(u)

Spec == Init /\ [][Next]_vars

UserRuns(u) == IF u \in JsUsers THEN JsOperation(u) ELSE Operation(u)

(* A user whose operation failed calls it again. *)
FairSpec == Spec /\ \A u \in Users : WF_vars(UserRuns(u))

-----------------------------------------------------------------------------
(* The users who want to transfer what their account holds. *)
Solvent ==
  {u \in Opened : Goal[u].op = "transfer" /\ Funds[u] >= Goal[u].amount}

(* Whoever has the tokens gets them transferred in the end, by calling     *)
(* again when another opened or closed the recipient's account between the *)
(* look at it and the transaction (transfer, CheckRecipient to Transfer).  *)
TransfersGoThrough ==
  \A u \in Solvent : <>(u \in done)

(* Once its close authority is null, an account stays open                 *)
(* (set_close_authority_to_null).                                          *)
StaysOpen ==
  \A u \in Users : (u \in done /\ Goal[u].op = "null") => account[u].open
=============================================================================
