------------------------ MODULE InstructionAccounts ------------------------
(***************************************************************************)
(* What happens to the accounts a client lists: the runtime asks for one   *)
(* signature per signer, the program reads the accounts by position and    *)
(* checks some of them, and hands some on to the programs it calls.  A     *)
(* call may neither sign for, nor write to, an account its caller could    *)
(* not (unless the caller derives its address), nor list one whose data    *)
(* the caller has borrowed to write.                                       *)
(*                                                                         *)
(* What the accounts hold is left to the other modules: here every check   *)
(* that is not about the list itself passes.                               *)
(***************************************************************************)
EXTENDS ClientCalls, ProgramCalls, Functions

CONSTANTS
  Senders,      \* the client functions of this run
  OneKey,       \* the operator's key is also the payer's
  GroupSizes    \* the numbers of mints of a group

InstructionAccountsConstants ==
  OneKey \in BOOLEAN /\ GroupSizes \subseteq Nat

VARIABLES
  tx,      \* the transaction: its sender, the size of its group, its status
  stack    \* the calls in progress: instruction, accounts, next call to make

vars == <<tx, stack>>

Message == Sends(tx.group)[tx.sender]

Key(role) == IF OneKey /\ role = "operator" THEN "payer" ELSE role
Keys(roles) == {Key(r) : r \in roles}

Init ==
  /\ tx \in [sender : Senders, group : GroupSizes, status : {"built"}]
  /\ stack = <<>>

-----------------------------------------------------------------------------
(* Transaction::new_signed_with_payer: there must be a key for every       *)
(* signer of the message, and no key for anyone else.                      *)
WellSigned ==
  Keys({a.role : a \in {x \in Range(Message.accounts) : x.signer}}
         \cup {Message.payer})
    = Keys(Message.signers \cup {Message.payer})

Frame(ix, accounts) == [ix |-> ix, accounts |-> accounts, next |-> 1]

Entered(ix, accounts) ==
  LET p == ProgramOf(ix, tx.group, accounts) IN
  /\ Len(p.accounts) <= Len(accounts)
  /\ \A i \in 1..Len(p.accounts) :
       /\ Key(accounts[i].role) = Key(p.accounts[i].role)
       /\ p.accounts[i].signer => accounts[i].signer
       /\ p.accounts[i].writable => accounts[i].writable

Fail == tx' = [tx EXCEPT !.status = "failed"] /\ stack' = <<>>

Submit ==
  /\ tx.status = "built"
  /\ IF WellSigned /\ Entered(Message.ix, Message.accounts)
     THEN /\ tx' = [tx EXCEPT !.status = "running"]
          /\ stack' = <<Frame(Message.ix, Message.accounts)>>
     ELSE Fail

-----------------------------------------------------------------------------
Top == stack[Len(stack)]
Below == SubSeq(stack, 1, Len(stack) - 1)
Calls == ProgramOf(Top.ix, tx.group, Top.accounts).calls

Moved == [Top EXCEPT !.next = @ + 1]

(* What a caller may pass on: the same account, with no more rights. *)
Granted(a, seeds) ==
  \E b \in {x \in Range(Top.accounts) : Key(x.role) = Key(a.role)} :
    /\ a.writable => b.writable
    /\ a.signer => b.signer \/ a.role \in seeds

(* invoke and invoke_signed *)
Invoke ==
  /\ tx.status = "running" /\ stack # <<>> /\ Top.next <= Len(Calls)
  /\ LET c == Calls[Top.next] IN
     IF /\ \A a \in Range(c.accounts) : Granted(a, c.seeds)
        /\ \A a \in Range(c.accounts) : a.role \notin c.borrowed
        /\ Entered(c.ix, c.accounts)
     THEN /\ stack' = Below \o <<Moved, Frame(c.ix, c.accounts)>>
          /\ UNCHANGED tx
     ELSE Fail

(* A call that is not made every time *)
Skip ==
  /\ tx.status = "running" /\ stack # <<>> /\ Top.next <= Len(Calls)
  /\ ~Calls[Top.next].always
  /\ stack' = Append(Below, Moved)
  /\ UNCHANGED tx

Return ==
  /\ tx.status = "running" /\ stack # <<>> /\ Top.next > Len(Calls)
  /\ stack' = Below
  /\ tx' = [tx EXCEPT !.status = IF Below = <<>> THEN "done" ELSE @]

Next == Submit \/ Invoke \/ Skip \/ Return

Spec == Init /\ [][Next]_vars

-----------------------------------------------------------------------------
(* The monitor and the history reader name as the user of a request, and   *)
(* as the claimer of a deposit, the first account of the bridge's          *)
(* instruction.                                                            *)
ReportedUser(accounts) == accounts[1].role

(* Every transaction a client sends carries the signatures its message     *)
(* needs and no other, lists the accounts in the order its program reads   *)
(* them, and gives the program the rights that its own checks and all the  *)
(* calls below it need (new_signed_with_payer, next_account_info,          *)
(* invoke_signed).                                                         *)
NeverRefused == tx.status # "failed"

(* A signature goes no further than its owner asked: no call but the burn  *)
(* of the user's own tokens carries the user's signature, and none         *)
(* carries the operator's unless the operator is the payer of the          *)
(* account the call creates (cpi_impl.rs, send_wormhole_vaa).              *)
SignaturesStay ==
  \A i \in 2..Len(stack) : \A a \in Range(stack[i].accounts) :
    a.signer => \/ a.role \in {"bridge_state", "claim_pda", "mint_buffer",
                               "txo_buffer"}
                \/ a.role = "user" /\ stack[i].ix = "burn"
                \/ a.role = "payer" /\ stack[i].ix # "mint_to"

(* The user a monitor reports for a withdrawal request is the one whose    *)
(* signature let the bridge burn the tokens (parse_withdrawal_request).    *)
ReportsTheSigner ==
  \A i \in 1..Len(stack) :
    stack[i].ix = "request" => ReportedUser(stack[i].accounts) = "user"
=============================================================================
