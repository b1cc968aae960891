------------------------------ MODULE MCClients ------------------------------
(***************************************************************************)
(* The clients.  Each initial state chooses one `scenario':                *)
(*                                                                         *)
(*   "one_key"   every client function but those for manual claims, by an  *)
(*               operator who is also the payer                            *)
(*   "two_keys"  those that work for an operator who is not the payer      *)
(*   "claims"    the functions for manual claims                           *)
(*   "wallet"    eight users of the two user clients                       *)
(*   "mint"      two callers of the Rust client mint the same groups       *)
(*   "mint_js"   one of them uses the TypeScript client; the blocks come   *)
(*               in one reorg update; what they report is kept apart       *)
(***************************************************************************)
EXTENDS MintClient

CONSTANT Scenarios

VARIABLES scenario,
          tx, stack,
          account, walletCall, done, closes,
          reported     \* what is completed in "mint_js"

accountVars == <<tx, stack>>
walletVars  == <<account, walletCall, done, closes>>
mintVars    == <<opVars, reported>>
clientsVars == <<scenario, accountVars, walletVars, mintVars>>
-----------------------------------------------------------------------------
(* The account lists. *)
Accounts == INSTANCE ClientCalls

Claims == {"ApiManualClaim", "JsManualClaim", "UserSubmitClaim", "UserJsSubmitClaim"}

AllButClaims == DOMAIN Accounts!Sends(0) \ Claims

(* Functions that work only for an operator who is also the payer: the     *)
(* uploads of the TypeScript client name the payer as the writer, and the  *)
(* others sign for too many or too few.                                    *)
OneKeyOnly == {"ApiInitialize", "ApiProcessWithdrawal", "BuilderUpdate",
               "BuilderReorg", "JsTxoSetLen", "JsTxoWrite"}

One == INSTANCE InstructionAccounts WITH
  Senders <- AllButClaims, OneKey <- TRUE, GroupSizes <- 0..3

Two == INSTANCE InstructionAccounts WITH
  Senders <- AllButClaims \ OneKeyOnly, OneKey <- FALSE, GroupSizes <- 0..3

Claiming == INSTANCE InstructionAccounts WITH
  Senders <- Claims, OneKey <- TRUE, GroupSizes <- {0}
-----------------------------------------------------------------------------
(* Two users, one with each client, pay the same newcomer, two open        *)
(* another account, two ask for a withdrawal, and the last two set the     *)
(* close authority of theirs to null.                                      *)
Want(op, to, amount) == [op |-> op, to |-> to, amount |-> amount]

Wallet == INSTANCE UserWallet WITH
  Users <- 1..8, JsUsers <- {2, 4, 6, 8}, Opened <- {1, 2, 3, 4, 7, 8},
  Funds <- <<2, 2, 1, 1, 0, 0, 0, 0>>,
  Goal <- <<Want("transfer", 5, 1), Want("transfer", 5, 1),
            Want("withdraw", 3, 1), Want("withdraw", 4, 1),
            Want("create", 6, 0), Want("create", 6, 0),
            Want("null", 7, 0), Want("null", 8, 0)>>,
  MaxCloses <- 1, call <- walletCall
-----------------------------------------------------------------------------
(* The operator's clients.  Blocks with three groups, none, and two. *)
BlockDeposits == <<49, 0, 25>>
GroupRecords  == [blk : 1..3, grp : 0..2, len : 1..24]

Mixed == INSTANCE MintClient WITH
  JsCallers <- {"c1"}, Reorgs <- {3}, completed <- reported
-----------------------------------------------------------------------------
ASSUME ClientConstants ==
  /\ One!InstructionAccountsConstants /\ Two!InstructionAccountsConstants
  /\ Wallet!UserWalletConstants
  /\ Mixed!MintClientConstants

ClientsInit ==
  /\ scenario \in Scenarios
  /\ \/ scenario = "one_key" /\ One!Init
     \/ scenario = "two_keys" /\ Two!Init
     \/ scenario = "claims" /\ Claiming!Init
     \/ /\ scenario \in {"wallet", "mint", "mint_js"}
        /\ tx = [status |-> "none"] /\ stack = <<>>
  /\ Wallet!Init
  /\ OpInit /\ reported = {}

ClientsNext ==
  /\ UNCHANGED scenario
  /\ \/ /\ \/ scenario \in {"one_key", "claims"} /\ One!Next
           \/ scenario = "two_keys" /\ Two!Next
        /\ UNCHANGED <<walletVars, mintVars>>
     \/ /\ scenario = "wallet" /\ Wallet!Next
        /\ UNCHANGED <<accountVars, mintVars>>
     \/ /\ \/ scenario = "mint" /\ OpNext /\ UNCHANGED reported
           \/ scenario = "mint_js" /\ Mixed!OpNext /\ UNCHANGED completed
        /\ UNCHANGED <<accountVars, walletVars>>

(* The clients are scheduled as their modules say. *)
OperatorSubmits ==
  \/ scenario = "mint" /\ Submits /\ UNCHANGED reported
  \/ scenario = "mint_js" /\ Mixed!Submits /\ UNCHANGED completed

CallerRuns(c) ==
  \/ scenario = "mint" /\ ClientStep(c) /\ UNCHANGED reported
  \/ scenario = "mint_js" /\ Mixed!ClientStep(c) /\ UNCHANGED completed

CallerHears(c) ==
  \/ scenario = "mint" /\ Answers(c) /\ UNCHANGED reported
  \/ scenario = "mint_js" /\ Mixed!Answers(c) /\ UNCHANGED completed

ClientsSpec ==
  /\ ClientsInit /\ [][ClientsNext]_clientsVars
  /\ \A u \in 1..8 : WF_walletVars(scenario = "wallet" /\ Wallet!UserRuns(u))
  /\ WF_mintVars(OperatorSubmits)
  /\ \A c \in Callers : WF_mintVars(CallerRuns(c)) /\ WF_mintVars(CallerHears(c))
-----------------------------------------------------------------------------
(* Every transaction a client sends carries the signatures its message     *)
(* needs and no other, lists the accounts in the order its program reads   *)
(* them, and gives the program the rights that its own checks and all the  *)
(* calls below it need; and a signature goes no further than its owner     *)
(* asked.                                                                  *)
NeverRefused == One!NeverRefused /\ One!SignaturesStay

(* Whoever has the tokens gets them transferred in the end, by calling     *)
(* again when another opened or closed the recipient's account between the *)
(* look at it and the transaction.                                         *)
TransfersGoThrough == <>(scenario = "wallet" => {1, 2} \subseteq done)

(* The mints of all blocks are executed in the end: an interrupted call, a *)
(* lost reply, or another client at work on the same groups never leaves a *)
(* block that calling the clients again does not finish.                   *)
AllIsMinted ==
  <>(scenario \in {"mint", "mint_js"} => minted = OwedUpTo(Len(Deposits)))
=============================================================================
