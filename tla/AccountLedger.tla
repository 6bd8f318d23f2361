---------------------------- MODULE AccountLedger ----------------------------
(***************************************************************************)
(* The dollars of a Smart Account: what the chain holds, and the figures    *)
(* the server keeps in metadata_json for when it cannot ask the chain.  The *)
(* owner deposits and withdraws by transactions of his own and confirms     *)
(* each to the server, which looks up the receipt and rewrites the record   *)
(* it read before the look-up; saving the account's address again rewrites  *)
(* the whole row.  No row lock is held.                                     *)
(***************************************************************************)
EXTENDS Integers, FiniteSetsExt

CONSTANTS
  Txs,            \* the owner's transactions
  Confirmations,  \* requests in flight, mostly to confirm a transaction
  MaxAmount       \* bound: amount of one transaction

ASSUME LedgerConstants ==
  /\ IsFiniteSet(Txs) /\ "none" \notin Txs /\ "account" \notin Txs
  /\ MaxAmount \in Nat

VARIABLES
  funds,       \* dollars the Smart Account holds
  transfers,   \* the owner's transactions
  record,      \* last_deposit and balance of metadata_json
  account,     \* status of the account row
  confirming,  \* what each request is for ("account": the row), and has read
  paid,        \* history: what the agent's trades paid
  overlapped   \* history: two of these requests were in flight together

ledger == <<funds, transfers, record, account, confirming, paid, overlapped>>

Amounts == 1..MaxAmount
Missing == [known |-> FALSE, amount |-> 0]
Known(n) == [known |-> TRUE, amount |-> n]
Figure == [known: BOOLEAN, amount: Nat]
Metadata == [deposit: Figure, balance: Figure]
AccountStatuses == {"DEPLOYED", "FUNDED"}
NoConfirmation == [tx |-> "none", seen |-> [deposit |-> Missing, balance |-> Missing],
                   was |-> "DEPLOYED"]

LedgerTypeOK ==
  /\ funds \in Nat /\ paid \in Nat
  /\ transfers \in [Txs ->
       [kind: {"none", "deposit", "withdraw"}, amount: Nat,
        state: {"new", "signed", "mined", "reverted", "confirmed"}]]
  /\ record \in Metadata
  /\ account \in AccountStatuses
  /\ confirming \in [Confirmations ->
       [tx: Txs \cup {"none", "account"}, seen: Metadata, was: AccountStatuses]]
  /\ overlapped \in BOOLEAN

LedgerInit ==
  /\ funds = 0 /\ paid = 0
  /\ transfers = [t \in Txs |-> [kind |-> "none", amount |-> 0, state |-> "new"]]
  /\ record = NoConfirmation.seen
  /\ account = "DEPLOYED"
  /\ confirming = [r \in Confirmations |-> NoConfirmation]
  /\ overlapped = FALSE

-----------------------------------------------------------------------------
(* The owner's transfer to the account.                                      *)
Deposit(t, n) ==
  /\ transfers[t].kind = "none"
  /\ transfers' = [transfers EXCEPT
                    ![t] = [kind |-> "deposit", amount |-> n, state |-> "mined"]]
  /\ funds' = funds + n
  /\ UNCHANGED <<record, account, confirming, paid, overlapped>>

(* resolve_collateral when no live balance can be read: the balance on       *)
(* record, else the last deposit.                                            *)
Figures(meta) ==
  CASE meta.balance.known -> meta.balance.amount
    [] ~ meta.balance.known /\ meta.deposit.known -> meta.deposit.amount
    [] OTHER -> 0
Recorded == Figures(record)

(* prepare_owner_withdraw: get_balance reads the chain, and raises when it   *)
(* cannot; no more than what is there is signed for.                         *)
PrepareWithdraw(t, n) ==
  /\ transfers[t].kind = "none"
  /\ n <= funds
  /\ transfers' = [transfers EXCEPT
                    ![t] = [kind |-> "withdraw", amount |-> n, state |-> "signed"]]
  /\ UNCHANGED <<funds, record, account, confirming, paid, overlapped>>

(* The owner sends the signed withdrawal: it fails if the dollars have gone  *)
(* meanwhile or the permission has expired.                                  *)
Withdraw(t) ==
  /\ transfers[t].kind = "withdraw" /\ transfers[t].state = "signed"
  /\ \/ /\ transfers[t].amount <= funds
        /\ funds' = funds - transfers[t].amount
        /\ transfers' = [transfers EXCEPT ![t].state = "mined"]
     \/ transfers' = [transfers EXCEPT ![t].state = "reverted"] /\ UNCHANGED funds
  /\ UNCHANGED <<record, account, confirming, paid, overlapped>>

(* A trade of the agent takes dollars without a word to this record.         *)
Spend ==
  /\ funds > 0
  /\ funds' = funds - 1 /\ paid' = paid + 1
  /\ UNCHANGED <<transfers, record, account, confirming, overlapped>>

(* A request loads the account.                                              *)
Load(r, what) ==
  /\ confirming[r].tx = "none"
  /\ confirming' = [confirming EXCEPT
                     ![r] = [tx |-> what, seen |-> record, was |-> account]]
  /\ overlapped' = (overlapped \/ \E o \in Confirmations \ {r} :
                                    confirming[o].tx # "none")
  /\ UNCHANGED <<funds, transfers, record, account, paid>>

(* SmartAccountDepositView and confirm_owner_withdraw: the account is read,  *)
(* then the receipt is asked for.  A transaction is confirmed as often as it *)
(* is presented, a reverted one is refused.                                  *)
Confirm(r, t) == transfers[t].state \in {"mined", "confirmed"} /\ Load(r, t)

(* create_account finds the row (the page sends the address it already has)  *)
(* and saves all of it, the figures and the status as they were loaded.      *)
CreateAgain(r) == Load(r, "account")

SaveAccount(r) ==
  /\ confirming[r].tx = "account"
  /\ record' = confirming[r].seen /\ account' = confirming[r].was
  /\ confirming' = [confirming EXCEPT ![r] = NoConfirmation]
  /\ UNCHANGED <<funds, transfers, paid, overlapped>>

(* Mutant: more may be taken than is on record.                              *)
Overdrawn(a, b) == a - b

Less(a, b) == IF a > b THEN a - b ELSE 0

(* Mutant: only a balance known already is lowered.                          *)
LowerKnown(seen, n) ==
  IF seen.balance.known
  THEN [seen EXCEPT !.balance = Known(Less(seen.balance.amount, n))] ELSE seen

(* The balance starts from the last deposit and is lowered by each           *)
(* withdrawal.                                                               *)
AfterWithdraw(seen, n) == [seen EXCEPT !.balance = Known(Less(Figures(seen), n))]

Finish(r, kind) ==
  /\ confirming[r].tx \in Txs /\ transfers[confirming[r].tx].kind = kind
  /\ transfers' = [transfers EXCEPT ![confirming[r].tx].state = "confirmed"]
  /\ confirming' = [confirming EXCEPT ![r] = NoConfirmation]
  /\ UNCHANGED <<funds, paid, overlapped>>

(* The last deposit replaces the one before, and mark_funded follows.        *)
SaveDeposit(r) ==
  /\ Finish(r, "deposit")
  /\ record' = [confirming[r].seen EXCEPT
                  !.deposit = Known(transfers[confirming[r].tx].amount)]
  /\ account' = "FUNDED"

SaveWithdraw(r) ==
  /\ Finish(r, "withdraw")
  /\ record' = AfterWithdraw(confirming[r].seen, transfers[confirming[r].tx].amount)
  /\ UNCHANGED account

LedgerNext ==
  \/ \E t \in Txs, n \in Amounts : Deposit(t, n) \/ PrepareWithdraw(t, n)
  \/ \E t \in Txs : Withdraw(t)
  \/ Spend
  \/ \E r \in Confirmations, t \in Txs : Confirm(r, t)
  \/ \E r \in Confirmations :
       CreateAgain(r) \/ SaveAccount(r) \/ SaveDeposit(r) \/ SaveWithdraw(r)

LedgerSpec == LedgerInit /\ [][LedgerNext]_ledger

-----------------------------------------------------------------------------
(* Withdrawals the chain has made and the record does not show yet.          *)
Unconfirmed(T) ==
  {t \in T : transfers[t].kind = "withdraw" /\ transfers[t].state = "mined"}
Total(T) == MapThenSumSet(LAMBDA t : transfers[t].amount, T)

(* What the server takes the account to hold while it cannot ask the chain   *)
(* is never more than what is there, once the withdrawals still to be        *)
(* confirmed and the agent's trades are added: a deposit is not counted      *)
(* twice, and a withdrawal confirmed twice only lowers the figure.  Of two   *)
(* requests in flight together the later may undo the other's (metadata_json *)
(* is rewritten whole from what each read).                                  *)
RecordCovered ==
  ~ overlapped => Recorded <= funds + Total(Unconfirmed(Txs)) + paid
=============================================================================
