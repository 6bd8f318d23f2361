------------------------------ MODULE Holdings ------------------------------
(***************************************************************************)
(* One position: the outcome tokens the user's MetaMask wallet and Smart    *)
(* Account hold, the Position row that portfolio reads rebuild from the     *)
(* booked trades, and what the portfolio offers for it: sell while the      *)
(* market trades, claim once it is won or void.  The session key claims     *)
(* from the Smart Account; from the wallet the user signs, and the page     *)
(* confirms to the server after the receipt.                                *)
(*                                                                          *)
(* The books follow the chain loosely.  A close may fall back to a LIMIT    *)
(* order that rests in the pool's book, and a MARKET one may be filled in   *)
(* part, but confirm_trade books all of it on any receipt that succeeded;   *)
(* fills of an order by other transactions are imported besides.            *)
(***************************************************************************)
EXTENDS Naturals, FiniteSets

CONSTANTS
  Requests,   \* requests, and open pages of the user
  MaxBuy,     \* bound: shares ever bought
  MaxSold     \* bound: shares ever booked as sold

ASSUME HoldingsConstants == MaxBuy \in Nat /\ MaxSold \in Nat /\ MaxBuy <= MaxSold

VARIABLES
  market,     \* the index's view of the market
  held,       \* tokens on chain: the accounts', and those in a resting order
  got, gone,  \* tokens ever bought and sold on chain
  bought, sold,   \* booked by CONFIRMED trades
  unbooked,   \* sold on chain, for the fill import to book
  row,        \* the Position row
  req,        \* what each request does
  split,      \* history: claimed while there were tokens elsewhere too
  blind,      \* history: claimed without having read a balance
  rebought,   \* history: a buy was booked after a sale
  late        \* history: the row was saved from a state older than the claim,
              \* or the index took the settlement back

holdings == <<market, held, got, gone, bought, sold, unbooked, row, req,
              split, blind, rebought, late>>

Accounts == {"agent", "wallet"}
Places == Accounts \cup {"book"}
NoRequest == [pc |-> "idle", account |-> "wallet", qty |-> 0, own |-> 0, net |-> 0,
              closed |-> FALSE, paid |-> FALSE]

HoldingsTypeOK ==
  /\ market \in {"open", "closed", "won", "lost", "void"}
  /\ held \in [Places -> 0..MaxBuy] /\ got \in 0..MaxBuy /\ gone \in 0..MaxBuy
  /\ bought \in 0..MaxBuy /\ sold \in 0..MaxSold /\ unbooked \in Nat
  /\ row \in [status: {"NONE", "OPEN", "SETTLED", "CLOSED"}, amount: 0..MaxSold]
  /\ req \in [Requests ->
       [pc: {"idle", "sync", "claim", "sell", "confirm", "book"}, account: Accounts,
        qty: 0..MaxSold, own: 0..MaxSold, net: 0..MaxBuy, closed: BOOLEAN, paid: BOOLEAN]]
  /\ {split, blind, rebought, late} \subseteq BOOLEAN

HoldingsInit ==
  /\ market = "open" /\ held = [a \in Places |-> 0] /\ got = 0 /\ gone = 0
  /\ bought = 0 /\ sold = 0 /\ unbooked = 0
  /\ row = [status |-> "NONE", amount |-> 0]
  /\ req = [r \in Requests |-> NoRequest]
  /\ split = FALSE /\ blind = FALSE /\ rebought = FALSE /\ late = FALSE

marks == <<split, blind, rebought, late>>
tokens == <<held, got, gone>>
books == <<bought, sold, unbooked>>

Settled == {"won", "lost", "void"}

(* settlement_payout_price # None.                                           *)
Payout == market \in Settled
Held == held["agent"] + held["wallet"] + held["book"]

(* _confirmed_net_qty: buys less sells; less than nothing counts as nothing. *)
Net == IF sold < bought THEN bought - sold ELSE 0

(* position_result.                                                          *)
Result ==
  IF row.status = "CLOSED" /\ Net = 0 /\ sold > 0 THEN "closed"
  ELSE CASE market = "void"   -> "void"
         [] market = "won"    -> IF row.status = "CLOSED" THEN "claimed" ELSE "won"
         [] market = "lost"   -> "lost"
         [] market = "closed" -> "settling"
         [] OTHER             -> IF row.status = "CLOSED" THEN "closed" ELSE "open"

Begin(r, pc, more) ==
  /\ req[r] = NoRequest
  /\ req' = [req EXCEPT ![r] = [NoRequest EXCEPT !.pc = pc, !.account = more.account,
                                            !.qty = more.qty]]
EndRequest(r) == req' = [req EXCEPT ![r] = NoRequest]

-----------------------------------------------------------------------------
(* An order to buy is filled ...                                             *)
Buy(a) ==
  /\ market = "open" /\ got < MaxBuy
  /\ got' = got + 1 /\ held' = [held EXCEPT ![a] = @ + 1]
  /\ UNCHANGED <<market, gone, books, row, req, marks>>

(* ... and booked, before it or after: confirm_trade books an order that     *)
(* rests unfilled, and the import what was filled unnoticed (TradeBooking).  *)
BuyBooked ==
  /\ bought < MaxBuy /\ bought' = bought + 1
  /\ rebought' = (rebought \/ sold > 0)
  /\ UNCHANGED <<market, tokens, sold, unbooked, row, req, split, blind, late>>

(* The index follows the market, and may fall back behind its settlement     *)
(* (MarketIndex!SettledStays).                                               *)
Market(m) ==
  /\ \/ market = "open" /\ m \in {"closed", "void"}
     \/ market = "closed" /\ m \in Settled
     \/ market \in Settled /\ m = "closed"
  /\ market' = m
  /\ late' = (late \/ market \in Settled)
  /\ UNCHANGED <<tokens, books, row, req, split, blind, rebought>>

(* sync_positions: trades, row and market are read ...                       *)
SyncRead(r) ==
  /\ req[r] = NoRequest /\ bought + sold > 0
  /\ req' = [req EXCEPT ![r] =
       [pc |-> "sync", account |-> "wallet", own |-> 0, net |-> Net,
        qty |-> IF bought > 0 THEN bought ELSE sold,
        closed |-> row.status = "CLOSED", paid |-> Payout]]
  /\ UNCHANGED <<market, tokens, books, row, marks>>

(* Mutant: whether the row was closed is not looked at.                      *)
SettledAlways(seen) ==
  CASE seen.net = 0 -> "CLOSED"
    [] seen.net > 0 /\ ~ seen.paid -> "OPEN"
    [] OTHER -> "SETTLED"

(* Nothing left closes the row; otherwise a settled market leaves it closed  *)
(* if it was, and an unsettled one reopens it.                               *)
NewStatus(seen) ==
  CASE seen.net = 0 -> "CLOSED"
    [] seen.net > 0 /\ ~ seen.paid -> "OPEN"
    [] OTHER -> IF seen.closed THEN "CLOSED" ELSE "SETTLED"

(* ... and the row is saved, with the amount of the buys once all is sold.   *)
SyncSave(r) ==
  LET seen == req[r] IN
  /\ seen.pc = "sync"
  /\ row' = [status |-> NewStatus(seen),
             amount |-> IF seen.net = 0 THEN seen.qty ELSE seen.net]
  /\ EndRequest(r)
  /\ UNCHANGED <<market, tokens, books, marks>>

-----------------------------------------------------------------------------
(* annotate_positions: what the page offers to claim and to sell.            *)
Claimable ==
  row.status # "NONE" /\ Result \in {"won", "void"} /\ \E a \in Accounts : held[a] > 0
Closeable == row.status # "NONE" /\ Result = "open"

(* _resolve_claim: the Smart Account first, then the wallet.                 *)
Holder == IF held["agent"] > 0 THEN "agent" ELSE "wallet"

(* prepare_position_redeem offers all the holder has.                        *)
ClaimRead(r) ==
  /\ Claimable
  /\ Begin(r, "claim", [account |-> Holder, qty |-> held[Holder]])
  /\ split' = (split \/ Held > held[Holder])
  /\ UNCHANGED <<market, tokens, books, row, blind, rebought, late>>

(* claim_agent_positions: rows that are not closed, and the Smart Account.   *)
ClaimByAgent(r) ==
  /\ row.status \in {"OPEN", "SETTLED"} /\ Holder = "agent"
  /\ ClaimRead(r)

(* No balance could be read: the amount is taken from the row.               *)
ClaimBlind(r) ==
  /\ Result \in {"won", "void"} /\ row.amount > 0
  /\ \E a \in Accounts : Begin(r, "claim", [account |-> a, qty |-> row.amount])
  /\ blind' = TRUE
  /\ UNCHANGED <<market, tokens, books, row, split, rebought, late>>

(* The redeem is mined, and seen to be; more than is held reverts.           *)
Redeem(r) ==
  /\ req[r].pc = "claim" /\ req[r].qty <= held[req[r].account]
  /\ held' = [held EXCEPT ![req[r].account] = @ - req[r].qty]
  /\ req' = [req EXCEPT ![r].pc = "confirm"]
  /\ UNCHANGED <<market, got, gone, books, row, marks>>

(* Mutant: the claim is recorded when it is sent.                            *)
AtOnce == {"claim", "confirm"}

(* When confirm_position_redeem may be called.                               *)
Redeemed == {"confirm"}

(* confirm_position_redeem closes the row.                                   *)
ConfirmRedeem(r) ==
  /\ req[r].pc \in Redeemed
  /\ row' = [row EXCEPT !.status = "CLOSED"]
  /\ late' = (late \/ \E s \in Requests : req[s].pc = "sync")
  /\ EndRequest(r)
  /\ UNCHANGED <<market, tokens, books, split, blind, rebought>>

-----------------------------------------------------------------------------
(* prepare_position_close offers all that the wallet holds, or what the row  *)
(* says if no balance could be read.                                         *)
PrepareClose(r) ==
  /\ Closeable
  /\ \E qty \in {held["wallet"], row.amount} \ {0} :
       Begin(r, "sell", [account |-> "wallet", qty |-> qty])
  /\ UNCHANGED <<market, tokens, books, row, marks>>

(* The order is mined: some of it is filled by this transaction, and the     *)
(* rest comes back or, of a LIMIT order, rests.                              *)
SellMined(r) ==
  /\ req[r].pc = "sell" /\ req[r].qty <= held["wallet"] /\ market = "open"
  /\ \E n \in 0..req[r].qty : \E rest \in {0, req[r].qty - n} :
       /\ n + rest > 0
       /\ held' = [held EXCEPT !["wallet"] = @ - (n + rest), !["book"] = @ + rest]
       /\ gone' = gone + n
       /\ req' = [req EXCEPT ![r].pc = "book", ![r].own = n]
  /\ UNCHANGED <<market, got, books, row, marks>>

(* Somebody else's transaction fills a resting order ...                     *)
RestFilled ==
  /\ held["book"] > 0 /\ market = "open"
  /\ held' = [held EXCEPT !["book"] = @ - 1] /\ gone' = gone + 1
  /\ unbooked' = unbooked + 1
  /\ UNCHANGED <<market, got, bought, sold, row, req, marks>>

(* ... or it expires.                                                        *)
RestReturned ==
  /\ held["book"] > 0
  /\ held' = [held EXCEPT !["wallet"] = @ + held["book"], !["book"] = 0]
  /\ UNCHANGED <<market, got, gone, books, row, req, marks>>

BookSale(n) == sold + n <= MaxSold /\ sold' = sold + n

(* confirm_position_close: confirm_trade books what was offered, whatever    *)
(* was filled.  The hash keeps the fills of its own transaction from the     *)
(* import, unless that came first.  The portfolio read that confirm_trade    *)
(* tries next is SyncRead.                                                   *)
ConfirmClose(r) ==
  /\ req[r].pc = "book" /\ BookSale(req[r].qty)
  /\ EndRequest(r)
  /\ UNCHANGED <<market, tokens, bought, unbooked, row, marks>>

(* sync_trades_from_fills books what the order's own transaction filled ...  *)
SellImported(r) ==
  /\ req[r].pc = "book" /\ req[r].own > 0 /\ BookSale(req[r].own)
  /\ req' = [req EXCEPT ![r].own = 0]
  /\ UNCHANGED <<market, tokens, bought, unbooked, row, marks>>

(* ... and what others filled, or nobody will confirm.                       *)
RestImported ==
  /\ unbooked > 0 /\ BookSale(unbooked) /\ unbooked' = 0
  /\ UNCHANGED <<market, tokens, bought, row, req, marks>>

(* Refused, reverted, without a receipt, or the page is gone: what happened  *)
(* on chain stays, and the server is not told.                               *)
Abort(r) ==
  /\ req[r] # NoRequest /\ EndRequest(r)
  /\ unbooked' = unbooked + req[r].own
  /\ UNCHANGED <<market, tokens, bought, sold, row, marks>>

RequestStep(r) ==
  \/ SyncRead(r) \/ SyncSave(r)
  \/ ClaimRead(r) \/ ClaimByAgent(r) \/ ClaimBlind(r) \/ Redeem(r) \/ ConfirmRedeem(r)
  \/ PrepareClose(r) \/ SellMined(r) \/ ConfirmClose(r) \/ SellImported(r) \/ Abort(r)

HoldingsNext ==
  \/ (\E a \in Accounts : Buy(a)) \/ BuyBooked
  \/ \E m \in Settled \cup {"closed"} : Market(m)
  \/ RestFilled \/ RestReturned \/ RestImported
  \/ \E r \in Requests : RequestStep(r)

HoldingsSpec == HoldingsInit /\ [][HoldingsNext]_holdings

-----------------------------------------------------------------------------
(* What the books say agrees with the chain in this: no more is booked as    *)
(* sold than was, and no purchase is still to be booked.                     *)
BooksHold == sold <= gone /\ got <= bought

(* A position shown as claimed or closed hides no winnings: a claimed one is *)
(* offered no more, so its tokens would be out of the user's sight.  It does *)
(* when the books do not hold, as after a close that was booked whole though *)
(* it was filled in part, rests, or was imported too; when there were tokens *)
(* in a second place at the claim, for one row stands for all; when the      *)
(* amount was taken from the row; and when a purchase was booked after a     *)
(* sale that closed the row, and the market settled before a read saw it:    *)
(* what is closed stays so then.                                             *)
NoWinningsHidden ==
  /\ Result \in {"claimed", "closed"}
  /\ BooksHold /\ ~ split /\ ~ blind /\ ~ rebought
  => Held = 0

(* A claim stays recorded, unless a portfolio read that saw the row before   *)
(* saves it afterwards, or the index took the settlement back (or it was no  *)
(* claim: the row had been closed by a sale).                                *)
KeepsClaim ==
  Result = "claimed" /\ ~ late /\ ~ rebought => row'.status = "CLOSED"

ClaimStaysRecorded == [][KeepsClaim]_holdings
=============================================================================
