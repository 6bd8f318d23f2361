----------------------------- MODULE OrderEntry -----------------------------
(***************************************************************************)
(* One order from the amount a user or the agent asks for to what the venue *)
(* makes of it: the size snapped to the pool's grid, the immediate-or-cancel *)
(* limit, the collateral approval, the dry run and the fall-back to a       *)
(* resting limit order, then the transaction, sent later, against whatever  *)
(* the market has become.  Dollars, shares and prices are whole raw units;  *)
(* a price p pays p / Scale dollars for a share.                            *)
(***************************************************************************)
EXTENDS Integers, FiniteSetsExt

CONSTANTS
  Scale,               \* raw units of one dollar
  Step, Lot, MinLot,   \* the pool's grid
  MaxAsked,            \* bound: amount asked for
  Close,               \* when the market locks
  Headroom, OrderLife, \* _MIN_TRADE_HEADROOM_SEC, the order's life
  Depths,              \* what one price of the book may offer
  Allowances           \* what the owner has approved before

(* What a wallet that approves any amount approves: no more can be needed.   *)
Unlimited == MaxAsked * Scale * Scale

ASSUME OrderConstants ==
  /\ {Scale, Step, Lot, MinLot, Close, Headroom, OrderLife} \subseteq Nat \ {0}
  /\ Scale % Step = 0 /\ Step < Scale
  /\ MinLot % Lot = 0
  /\ Headroom > 1 /\ MaxAsked \in Nat
  /\ Depths \subseteq Nat /\ Allowances \subseteq 0..Unlimited

VARIABLES
  now,        \* time
  allowance,  \* collateral the pool may pull, or the operator right it has
  order,      \* the order being entered
  elsewhere   \* history: the allowance shrank after this order was priced

vars == <<now, allowance, order, elsewhere>>

Prices == 1..Scale - 1
Books == [Prices -> Depths]

NoOrder == [pc |-> "none", side |-> "BUY", outcome |-> "YES", notional |-> TRUE,
            asked |-> 0, shown |-> 0, type |-> "MARKET", limit |-> 0, qty |-> 0,
            booked |-> 0, expire |-> 0, approve |-> FALSE, onGrid |-> TRUE,
            got |-> 0, paid |-> 0, why |-> "none"]

Reasons == {"grid", "expired", "late", "allowance", "empty", "inventory"}

TypeOK ==
  /\ now \in 0..Close /\ allowance \in 0..Unlimited
  /\ order \in [pc: {"none", "priced", "ready", "resting", "done", "reverted"},
       side: {"BUY", "SELL"}, outcome: {"YES", "NO"}, notional: BOOLEAN,
       asked: 0..MaxAsked, shown: 0..Scale, type: {"MARKET", "LIMIT"},
       limit: 0..Scale, qty: Nat, booked: Nat, expire: Nat,
       approve: BOOLEAN, onGrid: BOOLEAN, got: Nat, paid: Nat, why: Reasons \cup {"none"}]
  /\ elsewhere \in BOOLEAN

Init ==
  /\ now = 0 /\ order = NoOrder /\ elsewhere = FALSE
  /\ allowance \in Allowances \cup {Unlimited}

-----------------------------------------------------------------------------
(* quantize: the nearest whole, the even one of two equally near.            *)
Nearest(n, d) ==
  LET q == n \div d
      r == n % d
  IN IF 2 * r > d \/ (2 * r = d /\ q % 2 = 1) THEN q + 1 ELSE q

(* _notional_to_quantity: dollars at the price shown, in shares.             *)
NotionalToQuantity(dollars, price) == Nearest(dollars * Scale, price)

(* _book_params: the pool's grid; when it cannot be read, the settings',     *)
(* taken here as the finest grid.                                            *)
Grid(read) == IF read THEN [step |-> Step, lot |-> Lot, min |-> MinLot]
              ELSE [step |-> 1, lot |-> 1, min |-> 1]

(* align_quantity_raw: down to the lot; 0 stands for "below the minimum".    *)
Align(qty, grid) ==
  LET q == (qty \div grid.lot) * grid.lot
  IN IF q < (IF grid.min > grid.lot THEN grid.min ELSE grid.lot) THEN 0 ELSE q

(* The orders that cross the book from below, in the price of YES.           *)
PaysYes(side, outcome) == <<side, outcome>> \in {<<"BUY", "YES">>, <<"SELL", "NO">>}

(* _marketable_yes_price_raw.                                                *)
MarketLimit(side, outcome, grid) ==
  IF PaysYes(side, outcome) THEN Scale - grid.step ELSE grid.step

(* prepare_place_order: a LIMIT takes the price of the intent, which is the  *)
(* outcome's own, whatever the side.                                         *)
LimitOf(side, outcome, type, price, grid) ==
  IF type = "MARKET" THEN MarketLimit(side, outcome, grid)
  ELSE (price \div grid.step) * grid.step

(* What a share costs, or brings, at a limit given in the price of YES.      *)
PerShare(outcome, limit) == IF outcome = "YES" THEN limit ELSE Scale - limit

(* The collateral the pool may have to pull.                                 *)
Quote(o) == (o.qty * PerShare(o.outcome, o.limit)) \div Scale
AtLeastOne(n) == IF n > 1 THEN n ELSE 1

(* What the pool needs at most, and whether it is lacking (external).        *)
Lacking(o) == allowance < (IF o.side = "BUY" THEN AtLeastOne(Quote(o)) ELSE 1)

(* prepare_outcome_operator_approval: a sale needs the pool as operator.     *)
NoOperator == allowance < 1

(* Mutant: the approval is asked for at the price shown.                     *)
ShortAtShown(o) ==
  IF o.side = "BUY" THEN allowance < AtLeastOne((o.qty * o.shown) \div Scale)
                    ELSE NoOperator

(* prepare_collateral_approval.                                              *)
Short(o) == IF o.side = "BUY" THEN allowance < AtLeastOne(Quote(o)) ELSE NoOperator

(* A buy ends before the market locks; a sell at least a second from now.    *)
ExpireAt(side) ==
  Min({now + OrderLife,
       IF side = "BUY" THEN Close - 1 ELSE Max({Close - 1, now + 1})})

(* prepare_place_order, and the approval: also if the allowance cannot be    *)
(* read.                                                                     *)
Priced(side, outcome, notional, asked, shown, read) ==
  LET grid == Grid(read)
      qty == Align(IF notional THEN NotionalToQuantity(asked, shown) ELSE asked, grid)
      o == [NoOrder EXCEPT
              !.pc = "priced", !.side = side, !.outcome = outcome, !.notional = notional,
              !.asked = asked, !.shown = shown, !.qty = qty, !.booked = qty,
              !.limit = LimitOf(side, outcome, "MARKET", shown, grid),
              !.expire = ExpireAt(side), !.onGrid = read]
  IN /\ order.pc \in {"none", "done", "reverted"}
     /\ qty > 0
     /\ \E approve \in {Short(o), TRUE} : order' = [o EXCEPT !.approve = approve]
     /\ elsewhere' = FALSE
     /\ UNCHANGED <<now, allowance>>

(* _resolve_event_and_outcome.                                               *)
Tradable == now < Close

(* prepare_trade, for dollars or for shares ...                              *)
Prepare(outcome, notional, asked, shown, read) ==
  /\ Tradable /\ Close - now >= Headroom
  /\ Priced("BUY", outcome, notional, asked, shown, read)

(* ... and prepare_sell_trade, up to the dry run.                            *)
PrepareSell(outcome, asked, shown, read) ==
  /\ Tradable
  /\ Priced("SELL", outcome, FALSE, asked, shown, read)

-----------------------------------------------------------------------------
(* The venue: what an order takes from a book, price by price ...            *)
Taken(o, p) ==
  IF o.side = "BUY" THEN p <= PerShare(o.outcome, o.limit)
                    ELSE p >= PerShare(o.outcome, o.limit)
Better(o, p, q) == IF o.side = "BUY" THEN q < p ELSE q > p
Before(o, book, p) ==
  MapThenSumSet(LAMBDA q : book[q], { q \in Prices : Taken(o, q) /\ Better(o, p, q) })
From(o, book, p) ==
  IF ~ Taken(o, p) THEN 0
  ELSE Min({book[p], Max({o.qty - Before(o, book, p), 0})})
Filled(o, book) == MapThenSumSet(LAMBDA p : From(o, book, p), Prices)
Paid(o, book) == MapThenSumSet(LAMBDA p : p * From(o, book, p), Prices) \div Scale

(* ... and why it refuses one.                                               *)
Refusals(o, empty) ==
  { r \in Reasons :
      CASE r = "grid" -> o.limit % Step # 0 \/ o.qty % Lot # 0 \/ o.qty < MinLot
        [] r = "expired" -> o.expire <= now
        [] r = "late" -> o.expire > Close
        [] r = "allowance" -> Lacking(o)
        [] r = "empty" -> o.type = "MARKET" /\ empty
        [] r = "inventory" -> FALSE }

(* The dry run: what estimate_gas answers, on whatever book there is, with   *)
(* a balance too small thrown in, or "silent" when the node does not answer. *)
Answers(o) ==
  {"silent", "inventory"} \cup Refusals(o, TRUE)
    \cup (IF Refusals(o, FALSE) = {} THEN {"fine"} ELSE {})

(* _fallback_to_limit_or_raise: the order again, as a LIMIT at the price     *)
(* shown; its size is snapped anew.                                          *)
AsLimit(o, read) ==
  LET grid == Grid(read)
      raw == IF o.notional THEN NotionalToQuantity(o.asked, o.shown) ELSE o.asked
  IN [o EXCEPT !.type = "LIMIT", !.qty = Align(raw, grid),
        !.limit = LimitOf(o.side, o.outcome, "LIMIT", o.shown, grid),
        !.onGrid = @ /\ read]

Fits(o) == o.qty > 0 /\ o.limit > 0

(* A refusal that an approval still to be mined explains is let pass: of a   *)
(* buy, one for the allowance; of a sale, any that no other cause explains.  *)
ExcusedBuy(answer) == answer = "allowance"
ExcusedSell(answer) == answer \notin {"inventory", "empty"}
Excused(o, answer) ==
  \/ answer \in {"fine", "silent"}
  \/ o.approve /\ IF o.side = "BUY" THEN ExcusedBuy(answer) ELSE ExcusedSell(answer)

(* The second dry run is made only when no approval is awaited.              *)
Retried(o, answer) ==
  \/ answer \in {"fine", "silent"}
  \/ o.approve

(* The rest of prepare_trade and prepare_sell_trade: the trade is saved with *)
(* the transaction to sign, or nothing is.                                   *)
DryRun(answer) ==
  /\ order.pc = "priced"
  /\ answer \in Answers(order)
  /\ \/ /\ Excused(order, answer)
        /\ order' = [order EXCEPT !.pc = "ready"]
     \/ /\ ~ Excused(order, answer) /\ answer # "empty"
        /\ order' = NoOrder
     \/ /\ answer = "empty"
        /\ \E read \in BOOLEAN : LET limit == AsLimit(order, read) IN
             IF Fits(limit)
             THEN \E second \in Answers(limit) :
                    order' = IF Retried(limit, second)
                             THEN [limit EXCEPT !.pc = "ready"] ELSE NoOrder
             ELSE order' = NoOrder
  /\ UNCHANGED <<now, allowance, elsewhere>>

(* The approval, for any amount, goes first.                                 *)
Approve ==
  /\ order.pc = "ready" /\ order.approve
  /\ allowance' = Unlimited
  /\ order' = [order EXCEPT !.approve = FALSE]
  /\ UNCHANGED <<now, elsewhere>>

(* The transaction is mined: refused, or filled from the book, what is left  *)
(* cancelled if it is a MARKET order and resting if it is a LIMIT one.       *)
Submit(book) ==
  LET got == Filled(order, book)
      paid == Paid(order, book)
  IN /\ order.pc = "ready" /\ ~ order.approve
     /\ IF Refusals(order, got = 0) = {}
        THEN /\ order' = [order EXCEPT
                   !.pc = IF @ = "ready" /\ order.type = "LIMIT" /\ got < order.qty
                          THEN "resting" ELSE "done",
                   !.got = got, !.paid = paid]
             /\ allowance' = IF order.side = "BUY" /\ allowance # Unlimited
                             THEN Max({allowance - paid, 0}) ELSE allowance
        ELSE /\ \E r \in Refusals(order, got = 0) :
                  order' = [order EXCEPT !.pc = "reverted", !.why = r]
             /\ UNCHANGED allowance
     /\ UNCHANGED <<now, elsewhere>>

(* Somebody takes the resting order, at its price.                           *)
Rest(n) ==
  /\ order.pc = "resting" /\ now < order.expire
  /\ n \in 1..(order.qty - order.got)
  /\ order' = [order EXCEPT !.got = @ + n,
                 !.paid = @ + (n * PerShare(order.outcome, order.limit)) \div Scale,
                 !.pc = IF order.got + n = order.qty THEN "done" ELSE "resting"]
  /\ UNCHANGED <<now, allowance, elsewhere>>

(* The wallet gives up, or the resting order runs out.                       *)
Drop ==
  /\ order.pc = "ready" \/ (order.pc = "resting" /\ order.expire <= now)
  /\ order' = NoOrder
  /\ UNCHANGED <<now, allowance, elsewhere>>

(* Another order of the account uses the approval up, or the owner lowers it. *)
Elsewhere(a) ==
  /\ a \in Allowances /\ a < allowance
  /\ allowance' = a /\ elsewhere' = TRUE
  /\ UNCHANGED <<now, order>>

Tick == now < Close /\ now' = now + 1 /\ UNCHANGED <<allowance, order, elsewhere>>

Next ==
  \/ \E outcome \in {"YES", "NO"}, read \in BOOLEAN, asked \in 1..MaxAsked, shown \in Prices :
       \/ \E notional \in BOOLEAN : Prepare(outcome, notional, asked, shown, read)
       \/ PrepareSell(outcome, asked, shown, read)
  \/ \E answer \in Reasons \cup {"fine", "silent"} : DryRun(answer)
  \/ \E book \in Books : Submit(book)
  \/ \E n \in 1..order.qty : Rest(n)
  \/ \E a \in Allowances : Elsewhere(a)
  \/ Approve \/ Drop \/ Tick

Spec == Init /\ [][Next]_vars

-----------------------------------------------------------------------------
(* A transaction the user was given to sign is refused for its allowance     *)
(* only if the approval was used up after it was priced, or the grid could   *)
(* not be read; for the grid only in the latter case; and never for          *)
(* outliving the market: the approval asked for covers the dearest fill of   *)
(* the order and of the limit order that replaces it.                        *)
RefusedForCause ==
  order.pc = "reverted" =>
    /\ order.why = "allowance" => elsewhere \/ ~ order.onGrid
    /\ order.why = "grid" => ~ order.onGrid
    /\ order.why # "late"

(* README.md: the agent cannot "Exceed your trading limits"; the limit is    *)
(* compared with the dollars asked for, not with what the order can cost.    *)
SpendWithinAmount ==
  order.side = "BUY" /\ order.notional /\ order.onGrid /\ order.type = "MARKET"
    => order.paid <= order.asked
=============================================================================
