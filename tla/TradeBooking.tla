---------------------------- MODULE TradeBooking ----------------------------
(***************************************************************************)
(* How one user's orders become Trade rows: prepare_trade offers an order   *)
(* for signing, a wallet or the session key sends it, confirm_trade waits   *)
(* for the receipt under the lock of the row, and sync_trades_from_fills    *)
(* imports from the DreamDEX indexer every fill that no row accounts for.   *)
(*                                                                          *)
(* confirm_trade and prepare_trade are transactions: PREPARED, and what is  *)
(* saved before the receipt, are never seen by others.  The fill import     *)
(* runs without one: its queries and each imported row stand alone.         *)
(* The chain and the indexer are external.                                  *)
(***************************************************************************)
EXTENDS Naturals

CONSTANTS
  Orders,      \* orders the user places, each with its own transaction
  Confirmers,  \* threads in confirm_trade: web view, agent, copy worker
  Syncers,     \* threads in sync_trades_from_fills: pages, bot commands
  NoOrder

ASSUME BookingConstants == NoOrder \notin Orders

VARIABLES
  open,       \* the market still accepts trades
  trade,      \* committed status of the order's Trade row, "ABSENT" before
  chain,      \* its transaction and, once it is mined, its order
  indexed,    \* orders whose fill the indexer serves
  imported,   \* how many Trade rows were imported from the order's fill
  cached,     \* the portfolio:fills cache key is set
  confirm,    \* the confirm_trade calls in flight
  sync,       \* the sync_trades_from_fills calls in flight
  sawRevert,  \* history: orders whose receipt said "reverted" to a caller
  early,      \* history: orders set to be imported before they were confirmed
  overlapped  \* history: two imports have read the rows side by side

vars == <<open, trade, chain, indexed, imported, cached, confirm, sync,
          sawRevert, early, overlapped>>

history == <<sawRevert, early, overlapped>>

TradeStatus == {"PREPARED", "AWAITING_CONFIRMATION", "SUBMITTED", "CONFIRMED",
                "FAILED", "EXPIRED"}

(* TAKEN: mined and matched by its own transaction.  RESTING: mined, in the  *)
(* book.  MADE: matched later, by the transaction of the other side.         *)
ChainState == {"UNSENT", "PENDING", "TAKEN", "RESTING", "MADE", "REVERTED"}
Succeeded == {"TAKEN", "RESTING", "MADE"}

Confirm == [pc: {"idle"}, order: {NoOrder}] \cup [pc: {"waiting"}, order: Orders]
IdleConfirm == [pc |-> "idle", order |-> NoOrder]

(* todo: the fills fetched and, after the queries, those still to import.    *)
Sync == [pc: {"idle", "fetched", "import"}, ok: BOOLEAN, todo: SUBSET Orders]
IdleSync == [pc |-> "idle", ok |-> FALSE, todo |-> {}]

TypeOK ==
  /\ open \in BOOLEAN
  /\ trade \in [Orders -> TradeStatus \cup {"ABSENT"}]
  /\ chain \in [Orders -> ChainState]
  /\ indexed \subseteq Orders
  /\ imported \in [Orders -> Nat]
  /\ cached \in BOOLEAN
  /\ confirm \in [Confirmers -> Confirm]
  /\ sync \in [Syncers -> Sync]
  /\ sawRevert \subseteq Orders /\ early \subseteq Orders
  /\ overlapped \in BOOLEAN

Init ==
  /\ open = TRUE
  /\ trade = [o \in Orders |-> "ABSENT"]
  /\ chain = [o \in Orders |-> "UNSENT"]
  /\ indexed = {}
  /\ imported = [o \in Orders |-> 0]
  /\ cached = FALSE
  /\ confirm = [c \in Confirmers |-> IdleConfirm]
  /\ sync = [s \in Syncers |-> IdleSync]
  /\ sawRevert = {} /\ early = {}
  /\ overlapped = FALSE

Locked == {confirm[c].order : c \in Confirmers} \ {NoOrder}

(* CONFIRMED rows that account for the order: its own and the imported ones. *)
Rows(o) == imported[o] + (IF trade[o] = "CONFIRMED" THEN 1 ELSE 0)

-----------------------------------------------------------------------------
(* Preparing, and the world outside.                                         *)

(* Committed as AWAITING_CONFIRMATION; a failed quote, balance or simulation *)
(* leaves no row.                                                            *)
Prepare(o) ==
  /\ open /\ trade[o] = "ABSENT"
  /\ trade' = [trade EXCEPT ![o] = "AWAITING_CONFIRMATION"]
  /\ UNCHANGED <<open, chain, indexed, imported, cached, confirm, sync, history>>

Close ==
  /\ open
  /\ open' = FALSE
  /\ UNCHANGED <<trade, chain, indexed, imported, cached, confirm, sync, history>>

Chain(o, from, to) ==
  /\ chain[o] \in from
  /\ chain' = [chain EXCEPT ![o] = to]
  /\ UNCHANGED <<open, trade, indexed, imported, cached, confirm, sync, history>>

Send(o) == trade[o] # "ABSENT" /\ Chain(o, {"UNSENT"}, "PENDING")
Mine(o) == \E to \in {"TAKEN", "RESTING", "REVERTED"} : Chain(o, {"PENDING"}, to)
Match(o) == Chain(o, {"RESTING"}, "MADE")

Index(o) ==
  /\ chain[o] \in {"TAKEN", "MADE"} /\ o \notin indexed
  /\ indexed' = indexed \cup {o}
  /\ UNCHANGED <<open, trade, chain, imported, cached, confirm, sync, history>>

-----------------------------------------------------------------------------
(* confirm_trade.                                                            *)

(* Mutant: an expired row may be confirmed.                                  *)
NotFinal == {"PREPARED", "AWAITING_CONFIRMATION", "SUBMITTED", "EXPIRED"}

Confirmable == {"PREPARED", "AWAITING_CONFIRMATION", "SUBMITTED"}

(* The row is locked, its status and its market checked, SUBMITTED saved in  *)
(* the transaction; then the thread waits for the receipt.                   *)
ConfirmStart(c, o) ==
  /\ confirm[c].pc = "idle"
  /\ chain[o] # "UNSENT"                        \* the caller has a hash
  /\ o \notin Locked
  /\ trade[o] \in Confirmable
  /\ open
  /\ confirm' = [confirm EXCEPT ![c] = [pc |-> "waiting", order |-> o]]
  /\ UNCHANGED <<open, trade, chain, indexed, imported, cached, sync, history>>

(* Mutant: the lock is kept.                                                 *)
ConfirmKeepsLock(c) == confirm' = [confirm EXCEPT ![c].pc = "idle"]

ConfirmDone(c) == confirm' = [confirm EXCEPT ![c] = IdleConfirm]

ConfirmSuccess(c) ==
  LET o == confirm[c].order IN
  /\ confirm[c].pc = "waiting"
  /\ chain[o] \in Succeeded
  /\ trade' = [trade EXCEPT ![o] = "CONFIRMED"]
  /\ ConfirmDone(c)
  /\ UNCHANGED <<open, chain, indexed, imported, cached, sync, history>>

(* FAILED is saved and then TradingError is raised inside the atomic block,  *)
(* which rolls the save back.                                                *)
ConfirmReverted(c) ==
  LET o == confirm[c].order IN
  /\ confirm[c].pc = "waiting"
  /\ chain[o] = "REVERTED"
  /\ sawRevert' = sawRevert \cup {o}
  /\ ConfirmDone(c)
  /\ UNCHANGED <<open, trade, chain, indexed, imported, cached, sync, early,
                 overlapped>>

(* No receipt within 90 seconds, or the thread dies: rolled back.            *)
ConfirmGivesUp(c) ==
  /\ confirm[c].pc = "waiting"
  /\ ConfirmDone(c)
  /\ UNCHANGED <<open, trade, chain, indexed, imported, cached, sync, history>>

(* expire_stale_trades, for the rows older than the cutoff.  It waits for    *)
(* locked rows and checks their status again, so its transaction commits     *)
(* while none of its rows is locked.                                         *)
ExpireStale(old) ==
  /\ old # {} /\ old \cap Locked = {}
  /\ \A o \in old : trade[o] = "AWAITING_CONFIRMATION"
  /\ trade' = [o \in Orders |-> IF o \in old THEN "EXPIRED" ELSE trade[o]]
  /\ UNCHANGED <<open, chain, indexed, imported, cached, confirm, sync, history>>

-----------------------------------------------------------------------------
(* sync_trades_from_fills.                                                   *)

Wanted == ~ (cached /\ \E o \in Orders : Rows(o) > 0)

SyncDone(s) == sync' = [sync EXCEPT ![s] = IdleSync]

(* Every account's fills were fetched, as many as get_user_fills asks for.   *)
SyncFetch(s) ==
  /\ sync[s].pc = "idle" /\ Wanted
  /\ IF indexed = {}
       THEN cached' = TRUE /\ UNCHANGED sync
       ELSE /\ sync' = [sync EXCEPT ![s] = [pc |-> "fetched", ok |-> TRUE,
                                            todo |-> indexed]]
            /\ UNCHANGED cached
  /\ UNCHANGED <<open, trade, chain, indexed, imported, confirm, history>>

(* The request for one of the accounts failed.                               *)
SyncFetchPart(s, part) ==
  /\ sync[s].pc = "idle" /\ Wanted
  /\ part # {}
  /\ sync' = [sync EXCEPT ![s] = [pc |-> "fetched", ok |-> FALSE, todo |-> part]]
  /\ UNCHANGED <<open, trade, chain, indexed, imported, cached, confirm, history>>

(* Mutants: a query that finds nothing, or orders not yet confirmed.         *)
NothingFound == {}
PreparedTx == {o \in Orders : trade[o] # "ABSENT" /\ chain[o] = "TAKEN"}

(* existing_ext: the fills already imported.  ui_tx: the hashes of confirmed *)
(* orders, which name the fill only if the order was matched by its own      *)
(* transaction.                                                              *)
ExistingExt == {o \in Orders : imported[o] > 0}
UiTx == {o \in Orders : trade[o] = "CONFIRMED" /\ chain[o] = "TAKEN"}

SyncRead(s) ==
  LET new == (sync[s].todo \ ExistingExt) \ UiTx IN
  /\ sync[s].pc = "fetched"
  /\ sync' = [sync EXCEPT ![s].pc = "import", ![s].todo = new]
  /\ early' = early \cup {o \in new : trade[o] # "CONFIRMED"}
  /\ overlapped' = (overlapped \/ \E t \in Syncers : sync[t].pc = "import")
  /\ UNCHANGED <<open, trade, chain, indexed, imported, cached, confirm, sawRevert>>

SyncImport(s, o) ==
  /\ sync[s].pc = "import" /\ o \in sync[s].todo
  /\ imported' = [imported EXCEPT ![o] = @ + 1]
  /\ sync' = [sync EXCEPT ![s].todo = @ \ {o}]
  /\ UNCHANGED <<open, trade, chain, indexed, cached, confirm, history>>

SyncFinish(s) ==
  /\ sync[s].pc = "import" /\ sync[s].todo = {}
  /\ cached' = (cached \/ sync[s].ok)
  /\ SyncDone(s)
  /\ UNCHANGED <<open, trade, chain, indexed, imported, confirm, history>>

SyncCrash(s) ==
  /\ sync[s].pc # "idle"
  /\ SyncDone(s)
  /\ UNCHANGED <<open, trade, chain, indexed, imported, cached, confirm, history>>

CacheExpires ==
  /\ cached
  /\ cached' = FALSE
  /\ UNCHANGED <<open, trade, chain, indexed, imported, confirm, sync, history>>

-----------------------------------------------------------------------------
OrderStep(o) == Prepare(o) \/ Send(o) \/ Mine(o) \/ Match(o) \/ Index(o)

ConfirmStep(c) ==
  \/ \E o \in Orders : ConfirmStart(c, o)
  \/ ConfirmSuccess(c) \/ ConfirmReverted(c) \/ ConfirmGivesUp(c)

SyncStep(s) ==
  \/ SyncFetch(s)
  \/ \E part \in SUBSET indexed : SyncFetchPart(s, part)
  \/ SyncRead(s)
  \/ \E o \in Orders : SyncImport(s, o)
  \/ SyncFinish(s) \/ SyncCrash(s)

Next ==
  \/ \E o \in Orders : OrderStep(o)
  \/ \E c \in Confirmers : ConfirmStep(c)
  \/ \E s \in Syncers : SyncStep(s)
  \/ \E old \in SUBSET Orders : ExpireStale(old)
  \/ Close \/ CacheExpires

Spec == Init /\ [][Next]_vars

(* The user keeps opening the portfolio.  A view that crashes or reaches the *)
(* indexer only in part may do so often, but not every time.                 *)
Fairness ==
  /\ WF_vars(CacheExpires)
  /\ \A s \in Syncers : /\ SF_vars(SyncFetch(s))
                        /\ SF_vars(SyncRead(s))
                        /\ \A o \in Orders : SF_vars(SyncImport(s, o))
                        /\ SF_vars(SyncFinish(s))

FairSpec == Spec /\ Fairness

-----------------------------------------------------------------------------
(* No fill is imported twice, unless two imports read the rows side by side: *)
(* nothing but the earlier query keeps them apart.                           *)
ImportedOnce == overlapped \/ \A o \in Orders : imported[o] <= 1

(* A confirmed order counts a second time in the portfolio only if its fill  *)
(* was picked for import before confirm_trade had committed, or if it was    *)
(* matched by a transaction other than its own.                              *)
DoubleBookingCauses ==
  \A o \in Orders :
    trade[o] = "CONFIRMED" /\ imported[o] > 0 => o \in early \/ chain[o] = "MADE"

(* Trade rows behave as the state machine of the design says: confirmation   *)
(* needs a mined transaction, and CONFIRMED and EXPIRED are final, whichever *)
(* of the confirmations and the clean-up comes first.                        *)
OrderState(o) ==
  CASE trade[o] = "ABSENT" -> "new"
    [] trade[o] = "CONFIRMED" -> "confirmed"
    [] trade[o] = "EXPIRED" -> "expired"
    [] OTHER -> "offered"

States == INSTANCE OrderStates
            WITH state <- [o \in Orders |-> OrderState(o)],
                 mined <- {o \in Orders : chain[o] \in Succeeded}
OrderStatesSpec == States!Spec

(* Every fill the indexer serves is eventually booked, even if the market    *)
(* closed before the confirmation, the confirmation gave up or the row       *)
(* expired.  get_user_fills asks for the newest 500 of an account: it is     *)
(* assumed that no more are made between two imports.                        *)
EveryFillBooked == \A o \in Orders : o \in indexed ~> Rows(o) > 0

(* What the tests of the fill import expect: the fill of a confirmed order,  *)
(* whose hash the fill carries, is skipped, and the order has one row.       *)
BookedOnce ==
  \A o \in Orders :
    trade[o] = "CONFIRMED" /\ chain[o] = "TAKEN" => imported[o] = 0

(* What the state machine of the integration document says of a transaction  *)
(* that reverted.                                                            *)
RevertIsRecorded == \A o \in sawRevert : trade[o] = "FAILED"
=============================================================================
