# DreamLens, verified

TLA+ models of DreamLens where it moves the user's authority, money and records:
who may trade for the user, how an order is priced, sent and booked, how a
followed trader's fill becomes at most one copy, how the bot is reached and
answered, and what the background syncs do to the tables everything else reads.
Each model is checked with TLC on small instances. Every safety property of the
components that a run checks is also proved with TLAPS, for every number of
agents, requests, orders, fills, threads and processes and for every limit and
amount.

Line numbers below and in `PROJECT.json` are those of the files under `src/`.

## 1. The system

DreamLens is a Django application in front of the DreamDEX prediction market. A
user links a wallet, opens a smart account, and signs a *delegation* that lets a
DreamAgent trade within limits. The application follows other traders on the
DreamDEX indexer and copies their fills, by itself or after the user's approval.
PostgreSQL rows, the cache and the chain are what the processes share: web
workers, the in-process copy and Telegram loops (threads of the web process),
and the Celery tasks that do the same work when Celery is deployed.

| Component | State | Operations | Hard part | What makes it correct |
| --- | --- | --- | --- | --- |
| Agent authority (`smart_account_service`, `apps/agents/models`, `active_permission`) | account, agent rows with a status, permission rows | open, deposit, grant, revoke, pause/resume, expire on read | read, check and save without row locks; expiry outside any transaction | one permission in force; revocation is complete and final; ended permissions stay ended |
| Trade lifecycle (`trading_service`) | `Trade.status`, row lock | prepare, confirm (waits up to 90 s under the lock), expire | the receipt may be late, lost or a revert; the market may close meanwhile | no confirmation without a mined transaction; final states are final |
| Order entry (`trading_service`, DreamDEX client) | one order: size, limit price, approval | price, approve, dry-run, fall back to a limit order, send | dollars, shares and ticks round differently; the market moves between pricing and sending | what the server offers to sign is refused for named causes only |
| Fill import (`portfolio_service.sync_trades_from_fills`) | imported `Trade` rows, a 20 s cache key | fetch, read, insert one by one | no transaction, no unique constraint, races with confirmation | every fill booked, and booked once |
| Copy pipeline (`copy_service`, `dream_agent_service`, `copy_monitor`, `copy_runtime`) | `CopyExecution` rows, limits copied into relationships | detect, review, evaluate, send, record, skip, approve | several pollers, each fill polled for 45 minutes, the send between reading and writing | one copy per fill; within the limits; only under a live permission |
| Copy score, risk and policy engines (`copy_score`, `consensus_service`, `risk_service`, `policy_service`) | none of their own | judge a copy by score, limits, liquidity, crowd | the same limits judged in two files, at different times | they agree; a copy that waits can be confirmed |
| Follow rules (`copy_service`) | relationships, the allowlist JSON of the permission | follow, edit, stop | read-modify-write of JSON; full-row saves | who is followed may be copied; what is stopped stays stopped |
| Fill indexer (`trader_service`) | `TraderTrade`, profiles, refresh lock and cache keys | sync, refresh in the background, hand over to the pipeline | syncs side by side, `external_trade_id` not unique | each fill indexed once, each followed fill in reach evaluated |
| Positions (`portfolio_service`) | `Position` rows | sync, claim by agent or wallet, close | balances fetched before they are saved; two accounts in one row | a claim stays recorded; nothing won is hidden |
| Session key (`integrations/metamask`) | nonce, gas, the grants on record | dry-run, send, wait two minutes for the receipt | one key for all threads; replies get lost; keys and grants change | callers are told the truth; nothing outside the grant is sent |
| Balances and withdrawals (`smart_account_service`) | bookkeeping figures in `metadata_json` | deposit, prepare/confirm a withdrawal, read the balance | no record of applied hashes; the JSON is rewritten whole | the record never promises more than the chain holds |
| Telegram (`telegram_runtime`, `telegram_bot_service`, `telegram_link_service`) | webhook, poll lock and offset, link rows, the bot's volume | deliver, link, unlink, trade, follow, claim, pause | at-least-once delivery, crashes, two consumers | both sides consent to a link; one trade per update, truly answered |
| Market index (`event_service`) | event rows, per-process lock, cache keys | sync, refresh in the background, refetch, view | lock handed between threads; lost listings; row deadlocks | one sync per process; settled markets stay settled and get settled |
| Radar (`radar_service`) | signals | replace the signals of all markets | runs beside each other at READ COMMITTED | a market's signals come from one run |
| AI answers (`ai_service`, `news_service`) | rate-limit stamps, two caches | analyze, chat | cascades of models with retries, threads sleeping on one stamp | calls keep their distance |
| Mock DEX, views, serializers, onboarding, notifications | — | rendering and routing | — | not modelled, see §8 |

How they meet. The market and fill indexes feed the radar, the score and the
copy pipeline. The pipeline asks agent authority for the running agent and its
permission and the score, risk and policy engines for a verdict; it offers
orders through order entry and the trade lifecycle, has them sent by the session
key, and confirms them; the portfolio imports the fills those orders produced
and rebuilds positions from them. The bot and the views call all of them.

### Concurrency assumed

`ATOMIC_REQUESTS` is off and PostgreSQL runs at READ COMMITTED. Functions marked
`@transaction.atomic` commit once, at their end, but a query inside them sees
whatever is committed at that moment, and `save(update_fields=...)` writes the
value computed from an earlier read. A row is locked from its first write to the
commit, or by `select_for_update`. Functions without the decorator commit every
save by itself. So a step of a model is: a query whose result is kept, a commit,
or a save outside a transaction. Two consecutive queries of which the second
sees a later state allow nothing that the single step does not, or are kept
apart.

## 2. Modules

| Module | Models | Notes |
| --- | --- | --- |
| `GrantLedger` | what permissions promise: issued once and, once ended, never live again | abstract |
| `AgentAuthority` | agent authority, one user | implements `GrantLedger` |
| `OrderStates` | the state machine of a Trade row: offered, confirmed only if mined, expired; both final | abstract |
| `TradeBooking` | trade lifecycle and fill import, one user | implements `OrderStates` |
| `CopyPipeline` | fill to copy, one user, one day | instantiates `GrantLedger` for the permissions it depends on |
| `CopyRules` | what decides about one copy: score, consensus, risk, policy | the review, the agent's trade and the owner's confirmation |
| `UpdateQueue` | what the bot may assume of Telegram's queue | abstract |
| `TelegramDelivery` | webhook, polling, lock, offset, crashes | implements `UpdateQueue` |
| `TelegramLink` | linking chats to users | |
| `TelegramDesk` | what the bot does with an update; the manual trade of bot and web | instantiates `UpdateQueue` for its updates |
| `FollowRules` | follows, edits, stops and the allowlists | |
| `FillIndex` | fills to profiles, and their hand-over | |
| `MarketIndex` | the local index of markets | |
| `Holdings` | one position: tokens, row, claims, close | |
| `AccountLedger` | the dollars of a Smart Account and the figures on record | |
| `OrderEntry` | one order from amount to execution | |
| `SessionKey` | redemptions by the one session key | |
| `Radar`, `Assistant` | radar signals; AI answers | |
| `MC*` | the sets TLC uses, and the scenes below | model checking |
| `AgentAuthorityProofs`, `TradeBookingProofs`, `CopyPipelineProofs`, `FillIndexProofs` | theorems about the module they are named after | TLAPS |
| `TelegramProofs` | theorems about `TelegramDelivery` and `TelegramLink` | TLAPS |
| `MarketDataProofs` | theorems about `MarketIndex`, `Radar`, `CopyRules`, `FollowRules` and `Assistant` | TLAPS |
| `UserRecordsProofs` | theorems about `SessionKey`, `AccountLedger`, `OrderEntry`, `TelegramDesk`, `Holdings` and all of them together | TLAPS |
| `SumLemmas` | totals over finite sets, for the limits of a day | lemmas |

Compositions go through abstract specifications. The pipeline's permissions take
exactly the ledger's steps, and `AgentAuthority` is proved to take no other; the
desk's updates arrive exactly as `UpdateQueue` says, and `TelegramDelivery` is
proved to deliver them so. What holds of the pipeline or the desk over the
abstraction therefore holds over the detailed component.

Operators under a comment "Mutant" are not part of the models: each is a
plausible mistake in the definition that follows it, kept to show that a
property notices.

### AgentAuthority

`status` is `DreamAgent.status` ("ABSENT": no row), `owner`/`permStatus` the
permission rows, `lapsed` the permissions whose `expires_at` has passed. A
*request* is one transaction: `GrantRead` is the read of `grant_agent` up to the
bulk UPDATE, `RevokePrevious` that UPDATE matching its rows, `GrantCommit` the
commit. When the agent is CREATED or FUNDED, the grant saves CONFIGURED first and
holds the row's lock ("locked"), so the UPDATE and the commit cannot be
separated by another commit *on that row*. `revoke_agent`, `set_agent_status`,
`mark_funded` and `ensure_agent` are a read and a commit each; `Abort` is every
error path and every crash of a transaction. A *reader* is a call of
`active_permission`: read the agent, find the newest active row, and, if it has
lapsed, save first the permission and then the agent, two commits a crash may
separate. `raced` records which pairs of operations have ever been in flight
together; the properties name the pairs that break them.

### TradeBooking

`trade` is the committed status of an order's row. `confirm_trade` is one
transaction that locks the row, checks status and market (`ConfirmStart`), waits
for the receipt, and commits CONFIRMED (`ConfirmSuccess`) or rolls back
(`ConfirmReverted`, `ConfirmGivesUp`): the status SUBMITTED and, because
`TradingError` is raised inside the block, FAILED are never committed.
`prepare_trade` commits AWAITING_CONFIRMATION. `chain` and `indexed` are outside
the code: a transaction is mined as a taker (its hash is the fill's), rests in
the book and is matched later by somebody else's transaction (the fill carries
*that* hash), or reverts. `sync` is a call of the import: fetch (all accounts or
a part), the two queries, one insert at a time, and the cache key.
`expire_stale_trades` has no caller in the repository; it is modelled as an
operation anyone may run. No caller passes `force=True`; the cache test is
always made. `get_user_fills` asks the indexer for the newest 500 fills of an
account (`dreamdex/client.py:666`): an account that makes more between two
imports is outside the model.

### CopyPipeline

`exec` is the `CopyExecution` row of a fill for the user, unique by constraint.
A *poller* is a thread inside `detect_and_process_copy`: the loop of
`copy_runtime`, a page that refreshed the traders, the Celery task. `Detect`
finds no row and takes the agent path or the review path; `AgentRead`, `FindExpired`,
`Deny`, `Gate`, `Lookup`, `Skip`, `Send`/`SendLost`/`SendFails`, `Record` and `Failed`
are the queries and saves of `evaluate_and_maybe_execute` in their order. The
amount is capped by the permission; the daily limit is compared with
`_daily_copy_total` of the relationship; score, policy, risk and delegation are
the environment's choice. `Gate` overwrites the relationship's limit, as the code
does. `SendLost` is a transaction that left but whose receipt, or whose
confirmation, failed; `Crash` is the process or the database failing between any
two steps. `lost`, `raced`, `late` and `approved` are history the properties use.

### CopyRules

`rule` is the CopyRelationship row, `facts` what the score reads of trader,
market and fill, `grant` the agent's permission, `copy` the CopyExecution row.
`Review` is the verdict of `detect_and_process_copy`; `NoDelegation` and
`AgentTrades` are `evaluate_and_maybe_execute` without and with a permission, the
latter with every reason of the policy engine: status, validity (which may end
after the permission was read), trader and outcome allowed, expired market,
amounts, score. `Confirm` is
`prepare_copy_trade`, which judges again, with an amount that the day's total
already counts. `Drift` and `EditRule` change facts and rule between them. Each check
of the code is a *named reason*, and a verdict the set of reasons, so that two
engines can be compared reason by reason. Scores are whole hundredths of the
weights in `copy_score.py`; the values chosen lie on both sides of each limit.

### TelegramDelivery and UpdateQueue

`Post`/`Answer` are a webhook call and its 200; `GetUpdates` acknowledges what
lies below the offset and takes the rest; `Handled` moves the offset past one
update. A *listener* is what `AppConfig.ready` starts in a process (`Ready`), and
the loop of the `telegram_poll` command besides (`Main`). `StartListener` chooses
webhook, poller or standby (`telegram_runtime.py:113`); a standby process never
asks for the lock again. Every process runs `ready`, those of management commands
included unless `_SKIP_COMMANDS` names them; `StartCommand` then polls whatever
is configured, does not ask for the lock, and its first act is to remove the
webhook (`ClearWebhook`), which nobody registers again. Crashes lose the batch
and the offset, and end both listeners of a process. The 409 that Telegram gives
to a second poller is left out: both are given the updates. The processes are
taken to share one host, and with it the lock file; containers with a `/tmp` each
have a lock each, and with it a second poller, as the command's own loop is one.
`TELEGRAM_DISABLE_POLL`, which keeps a process from listening, is not modelled,
and a Celery worker counts as a web process. The refinement maps
`acked` to what the queue dropped and `exposed` to what was delivered again.

### TelegramLink

`start_link` is three steps: it locks another user's pending row for the chat
and reads its own row without a lock (`StartRead`), writes its row and messages
the chat (`StartAsk`), commits (`StartCommit`). `ConfirmLink`,
`CancelPendingLink` and `Unlink` lock the one row they touch and are one step
each. A request that had read a row as pending overwrites a confirmation
committed meanwhile; the token in the message, not the status, is what keeps the
consent.

### TelegramDesk

A *desk thread* handles an update or a web trade: look up the link, dispatch,
ask for the agent and permission, compare the day's volume, send, record,
answer. Every stage may fail or die; a dead bot thread leaves its update to be
delivered again. `lost` and `stray` remember transactions that left without
being recorded. A message is a kind, a word and an amount; which phrases a text
contains is given with it.

### FollowRules, FillIndex, MarketIndex, Radar

*FollowRules*: a follow or an edit reads the lists and its relationship
(`Follow`, `EditLoad`) and writes what it read, changed (`EditSave`, `Commit`);
a grant takes its list in a query of the view before its own transaction
(`GrantLoad`, `GrantCommit`). *FillIndex*: a sync fetches what is in `reach` (the
80 most traded live markets and the newest 200 fills of each; `Rank` moves a fill
out and in), reads the known ids, inserts in one transaction, overwrites profiles
and hands fills over;
the background refresh is guarded by a thread lock and two cache keys.
*MarketIndex*: the listing, its rows, and one by one the markets that left it,
in one transaction with row locks and the deadlocks they allow; a page's own
fetch of one market; the lock a request acquires and its worker releases.
*Radar*: the UPDATE of a run reaches the rows committed when it starts; the
detectors turn one market's row, book and fills into at most one signal of each
type.

### Holdings, AccountLedger, OrderEntry, SessionKey, Assistant

*Holdings* is one outcome of one market: tokens in the wallet, the Smart Account
and an order that rests in the pool's book, booked trades, the row. Claims come
from the session key and, after a receipt, from the page. What the chain did and
what the books say are kept apart (`got`, `gone` and `bought`, `sold`): the order
that closes a position may fall back to a LIMIT order and rest, or fill in part
(`SellMined`), while `confirm_trade` books all of it on any receipt that
succeeded (`ConfirmClose`), and the import may book the same fills
(`SellImported`, `RestImported`). *AccountLedger* keeps the figures of
`metadata_json`, which each confirmation, and `create_account` where it finds the
account, rewrites from what it read before. The page calls
`create_account` with the address it was given, so the address stays. *OrderEntry*
computes with whole raw units: the size (`NotionalToQuantity`), the grid
(`Align`), the marketable limit (`MarketLimit`), the approval (`Quote`,
`Lacking`) and the fall-back to a limit order (`AsLimit`) are operators; `DryRun`
and `Submit` meet whatever the book has become. *SessionKey*: count, dry
run, send, receipt or give-up, which a failing node may force after the
transaction was mined; a grant allows methods and a delegate; the key
may be changed and claims added between any two steps. *Assistant*: one thread
per question, sleeping, asking model after model, with replies "ok", "bare",
"empty", "e400", "e404", "down".

## 3. What each run checks

| Run | Instance | Properties | States |
| --- | --- | --- | --- |
| `agent` | 2 agent rows, 2 requests, 1 reader, 3 permissions | `TypeOK`, `OneActivePermission`, `RevocationKept`, `LedgerSpec`, `RevokedHoldsNothing`, `OneLiveAgent`, `RevokedStaysRevoked` | 936 129 |
| `trade_booking` | 2 orders, 2 confirmers, 2 importers | `TypeOK`, `ImportedOnce`, `DoubleBookingCauses`, `OrderStatesSpec` | 222 760 |
| `copy` | 2 pollers, 3 fills of one trader, 1 permission, limits 1 | `TypeOK`, `CopiedOnce`, `LateSends`, `DailyBound`, `FinalKept` | 3 525 716 |
| `telegram` | 2 web processes and the command, 2 updates (1 beside the command), 1 crash; 2 users, 2 chats, 2 requests, 2 tokens | `LinkedByConsent`, `QueueSpec`, `EveryUpdateHandled` | 144 237 |
| `syncs` | 1 order; 1 market, 2 processes; 1 fill; fairness | `CountedAreIndexed`, `EveryFillBooked`, `ViewedMarketsSettle`, `FollowedAreEvaluated` | 58 090 |
| `market_data` | 5 scenes: market index, radar, copy rules, follows, AI answers | `OneSyncPerProcess`, `SettledStays`, `OneFinding`, `EnginesAgree`, `WaitsForCause`, `FollowedIsAllowed`, `StoppedStays`, `CallsSpaced` | 1 343 089 |
| `user_records` | 5 scenes: order entry, the bot's desk, a position, the account's dollars, the session key | `UserTypeOK`, `OneTrueAnswer`, `ManualBound`, `NoWinningsHidden`, `ClaimStaysRecorded`, `RecordCovered`, `RefusedForCause`, `ToldTruly`, `NeverBeyondGrant` | 2 760 219 |
| `revoked_is_terminal` | 1 agent row | `RevokedIsTerminal` **violated** | |
| `booked_once` | 1 order | `BookedOnce` **violated** | |
| `revert_is_recorded` | 1 order | `RevertIsRecorded` **violated** | |
| `daily_cap` | 1 poller, 2 traders | `DailyCap` **violated** | |
| `spend_within_amount` | 1 order, a grid of one unit | `SpendWithinAmount` **violated** | |

`telegram`, `syncs`, `market_data` and `user_records` each play several
components that share no state: a behaviour picks one, its *scene*, and the
others rest. A property then speaks of its own scene; no interleaving is lost,
for there is none to lose, and each module keeps its own specification.

- *agent*: at most one permission of an agent is active unless two grants were
  in flight together; a REVOKED row is rewritten to EXPIRED only by an
  overlapping `active_permission`; the rows implement the ledger; a revoked agent
  holds no permission unless a grant overlapped a revocation; it stays revoked
  unless a grant, status change, deposit or expiry overlapped one; the user has
  one live agent unless two creators overlapped (or a revoked one came back).
- *trade_booking*: a fill is imported twice only by imports that read side by
  side; a confirmed order is imported as well only if the import had picked it
  before the confirmation committed, or its hash is not the fill's; the rows
  implement the state machine.
- *copy*: the agent sends a fill at most once, and never one that was prepared
  for the owner, unless two pollers held it together or a send was not recorded;
  final rows are kept; an ended permission is used only by sends already under
  way, at most one for each thread; pollers that read the same day's total
  exceed the limit by at most one trade for each but one of them.
- *telegram*: an active link was asked for by its user and confirmed in its chat
  with the token sent there; whatever mixture of webhook, polling, crashes and
  second pollers, no update is dropped before it was handled, and none handled
  twice but after a second delivery; every update is handled in the end, unless
  the bot is *deserted*: nobody polls, no webhook is registered, and every web
  process is up and will not look again. Only the end of a command's process
  deserts it.
- *syncs*: every indexed fill ends in a CONFIRMED row; a market that is looked
  at settles once it is settled on DreamDEX, also after a sync has locked it; a
  followed trader's fill is evaluated while it is recent and in a sync's reach; a
  profile never counts more trades than are indexed.
- *market_data*: the refresh lock is held by the thread that syncs and by no
  other; a settled market is taken back only by jobs that crossed; the signals
  of a market come from one run unless two overlapped; score and risk engine
  find the same faults; a copy that a fresh review would pass can be confirmed,
  but for two causes; the permission allows whom the user follows, unless
  writers of the list met; a stop is undone only by an edit loaded before it;
  calls to the model are apart unless two threads slept on one stamp.
- *user_records*: an update makes at most one trade and the answer says truly
  whether it did, but for redelivery and unrecorded sends; the day's manual
  total is exceeded by at most one trade per further thread and by what went
  unrecorded; while the books hold (no more booked as sold than was, no purchase
  still to be booked), nothing claimed or closed hides tokens, but for three
  stated causes; a claim stays recorded unless an older read is saved over it; the
  figure on record never exceeds the chain, withdrawals to be confirmed and the
  agent's spending taken into account; an order offered for signature is refused
  for its allowance or grid only if something changed it or the grid was
  unreadable; a redemption's caller is told what became of it; none is refused
  for a method or payment outside its grant.

### What the violated runs show

1. **`RevokedIsTerminal`** (`smart_account_service.py:133`, `301`,
   `dream_agent_service.py:90`): a writer that read the agent before
   `revoke_agent` committed saves its own status afterwards. The model's table
   gives REVOKED no successor (`apps/agents/models.py:254`). The permissions stay
   revoked (`LedgerSpec` holds).
2. **`BookedOnce`** (`portfolio_service.py:162`): the import reads the confirmed
   hashes once and inserts later; a confirmation in between leaves two rows for
   one order, which `tests/test_portfolio.py:88` expects never to happen.
3. **`RevertIsRecorded`** (`trading_service.py:475`): FAILED is rolled back by
   the exception of line 484; `docs/DREAMDEX_INTEGRATION.md:400` names it a state.
4. **`DailyCap`** (`dream_agent_service.py:279`): the permission's daily maximum
   is compared with one relationship's total; with two traders followed, one
   poller alone, strictly in sequence, executes beyond it. `README.md:125-127`
   says the agent cannot.
5. **`SpendWithinAmount`** (`trading_service.py:97`): the limit is compared with
   the dollars asked for (`dream_agent_service.py:531`), the order is sized at
   the shown price and, as a MARKET order, fills deeper in the book: it costs
   more than was compared. `README.md:125-127` says the agent cannot exceed its
   limits.

### Bounds, and why they are enough

- `MaxPerm` bounds permissions ever created. Three let one agent have a revoked,
  an expired and two overlapping active ones. The constraint `Small` explores
  either three permissions of one agent or one of two agents: no property
  relates permissions of different agents.
- The constraint `OneConflict` of the agent runs stops exploring once two
  different pairs of operations have overlapped. The properties say "P unless
  pair X overlapped"; a state with more pairs satisfies them more easily, and
  every state with one pair, any number of times, is explored.
- Two requests and one reader, two threads elsewhere: the code has no step that
  involves three transactions, so a third only repeats a pair.
- `MaxSent` bounds the transactions sent for one fill, 2 where repetition
  matters; `MaxTotal` those of the desk. `MaxTrade`, `MaxDaily` and `InitMax`
  are 1 or 2: amounts are compared and added, never divided; the values
  distinguish "one fits, two do not" from "the relationship's limit is below the
  permission's".
- `MaxUpdate` 2 and `MaxCrash` 1: a batch with a handled and an unhandled update,
  and one loss of it. The command is played with one update: what it adds is who
  listens. The desk needs one update, of four kinds of message.
- `MaxFail` bounds how often DreamDEX fails to answer; 1 separates the failed
  call from the retry. `MaxRuns` 3 lets a third radar run clean up after two
  that overlapped. `MaxChanges` 2: an edit and a drift, or two of one.
- The order's grid (`Scale` 4, `Step` 2, `Lot` 2) has amounts that round to
  nothing, to one lot, and across a tick; depths are none, thin and ample.
- `MaxClock`, `Limit`, `Ttl`, `NewsTtl` of the assistant: a cache entry that
  expires within a behaviour and one that does not, a limit longer than a tick.
- `MaxAmount` 2, three transactions: a deposit, a withdrawal and one more. Two
  shares and two requests for a position (`MaxBuy`, `MaxSold`): a close that fills
  half, and a share bought after a sale. `Needs` are the calls a claim must make
  before it redeems: none, or all three. `GasTank` 1: the key can pay for one of
  two redemptions.
- `StillTold` ends the follow scene once every trader was raced over: both
  properties then say nothing more.
- Symmetry is used over interchangeable threads, agents, orders' confirmers,
  fills, traders and permissions where no liveness property is checked.
- Deadlock is checked where a component can always move. `telegram`, `syncs`,
  `market_data`, `user_records` and `spend_within_amount` say `CHECK_DEADLOCK
  FALSE`: a request, an order or a bounded world ends there.

### Fairness

- *Fill import*: the cache key expires (its timeout is 20 seconds,
  `portfolio_service.py:21`) and the user keeps opening pages that import. A view
  may crash or reach the indexer in part, again and again, but not every time:
  hence `SF` on the import's own steps. Nothing is assumed of wallets, the
  chain, confirmations or the market. Fills the import skips by design (unknown
  market, zero quantity) are assumed not to occur.
- *Market index*: a page that shows the market is opened again and again and its
  fetch does not fail every time; threads that run go on.
- *Fill index*: the poll loop never ends (`SF(Begin)`), and a thread that syncs
  goes on. Nothing is assumed of the markets' ranks: a fill that stays out of
  reach is owed nothing.
- *Telegram*: web processes are restarted, their threads go on, and Telegram
  posts what is not acknowledged. That the command runs, or runs again after its
  end, and the success of any one call are not assumed. Hence the exception of
  `EveryUpdateHandled`, which is a state the code really reaches.

`MCSyncs` merges the conditions of three components into five: a behaviour plays
one scene, so a condition over "this action of the one, or that of the other" is
the condition of the scene being played. Only one reader per component is held
to go on.

## 4. What is proved

A theorem holds for every value of the constants that satisfies the named
assumptions of its module, and TLC evaluates those on every run. They say that

- `NoAgent`, `NoOrder`, `NoSource` and `NoGrant` lie outside the sets they stand
  beside, web processes and commands differ, updates are numbered from 1, and
  each fill's relationship is one of the user's;
- the sets whose members are counted or whose amounts are added (pollers, the
  desk's threads, sources, transactions, redemptions, fills) are finite;
- limits, amounts, prices and depths are naturals, positive where the code
  divides by them or requires it; a tick divides the scale and a lot the
  smallest order, as in DreamDEX's markets; `Unlimited` is no less than any
  allowance, as 2^256 - 1 is.

Each invariant below that is more than the property itself was checked by TLC,
on the instance of the property's run, before it was proved.

**AgentAuthorityProofs.** `TypeCorrect`; `OnePermission`; `RevocationIsComplete`;
`ImplementsLedger`. `OneActivePermission` is not inductive: a grant that has
matched rows carries a snapshot, and only if no other grant can have added a row
since is the snapshot complete. `GrantInv` says so: without overlapping grants at
most one request is a grant (`GrantsApart`), and its matched rows contain every
row that is active (`GrantSnapshot`). `RevokeInv` is the same argument for
revocations against grants, together with: without a race only a revocation
produces REVOKED. The ledger needs only typing: fresh keys come from `Perms \ Issued`,
and no step turns a row ACTIVE but the one that creates it.
`RevokedStays` rests on `HeldInv` (an agent without a row is held by the one
request that will insert it) and `StaleInv` (while no writer overlapped a
revocation, none is in flight beside one and none holds a REVOKED agent).
`LiveAgent` adds `LiveInv`: while no two callers of `ensure_agent` overlapped, the
agent the one in flight will insert is the only one. `RevocationRecordKept` rests
on `KeptInv`, the same for calls of `active_permission` and the row they save.

**TradeBookingProofs.** `TypeCorrect`; `ImplementsOrderStates`;
`DoubleBookingExplained`. The refinement needs that a row under a confirmation's
lock is still confirmable when the receipt arrives (`LockInv`: locks are
exclusive, and the status of a locked row is not changed by others; `SentInv`: what
was sent has a row); this is why `expire_stale_trades` cannot come between. The causes of double booking need that
a fill exists only for an order that was mined, and that whatever has been
imported or is still to be inserted was picked before its confirmation or matched
by another's transaction (`CauseInv`). `FillsImportedOnce` needs `OnceInv`: an
import that read the rows alone is the only one past its queries, and none of
the fills it has yet to insert has a row.

**CopyPipelineProofs.** `TypeCorrect`; `CopiesOnce`; `FinalRowsKept`. The
invariant `CopyInv` has two halves. `HeldAlone`: a fill that was never raced is
held by at most one thread, and as long as a thread holds it there is no row
(so what the thread has in memory is what is stored). `RowTells`:
a fill that was sent, unless lost, has its final row or is about to be recorded
by the thread that holds it; a fill prepared for the owner was never sent and its
row is APPROVED. A send therefore happens only from zero.
`LateSendsBounded` counts (`LateInv`): nobody takes up a permission that has ended,
so what was sent late and the threads still about to send never exceed the
threads there are. `DailyBoundHolds` adds (`DailyInv`): for each relationship,
the total of the day and what the threads past the comparison will add stay
within the limit and one trade for every thread but one. Totals are recursive folds; what
the proof uses of them is in `SumLemmas`.

**TelegramProofs.** `DeliveryInvariant`; `DeliveryIsQueue`, the
refinement. `DeliveryInv` has these parts. `PassedIsDone`: what is acknowledged, or
lies below a poller's offset, was handled, so that an acknowledgement by offset
drops nothing unhandled. `SharedIsExposed`: an update two handlers hold was
delivered again. `DoneIsKnown`: a handled update is acknowledged, exposed or
behind somebody's offset, and one that is still held was exposed. `Resting` and
`Sent`: a process that does not poll has no batch, and nothing is held that was
not sent. `OnlyCommandsDesert` is the part of `EveryUpdateHandled` that needs no
fairness: a step that leaves neither poller nor webhook, with all web processes
up, is the end of a command, for a process that finds the lock taken leaves its
holder polling, and no loop ends by itself. `TypeCorrect`; `ConsentOnBothSides`;
`OwnersEndLinks` are about links.
`LinkInv`: pending rows and requests in flight carry tokens that were issued for
them (`RequestsAreIssued`), a user has one row (`OneRowPerUser`), and while a request
is in flight its user is linked, or a row it will delete confirmed, only behind
its back (`StartsKnow`).

**MarketDataProofs.**

- *Market index*: `TypeCorrect`; `LockIsHeld`; `SettledForGood`. For the
  first, a job that belongs to a process is a view's, and one that still waits for
  the lock has nothing to write, so that no deadlock makes it release a lock it
  does not hold (`JobsOfProcesses`). For the second, Decided on DreamDEX is for
  ever (`KnownDecided`), and a market settled while no other job was writing it is
  known to every job as decided (`NobodyUnsettles`).
- *Assistant*: `CallsKeepApart`. `AskerInv`: of the threads of a user that was
  never crowded one at most is asleep, and it wakes no earlier than the limit
  after the stamp.
- *Radar*: `RadarShowsOneFinding`. `RadarInv`: two runs inside together have met,
  a run makes one signal of a market and type, and a stored signal that a run's
  UPDATE did not reach belongs to a run it met.
- *Copy rules*: `WaitingCopiesRefusedForCause` (`RulesInv`: in a world that has not
  changed, a copy that waits carries the score and decision of now);
  `LimitsReadTwiceAlike`, which is about the two engines as operators, for any
  rule, permission and state of the market, and needs no history.
- *Follow rules*: `FollowedTradersAllowed` (`ListInv`: for traders nobody raced
  over, the lists a request has read allow whom the user follows, and an open
  grant names them); `StoppedTradersStay` (`StopInv`: a relationship has one writer,
  and a request that loaded a stopped one holds STOPPED).

**FillIndexProofs.** `FillsIndexedOnce`; `ProfilesCountIndexed`. `IndexInv`: what
a sync is to insert is what it has not read (`InsertsTheRest`), so without an
overlap nobody else has inserted it (`InsertsOnce`); a profile is written from a
set of fills that are all indexed when the transaction commits.

**UserRecordsProofs.**

- *Session key*: `CallersToldTruly`; `NonceRefusedWhenOvertaken`. `KeyInv`:
  what was not sent has no trace on the chain (`Unsent`); one that nobody overtook
  will send with the count of the moment, and nothing of the key is pending
  (`Alone`). `WithinTheGrant`: what a redemption calls was checked against the
  grant it was built from, and before the key changes every grant names it
  (`CoverInv`).
- *Balance on record*: `RecordIsCovered`. `LedgerInv`: what was deposited is on
  the chain, withdrawn or paid for trades (`Balanced`); a request that nobody
  overlapped has read the record as it is (`OneReader`), be it a confirmation or
  `create_account`; a confirmation reads what is mined (`Reading`).
- *Order entry*: `SignedOrdersRefusedForCause`, with the arithmetic of ticks, lots
  and rounding proved for every scale. `EntryInv`: a priced order is on its grid
  (`OnItsGrid`, `AtMarket`), its size bounded by what was asked for (`AskedFor`), and one
  that asks for no approval lacks none unless the allowance went elsewhere
  (`Approved`).
- *The bot's desk*: `OneTradeOneAnswer` and `ManualTradesBounded`. `AnswerInv`: an
  update delivered once has one thread, and what was sent and told of it is
  what its place in the handler says. `AmountInv`: what was spent is on record,
  about to be, or stray (`Accounted`), and the trades that passed the comparison
  fit into the day with one trade for each thread but one (`Fitting`).
- *Positions*: `ClosedHidesNothing` and `ClaimsStayRecorded`. `PositionInv`: what is
  held, in a resting order too, and was sold was bought (`Conserve`); but for the
  three named causes a closed row is sold out by the books, or the market no
  longer trades and nothing is left, and a request that will close it will leave
  it so (`EmptyInv`). The books enter last: where they hold, sold out by the
  books is sold out on the chain. While no older read was under way at a claim
  and the position was not sold out, every read in flight has seen the row closed
  or not, as it is (`ClosedIsClaimed`).
- *Together*: `RecordsKeepTheirTypes`, about the specification of all five that
  TLC runs: whichever plays, its invariant and those of the resting ones hold
  (`RecordsInv`). That the count the node answers never exceeds the redemptions
  needs `CountInv`: it is the number of those that were mined.

**SumLemmas.** The library states induction with an operator as its parameter,
which the provers cannot instantiate. What is needed of it here, that a set of
naturals which contains 0 and is closed under successor is everything, is proved
from the well-ordering of the naturals by a least-element argument
(`NumberInduction`); with it totals over a finite set exist, are naturals, and
change by what one of their members changes (`RowTotal` and its lemmas).

### Only model-checked

- The liveness properties `EveryUpdateHandled`, `EveryFillBooked`,
  `ViewedMarketsSettle` and `FollowedAreEvaluated`: they rest on fairness and on
  `ENABLED`, which the proof system does not treat.
- The five violated properties: a counterexample is the proof.
- What the scores of `CopyRules`, the rounding of `OrderEntry` and the detectors
  of `Radar` compute for one input: the theorems use the bounds and equalities
  they need of them, TLC evaluates them on its instances.

## 5. Plan

Modelled: every component of §1 but the last row. Every safety property that a
run checks has its theorem. What is left would be further statements rather
than proofs of these:

1. `TelegramLink` as a refinement of an abstract consent between a user and a
   chat, as `AgentAuthority` refines the ledger.
2. `Holdings` as a refinement of a position whose claim is one step, for the
   histories in which no two requests overlap.
3. What `MarketLimit` is for: that the order it prices fills in the book it was
   priced from.

## 6. Hazards

`PROJECT.json` lists, at their lines, the places where an order of steps, a stale
read, a retry or a partial failure could go wrong, with the properties that cover
them. Three have no run of their own: duplicated rows of `TraderTrade`
(`trader_service.py:530`), which `FillsIndexedOnce` proves; the overwritten
`max_per_trade` (`dream_agent_service.py:288`), which is modelled but about which
no document promises anything; and the phrases the bot searches for
(`telegram_bot_service.py:982`), whose text is not modelled.

## 7. Running

    tlc -workers 2 -config Agent.cfg MCAgentAuthority.tla
    tlc -workers 2 -config TradeBooking.cfg MCTradeBooking.tla
    tlc -workers 2 -config Copy.cfg MCCopyPipeline.tla
    tlc -workers 2 -config Telegram.cfg MCTelegram.tla
    tlc -workers 2 -config Syncs.cfg MCSyncs.tla
    tlc -workers 2 -config MarketData.cfg MCMarketData.tla
    tlc -workers 2 -config UserRecords.cfg MCUserRecords.tla
    tlc -workers 2 -config SpendWithinAmount.cfg MCOrderEntry.tla
    tlapm AgentAuthorityProofs.tla        # and the other *Proofs modules

The longest takes under three minutes; `Copy.cfg` and `UserRecords.cfg` are the
largest.

## 8. Not modelled

- The DreamDEX mock and `MOCK_DREAMDEX` mode, in which `confirm_trade` does not
  wait for a receipt: a stand-in for development.
- Views, serializers, sessions and wallet login, onboarding, notifications: they
  route and render. The transaction a view opens is in the action of the service
  it calls.
- `event_copy`, `score_label`, `market_stats` beyond `book_liquidity`, and the
  wording of AI answers and of the bot: text and display. So are the bot's
  commands that only show something (`/positions`, `/analyze`, `/help`).
- `save_consensus_snapshot`, `compute_consensus_for_all` and `evaluate_copy`:
  they store or repeat what the modelled functions compute.
- `wrap_owner_execute`, ABI encoding and `smart_account.py` (deployment, the
  EntryPoint): byte layout. HTTP and RPC: their outcomes are choices.
- `_put_pending_trade` and `_pop_pending_trade`, which nothing fills, and
  `include_finalized` of `sync_events`, which no caller passes.
- `confirm_owner_withdraw` takes the amount from the caller; the page passes the
  transaction's, and that is what is modelled.
- Concurrent users, but where they share something: a chat, the session key, the
  indexes.
