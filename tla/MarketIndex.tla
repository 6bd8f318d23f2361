----------------------------- MODULE MarketIndex -----------------------------
(***************************************************************************)
(* The local index of DreamDEX markets.  Page views serve the rows at hand  *)
(* and start a background sync behind a per-process lock and two cache keys *)
(* (fresh, syncing); the first load waits for its own sync; Celery tasks    *)
(* sync without the lock; the market page and the portfolio fetch one       *)
(* market.  A sync is one transaction: the listing, its rows, then one by   *)
(* one the markets that left the listing.                                   *)
(*                                                                          *)
(* Only what decides a row's status is kept: the indexer's clobStatus       *)
(* (Trading; Settling for anything between; Decided once the winner or the  *)
(* void is posted), and whether the expiry has passed.                      *)
(***************************************************************************)
EXTENDS Naturals

CONSTANTS
  Markets, Procs,
  Web, Workers, Pages,  \* threads: of page views and the syncs they start, of
                        \* Celery workers, of requests for a single market
  Shared,     \* the cache is Redis, not the memory of each process
  MaxFail     \* bound: requests to DreamDEX that fail, and processes that die

VARIABLES
  clob,       \* DreamDEX: clobStatus of each market
  expired,    \* DreamDEX: markets past their expiry
  row,        \* EventContract.status ("NONE": no row)
  lock,       \* _event_sync_lock of each process: the threads that hold it
  fresh,      \* caches that hold the fresh key
  syncing,    \* caches that hold the syncing key
  job,        \* what each thread does
  failures,
  crossed     \* history: markets resolved while another job was writing them

vars == <<clob, expired, row, lock, fresh, syncing, job, failures, crossed>>

Threads == Web \cup Workers \cup Pages
Statuses == {"TRADING", "LOCKED", "RESOLVED"}
Clob == {"Trading", "Settling", "Decided"}

Begun(at, own, gated, known) ==
  [pc |-> at, proc |-> own, gate |-> gated, seen |-> known, put |-> {}, todo |-> {}]

Idle == Begun("idle", {}, FALSE, {})

TypeOK ==
  /\ clob \in [Markets -> Clob] /\ expired \subseteq Markets
  /\ row \in [Markets -> Statuses \cup {"NONE"}]
  /\ lock \in [Procs -> SUBSET Web]
  /\ fresh \subseteq SUBSET Procs /\ syncing \subseteq SUBSET Procs
  /\ job \in [Threads ->
       [pc: {"idle", "wait", "list", "write", "refetch", "save"}, proc: SUBSET Procs,
        gate: BOOLEAN, seen: SUBSET (Markets \X Clob),
        put: SUBSET (Markets \X Statuses), todo: SUBSET Markets]]
  /\ failures \in Nat /\ crossed \subseteq Markets

Init ==
  /\ clob = [m \in Markets |-> "Trading"] /\ expired = {}
  /\ row = [m \in Markets |-> "NONE"]
  /\ lock = [p \in Procs |-> {}] /\ fresh = {} /\ syncing = {}
  /\ job = [t \in Threads |-> Idle] /\ failures = 0 /\ crossed = {}

(* The cache a process uses, named by the processes that share it.           *)
Cache(p) == IF Shared THEN Procs ELSE {p}
Caches == {Cache(p) : p \in Procs}

HasLocalLiveEvents == \E m \in Markets : row[m] = "TRADING" /\ m \notin expired

-----------------------------------------------------------------------------
(* DreamDEX (external): the expiry passes, trading ends, the winner or the   *)
(* void is posted.  A market may be voided while it trades.                  *)
PassExpiry(m) ==
  /\ m \notin expired /\ expired' = expired \cup {m}
  /\ UNCHANGED <<clob, row, lock, fresh, syncing, job, failures, crossed>>

Progress(m) ==
  /\ \/ clob[m] = "Trading" /\ m \in expired /\ clob' = [clob EXCEPT ![m] = "Settling"]
     \/ clob[m] # "Decided" /\ clob' = [clob EXCEPT ![m] = "Decided"]
  /\ UNCHANGED <<expired, row, lock, fresh, syncing, job, failures, crossed>>

(* _coerce_event_dto and _normalize_status, as of the moment of the write:   *)
(* a market past its expiry that is still listed is stored as locked.        *)
(* LOCKED also stands for SETTLING and for RESOLVED without a winner, which  *)
(* are neither live nor settled.                                             *)
Status(c, m) ==
  CASE c = "Decided" -> "RESOLVED"
    [] c = "Trading" /\ m \notin expired -> "TRADING"
    [] OTHER -> "LOCKED"

-----------------------------------------------------------------------------
(* A page view that finds live rows and no fresh key tries to start the      *)
(* background sync: nothing happens when the process has one (its lock is    *)
(* taken) or the key says that somebody has.                                 *)
Kick(t, p) ==
  /\ job[t] = Idle /\ HasLocalLiveEvents /\ Cache(p) \notin fresh
  /\ lock[p] = {} /\ Cache(p) \notin syncing
  /\ lock' = [lock EXCEPT ![p] = {t}]
  /\ syncing' = syncing \cup {Cache(p)}
  /\ job' = [job EXCEPT ![t] = Begun("list", {p}, TRUE, {})]
  /\ UNCHANGED <<clob, expired, row, fresh, failures, crossed>>

(* A view of an index without live rows waits for the lock ...               *)
FirstLoad(t, p) ==
  /\ job[t] = Idle /\ ~ HasLocalLiveEvents
  /\ job' = [job EXCEPT ![t] = Begun("wait", {p}, TRUE, {})]
  /\ UNCHANGED <<clob, expired, row, lock, fresh, syncing, failures, crossed>>

(* Mutant: the lock is released by the thread that did not get it.           *)
ReleasedAnyway(p) == lock' = [lock EXCEPT ![p] = {}]

NotAcquired(p) == UNCHANGED lock

(* ... gives up after 45 seconds ...                                         *)
GiveUp(t, p) ==
  /\ job[t].pc = "wait" /\ job[t].proc = {p} /\ lock[p] # {}
  /\ job' = [job EXCEPT ![t] = Idle] /\ NotAcquired(p)
  /\ UNCHANGED <<clob, expired, row, fresh, syncing, failures, crossed>>

(* ... or gets it, and syncs unless another request has filled the index.    *)
Acquire(t, p) ==
  /\ job[t].pc = "wait" /\ job[t].proc = {p} /\ lock[p] = {}
  /\ IF HasLocalLiveEvents
       THEN /\ fresh' = fresh \cup {Cache(p)}
            /\ job' = [job EXCEPT ![t] = Idle] /\ UNCHANGED lock
       ELSE /\ lock' = [lock EXCEPT ![p] = {t}]
            /\ job' = [job EXCEPT ![t].pc = "list"] /\ UNCHANGED fresh
  /\ UNCHANGED <<clob, expired, row, syncing, failures, crossed>>

Task(t) ==
  /\ job[t] = Idle
  /\ job' = [job EXCEPT ![t] = Begun("list", {}, FALSE, {})]
  /\ UNCHANGED <<clob, expired, row, lock, fresh, syncing, failures, crossed>>

-----------------------------------------------------------------------------
(* sync_events: the listing is asked for ...                                 *)
List(t) ==
  /\ job[t].pc = "list"
  /\ job' = [job EXCEPT ![t].pc = "write",
               ![t].seen = {<<m, "Trading">> : m \in {n \in Markets : clob[n] = "Trading"}}]
  /\ UNCHANGED <<clob, expired, row, lock, fresh, syncing, failures, crossed>>

(* Rows written by a transaction stay locked until it commits.               *)
Holds(t) == IF job[t].pc = "refetch" THEN {x[1] : x \in job[t].put} ELSE {}
Free(m, t) == \A s \in Threads \ {t} : m \notin Holds(s)
Listed(t) == {x[1] : x \in job[t].seen}

(* Mutant: every row that is not listed is taken for dropped.                *)
EveryUnlisted(t) == {m \in Markets \ Listed(t) : row[m] # "NONE"}

(* The markets that left the listing: those the index still shows as live.   *)
Dropped(t) == {m \in Markets \ Listed(t) : row[m] = "TRADING"}

(* ... its rows are written, and the rows that dropped out are read.         *)
Write(t) ==
  /\ job[t].pc = "write" /\ \A m \in Listed(t) : Free(m, t)
  /\ job' = [job EXCEPT ![t] = [@ EXCEPT
               !.pc = "refetch", !.seen = {}, !.todo = Dropped(t),
               !.put = {<<x[1], Status(x[2], x[1])>> : x \in job[t].seen}]]
  /\ UNCHANGED <<clob, expired, row, lock, fresh, syncing, failures, crossed>>

Learn(t, m, s) ==
  job' = [job EXCEPT ![t] = [@ EXCEPT !.put = job[t].put \cup {<<m, s>>},
                                      !.todo = job[t].todo \ {m}]]

(* _refresh_dropped_live_markets: each is fetched, one that cannot be (or is *)
(* beyond the first 40) is only locked.                                      *)
Refetch(t, m) ==
  /\ m \in job[t].todo /\ Free(m, t)
  /\ \/ Learn(t, m, Status(clob[m], m)) /\ UNCHANGED failures
     \/ /\ failures < MaxFail /\ failures' = failures + 1
        /\ Learn(t, m, "LOCKED")
  /\ UNCHANGED <<clob, expired, row, lock, fresh, syncing, crossed>>

(* The end of a job: the lock of its process is released if it is taken, and *)
(* the syncing key deleted, whoever has taken the one and set the other.     *)
Release(t) ==
  /\ lock' = [p \in Procs |-> IF p \in job[t].proc THEN {} ELSE lock[p]]
  /\ syncing' = IF job[t].gate THEN syncing \ {Cache(p) : p \in job[t].proc} ELSE syncing

Saved(put) ==
  [m \in Markets |-> IF \E x \in put : x[1] = m
                       THEN (CHOOSE x \in put : x[1] = m)[2] ELSE row[m]]

(* Jobs other than t that may still write market m with what they know now.  *)
Writing(t, m) ==
  \E s \in Threads \ {t} :
    \/ \E x \in job[s].seen \cup job[s].put : x[1] = m
    \/ m \in job[s].todo

Crossed(t, put) ==
  crossed \cup {m \in Markets : <<m, "RESOLVED">> \in put /\ Writing(t, m)}

Commit(t) ==
  /\ job[t].pc = "refetch" /\ job[t].todo = {}
  /\ row' = Saved(job[t].put)
  /\ crossed' = Crossed(t, job[t].put)
  /\ fresh' = IF job[t].gate THEN fresh \cup {Cache(p) : p \in job[t].proc} ELSE fresh
  /\ Release(t) /\ job' = [job EXCEPT ![t] = Idle]
  /\ UNCHANGED <<clob, expired, failures>>

(* DreamDEX or the database fails: the transaction is rolled back.           *)
Fail(t) ==
  /\ job[t].pc \in {"list", "write", "refetch", "save"} /\ failures < MaxFail
  /\ failures' = failures + 1
  /\ Release(t) /\ job' = [job EXCEPT ![t] = Idle]
  /\ UNCHANGED <<clob, expired, row, fresh, crossed>>

(* Two syncs each wait for a row of the other: the database aborts one, and  *)
(* what is left of its transaction with it.                                  *)
Wants(t) == job[t].todo \cup Listed(t)

Deadlocked(t) ==
  \E s \in Threads \ {t} : Wants(t) \cap Holds(s) # {} /\ Wants(s) \cap Holds(t) # {}

BreakDeadlock(t) ==
  /\ Deadlocked(t)
  /\ Release(t) /\ job' = [job EXCEPT ![t] = Idle]
  /\ UNCHANGED <<clob, expired, row, fresh, failures, crossed>>

-----------------------------------------------------------------------------
(* refresh_event_from_dreamdex: the market page for an old row, the          *)
(* portfolio for each traded market that is not settled.                     *)
(* Mutant: only what the index still shows as live is asked for.             *)
LiveOnly(m) == row[m] = "TRADING"

Fetchable(m) == row[m] # "NONE"

FetchOne(t, m) ==
  /\ job[t] = Idle /\ Fetchable(m)
  /\ job' = [job EXCEPT ![t] = Begun("save", {}, FALSE, {<<m, clob[m]>>})]
  /\ UNCHANGED <<clob, expired, row, lock, fresh, syncing, failures, crossed>>

SaveOne(t, m) ==
  /\ job[t].pc = "save" /\ Listed(t) = {m} /\ Free(m, t)
  /\ LET put == {<<x[1], Status(x[2], x[1])>> : x \in job[t].seen} IN
     row' = Saved(put) /\ crossed' = Crossed(t, put)
  /\ job' = [job EXCEPT ![t] = Idle]
  /\ UNCHANGED <<clob, expired, lock, fresh, syncing, failures>>

(* The keys run out; a process dies with its threads, its lock and, unless   *)
(* the cache is shared, its keys.                                            *)
LoseFresh(c) ==
  /\ c \in fresh /\ fresh' = fresh \ {c}
  /\ UNCHANGED <<clob, expired, row, lock, syncing, job, failures, crossed>>

LoseSyncing(c) ==
  /\ c \in syncing /\ syncing' = syncing \ {c}
  /\ UNCHANGED <<clob, expired, row, lock, fresh, job, failures, crossed>>

Die(p) ==
  /\ failures < MaxFail /\ failures' = failures + 1
  /\ job' = [t \in Threads |-> IF job[t].proc = {p} THEN Idle ELSE job[t]]
  /\ lock' = [lock EXCEPT ![p] = {}]
  /\ fresh' = IF Shared THEN fresh ELSE fresh \ {{p}}
  /\ syncing' = IF Shared THEN syncing ELSE syncing \ {{p}}
  /\ UNCHANGED <<clob, expired, row, crossed>>

-----------------------------------------------------------------------------
View(t) == \E p \in Procs : Kick(t, p) \/ FirstLoad(t, p)
WaitOver(t) == \E p \in Procs : GiveUp(t, p) \/ Acquire(t, p)
SyncStep(t) ==
  \/ List(t) \/ Write(t) \/ (\E m \in Markets : Refetch(t, m)) \/ Commit(t)
  \/ BreakDeadlock(t)

Next ==
  \/ \E m \in Markets : PassExpiry(m) \/ Progress(m)
  \/ \E t \in Web : View(t) \/ WaitOver(t)
  \/ \E t \in Workers : Task(t)
  \/ \E t \in Threads : SyncStep(t) \/ Fail(t)
  \/ \E t \in Pages, m \in Markets : FetchOne(t, m) \/ SaveOne(t, m)
  \/ \E c \in Caches : LoseFresh(c) \/ LoseSyncing(c)
  \/ \E p \in Procs : Die(p)

Spec == Init /\ [][Next]_vars

(* A page that shows a market is opened again and again: that its fetch may  *)
(* fail does not make it fail every time.  Threads that run go on.           *)
Fairness ==
  /\ \A t \in Pages, m \in Markets : SF_vars(FetchOne(t, m)) /\ SF_vars(SaveOne(t, m))
  /\ \A t \in Pages \cap Web : WF_vars(WaitOver(t))
  /\ \A t \in Threads : SF_vars(SyncStep(t))

FairSpec == Spec /\ Fairness

-----------------------------------------------------------------------------
(* The lock does its work however views, timeouts, failures and expired keys *)
(* cross: a thread that syncs for a web process holds that process's lock    *)
(* alone, so a process never runs two syncs and never releases the lock of   *)
(* another thread.                                                           *)
OneSyncPerProcess ==
  \A t \in Web : job[t].pc \in {"list", "write", "refetch"} =>
    \A p \in job[t].proc : lock[p] = {t}

(* A market the index has as settled stays settled, unless another job that  *)
(* knew less of it was at work when it was settled.                          *)
KeepsSettled ==
  \A m \in Markets \ crossed : row[m] = "RESOLVED" => row'[m] = "RESOLVED"

SettledStays == [][KeepsSettled]_vars

(* A market that is looked at again and again is settled in the index once   *)
(* it is settled on DreamDEX, also when a sync has locked its row, which no  *)
(* sync asks for again.                                                      *)
ViewedMarketsSettle ==
  \A m \in Markets : (clob[m] = "Decided" /\ row[m] # "NONE") ~> row[m] = "RESOLVED"
=============================================================================
