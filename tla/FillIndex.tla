------------------------------ MODULE FillIndex ------------------------------
(***************************************************************************)
(* DreamDEX fills become trader profiles and TraderTrade rows, and the rows *)
(* are handed to the copy pipeline (CopyPipeline).  The poll loop, Celery   *)
(* tasks, the first view of the traders page and, behind a lock and two     *)
(* cache keys of its process, a background thread all run the same sync.    *)
(* external_trade_id is not unique in the database: a sync inserts the      *)
(* fills whose id it has not read, in one transaction.                      *)
(***************************************************************************)
EXTENDS Naturals, FiniteSets

CONSTANTS
  Fills,      \* one side of a fill: the fill's id and one of its two wallets
  Traders, TraderOf,
  Web, Workers,  \* threads of page views and the syncs they start; the poll
                 \* loop and Celery tasks
  MaxFail     \* bound: failures of DreamDEX, the database or a process

ASSUME FillConstants ==
  IsFiniteSet(Fills) /\ TraderOf \in [Fills -> Traders] /\ MaxFail \in Nat

VARIABLES
  made,       \* DreamDEX: fills its indexer serves
  reach,      \* fills a sync asks for: on the 80 most traded of the markets the
              \* index has as live (MarketIndex), the newest 200 of each
  recent,     \* fills of the last 45 minutes
  followed,   \* traders with an ACTIVE relationship
  rows,       \* TraderTrade rows of a fill
  total,      \* TraderProfile.total_trades
  evaluated,  \* history: rows handed to detect_and_process_copy
  gate,       \* the threads that hold _trader_sync_lock
  keys,       \* the cache keys that are set: "fresh", "syncing"
  sync,       \* what each thread does
  failures,
  overlapped  \* history: fills two syncs were about to insert

vars == <<made, reach, recent, followed, rows, total, evaluated, gate, keys, sync,
          failures, overlapped>>
dreamdex == <<made, reach, recent, followed>>

Threads == Web \cup Workers
Rows == {x \in Fills \X (1..Cardinality(Threads)) : x[2] <= rows[x[1]]}
Idle == [pc |-> "idle", behind |-> FALSE, seen |-> {}, new |-> {}, todo |-> {}]

TypeOK ==
  /\ made \subseteq Fills /\ reach \subseteq Fills /\ recent \subseteq Fills
  /\ followed \subseteq Traders
  /\ rows \in [Fills -> 0..Cardinality(Threads)]
  /\ total \in [Traders -> 0..Cardinality(Fills)]
  /\ evaluated \subseteq Rows
  /\ gate \subseteq Web /\ keys \subseteq {"fresh", "syncing"}
  /\ sync \in [Threads ->
       [pc: {"idle", "fetch", "check", "write", "copy"}, behind: BOOLEAN,
        seen: SUBSET Fills, new: SUBSET Fills, todo: SUBSET Rows]]
  /\ failures \in Nat /\ overlapped \subseteq Fills

Init ==
  /\ made = {} /\ reach = Fills /\ recent = Fills /\ followed = {}
  /\ rows = [f \in Fills |-> 0] /\ total = [w \in Traders |-> 0]
  /\ evaluated = {} /\ gate = {} /\ keys = {}
  /\ sync = [t \in Threads |-> Idle] /\ failures = 0 /\ overlapped = {}

(* Traders trade, time passes; the user follows and stops.                   *)
Trade(f) ==
  /\ f \notin made /\ made' = made \cup {f}
  /\ UNCHANGED <<reach, recent, followed, rows, total, evaluated, gate, keys, sync,
                 failures, overlapped>>

Age(f) ==
  /\ f \in recent /\ recent' = recent \ {f}
  /\ UNCHANGED <<made, reach, followed, rows, total, evaluated, gate, keys, sync,
                 failures, overlapped>>

(* A market closes, or others overtake it; it may come back.                 *)
Rank(f) ==
  /\ \/ f \in reach /\ reach' = reach \ {f}
     \/ f \notin reach /\ reach' = reach \cup {f}
  /\ UNCHANGED <<made, recent, followed, rows, total, evaluated, gate, keys, sync,
                 failures, overlapped>>

Follow(w) ==
  /\ \/ w \notin followed /\ followed' = followed \cup {w}
     \/ w \in followed /\ followed' = followed \ {w}
  /\ UNCHANGED <<made, reach, recent, rows, total, evaluated, gate, keys, sync,
                 failures, overlapped>>

-----------------------------------------------------------------------------
HasTraders == \E w \in Traders : total[w] > 0

(* A view with traders to show starts the background sync, unless the keys   *)
(* or the lock say that it is done or under way.                             *)
Kick(t) ==
  /\ sync[t] = Idle /\ HasTraders
  /\ "fresh" \notin keys /\ gate = {} /\ "syncing" \notin keys
  /\ gate' = {t} /\ keys' = keys \cup {"syncing"}
  /\ sync' = [sync EXCEPT ![t] = [Idle EXCEPT !.pc = "fetch", !.behind = TRUE]]
  /\ UNCHANGED <<dreamdex, rows, total, evaluated, failures, overlapped>>

(* The first load, the poll loop, a task: without the lock.                  *)
Begin(t) ==
  /\ sync[t] = Idle /\ (t \in Web => ~ HasTraders)
  /\ sync' = [sync EXCEPT ![t] = [Idle EXCEPT !.pc = "fetch"]]
  /\ UNCHANGED <<dreamdex, rows, total, evaluated, gate, keys, failures, overlapped>>

(* The fills in reach; one market that fails is passed over.                 *)
Fetch(t) ==
  /\ sync[t].pc = "fetch"
  /\ \/ /\ sync' = [sync EXCEPT ![t].pc = "check", ![t].seen = made \cap reach]
        /\ UNCHANGED failures
     \/ /\ failures < MaxFail /\ failures' = failures + 1
        /\ \E f \in made \cap reach :
             sync' = [sync EXCEPT ![t].pc = "check", ![t].seen = (made \cap reach) \ {f}]
  /\ UNCHANGED <<dreamdex, rows, total, evaluated, gate, keys, overlapped>>

(* Mutant: the ids in the database are not looked up.                        *)
AllOf(seen) == seen

NotIndexed(seen) == {f \in seen : rows[f] = 0}

(* The transaction opens: which of these ids are there?                      *)
Check(t) ==
  LET new == NotIndexed(sync[t].seen) IN
  /\ sync[t].pc = "check"
  /\ sync' = [sync EXCEPT ![t].pc = "write", ![t].new = new]
  /\ overlapped' = overlapped \cup {f \in new : \E s \in Threads \ {t} : f \in sync[s].new}
  /\ UNCHANGED <<dreamdex, rows, total, evaluated, gate, keys, failures>>

(* Mutant: the fills of this sync are added to those of the ones before.     *)
SummedUp(seen) ==
  [w \in Traders |-> total[w] + Cardinality({f \in seen : TraderOf[f] = w})]

(* The statistics of the wallets in this sync, and only of it, replace those *)
(* in the profile.                                                           *)
Statistics(seen) ==
  [w \in Traders |-> LET mine == {f \in seen : TraderOf[f] = w} IN
     IF mine = {} THEN total[w] ELSE Cardinality(mine)]

(* Mutant: only what this sync has inserted.                                 *)
CreatedOnly(seen, new) == {x \in Rows' : x[1] \in new \cap recent}

(* The rows to copy: all rows of the ids just inserted, and the recent ones  *)
(* of followed traders, as long as the sync saw any fill.                    *)
ToCopy(seen, new) ==
  {x \in Rows' : /\ x[1] \in recent /\ seen # {}
                 /\ x[1] \in new \/ TraderOf[x[1]] \in followed}

Write(t) ==
  LET s == sync[t] IN
  /\ s.pc = "write"
  /\ rows' = [f \in Fills |-> rows[f] + (IF f \in s.new THEN 1 ELSE 0)]
  /\ total' = Statistics(s.seen)
  /\ sync' = [sync EXCEPT ![t] = [Idle EXCEPT !.pc = "copy", !.behind = s.behind,
                                              !.todo = ToCopy(s.seen, s.new)]]
  /\ UNCHANGED <<dreamdex, evaluated, gate, keys, failures, overlapped>>

(* detect_and_process_copy of one row; that it fails stops nothing.          *)
Copy(t) ==
  /\ sync[t].pc = "copy"
  /\ \E x \in sync[t].todo :
       /\ evaluated' = evaluated \cup {x}
       /\ sync' = [sync EXCEPT ![t].todo = @ \ {x}]
  /\ UNCHANGED <<dreamdex, rows, total, gate, keys, failures, overlapped>>

Leave(t, set) ==
  /\ sync' = [sync EXCEPT ![t] = Idle]
  /\ gate' = gate \ {t}
  /\ keys' = (IF sync[t].behind THEN keys \ {"syncing"} ELSE keys) \cup set

(* The views mark the traders fresh; the loop and the tasks do not.          *)
Finish(t) ==
  /\ sync[t].pc = "copy" /\ sync[t].todo = {}
  /\ Leave(t, IF t \in Web THEN {"fresh"} ELSE {})
  /\ UNCHANGED <<dreamdex, rows, total, evaluated, failures, overlapped>>

(* Any step may fail; the transaction is rolled back, or the copies that are *)
(* left are lost with their process.                                         *)
Fail(t) ==
  /\ sync[t] # Idle /\ failures < MaxFail /\ failures' = failures + 1
  /\ Leave(t, {})
  /\ UNCHANGED <<dreamdex, rows, total, evaluated, overlapped>>

Lapse(k) ==
  /\ k \in keys /\ keys' = keys \ {k}
  /\ UNCHANGED <<dreamdex, rows, total, evaluated, gate, sync, failures, overlapped>>

(* workers.copy_monitor: every row there is, however old.                    *)
ProcessNewTraderTrades(t) ==
  /\ sync[t] = Idle
  /\ sync' = [sync EXCEPT ![t] = [Idle EXCEPT !.pc = "copy", !.todo = Rows]]
  /\ UNCHANGED <<dreamdex, rows, total, evaluated, gate, keys, failures, overlapped>>

Begins(t) == Begin(t) \/ (t \in Web /\ Kick(t))
SyncStep(t) == Fetch(t) \/ Check(t) \/ Write(t) \/ Copy(t) \/ Finish(t)

Next ==
  \/ \E f \in Fills : Trade(f) \/ Age(f) \/ Rank(f)
  \/ \E w \in Traders : Follow(w)
  \/ \E t \in Threads : Begins(t) \/ SyncStep(t) \/ Fail(t)
  \/ \E k \in keys : Lapse(k)
  \/ \E t \in Workers : ProcessNewTraderTrades(t)

Spec == Init /\ [][Next]_vars

(* The poll loop never ends, a thread that syncs goes on.                    *)
Fairness ==
  /\ \A t \in Workers : SF_vars(Begin(t))
  /\ \A t \in Threads : WF_vars(SyncStep(t))

FairSpec == Spec /\ Fairness

-----------------------------------------------------------------------------
(* A fill is indexed once, and so copied once (CopyPipeline's constraint is  *)
(* per row), unless two syncs read the ids before either had inserted it.    *)
IndexedOnce == \A f \in Fills : rows[f] > 1 => f \in overlapped

(* A profile never counts more trades than there are fills indexed for it,   *)
(* whichever of several syncs, with however old an answer, saved it last.    *)
CountedAreIndexed ==
  \A w \in Traders :
    total[w] <= Cardinality({f \in Fills : TraderOf[f] = w /\ rows[f] > 0})

(* Every fill of a followed trader gets its chance to be copied while it is  *)
(* recent and in the syncs' reach: also when the sync that inserted it       *)
(* failed before the copy, and when the trader is followed only after it.    *)
FollowedAreEvaluated ==
  \A f \in Fills :
    f \in made /\ TraderOf[f] \in followed
      ~> \/ f \notin recent \cap reach \/ TraderOf[f] \notin followed
         \/ \E x \in evaluated : x[1] = f
=============================================================================
