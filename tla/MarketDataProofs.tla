-------------------------- MODULE MarketDataProofs --------------------------
(***************************************************************************)
(* Proofs about what the services know of DreamDEX and its traders, for any *)
(* markets, processes, threads, runs, traders, permissions and limits: the  *)
(* market index (MarketIndex), the AI answers (Assistant), the event radar  *)
(* (Radar), the rules about a copy (CopyRules) and who is followed           *)
(* (FollowRules).                                                            *)
(***************************************************************************)
EXTENDS MarketIndex, Assistant, Radar, CopyRules, FollowRules, TLAPS

-----------------------------------------------------------------------------
(***************************************************************************)
(* The market index (MarketIndex).                                          *)
(***************************************************************************)
Pc == {"idle", "wait", "list", "write", "refetch", "save"}
Job == [pc: Pc, proc: SUBSET Procs, gate: BOOLEAN, seen: SUBSET (Markets \X Clob),
        put: SUBSET (Markets \X Statuses), todo: SUBSET Markets]

(* A job that belongs to a process is a view's, and one that still waits for *)
(* the lock has nothing to write: it is never chosen to break a deadlock,    *)
(* which would release a lock it does not have.                              *)
JobsOfProcesses ==
  \A t \in Threads :
    /\ job[t].proc # {} => t \in Web /\ job[t].pc \in {"wait", "list", "write", "refetch"}
    /\ \A p, q \in job[t].proc : p = q
    /\ job[t].pc = "wait" => job[t].seen = {} /\ job[t].todo = {}

LockInv == JobsOfProcesses /\ OneSyncPerProcess

(* Decided on DreamDEX is for ever; a market that was settled while no other *)
(* job was writing it is known to every job as decided, and to no job as one *)
(* that dropped out of the listing.                                          *)
KnownDecided ==
  /\ \A m \in Markets : row[m] = "RESOLVED" => clob[m] = "Decided"
  /\ \A t \in Threads, m \in Markets :
       /\ <<m, "Decided">> \in job[t].seen => clob[m] = "Decided"
       /\ <<m, "RESOLVED">> \in job[t].put => clob[m] = "Decided"

NobodyUnsettles ==
  \A m \in Markets \ crossed : row[m] = "RESOLVED" =>
    \A t \in Threads :
      /\ \A c \in Clob : <<m, c>> \in job[t].seen => c = "Decided"
      /\ \A s \in Statuses : <<m, s>> \in job[t].put => s = "RESOLVED"
      /\ m \notin job[t].todo

SettledInv == TypeOK /\ KnownDecided /\ NobodyUnsettles

-----------------------------------------------------------------------------
LEMMA IdleJob == Idle \in Job
  BY DEF Idle, Begun, Job, Pc

LEMMA TypeOfJobs == TypeOK => job \in [Threads -> Job]
  BY DEF TypeOK, Job, Pc

LEMMA JobChanges ==
  ASSUME TypeOK, NEW t \in Threads, NEW j \in Job, job' = [job EXCEPT ![t] = j]
  PROVE  job' \in [Threads ->
           [pc: {"idle", "wait", "list", "write", "refetch", "save"}, proc: SUBSET Procs,
            gate: BOOLEAN, seen: SUBSET (Markets \X Clob),
            put: SUBSET (Markets \X Statuses), todo: SUBSET Markets]]
  BY DEF TypeOK, Job, Pc

LEMMA StatusType == ASSUME NEW c, NEW m PROVE Status(c, m) \in Statuses
  BY DEF Status, Statuses

LEMMA SavedType ==
  ASSUME row \in [Markets -> Statuses \cup {"NONE"}],
         NEW put, put \subseteq Markets \X Statuses
  PROVE  Saved(put) \in [Markets -> Statuses \cup {"NONE"}]
<1>1. ASSUME NEW m \in Markets, \E x \in put : x[1] = m
      PROVE  (CHOOSE x \in put : x[1] = m)[2] \in Statuses
  <2>1. (CHOOSE x \in put : x[1] = m) \in put
    BY <1>1
  <2> QED
    BY <2>1
<1> QED
  BY <1>1 DEF Saved

(* What a job saves of a market: something it had to put for it, or what the *)
(* row was.                                                                  *)
LEMMA SavedOf ==
  ASSUME NEW put, put \subseteq Markets \X Statuses, NEW m \in Markets
  PROVE  \/ \E s \in Statuses : <<m, s>> \in put /\ Saved(put)[m] = s
         \/ (\A s \in Statuses : <<m, s>> \notin put) /\ Saved(put)[m] = row[m]
<1>1. CASE \E x \in put : x[1] = m
  <2> DEFINE y == CHOOSE x \in put : x[1] = m
  <2>1. y \in put /\ y[1] = m
    BY <1>1
  <2>2. y = <<m, y[2]>> /\ y[2] \in Statuses
    BY <2>1
  <2>3. Saved(put)[m] = y[2]
    BY <1>1 DEF Saved
  <2> QED
    BY <2>1, <2>2, <2>3
<1>2. CASE ~ \E x \in put : x[1] = m
  <2>1. \A s \in Statuses : <<m, s>> \notin put
    BY <1>2
  <2> QED
    BY <1>2, <2>1 DEF Saved
<1> QED
  BY <1>1, <1>2

LEMMA ReleaseType ==
  ASSUME TypeOK, NEW t \in Threads, Release(t)
  PROVE  lock' \in [Procs -> SUBSET Web] /\ syncing' \subseteq SUBSET Procs
  BY DEF TypeOK, Release, Cache

-----------------------------------------------------------------------------
LEMMA ViewTypes ==
  ASSUME TypeOK, NEW t \in Web, View(t) \/ WaitOver(t)
  PROVE  TypeOK'
<1> USE IdleJob DEF TypeOK, Job, Pc, Threads
<1>1. ASSUME NEW p \in Procs, Kick(t, p) PROVE TypeOK'
  <2>1. Begun("list", {p}, TRUE, {}) \in Job
    BY DEF Begun
  <2>2. job' = [job EXCEPT ![t] = Begun("list", {p}, TRUE, {})]
    BY <1>1 DEF Kick
  <2>3. Cache(p) \in SUBSET Procs
    BY DEF Cache
  <2> QED
    BY <1>1, <2>1, <2>2, <2>3, JobChanges DEF Kick
<1>2. ASSUME NEW p \in Procs, FirstLoad(t, p) PROVE TypeOK'
  <2>1. Begun("wait", {p}, TRUE, {}) \in Job
    BY DEF Begun
  <2> QED
    BY <1>2, <2>1, JobChanges DEF FirstLoad
<1>3. ASSUME NEW p \in Procs, GiveUp(t, p) PROVE TypeOK'
  BY <1>3 DEF GiveUp, NotAcquired
<1>4. ASSUME NEW p \in Procs, Acquire(t, p) PROVE TypeOK'
  BY <1>4 DEF Acquire, Cache
<1> QED
  BY <1>1, <1>2, <1>3, <1>4 DEF View, WaitOver

LEMMA SyncTypes ==
  ASSUME TypeOK, NEW t \in Threads, SyncStep(t) \/ Fail(t)
  PROVE  TypeOK'
<1> USE IdleJob DEF TypeOK, Job, Pc
<1>1. CASE List(t)
  <2>1. {<<m, "Trading">> : m \in {n \in Markets : clob[n] = "Trading"}}
          \in SUBSET (Markets \X Clob)
    BY DEF Clob
  <2> QED
    BY <1>1, <2>1 DEF List
<1>2. CASE Write(t)
  <2> DEFINE put == {<<x[1], Status(x[2], x[1])>> : x \in job[t].seen}
  <2>1. put \subseteq Markets \X Statuses /\ Dropped(t) \subseteq Markets
    BY StatusType DEF Dropped
  <2>2. /\ job' = [job EXCEPT ![t] = [job[t] EXCEPT !.pc = "refetch", !.seen = {},
                                       !.todo = Dropped(t), !.put = put]]
        /\ UNCHANGED <<clob, expired, row, lock, fresh, syncing, failures, crossed>>
    BY <1>2 DEF Write
  <2> HIDE DEF put
  <2>3. [job[t] EXCEPT !.pc = "refetch", !.seen = {}, !.todo = Dropped(t), !.put = put]
          \in Job
    BY <2>1
  <2> QED
    BY <2>2, <2>3, JobChanges
<1>3. ASSUME NEW m \in Markets, Refetch(t, m) PROVE TypeOK'
  <2>1. PICK s \in Statuses :
          job' = [job EXCEPT ![t] = [job[t] EXCEPT !.put = job[t].put \cup {<<m, s>>},
                                                   !.todo = job[t].todo \ {m}]]
    <3>1. "LOCKED" \in Statuses /\ Status(clob[m], m) \in Statuses
      BY StatusType DEF Statuses
    <3> QED
      BY <1>3, <3>1 DEF Refetch, Learn
  <2>2. /\ failures' \in Nat
        /\ UNCHANGED <<clob, expired, row, lock, fresh, syncing, crossed>>
    BY <1>3 DEF Refetch
  <2>3. [job[t] EXCEPT !.put = job[t].put \cup {<<m, s>>}, !.todo = job[t].todo \ {m}]
          \in Job
    <3>1. job[t] \in Job
      OBVIOUS
    <3>2. job[t].put \cup {<<m, s>>} \subseteq Markets \X Statuses
      OBVIOUS
    <3> QED
      BY <3>1, <3>2
  <2> QED
    BY <2>1, <2>2, <2>3, JobChanges
<1>4. CASE Commit(t)
  <2>1. row' \in [Markets -> Statuses \cup {"NONE"}]
    BY <1>4, SavedType DEF Commit
  <2>2. lock' \in [Procs -> SUBSET Web] /\ syncing' \subseteq SUBSET Procs
    BY <1>4, ReleaseType DEF Commit
  <2> QED
    BY <1>4, <2>1, <2>2 DEF Commit, Crossed, Cache
<1>5. CASE BreakDeadlock(t)
  <2>1. lock' \in [Procs -> SUBSET Web] /\ syncing' \subseteq SUBSET Procs
    BY <1>5, ReleaseType DEF BreakDeadlock
  <2> QED
    BY <1>5, <2>1 DEF BreakDeadlock
<1>6. CASE Fail(t)
  <2>1. lock' \in [Procs -> SUBSET Web] /\ syncing' \subseteq SUBSET Procs
    BY <1>6, ReleaseType DEF Fail
  <2> QED
    BY <1>6, <2>1 DEF Fail
<1> QED
  BY <1>1, <1>2, <1>3, <1>4, <1>5, <1>6 DEF SyncStep

LEMMA TypeNext == TypeOK /\ [Next]_vars => TypeOK'
<1> SUFFICES ASSUME TypeOK, [Next]_vars PROVE TypeOK'
  OBVIOUS
<1>1. ASSUME NEW m \in Markets, PassExpiry(m) PROVE TypeOK'
  BY <1>1 DEF PassExpiry, TypeOK
<1>2. ASSUME NEW m \in Markets, Progress(m) PROVE TypeOK'
  BY <1>2 DEF Progress, TypeOK, Clob
<1>3. ASSUME NEW t \in Workers, Task(t) PROVE TypeOK'
  <2>1. Begun("list", {}, FALSE, {}) \in Job
    BY DEF Begun, Job, Pc
  <2> QED
    BY <1>3, <2>1, JobChanges DEF Task, TypeOK, Threads
<1>4. ASSUME NEW t \in Pages, NEW m \in Markets, FetchOne(t, m) PROVE TypeOK'
  <2>1. Begun("save", {}, FALSE, {<<m, clob[m]>>}) \in Job
    BY DEF Begun, Job, Pc, TypeOK
  <2> QED
    BY <1>4, <2>1, JobChanges DEF FetchOne, TypeOK, Threads
<1>5. ASSUME NEW t \in Pages, NEW m \in Markets, SaveOne(t, m) PROVE TypeOK'
  <2> DEFINE put == {<<x[1], Status(x[2], x[1])>> : x \in job[t].seen}
  <2>1. put \subseteq Markets \X Statuses
    BY StatusType DEF TypeOK, Threads
  <2>2. /\ row' = Saved(put) /\ crossed' = Crossed(t, put)
        /\ job' = [job EXCEPT ![t] = Idle]
        /\ UNCHANGED <<clob, expired, lock, fresh, syncing, failures>>
    BY <1>5 DEF SaveOne
  <2> HIDE DEF put
  <2>3. row' \in [Markets -> Statuses \cup {"NONE"}]
    BY <2>1, <2>2, SavedType DEF TypeOK
  <2> QED
    BY <2>2, <2>3, IdleJob DEF Crossed, TypeOK, Job, Pc
<1>6. ASSUME NEW c \in Caches, LoseFresh(c) \/ LoseSyncing(c) PROVE TypeOK'
  BY <1>6 DEF LoseFresh, LoseSyncing, TypeOK
<1>7. ASSUME NEW p \in Procs, Die(p) PROVE TypeOK'
  BY <1>7, IdleJob DEF Die, TypeOK, Job, Pc
<1>8. CASE UNCHANGED vars
  BY <1>8 DEF vars, TypeOK
<1> QED
  BY <1>1, <1>2, <1>3, <1>4, <1>5, <1>6, <1>7, <1>8, ViewTypes, SyncTypes DEF Next

LEMMA TypeInit == Init => TypeOK
  BY IdleJob DEF Init, TypeOK, Job, Pc, Clob, Statuses

(* Type correctness of the market index.                                     *)
THEOREM TypeCorrect == Spec => []TypeOK
  BY TypeInit, TypeNext, PTL DEF Spec

-----------------------------------------------------------------------------
LEMMA LockNext == TypeOK /\ LockInv /\ [Next]_vars => LockInv'
<1> SUFFICES ASSUME TypeOK, LockInv, [Next]_vars PROVE LockInv'
  OBVIOUS
<1> USE DEF LockInv, JobsOfProcesses, OneSyncPerProcess, TypeOK, Threads
<1>1. ASSUME NEW m \in Markets, PassExpiry(m) \/ Progress(m) PROVE LockInv'
  BY <1>1 DEF PassExpiry, Progress
<1>2. ASSUME NEW t \in Web, NEW p \in Procs, Kick(t, p) PROVE LockInv'
  BY <1>2 DEF Kick, Begun
<1>3. ASSUME NEW t \in Web, NEW p \in Procs, FirstLoad(t, p) PROVE LockInv'
  BY <1>3 DEF FirstLoad, Begun
<1>4. ASSUME NEW t \in Web, NEW p \in Procs, GiveUp(t, p) PROVE LockInv'
  BY <1>4 DEF GiveUp, NotAcquired, Begun, Idle
<1>5. ASSUME NEW t \in Web, NEW p \in Procs, Acquire(t, p) PROVE LockInv'
  <2>1. job[t].pc = "wait" /\ job[t].proc = {p} /\ lock[p] = {}
    BY <1>5 DEF Acquire
  <2>2. CASE HasLocalLiveEvents
    BY <1>5, <2>2 DEF Acquire, Begun, Idle
  <2>3. CASE ~ HasLocalLiveEvents
    <3>1. /\ job' = [job EXCEPT ![t].pc = "list"]
          /\ lock' = [lock EXCEPT ![p] = {t}]
      BY <1>5, <2>3 DEF Acquire
    <3>2. JobsOfProcesses'
      BY <2>1, <3>1
    <3>3. ASSUME NEW s \in Web \ {t}, NEW q \in job[s].proc,
                 job[s].pc \in {"list", "write", "refetch"}
          PROVE  q # p
      BY <2>1, <3>3
    <3>4. OneSyncPerProcess'
      BY <2>1, <3>1, <3>3
    <3> QED
      BY <3>2, <3>4
  <2> QED
    BY <2>2, <2>3
<1>6. ASSUME NEW t \in Workers, Task(t) PROVE LockInv'
  BY <1>6 DEF Task, Begun
<1>7. ASSUME NEW t \in Threads, List(t) \/ Write(t) PROVE LockInv'
  <2>1. /\ \A s \in Threads \ {t} : job'[s] = job[s]
        /\ job[t].pc \in {"list", "write"} /\ job'[t].pc \in {"write", "refetch"}
        /\ job'[t].proc = job[t].proc
        /\ UNCHANGED lock
    <3>1. CASE List(t)
      BY <3>1 DEF List
    <3>2. CASE Write(t)
      <4> DEFINE put == {<<x[1], Status(x[2], x[1])>> : x \in job[t].seen}
                 j == [job[t] EXCEPT !.pc = "refetch", !.seen = {},
                                     !.todo = Dropped(t), !.put = put]
      <4>1. job' = [job EXCEPT ![t] = j] /\ UNCHANGED lock /\ job[t].pc = "write"
        BY <3>2 DEF Write
      <4> HIDE DEF put
      <4>2. j.pc = "refetch" /\ j.proc = job[t].proc
        OBVIOUS
      <4> HIDE DEF j
      <4> QED
        BY <4>1, <4>2
    <3> QED
      BY <1>7, <3>1, <3>2
  <2> QED
    BY <2>1
<1>8. ASSUME NEW t \in Threads, NEW m \in Markets, Refetch(t, m) PROVE LockInv'
  <2>1. PICK s : job' = [job EXCEPT ![t] =
                   [job[t] EXCEPT !.put = job[t].put \cup {<<m, s>>},
                                  !.todo = job[t].todo \ {m}]]
    BY <1>8 DEF Refetch, Learn
  <2>2. /\ \A r \in Threads \ {t} : job'[r] = job[r]
        /\ job'[t].pc = job[t].pc /\ job'[t].proc = job[t].proc
        /\ job[t].todo # {} /\ UNCHANGED lock
    BY <1>8, <2>1 DEF Refetch
  <2> QED
    BY <2>2
<1>9. ASSUME NEW t \in Threads, Commit(t) \/ BreakDeadlock(t) \/ Fail(t) PROVE LockInv'
  <2>1. job[t].pc # "wait"
    BY <1>9 DEF Commit, BreakDeadlock, Fail, Deadlocked, Wants, Listed
  <2>2. /\ job' = [job EXCEPT ![t] = Idle]
        /\ lock' = [p \in Procs |-> IF p \in job[t].proc THEN {} ELSE lock[p]]
    BY <1>9 DEF Commit, BreakDeadlock, Fail, Release
  <2>3. ASSUME NEW s \in Threads \ {t}, NEW p \in job[s].proc, p \in job[t].proc,
               job[s].pc \in {"list", "write", "refetch"}
        PROVE  FALSE
    <3>1. lock[p] = {t} /\ lock[p] = {s}
      BY <2>1, <2>3
    <3> QED
      BY <3>1
  <2> QED
    BY <2>2, <2>3 DEF Begun, Idle
<1>10. ASSUME NEW t \in Pages, NEW m \in Markets, FetchOne(t, m) \/ SaveOne(t, m)
       PROVE  LockInv'
  BY <1>10 DEF FetchOne, SaveOne, Begun, Idle
<1>11. ASSUME NEW c \in Caches, LoseFresh(c) \/ LoseSyncing(c) PROVE LockInv'
  BY <1>11 DEF LoseFresh, LoseSyncing
<1>12. ASSUME NEW p \in Procs, Die(p) PROVE LockInv'
  <2>1. /\ \A t \in Threads : job'[t] = IF job[t].proc = {p} THEN Idle ELSE job[t]
        /\ lock' = [lock EXCEPT ![p] = {}]
    BY <1>12 DEF Die
  <2>2. \A t \in Threads : p \in job[t].proc => job[t].proc = {p}
    OBVIOUS
  <2> QED
    BY <2>1, <2>2 DEF Begun, Idle
<1>13. CASE UNCHANGED vars
  BY <1>13 DEF vars
<1> QED
  BY <1>1, <1>2, <1>3, <1>4, <1>5, <1>6, <1>7, <1>8, <1>9, <1>10, <1>11, <1>12, <1>13
     DEF Next, View, WaitOver, SyncStep

(* In no process do two threads sync the index at once, and none releases    *)
(* the lock of another, whatever times out, fails or dies.                   *)
THEOREM LockIsHeld == Spec => []OneSyncPerProcess
<1>1. Init => LockInv
  BY DEF Init, LockInv, JobsOfProcesses, OneSyncPerProcess, Begun, Idle, Threads
<1>2. LockInv => OneSyncPerProcess
  BY DEF LockInv
<1> QED
  BY <1>1, <1>2, LockNext, TypeCorrect, PTL DEF Spec

-----------------------------------------------------------------------------
(* Nothing is unsettled by a step in which jobs learn nothing.               *)
LEMMA LearnsNothing ==
  ASSUME SettledInv, UNCHANGED <<clob, row, crossed>>,
         \A t \in Threads : /\ job'[t].seen \subseteq job[t].seen
                            /\ job'[t].put \subseteq job[t].put
                            /\ job'[t].todo \subseteq job[t].todo
  PROVE  KnownDecided' /\ NobodyUnsettles'
<1>1. KnownDecided'
  BY DEF SettledInv, KnownDecided
<1>2. NobodyUnsettles'
  BY DEF SettledInv, NobodyUnsettles
<1> QED
  BY <1>1, <1>2

(* A job t that ends by writing put.                                         *)
LEMMA EndsWith ==
  ASSUME SettledInv, NEW t \in Threads, NEW put, put \subseteq Markets \X Statuses,
         \A m \in Markets : <<m, "RESOLVED">> \in put => clob[m] = "Decided",
         \A m \in Markets \ crossed : row[m] = "RESOLVED" =>
           \A s \in Statuses : <<m, s>> \in put => s = "RESOLVED",
         row' = Saved(put), crossed' = Crossed(t, put),
         job' = [job EXCEPT ![t] = Idle], UNCHANGED clob
  PROVE  KnownDecided' /\ NobodyUnsettles' /\ KeepsSettled
<1>0. \A m \in Markets :
        \/ \E s \in Statuses : <<m, s>> \in put /\ row'[m] = s
        \/ (\A s \in Statuses : <<m, s>> \notin put) /\ row'[m] = row[m]
  <2>1. ASSUME NEW m \in Markets
        PROVE  \/ \E s \in Statuses : <<m, s>> \in put /\ Saved(put)[m] = s
               \/ (\A s \in Statuses : <<m, s>> \notin put) /\ Saved(put)[m] = row[m]
    BY SavedOf, Zenon
  <2> QED
    BY <2>1, Zenon
<1> USE DEF SettledInv, TypeOK
<1>1. KeepsSettled
  BY <1>0 DEF KeepsSettled
<1>2. ASSUME NEW m \in Markets, row'[m] = "RESOLVED"
      PROVE  row[m] = "RESOLVED" \/ <<m, "RESOLVED">> \in put
  BY <1>0, <1>2
<1>3. \A s \in Threads : job'[s] = IF s = t THEN Idle ELSE job[s]
  OBVIOUS
<1>4. Idle.seen = {} /\ Idle.put = {} /\ Idle.todo = {}
  BY DEF Idle, Begun
<1>5. KnownDecided'
  BY <1>2, <1>3, <1>4 DEF KnownDecided
<1>6. ASSUME NEW m \in Markets \ crossed', <<m, "RESOLVED">> \in put, NEW s \in Threads \ {t}
      PROVE  /\ \A c \in Clob : <<m, c>> \notin job[s].seen
             /\ \A c \in Statuses : <<m, c>> \notin job[s].put
             /\ m \notin job[s].todo
  <2>1. ~ Writing(t, m)
    BY <1>6 DEF Crossed
  <2>2. \A x \in job[s].seen \cup job[s].put : x[1] # m
    BY <2>1 DEF Writing
  <2>3. \A c : <<m, c>>[1] = m
    OBVIOUS
  <2> QED
    BY <2>1, <2>2, <2>3 DEF Writing
<1>7. crossed \subseteq crossed'
  BY DEF Crossed
<1>8. NobodyUnsettles'
  BY <1>2, <1>3, <1>4, <1>6, <1>7 DEF NobodyUnsettles
<1> QED
  BY <1>1, <1>5, <1>8

LEMMA StatusOf ==
  \A c, m : Status(c, m) = "RESOLVED" <=> c = "Decided"
  BY DEF Status

LEMMA SyncSettles ==
  ASSUME SettledInv, NEW t \in Threads, SyncStep(t) \/ Fail(t)
  PROVE  KnownDecided' /\ NobodyUnsettles' /\ KeepsSettled
<1> USE DEF SettledInv, TypeOK
<1>1. CASE List(t)
  <2> DEFINE seen == {<<m, "Trading">> : m \in {n \in Markets : clob[n] = "Trading"}}
  <2>1. /\ job' = [job EXCEPT ![t].pc = "write", ![t].seen = seen]
        /\ UNCHANGED <<clob, row, crossed>>
    BY <1>1 DEF List
  <2>2. \A m \in Markets, c \in Clob :
          <<m, c>> \in seen => c = "Trading" /\ clob[m] = "Trading"
    OBVIOUS
  <2> HIDE DEF seen
  <2>3. /\ job'[t].seen = seen /\ job'[t].put = job[t].put /\ job'[t].todo = job[t].todo
        /\ \A s \in Threads \ {t} : job'[s] = job[s]
    BY <2>1
  <2>4. KnownDecided'
    BY <2>1, <2>2, <2>3 DEF KnownDecided, Clob
  <2>5. NobodyUnsettles'
    BY <2>1, <2>2, <2>3 DEF NobodyUnsettles, KnownDecided
  <2> QED
    BY <2>1, <2>4, <2>5 DEF KeepsSettled
<1>2. CASE Write(t)
  <2> DEFINE put == {<<x[1], Status(x[2], x[1])>> : x \in job[t].seen}
  <2>1. /\ job' = [job EXCEPT ![t] = [job[t] EXCEPT !.pc = "refetch", !.seen = {},
                                       !.todo = Dropped(t), !.put = put]]
        /\ UNCHANGED <<clob, row, crossed>>
    BY <1>2 DEF Write
  <2>2. ASSUME NEW m \in Markets, NEW s \in Statuses, <<m, s>> \in put
        PROVE  \E c \in Clob : <<m, c>> \in job[t].seen /\ (s = "RESOLVED" <=> c = "Decided")
    <3>1. PICK x \in job[t].seen : m = x[1] /\ s = Status(x[2], x[1])
      BY <2>2
    <3>2. x = <<m, x[2]>> /\ x[2] \in Clob
      BY <3>1
    <3> QED
      BY <3>1, <3>2, StatusOf
  <2>3. \A m \in Dropped(t) : row[m] = "TRADING"
    BY DEF Dropped
  <2> HIDE DEF put
  <2>4. /\ job'[t].seen = {} /\ job'[t].put = put /\ job'[t].todo = Dropped(t)
        /\ \A s \in Threads \ {t} : job'[s] = job[s]
    BY <2>1
  <2>5. KnownDecided'
    <3>1. \A m \in Markets : <<m, "RESOLVED">> \in put => clob[m] = "Decided"
      BY <2>2 DEF KnownDecided, Statuses
    <3> QED
      BY <2>1, <2>4, <3>1 DEF KnownDecided
  <2>6. NobodyUnsettles'
    <3>1. ASSUME NEW m \in Markets \ crossed, row[m] = "RESOLVED", NEW s \in Statuses,
                 <<m, s>> \in put
          PROVE  s = "RESOLVED"
      BY <2>2, <3>1 DEF NobodyUnsettles
    <3> QED
      BY <2>1, <2>3, <2>4, <3>1 DEF NobodyUnsettles
  <2> QED
    BY <2>1, <2>5, <2>6 DEF KeepsSettled
<1>3. ASSUME NEW m \in Markets, Refetch(t, m)
      PROVE  KnownDecided' /\ NobodyUnsettles' /\ KeepsSettled
  <2>1. PICK s \in Statuses :
          /\ s = Status(clob[m], m) \/ s = "LOCKED"
          /\ job' = [job EXCEPT ![t] = [job[t] EXCEPT !.put = job[t].put \cup {<<m, s>>},
                                                     !.todo = job[t].todo \ {m}]]
    <3>1. "LOCKED" \in Statuses /\ Status(clob[m], m) \in Statuses
      BY StatusType DEF Statuses
    <3> QED
      BY <1>3, <3>1 DEF Refetch, Learn
  <2>2. UNCHANGED <<clob, row, crossed>> /\ m \in job[t].todo
    BY <1>3 DEF Refetch
  <2>3. /\ job'[t].seen = job[t].seen /\ job'[t].put = job[t].put \cup {<<m, s>>}
        /\ job'[t].todo = job[t].todo \ {m}
        /\ \A r \in Threads \ {t} : job'[r] = job[r]
    BY <2>1
  <2>4. KnownDecided'
    BY <2>1, <2>2, <2>3, StatusOf DEF KnownDecided
  <2>5. NobodyUnsettles'
    BY <2>2, <2>3 DEF NobodyUnsettles
  <2> QED
    BY <2>2, <2>4, <2>5 DEF KeepsSettled
<1>4. CASE Commit(t)
  <2>1. /\ row' = Saved(job[t].put) /\ crossed' = Crossed(t, job[t].put)
        /\ job' = [job EXCEPT ![t] = Idle] /\ UNCHANGED clob
    BY <1>4 DEF Commit
  <2>2. /\ job[t].put \subseteq Markets \X Statuses
        /\ \A m \in Markets : <<m, "RESOLVED">> \in job[t].put => clob[m] = "Decided"
        /\ \A m \in Markets \ crossed : row[m] = "RESOLVED" =>
             \A s \in Statuses : <<m, s>> \in job[t].put => s = "RESOLVED"
    BY DEF KnownDecided, NobodyUnsettles
  <2> QED
    BY <2>1, <2>2, EndsWith
<1>5. CASE BreakDeadlock(t) \/ Fail(t)
  <2>1. job' = [job EXCEPT ![t] = Idle] /\ UNCHANGED <<clob, row, crossed>>
    BY <1>5 DEF BreakDeadlock, Fail
  <2>2. \A s \in Threads : /\ job'[s].seen \subseteq job[s].seen
                           /\ job'[s].put \subseteq job[s].put
                           /\ job'[s].todo \subseteq job[s].todo
    BY <2>1 DEF Idle, Begun
  <2> QED
    BY <2>1, <2>2, LearnsNothing DEF KeepsSettled
<1> QED
  BY <1>1, <1>2, <1>3, <1>4, <1>5 DEF SyncStep

LEMMA PageSettles ==
  ASSUME SettledInv, NEW t \in Pages, NEW m \in Markets, FetchOne(t, m) \/ SaveOne(t, m)
  PROVE  KnownDecided' /\ NobodyUnsettles' /\ KeepsSettled
<1> USE DEF SettledInv, TypeOK, Threads
<1>1. CASE FetchOne(t, m)
  <2>1. /\ UNCHANGED <<clob, row, crossed>>
        /\ job'[t].seen = {<<m, clob[m]>>} /\ job'[t].put = {} /\ job'[t].todo = {}
        /\ \A s \in Threads \ {t} : job'[s] = job[s]
    BY <1>1 DEF FetchOne, Begun
  <2>2. KnownDecided'
    BY <2>1 DEF KnownDecided
  <2>3. NobodyUnsettles'
    BY <2>1 DEF NobodyUnsettles, KnownDecided
  <2> QED
    BY <2>1, <2>2, <2>3 DEF KeepsSettled
<1>2. CASE SaveOne(t, m)
  <2> DEFINE put == {<<x[1], Status(x[2], x[1])>> : x \in job[t].seen}
  <2>1. /\ row' = Saved(put) /\ crossed' = Crossed(t, put)
        /\ job' = [job EXCEPT ![t] = Idle] /\ UNCHANGED clob
    BY <1>2 DEF SaveOne
  <2>2. put \subseteq Markets \X Statuses
    BY StatusType
  <2>3. ASSUME NEW n \in Markets, NEW s \in Statuses, <<n, s>> \in put
        PROVE  \E c \in Clob : <<n, c>> \in job[t].seen /\ (s = "RESOLVED" <=> c = "Decided")
    <3>1. PICK x \in job[t].seen : n = x[1] /\ s = Status(x[2], x[1])
      BY <2>3
    <3>2. x = <<n, x[2]>> /\ x[2] \in Clob
      BY <3>1
    <3> QED
      BY <3>1, <3>2, StatusOf
  <2> HIDE DEF put
  <2>4. \A n \in Markets : <<n, "RESOLVED">> \in put => clob[n] = "Decided"
    BY <2>3 DEF KnownDecided, Statuses
  <2>5. \A n \in Markets \ crossed : row[n] = "RESOLVED" =>
          \A s \in Statuses : <<n, s>> \in put => s = "RESOLVED"
    BY <2>3 DEF NobodyUnsettles
  <2> QED
    BY <2>1, <2>2, <2>4, <2>5, EndsWith
<1> QED
  BY <1>1, <1>2

LEMMA SettledNext ==
  SettledInv /\ [Next]_vars => KnownDecided' /\ NobodyUnsettles' /\ [KeepsSettled]_vars
<1> SUFFICES ASSUME SettledInv, [Next]_vars
             PROVE  KnownDecided' /\ NobodyUnsettles' /\ KeepsSettled
  OBVIOUS
<1> USE DEF SettledInv, TypeOK
<1>1. ASSUME NEW m \in Markets, PassExpiry(m)
      PROVE  KnownDecided' /\ NobodyUnsettles' /\ KeepsSettled
  BY <1>1, LearnsNothing DEF PassExpiry, KeepsSettled
<1>2. ASSUME NEW m \in Markets, Progress(m)
      PROVE  KnownDecided' /\ NobodyUnsettles' /\ KeepsSettled
  <2>1. /\ \A n \in Markets : clob[n] = "Decided" => clob'[n] = "Decided"
        /\ UNCHANGED <<row, job, crossed>>
    BY <1>2 DEF Progress
  <2> QED
    BY <2>1 DEF KnownDecided, NobodyUnsettles, KeepsSettled
<1>3. ASSUME NEW t \in Web, View(t) \/ WaitOver(t)
      PROVE  KnownDecided' /\ NobodyUnsettles' /\ KeepsSettled
  <2>1. UNCHANGED <<clob, row, crossed>>
    BY <1>3 DEF View, WaitOver, Kick, FirstLoad, GiveUp, Acquire
  <2>2. \E at \in Pc : \E own, gated :
          \/ job' = [job EXCEPT ![t] = Begun(at, own, gated, {})]
          \/ job' = [job EXCEPT ![t].pc = at]
    BY <1>3 DEF View, WaitOver, Kick, FirstLoad, GiveUp, Acquire, Idle, Pc
  <2>3. \A s \in Threads : /\ job'[s].seen \subseteq job[s].seen
                           /\ job'[s].put \subseteq job[s].put
                           /\ job'[s].todo \subseteq job[s].todo
    BY <2>2 DEF Begun
  <2> QED
    BY <2>1, <2>3, LearnsNothing DEF KeepsSettled
<1>4. ASSUME NEW t \in Workers, Task(t)
      PROVE  KnownDecided' /\ NobodyUnsettles' /\ KeepsSettled
  <2>1. /\ UNCHANGED <<clob, row, crossed>>
        /\ \A s \in Threads : /\ job'[s].seen \subseteq job[s].seen
                              /\ job'[s].put \subseteq job[s].put
                              /\ job'[s].todo \subseteq job[s].todo
    BY <1>4 DEF Task, Begun
  <2> QED
    BY <2>1, LearnsNothing DEF KeepsSettled
<1>5. ASSUME NEW c \in Caches, LoseFresh(c) \/ LoseSyncing(c)
      PROVE  KnownDecided' /\ NobodyUnsettles' /\ KeepsSettled
  BY <1>5, LearnsNothing DEF LoseFresh, LoseSyncing, KeepsSettled
<1>6. ASSUME NEW p \in Procs, Die(p)
      PROVE  KnownDecided' /\ NobodyUnsettles' /\ KeepsSettled
  <2>1. /\ UNCHANGED <<clob, row, crossed>>
        /\ \A s \in Threads : /\ job'[s].seen \subseteq job[s].seen
                              /\ job'[s].put \subseteq job[s].put
                              /\ job'[s].todo \subseteq job[s].todo
    BY <1>6 DEF Die, Idle, Begun
  <2> QED
    BY <2>1, LearnsNothing DEF KeepsSettled
<1>7. CASE UNCHANGED vars
  BY <1>7, LearnsNothing DEF vars, KeepsSettled
<1> QED
  BY <1>1, <1>2, <1>3, <1>4, <1>5, <1>6, <1>7, SyncSettles, PageSettles DEF Next

(* A market the index has as settled is unsettled only by a job that was     *)
(* writing it when it was settled, whichever syncs, pages, failures and      *)
(* deaths come in between.                                                   *)
THEOREM SettledForGood == Spec => SettledStays
<1>1. Init => KnownDecided /\ NobodyUnsettles
  BY DEF Init, KnownDecided, NobodyUnsettles, Idle, Begun
<1>2. TypeOK /\ KnownDecided /\ NobodyUnsettles /\ [Next]_vars =>
        KnownDecided' /\ NobodyUnsettles' /\ [KeepsSettled]_vars
  BY SettledNext DEF SettledInv
<1> QED
  BY <1>1, <1>2, TypeCorrect, PTL DEF Spec, SettledStays

-----------------------------------------------------------------------------
(* The AI answers (Assistant).  A user nobody crowds sleeps in one thread at *)
(* most, and that one does not wake before the limit has passed since the    *)
(* last call.                                                                *)
Asleep(who) == {t \in Askers : thread[t].pc = "asleep" /\ thread[t].who = who}

AskerShape ==
  /\ clock \in Nat /\ stamps \in [Who -> Nat]
  /\ DOMAIN thread = Askers
  /\ \A t \in Askers : /\ DOMAIN thread[t] = DOMAIN NoQuestion
                       /\ thread[t].who \in Who /\ thread[t].wake \in Nat

OneAsleep ==
  \A who \in Who \ crowded : \A s, t \in Asleep(who) : s = t
WakesLate ==
  \A who \in Who \ crowded : \A t \in Asleep(who) :
    stamps[who] > 0 => thread[t].wake >= stamps[who] + Limit

AskerInv == AskerShape /\ OneAsleep /\ WakesLate /\ CallsSpaced

-----------------------------------------------------------------------------
(* A step of one thread that neither sleeps nor stamps.                      *)
LEMMA AwakeKeeps ==
  ASSUME AskerInv, NEW t \in Askers, NEW q, thread' = [thread EXCEPT ![t] = q],
         DOMAIN q = DOMAIN NoQuestion, q.who \in Who, q.wake \in Nat, q.pc # "asleep",
         UNCHANGED <<clock, stamps, tooSoon, crowded>>
  PROVE  AskerInv'
<1>1. thread'[t] = q /\ \A s \in Askers \ {t} : thread'[s] = thread[s]
  BY DEF AskerInv, AskerShape
<1>2. AskerShape'
  BY <1>1 DEF AskerInv, AskerShape
<1>3. \A who : Asleep(who)' \subseteq Asleep(who)
  BY <1>1 DEF Asleep
<1>4. \A who : \A s \in Asleep(who)' : thread'[s] = thread[s]
  BY <1>1 DEF Asleep
<1>5. OneAsleep' /\ WakesLate' /\ CallsSpaced'
  BY <1>3, <1>4 DEF AskerInv, OneAsleep, WakesLate, CallsSpaced
<1> QED
  BY <1>2, <1>5 DEF AskerInv

LEMMA NoQuestionShape ==
  /\ NoQuestion.who \in Who /\ NoQuestion.wake \in Nat /\ NoQuestion.pc = "idle"
  BY DEF NoQuestion, Who

LEMMA GotoAwake ==
  ASSUME AskerInv, NEW t \in Askers, NEW pc, pc # "asleep", Goto(t, pc),
         UNCHANGED <<clock, stamps, tooSoon, crowded>>
  PROVE  AskerInv'
<1> DEFINE q == [thread[t] EXCEPT !.pc = pc]
<1>1. /\ DOMAIN q = DOMAIN NoQuestion /\ q.who \in Who /\ q.wake \in Nat /\ q.pc = pc
  BY DEF AskerInv, AskerShape, NoQuestion
<1>2. thread' = [thread EXCEPT ![t] = q]
  BY DEF Goto
<1> QED
  BY <1>1, <1>2, AwakeKeeps

LEMMA ShowAwake ==
  ASSUME AskerInv, NEW t \in Askers, NEW answer, Show(t, answer),
         UNCHANGED <<clock, stamps, tooSoon, crowded>>
  PROVE  AskerInv'
<1> DEFINE q == [NoQuestion EXCEPT !.pc = "shown", !.shown = answer]
<1>1. /\ DOMAIN q = DOMAIN NoQuestion /\ q.who \in Who /\ q.wake \in Nat /\ q.pc = "shown"
  BY NoQuestionShape DEF NoQuestion
<1>2. thread' = [thread EXCEPT ![t] = q]
  BY DEF Show
<1> QED
  BY <1>1, <1>2, AwakeKeeps

(* What else a thread may come to be, awake.                                 *)
LEMMA OtherAwake ==
  ASSUME AskerInv, NEW t \in Askers,
         \/ \E who \in Who, op \in Ops : Ask(t, who, op)
         \/ CacheMiss(t) \/ CallFirst(t) \/ Reply(t) \/ NobodyReplied(t) \/ Return(t)
  PROVE  AskerInv'
<1>1. /\ DOMAIN thread[t] = DOMAIN NoQuestion /\ thread[t].who \in Who
      /\ thread[t].wake \in Nat
  BY DEF AskerInv, AskerShape
<1>2. UNCHANGED <<clock, stamps, tooSoon, crowded>>
  BY DEF Ask, CacheMiss, CallFirst, Reply, NobodyReplied, Return
<1>3. ASSUME NEW who \in Who, NEW op \in Ops, Ask(t, who, op)
      PROVE  \E q : /\ thread' = [thread EXCEPT ![t] = q] /\ DOMAIN q = DOMAIN NoQuestion
                    /\ q.who \in Who /\ q.wake \in Nat /\ q.pc # "asleep"
  <2> DEFINE q == [NoQuestion EXCEPT
                     !.pc = IF op = "analyze" THEN "news" ELSE "limit", !.who = who, !.op = op,
                     !.price = price]
  <2>1. /\ DOMAIN q = DOMAIN NoQuestion /\ q.who \in Who /\ q.wake \in Nat /\ q.pc # "asleep"
    BY DEF NoQuestion
  <2>2. thread' = [thread EXCEPT ![t] = q]
    BY <1>3 DEF Ask
  <2> QED
    BY <2>1, <2>2
<1>4. ASSUME CacheMiss(t)
      PROVE  \E q : /\ thread' = [thread EXCEPT ![t] = q] /\ DOMAIN q = DOMAIN NoQuestion
                    /\ q.who \in Who /\ q.wake \in Nat /\ q.pc # "asleep"
  <2> DEFINE q == [thread[t] EXCEPT !.pc = "limit", !.op = "analyze"]
  <2>1. /\ DOMAIN q = DOMAIN NoQuestion /\ q.who \in Who /\ q.wake \in Nat /\ q.pc # "asleep"
    BY <1>1 DEF NoQuestion
  <2>2. thread' = [thread EXCEPT ![t] = q]
    BY <1>4 DEF CacheMiss, AskerInv, AskerShape
  <2> QED
    BY <2>1, <2>2
<1>5. ASSUME NEW m, NEW at,
             thread' = [thread EXCEPT ![t].pc = "ask", ![t].at = at, ![t].want = m, ![t].mode = m]
      PROVE  \E q : /\ thread' = [thread EXCEPT ![t] = q] /\ DOMAIN q = DOMAIN NoQuestion
                    /\ q.who \in Who /\ q.wake \in Nat /\ q.pc # "asleep"
  <2> DEFINE q == [thread[t] EXCEPT !.pc = "ask", !.at = at, !.want = m, !.mode = m]
  <2>1. /\ DOMAIN q = DOMAIN NoQuestion /\ q.who \in Who /\ q.wake \in Nat /\ q.pc # "asleep"
    BY <1>1 DEF NoQuestion
  <2>2. thread' = [thread EXCEPT ![t] = q]
    BY <1>5 DEF AskerInv, AskerShape
  <2> QED
    BY <2>1, <2>2
<1>6. ASSUME NEW answer, thread' = Written(t, answer)
      PROVE  \E q : /\ thread' = [thread EXCEPT ![t] = q] /\ DOMAIN q = DOMAIN NoQuestion
                    /\ q.who \in Who /\ q.wake \in Nat /\ q.pc # "asleep"
  <2> DEFINE q == [thread[t] EXCEPT !.pc = "write", !.at = 0, !.want = "none",
                                    !.mode = "none", !.shown = answer]
  <2>1. /\ DOMAIN q = DOMAIN NoQuestion /\ q.who \in Who /\ q.wake \in Nat /\ q.pc # "asleep"
    BY <1>1 DEF NoQuestion
  <2>2. thread' = [thread EXCEPT ![t] = q]
    BY <1>6 DEF Written, AskerInv, AskerShape
  <2> QED
    BY <2>1, <2>2
<1>7. ASSUME NEW m, thread[t].pc = "ask", thread' = [thread EXCEPT ![t].mode = m]
      PROVE  \E q : /\ thread' = [thread EXCEPT ![t] = q] /\ DOMAIN q = DOMAIN NoQuestion
                    /\ q.who \in Who /\ q.wake \in Nat /\ q.pc # "asleep"
  <2> DEFINE q == [thread[t] EXCEPT !.mode = m]
  <2>1. /\ DOMAIN q = DOMAIN NoQuestion /\ q.who \in Who /\ q.wake \in Nat /\ q.pc # "asleep"
    BY <1>1, <1>7 DEF NoQuestion
  <2>2. thread' = [thread EXCEPT ![t] = q]
    BY <1>7 DEF AskerInv, AskerShape
  <2> QED
    BY <2>1, <2>2
<1>8. ASSUME NEW m, NEW at, thread[t].pc = "ask",
             thread' = [thread EXCEPT ![t].at = at, ![t].mode = m]
      PROVE  \E q : /\ thread' = [thread EXCEPT ![t] = q] /\ DOMAIN q = DOMAIN NoQuestion
                    /\ q.who \in Who /\ q.wake \in Nat /\ q.pc # "asleep"
  <2> DEFINE q == [thread[t] EXCEPT !.at = at, !.mode = m]
  <2>1. /\ DOMAIN q = DOMAIN NoQuestion /\ q.who \in Who /\ q.wake \in Nat /\ q.pc # "asleep"
    BY <1>1, <1>8 DEF NoQuestion
  <2>2. thread' = [thread EXCEPT ![t] = q]
    BY <1>8 DEF AskerInv, AskerShape
  <2> QED
    BY <2>1, <2>2
<1>9. ASSUME Reply(t)
      PROVE  \E q : /\ thread' = [thread EXCEPT ![t] = q] /\ DOMAIN q = DOMAIN NoQuestion
                    /\ q.who \in Who /\ q.wake \in Nat /\ q.pc # "asleep"
  <2>1. thread[t].pc = "ask"
    BY <1>9 DEF Reply
  <2>2. \/ \E answer : thread' = Written(t, answer)
        \/ \E m : thread' = [thread EXCEPT ![t].mode = m]
        \/ \E at, m : thread' = [thread EXCEPT ![t].at = at, ![t].mode = m]
    <3> DEFINE at == thread[t].at
               next(reply) == Retry(Chain(setting)[at], thread[t].mode, reply)
    <3>1. PICK reply \in Replies :
            thread' =
              CASE reply = "ok"   -> Written(t, "model")
                [] reply = "bare" -> Written(t, "bare")
                [] reply \notin {"ok", "bare"} /\ next(reply) # "raise" ->
                     [thread EXCEPT ![t].mode = next(reply)]
                [] OTHER -> [thread EXCEPT ![t].at = at + 1, ![t].mode = thread[t].want]
      BY <1>9 DEF Reply
    <3> HIDE DEF next, at
    <3>2. \/ thread' = Written(t, "model") \/ thread' = Written(t, "bare")
          \/ thread' = [thread EXCEPT ![t].mode = next(reply)]
          \/ thread' = [thread EXCEPT ![t].at = at + 1, ![t].mode = thread[t].want]
      BY <3>1
    <3> QED
      BY <3>2
  <2> QED
    BY <2>1, <2>2, <1>6, <1>7, <1>8
<1>10. ASSUME Return(t)
      PROVE  \E q : /\ thread' = [thread EXCEPT ![t] = q] /\ DOMAIN q = DOMAIN NoQuestion
                    /\ q.who \in Who /\ q.wake \in Nat /\ q.pc # "asleep"
  BY <1>10, NoQuestionShape DEF Return
<1>11. \E q : /\ thread' = [thread EXCEPT ![t] = q] /\ DOMAIN q = DOMAIN NoQuestion
              /\ q.who \in Who /\ q.wake \in Nat /\ q.pc # "asleep"
  BY <1>3, <1>4, <1>5, <1>6, <1>9, <1>10 DEF CallFirst, NobodyReplied
<1> QED
  BY <1>2, <1>11, AwakeKeeps

-----------------------------------------------------------------------------
(* Going to sleep: a thread that finds another of its user asleep crowds     *)
(* them.                                                                     *)
LEMMA LimitReadKeeps ==
  ASSUME AskerInv, NEW t \in Askers, LimitRead(t)
  PROVE  AskerInv'
<1> DEFINE who == thread[t].who
           w == Wakes(stamps[who])
           q == [thread[t] EXCEPT !.pc = "asleep", !.wake = w]
<1>1. /\ DOMAIN thread[t] = DOMAIN NoQuestion /\ who \in Who /\ stamps[who] \in Nat
      /\ clock \in Nat /\ Limit \in Nat
  BY AnswerConstants DEF AskerInv, AskerShape
<1>2. w \in Nat /\ (stamps[who] > 0 => w >= stamps[who] + Limit)
  BY <1>1 DEF Wakes
<1>3. UNCHANGED <<clock, stamps, tooSoon>>
  BY DEF LimitRead
<1>4. thread' = [thread EXCEPT ![t] = q]
  BY DEF LimitRead, AskerInv, AskerShape
<1> HIDE DEF w
<1>5. DOMAIN q = DOMAIN NoQuestion /\ q.who = who /\ q.wake = w /\ q.pc = "asleep"
  BY <1>1 DEF NoQuestion
<1>6. thread'[t] = q /\ \A s \in Askers \ {t} : thread'[s] = thread[s]
  BY <1>4 DEF AskerInv, AskerShape
<1>7. AskerShape'
  BY <1>1, <1>2, <1>3, <1>4, <1>5, <1>6 DEF AskerInv, AskerShape
<1>8. crowded \subseteq crowded'
  BY DEF LimitRead
<1>9. who \notin crowded' => Asleep(who) \subseteq {t}
  BY DEF LimitRead, Asleep
<1>10. \A u \in Who : Asleep(u)' \subseteq Asleep(u) \cup {t}
  BY <1>6 DEF Asleep
<1>11. \A u \in Who \ {who} : Asleep(u)' \subseteq Asleep(u) /\ t \notin Asleep(u)'
  BY <1>5, <1>6, <1>10 DEF Asleep
<1>12. OneAsleep'
  BY <1>8, <1>9, <1>10, <1>11 DEF AskerInv, OneAsleep
<1>13. WakesLate'
  <2> SUFFICES ASSUME NEW u \in Who \ crowded', NEW s \in Asleep(u)', stamps'[u] > 0
               PROVE  thread'[s].wake >= stamps'[u] + Limit
    BY DEF WakesLate
  <2>1. CASE s = t
    <3>1. u = who
      BY <2>1, <1>11
    <3> QED
      BY <2>1, <3>1, <1>2, <1>3, <1>5, <1>6
  <2>2. CASE s # t
    <3>1. s \in Asleep(u) /\ thread'[s] = thread[s]
      BY <2>2, <1>6, <1>10 DEF Asleep
    <3> QED
      BY <3>1, <1>3, <1>8 DEF AskerInv, WakesLate
  <2> QED
    BY <2>1, <2>2
<1>14. CallsSpaced'
  BY <1>3, <1>8 DEF AskerInv, CallsSpaced
<1> QED
  BY <1>7, <1>12, <1>13, <1>14 DEF AskerInv

(* Waking and stamping: nobody else of an uncrowded user waits for the stamp.*)
LEMMA LimitStampKeeps ==
  ASSUME AskerInv, NEW t \in Askers, LimitStamp(t)
  PROVE  AskerInv'
<1> DEFINE who == thread[t].who
           pc == CASE thread[t].op = "chat" -> "news" [] thread[t].op = "lens" -> "lens"
                   [] thread[t].op = "talk" -> "talk" [] OTHER -> "model"
           q == [thread[t] EXCEPT !.wake = 0, !.pc = pc]
<1>1. /\ DOMAIN thread[t] = DOMAIN NoQuestion /\ who \in Who /\ stamps[who] \in Nat
      /\ clock \in Nat /\ Limit \in Nat /\ thread[t].wake \in Nat /\ clock >= thread[t].wake
  BY AnswerConstants DEF AskerInv, AskerShape, LimitStamp
<1>2. UNCHANGED <<clock, crowded>> /\ stamps' = [stamps EXCEPT ![who] = clock]
  BY DEF LimitStamp
<1>3. thread' = [thread EXCEPT ![t] = q]
  BY DEF LimitStamp, AskerInv, AskerShape
<1>4. pc # "asleep"
  OBVIOUS
<1> HIDE DEF pc
<1>5. DOMAIN q = DOMAIN NoQuestion /\ q.who = who /\ q.wake = 0 /\ q.pc # "asleep"
  BY <1>1, <1>4 DEF NoQuestion
<1>6. thread'[t] = q /\ \A s \in Askers \ {t} : thread'[s] = thread[s]
  BY <1>3 DEF AskerInv, AskerShape
<1>7. AskerShape'
  BY <1>1, <1>2, <1>3, <1>5, <1>6 DEF AskerInv, AskerShape
<1>8. t \in Asleep(who)
  BY DEF LimitStamp, Asleep
<1>9. \A u \in Who : Asleep(u)' \subseteq Asleep(u) \ {t}
  BY <1>5, <1>6 DEF Asleep
<1>10. OneAsleep'
  BY <1>2, <1>9 DEF AskerInv, OneAsleep
<1>11. WakesLate'
  <2> SUFFICES ASSUME NEW u \in Who \ crowded', NEW s \in Asleep(u)', stamps'[u] > 0
               PROVE  thread'[s].wake >= stamps'[u] + Limit
    BY DEF WakesLate
  <2>1. s \in Asleep(u) /\ s # t /\ thread'[s] = thread[s] /\ u \notin crowded
    BY <1>2, <1>6, <1>9 DEF Asleep
  <2>2. u # who
    BY <2>1, <1>8 DEF AskerInv, OneAsleep
  <2>3. stamps'[u] = stamps[u]
    BY <2>2, <1>2 DEF AskerInv, AskerShape
  <2> QED
    BY <2>1, <2>3 DEF AskerInv, WakesLate
<1>12. CallsSpaced'
  <2>1. CASE stamps[who] > 0 /\ clock - stamps[who] < Limit
    <3>1. who \in crowded
      <4>1. SUFFICES ASSUME who \notin crowded PROVE thread[t].wake >= stamps[who] + Limit
        BY <2>1, <1>1
      <4> QED
        BY <4>1, <2>1, <1>1, <1>8 DEF AskerInv, WakesLate
    <3> QED
      BY <3>1, <1>2 DEF AskerInv, CallsSpaced, LimitStamp
  <2>2. CASE ~ (stamps[who] > 0 /\ clock - stamps[who] < Limit)
    BY <2>2, <1>2 DEF AskerInv, CallsSpaced, LimitStamp
  <2> QED
    BY <2>1, <2>2
<1> QED
  BY <1>7, <1>10, <1>11, <1>12 DEF AskerInv

(* CallsSpaced: a user's calls of the language model are the rate limit      *)
(* apart (_check_rate_limit), unless two threads of the user slept at once.  *)
THEOREM CallsKeepApart == AnswerSpec => []CallsSpaced
<1>1. AnswerInit => AskerInv
  BY NoQuestionShape
     DEF AnswerInit, AskerInv, AskerShape, OneAsleep, WakesLate, Asleep, CallsSpaced, Who
<1>2. AskerInv /\ [AnswerNext]_answers => AskerInv'
  <2> SUFFICES ASSUME AskerInv, [AnswerNext]_answers PROVE AskerInv'
    OBVIOUS
  <2>1. CASE UNCHANGED answers \/ Tick \/ PriceMoves
    <3>1. UNCHANGED <<thread, stamps, tooSoon, crowded>> /\ clock' \in Nat
      BY <2>1 DEF answers, Tick, PriceMoves, AskerInv, AskerShape
    <3> QED
      BY <3>1 DEF AskerInv, AskerShape, OneAsleep, WakesLate, Asleep, CallsSpaced
  <2>2. ASSUME NEW t \in Askers, Step(t)
        PROVE  AskerInv'
    <3>1. After(t) # "asleep"
      BY DEF After
    <3>2. CASE NewsCached(t) \/ NewsRefresh(t) \/ NewsFetched(t) \/ Lens(t)
      <4>1. /\ UNCHANGED <<clock, stamps, tooSoon, crowded>>
            /\ Goto(t, After(t)) \/ Goto(t, "fetch") \/ Goto(t, "news")
        BY <3>2 DEF NewsCached, NewsRefresh, NewsFetched, Lens
      <4>2. "fetch" # "asleep" /\ "news" # "asleep"
        OBVIOUS
      <4> QED
        BY <4>1, <4>2, <3>1, GotoAwake
    <3>3. CASE CacheHit(t) \/ WriteAnswer(t) \/ Talk(t)
      <4>1. /\ UNCHANGED <<clock, stamps, tooSoon, crowded>>
            /\ (\E a : Show(t, a)) \/ Goto(t, "model")
        BY <3>3 DEF CacheHit, WriteAnswer, Talk
      <4>2. "model" # "asleep"
        OBVIOUS
      <4> QED
        BY <4>1, <4>2, ShowAwake, GotoAwake
    <3> QED
      BY <2>2, <3>2, <3>3, OtherAwake, LimitReadKeeps, LimitStampKeeps DEF Step
  <2> QED
    BY <2>1, <2>2 DEF AnswerNext
<1>3. AskerInv => CallsSpaced
  BY DEF AskerInv
<1> QED
  BY <1>1, <1>2, <1>3, PTL DEF AnswerSpec

-----------------------------------------------------------------------------
(* The event radar (Radar).  A run inside generate_radar_signals has a       *)
(* number of its own and has met every other one that is inside; what it     *)
(* found has one score per market, and no rows of it are active before it    *)
(* publishes them.  The active rows its UPDATE did not reach are of runs it  *)
(* has met.                                                                  *)
Inside == {k \in Runners : runner[k].pc # "idle"}

RunnerShape ==
  /\ runs \in Nat /\ DOMAIN runner = Runners
  /\ \A k \in Runners : /\ DOMAIN runner[k] = DOMAIN NoRun
                        /\ runner[k].pc # "scan" => runner[k].todo = {} /\ runner[k].made = {}
RunsMeet ==
  /\ \A k \in Inside : runner[k].run \in 1..runs
  /\ \A j, k \in Inside : j # k => /\ runner[j].run # runner[k].run
                                   /\ {runner[j].run, runner[k].run} \in together
OneScoreEach ==
  \A k \in Runners : \A s \in runner[k].made :
    /\ s.run = runner[k].run /\ s.event \notin runner[k].todo
    /\ \A t \in runner[k].made :
         s # t /\ s.event = t.event => s.type # t.type /\ s.score = t.score
SignalsArePast ==
  \A s \in signals : /\ s.run \in 1..runs
                     /\ \A k \in Inside : s.run # runner[k].run
UnreachedMet ==
  \A k \in Inside : \A s \in signals \ runner[k].seen : {s.run, runner[k].run} \in together

RadarInv ==
  RunnerShape /\ RunsMeet /\ OneScoreEach /\ SignalsArePast /\ UnreachedMet /\ OneFinding

-----------------------------------------------------------------------------
LEMMA NoRunShape ==
  NoRun.pc = "idle" /\ NoRun.todo = {} /\ NoRun.made = {}
  BY DEF NoRun

(* A run that leaves, with what it found or without.                         *)
LEMMA LeavesKeeps ==
  ASSUME RadarInv, NEW k \in Runners, runner' = [runner EXCEPT ![k] = NoRun],
         UNCHANGED <<runs, together>>
  PROVE  /\ RunnerShape' /\ RunsMeet' /\ OneScoreEach' /\ Inside' = Inside \ {k}
         /\ \A j \in Runners \ {k} : runner'[j] = runner[j]
<1>1. runner'[k] = NoRun /\ \A j \in Runners \ {k} : runner'[j] = runner[j]
  BY DEF RadarInv, RunnerShape
<1>2. Inside' = Inside \ {k}
  BY <1>1, NoRunShape DEF Inside
<1>3. RunnerShape'
  BY <1>1, NoRunShape DEF RadarInv, RunnerShape
<1>4. RunsMeet'
  <2>1. Inside \subseteq Runners
    BY DEF Inside
  <2> QED
    BY <2>1, <1>1, <1>2 DEF RadarInv, RunsMeet
<1>5. OneScoreEach'
  <2> SUFFICES ASSUME NEW j \in Runners, NEW s \in runner'[j].made
               PROVE  /\ s.run = runner'[j].run /\ s.event \notin runner'[j].todo
                      /\ \A t \in runner'[j].made :
                           s # t /\ s.event = t.event => s.type # t.type /\ s.score = t.score
    BY DEF OneScoreEach
  <2>1. j # k
    BY <1>1, NoRunShape
  <2>2. runner'[j] = runner[j]
    BY <2>1, <1>1
  <2> QED
    BY <2>2 DEF RadarInv, OneScoreEach
<1> QED
  BY <1>1, <1>2, <1>3, <1>4, <1>5

LEMMA BeginKeeps == ASSUME RadarInv, NEW k \in Runners, Begin(k) PROVE RadarInv'
<1> DEFINE q == [NoRun EXCEPT !.pc = "update", !.run = runs', !.seen = Reached]
<1>1. /\ DOMAIN q = DOMAIN NoRun /\ q.pc = "update" /\ q.run = runs' /\ q.seen = signals
      /\ q.todo = {} /\ q.made = {}
  BY DEF NoRun, Reached
<1>2. /\ runner[k].pc = "idle" /\ runs' = runs + 1 /\ runs \in Nat /\ signals' = signals
      /\ runner' = [runner EXCEPT ![k] = q]
  BY DEF Begin, RadarInv, RunnerShape
<1> HIDE DEF q
<1>3. runner'[k] = q /\ \A j \in Runners \ {k} : runner'[j] = runner[j]
  BY <1>2 DEF RadarInv, RunnerShape
<1>4. k \notin Inside /\ Inside \subseteq Runners /\ Inside' = Inside \cup {k}
  BY <1>1, <1>2, <1>3 DEF Inside
<1>5. RunnerShape'
  BY <1>1, <1>2, <1>3 DEF RadarInv, RunnerShape
<1>6. together \subseteq together' /\ \A j \in Inside : {runs', runner[j].run} \in together'
  BY DEF Begin, Inside
<1>7. \A j \in Inside : runner'[j] = runner[j] /\ j # k
  BY <1>3, <1>4
<1>8. RunsMeet'
  <2>1. \A j \in Inside' : runner'[j].run \in 1..runs'
    BY <1>1, <1>2, <1>3, <1>4, <1>7 DEF RadarInv, RunsMeet
  <2>2. ASSUME NEW i \in Inside', NEW j \in Inside', i # j
        PROVE  /\ runner'[i].run # runner'[j].run
               /\ {runner'[i].run, runner'[j].run} \in together'
    <3>1. CASE i = k
      <4>1. j \in Inside /\ runner'[i].run = runs' /\ runner'[j].run = runner[j].run
        BY <3>1, <2>2, <1>1, <1>3, <1>4, <1>7
      <4>2. runner[j].run \in 1..runs
        BY <4>1 DEF RadarInv, RunsMeet
      <4> QED
        BY <4>1, <4>2, <1>2, <1>6
    <3>2. CASE j = k
      <4>1. i \in Inside /\ runner'[j].run = runs' /\ runner'[i].run = runner[i].run
        BY <3>2, <2>2, <1>1, <1>3, <1>4, <1>7
      <4>2. runner[i].run \in 1..runs
        BY <4>1 DEF RadarInv, RunsMeet
      <4>3. {runner[i].run, runs'} = {runs', runner[i].run}
        OBVIOUS
      <4> QED
        BY <4>1, <4>2, <4>3, <1>2, <1>6
    <3>3. CASE i # k /\ j # k
      <4>1. i \in Inside /\ j \in Inside
        BY <3>3, <1>4
      <4> QED
        BY <4>1, <2>2, <1>6, <1>7 DEF RadarInv, RunsMeet
    <3> QED
      BY <3>1, <3>2, <3>3
  <2> QED
    BY <2>1, <2>2 DEF RunsMeet
<1>9. OneScoreEach'
  <2> SUFFICES ASSUME NEW j \in Runners, NEW s \in runner'[j].made
               PROVE  /\ s.run = runner'[j].run /\ s.event \notin runner'[j].todo
                      /\ \A t \in runner'[j].made :
                           s # t /\ s.event = t.event => s.type # t.type /\ s.score = t.score
    BY DEF OneScoreEach
  <2>1. j # k
    BY <1>1, <1>3
  <2>2. runner'[j] = runner[j]
    BY <2>1, <1>3
  <2> QED
    BY <2>2 DEF RadarInv, OneScoreEach
<1>10. SignalsArePast'
  <2> SUFFICES ASSUME NEW s \in signals
               PROVE  s.run \in 1..runs' /\ \A j \in Inside' : s.run # runner'[j].run
    BY <1>2 DEF SignalsArePast
  <2>1. s.run \in 1..runs /\ \A j \in Inside : s.run # runner[j].run
    BY DEF RadarInv, SignalsArePast
  <2> QED
    BY <2>1, <1>1, <1>2, <1>3, <1>4, <1>7
<1>11. UnreachedMet'
  BY <1>1, <1>2, <1>3, <1>4, <1>6, <1>7 DEF RadarInv, UnreachedMet
<1>12. OneFinding'
  BY <1>2, <1>6 DEF RadarInv, OneFinding
<1> QED
  BY <1>5, <1>8, <1>9, <1>10, <1>11, <1>12 DEF RadarInv

(* A step inside the loop: a run reads its markets, or scans one.            *)
LEMMA LoopKeeps ==
  ASSUME RadarInv, NEW k \in Inside, NEW q, runner' = [runner EXCEPT ![k] = q],
         DOMAIN q = DOMAIN NoRun, q.pc = "scan", q.run = runner[k].run,
         q.seen = runner[k].seen,
         \A s \in q.made :
           /\ s.run = q.run /\ s.event \notin q.todo
           /\ \A t \in q.made : s # t /\ s.event = t.event =>
                                  s.type # t.type /\ s.score = t.score,
         UNCHANGED <<signals, runs, together>>
  PROVE  RadarInv'
<1>1. k \in Runners /\ runner'[k] = q /\ \A j \in Runners \ {k} : runner'[j] = runner[j]
  BY DEF RadarInv, RunnerShape, Inside
<1>2. Inside' = Inside /\ Inside \subseteq Runners
  BY <1>1 DEF Inside
<1>3. \A j \in Inside : runner'[j].run = runner[j].run /\ runner'[j].seen = runner[j].seen
  BY <1>1, <1>2
<1>4. RunnerShape'
  BY <1>1 DEF RadarInv, RunnerShape
<1>5. RunsMeet' /\ SignalsArePast' /\ UnreachedMet' /\ OneFinding'
  BY <1>2, <1>3 DEF RadarInv, RunsMeet, SignalsArePast, UnreachedMet, OneFinding
<1>6. OneScoreEach'
  <2> SUFFICES ASSUME NEW j \in Runners, NEW s \in runner'[j].made
               PROVE  /\ s.run = runner'[j].run /\ s.event \notin runner'[j].todo
                      /\ \A t \in runner'[j].made :
                           s # t /\ s.event = t.event => s.type # t.type /\ s.score = t.score
    BY DEF OneScoreEach
  <2>1. CASE j = k
    BY <2>1, <1>1
  <2>2. CASE j # k
    <3>1. runner'[j] = runner[j]
      BY <2>2, <1>1
    <3> QED
      BY <3>1 DEF RadarInv, OneScoreEach
  <2> QED
    BY <2>1, <2>2
<1> QED
  BY <1>4, <1>5, <1>6 DEF RadarInv

LEMMA ReadMarketsKeeps == ASSUME RadarInv, NEW k \in Runners, ReadMarkets(k) PROVE RadarInv'
<1> DEFINE q == [runner[k] EXCEPT !.pc = "scan",
                                  !.todo = {e \in open : priced[e].minutes > 0}]
<1>1. k \in Inside /\ DOMAIN runner[k] = DOMAIN NoRun /\ runner[k].made = {}
  BY DEF ReadMarkets, Inside, RadarInv, RunnerShape
<1>2. /\ DOMAIN q = DOMAIN NoRun /\ q.pc = "scan" /\ q.run = runner[k].run
      /\ q.seen = runner[k].seen /\ q.made = {}
  BY <1>1 DEF NoRun
<1>3. runner' = [runner EXCEPT ![k] = q] /\ UNCHANGED <<signals, runs, together>>
  BY DEF ReadMarkets, RadarInv, RunnerShape
<1> QED
  BY <1>1, <1>2, <1>3, LoopKeeps

LEMMA ScanKeeps == ASSUME RadarInv, NEW k \in Runners, Scan(k) PROVE RadarInv'
<1> DEFINE Found(e) == {[event |-> e, type |-> t, run |-> runner[k].run,
                         score |-> InterestScore(priced[e], venue[e])]
                        : t \in Detected(priced[e], venue[e], e)}
<1>1. PICK e \in runner[k].todo :
        /\ runner' = [runner EXCEPT ![k].todo = @ \ {e}, ![k].made = @ \cup Found(e)]
        /\ UNCHANGED <<signals, runs, together>>
  BY DEF Scan
<1> DEFINE q == [runner[k] EXCEPT !.todo = runner[k].todo \ {e},
                                  !.made = runner[k].made \cup Found(e)]
<1>2. \A s \in Found(e) : /\ s.run = runner[k].run /\ s.event = e
                          /\ \A t \in Found(e) : s # t => s.type # t.type /\ s.score = t.score
  OBVIOUS
<1>3. runner' = [runner EXCEPT ![k] = q]
  BY <1>1 DEF RadarInv, RunnerShape
<1> HIDE DEF Found
<1>4. k \in Inside /\ DOMAIN runner[k] = DOMAIN NoRun /\ runner[k].pc = "scan"
  BY <1>1 DEF Inside, RadarInv, RunnerShape
<1>5. /\ DOMAIN q = DOMAIN NoRun /\ q.pc = "scan" /\ q.run = runner[k].run
      /\ q.seen = runner[k].seen /\ q.todo = runner[k].todo \ {e}
      /\ q.made = runner[k].made \cup Found(e)
  BY <1>4 DEF NoRun
<1>6. \A s \in runner[k].made :
        /\ s.run = runner[k].run /\ s.event \notin runner[k].todo
        /\ \A t \in runner[k].made :
             s # t /\ s.event = t.event => s.type # t.type /\ s.score = t.score
  BY DEF RadarInv, OneScoreEach
<1> HIDE DEF q
<1>7. \A s \in q.made :
        /\ s.run = q.run /\ s.event \notin q.todo
        /\ \A t \in q.made : s # t /\ s.event = t.event => s.type # t.type /\ s.score = t.score
  BY <1>1, <1>2, <1>5, <1>6
<1> QED
  BY <1>1, <1>3, <1>4, <1>5, <1>7, LoopKeeps

LEMMA PublishKeeps == ASSUME RadarInv, NEW k \in Runners, Publish(k) PROVE RadarInv'
<1>1. /\ runner[k].pc = "scan" /\ signals' = (signals \ runner[k].seen) \cup runner[k].made
      /\ runner' = [runner EXCEPT ![k] = NoRun] /\ UNCHANGED <<runs, together>>
  BY DEF Publish
<1>2. /\ RunnerShape' /\ RunsMeet' /\ OneScoreEach' /\ Inside' = Inside \ {k}
      /\ \A j \in Runners \ {k} : runner'[j] = runner[j]
  BY <1>1, LeavesKeeps
<1>3. k \in Inside /\ Inside \subseteq Runners
  BY <1>1 DEF Inside
<1>4. \A s \in runner[k].made : s.run = runner[k].run
  BY DEF RadarInv, OneScoreEach
<1>5. \A j \in Inside' : runner'[j] = runner[j] /\ j \in Inside /\ j # k
  BY <1>2, <1>3
<1>6. SignalsArePast'
  <2> SUFFICES ASSUME NEW s \in signals'
               PROVE  s.run \in 1..runs /\ \A j \in Inside' : s.run # runner[j].run
    BY <1>1, <1>5 DEF SignalsArePast
  <2>1. CASE s \in signals
    BY <2>1, <1>5 DEF RadarInv, SignalsArePast
  <2>2. CASE s \in runner[k].made
    BY <2>2, <1>3, <1>4, <1>5 DEF RadarInv, RunsMeet
  <2> QED
    BY <1>1, <2>1, <2>2
<1>7. UnreachedMet'
  <2> SUFFICES ASSUME NEW j \in Inside', NEW s \in signals', s \notin runner[j].seen
               PROVE  {s.run, runner[j].run} \in together
    BY <1>1, <1>5 DEF UnreachedMet
  <2>1. CASE s \in signals
    BY <2>1, <1>5 DEF RadarInv, UnreachedMet
  <2>2. CASE s \in runner[k].made
    BY <2>2, <1>3, <1>4, <1>5 DEF RadarInv, RunsMeet
  <2> QED
    BY <1>1, <2>1, <2>2
<1>8. OneFinding'
  <2> SUFFICES ASSUME NEW s \in signals', NEW t \in signals', s # t, s.event = t.event
               PROVE  IF s.run = t.run THEN s.type # t.type /\ s.score = t.score
                      ELSE {s.run, t.run} \in together
    BY <1>1 DEF OneFinding
  <2>1. CASE s \in signals \ runner[k].seen /\ t \in signals \ runner[k].seen
    BY <2>1 DEF RadarInv, OneFinding
  <2>2. CASE s \in runner[k].made /\ t \in runner[k].made
    BY <2>2, <1>4 DEF RadarInv, OneScoreEach
  <2>3. \A r \in signals \ runner[k].seen :
          r.run # runner[k].run /\ {r.run, runner[k].run} \in together
    BY <1>3 DEF RadarInv, SignalsArePast, UnreachedMet
  <2>4. CASE s \in signals \ runner[k].seen /\ t \in runner[k].made
    BY <2>3, <2>4, <1>4
  <2>5. CASE t \in signals \ runner[k].seen /\ s \in runner[k].made
    <3>1. t.run # s.run /\ {t.run, s.run} \in together
      BY <2>3, <2>5, <1>4
    <3>2. {t.run, s.run} = {s.run, t.run}
      OBVIOUS
    <3> QED
      BY <3>1, <3>2
  <2> QED
    BY <1>1, <2>1, <2>2, <2>4, <2>5
<1> QED
  BY <1>2, <1>6, <1>7, <1>8 DEF RadarInv

(* The page and the copy score read one run's finding (OneFinding), however  *)
(* many tasks and commands are inside generate_radar_signals together.       *)
THEOREM RadarShowsOneFinding == RadarSpec => []OneFinding
<1>1. RadarInit => RadarInv
  BY NoRunShape
     DEF RadarInit, RadarInv, RunnerShape, RunsMeet, OneScoreEach, SignalsArePast,
         UnreachedMet, OneFinding, Inside
<1>2. RadarInv /\ [RadarNext]_radar => RadarInv'
  <2> SUFFICES ASSUME RadarInv, [RadarNext]_radar PROVE RadarInv'
    OBVIOUS
  <2>1. CASE UNCHANGED radar \/ ListPrices \/ WritePrices \/ Move \/ CloseRow
    <3>1. UNCHANGED <<signals, runner, runs, together>>
      BY <2>1 DEF radar, ListPrices, WritePrices, Move, CloseRow
    <3> QED
      BY <3>1 DEF RadarInv, RunnerShape, RunsMeet, OneScoreEach, SignalsArePast,
                  UnreachedMet, OneFinding, Inside
  <2>2. ASSUME NEW k \in Runners, RollBack(k)
        PROVE  RadarInv'
    <3>1. /\ runner' = [runner EXCEPT ![k] = NoRun]
          /\ UNCHANGED <<signals, runs, together>>
      BY <2>2 DEF RollBack
    <3>2. /\ RunnerShape' /\ RunsMeet' /\ OneScoreEach' /\ Inside' = Inside \ {k}
          /\ \A j \in Runners \ {k} : runner'[j] = runner[j]
      BY <3>1, LeavesKeeps
    <3>3. \A j \in Inside' : runner'[j] = runner[j] /\ j \in Inside
      BY <3>2 DEF Inside
    <3>4. SignalsArePast' /\ UnreachedMet' /\ OneFinding'
      BY <3>1, <3>3 DEF RadarInv, SignalsArePast, UnreachedMet, OneFinding
    <3> QED
      BY <3>2, <3>4 DEF RadarInv
  <2> QED
    BY <2>1, <2>2, BeginKeeps, ReadMarketsKeeps, ScanKeeps, PublishKeeps DEF RadarNext
<1>3. RadarInv => OneFinding
  BY DEF RadarInv
<1> QED
  BY <1>1, <1>2, <1>3, PTL DEF RadarSpec

-----------------------------------------------------------------------------
(* The rules about a copy (CopyRules).  A copy that waits in a world that    *)
(* has not changed carries the score and the decision of now.                *)
ReviewStands ==
  copy.status = "PENDING" =>
    /\ copy.amount \in Nat
    /\ ~ moved => copy.score = Overall(rule, facts) /\ copy.decision = Decision(rule, facts)

RulesInv ==
  /\ "perTrade" \in DOMAIN rule /\ rule.perTrade \in Nat
  /\ grant.perTrade \in Nat
  /\ ReviewStands

(* EnginesAgree: evaluate_copy_score and RiskEngine.evaluate find the same   *)
(* faults, whatever the rule, the facts and the limits are.                  *)
THEOREM LimitsReadTwiceAlike == RulesSpec => []EnginesAgree
<1>1. EnginesAgree
  <2> SUFFICES ASSUME ~ rule.every, NEW x,
                      x \in {"win", "trades", "depth"} \/ (rule.mode = "SMART" /\ x = "score")
               PROVE  x \in ScoreSkips(rule, facts)
                        <=> x \in Risks(rule, facts, Scored(CopyAmount(rule)), Spent, TRUE)
    BY DEF EnginesAgree
  <2>1. Scored(CopyAmount(rule)).score = Overall(rule, facts)
    BY DEF Scored
  <2>2. CASE x = "win"
    BY <2>2 DEF ScoreSkips, Risks
  <2>3. CASE x = "trades"
    BY <2>3 DEF ScoreSkips, Risks
  <2>4. CASE x = "depth"
    BY <2>4 DEF ScoreSkips, Risks
  <2>5. CASE rule.mode = "SMART" /\ x = "score"
    BY <2>1, <2>5 DEF ScoreSkips, Risks
  <2> QED
    BY <2>2, <2>3, <2>4, <2>5
<1> QED
  BY <1>1, PTL

LEMMA RulesInvStep == RulesInv /\ [RulesNext]_rules => RulesInv'
<1> SUFFICES ASSUME RulesInv, [RulesNext]_rules PROVE RulesInv'
  OBVIOUS
<1>1. CASE UNCHANGED rules
  <2>1. UNCHANGED <<rule, facts, grant, copy, moved>>
    BY <1>1 DEF rules
  <2>2. Overall(rule, facts)' = Overall(rule, facts)
        /\ Decision(rule, facts)' = Decision(rule, facts)
    BY <2>1 DEF Overall, Decision, ScoreSkips
  <2> QED
    BY <2>1, <2>2 DEF RulesInv, ReviewStands
<1>2. CASE EditRule
  <2>1. PICK x \in RuleFields : \E v \in RuleValues[x] : rule' = [rule EXCEPT ![x] = v]
    BY <1>2 DEF EditRule
  <2>2. PICK v \in RuleValues[x] : rule' = [rule EXCEPT ![x] = v]
    BY <2>1
  <2>3. rule'.perTrade \in Nat /\ "perTrade" \in DOMAIN rule'
    BY <2>2, RuleConstants DEF RulesInv
  <2>4. copy' = copy /\ grant' = grant /\ moved' = (copy # NoCopy)
    BY <1>2 DEF EditRule
  <2>5. copy.status = "PENDING" => moved'
    <3>1. copy.status = "PENDING" => copy # NoCopy
      BY DEF NoCopy
    <3> QED
      BY <2>4, <3>1, Zenon
  <2> QED
    BY <2>3, <2>4, <2>5 DEF RulesInv, ReviewStands
<1>3. CASE Drift
  <2>1. copy' = copy /\ grant' = grant /\ rule' = rule /\ moved' = (copy # NoCopy)
    BY <1>3 DEF Drift
  <2>2. copy.status = "PENDING" => moved'
    <3>1. copy.status = "PENDING" => copy # NoCopy
      BY DEF NoCopy
    <3> QED
      BY <2>1, <3>1, Zenon
  <2> QED
    BY <2>1, <2>2 DEF RulesInv, ReviewStands
<1>4. CASE Authorise
  <2>1. copy'.status # "PENDING" /\ rule' = rule
    BY <1>4 DEF Authorise, NoCopy
  <2>2. grant'.perTrade \in Nat
    BY <1>4, RuleConstants DEF Authorise, NoGrant
  <2> QED
    BY <2>1, <2>2 DEF RulesInv, ReviewStands
<1>5. CASE Review
  <2> DEFINE c == Scored(CopyAmount(rule))
  <2>1. /\ DOMAIN c = {"status", "decision", "score", "amount"} /\ c.amount \in Nat
        /\ c.score = Overall(rule, facts) /\ c.decision = Decision(rule, facts)
    BY DEF Scored, CopyAmount, OrDefault, RulesInv
  <2>2. UNCHANGED <<rule, facts, grant>>
    BY <1>5 DEF Review
  <2>3. \/ copy' = [c EXCEPT !.status = "PENDING"]
        \/ copy' = [c EXCEPT !.status = "SKIPPED", !.decision = "SKIP"]
    BY <1>5 DEF Review
  <2> HIDE DEF c
  <2>4. copy'.status = "PENDING" =>
          copy'.amount = c.amount /\ copy'.score = c.score /\ copy'.decision = c.decision
    BY <2>1, <2>3
  <2>5. Overall(rule, facts)' = Overall(rule, facts)
        /\ Decision(rule, facts)' = Decision(rule, facts)
    BY <2>2 DEF Overall, Decision, ScoreSkips
  <2> QED
    BY <2>1, <2>2, <2>4, <2>5 DEF RulesInv, ReviewStands
<1>6. ASSUME NEW valid \in BOOLEAN, AgentTrades(valid) PROVE RulesInv'
  <2> DEFINE amount == IF rule.perTrade = 0 THEN grant.perTrade
                       ELSE Min({CopyAmount(rule), grant.perTrade})
             c == Scored(amount)
  <2>1. DOMAIN c = {"status", "decision", "score", "amount"}
    BY DEF Scored
  <2>2. \/ copy' = [c EXCEPT !.status = "EXECUTED"]
        \/ copy' = [c EXCEPT !.status = "SKIPPED", !.decision = "SKIP"]
    BY <1>6 DEF AgentTrades
  <2>3. grant' = grant
        /\ rule' = [rule EXCEPT !.perTrade = grant.perTrade, !.daily = grant.daily,
                                !.minScore = grant.minScore]
    BY <1>6 DEF AgentTrades
  <2>4. "perTrade" \in DOMAIN rule' /\ rule'.perTrade = grant.perTrade
    BY <2>3 DEF RulesInv
  <2> HIDE DEF c
  <2>5. copy'.status # "PENDING"
    BY <2>1, <2>2
  <2> QED
    BY <2>3, <2>4, <2>5 DEF RulesInv, ReviewStands
<1>7. CASE NoDelegation
  <2> DEFINE c == Scored(CopyAmount(rule))
  <2>1. DOMAIN c = {"status", "decision", "score", "amount"}
    BY DEF Scored
  <2>2. copy' = [c EXCEPT !.status = "SKIPPED", !.decision = "SKIP"] /\ UNCHANGED <<rule, grant>>
    BY <1>7 DEF NoDelegation
  <2> HIDE DEF c
  <2>3. copy'.status # "PENDING"
    BY <2>1, <2>2
  <2> QED
    BY <2>2, <2>3 DEF RulesInv, ReviewStands
<1>8. CASE Confirm \/ Skip
  <2>1. UNCHANGED <<rule, grant>>
        /\ \E s \in {"APPROVED", "SKIPPED"} : copy' = [copy EXCEPT !.status = s]
    BY <1>8 DEF Confirm, Skip
  <2>2. copy'.status # "PENDING"
    BY <2>1, <1>8 DEF Confirm, Skip
  <2> QED
    BY <2>1, <2>2 DEF RulesInv, ReviewStands
<1> QED
  BY <1>1, <1>2, <1>3, <1>4, <1>5, <1>6, <1>7, <1>8 DEF RulesNext

(* A copy that waits with every check of now passed fails to be confirmed    *)
(* for the day's total or for what was stored only.                          *)
LEMMA StandingReviewWaits == RulesInv => WaitsForCause
<1> SUFFICES ASSUME RulesInv, copy.status = "PENDING", Fresh = {}, ~ Confirmable,
                    ~ (rule.mode = "SMART" /\ moved)
             PROVE  rule.daily # 0 /\ Spent + 2 * copy.amount > rule.daily
  BY DEF WaitsForCause
<1> DEFINE c == Scored(copy.amount)
<1>1. /\ c.amount = copy.amount /\ c.score = Overall(rule, facts)
      /\ c.decision = Decision(rule, facts)
  BY DEF Scored
<1> HIDE DEF c
<1>2. Risks(rule, facts, c, Spent, TRUE) = {}
  BY DEF Fresh, c
<1>3. PICK x : x \in Risks(rule, facts, copy, Spent + copy.amount, FALSE)
  BY DEF Confirmable
<1>4. x \in {"closed", "stopped", "perTrade", "asset", "win", "trades"}
        => x \in Risks(rule, facts, c, Spent, TRUE)
  BY <1>1, <1>3 DEF Risks
<1>5. x \in {"score", "skip"} => x \in Risks(rule, facts, c, Spent, TRUE)
  <2> SUFFICES ASSUME x \in {"score", "skip"} PROVE x \in Risks(rule, facts, c, Spent, TRUE)
    OBVIOUS
  <2>1. rule.mode = "SMART"
    BY <1>3 DEF Risks
  <2>2. copy.score = c.score /\ copy.decision = c.decision
    BY <1>1, <2>1 DEF RulesInv, ReviewStands
  <2> QED
    BY <1>3, <2>2 DEF Risks
<1>6. x = "daily"
  BY <1>2, <1>3, <1>4, <1>5 DEF Risks
<1>7. rule.daily # 0 /\ Spent + copy.amount + copy.amount > rule.daily
  BY <1>3, <1>6 DEF Risks
<1>8. Spent \in Nat /\ copy.amount \in Nat
  BY RuleConstants DEF RulesInv, ReviewStands
<1>9. Spent + copy.amount + copy.amount = Spent + 2 * copy.amount
  BY <1>8
<1> QED
  BY <1>7, <1>9

(* WaitsForCause: the owner is refused a copy prepare_copy_trade would pass  *)
(* today for two causes only - it counts its own amount twice, or the score  *)
(* stored with it is outdated.                                               *)
THEOREM WaitingCopiesRefusedForCause == RulesSpec => []WaitsForCause
<1>1. RulesInit => RulesInv
  <2> SUFFICES ASSUME RulesInit PROVE RulesInv
    OBVIOUS
  <2>1. "perTrade" \in DOMAIN rule /\ rule.perTrade = 10
    BY DEF RulesInit, DefaultRule
  <2>2. grant.perTrade = 0 /\ copy.status = "NONE"
    BY DEF RulesInit, NoGrant, NoCopy
  <2> QED
    BY <2>1, <2>2 DEF RulesInv, ReviewStands
<1> QED
  BY <1>1, RulesInvStep, StandingReviewWaits, PTL DEF RulesSpec

-----------------------------------------------------------------------------
(* Who is followed (FollowRules).  A request in flight holds what it read    *)
(* (RequestShape).  An open follow whose trader raced with nobody has seen   *)
(* the lists in force as they are (ListsSeen), which allow everybody the     *)
(* user follows (SeenAllows); two of them, or one and a grant, have raced    *)
(* (WritersRace); a grant that names nobody itself names everybody followed  *)
(* (NamesFollowed).                                                          *)
Open(h) == busy[h].pc = "open"
Adds(h) == Open(h) /\ busy[h].status = "ACTIVE"

RequestShape ==
  \A h \in Callers :
    /\ busy[h].pc \in {"open", "loaded"} => \E t \in Traders : busy[h].trader = {t}
    /\ Open(h) => busy[h].op \in {"follow", "edit"}
    /\ busy[h].seen # {} => Adds(h)
    /\ \A s \in busy[h].seen : s[1] \in perms
ListsSeen ==
  \A h \in Callers, t \in Traders \ raced, p \in active :
    Adds(h) /\ busy[h].trader = {t} => <<p, list[p]>> \in busy[h].seen
SeenAllows ==
  \A h \in Callers, u \in Traders \ (raced \cup excluded) : \A s \in busy[h].seen :
    s[1] \in active /\ rel[u] = "ACTIVE" => s[2] = {} \/ u \in s[2]
WritersRace ==
  \A h \in Callers : Adds(h) =>
    \A g \in Callers \ {h} : Adds(g) \/ busy[g].op = "grant" => busy[h].trader \subseteq raced
NamesFollowed ==
  \A h \in Callers, t \in Traders \ raced :
    busy[h].op = "grant" /\ ~ busy[h].asks /\ rel[t] = "ACTIVE" => t \in busy[h].named

ListInv ==
  FollowTypeOK /\ RequestShape /\ ListsSeen /\ SeenAllows /\ WritersRace /\ NamesFollowed
    /\ FollowedIsAllowed

(* A relationship is written by one open request at a time; and where the    *)
(* row is STOPPED, a request that has loaded it, or is to save it without    *)
(* asking for a status, holds STOPPED.                                       *)
OneWriter ==
  \A h, g \in Callers : Open(h) /\ Open(g) /\ busy[h].trader = busy[g].trader => h = g
HoldsStop ==
  \A h \in Callers, t \in Traders \ stale :
    /\ busy[h].trader = {t} /\ rel[t] = "STOPPED"
    /\ busy[h].pc = "loaded" \/ (Open(h) /\ ~ busy[h].asks)
    => busy[h].status = "STOPPED"

StopInv == FollowTypeOK /\ RequestShape /\ OneWriter /\ HoldsStop

Requests ==
  [op: {"idle", "follow", "edit", "grant"}, trader: SUBSET Traders,
   status: FollowStatuses \cup {"NONE"}, pc: {"", "loaded", "open"},
   asks: BOOLEAN, seen: SUBSET (Perms \X SUBSET Traders), named: SUBSET Traders]

-----------------------------------------------------------------------------
LEMMA NoRequestRests ==
  /\ NoRequest \in Requests /\ NoRequest.op = "idle" /\ NoRequest.pc = ""
  /\ NoRequest.seen = {} /\ NoRequest.trader = {} /\ NoRequest.status = "NONE"
  BY DEF NoRequest, Requests

LEMMA OneRequestMoves ==
  ASSUME FollowTypeOK, NEW h \in Callers, NEW q, busy' = [busy EXCEPT ![h] = q]
  PROVE  /\ busy'[h] = q /\ \A g \in Callers \ {h} : busy'[g] = busy[g]
         /\ q \in Requests => busy' \in [Callers -> Requests]
  BY DEF FollowTypeOK, Requests

LEMMA SeenTyped == FollowTypeOK => Seen \in SUBSET (Perms \X SUBSET Traders)
<1> SUFFICES ASSUME FollowTypeOK, NEW s \in Seen PROVE s \in Perms \X SUBSET Traders
  OBVIOUS
<1>1. PICK p \in active : s = <<p, list[p]>>
  BY DEF Seen
<1>2. p \in Perms /\ list[p] \in SUBSET Traders
  BY DEF FollowTypeOK
<1> QED
  BY <1>1, <1>2

LEMMA RacedTyped ==
  ASSUME FollowTypeOK, NEW t \in Traders
  PROVE  /\ raced \subseteq RacedWith(t) /\ RacedWith(t) \subseteq Traders
         /\ UNION {busy[g].trader : g \in Follows} \subseteq Traders
         /\ Follows # {} \/ (\E g \in Callers : busy[g].op = "grant") =>
              t \in RacedWith(t) /\ \A g \in Follows : busy[g].trader \subseteq RacedWith(t)
<1> DEFINE others == UNION {busy[g].trader : g \in Follows}
           met == Follows # {} \/ \E g \in Callers : busy[g].op = "grant"
<1>1. \A g \in Follows : busy[g].trader \subseteq Traders
  BY DEF FollowTypeOK, Follows, Writers
<1>2. others \subseteq Traders /\ \A g \in Follows : busy[g].trader \subseteq others
  BY <1>1
<1>3. RacedWith(t) = raced \cup IF met THEN {t} \cup others ELSE {}
  BY DEF RacedWith
<1>4. raced \subseteq Traders
  BY DEF FollowTypeOK
<1> HIDE DEF others, met
<1>5. /\ raced \subseteq RacedWith(t) /\ RacedWith(t) \subseteq Traders
      /\ met => t \in RacedWith(t) /\ others \subseteq RacedWith(t)
  BY <1>2, <1>3, <1>4
<1> QED
  BY <1>2, <1>5 DEF others, met

LEMMA AddsFollows ==
  ASSUME RequestShape, NEW g \in Callers, Adds(g)
  PROVE  g \in Follows
  BY DEF RequestShape, Adds, Open, Follows, Writers

(* A request that reads the lists and is open from then on.                  *)
LEMMA OpensKeepsLists ==
  ASSUME ListInv, NEW h \in Callers, NEW t \in Traders, NEW q \in Requests,
         ~ Open(h), q.pc = "open", q.op \in {"follow", "edit"}, q.trader = {t},
         q.seen = (IF q.status = "ACTIVE" THEN Seen ELSE {}),
         raced' = (IF q.status = "ACTIVE" THEN RacedWith(t) ELSE raced),
         busy' = [busy EXCEPT ![h] = q],
         UNCHANGED <<rel, perms, active, list, excluded, stale>>
  PROVE  ListInv'
<1>1. /\ busy'[h] = q /\ \A g \in Callers \ {h} : busy'[g] = busy[g]
      /\ busy' \in [Callers -> Requests]
  BY OneRequestMoves DEF ListInv
<1>2. raced \subseteq raced' /\ raced' \subseteq Traders
  BY RacedTyped DEF ListInv, FollowTypeOK
<1>3. FollowTypeOK'
  BY <1>1, <1>2 DEF ListInv, FollowTypeOK, Requests
<1>4. \A s \in q.seen : s[1] \in active /\ s[2] = list[s[1]] /\ q.status = "ACTIVE"
  BY DEF Seen
<1>5. RequestShape'
  BY <1>1, <1>4 DEF ListInv, FollowTypeOK, RequestShape, Adds, Open
<1>6. \A g \in Callers : g # h => (Adds(g)' <=> Adds(g))
  BY <1>1 DEF Adds, Open
<1>7. Adds(h)' <=> q.status = "ACTIVE"
  BY <1>1 DEF Adds, Open
<1>8. ListsSeen'
  <2> SUFFICES ASSUME NEW g \in Callers, NEW u \in Traders \ raced', NEW p \in active,
                      Adds(g)', busy'[g].trader = {u}
               PROVE  <<p, list[p]>> \in busy'[g].seen
    BY DEF ListsSeen
  <2>1. CASE g = h
    BY <2>1, <1>1, <1>7 DEF Seen
  <2>2. CASE g # h
    BY <2>2, <1>1, <1>2, <1>6 DEF ListInv, ListsSeen
  <2> QED
    BY <2>1, <2>2
<1>9. SeenAllows'
  <2> SUFFICES ASSUME NEW g \in Callers, NEW u \in Traders \ (raced' \cup excluded),
                      NEW s \in busy'[g].seen, s[1] \in active, rel[u] = "ACTIVE"
               PROVE  s[2] = {} \/ u \in s[2]
    BY DEF SeenAllows
  <2>1. CASE g = h
    BY <2>1, <1>1, <1>2, <1>4 DEF ListInv, FollowedIsAllowed, Allows
  <2>2. CASE g # h
    BY <2>2, <1>1, <1>2 DEF ListInv, SeenAllows
  <2> QED
    BY <2>1, <2>2
<1>10. WritersRace'
  <2> SUFFICES ASSUME NEW f \in Callers, NEW g \in Callers \ {f}, Adds(f)',
                      Adds(g)' \/ busy'[g].op = "grant"
               PROVE  busy'[f].trader \subseteq raced'
    BY DEF WritersRace
  <2>1. CASE f = h
    <3>1. raced' = RacedWith(t)
      BY <2>1, <1>7
    <3>2. Adds(g) \/ busy[g].op = "grant"
      BY <2>1, <1>1, <1>6
    <3>3. t \in RacedWith(t)
      BY <3>2, AddsFollows, RacedTyped DEF ListInv
    <3> QED
      BY <2>1, <3>1, <3>3, <1>1
  <2>2. CASE f # h /\ g = h
    <3>1. Adds(f) /\ busy'[f] = busy[f]
      BY <2>2, <1>1, <1>6
    <3>2. Adds(h)'
      BY <2>2, <1>1
    <3>3. raced' = RacedWith(t) /\ f \in Follows
      BY <3>1, <3>2, <1>7, AddsFollows DEF ListInv
    <3> QED
      BY <3>1, <3>3, RacedTyped DEF ListInv
  <2>3. CASE f # h /\ g # h
    BY <2>3, <1>1, <1>2, <1>6 DEF ListInv, WritersRace
  <2> QED
    BY <2>1, <2>2, <2>3
<1>11. NamesFollowed'
  BY <1>1, <1>2 DEF ListInv, NamesFollowed
<1>12. FollowedIsAllowed'
  BY <1>2 DEF ListInv, FollowedIsAllowed, Allows
<1> QED
  BY <1>3, <1>5, <1>8, <1>9, <1>10, <1>11, <1>12 DEF ListInv

(* It does not meet another one on its trader, and holds the status it was   *)
(* wish for or had loaded.                                                  *)
LEMMA OpensKeepsStop ==
  ASSUME StopInv, ListInv', NEW h \in Callers, NEW t \in Traders, NEW q \in Requests,
         ~ Locked(t), q.pc = "open", q.trader = {t},
         q.asks \/ (busy[h].pc = "loaded" /\ busy[h].trader = {t} /\ busy[h].status = q.status),
         busy' = [busy EXCEPT ![h] = q], UNCHANGED <<rel, stale>>
  PROVE  StopInv'
<1>1. busy'[h] = q /\ \A g \in Callers \ {h} : busy'[g] = busy[g]
  BY OneRequestMoves DEF StopInv
<1>2. OneWriter'
  BY <1>1 DEF StopInv, OneWriter, Open, Locked
<1>3. HoldsStop'
  <2> SUFFICES ASSUME NEW g \in Callers, NEW u \in Traders \ stale,
                      busy'[g].trader = {u}, rel[u] = "STOPPED",
                      busy'[g].pc = "loaded" \/ (Open(g)' /\ ~ busy'[g].asks)
               PROVE  busy'[g].status = "STOPPED"
    BY DEF HoldsStop
  <2>1. CASE g = h
    BY <2>1, <1>1 DEF StopInv, HoldsStop, Open
  <2>2. CASE g # h
    BY <2>2, <1>1 DEF StopInv, HoldsStop, Open
  <2> QED
    BY <2>1, <2>2
<1> QED
  BY <1>2, <1>3 DEF StopInv, ListInv

LEMMA FollowKeeps ==
  ASSUME ListInv, StopInv, NEW h \in Callers, NEW t \in Traders, Follow(h, t)
  PROVE  ListInv' /\ StopInv'
<1> DEFINE q == [NoRequest EXCEPT !.op = "follow", !.trader = {t}, !.status = "ACTIVE",
                                  !.pc = "open", !.asks = TRUE, !.seen = Seen]
<1>1. /\ q \in Requests /\ q.op = "follow" /\ q.trader = {t} /\ q.status = "ACTIVE"
      /\ q.pc = "open" /\ q.asks /\ q.seen = Seen
  BY SeenTyped DEF NoRequest, Requests, FollowStatuses, ListInv
<1>2. /\ busy' = [busy EXCEPT ![h] = q] /\ ~ Locked(t) /\ raced' = RacedWith(t)
      /\ UNCHANGED <<rel, perms, active, list, excluded, stale>>
  BY DEF Follow
<1>3. ~ Open(h)
  BY NoRequestRests DEF Follow, Open
<1> HIDE DEF q
<1>4. ListInv'
  BY <1>1, <1>2, <1>3, OpensKeepsLists
<1> QED
  BY <1>1, <1>2, <1>4, OpensKeepsStop

LEMMA EditSaveKeeps ==
  ASSUME ListInv, StopInv, NEW h \in Callers, NEW t \in Traders,
         NEW wish \in {{}} \cup {{x} : x \in FollowStatuses}, EditSave(h, t, wish)
  PROVE  ListInv' /\ StopInv'
<1>1. PICK status \in NewStatus(h, wish) :
        /\ busy' = [busy EXCEPT ![h].status = status, ![h].pc = "open",
                                ![h].asks = wish # {},
                                ![h].seen = IF status = "ACTIVE" THEN Seen ELSE {}]
        /\ raced' = IF status = "ACTIVE" THEN RacedWith(t) ELSE raced
  BY DEF EditSave
<1> DEFINE seen == IF status = "ACTIVE" THEN Seen ELSE {}
           asks == wish # {}
           q == [busy[h] EXCEPT !.status = status, !.pc = "open", !.asks = asks, !.seen = seen]
<1>2. busy' = [busy EXCEPT ![h] = q]
  BY <1>1 DEF ListInv, FollowTypeOK
<1>3. /\ busy[h] \in Requests /\ busy[h].op = "edit" /\ busy[h].pc = "loaded"
      /\ busy[h].trader = {t} /\ ~ Locked(t)
      /\ UNCHANGED <<rel, perms, active, list, excluded, stale>>
  BY DEF EditSave, ListInv, FollowTypeOK, Requests
<1>4. status \in FollowStatuses \cup {"NONE"} /\ (asks \/ status = busy[h].status)
  BY <1>3 DEF NewStatus, Requests
<1>5. asks \in BOOLEAN /\ seen \in SUBSET (Perms \X SUBSET Traders)
  BY SeenTyped DEF ListInv
<1> HIDE DEF seen, asks
<1>6. /\ q \in Requests /\ q.op = "edit" /\ q.trader = {t} /\ q.status = status
      /\ q.pc = "open" /\ q.asks = asks /\ q.seen = seen
  BY <1>3, <1>4, <1>5 DEF Requests
<1>7. ~ Open(h)
  BY <1>3 DEF Open
<1> HIDE DEF q
<1>8. ListInv'
  <2>1. q.seen = (IF q.status = "ACTIVE" THEN Seen ELSE {})
    BY <1>6 DEF seen
  <2>2. raced' = (IF q.status = "ACTIVE" THEN RacedWith(t) ELSE raced)
    BY <1>1, <1>6
  <2> QED
    BY <2>1, <2>2, <1>2, <1>3, <1>6, <1>7, OpensKeepsLists
<1>9. q.asks \/ (busy[h].pc = "loaded" /\ busy[h].trader = {t} /\ busy[h].status = q.status)
  BY <1>3, <1>4, <1>6
<1> QED
  BY <1>2, <1>3, <1>6, <1>8, <1>9, OpensKeepsStop

(* A request that begins without opening: an edit that loads its row, or a   *)
(* grant that loads the follows; or one that ends without effect.            *)
LEMMA EditLoadKeeps ==
  ASSUME ListInv, StopInv, NEW h \in Callers, NEW t \in Traders, EditLoad(h, t)
  PROVE  ListInv' /\ StopInv'
<1> DEFINE q == [NoRequest EXCEPT !.op = "edit", !.trader = {t}, !.status = rel[t],
                                  !.pc = "loaded"]
<1>1. /\ q \in Requests /\ q.op = "edit" /\ q.trader = {t} /\ q.status = rel[t]
      /\ q.pc = "loaded" /\ q.seen = {}
  BY DEF NoRequest, Requests, ListInv, FollowTypeOK
<1>2. busy' = [busy EXCEPT ![h] = q]
      /\ UNCHANGED <<rel, perms, active, list, excluded, raced, stale>>
  BY DEF EditLoad
<1> HIDE DEF q
<1>3. /\ busy'[h] = q /\ \A g \in Callers \ {h} : busy'[g] = busy[g]
      /\ busy' \in [Callers -> Requests]
  BY <1>1, <1>2, OneRequestMoves DEF ListInv
<1>4. FollowTypeOK'
  BY <1>2, <1>3 DEF ListInv, FollowTypeOK, Requests
<1>5. RequestShape'
  BY <1>1, <1>2, <1>3 DEF ListInv, RequestShape, Adds, Open
<1>6. \A g \in Callers : (Adds(g)' => g # h /\ Adds(g)) /\ (Open(g)' => g # h /\ Open(g))
  BY <1>1, <1>3 DEF Adds, Open
<1>7. ListsSeen' /\ NamesFollowed' /\ FollowedIsAllowed'
  BY <1>1, <1>2, <1>3, <1>6
     DEF ListInv, ListsSeen, NamesFollowed, FollowedIsAllowed, Allows
<1>8. SeenAllows'
  BY <1>1, <1>2, <1>3 DEF ListInv, SeenAllows
<1>9. WritersRace'
  BY <1>1, <1>2, <1>3, <1>6 DEF ListInv, WritersRace
<1>10. OneWriter'
  BY <1>3, <1>6 DEF StopInv, OneWriter
<1>11. HoldsStop'
  BY <1>1, <1>2, <1>3, <1>6 DEF StopInv, HoldsStop
<1> QED
  BY <1>4, <1>5, <1>7, <1>8, <1>9, <1>10, <1>11 DEF ListInv, StopInv

LEMMA GrantLoadKeeps ==
  ASSUME ListInv, StopInv, NEW h \in Callers, NEW chosen \in SUBSET Traders,
         GrantLoad(h, chosen)
  PROVE  ListInv' /\ StopInv'
<1> DEFINE followed == {t \in Traders : rel[t] = "ACTIVE"}
           named == IF chosen = {} THEN followed ELSE chosen
           asks == chosen # {}
           q == [NoRequest EXCEPT !.op = "grant", !.named = named, !.asks = asks]
<1>1. busy' = [busy EXCEPT ![h] = q] /\ UNCHANGED <<rel, perms, active, list, excluded, stale>>
  BY DEF GrantLoad
<1>2. named \in SUBSET Traders /\ asks \in BOOLEAN
      /\ (~ asks => \A t \in Traders : rel[t] = "ACTIVE" => t \in named)
  OBVIOUS
<1>3. raced' = raced \cup UNION {busy[g].trader : g \in Follows}
  BY DEF GrantLoad
<1> HIDE DEF named, asks
<1>4. /\ q \in Requests /\ q.op = "grant" /\ q.pc = "" /\ q.seen = {} /\ q.named = named
      /\ q.asks = asks /\ q.trader = {}
  BY <1>2 DEF NoRequest, Requests
<1> HIDE DEF q
<1>5. /\ busy'[h] = q /\ \A g \in Callers \ {h} : busy'[g] = busy[g]
      /\ busy' \in [Callers -> Requests]
  BY <1>1, <1>4, OneRequestMoves DEF ListInv
<1>6. raced \subseteq raced' /\ \A g \in Follows : busy[g].trader \subseteq raced'
  BY <1>3
<1>7. raced' \subseteq Traders
  <2>1. \A g \in Follows : busy[g].trader \subseteq Traders
    BY DEF FollowTypeOK, Follows, Writers, ListInv
  <2>2. raced \subseteq Traders
    BY DEF ListInv, FollowTypeOK
  <2> QED
    BY <1>3, <2>1, <2>2
<1>8. FollowTypeOK'
  BY <1>1, <1>5, <1>7 DEF ListInv, FollowTypeOK, Requests
<1>9. RequestShape'
  BY <1>1, <1>4, <1>5 DEF ListInv, RequestShape, Adds, Open
<1>10. \A g \in Callers : (Adds(g)' => g # h /\ Adds(g)) /\ (Open(g)' => g # h /\ Open(g))
  BY <1>4, <1>5 DEF Adds, Open
<1>11. ListsSeen' /\ FollowedIsAllowed'
  BY <1>1, <1>5, <1>6, <1>10 DEF ListInv, ListsSeen, FollowedIsAllowed, Allows
<1>12. SeenAllows'
  BY <1>1, <1>4, <1>5, <1>6 DEF ListInv, SeenAllows
<1>13. WritersRace'
  <2> SUFFICES ASSUME NEW f \in Callers, NEW g \in Callers \ {f}, Adds(f)',
                      Adds(g)' \/ busy'[g].op = "grant"
               PROVE  busy'[f].trader \subseteq raced'
    BY DEF WritersRace
  <2>1. Adds(f) /\ busy'[f] = busy[f]
    BY <1>5, <1>10
  <2> QED
    BY <2>1, <1>6, AddsFollows DEF ListInv
<1>14. NamesFollowed'
  BY <1>1, <1>2, <1>4, <1>5, <1>6 DEF ListInv, NamesFollowed
<1>15. OneWriter' /\ HoldsStop'
  BY <1>1, <1>4, <1>5, <1>10 DEF StopInv, OneWriter, HoldsStop
<1> QED
  BY <1>8, <1>9, <1>11, <1>12, <1>13, <1>14, <1>15 DEF ListInv, StopInv

LEMMA AbortKeeps ==
  ASSUME ListInv, StopInv, NEW h \in Callers, Abort(h)
  PROVE  ListInv' /\ StopInv'
<1>1. busy' = [busy EXCEPT ![h] = NoRequest]
      /\ UNCHANGED <<rel, perms, active, list, excluded, raced, stale>>
  BY DEF Abort
<1>2. /\ busy'[h] = NoRequest /\ \A g \in Callers \ {h} : busy'[g] = busy[g]
      /\ busy' \in [Callers -> Requests]
  BY <1>1, NoRequestRests, OneRequestMoves DEF ListInv
<1>3. FollowTypeOK'
  BY <1>1, <1>2 DEF ListInv, FollowTypeOK, Requests
<1>4. RequestShape'
  BY <1>1, <1>2, NoRequestRests DEF ListInv, RequestShape, Adds, Open
<1>5. \A g \in Callers : (Adds(g)' => g # h /\ Adds(g)) /\ (Open(g)' => g # h /\ Open(g))
  BY <1>2, NoRequestRests DEF Adds, Open
<1>6. ListsSeen' /\ NamesFollowed' /\ FollowedIsAllowed'
  BY <1>1, <1>2, <1>5, NoRequestRests
     DEF ListInv, ListsSeen, NamesFollowed, FollowedIsAllowed, Allows
<1>7. SeenAllows' /\ WritersRace'
  BY <1>1, <1>2, <1>5, NoRequestRests DEF ListInv, SeenAllows, WritersRace
<1>8. OneWriter' /\ HoldsStop'
  BY <1>1, <1>2, <1>5, NoRequestRests DEF StopInv, OneWriter, HoldsStop
<1> QED
  BY <1>3, <1>4, <1>6, <1>7, <1>8 DEF ListInv, StopInv

-----------------------------------------------------------------------------
LEMMA IncludeTyped ==
  ASSUME FollowTypeOK, NEW h \in Callers, NEW t \in Traders
  PROVE  Include(t, busy[h].seen) \in [Perms -> SUBSET Traders]
<1> SUFFICES ASSUME NEW p \in Perms
             PROVE  {t} \cup UNION {s[2] : s \in {x \in busy[h].seen : x[1] = p}}
                      \subseteq Traders
  BY DEF Include, FollowTypeOK
<1>1. busy[h].seen \subseteq Perms \X SUBSET Traders
  BY DEF FollowTypeOK
<1>2. \A s \in Perms \X SUBSET Traders : s[2] \in SUBSET Traders
  OBVIOUS
<1>3. \A s \in busy[h].seen : s[2] \subseteq Traders
  BY <1>1, <1>2
<1> QED
  BY <1>3

(* What the write leaves in a list: the list, or all that was seen and t.    *)
LEMMA IncludeAdds ==
  ASSUME NEW t, NEW seen, NEW p \in Perms
  PROVE  \/ Include(t, seen)[p] = list[p]
         \/ /\ t \in Include(t, seen)[p]
            /\ \E s \in seen : s[1] = p /\ s[2] # {} /\ s[2] \subseteq Include(t, seen)[p]
<1> DEFINE named == UNION {s[2] : s \in {x \in seen : x[1] = p}}
<1>1. \A s \in seen : s[1] = p => s[2] \subseteq named
  OBVIOUS
<1>2. Include(t, seen)[p] = IF \E s \in seen : s[1] = p /\ s[2] # {} /\ t \notin s[2]
                              THEN {t} \cup named ELSE list[p]
  BY DEF Include
<1> HIDE DEF named
<1> QED
  BY <1>1, <1>2

LEMMA IncludeReaches ==
  ASSUME NEW t, NEW seen, NEW p \in Perms, <<p, list[p]>> \in seen
  PROVE  Include(t, seen)[p] = {} \/ t \in Include(t, seen)[p]
  BY DEF Include

LEMMA CommitFollowKeeps ==
  ASSUME ListInv, StopInv, NEW h \in Callers, NEW t \in Traders, CommitFollow(h, t)
  PROVE  ListInv' /\ StopInv'
<1> DEFINE s0 == busy[h].status
<1>1. /\ Open(h) /\ busy[h].trader = {t}
      /\ rel' = [rel EXCEPT ![t] = s0] /\ list' = Include(t, busy[h].seen)
      /\ excluded' = (IF s0 = "ACTIVE" THEN excluded \ {t} ELSE excluded)
      /\ stale' = (IF s0 = "STOPPED" THEN stale \cup Loaded(t) ELSE stale)
      /\ busy' = [busy EXCEPT ![h] = NoRequest] /\ UNCHANGED <<perms, active, raced>>
  BY DEF CommitFollow, Open
<1>2. /\ busy'[h] = NoRequest /\ \A g \in Callers \ {h} : busy'[g] = busy[g]
      /\ busy' \in [Callers -> Requests]
  BY <1>1, NoRequestRests, OneRequestMoves DEF ListInv
<1>3. s0 \in FollowStatuses \cup {"NONE"} /\ Loaded(t) \subseteq {t}
  BY DEF ListInv, FollowTypeOK, Loaded
<1>4. list' \in [Perms -> SUBSET Traders]
  BY <1>1, IncludeTyped DEF ListInv
<1>5. FollowTypeOK'
  <2>1. rel' \in [Traders -> FollowStatuses \cup {"NONE"}]
    BY <1>1, <1>3 DEF ListInv, FollowTypeOK
  <2>2. excluded' \subseteq Traders /\ stale' \subseteq Traders
    BY <1>1, <1>3 DEF ListInv, FollowTypeOK
  <2> QED
    BY <1>1, <1>2, <1>4, <2>1, <2>2 DEF ListInv, FollowTypeOK, Requests
<1>6. RequestShape'
  BY <1>1, <1>2, NoRequestRests DEF ListInv, RequestShape, Adds, Open
<1>7. \A g \in Callers :
        /\ Adds(g)' => g # h /\ Adds(g) /\ busy'[g] = busy[g]
        /\ Open(g)' => g # h /\ Open(g) /\ busy'[g] = busy[g]
  BY <1>2, NoRequestRests DEF Adds, Open
<1>8. rel'[t] = s0 /\ \A u \in Traders \ {t} : rel'[u] = rel[u]
  BY <1>1 DEF ListInv, FollowTypeOK
<1>9. ASSUME s0 # "ACTIVE" PROVE ListInv'
  <2>1. ~ Adds(h)
    BY <1>9 DEF Adds
  <2>2. busy[h].seen = {}
    BY <2>1 DEF ListInv, RequestShape
  <2>3. list' = list
    BY <1>1, <2>2 DEF Include, ListInv, FollowTypeOK
  <2>4. excluded' = excluded
    BY <1>1, <1>9
  <2>5. \A u \in Traders : rel'[u] = "ACTIVE" => rel[u] = "ACTIVE"
    BY <1>8, <1>9
  <2>6. ListsSeen' /\ FollowedIsAllowed'
    BY <1>1, <1>7, <2>3, <2>4, <2>5 DEF ListInv, ListsSeen, FollowedIsAllowed, Allows
  <2>7. SeenAllows'
    BY <1>1, <1>2, <2>4, <2>5, NoRequestRests DEF ListInv, SeenAllows
  <2>8. WritersRace'
    BY <1>1, <1>2, <1>7, NoRequestRests DEF ListInv, WritersRace
  <2>9. NamesFollowed'
    BY <1>1, <1>2, <2>5, NoRequestRests DEF ListInv, NamesFollowed
  <2> QED
    BY <1>5, <1>6, <2>6, <2>7, <2>8, <2>9 DEF ListInv
<1>10. ASSUME s0 = "ACTIVE" PROVE ListInv'
  <2>1. Adds(h)
    BY <1>1, <1>10 DEF Adds
  <2>2. \A g \in Callers \ {h} : Adds(g) => busy[g].trader \subseteq raced
    BY <2>1 DEF ListInv, WritersRace
  <2>3. \A g \in Callers \ {h} : busy[g].op = "grant" \/ Adds(g) => t \in raced
    BY <1>1, <2>1 DEF ListInv, WritersRace
  <2>4. ListsSeen'
    BY <1>1, <1>7, <2>2 DEF ListsSeen
  <2>5. SeenAllows'
    <3> SUFFICES ASSUME NEW g \in Callers, NEW u \in Traders \ (raced \cup excluded'),
                        NEW s \in busy'[g].seen, s[1] \in active, rel'[u] = "ACTIVE"
                 PROVE  s[2] = {} \/ u \in s[2]
      BY <1>1 DEF SeenAllows
    <3>1. g # h /\ s \in busy[g].seen
      BY <1>2, NoRequestRests
    <3>2. Adds(g)
      BY <3>1 DEF ListInv, RequestShape
    <3>3. u # t
      BY <3>1, <3>2, <2>3
    <3>4. rel[u] = "ACTIVE" /\ u \notin excluded
      BY <3>3, <1>1, <1>8
    <3> QED
      BY <3>1, <3>4 DEF ListInv, SeenAllows
  <2>6. WritersRace'
    BY <1>1, <1>2, <1>7, NoRequestRests DEF ListInv, WritersRace
  <2>7. NamesFollowed'
    <3> SUFFICES ASSUME NEW g \in Callers, NEW u \in Traders \ raced,
                        busy'[g].op = "grant", ~ busy'[g].asks, rel'[u] = "ACTIVE"
                 PROVE  u \in busy'[g].named
      BY <1>1 DEF NamesFollowed
    <3>1. g # h /\ busy'[g] = busy[g]
      BY <1>2, NoRequestRests
    <3>2. u # t
      BY <3>1, <2>3
    <3> QED
      BY <3>1, <3>2, <1>8 DEF ListInv, NamesFollowed
  <2>8. FollowedIsAllowed'
    <3> SUFFICES ASSUME NEW u \in Traders \ (raced \cup excluded'), NEW p \in active,
                        rel'[u] = "ACTIVE"
                 PROVE  list'[p] = {} \/ u \in list'[p]
      BY <1>1 DEF FollowedIsAllowed, Allows
    <3>1. p \in Perms
      BY DEF ListInv, FollowTypeOK
    <3>2. CASE u = t
      <4>1. <<p, list[p]>> \in busy[h].seen
        BY <3>2, <1>1, <2>1 DEF ListInv, ListsSeen
      <4> QED
        BY <3>1, <3>2, <4>1, <1>1, IncludeReaches
    <3>3. CASE u # t
      <4>1. rel[u] = "ACTIVE" /\ u \notin raced \cup excluded
        BY <3>3, <1>1, <1>8
      <4>2. list[p] = {} \/ u \in list[p]
        BY <4>1 DEF ListInv, FollowedIsAllowed, Allows
      <4>3. \A s \in busy[h].seen : s[1] = p => s[2] = {} \/ u \in s[2]
        BY <4>1 DEF ListInv, SeenAllows
      <4> QED
        BY <3>1, <4>2, <4>3, <1>1, IncludeAdds
    <3> QED
      BY <3>2, <3>3
  <2> QED
    BY <1>5, <1>6, <2>4, <2>5, <2>6, <2>7, <2>8 DEF ListInv
<1>11. OneWriter'
  BY <1>7 DEF StopInv, OneWriter
<1>12. HoldsStop'
  <2> SUFFICES ASSUME NEW g \in Callers, NEW u \in Traders \ stale',
                      busy'[g].trader = {u}, rel'[u] = "STOPPED",
                      busy'[g].pc = "loaded" \/ (Open(g)' /\ ~ busy'[g].asks)
               PROVE  busy'[g].status = "STOPPED"
    BY DEF HoldsStop
  <2>1. g # h /\ busy'[g] = busy[g] /\ u \notin stale
    BY <1>1, <1>2, NoRequestRests
  <2>2. CASE u = t
    <3>1. s0 = "STOPPED"
      BY <2>2, <1>8
    <3>2. busy[g].pc = "loaded" => u \in Loaded(t)
      BY <2>1, <2>2 DEF Loaded
    <3>3. busy[g].pc # "loaded"
      BY <3>1, <3>2, <1>1
    <3>4. Open(g)
      BY <2>1, <3>3 DEF Open
    <3> QED
      BY <2>1, <2>2, <3>4, <1>1 DEF StopInv, OneWriter
  <2>3. CASE u # t
    BY <2>1, <2>3, <1>7, <1>8 DEF StopInv, HoldsStop
  <2> QED
    BY <2>2, <2>3
<1> QED
  BY <1>5, <1>6, <1>9, <1>10, <1>11, <1>12 DEF StopInv

LEMMA StopKeeps ==
  ASSUME ListInv, StopInv, NEW t \in Traders, Stop(t)
  PROVE  ListInv' /\ StopInv'
<1>1. /\ rel' = [rel EXCEPT ![t] = "STOPPED"] /\ ~ Locked(t) /\ stale' = stale \cup Loaded(t)
      /\ UNCHANGED <<perms, active, list, busy, excluded, raced>>
  BY DEF Stop
<1>2. rel'[t] = "STOPPED" /\ \A u \in Traders \ {t} : rel'[u] = rel[u]
  BY <1>1 DEF ListInv, FollowTypeOK
<1>3. Loaded(t) \subseteq {t}
  BY DEF Loaded
<1>4. FollowTypeOK'
  BY <1>1, <1>3 DEF ListInv, FollowTypeOK, FollowStatuses
<1>5. \A u \in Traders : rel'[u] = "ACTIVE" => rel[u] = "ACTIVE"
  BY <1>2
<1>6. RequestShape' /\ ListsSeen' /\ WritersRace'
  BY <1>1 DEF ListInv, RequestShape, ListsSeen, WritersRace, Adds, Open
<1>7. SeenAllows' /\ NamesFollowed' /\ FollowedIsAllowed'
  BY <1>1, <1>5 DEF ListInv, SeenAllows, NamesFollowed, FollowedIsAllowed, Allows
<1>8. OneWriter'
  BY <1>1 DEF StopInv, OneWriter, Open
<1>9. HoldsStop'
  <2> SUFFICES ASSUME NEW g \in Callers, NEW u \in Traders \ stale',
                      busy[g].trader = {u}, rel'[u] = "STOPPED",
                      busy[g].pc = "loaded" \/ (Open(g) /\ ~ busy[g].asks)
               PROVE  busy[g].status = "STOPPED"
    BY <1>1 DEF HoldsStop, Open
  <2>1. CASE u = t
    <3>1. ~ Open(g)
      BY <2>1, <1>1 DEF Locked, Open
    <3>2. busy[g].pc = "loaded" => u \in Loaded(t)
      BY <2>1 DEF Loaded
    <3> QED
      BY <3>1, <3>2, <1>1
  <2>2. CASE u # t
    BY <2>2, <1>1, <1>2 DEF StopInv, HoldsStop
  <2> QED
    BY <2>1, <2>2
<1> QED
  BY <1>4, <1>6, <1>7, <1>8, <1>9 DEF ListInv, StopInv

(* A grant: nobody has seen the list of the new permission, and every open   *)
(* follow has raced.                                                         *)
LEMMA GrantCommitKeeps ==
  ASSUME ListInv, StopInv, NEW h \in Callers, NEW p \in Perms, GrantCommit(h, p)
  PROVE  ListInv' /\ StopInv'
<1>1. /\ busy[h].op = "grant" /\ p \notin perms
      /\ perms' = perms \cup {p} /\ active' = {p}
      /\ list' = [list EXCEPT ![p] = busy[h].named]
      /\ raced' = raced \cup UNION {busy[g].trader : g \in Follows}
      /\ excluded' = (IF busy[h].asks THEN Traders \ busy[h].named ELSE {})
      /\ busy' = [busy EXCEPT ![h] = NoRequest] /\ UNCHANGED <<rel, stale>>
  BY DEF GrantCommit, OnlyPermission
<1>2. /\ busy'[h] = NoRequest /\ \A g \in Callers \ {h} : busy'[g] = busy[g]
      /\ busy' \in [Callers -> Requests]
  BY <1>1, NoRequestRests, OneRequestMoves DEF ListInv
<1>3. raced \subseteq raced' /\ \A g \in Follows : busy[g].trader \subseteq raced'
  BY <1>1
<1>4. raced' \subseteq Traders
  <2>1. \A g \in Follows : busy[g].trader \subseteq Traders
    BY DEF FollowTypeOK, Follows, Writers, ListInv
  <2>2. raced \subseteq Traders
    BY DEF ListInv, FollowTypeOK
  <2> QED
    BY <1>1, <2>1, <2>2
<1>5. busy[h].named \subseteq Traders /\ list'[p] = busy[h].named
  BY <1>1 DEF ListInv, FollowTypeOK
<1>6. FollowTypeOK'
  <2>1. list' \in [Perms -> SUBSET Traders]
    BY <1>1, <1>5 DEF ListInv, FollowTypeOK
  <2>2. excluded' \subseteq Traders /\ active' \subseteq perms' /\ perms' \subseteq Perms
    BY <1>1 DEF ListInv, FollowTypeOK
  <2> QED
    BY <1>1, <1>2, <1>4, <2>1, <2>2 DEF ListInv, FollowTypeOK, Requests
<1>7. RequestShape'
  BY <1>1, <1>2, NoRequestRests DEF ListInv, RequestShape, Adds, Open
<1>8. \A g \in Callers :
        /\ Adds(g)' => g # h /\ Adds(g) /\ busy'[g] = busy[g]
        /\ Open(g)' => g # h /\ Open(g) /\ busy'[g] = busy[g]
  BY <1>2, NoRequestRests DEF Adds, Open
<1>9. \A g \in Callers : Adds(g)' => busy'[g].trader \subseteq raced'
  BY <1>3, <1>8, AddsFollows DEF ListInv
<1>10. ListsSeen' /\ WritersRace'
  BY <1>9 DEF ListsSeen, WritersRace
<1>11. SeenAllows'
  <2> SUFFICES ASSUME NEW g \in Callers, NEW s \in busy'[g].seen, s[1] \in active'
               PROVE  FALSE
    BY DEF SeenAllows
  <2>1. g # h /\ s \in busy[g].seen
    BY <1>2, NoRequestRests
  <2>2. s[1] \in perms
    BY <2>1 DEF ListInv, RequestShape
  <2> QED
    BY <2>2, <1>1
<1>12. NamesFollowed'
  BY <1>1, <1>2, <1>3, NoRequestRests DEF ListInv, NamesFollowed
<1>13. FollowedIsAllowed'
  <2> SUFFICES ASSUME NEW t \in Traders \ (raced' \cup excluded'), rel[t] = "ACTIVE"
               PROVE  t \in list'[p]
    BY <1>1 DEF FollowedIsAllowed, Allows
  <2>1. CASE busy[h].asks
    BY <2>1, <1>1, <1>5
  <2>2. CASE ~ busy[h].asks
    BY <2>2, <1>1, <1>3, <1>5 DEF ListInv, NamesFollowed
  <2> QED
    BY <2>1, <2>2
<1>14. OneWriter'
  BY <1>8 DEF StopInv, OneWriter
<1>15. HoldsStop'
  BY <1>1, <1>2, <1>8, NoRequestRests DEF StopInv, HoldsStop
<1> QED
  BY <1>6, <1>7, <1>10, <1>11, <1>12, <1>13, <1>14, <1>15 DEF ListInv, StopInv

LEMMA FollowInvInit == FollowInit => ListInv /\ StopInv
<1> SUFFICES ASSUME FollowInit PROVE ListInv /\ StopInv
  OBVIOUS
<1>1. \A h \in Callers : busy[h] = NoRequest
  BY DEF FollowInit
<1>2. FollowTypeOK
  BY NoRequestRests DEF FollowInit, FollowTypeOK, Requests
<1>3. RequestShape
  BY <1>1, NoRequestRests DEF RequestShape, Adds, Open
<1>4. ListsSeen /\ SeenAllows /\ WritersRace /\ FollowedIsAllowed
  BY <1>1, NoRequestRests
     DEF FollowInit, ListsSeen, SeenAllows, WritersRace, FollowedIsAllowed, Adds, Open
<1>5. NamesFollowed /\ OneWriter /\ HoldsStop
  BY <1>1, NoRequestRests DEF NamesFollowed, OneWriter, HoldsStop, Open
<1> QED
  BY <1>2, <1>3, <1>4, <1>5 DEF ListInv, StopInv

LEMMA FollowInvStep ==
  ASSUME ListInv, StopInv, [FollowNext]_follows
  PROVE  ListInv' /\ StopInv'
<1>1. CASE UNCHANGED follows
  <2>1. UNCHANGED <<rel, perms, active, list, busy, excluded, raced, stale>>
    BY <1>1 DEF follows
  <2>2. FollowTypeOK' /\ RequestShape' /\ ListsSeen' /\ SeenAllows'
    BY <2>1 DEF ListInv, FollowTypeOK, RequestShape, ListsSeen, SeenAllows, Adds, Open
  <2>3. WritersRace' /\ NamesFollowed' /\ FollowedIsAllowed' /\ OneWriter' /\ HoldsStop'
    BY <2>1 DEF ListInv, StopInv, WritersRace, NamesFollowed, FollowedIsAllowed, Allows,
                OneWriter, HoldsStop, Adds, Open
  <2> QED
    BY <2>2, <2>3 DEF ListInv, StopInv
<1>2. CASE Revoke
  <2>1. active' = {} /\ UNCHANGED <<rel, perms, list, busy, excluded, raced, stale>>
    BY <1>2 DEF Revoke
  <2>2. FollowTypeOK' /\ RequestShape' /\ ListsSeen' /\ SeenAllows'
    BY <2>1 DEF ListInv, FollowTypeOK, RequestShape, ListsSeen, SeenAllows, Adds, Open
  <2>3. WritersRace' /\ NamesFollowed' /\ FollowedIsAllowed' /\ OneWriter' /\ HoldsStop'
    BY <2>1 DEF ListInv, StopInv, WritersRace, NamesFollowed, FollowedIsAllowed,
                OneWriter, HoldsStop, Adds, Open
  <2> QED
    BY <2>2, <2>3 DEF ListInv, StopInv
<1> QED
  BY <1>1, <1>2, FollowKeeps, EditLoadKeeps, EditSaveKeeps, CommitFollowKeeps, GrantLoadKeeps,
     AbortKeeps, GrantCommitKeeps, StopKeeps DEF FollowNext

(* "A later /follow must be copyable" (FollowedIsAllowed): the permission in *)
(* force allows every trader the user follows, unless its owner left that    *)
(* trader out or the follow met another writer of the lists.                 *)
THEOREM FollowedTradersAllowed == FollowSpec => []FollowedIsAllowed
<1>1. ListInv => FollowedIsAllowed
  BY DEF ListInv
<1> QED
  BY <1>1, FollowInvInit, FollowInvStep, PTL DEF FollowSpec

(* KeepsStopped: a relationship the user stopped becomes active again only   *)
(* by a request that asks for it, or by an edit loaded before the stop.      *)
THEOREM StoppedTradersStay == FollowSpec => StoppedStays
<1>1. ASSUME ListInv, StopInv, [FollowNext]_follows
      PROVE  KeepsStopped
  <2> SUFFICES ASSUME NEW t \in Traders \ stale, rel[t] = "STOPPED", rel'[t] # "STOPPED"
               PROVE  \E h \in Callers : /\ busy[h].trader = {t} /\ busy[h].pc = "open"
                                         /\ busy[h].asks
    BY DEF KeepsStopped
  <2>1. \A h \in Callers, u \in Traders :
          CommitFollow(h, u) => rel' = [rel EXCEPT ![u] = busy[h].status]
    BY DEF CommitFollow
  <2>2. PICK h \in Callers, u \in Traders : CommitFollow(h, u)
    <3>1. \A u \in Traders : Stop(u) => rel'[t] = rel[t] \/ rel'[t] = "STOPPED"
      BY DEF Stop, ListInv, FollowTypeOK
    <3>2. UNCHANGED follows \/ Revoke => rel' = rel
      BY DEF follows, Revoke
    <3>3. \A g \in Callers, u \in Traders : Follow(g, u) \/ EditLoad(g, u) => rel' = rel
      BY DEF Follow, EditLoad
    <3>4. \A g \in Callers, u \in Traders, wish \in {{}} \cup {{x} : x \in FollowStatuses} :
            EditSave(g, u, wish) => rel' = rel
      BY DEF EditSave
    <3>5. \A g \in Callers : (\E chosen \in SUBSET Traders : GrantLoad(g, chosen)) \/ Abort(g)
                               => rel' = rel
      BY DEF GrantLoad, Abort
    <3>6. \A g \in Callers, p \in Perms : GrantCommit(g, p) => rel' = rel
      BY DEF GrantCommit
    <3> QED
      BY <1>1, <3>1, <3>2, <3>3, <3>4, <3>5, <3>6 DEF FollowNext
  <2>3. u = t
    <3>1. DOMAIN rel = Traders
      BY <1>1 DEF ListInv, FollowTypeOK
    <3>2. rel' = [rel EXCEPT ![u] = busy[h].status]
      BY <2>1, <2>2
    <3>3. u # t => rel'[t] = rel[t]
      BY <3>1, <3>2
    <3> QED
      BY <3>3
  <2>4. busy[h].trader = {t} /\ Open(h) /\ busy[h].status # "STOPPED"
    BY <1>1, <2>1, <2>2, <2>3 DEF CommitFollow, Open, ListInv, FollowTypeOK
  <2>5. busy[h].asks
    BY <1>1, <2>4 DEF StopInv, HoldsStop, FollowTypeOK
  <2> QED
    BY <2>4, <2>5 DEF Open
<1> QED
  BY <1>1, FollowInvInit, FollowInvStep, PTL DEF FollowSpec, StoppedStays
=============================================================================
