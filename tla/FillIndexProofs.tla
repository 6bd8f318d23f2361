--------------------------- MODULE FillIndexProofs ---------------------------
(***************************************************************************)
(* Proofs about FillIndex for any fills, traders and threads: what is       *)
(* inserted twice, and what the profiles count.                             *)
(***************************************************************************)
EXTENDS FillIndex, FiniteSetTheorems, TLAPS

Pc == {"idle", "fetch", "check", "write", "copy"}
Job == [pc: Pc, behind: BOOLEAN, seen: SUBSET Fills, new: SUBSET Fills,
        todo: SUBSET (Fills \X Nat)]

IndexTypes ==
  /\ made \subseteq Fills /\ reach \subseteq Fills
  /\ rows \in [Fills -> Nat]
  /\ total \in [Traders -> Nat]
  /\ sync \in [Threads -> Job]

(* A sync about to write inserts what it saw and did not find, and only then *)
(* has something to insert; what it did find is there still.                 *)
InsertsTheRest ==
  \A t \in Threads :
    /\ sync[t].pc # "write" => sync[t].new = {}
    /\ sync[t].pc = "write" => \A f \in sync[t].seen \ sync[t].new : rows[f] > 0

(* What a sync is about to insert is not there yet, and nobody else is about *)
(* to insert it, but for the overlaps.                                       *)
InsertsOnce ==
  \A t \in Threads, f \in Fills \ overlapped :
    f \in sync[t].new => /\ rows[f] = 0
                         /\ \A s \in Threads \ {t} : f \notin sync[s].new

IndexInv ==
  IndexTypes /\ InsertsTheRest /\ InsertsOnce /\ IndexedOnce /\ CountedAreIndexed

Indexed(w) == {f \in Fills : TraderOf[f] = w /\ rows[f] > 0}

-----------------------------------------------------------------------------
LEMMA IdleJob == Idle \in Job
  BY DEF Idle, Job, Pc

(* A part of the fills is finite, and counts no more than a larger part.     *)
LEMMA Counts ==
  ASSUME NEW A, NEW B, A \subseteq B, B \subseteq Fills
  PROVE  Cardinality(A) \in Nat /\ Cardinality(B) \in Nat /\ Cardinality(A) <= Cardinality(B)
<1>1. IsFiniteSet(B)
  BY FillConstants, FS_Subset
<1>2. IsFiniteSet(A) /\ Cardinality(A) <= Cardinality(B)
  BY <1>1, FS_Subset
<1> QED
  BY <1>1, <1>2, FS_CardinalityType

LEMMA NothingToCount == Cardinality({}) = 0
  BY FS_EmptySet

(* A step that changes no row and no profile keeps the counts.               *)
LEMMA CountsKept ==
  ASSUME CountedAreIndexed, UNCHANGED <<rows, total>>
  PROVE  CountedAreIndexed'
  BY DEF CountedAreIndexed

(* A step that gives one thread a job with nothing to insert keeps the rest. *)
LEMMA JobChanges ==
  ASSUME IndexInv, NEW t \in Threads, NEW j \in Job, sync' = [sync EXCEPT ![t] = j],
         j.new = {}, j.pc # "write", UNCHANGED <<made, reach, rows, total>>,
         overlapped' = overlapped
  PROVE  IndexInv'
<1> USE DEF IndexInv
<1>1. IndexTypes'
  BY DEF IndexTypes
<1>2. InsertsTheRest'
  BY DEF IndexTypes, InsertsTheRest
<1>3. InsertsOnce'
  BY DEF IndexTypes, InsertsOnce
<1>4. IndexedOnce'
  BY DEF IndexedOnce
<1>5. CountedAreIndexed'
  BY CountsKept
<1> QED
  BY <1>1, <1>2, <1>3, <1>4, <1>5

(* What the environment does, and the end of a sync that did not write.      *)
LEMMA OutsideKeeps ==
  ASSUME IndexInv, made' \subseteq Fills, reach' \subseteq Fills,
         UNCHANGED <<rows, total, sync, overlapped>>
  PROVE  IndexInv'
<1> USE DEF IndexInv
<1>1. IndexTypes' /\ InsertsTheRest' /\ InsertsOnce' /\ IndexedOnce'
  BY DEF IndexTypes, InsertsTheRest, InsertsOnce, IndexedOnce
<1> QED
  BY <1>1, CountsKept

LEMMA InitHolds == Init => IndexInv
<1> SUFFICES ASSUME Init PROVE IndexInv
  OBVIOUS
<1>1. IndexTypes /\ InsertsTheRest /\ InsertsOnce /\ IndexedOnce
  BY IdleJob DEF Init, Idle, IndexTypes, InsertsTheRest, InsertsOnce, IndexedOnce
<1>2. CountedAreIndexed
  <2> SUFFICES ASSUME NEW w \in Traders PROVE total[w] <= Cardinality(Indexed(w))
    BY DEF CountedAreIndexed, Indexed
  <2>1. Cardinality(Indexed(w)) \in Nat
    BY Counts DEF Indexed
  <2> QED
    BY <2>1 DEF Init
<1> QED
  BY <1>1, <1>2 DEF IndexInv

LEMMA CheckKeeps ==
  ASSUME IndexInv, NEW t \in Threads, Check(t)
  PROVE  IndexInv'
<1> DEFINE new == NotIndexed(sync[t].seen)
           j == [sync[t] EXCEPT !.pc = "write", !.new = new]
<1> USE DEF IndexInv
<1>1. /\ sync[t] \in Job /\ sync[t].seen \subseteq Fills /\ new \subseteq sync[t].seen
      /\ \A f \in new : rows[f] = 0
      /\ \A f \in sync[t].seen \ new : rows[f] > 0
  BY DEF IndexTypes, Job, NotIndexed
<1>2. /\ j \in Job /\ j.pc = "write" /\ j.new = new /\ j.seen = sync[t].seen
      /\ sync' = [sync EXCEPT ![t] = j]
  BY <1>1 DEF Check, Job, Pc, IndexTypes
<1>3. /\ UNCHANGED <<made, reach, rows, total>>
      /\ overlapped' =
           overlapped \cup {f \in new : \E s \in Threads \ {t} : f \in sync[s].new}
  BY DEF Check, dreamdex
<1> HIDE DEF new, j
<1>4. /\ sync'[t] = j /\ \A s \in Threads \ {t} : sync'[s] = sync[s]
  BY <1>2 DEF IndexTypes
<1>5. IndexTypes'
  BY <1>2, <1>3 DEF IndexTypes
<1>6. InsertsTheRest'
  BY <1>1, <1>2, <1>3, <1>4 DEF InsertsTheRest
<1>7. InsertsOnce'
  <2> SUFFICES ASSUME NEW u \in Threads, NEW f \in Fills \ overlapped', f \in sync'[u].new
               PROVE  rows[f] = 0 /\ \A s \in Threads \ {u} : f \notin sync'[s].new
    BY <1>3 DEF InsertsOnce
  <2>1. f \notin overlapped
    BY <1>3
  <2>2. CASE u = t
    BY <2>1, <2>2, <1>1, <1>2, <1>3, <1>4
  <2>3. CASE u # t
    BY <2>1, <2>3, <1>2, <1>3, <1>4 DEF InsertsOnce
  <2> QED
    BY <2>2, <2>3
<1>8. IndexedOnce'
  BY <1>3 DEF IndexedOnce
<1>9. CountedAreIndexed'
  BY <1>3, CountsKept
<1> QED
  BY <1>5, <1>6, <1>7, <1>8, <1>9

LEMMA WriteKeeps ==
  ASSUME IndexInv, NEW t \in Threads, Write(t)
  PROVE  IndexInv'
<1> DEFINE s == sync[t]
           j == [Idle EXCEPT !.pc = "copy", !.behind = s.behind,
                             !.todo = ToCopy(s.seen, s.new)]
<1> USE DEF IndexInv
<1>1. s \in Job /\ s.pc = "write" /\ s.seen \subseteq Fills /\ s.new \subseteq Fills
  BY DEF Write, IndexTypes, Job
<1>2. rows' = [f \in Fills |-> rows[f] + (IF f \in s.new THEN 1 ELSE 0)]
  BY DEF Write
<1>3. /\ rows' \in [Fills -> Nat]
      /\ \A f \in Fills : rows'[f] >= rows[f] /\ (f \in s.new => rows'[f] = rows[f] + 1)
                          /\ (f \notin s.new => rows'[f] = rows[f])
  BY <1>2 DEF IndexTypes
<1>4. ToCopy(s.seen, s.new) \subseteq Fills \X Nat
  <2>1. Rows' \subseteq Fills \X Nat
    BY DEF Rows
  <2> QED
    BY <2>1 DEF ToCopy
<1>5. j \in Job /\ j.new = {} /\ j.pc = "copy" /\ sync' = [sync EXCEPT ![t] = j]
  BY <1>1, <1>4 DEF Write, Idle, Job, Pc
<1>6. UNCHANGED <<made, reach, overlapped>> /\ total' = Statistics(s.seen)
  BY DEF Write, dreamdex
<1> HIDE DEF j
<1>7. \A w \in Traders : total'[w] \in Nat /\ total'[w] <= Cardinality(Indexed(w)')
  <2> SUFFICES ASSUME NEW w \in Traders
               PROVE  total'[w] \in Nat /\ total'[w] <= Cardinality(Indexed(w)')
    OBVIOUS
  <2> DEFINE mine == {f \in s.seen : TraderOf[f] = w}
  <2>1. total'[w] = IF mine = {} THEN total[w] ELSE Cardinality(mine)
    BY <1>6 DEF Statistics
  <2>2. Indexed(w) \subseteq Indexed(w)' /\ Indexed(w)' \subseteq Fills
    BY <1>3 DEF Indexed, IndexTypes
  <2>3. mine \subseteq Indexed(w)'
    BY <1>1, <1>3 DEF Indexed, InsertsTheRest, IndexTypes
  <2>4. /\ Cardinality(Indexed(w)') \in Nat /\ Cardinality(Indexed(w)) \in Nat
        /\ Cardinality(Indexed(w)) <= Cardinality(Indexed(w)')
    BY <2>2, Counts
  <2>5. total[w] \in Nat /\ total[w] <= Cardinality(Indexed(w))
    BY DEF CountedAreIndexed, Indexed, IndexTypes
  <2>6. Cardinality(mine) \in Nat /\ Cardinality(mine) <= Cardinality(Indexed(w)')
    BY <2>2, <2>3, Counts
  <2> HIDE DEF mine
  <2> QED
    BY <2>1, <2>4, <2>5, <2>6
<1>8. IndexTypes'
  <2>1. total' \in [Traders -> Nat]
    <3>1. total' = [w \in Traders |-> total'[w]]
      BY <1>6 DEF Statistics
    <3> QED
      BY <3>1, <1>7
  <2> QED
    BY <2>1, <1>3, <1>5, <1>6 DEF IndexTypes
<1>9. sync'[t] = j /\ \A u \in Threads \ {t} : sync'[u] = sync[u]
  BY <1>5 DEF IndexTypes
<1>10. InsertsTheRest'
  <2> SUFFICES ASSUME NEW u \in Threads
               PROVE  /\ sync'[u].pc # "write" => sync'[u].new = {}
                      /\ sync'[u].pc = "write" =>
                           \A f \in sync'[u].seen \ sync'[u].new : rows'[f] > 0
    BY DEF InsertsTheRest
  <2>1. CASE u = t
    BY <2>1, <1>5, <1>9
  <2>2. CASE u # t
    <3>1. sync'[u] = sync[u] /\ sync[u].seen \subseteq Fills
      BY <2>2, <1>9 DEF IndexTypes, Job
    <3> QED
      BY <3>1, <1>3 DEF InsertsTheRest, IndexTypes
  <2> QED
    BY <2>1, <2>2
<1>11. InsertsOnce'
  <2> SUFFICES ASSUME NEW u \in Threads, NEW f \in Fills \ overlapped, f \in sync'[u].new
               PROVE  rows'[f] = 0 /\ \A v \in Threads \ {u} : f \notin sync'[v].new
    BY <1>6 DEF InsertsOnce
  <2>1. u # t /\ f \in sync[u].new
    BY <1>5, <1>9
  <2>2. rows[f] = 0 /\ \A v \in Threads \ {u} : f \notin sync[v].new
    BY <2>1 DEF InsertsOnce
  <2>3. f \notin s.new
    BY <2>1, <2>2
  <2> QED
    BY <2>2, <2>3, <1>3, <1>5, <1>9
<1>12. IndexedOnce'
  <2> SUFFICES ASSUME NEW f \in Fills, rows'[f] > 1 PROVE f \in overlapped
    BY <1>6 DEF IndexedOnce
  <2>1. CASE f \in s.new
    BY <2>1, <1>3 DEF InsertsOnce
  <2>2. CASE f \notin s.new
    BY <2>2, <1>3 DEF IndexedOnce
  <2> QED
    BY <2>1, <2>2
<1>13. CountedAreIndexed'
  BY <1>7 DEF CountedAreIndexed, Indexed
<1> QED
  BY <1>8, <1>10, <1>11, <1>12, <1>13

LEMMA StepKeeps == IndexInv /\ [Next]_vars => IndexInv'
<1> SUFFICES ASSUME IndexInv, [Next]_vars PROVE IndexInv'
  OBVIOUS
<1>0. IndexTypes /\ InsertsTheRest
  BY DEF IndexInv
<1>1. ASSUME NEW f \in Fills, Trade(f) \/ Age(f) \/ Rank(f) PROVE IndexInv'
  BY <1>0, <1>1, OutsideKeeps DEF Trade, Age, Rank, IndexTypes
<1>2. ASSUME NEW w \in Traders, Follow(w) PROVE IndexInv'
  BY <1>0, <1>2, OutsideKeeps DEF Follow, IndexTypes
<1>3. ASSUME NEW k \in keys, Lapse(k) PROVE IndexInv'
  BY <1>0, <1>3, OutsideKeeps DEF Lapse, dreamdex, IndexTypes
<1>4. ASSUME NEW t \in Threads, Begins(t) PROVE IndexInv'
  <2> DEFINE front == [Idle EXCEPT !.pc = "fetch"]
             back == [Idle EXCEPT !.pc = "fetch", !.behind = TRUE]
  <2>1. /\ front \in Job /\ front.new = {} /\ front.pc = "fetch"
        /\ back \in Job /\ back.new = {} /\ back.pc = "fetch"
    BY DEF Idle, Job, Pc
  <2>2. UNCHANGED <<made, reach, rows, total, overlapped>>
    BY <1>4 DEF Begins, Begin, Kick, dreamdex
  <2>3. sync' = [sync EXCEPT ![t] = front] \/ sync' = [sync EXCEPT ![t] = back]
    BY <1>4 DEF Begins, Begin, Kick
  <2> HIDE DEF front, back
  <2>4. CASE sync' = [sync EXCEPT ![t] = front]
    BY <2>1, <2>2, <2>4, JobChanges
  <2>5. CASE sync' = [sync EXCEPT ![t] = back]
    BY <2>1, <2>2, <2>5, JobChanges
  <2> QED
    BY <2>3, <2>4, <2>5
<1>5. ASSUME NEW t \in Threads, Fetch(t) PROVE IndexInv'
  <2>1. sync[t] \in Job /\ sync[t].new = {}
    BY <1>0, <1>5 DEF IndexTypes, InsertsTheRest, Fetch
  <2>2. PICK S \in SUBSET Fills : sync' = [sync EXCEPT ![t].pc = "check", ![t].seen = S]
    BY <1>0, <1>5 DEF Fetch, IndexTypes
  <2> DEFINE j == [sync[t] EXCEPT !.pc = "check", !.seen = S]
  <2>3. j \in Job /\ j.new = {} /\ j.pc = "check" /\ sync' = [sync EXCEPT ![t] = j]
    BY <1>0, <2>1, <2>2 DEF IndexTypes, Job, Pc
  <2>4. UNCHANGED <<made, reach, rows, total, overlapped>>
    BY <1>5 DEF Fetch, dreamdex
  <2> QED
    BY <2>3, <2>4, JobChanges
<1>6. ASSUME NEW t \in Threads, Copy(t) PROVE IndexInv'
  <2>1. sync[t] \in Job /\ sync[t].new = {} /\ sync[t].pc = "copy"
    BY <1>0, <1>6 DEF IndexTypes, InsertsTheRest, Copy
  <2>2. PICK x \in sync[t].todo : sync' = [sync EXCEPT ![t].todo = @ \ {x}]
    BY <1>6 DEF Copy
  <2> DEFINE j == [sync[t] EXCEPT !.todo = @ \ {x}]
  <2>3. j \in Job /\ j.new = {} /\ j.pc = "copy" /\ sync' = [sync EXCEPT ![t] = j]
    BY <1>0, <2>1, <2>2 DEF IndexTypes, Job
  <2>4. UNCHANGED <<made, reach, rows, total, overlapped>>
    BY <1>6 DEF Copy, dreamdex
  <2> QED
    BY <2>3, <2>4, JobChanges
<1>7. ASSUME NEW t \in Threads, Finish(t) \/ Fail(t) PROVE IndexInv'
  <2>1. sync' = [sync EXCEPT ![t] = Idle] /\ UNCHANGED <<made, reach, rows, total, overlapped>>
    BY <1>7 DEF Finish, Fail, Leave, dreamdex
  <2> QED
    BY <2>1, IdleJob, JobChanges DEF Idle
<1>8. ASSUME NEW t \in Workers, ProcessNewTraderTrades(t) PROVE IndexInv'
  <2> DEFINE j == [Idle EXCEPT !.pc = "copy", !.todo = Rows]
  <2>1. Rows \subseteq Fills \X Nat
    BY DEF Rows
  <2>2. j \in Job /\ j.new = {} /\ j.pc = "copy"
    BY <2>1 DEF Idle, Job, Pc
  <2>3. /\ sync' = [sync EXCEPT ![t] = j] /\ t \in Threads
        /\ UNCHANGED <<made, reach, rows, total, overlapped>>
    BY <1>8 DEF ProcessNewTraderTrades, dreamdex, Threads
  <2> QED
    BY <2>2, <2>3, JobChanges
<1>9. CASE UNCHANGED vars
  BY <1>0, <1>9, OutsideKeeps DEF vars, IndexTypes
<1> QED
  BY <1>1, <1>2, <1>3, <1>4, <1>5, <1>6, <1>7, <1>8, <1>9, CheckKeeps, WriteKeeps
     DEF Next, SyncStep

LEMMA Inductive == Spec => []IndexInv
  BY InitHolds, StepKeeps, PTL DEF Spec

(* _write_indexed_fills inserts a fill once, and hands it to the copy        *)
(* pipeline as one row, however many syncs run in how many processes, unless *)
(* two of them read the known ids before either had inserted it.             *)
THEOREM FillsIndexedOnce == Spec => []IndexedOnce
  BY Inductive, PTL DEF IndexInv

(* A profile's total_trades never exceeds the fills that are indexed for the *)
(* trader, whichever sync saved its statistics last.                         *)
THEOREM ProfilesCountIndexed == Spec => []CountedAreIndexed
  BY Inductive, PTL DEF IndexInv
=============================================================================
