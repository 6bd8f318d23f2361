------------------------ MODULE CopyPipelineProofs ------------------------
(***************************************************************************)
(* Proofs about CopyPipeline for any number of threads, fills, followed     *)
(* traders and permissions, and any limits.                                 *)
(***************************************************************************)
EXTENDS CopyPipeline, SumLemmas

LEMMA MinOfTwo ==
  ASSUME NEW a \in Nat, NEW b \in Nat
  PROVE  Min({a, b}) \in Nat /\ Min({a, b}) <= a /\ Min({a, b}) <= b
<1>1. PICK m \in {a, b} : \A y \in {a, b} : m <= y
  <2>1. CASE a <= b
    BY <2>1
  <2>2. CASE ~ (a <= b)
    BY <2>2
  <2> QED
    BY <2>1, <2>2
<1>2. Min({a, b}) \in {a, b} /\ \A y \in {a, b} : Min({a, b}) <= y
  BY <1>1 DEF Min
<1> QED
  BY <1>2

(* A counter stays a counter, whatever it is asked to count.                 *)
LEMMA CountUp ==
  ASSUME NEW S, NEW f \in [S -> Nat], NEW x, NEW same \in BOOLEAN
  PROVE  [f EXCEPT ![x] = IF same THEN @ ELSE @ + 1] \in [S -> Nat]
<1>1. CASE x \in S
  <2>1. f[x] \in Nat /\ f[x] + 1 \in Nat
    BY <1>1
  <2> QED
    BY <2>1
<1>2. CASE x \notin S
  BY <1>2
<1> QED
  BY <1>1, <1>2

(* The amounts the configuration allows.                                     *)
LEMMA LimitsAreAmounts ==
  /\ MaxTrade \in Amounts /\ InitMax \in Amounts /\ 0 \in Amounts
  /\ \A a \in Amounts : Min({a, MaxTrade}) \in Amounts
<1>1. MaxTrade \in Nat /\ InitMax \in Nat
  BY PipelineConstants
<1>2. ASSUME NEW a \in Amounts PROVE Min({a, MaxTrade}) \in Amounts
  <2>1. a \in Nat
    BY <1>1 DEF Amounts
  <2>2. Min({a, MaxTrade}) \in Nat /\ Min({a, MaxTrade}) <= a
    BY <1>1, <2>1, MinOfTwo
  <2> QED
    BY <1>1, <2>1, <2>2 DEF Amounts
<1> QED
  BY <1>1, <1>2 DEF Amounts

LEMMA TypeInit == Init => TypeOK
<1> SUFFICES ASSUME Init PROVE TypeOK
  OBVIOUS
<1>1. exec \in [Sources -> [status: Statuses \cup {"NONE"}, amount: Amounts]]
  BY LimitsAreAmounts DEF Init, NoRow
<1>2. relMax \in [Rels -> Amounts]
  BY LimitsAreAmounts DEF Init
<1> QED
  BY <1>1, <1>2 DEF Init, TypeOK, Poller

(* What a thread holds once it has taken a fill.                             *)
LEMMA Working ==
  ASSUME TypeOK, NEW p \in Pollers
  PROVE  /\ poller[p] \in Poller
         /\ poller[p].amount \in Amounts
         /\ poller[p].pc # "idle" => poller[p].src \in Sources
         /\ poller[p].src \in Sources => poller[p].pc # "idle"
  BY LimitsAreAmounts, PipelineConstants DEF TypeOK, Poller, IdlePoller

LEMMA DoneTypes ==
  ASSUME TypeOK, NEW p \in Pollers, Done(p)
  PROVE  poller' \in [Pollers -> Poller]
  BY DEF TypeOK, Done, Poller

LEMMA CreateTypes ==
  ASSUME TypeOK, NEW s, NEW status \in Statuses, NEW amount \in Amounts,
         Create(s, Row(status, amount)) \/ exec' = [exec EXCEPT ![s] = Row(status, amount)]
  PROVE  exec' \in [Sources -> [status: Statuses \cup {"NONE"}, amount: Amounts]]
<1>1. Row(status, amount) \in [status: Statuses \cup {"NONE"}, amount: Amounts]
  BY DEF Row
<1> QED
  BY <1>1 DEF TypeOK, Create

(* A working thread moves on with the fill it has.                           *)
LEMMA GotoTypes ==
  ASSUME TypeOK, NEW p \in Pollers, poller[p].pc # "idle",
         NEW pc \in {"agent", "deny", "gate", "lookup", "send", "skip", "record",
                     "failed", "review"},
         Goto(p, pc)
  PROVE  poller' \in [Pollers -> Poller]
<1>1. poller[p] \in Poller \ {IdlePoller}
  BY DEF TypeOK, IdlePoller
<1>2. [poller[p] EXCEPT !.pc = pc] \in Poller
  BY <1>1 DEF Poller
<1> QED
  BY <1>2 DEF TypeOK, Goto

LEMMA PollerTypes ==
  ASSUME TypeOK, NEW p \in Pollers, PollerStep(p)
  PROVE  TypeOK'
<1> USE DEF owners, history
<1>1. ASSUME NEW s \in Sources, Detect(p, s) PROVE TypeOK'
  <2> DEFINE path == IF RelOf[s] \in AutoRels /\ running THEN "agent" ELSE "review"
  <2>1. relMax[RelOf[s]] \in Amounts
    BY PipelineConstants DEF TypeOK
  <2>2. [IdlePoller EXCEPT !.pc = path, !.src = s, !.amount = relMax[RelOf[s]]]
          \in Poller
    BY <2>1 DEF Poller, IdlePoller
  <2>3. poller' \in [Pollers -> Poller]
    BY <1>1, <2>2 DEF Detect, TypeOK
  <2>4. raced' \subseteq Sources
    BY <1>1 DEF Detect, TypeOK
  <2> QED
    BY <1>1, <2>3, <2>4 DEF Detect, TypeOK
<1>2. CASE Review(p)
  BY <1>2, DoneTypes, CreateTypes, Working DEF Review, TypeOK, Statuses
<1>3. CASE AgentRead(p)
  <2>1. ASSUME NEW g \in live,
               poller' = [poller EXCEPT ![p].pc = "gate", ![p].perm = g,
                                        ![p].amount = Min({@, MaxTrade})]
        PROVE  poller' \in [Pollers -> Poller]
    <3>1. poller[p] \in Poller \ {IdlePoller} /\ g \in Grants
      <4>1. poller[p].pc # "idle" /\ poller[p] \in Poller
        BY <1>3, Working DEF AgentRead
      <4> QED
        BY <4>1 DEF TypeOK, IdlePoller
    <3>2. Min({poller[p].amount, MaxTrade}) \in Amounts
      BY Working, LimitsAreAmounts
    <3>3. [poller[p] EXCEPT !.pc = "gate", !.perm = g,
                            !.amount = Min({poller[p].amount, MaxTrade})] \in Poller
      BY <3>1, <3>2 DEF Poller
    <3> QED
      BY <2>1, <3>3 DEF TypeOK
  <2>2. poller' \in [Pollers -> Poller]
    BY <1>3, <2>1, DoneTypes, GotoTypes DEF AgentRead, ActivePermission
  <2> QED
    BY <1>3, <2>2 DEF AgentRead, TypeOK
<1>4. CASE Deny(p)
  BY <1>4, DoneTypes, CreateTypes, Working DEF Deny, TypeOK, Statuses
<1>5. CASE Gate(p)
  <2>1. poller' \in [Pollers -> Poller]
    <3>1. PICK ok \in BOOLEAN :
            poller' = [poller EXCEPT ![p].pc = "lookup", ![p].go = ok]
      BY <1>5 DEF Gate
    <3>2. poller[p] \in Poller \ {IdlePoller}
      BY <1>5 DEF Gate, TypeOK, IdlePoller
    <3>3. [poller[p] EXCEPT !.pc = "lookup", !.go = ok] \in Poller
      BY <3>2 DEF Poller
    <3> QED
      BY <3>1, <3>3 DEF TypeOK
  <2>2. relMax' \in [Rels -> Amounts]
    BY <1>5, LimitsAreAmounts DEF Gate, TypeOK
  <2> QED
    BY <1>5, <2>1, <2>2 DEF Gate, TypeOK
<1>6. CASE Lookup(p)
  <2>1. poller' \in [Pollers -> Poller]
    <3> DEFINE pc == IF poller[p].go THEN "send" ELSE "skip"
               held == exec[poller[p].src].status
    <3>1. poller[p] \in Poller \ {IdlePoller}
      BY <1>6 DEF Lookup, TypeOK, IdlePoller
    <3>2. held \in Statuses \cup {"NONE"}
      BY <1>6, Working DEF Lookup, TypeOK
    <3>3. [poller[p] EXCEPT !.pc = pc, !.held = held] \in Poller
      BY <3>1, <3>2 DEF Poller
    <3> QED
      BY <1>6, <3>3 DEF Lookup, TypeOK
  <2> QED
    BY <1>6, <2>1 DEF Lookup, TypeOK
<1>7. CASE Skip(p)
  BY <1>7, DoneTypes, CreateTypes, Working DEF Skip, TypeOK, Statuses
<1>8. ASSUME Transmit(p)
      PROVE  sent' \in [Sources -> Nat] /\ late' \in [Grants -> Nat]
  <2>1. sent' = [sent EXCEPT ![poller[p].src] = IF FALSE THEN @ ELSE @ + 1]
    BY <1>8 DEF Transmit
  <2>2. late' = [late EXCEPT ![poller[p].perm] =
                   IF poller[p].perm \in live THEN @ ELSE @ + 1]
    BY <1>8 DEF Transmit
  <2>3. sent' \in [Sources -> Nat]
    BY <2>1, CountUp, Zenon DEF TypeOK
  <2>4. late' \in [Grants -> Nat]
    <3>1. (poller[p].perm \in live) \in BOOLEAN
      OBVIOUS
    <3> QED
      BY <2>2, <3>1, CountUp, Zenon DEF TypeOK
  <2> QED
    BY <2>3, <2>4
<1>9. CASE Send(p)
  <2>1. poller' \in [Pollers -> Poller]
    BY <1>9, GotoTypes DEF Send, Transmit
  <2> QED
    BY <1>8, <1>9, <2>1 DEF Send, TypeOK
<1>10. CASE SendLost(p)
  <2>1. poller' \in [Pollers -> Poller] /\ lost' \subseteq Sources
    BY <1>10, GotoTypes, Working DEF SendLost, Transmit, TypeOK
  <2> QED
    BY <1>8, <1>10, <2>1 DEF SendLost, TypeOK
<1>11. CASE SendFails(p)
  <2>1. poller' \in [Pollers -> Poller]
    BY <1>11, GotoTypes DEF SendFails
  <2> QED
    BY <1>11, <2>1 DEF SendFails, TypeOK
<1>12. CASE Record(p)
  <2>1. exec' \in [Sources -> [status: Statuses \cup {"NONE"}, amount: Amounts]]
    BY <1>12, CreateTypes, Working DEF Record, Statuses
  <2>2. lost' \subseteq Sources
    BY <1>12, Working DEF Record, TypeOK
  <2> QED
    BY <1>12, <2>1, <2>2, DoneTypes DEF Record, TypeOK
<1>13. CASE Failed(p)
  <2>1. exec' \in [Sources -> [status: Statuses \cup {"NONE"}, amount: Amounts]]
    BY <1>13 DEF Failed, TypeOK, Statuses
  <2> QED
    BY <1>13, <2>1, DoneTypes DEF Failed, TypeOK
<1>14. CASE Crash(p)
  <2>1. lost' \subseteq Sources
    BY <1>14, Working DEF Crash, TypeOK
  <2> QED
    BY <1>14, <2>1, DoneTypes DEF Crash, TypeOK
<1>15. CASE FindExpired(p)
  <2>1. poller' \in [Pollers -> Poller]
    BY <1>15, GotoTypes DEF FindExpired
  <2> QED
    BY <1>15, <2>1 DEF FindExpired, TypeOK
<1> QED
  BY <1>1, <1>2, <1>3, <1>4, <1>5, <1>6, <1>7, <1>9, <1>10, <1>11, <1>12, <1>13,
     <1>14, <1>15 DEF PollerStep

LEMMA TypeNext == TypeOK /\ [Next]_vars => TypeOK'
<1> SUFFICES ASSUME TypeOK, [Next]_vars PROVE TypeOK'
  OBVIOUS
<1> USE DEF owners, history
<1>1. ASSUME NEW s \in Sources, SkipCopyExecution(s) PROVE TypeOK'
  BY <1>1 DEF SkipCopyExecution, TypeOK, Statuses
<1>2. ASSUME NEW s \in Sources, PrepareCopyTrade(s) PROVE TypeOK'
  BY <1>2 DEF PrepareCopyTrade, TypeOK, Statuses
<1>3. CASE Authority
  <2>1. StartStop => TypeOK'
    BY DEF StartStop, TypeOK
  <2>2. ASSUME NEW g \in Grants, Sign(g) PROVE TypeOK'
    <3>1. relMax' \in [Rels -> Amounts]
      BY <2>2, LimitsAreAmounts DEF Sign, TypeOK
    <3> QED
      BY <2>2, <3>1 DEF Sign, Ledger!Issue, TypeOK
  <2>3. EndPermission => TypeOK'
    BY DEF EndPermission, Ledger!End, TypeOK
  <2> QED
    BY <1>3, <2>1, <2>2, <2>3 DEF Authority
<1>4. CASE UNCHANGED vars
  BY <1>4 DEF vars, TypeOK
<1> QED
  BY <1>1, <1>2, <1>3, <1>4, PollerTypes DEF Next

(* Type correctness of the copy pipeline.                                    *)
THEOREM TypeCorrect == Spec => []TypeOK
  BY TypeInit, TypeNext, PTL DEF Spec

-----------------------------------------------------------------------------
(* The argument for CopiedOnce and FinalKept.  A fill that was never raced   *)
(* is held by at most one thread, and as long as a thread holds it there is  *)
(* no row that anyone could have approved, skipped or executed.  Once the    *)
(* thread has let go, the row says what became of the fill.                  *)

HeldAlone ==
  \A s \in Sources \ raced, p \in Pollers :
    poller[p].src = s =>
      /\ exec[s] = NoRow
      /\ poller[p].held = "NONE"
      /\ \A q \in Pollers : poller[q].src = s => q = p

RowTells ==
  \A s \in Sources \ (raced \cup lost) :
    /\ s \in approved => sent[s] = 0 /\ exec[s].status = "APPROVED"
    /\ sent[s] # 0 =>
         /\ sent[s] = 1
         /\ \/ exec[s].status = "EXECUTED"
            \/ \E p \in Pollers : poller[p].src = s /\ poller[p].pc = "record"

CopyInv == HeldAlone /\ RowTells

(* A step of one thread that touches no row and keeps its fill.              *)
LEMMA StepKeepsAlone ==
  ASSUME TypeOK, HeldAlone, NEW p \in Pollers, poller[p].pc # "idle",
         poller'[p].src = poller[p].src,
         poller[p].src \notin raced => poller'[p].held = "NONE",
         \A q \in Pollers : q # p => poller'[q] = poller[q],
         UNCHANGED <<exec, raced>>
  PROVE  HeldAlone'
  BY DEF HeldAlone

(* A step that ends a thread's turn and writes at most the row of its fill.  *)
LEMMA DoneKeepsAlone ==
  ASSUME TypeOK, HeldAlone, NEW p \in Pollers, Done(p), UNCHANGED raced,
         \A s \in Sources : s # poller[p].src => exec'[s] = exec[s]
  PROVE  HeldAlone'
<1>1. poller'[p].src = NoSource /\ \A q \in Pollers : q # p => poller'[q] = poller[q]
  BY DEF Done, IdlePoller, TypeOK
<1>2. \A q \in Pollers, s \in Sources : poller'[q].src = s => q # p /\ poller[q].src = s
  BY <1>1, PipelineConstants
<1> QED
  BY <1>1, <1>2 DEF HeldAlone

(* What each step of a thread does to the threads and to the rows.           *)
LEMMA PollerSteps ==
  ASSUME TypeOK, NEW p \in Pollers, PollerStep(p)
  PROVE  \/ \E s \in Sources : Detect(p, s)
         \/ /\ poller[p].pc # "idle" /\ poller'[p].src = poller[p].src
            /\ poller'[p].held # poller[p].held =>
                 poller'[p].held = exec[poller[p].src].status
            /\ \A q \in Pollers : q # p => poller'[q] = poller[q]
            /\ UNCHANGED <<exec, raced>>
         \/ /\ poller[p].pc # "idle" /\ Done(p) /\ UNCHANGED raced
            /\ \A s \in Sources : s # poller[p].src => exec'[s] = exec[s]
<1> USE DEF owners, history
<1>1. ASSUME NEW pc, Goto(p, pc)
      PROVE  /\ poller'[p].src = poller[p].src /\ poller'[p].held = poller[p].held
             /\ \A q \in Pollers : q # p => poller'[q] = poller[q]
  BY <1>1 DEF Goto, TypeOK
<1>2. ASSUME NEW row, Create(poller[p].src, row)
      PROVE  \A s \in Sources : s # poller[p].src => exec'[s] = exec[s]
  BY <1>2 DEF Create, TypeOK
<1>3. CASE Review(p) \/ Deny(p)
  BY <1>2, <1>3 DEF Review, Deny
<1>4. CASE AgentRead(p)
  <2>1. CASE Done(p)
    BY <1>4, <2>1 DEF AgentRead
  <2>2. CASE Goto(p, "deny")
    BY <1>1, <1>4, <2>2 DEF AgentRead
  <2>3. ASSUME NEW g,
               poller' = [poller EXCEPT ![p].pc = "gate", ![p].perm = g,
                                        ![p].amount = Min({@, MaxTrade})]
        PROVE  /\ poller'[p].src = poller[p].src /\ poller'[p].held = poller[p].held
               /\ \A q \in Pollers : q # p => poller'[q] = poller[q]
    BY <2>3 DEF TypeOK
  <2> QED
    BY <1>4, <2>1, <2>2, <2>3 DEF AgentRead
<1>5. CASE Gate(p)
  <2>1. PICK ok \in BOOLEAN : poller' = [poller EXCEPT ![p].pc = "lookup", ![p].go = ok]
    BY <1>5 DEF Gate
  <2> QED
    BY <1>5, <2>1 DEF Gate, TypeOK
<1>6. CASE Lookup(p)
  BY <1>6 DEF Lookup, TypeOK
<1>7. CASE Skip(p)
  BY <1>2, <1>7 DEF Skip, TypeOK
<1>8. CASE FindExpired(p) \/ Send(p) \/ SendLost(p) \/ SendFails(p)
  BY <1>1, <1>8 DEF FindExpired, Send, SendLost, SendFails, Transmit
<1>9. CASE Record(p)
  BY <1>2, <1>9 DEF Record, TypeOK
<1>10. CASE Failed(p) \/ Crash(p)
  BY <1>10 DEF Failed, Crash, TypeOK
<1> QED
  BY <1>3, <1>4, <1>5, <1>6, <1>7, <1>8, <1>9, <1>10 DEF PollerStep

(* The owner acts on rows, and a fill that is held alone has none.           *)
LEMMA OwnerSteps ==
  ASSUME TypeOK, HeldAlone, NEW s \in Sources,
         SkipCopyExecution(s) \/ PrepareCopyTrade(s)
  PROVE  HeldAlone'
<1>1. exec[s] # NoRow
  BY DEF SkipCopyExecution, PrepareCopyTrade, NoRow
<1>2. /\ UNCHANGED <<poller, raced>>
      /\ \A o \in Sources : o # s => exec'[o] = exec[o]
  BY DEF SkipCopyExecution, PrepareCopyTrade, history, TypeOK
<1> QED
  BY <1>1, <1>2 DEF HeldAlone

LEMMA HeldAloneNext ==
  ASSUME TypeOK, HeldAlone, [Next]_vars
  PROVE  HeldAlone'
<1>1. ASSUME NEW p \in Pollers, PollerStep(p) PROVE HeldAlone'
  <2>1. ASSUME NEW s \in Sources, Detect(p, s) PROVE HeldAlone'
    <3>1. /\ exec' = exec /\ raced \subseteq raced' /\ exec[s] = NoRow
          /\ s \notin raced' => \A q \in Pollers : poller[q].src # s
      BY <2>1 DEF Detect, Recorded
    <3>2. poller'[p].src = s /\ poller'[p].held = "NONE"
      BY <2>1 DEF Detect, IdlePoller, TypeOK
    <3>3. \A q \in Pollers : q # p => poller'[q] = poller[q]
      BY <2>1 DEF Detect, TypeOK
    <3> QED
      BY <3>1, <3>2, <3>3 DEF HeldAlone
  <2>2. CASE /\ poller[p].pc # "idle" /\ poller'[p].src = poller[p].src
             /\ poller'[p].held # poller[p].held =>
                  poller'[p].held = exec[poller[p].src].status
             /\ \A q \in Pollers : q # p => poller'[q] = poller[q]
             /\ UNCHANGED <<exec, raced>>
    <3>1. poller[p].src \in Sources
      BY <2>2, Working
    <3>2. poller[p].src \notin raced => poller'[p].held = "NONE"
      BY <2>2, <3>1 DEF HeldAlone, NoRow
    <3> QED
      BY <2>2, <3>2, StepKeepsAlone
  <2>3. CASE /\ poller[p].pc # "idle" /\ Done(p) /\ UNCHANGED raced
             /\ \A s \in Sources : s # poller[p].src => exec'[s] = exec[s]
    BY <2>3, DoneKeepsAlone
  <2> QED
    BY <1>1, <2>1, <2>2, <2>3, PollerSteps
<1>2. CASE Authority
  BY <1>2 DEF Authority, StartStop, Sign, EndPermission, history, HeldAlone
<1>3. CASE UNCHANGED vars
  BY <1>3 DEF vars, HeldAlone
<1> QED
  BY <1>1, <1>2, <1>3, OwnerSteps DEF Next

(* While a thread that has not sent yet holds a fill, nothing was sent for it*)
(* and its owner approved nothing.                                           *)
LEMMA NothingYet ==
  ASSUME TypeOK, CopyInv, NEW p \in Pollers, poller[p].pc \notin {"idle", "record"},
         poller[p].src \notin raced \cup lost
  PROVE  sent[poller[p].src] = 0 /\ poller[p].src \notin approved
<1>1. poller[p].src \in Sources
  BY Working
<1>2. exec[poller[p].src].status = "NONE"
  BY <1>1 DEF CopyInv, HeldAlone, NoRow
<1>3. ~ \E q \in Pollers : poller[q].src = poller[p].src /\ poller[q].pc = "record"
  BY <1>1 DEF CopyInv, HeldAlone
<1> QED
  BY <1>1, <1>2, <1>3 DEF CopyInv, RowTells

(* A step that is about one fill leaves what the rows tell of the others.    *)
LEMMA OtherRows ==
  ASSUME TypeOK, CopyInv, NEW p \in Pollers, poller[p].pc # "idle",
         raced' = raced, lost \subseteq lost', approved' = approved,
         \A q \in Pollers : q # p => poller'[q] = poller[q],
         NEW s \in Sources \ (raced' \cup lost'), s # poller[p].src,
         exec'[s] = exec[s], sent'[s] = sent[s]
  PROVE  /\ s \in approved' => sent'[s] = 0 /\ exec'[s].status = "APPROVED"
         /\ sent'[s] # 0 =>
              /\ sent'[s] = 1
              /\ \/ exec'[s].status = "EXECUTED"
                 \/ \E q \in Pollers : poller'[q].src = s /\ poller'[q].pc = "record"
  BY DEF CopyInv, RowTells

(* The fill a thread is about, when it neither sends nor records.            *)
LEMMA QuietStep ==
  ASSUME TypeOK, CopyInv, NEW p \in Pollers, poller[p].pc \notin {"idle", "record"},
         raced' = raced, lost \subseteq lost', approved' = approved, sent' = sent,
         \A q \in Pollers : q # p => poller'[q] = poller[q],
         \A s \in Sources : s # poller[p].src => exec'[s] = exec[s]
  PROVE  RowTells'
<1>1. ASSUME NEW s \in Sources \ (raced' \cup lost'), s = poller[p].src
      PROVE  s \notin approved' /\ sent'[s] = 0
  BY <1>1, NothingYet
<1> QED
  BY <1>1, OtherRows DEF RowTells

LEMMA RowTellsPoller ==
  ASSUME TypeOK, CopyInv, NEW p \in Pollers, PollerStep(p)
  PROVE  RowTells'
<1> USE DEF owners, history
<1> DEFINE o == poller[p].src
<1>1. ASSUME NEW pc, Goto(p, pc)
      PROVE  /\ poller'[p].src = o /\ poller'[p].pc = pc
             /\ \A q \in Pollers : q # p => poller'[q] = poller[q]
  BY <1>1 DEF Goto, TypeOK
<1>2. Done(p) => \A q \in Pollers : q # p => poller'[q] = poller[q]
  BY DEF Done, TypeOK
<1>3. ASSUME NEW s \in Sources, Detect(p, s) PROVE RowTells'
  <2>1. /\ UNCHANGED <<exec, sent, approved, lost>> /\ raced \subseteq raced'
        /\ poller[p].pc = "idle"
        /\ \A q \in Pollers : q # p => poller'[q] = poller[q]
    BY <1>3 DEF Detect, TypeOK
  <2> QED
    BY <2>1 DEF CopyInv, RowTells
<1>4. CASE Review(p) \/ Deny(p)
  <2>1. \A s \in Sources : s # o => exec'[s] = exec[s]
    BY <1>4 DEF Review, Deny, Create, TypeOK
  <2> QED
    BY <1>2, <1>4, <2>1, QuietStep DEF Review, Deny
<1>5. CASE AgentRead(p) \/ FindExpired(p) \/ Gate(p) \/ Lookup(p) \/ SendFails(p)
  <2>1. \A q \in Pollers : q # p => poller'[q] = poller[q]
    BY <1>1, <1>2, <1>5 DEF AgentRead, FindExpired, Gate, Lookup, SendFails, TypeOK
  <2>2. /\ poller[p].pc \notin {"idle", "record"}
        /\ UNCHANGED <<exec, raced, lost, approved, sent>>
    BY <1>5 DEF AgentRead, FindExpired, Gate, Lookup, SendFails
  <2> QED
    BY <2>1, <2>2, QuietStep
<1>6. CASE Skip(p) \/ Failed(p)
  <2>1. \A s \in Sources : s # o => exec'[s] = exec[s]
    BY <1>6 DEF Skip, Failed, Create, TypeOK
  <2> QED
    BY <1>2, <1>6, <2>1, QuietStep DEF Skip, Failed
<1>7. CASE Send(p)
  <2>1. /\ UNCHANGED <<exec, raced, lost, approved>> /\ poller[p].pc = "send"
        /\ Goto(p, "record")
        /\ sent' = [sent EXCEPT ![o] = @ + 1]
    BY <1>7 DEF Send, Transmit
  <2>2. \A s \in Sources : s # o => sent'[s] = sent[s]
    BY <2>1 DEF TypeOK
  <2>3. ASSUME NEW s \in Sources \ (raced' \cup lost'), s = o
        PROVE  /\ s \notin approved' /\ sent'[s] = 1
               /\ poller'[p].src = s /\ poller'[p].pc = "record"
    <3>1. sent[s] = 0 /\ s \notin approved
      BY <2>1, <2>3, NothingYet
    <3> QED
      BY <1>1, <2>1, <2>3, <3>1 DEF TypeOK
  <2> QED
    BY <1>1, <2>1, <2>2, <2>3, OtherRows DEF RowTells
<1>8. CASE SendLost(p)
  <2>1. /\ UNCHANGED <<exec, raced, approved>> /\ poller[p].pc = "send"
        /\ Goto(p, "failed") /\ lost' = lost \cup {o}
        /\ sent' = [sent EXCEPT ![o] = @ + 1]
    BY <1>8 DEF SendLost, Transmit
  <2>2. \A s \in Sources : s # o => sent'[s] = sent[s]
    BY <2>1 DEF TypeOK
  <2> QED
    BY <1>1, <2>1, <2>2, OtherRows DEF RowTells
<1>9. CASE Record(p)
  <2>1. /\ UNCHANGED <<raced, approved, sent>> /\ poller[p].pc = "record"
        /\ lost \subseteq lost' /\ Done(p)
        /\ \A s \in Sources : s # o => exec'[s] = exec[s]
    BY <1>9 DEF Record, Create, TypeOK
  <2>2. ASSUME NEW s \in Sources \ (raced' \cup lost'), s = o
        PROVE  /\ exec'[s].status = "EXECUTED" /\ s \notin approved'
               /\ sent'[s] # 0 => sent'[s] = 1
    <3>1. exec[s] = NoRow /\ poller[p].held = "NONE"
      BY <2>1, <2>2 DEF CopyInv, HeldAlone
    <3>2. exec' = [exec EXCEPT ![s] = Row("EXECUTED", poller[p].amount)]
      BY <1>9, <2>2, <3>1 DEF Record, Create, Recorded
    <3>3. exec'[s].status = "EXECUTED"
      BY <3>2 DEF TypeOK, Row
    <3> QED
      BY <2>1, <2>2, <3>1, <3>3 DEF CopyInv, RowTells, NoRow
  <2> QED
    BY <1>2, <2>1, <2>2, OtherRows DEF RowTells
<1>10. CASE Crash(p)
  <2>1. CASE poller[p].pc = "record"
    <3>1. /\ UNCHANGED <<exec, raced, approved, sent>> /\ lost' = lost \cup {o}
          /\ Done(p)
      BY <1>10, <2>1 DEF Crash
    <3> QED
      BY <1>2, <2>1, <3>1, OtherRows DEF RowTells
  <2>2. CASE poller[p].pc # "record"
    BY <1>2, <1>10, <2>2, QuietStep DEF Crash
  <2> QED
    BY <2>1, <2>2
<1> QED
  BY <1>3, <1>4, <1>5, <1>6, <1>7, <1>8, <1>9, <1>10 DEF PollerStep

LEMMA RowTellsOwner ==
  ASSUME TypeOK, CopyInv, NEW s \in Sources,
         SkipCopyExecution(s) \/ PrepareCopyTrade(s)
  PROVE  RowTells'
<1>1. /\ UNCHANGED <<poller, sent, raced, lost>> /\ approved' \subseteq approved \cup {s}
      /\ \A o \in Sources : o # s => exec'[o] = exec[o]
  BY DEF SkipCopyExecution, PrepareCopyTrade, history, TypeOK
<1>2. exec[s].status \in {"PENDING", "APPROVED"} /\ exec[s] # NoRow
  BY DEF SkipCopyExecution, PrepareCopyTrade, NoRow
<1>3. s \notin raced \cup lost => sent[s] = 0
  BY <1>2 DEF CopyInv, RowTells, HeldAlone
<1>4. s \in approved' /\ s \notin raced \cup lost => exec'[s].status = "APPROVED"
  <2>1. CASE SkipCopyExecution(s)
    BY <2>1 DEF SkipCopyExecution, history, CopyInv, RowTells
  <2>2. CASE PrepareCopyTrade(s)
    BY <2>2 DEF PrepareCopyTrade, TypeOK
  <2> QED
    BY <2>1, <2>2
<1> QED
  BY <1>1, <1>3, <1>4 DEF CopyInv, RowTells

LEMMA CopyInvNext ==
  ASSUME TypeOK, CopyInv, [Next]_vars
  PROVE  CopyInv'
<1>1. Authority => RowTells'
  BY DEF Authority, StartStop, Sign, EndPermission, history, CopyInv, RowTells
<1>2. UNCHANGED vars => RowTells'
  BY DEF vars, CopyInv, RowTells
<1>3. RowTells'
  BY <1>1, <1>2, RowTellsPoller, RowTellsOwner DEF Next, CopyInv
<1> QED
  BY <1>3, HeldAloneNext DEF CopyInv

LEMMA CopyInvInit == Init => CopyInv
  BY PipelineConstants DEF Init, CopyInv, HeldAlone, RowTells, IdlePoller

LEMMA CopyInvHolds == Spec => []CopyInv
  BY TypeCorrect, CopyInvInit, CopyInvNext, PTL DEF Spec

(* No fill is copied twice, by the agent or by the owner, unless two threads *)
(* raced for it or a transaction left without its row being saved.           *)
THEOREM CopiesOnce == Spec => []CopiedOnce
<1>1. TypeOK /\ CopyInv => CopiedOnce
  BY DEF TypeOK, CopyInv, RowTells, CopiedOnce
<1> QED
  BY <1>1, TypeCorrect, CopyInvHolds, PTL

(* The row of a fill that no two threads raced for never leaves EXECUTED or  *)
(* SKIPPED.                                                                  *)
THEOREM FinalRowsKept == Spec => FinalKept
<1>1. ASSUME TypeOK, CopyInv, [Next]_vars
      PROVE  [\A s \in Sources \ raced :
                exec[s].status \in {"EXECUTED", "SKIPPED"} => exec'[s] = exec[s]]_vars
  <2>1. ASSUME NEW p \in Pollers, PollerStep(p), NEW s \in Sources \ raced,
               exec[s].status \in {"EXECUTED", "SKIPPED"}
        PROVE  exec'[s] = exec[s]
    <3>1. poller[p].src # s
      BY <1>1, <2>1 DEF CopyInv, HeldAlone, NoRow
    <3>2. ASSUME NEW o \in Sources, Detect(p, o) PROVE exec'[s] = exec[s]
      BY <3>2 DEF Detect
    <3> QED
      BY <1>1, <2>1, <3>1, <3>2, PollerSteps
  <2>2. ASSUME NEW o \in Sources, SkipCopyExecution(o) \/ PrepareCopyTrade(o),
               NEW s \in Sources, exec[s].status \in {"EXECUTED", "SKIPPED"}
        PROVE  exec'[s] = exec[s]
    <3>1. o # s
      BY <2>2 DEF SkipCopyExecution, PrepareCopyTrade
    <3> QED
      BY <1>1, <2>2, <3>1 DEF SkipCopyExecution, PrepareCopyTrade, TypeOK
  <2>3. Authority => exec' = exec
    BY DEF Authority, StartStop, Sign, EndPermission
  <2> QED
    BY <1>1, <2>1, <2>2, <2>3 DEF Next
<1> QED
  BY <1>1, TypeCorrect, CopyInvHolds, PTL DEF Spec, FinalKept

-----------------------------------------------------------------------------
(* The argument for LateSends.  A thread that is about to send holds a       *)
(* permission that was issued.  Nothing was sent late under a permission that*)
(* has not ended, and nobody takes up one that has: what was sent late and   *)
(* the threads still about to send never exceed the threads there are.       *)

BeforeSend == {"gate", "lookup", "send"}
Waiting(g) == {p \in Pollers : poller[p].pc \in BeforeSend /\ poller[p].perm = g}

LateInv ==
  /\ \A p \in Pollers : poller[p].pc \in BeforeSend => poller[p].perm \in issued
  /\ \A g \in Grants :
       /\ late[g] # 0 => g \in issued \ live
       /\ late[g] + Cardinality(Waiting(g)) <= Cardinality(Pollers)

LEMMA WaitingSize ==
  ASSUME NEW S \in SUBSET Pollers
  PROVE  /\ IsFiniteSet(S) /\ Cardinality(S) \in Nat
         /\ Cardinality(Pollers) \in Nat
         /\ Cardinality(S) <= Cardinality(Pollers)
         /\ \A R \in SUBSET S : Cardinality(R) <= Cardinality(S)
         /\ \A p \in S : Cardinality(S \ {p}) = Cardinality(S) - 1
  BY PipelineConstants, FS_Subset, FS_CardinalityType, FS_RemoveElement

LEMMA LateInit == Init => LateInv
<1> SUFFICES ASSUME Init PROVE LateInv
  OBVIOUS
<1>1. \A p \in Pollers : poller[p].pc \notin BeforeSend
  BY DEF Init, IdlePoller, BeforeSend
<1>2. \A g \in Grants : Waiting(g) \in SUBSET Pollers /\ late[g] = 0
  BY DEF Init, Waiting
<1> QED
  BY <1>1, <1>2, WaitingSize DEF LateInv

(* A step after which no more threads wait to send under a permission that   *)
(* was issued, and under which nothing was sent late.                        *)
LEMMA FewerWait ==
  ASSUME TypeOK, LateInv, late' = late, issued' = issued, live' \subseteq live,
         NEW p, \A q \in Pollers : q # p => poller'[q] = poller[q],
         p \in Pollers /\ poller'[p].pc \in BeforeSend =>
           \/ poller[p].pc \in BeforeSend /\ poller'[p].perm = poller[p].perm
           \/ poller'[p].perm \in live
  PROVE  LateInv'
<1>1. ASSUME NEW q \in Pollers, poller'[q].pc \in BeforeSend
      PROVE  poller'[q].perm \in issued'
  BY <1>1 DEF LateInv, TypeOK
<1>2. ASSUME NEW g \in Grants
      PROVE  late'[g] + Cardinality(Waiting(g)') <= Cardinality(Pollers)
  <2>0. Waiting(g) \in SUBSET Pollers /\ Waiting(g)' \in SUBSET Pollers
    BY DEF Waiting
  <2>1. CASE late[g] = 0
    BY <2>0, <2>1, WaitingSize
  <2>2. CASE late[g] # 0
    <3>1. g \notin live
      BY <2>2 DEF LateInv
    <3>2. Waiting(g)' \subseteq Waiting(g)
      BY <3>1 DEF Waiting
    <3>3. Cardinality(Waiting(g)') <= Cardinality(Waiting(g))
      BY <2>0, <3>2, WaitingSize
    <3> QED
      BY <2>0, <3>3, WaitingSize DEF LateInv, TypeOK
  <2> QED
    BY <2>1, <2>2
<1>3. \A g \in Grants : late'[g] # 0 => g \in issued' \ live'
  BY DEF LateInv
<1> QED
  BY <1>1, <1>2, <1>3 DEF LateInv

(* Sending uses up the thread's place among those that wait.                 *)
LEMMA SentLate ==
  ASSUME TypeOK, LateInv, NEW p \in Pollers, Transmit(p), UNCHANGED <<issued, live>>,
         \A q \in Pollers : q # p => poller'[q] = poller[q],
         poller'[p].pc \notin BeforeSend
  PROVE  LateInv'
<1> DEFINE h == poller[p].perm
<1>0. poller[p].pc \in BeforeSend /\ h \in issued /\ h \in Grants
  BY DEF Transmit, BeforeSend, LateInv, TypeOK
<1>1. ASSUME NEW g \in Grants
      PROVE  /\ late'[g] + Cardinality(Waiting(g)') <= Cardinality(Pollers)
             /\ late'[g] # 0 => g \in issued' \ live'
  <2>0. Waiting(g) \in SUBSET Pollers /\ Waiting(g)' = Waiting(g) \ {p}
    BY DEF Waiting
  <2>1. CASE g = h /\ h \notin live
    <3>1. late'[g] = late[g] + 1
      BY <2>1 DEF Transmit, TypeOK
    <3>2. p \in Waiting(g)
      BY <1>0, <2>1 DEF Waiting
    <3>3. Cardinality(Waiting(g)') = Cardinality(Waiting(g)) - 1
      BY <2>0, <3>2, WaitingSize
    <3>4. late[g] \in Nat /\ Cardinality(Waiting(g)) \in Nat
      BY <2>0, WaitingSize DEF TypeOK
    <3> QED
      BY <1>0, <2>1, <3>1, <3>3, <3>4, WaitingSize DEF LateInv
  <2>2. CASE g # h \/ h \in live
    <3>1. late'[g] = late[g]
      BY <2>2 DEF Transmit, TypeOK
    <3>2. Waiting(g)' \in SUBSET Waiting(g)
      BY <2>0
    <3>3. Cardinality(Waiting(g)') <= Cardinality(Waiting(g))
      BY <2>0, <3>2, WaitingSize
    <3>4. /\ late[g] \in Nat /\ Cardinality(Waiting(g)) \in Nat
          /\ Cardinality(Waiting(g)') \in Nat
      BY <2>0, <3>2, WaitingSize DEF TypeOK
    <3> QED
      BY <3>1, <3>3, <3>4, WaitingSize DEF LateInv
  <2> QED
    BY <2>1, <2>2
<1>2. \A q \in Pollers : poller'[q].pc \in BeforeSend => poller'[q].perm \in issued'
  BY DEF LateInv
<1> QED
  BY <1>1, <1>2 DEF LateInv

LEMMA LatePoller ==
  ASSUME TypeOK, LateInv, NEW p \in Pollers, PollerStep(p)
  PROVE  LateInv'
<1> USE DEF owners, history
<1>1. ASSUME NEW pc, Goto(p, pc)
      PROVE  /\ poller'[p].pc = pc /\ poller'[p].perm = poller[p].perm
             /\ \A q \in Pollers : q # p => poller'[q] = poller[q]
  BY <1>1 DEF Goto, TypeOK
<1>2. ASSUME Done(p)
      PROVE  /\ poller'[p].pc = "idle"
             /\ \A q \in Pollers : q # p => poller'[q] = poller[q]
  BY <1>2 DEF Done, TypeOK, IdlePoller
<1>3. ASSUME NEW s \in Sources, Detect(p, s) PROVE LateInv'
  <2>1. /\ UNCHANGED <<issued, live, late>>
        /\ poller'[p].pc \in {"agent", "review"}
        /\ \A q \in Pollers : q # p => poller'[q] = poller[q]
    BY <1>3 DEF Detect, TypeOK, IdlePoller
  <2> QED
    BY <2>1, FewerWait DEF BeforeSend
<1>4. CASE \/ Review(p) \/ Deny(p) \/ Skip(p) \/ Record(p) \/ Failed(p) \/ Crash(p)
  <2>1. UNCHANGED <<issued, live, late>> /\ Done(p)
    BY <1>4 DEF Review, Deny, Skip, Record, Failed, Crash
  <2> QED
    BY <1>2, <2>1, FewerWait DEF BeforeSend
<1>5. CASE AgentRead(p)
  <2>1. UNCHANGED <<issued, live, late>>
    BY <1>5 DEF AgentRead
  <2>2. CASE Done(p)
    BY <1>2, <2>1, <2>2, FewerWait DEF BeforeSend
  <2>3. CASE Goto(p, "deny")
    BY <1>1, <2>1, <2>3, FewerWait DEF BeforeSend
  <2>4. ASSUME NEW g \in live,
               poller' = [poller EXCEPT ![p].pc = "gate", ![p].perm = g,
                                        ![p].amount = Min({@, MaxTrade})]
        PROVE  LateInv'
    <3>1. poller'[p].perm = g /\ \A q \in Pollers : q # p => poller'[q] = poller[q]
      BY <2>4 DEF TypeOK, Poller, IdlePoller
    <3> QED
      BY <2>1, <3>1, FewerWait
  <2> QED
    BY <1>5, <2>2, <2>3, <2>4 DEF AgentRead, ActivePermission
<1>6. CASE FindExpired(p)
  <2>1. UNCHANGED <<issued, late>> /\ live' \subseteq live /\ Goto(p, "deny")
    BY <1>6 DEF FindExpired
  <2> QED
    BY <1>1, <2>1, FewerWait DEF BeforeSend
<1>7. CASE Gate(p) \/ Lookup(p)
  <2>1. /\ UNCHANGED <<issued, live, late>>
        /\ poller[p].pc \in BeforeSend /\ poller'[p].perm = poller[p].perm
        /\ \A q \in Pollers : q # p => poller'[q] = poller[q]
    <3>1. CASE Gate(p)
      <4>1. PICK ok \in BOOLEAN :
              poller' = [poller EXCEPT ![p].pc = "lookup", ![p].go = ok]
        BY <3>1 DEF Gate
      <4> QED
        BY <3>1, <4>1 DEF Gate, TypeOK, BeforeSend
    <3>2. CASE Lookup(p)
      BY <3>2 DEF Lookup, TypeOK, BeforeSend
    <3> QED
      BY <1>7, <3>1, <3>2
  <2> QED
    BY <2>1, FewerWait
<1>8. CASE Send(p) \/ SendLost(p)
  <2>1. Transmit(p) /\ UNCHANGED <<issued, live>> /\ (Goto(p, "record") \/ Goto(p, "failed"))
    BY <1>8 DEF Send, SendLost
  <2> QED
    BY <1>1, <2>1, SentLate DEF BeforeSend
<1>9. CASE SendFails(p)
  <2>1. UNCHANGED <<issued, live, late>> /\ Goto(p, "failed")
    BY <1>9 DEF SendFails
  <2> QED
    BY <1>1, <2>1, FewerWait DEF BeforeSend
<1> QED
  BY <1>3, <1>4, <1>5, <1>6, <1>7, <1>8, <1>9 DEF PollerStep

LEMMA LateNext ==
  ASSUME TypeOK, LateInv, [Next]_vars
  PROVE  LateInv'
<1> USE DEF owners, history
<1>1. ASSUME NEW s \in Sources, SkipCopyExecution(s) \/ PrepareCopyTrade(s)
      PROVE  LateInv'
  <2>1. UNCHANGED <<poller, issued, live, late>>
    BY <1>1 DEF SkipCopyExecution, PrepareCopyTrade
  <2> QED
    BY <2>1 DEF LateInv, Waiting
<1>2. CASE StartStop \/ UNCHANGED vars
  <2>1. UNCHANGED <<poller, issued, live, late>>
    BY <1>2 DEF StartStop, vars
  <2> QED
    BY <2>1 DEF LateInv, Waiting
<1>3. ASSUME NEW g \in Grants, Sign(g) PROVE LateInv'
  <2>1. UNCHANGED <<poller, late>> /\ g \notin issued
    BY <1>3 DEF Sign, Ledger!Issue
  <2>2. issued' = issued \cup {g} /\ live' \subseteq live \cup {g}
    BY <1>3 DEF Sign, Ledger!Issue
  <2>3. \A h \in Grants : Waiting(h)' = Waiting(h)
    BY <2>1 DEF Waiting
  <2>4. \A h \in Grants : h \in issued \ live => h \in issued' \ live'
    BY <2>1, <2>2
  <2> QED
    BY <2>1, <2>2, <2>3, <2>4 DEF LateInv
<1>4. CASE EndPermission
  <2>1. UNCHANGED <<poller, issued, late>> /\ live' \subseteq live
    BY <1>4 DEF EndPermission, Ledger!End
  <2> QED
    BY <2>1 DEF LateInv, Waiting
<1> QED
  BY <1>1, <1>2, <1>3, <1>4, LatePoller DEF Next, Authority

(* After a permission has ended, no more transactions leave under it than    *)
(* there are threads: each had read it before.                               *)
THEOREM LateSendsBounded == Spec => []LateSends
<1>1. TypeOK /\ LateInv => LateSends
  <2> SUFFICES ASSUME TypeOK, LateInv, NEW g \in Grants
               PROVE  late[g] <= Cardinality(Pollers)
    BY DEF LateSends
  <2>1. Waiting(g) \in SUBSET Pollers
    BY DEF Waiting
  <2> QED
    BY <2>1, WaitingSize DEF LateInv, TypeOK
<1> QED
  BY <1>1, TypeCorrect, LateInit, LateNext, PTL DEF Spec

-----------------------------------------------------------------------------
(* The argument for DailyBound.  The threads that have passed the gate for   *)
(* one trader's fills will each add at most MaxTrade.  Either there is room  *)
(* for all of them below the bound, or there is for one of them with its own *)
(* amount and all others: the last to pass read a total within the limit.    *)

Through == {"lookup", "send", "record"}
Going(r) == {p \in Pollers : /\ poller[p].pc \in Through /\ poller[p].go
                             /\ RelOf[poller[p].src] = r}
Limit == MaxDaily + (Cardinality(Pollers) - 1) * MaxTrade
Done1(r) == Total(r, {"EXECUTED"})

Room(r) ==
  \/ Done1(r) + Cardinality(Going(r)) * MaxTrade <= Limit
  \/ \E p \in Going(r) :
       Done1(r) + poller[p].amount + (Cardinality(Going(r)) - 1) * MaxTrade <= Limit

WithinTrade ==
  \A p \in Pollers :
    /\ poller[p].pc \in {"gate"} \cup Through => poller[p].amount <= MaxTrade
    /\ poller[p].pc \in {"send", "record"} => poller[p].go

DailyInv == WithinTrade /\ \A r \in Rels : Room(r)

(* The totals, as SumLemmas speaks of them.                                  *)
ExecutedOf(r) == {s \in Sources : RelOf[s] = r /\ exec[s].status = "EXECUTED"}

LEMMA AmountsAreNumbers ==
  ASSUME TypeOK
  PROVE  \A s \in Sources : exec[s].amount \in Nat
<1>1. Amounts \subseteq Nat
  BY PipelineConstants DEF Amounts
<1> QED
  BY <1>1 DEF TypeOK

LEMMA TotalIsRowTotal ==
  ASSUME NEW r, NEW statuses
  PROVE  Total(r, statuses)
           = RowTotal(exec, {s \in Sources : RelOf[s] = r /\ exec[s].status \in statuses})
  BY DEF Total, RowTotal

LEMMA DoneIsRowTotal ==
  ASSUME NEW r
  PROVE  Done1(r) = RowTotal(exec, ExecutedOf(r))
<1>1. ExecutedOf(r) = {s \in Sources : RelOf[s] = r /\ exec[s].status \in {"EXECUTED"}}
  BY DEF ExecutedOf
<1> QED
  BY <1>1, TotalIsRowTotal DEF Done1

LEMMA DoneIsRowTotalNext ==
  ASSUME NEW r
  PROVE  Done1(r)' = RowTotal(exec', ExecutedOf(r)')
<1>1. ExecutedOf(r)' = {s \in Sources : RelOf[s] = r /\ exec'[s].status \in {"EXECUTED"}}
  BY DEF ExecutedOf
<1>2. Done1(r)' = RowTotal(exec', {s \in Sources : RelOf[s] = r /\ exec'[s].status \in {"EXECUTED"}})
  BY DEF Done1, Total, RowTotal, MapThenSumSet, MapThenFoldSet
<1> QED
  BY <1>1, <1>2

LEMMA DoneGrows ==
  ASSUME TypeOK, TypeOK', NEW s, \A o \in Sources : o # s => exec'[o] = exec[o],
         NEW r
  PROVE  /\ Done1(r) \in Nat /\ Done1(r)' \in Nat
         /\ s \notin ExecutedOf(r)' => Done1(r)' <= Done1(r)
         /\ s \in ExecutedOf(r)' => Done1(r)' <= Done1(r) + exec'[s].amount
<1>1. \A o \in Sources : exec[o].amount \in Nat /\ exec'[o].amount \in Nat
  <2>1. Amounts \subseteq Nat
    BY PipelineConstants DEF Amounts
  <2> QED
    BY <2>1 DEF TypeOK
<1>2. /\ ExecutedOf(r) \in SUBSET Sources /\ ExecutedOf(r)' \in SUBSET Sources
      /\ ExecutedOf(r)' \ {s} \subseteq ExecutedOf(r)
  BY DEF ExecutedOf
<1> DEFINE k == exec'
           S == ExecutedOf(r)
           R == ExecutedOf(r)'
<1>3. Done1(r) = RowTotal(exec, S) /\ Done1(r)' = RowTotal(k, R)
  BY DoneIsRowTotal, DoneIsRowTotalNext
<1>4. \A o \in Sources : o # s => exec[o].amount = k[o].amount
  OBVIOUS
<1>5. k[s].amount = exec'[s].amount /\ IsFiniteSet(Sources)
  BY PipelineConstants
<1> HIDE DEF k, S, R
<1>6. /\ RowTotal(exec, S) \in Nat /\ RowTotal(k, R) \in Nat
      /\ s \notin R => RowTotal(k, R) <= RowTotal(exec, S)
      /\ s \in R => RowTotal(k, R) <= RowTotal(exec, S) + k[s].amount
  BY <1>1, <1>2, <1>4, <1>5, RowTotalGrows DEF k, S, R
<1> QED
  BY <1>3, <1>5, <1>6 DEF S, R

(* The day's total counts at least what was executed.                        *)
LEMMA DoneCounts ==
  ASSUME TypeOK, NEW r
  PROVE  /\ Done1(r) \in Nat /\ DailyCopyTotal(r) \in Nat
         /\ Done1(r) <= DailyCopyTotal(r)
<1> DEFINE S == ExecutedOf(r)
           R == {s \in Sources : RelOf[s] = r
                   /\ exec[s].status \in {"PENDING", "APPROVED", "EXECUTED"}}
<1>1. S \in SUBSET Sources /\ R \in SUBSET Sources /\ S \subseteq R
  BY DEF ExecutedOf
<1>2. Done1(r) = RowTotal(exec, S) /\ DailyCopyTotal(r) = RowTotal(exec, R)
  BY DoneIsRowTotal, TotalIsRowTotal DEF DailyCopyTotal
<1> HIDE DEF S, R
<1>3. /\ RowTotal(exec, S) \in Nat /\ RowTotal(exec, R) \in Nat
      /\ RowTotal(exec, S) <= RowTotal(exec, R)
  BY <1>1, AmountsAreNumbers, PipelineConstants, RowTotalAdds
<1> QED
  BY <1>2, <1>3

(* Room for one trade more is MaxTrade more.                                 *)
LEMMA OneTradeMore ==
  ASSUME NEW k \in Nat, NEW n \in Nat
  PROVE  /\ k * MaxTrade \in Nat
         /\ k # 0 => k * MaxTrade = (k - 1) * MaxTrade + MaxTrade
         /\ k <= n => k * MaxTrade <= n * MaxTrade
         /\ MaxTrade \in Nat /\ MaxDaily \in Nat
  BY PipelineConstants

LEMMA AmountsInNat == Amounts \subseteq Nat
  BY PipelineConstants DEF Amounts

LEMMA GoingSize ==
  ASSUME NEW r
  PROVE  /\ Going(r) \in SUBSET Pollers /\ Cardinality(Going(r)) \in Nat
         /\ Cardinality(Pollers) \in Nat /\ Cardinality(Pollers) # 0
         /\ Cardinality(Going(r)) <= Cardinality(Pollers)
         /\ \A p \in Going(r) : /\ Cardinality(Going(r)) # 0
                                /\ Cardinality(Going(r) \ {p}) = Cardinality(Going(r)) - 1
<1>1. Going(r) \in SUBSET Pollers
  BY DEF Going
<1>2. Cardinality(Pollers) # 0
  BY PipelineConstants, FS_EmptySet
<1>3. Going(r) # {} => Cardinality(Going(r)) # 0
  BY <1>1, WaitingSize, FS_EmptySet
<1> QED
  BY <1>1, <1>2, <1>3, WaitingSize

LEMMA LimitIsNumber == Limit \in Nat
<1> DEFINE n == Cardinality(Pollers)
<1>1. n \in Nat /\ n # 0 /\ n - 1 \in Nat
  BY PipelineConstants, FS_CardinalityType, FS_EmptySet
<1> HIDE DEF n
<1>2. (n - 1) * MaxTrade \in Nat
  BY <1>1, OneTradeMore
<1> QED
  BY <1>2, OneTradeMore DEF Limit, n

(* Nothing more was executed and no thread came through.                     *)
LEMMA RoomKept ==
  ASSUME TypeOK, NEW r, Room(r), Done1(r) \in Nat, Done1(r)' \in Nat,
         Done1(r)' <= Done1(r), Going(r)' \subseteq Going(r),
         \A p \in Going(r)' : poller'[p].amount = poller[p].amount
  PROVE  Room(r)'
<1> DEFINE k == Cardinality(Going(r))
           l == Cardinality(Going(r)')
<1>1. k \in Nat /\ l \in Nat /\ l <= k
  BY GoingSize, WaitingSize
<1>2. Limit' = Limit
  BY DEF Limit
<1>3. CASE Done1(r) + k * MaxTrade <= Limit
  <2>1. Done1(r)' + l * MaxTrade <= Limit
    <3> HIDE DEF k, l
    <3> QED
      BY <1>1, <1>3, OneTradeMore, LimitIsNumber
  <2> QED
    BY <1>2, <2>1 DEF Room
<1>4. ASSUME NEW p \in Going(r),
             Done1(r) + poller[p].amount + (k - 1) * MaxTrade <= Limit
      PROVE  Room(r)'
  <2>1. poller[p].amount \in Nat /\ k # 0 /\ k - 1 \in Nat
    <3>1. p \in Pollers /\ k # 0
      BY GoingSize
    <3>2. poller[p].amount \in Nat
      BY <3>1, Working, AmountsInNat
    <3> HIDE DEF k
    <3>3. k - 1 \in Nat
      BY <1>1, <3>1
    <3> QED
      BY <3>1, <3>2, <3>3
  <2>2. CASE p \in Going(r)'
    <3>1. l # 0 /\ l - 1 \in Nat /\ l - 1 <= k - 1
      <4>1. Going(r)' \in SUBSET Pollers
        BY DEF Going
      <4>2. l # 0
        BY <2>2, <4>1, WaitingSize, FS_EmptySet
      <4> QED
        BY <1>1, <2>1, <4>2
    <3>2. Done1(r)' + poller'[p].amount + (l - 1) * MaxTrade <= Limit
      <4>1. poller'[p].amount = poller[p].amount
        BY <2>2
      <4> HIDE DEF k, l
      <4>2. (l - 1) * MaxTrade <= (k - 1) * MaxTrade
        BY <2>1, <3>1, OneTradeMore
      <4>3. (l - 1) * MaxTrade \in Nat /\ (k - 1) * MaxTrade \in Nat
        BY <2>1, <3>1, OneTradeMore
      <4> QED
        BY <1>4, <2>1, <4>1, <4>2, <4>3, LimitIsNumber
    <3> QED
      BY <1>2, <2>2, <3>2 DEF Room
  <2>3. CASE p \notin Going(r)'
    <3>1. Going(r)' \in SUBSET (Going(r) \ {p}) /\ Going(r) \ {p} \in SUBSET Pollers
      BY <2>3 DEF Going
    <3>2. l <= k - 1
      BY <3>1, GoingSize, WaitingSize
    <3>3. Done1(r)' + l * MaxTrade <= Limit
      <4> HIDE DEF k, l
      <4>1. l * MaxTrade <= (k - 1) * MaxTrade
        BY <1>1, <2>1, <3>2, OneTradeMore
      <4>2. l * MaxTrade \in Nat /\ (k - 1) * MaxTrade \in Nat
        BY <1>1, <2>1, OneTradeMore
      <4> QED
        BY <1>4, <2>1, <4>1, <4>2, LimitIsNumber
    <3> QED
      BY <1>2, <3>3 DEF Room
  <2> QED
    BY <2>2, <2>3
<1> QED
  BY <1>3, <1>4 DEF Room

(* A thread that came through has recorded its trade.                        *)
LEMMA RoomTaken ==
  ASSUME TypeOK, NEW r, Room(r), Done1(r) \in Nat, Done1(r)' \in Nat,
         NEW c \in Going(r), poller[c].amount <= MaxTrade,
         Done1(r)' <= Done1(r) + poller[c].amount, Going(r)' = Going(r) \ {c},
         \A p \in Going(r)' : poller'[p].amount = poller[p].amount
  PROVE  Room(r)'
<1> DEFINE k == Cardinality(Going(r))
           l == Cardinality(Going(r)')
<1>1. k \in Nat /\ k # 0 /\ k - 1 \in Nat /\ l = k - 1
  BY GoingSize
<1>2. Limit' = Limit
  BY DEF Limit
<1>3. \A p \in Going(r) : poller[p].amount \in Nat
  BY Working, AmountsInNat DEF Going
<1>4. CASE Done1(r) + k * MaxTrade <= Limit
  <2>1. Done1(r)' + l * MaxTrade <= Limit
    <3>1. poller[c].amount \in Nat
      BY <1>3
    <3> HIDE DEF k, l
    <3>2. k * MaxTrade = l * MaxTrade + MaxTrade /\ l * MaxTrade \in Nat
      BY <1>1, OneTradeMore
    <3> QED
      BY <1>4, <3>1, <3>2, OneTradeMore, LimitIsNumber
  <2> QED
    BY <1>2, <2>1 DEF Room
<1>5. ASSUME NEW p \in Going(r),
             Done1(r) + poller[p].amount + (k - 1) * MaxTrade <= Limit
      PROVE  Room(r)'
  <2>1. poller[p].amount \in Nat /\ poller[c].amount \in Nat
    BY <1>3
  <2>2. CASE p = c
    <3>1. Done1(r)' + l * MaxTrade <= Limit
      <4> HIDE DEF k, l
      <4>1. (k - 1) * MaxTrade = l * MaxTrade /\ l * MaxTrade \in Nat
        BY <1>1, OneTradeMore
      <4> QED
        BY <1>5, <2>1, <2>2, <4>1, LimitIsNumber
    <3> QED
      BY <1>2, <3>1 DEF Room
  <2>3. CASE p # c
    <3>1. p \in Going(r)' /\ poller'[p].amount = poller[p].amount
      BY <2>3
    <3>2. l # 0 /\ l - 1 \in Nat
      <4>1. Going(r)' \in SUBSET Pollers
        BY DEF Going
      <4>2. l # 0
        BY <3>1, <4>1, WaitingSize, FS_EmptySet
      <4> QED
        BY <1>1, <4>2
    <3>3. Done1(r)' + poller'[p].amount + (l - 1) * MaxTrade <= Limit
      <4> HIDE DEF k, l
      <4>1. (k - 1) * MaxTrade = (l - 1) * MaxTrade + MaxTrade /\ (l - 1) * MaxTrade \in Nat
        BY <1>1, <3>2, OneTradeMore
      <4> QED
        BY <1>5, <2>1, <3>1, <4>1, OneTradeMore, LimitIsNumber
    <3> QED
      BY <1>2, <3>1, <3>3 DEF Room
  <2> QED
    BY <2>2, <2>3
<1> QED
  BY <1>4, <1>5 DEF Room

(* A thread comes through when its amount fits below the limit.              *)
LEMMA RoomFound ==
  ASSUME NEW r, Done1(r) \in Nat, Done1(r)' = Done1(r),
         NEW c \in Going(r)', poller'[c].amount \in Nat,
         Done1(r) + poller'[c].amount <= MaxDaily
  PROVE  Room(r)'
<1> DEFINE l == Cardinality(Going(r)')
           n == Cardinality(Pollers)
<1>1. Limit' = Limit
  BY DEF Limit
<1>2. l \in Nat /\ n \in Nat /\ l <= n /\ l # 0 /\ l - 1 \in Nat /\ n - 1 \in Nat
  <2>1. Going(r)' \in SUBSET Pollers
    BY DEF Going
  <2>2. l # 0
    BY <2>1, WaitingSize, FS_EmptySet
  <2> QED
    BY <2>1, <2>2, WaitingSize
<1>3. Done1(r)' + poller'[c].amount + (l - 1) * MaxTrade <= Limit
  <2>1. Limit = MaxDaily + (n - 1) * MaxTrade
    BY DEF Limit
  <2> HIDE DEF l, n
  <2>2. (l - 1) * MaxTrade <= (n - 1) * MaxTrade
    BY <1>2, OneTradeMore
  <2>3. (l - 1) * MaxTrade \in Nat /\ (n - 1) * MaxTrade \in Nat
    BY <1>2, OneTradeMore
  <2>4. MaxDaily \in Nat
    BY PipelineConstants
  <2> DEFINE a == (l - 1) * MaxTrade
             b == (n - 1) * MaxTrade
  <2> HIDE DEF a, b
  <2>5. a \in Nat /\ b \in Nat /\ a <= b /\ Limit = MaxDaily + b
    BY <2>1, <2>2, <2>3 DEF a, b
  <2>6. Done1(r)' + poller'[c].amount + a <= Limit
    BY <2>4, <2>5
  <2> QED
    BY <2>6 DEF a
<1> QED
  BY <1>1, <1>3 DEF Room

LEMMA DailyInit == Init => DailyInv
<1> SUFFICES ASSUME Init PROVE DailyInv
  OBVIOUS
<1>1. TypeOK
  BY TypeInit
<1>2. WithinTrade
  BY DEF Init, IdlePoller, WithinTrade, Through
<1>3. ASSUME NEW r \in Rels PROVE Room(r)
  <2>1. Going(r) = {}
    BY DEF Init, IdlePoller, Going, Through
  <2>2. ExecutedOf(r) = {}
    BY DEF Init, NoRow, ExecutedOf
  <2>3. Done1(r) = 0
    <3>1. RowTotal(exec, {}) = 0
      BY <1>1, AmountsAreNumbers, PipelineConstants, RowTotalAdds
    <3> QED
      BY <2>2, <3>1, DoneIsRowTotal
  <2>4. Cardinality(Going(r)) * MaxTrade = 0
    BY <2>1, FS_EmptySet, OneTradeMore
  <2> QED
    BY <2>3, <2>4, LimitIsNumber DEF Room
<1> QED
  BY <1>2, <1>3 DEF DailyInv

(* A change of the rows that executes none.                                  *)
LEMMA NoneExecuted ==
  ASSUME TypeOK, TypeOK', NEW s, \A o \in Sources : o # s => exec'[o] = exec[o],
         s \in Sources /\ exec'[s].status = "EXECUTED" => exec'[s] = exec[s],
         NEW r
  PROVE  Done1(r) \in Nat /\ Done1(r)' \in Nat /\ Done1(r)' <= Done1(r)
<1>1. CASE s \in Sources /\ exec'[s].status = "EXECUTED"
  <2>1. \A o \in Sources : o # NoSource => exec'[o] = exec[o]
    BY <1>1
  <2>2. NoSource \notin ExecutedOf(r)'
    BY PipelineConstants DEF ExecutedOf
  <2> QED
    BY <2>1, <2>2, DoneGrows
<1>2. CASE s \notin Sources \/ exec'[s].status # "EXECUTED"
  <2>1. s \notin ExecutedOf(r)'
    BY <1>2 DEF ExecutedOf
  <2> QED
    BY <2>1, DoneGrows
<1> QED
  BY <1>1, <1>2

LEMMA TradeKept ==
  ASSUME DailyInv, NEW p, \A q \in Pollers : q # p => poller'[q] = poller[q],
         p \in Pollers =>
           /\ poller'[p].pc \in {"gate"} \cup Through => poller'[p].amount <= MaxTrade
           /\ poller'[p].pc \in {"send", "record"} => poller'[p].go
  PROVE  WithinTrade'
  BY DEF DailyInv, WithinTrade

(* A step that executes nothing and through which no thread comes.           *)
LEMMA DailyQuiet ==
  ASSUME TypeOK, TypeOK', DailyInv,
         NEW s, \A o \in Sources : o # s => exec'[o] = exec[o],
         s \in Sources /\ exec'[s].status = "EXECUTED" => exec'[s] = exec[s],
         NEW p \in Pollers, \A q \in Pollers : q # p => poller'[q] = poller[q],
         poller'[p].pc \in {"gate"} \cup Through => poller'[p].amount <= MaxTrade,
         poller'[p].pc \in {"send", "record"} => poller'[p].go,
         poller'[p].pc \in Through /\ poller'[p].go =>
           /\ poller[p].pc \in Through /\ poller[p].go
           /\ poller'[p].src = poller[p].src /\ poller'[p].amount = poller[p].amount
  PROVE  DailyInv'
<1>1. WithinTrade'
  BY TradeKept
<1>2. ASSUME NEW r \in Rels PROVE Room(r)'
  <2>1. Done1(r) \in Nat /\ Done1(r)' \in Nat /\ Done1(r)' <= Done1(r)
    BY NoneExecuted
  <2>2. /\ Going(r)' \subseteq Going(r)
        /\ \A q \in Going(r)' : poller'[q].amount = poller[q].amount
    BY DEF Going
  <2>3. Room(r)
    BY DEF DailyInv
  <2> QED
    BY <2>1, <2>2, <2>3, RoomKept
<1> QED
  BY <1>1, <1>2 DEF DailyInv

LEMMA DailyGate ==
  ASSUME TypeOK, TypeOK', DailyInv, NEW p \in Pollers, Gate(p)
  PROVE  DailyInv'
<1> DEFINE o == RelOf[poller[p].src]
<1>1. PICK ok \in BOOLEAN :
        /\ ok => DailyCopyTotal(o) + poller[p].amount <= MaxDaily
        /\ poller' = [poller EXCEPT ![p].pc = "lookup", ![p].go = ok]
  BY DEF Gate
<1>2. /\ poller'[p].pc = "lookup" /\ poller'[p].go = ok
      /\ poller'[p].src = poller[p].src /\ poller'[p].amount = poller[p].amount
      /\ \A q \in Pollers : q # p => poller'[q] = poller[q]
  BY <1>1 DEF TypeOK, Poller, IdlePoller
<1>3. poller[p].pc = "gate" /\ poller[p].amount <= MaxTrade /\ exec' = exec
  BY DEF Gate, DailyInv, WithinTrade
<1>4. poller[p].amount \in Nat
  BY Working, AmountsInNat
<1>5. CASE ~ ok
  BY <1>2, <1>3, <1>5, DailyQuiet DEF Through
<1>6. CASE ok
  <2>1. WithinTrade'
    BY <1>2, <1>3, TradeKept
  <2>2. ASSUME NEW r \in Rels PROVE Room(r)'
    <3>1. /\ Done1(r) \in Nat /\ Done1(r)' \in Nat /\ Done1(r)' <= Done1(r)
      BY <1>3, NoneExecuted
    <3>2. Done1(r)' = Done1(r)
      <4>1. ExecutedOf(r)' = ExecutedOf(r)
        BY <1>3 DEF ExecutedOf
      <4> QED
        BY <1>3, <4>1, DoneIsRowTotal, DoneIsRowTotalNext
    <3>3. CASE o = r
      <4>1. p \in Going(r)'
        BY <1>2, <1>6, <3>3 DEF Going, Through
      <4>2. Done1(r) + poller'[p].amount <= MaxDaily
        <5>1. Done1(r) <= DailyCopyTotal(r) /\ DailyCopyTotal(r) \in Nat
          BY DoneCounts
        <5>2. DailyCopyTotal(r) + poller[p].amount <= MaxDaily /\ MaxDaily \in Nat
          BY <1>1, <1>6, <3>3, PipelineConstants
        <5> QED
          BY <1>2, <1>4, <3>1, <5>1, <5>2
      <4> QED
        BY <1>2, <1>4, <3>1, <3>2, <4>1, <4>2, RoomFound
    <3>4. CASE o # r
      <4>1. /\ Going(r)' \subseteq Going(r)
            /\ \A q \in Going(r)' : poller'[q].amount = poller[q].amount
        BY <1>2, <3>4 DEF Going
      <4> QED
        BY <3>1, <4>1, RoomKept DEF DailyInv
    <3> QED
      BY <3>3, <3>4
  <2> QED
    BY <2>1, <2>2 DEF DailyInv
<1> QED
  BY <1>5, <1>6

LEMMA DailyRecord ==
  ASSUME TypeOK, TypeOK', DailyInv, NEW p \in Pollers, Record(p)
  PROVE  DailyInv'
<1> DEFINE s == poller[p].src
           row == Row("EXECUTED", poller[p].amount)
<1>1. /\ poller[p].pc = "record" /\ poller[p].go /\ poller[p].amount <= MaxTrade
      /\ Done(p) /\ s \in Sources /\ poller[p].amount \in Nat
  BY Working, AmountsInNat DEF Record, DailyInv, WithinTrade, Through
<1>2. poller'[p].pc = "idle" /\ \A q \in Pollers : q # p => poller'[q] = poller[q]
  BY <1>1 DEF Done, TypeOK, IdlePoller
<1>3. exec' = exec \/ exec' = [exec EXCEPT ![s] = row]
  BY DEF Record, Create
<1>4. /\ \A o \in Sources : o # s => exec'[o] = exec[o]
      /\ exec'[s] = exec[s] \/ exec'[s].amount = poller[p].amount
  BY <1>1, <1>3 DEF TypeOK, Row
<1>5. WithinTrade'
  BY <1>2, TradeKept DEF Through
<1>6. ASSUME NEW r \in Rels PROVE Room(r)'
  <2>0. /\ Going(r)' = Going(r) \ {p} /\ Room(r)
        /\ \A q \in Going(r)' : poller'[q].amount = poller[q].amount
    BY <1>2 DEF Going, DailyInv, Through
  <2>1. CASE exec'[s] = exec[s]
    <3>1. Done1(r) \in Nat /\ Done1(r)' \in Nat /\ Done1(r)' <= Done1(r)
      BY <1>4, <2>1, NoneExecuted
    <3> QED
      BY <2>0, <3>1, RoomKept
  <2>2. CASE RelOf[s] # r
    <3>1. s \notin ExecutedOf(r)'
      BY <2>2 DEF ExecutedOf
    <3>2. Done1(r) \in Nat /\ Done1(r)' \in Nat /\ Done1(r)' <= Done1(r)
      BY <1>4, <3>1, DoneGrows
    <3> QED
      BY <2>0, <3>2, RoomKept
  <2>3. CASE RelOf[s] = r /\ exec'[s].amount = poller[p].amount
    <3>1. p \in Going(r)
      BY <1>1, <2>3 DEF Going, Through
    <3>2. /\ Done1(r) \in Nat /\ Done1(r)' \in Nat
          /\ Done1(r)' <= Done1(r) \/ Done1(r)' <= Done1(r) + exec'[s].amount
      BY <1>4, DoneGrows
    <3>3. Done1(r)' <= Done1(r) + poller[p].amount
      BY <1>1, <2>3, <3>2
    <3> QED
      BY <1>1, <2>0, <3>1, <3>2, <3>3, RoomTaken
  <2> QED
    BY <1>4, <2>1, <2>2, <2>3
<1> QED
  BY <1>5, <1>6 DEF DailyInv

(* The row a thread that gives up leaves is none of an execution.            *)
LEMMA GivesUp ==
  ASSUME TypeOK, NEW p \in Pollers, Review(p) \/ Deny(p) \/ Skip(p) \/ Failed(p)
  PROVE  /\ Done(p) /\ poller[p].src \in Sources
         /\ \A o \in Sources : o # poller[p].src => exec'[o] = exec[o]
         /\ exec'[poller[p].src].status = "EXECUTED" =>
              exec'[poller[p].src] = exec[poller[p].src]
<1> DEFINE s == poller[p].src
<1>1. Done(p) /\ s \in Sources
  BY Working DEF Review, Deny, Skip, Failed
<1>2. \/ exec' = exec
      \/ \E status \in {"PENDING", "SKIPPED"} : \E amount :
            exec' = [exec EXCEPT ![s] = Row(status, amount)]
      \/ exec' = [exec EXCEPT ![s].status = "FAILED"]
  BY DEF Review, Deny, Skip, Failed, Create
<1>3. ASSUME NEW status \in {"PENDING", "SKIPPED"}, NEW amount,
             exec' = [exec EXCEPT ![s] = Row(status, amount)]
      PROVE  /\ \A o \in Sources : o # s => exec'[o] = exec[o]
             /\ exec'[s].status # "EXECUTED"
  BY <1>1, <1>3 DEF TypeOK, Row
<1>4. ASSUME exec' = [exec EXCEPT ![s].status = "FAILED"]
      PROVE  /\ \A o \in Sources : o # s => exec'[o] = exec[o]
             /\ exec'[s].status # "EXECUTED"
  BY <1>1, <1>4 DEF TypeOK
<1> QED
  BY <1>1, <1>2, <1>3, <1>4

LEMMA DailyPoller ==
  ASSUME TypeOK, TypeOK', DailyInv, NEW p \in Pollers, PollerStep(p)
  PROVE  DailyInv'
<1> USE DEF owners, history
<1>1. ASSUME NEW pc, Goto(p, pc)
      PROVE  /\ poller'[p] = [poller[p] EXCEPT !.pc = pc]
             /\ \A q \in Pollers : q # p => poller'[q] = poller[q]
  BY <1>1 DEF Goto, TypeOK
<1>2. ASSUME Done(p)
      PROVE  /\ poller'[p].pc = "idle"
             /\ \A q \in Pollers : q # p => poller'[q] = poller[q]
  BY <1>2 DEF Done, TypeOK, IdlePoller
<1>0. poller[p].pc # "idle" => poller[p] \in Poller \ {IdlePoller}
  BY DEF TypeOK, IdlePoller
<1>3. ASSUME NEW s \in Sources, Detect(p, s) PROVE DailyInv'
  <2>1. /\ exec' = exec /\ poller'[p].pc \in {"agent", "review"}
        /\ \A q \in Pollers : q # p => poller'[q] = poller[q]
    BY <1>3 DEF Detect, TypeOK, IdlePoller
  <2> QED
    BY <2>1, DailyQuiet DEF Through
<1>4. CASE Review(p) \/ Deny(p) \/ Skip(p) \/ Failed(p)
  <2> DEFINE s == poller[p].src
  <2>1. /\ Done(p) /\ \A o \in Sources : o # s => exec'[o] = exec[o]
        /\ s \in Sources /\ exec'[s].status = "EXECUTED" => exec'[s] = exec[s]
    BY <1>4, GivesUp
  <2> HIDE DEF s
  <2> QED
    BY <1>2, <2>1, DailyQuiet DEF Through
<1>5. CASE Crash(p)
  BY <1>2, <1>5, DailyQuiet DEF Crash, Through
<1>6. CASE AgentRead(p)
  <2>1. exec' = exec
    BY <1>6 DEF AgentRead
  <2>2. CASE Done(p)
    BY <1>2, <2>1, <2>2, DailyQuiet DEF Through
  <2>3. CASE Goto(p, "deny")
    <3>1. poller[p].pc = "agent" /\ poller'[p] = [poller[p] EXCEPT !.pc = "deny"]
      BY <1>1, <1>6, <2>3 DEF AgentRead
    <3>2. poller'[p].pc = "deny"
      BY <1>0, <3>1 DEF Poller
    <3> QED
      BY <1>1, <2>1, <2>3, <3>2, DailyQuiet DEF Through
  <2>4. ASSUME NEW g \in live,
               poller' = [poller EXCEPT ![p].pc = "gate", ![p].perm = g,
                                        ![p].amount = Min({@, MaxTrade})]
        PROVE  DailyInv'
    <3>1. /\ poller'[p].pc = "gate" /\ poller'[p].amount = Min({poller[p].amount, MaxTrade})
          /\ \A q \in Pollers : q # p => poller'[q] = poller[q]
      BY <1>0, <1>6, <2>4 DEF AgentRead, TypeOK, Poller
    <3>2. poller'[p].amount <= MaxTrade
      <4>1. poller[p].amount \in Nat /\ MaxTrade \in Nat
        BY Working, AmountsInNat, LimitsAreAmounts
      <4> QED
        BY <3>1, <4>1, MinOfTwo
    <3> QED
      BY <2>1, <3>1, <3>2, DailyQuiet DEF Through
  <2> QED
    BY <1>6, <2>2, <2>3, <2>4 DEF AgentRead, ActivePermission
<1>7. CASE FindExpired(p)
  <2>1. exec' = exec /\ poller[p].pc = "agent" /\ Goto(p, "deny")
    BY <1>7 DEF FindExpired
  <2>2. poller'[p].pc = "deny"
    <3>1. poller'[p] = [poller[p] EXCEPT !.pc = "deny"]
      BY <1>1, <2>1
    <3> QED
      BY <1>0, <2>1, <3>1 DEF Poller
  <2> QED
    BY <1>1, <2>1, <2>2, DailyQuiet DEF Through
<1>8. CASE Lookup(p)
  <2> DEFINE pc == IF poller[p].go THEN "send" ELSE "skip"
  <2>1. /\ exec' = exec /\ poller[p].pc = "lookup"
        /\ poller'[p].pc = pc /\ poller'[p].go = poller[p].go
        /\ poller'[p].src = poller[p].src /\ poller'[p].amount = poller[p].amount
        /\ \A q \in Pollers : q # p => poller'[q] = poller[q]
    BY <1>0, <1>8 DEF Lookup, TypeOK, Poller
  <2>2. poller[p].amount <= MaxTrade
    BY <2>1 DEF DailyInv, WithinTrade, Through
  <2> QED
    BY <2>1, <2>2, DailyQuiet DEF Through
<1>9. CASE Send(p)
  <2>1. /\ exec' = exec /\ poller[p].pc = "send" /\ Goto(p, "record")
        /\ poller'[p] = [poller[p] EXCEPT !.pc = "record"]
    BY <1>1, <1>9 DEF Send, Transmit
  <2>2. /\ poller'[p].pc = "record" /\ poller'[p].go = poller[p].go
        /\ poller'[p].src = poller[p].src /\ poller'[p].amount = poller[p].amount
    BY <1>0, <2>1 DEF Poller
  <2>3. poller[p].amount <= MaxTrade /\ poller[p].go
    BY <2>1 DEF DailyInv, WithinTrade, Through
  <2> QED
    BY <1>1, <2>1, <2>2, <2>3, DailyQuiet DEF Through
<1>10. CASE SendLost(p) \/ SendFails(p)
  <2>1. /\ exec' = exec /\ poller[p].pc = "send" /\ Goto(p, "failed")
        /\ poller'[p] = [poller[p] EXCEPT !.pc = "failed"]
    BY <1>1, <1>10 DEF SendLost, SendFails, Transmit
  <2>2. poller'[p].pc = "failed"
    BY <1>0, <2>1 DEF Poller
  <2> QED
    BY <1>1, <2>1, <2>2, DailyQuiet DEF Through
<1> QED
  BY <1>3, <1>4, <1>5, <1>6, <1>7, <1>8, <1>9, <1>10, DailyGate, DailyRecord
     DEF PollerStep

(* A step of the owner, who executes nothing, and of no thread.              *)
LEMMA DailyOwner ==
  ASSUME TypeOK, TypeOK', DailyInv, UNCHANGED poller,
         \/ UNCHANGED exec
         \/ \E s \in Sources : SkipCopyExecution(s) \/ PrepareCopyTrade(s)
  PROVE  DailyInv'
<1>1. WithinTrade'
  BY DEF DailyInv, WithinTrade
<1>2. ASSUME NEW r \in Rels PROVE Room(r)'
  <2>1. Done1(r) \in Nat /\ Done1(r)' \in Nat /\ Done1(r)' <= Done1(r)
    <3>1. CASE UNCHANGED exec
      BY <3>1, NoneExecuted
    <3>2. ASSUME NEW s \in Sources, SkipCopyExecution(s) \/ PrepareCopyTrade(s)
          PROVE  Done1(r) \in Nat /\ Done1(r)' \in Nat /\ Done1(r)' <= Done1(r)
      <4>1. /\ \A o \in Sources : o # s => exec'[o] = exec[o]
            /\ exec'[s].status # "EXECUTED"
        BY <3>2 DEF SkipCopyExecution, PrepareCopyTrade, TypeOK
      <4> QED
        BY <4>1, NoneExecuted
    <3> QED
      BY <3>1, <3>2
  <2>2. /\ Going(r)' \subseteq Going(r)
        /\ \A q \in Going(r)' : poller'[q].amount = poller[q].amount
    BY DEF Going
  <2>3. Room(r)
    BY DEF DailyInv
  <2> QED
    BY <2>1, <2>2, <2>3, RoomKept
<1> QED
  BY <1>1, <1>2 DEF DailyInv

LEMMA DailyNext ==
  ASSUME TypeOK, DailyInv, [Next]_vars
  PROVE  DailyInv'
<1> USE DEF owners, history
<1>0. TypeOK'
  BY TypeNext
<1>1. ASSUME NEW s \in Sources, SkipCopyExecution(s) \/ PrepareCopyTrade(s)
      PROVE  DailyInv'
  <2>1. UNCHANGED poller
    BY <1>1 DEF SkipCopyExecution, PrepareCopyTrade
  <2> QED
    BY <1>0, <1>1, <2>1, DailyOwner
<1>2. CASE Authority \/ UNCHANGED vars
  <2>1. UNCHANGED <<poller, exec>>
    BY <1>2 DEF Authority, StartStop, Sign, EndPermission, vars
  <2> QED
    BY <1>0, <2>1, DailyOwner
<1> QED
  BY <1>0, <1>1, <1>2, DailyPoller DEF Next

(* The copies of one trader recorded as EXECUTED exceed the daily limit by at*)
(* most one trade for each thread beside the first.                          *)
THEOREM DailyBoundHolds == Spec => []DailyBound
<1>1. TypeOK /\ DailyInv => DailyBound
  <2> SUFFICES ASSUME TypeOK, DailyInv, NEW r \in Rels
               PROVE  Done1(r) <= Limit
    BY DEF DailyBound, Done1, Limit
  <2> DEFINE k == Cardinality(Going(r))
  <2>1. Room(r) /\ k \in Nat /\ Done1(r) \in Nat
    BY GoingSize, DoneCounts DEF DailyInv
  <2>2. CASE Done1(r) + k * MaxTrade <= Limit
    <3> HIDE DEF k
    <3>1. k * MaxTrade \in Nat
      BY <2>1, OneTradeMore
    <3> QED
      BY <2>1, <2>2, <3>1, LimitIsNumber
  <2>3. ASSUME NEW p \in Going(r),
               Done1(r) + poller[p].amount + (k - 1) * MaxTrade <= Limit
        PROVE  Done1(r) <= Limit
    <3>1. p \in Pollers /\ k # 0
      BY GoingSize
    <3>2. poller[p].amount \in Nat
      BY <3>1, Working, AmountsInNat
    <3> HIDE DEF k
    <3>3. (k - 1) * MaxTrade \in Nat
      BY <2>1, <3>1, OneTradeMore
    <3> QED
      BY <2>1, <2>3, <3>2, <3>3, LimitIsNumber
  <2> QED
    BY <2>1, <2>2, <2>3 DEF Room
<1> QED
  BY <1>1, TypeCorrect, DailyInit, DailyNext, PTL DEF Spec
=============================================================================
