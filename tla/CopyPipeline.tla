---------------------------- MODULE CopyPipeline ----------------------------
(***************************************************************************)
(* From a followed trader's fill to the copy made for one user, on one day. *)
(* The in-process poll loop, the traders page and the Celery task call      *)
(* detect_and_process_copy for every recent fill, again and again and at    *)
(* the same time; the owner skips or approves the copies left for review.   *)
(*                                                                          *)
(* Nothing of it runs in a transaction ("on-chain redeem must not sit       *)
(* inside a Django atomic block"), so every query and every save is a step  *)
(* of its own.  The unique constraint on (relationship, source trade) turns *)
(* the second create of a row into an IntegrityError.                       *)
(*                                                                          *)
(* Permissions come and go as GrantLedger says, which AgentAuthority        *)
(* implements.  Scores, liquidity and the market's state are outcomes the   *)
(* environment chooses.                                                     *)
(***************************************************************************)
EXTENDS Naturals, FiniteSetsExt

CONSTANTS
  Pollers,     \* threads in detect_and_process_copy
  Sources,     \* the followed traders' fills (TraderTrade rows)
  Rels,        \* the user's ACTIVE relationships, one per trader
  RelOf,       \* the relationship of a fill's trader
  AutoRels,    \* the ones with auto_execute
  Grants,      \* permissions the owner may sign
  MaxTrade,    \* max_trade_amount of every permission
  MaxDaily,    \* max_daily_volume of every permission
  InitMax,     \* max_per_trade the user gave each relationship
  MaxSent,     \* bound: transactions sent for one fill
  NoSource, NoGrant

ASSUME PipelineConstants ==
  /\ RelOf \in [Sources -> Rels] /\ AutoRels \subseteq Rels
  /\ {MaxTrade, MaxDaily, InitMax} \subseteq Nat \ {0} /\ MaxSent \in Nat
  /\ NoSource \notin Sources /\ NoGrant \notin Grants
  /\ IsFiniteSet(Pollers) /\ Pollers # {} /\ IsFiniteSet(Sources)

VARIABLES
  exec,      \* the CopyExecution row of a fill: status ("NONE": no row), amount
  relMax,    \* CopyRelationship.max_per_trade
  running,   \* the user's agent is RUNNING
  issued, live,  \* permissions signed, permissions ACTIVE
  poller,    \* the threads
  sent,      \* transactions sent on chain for a fill
  late,      \* history: of these, the ones sent after the permission had ended
  approved,  \* history: fills whose copy was prepared for the owner to sign
  raced,     \* history: fills two threads worked on at the same time
  lost       \* history: fills sent without the row being saved as EXECUTED

vars == <<exec, relMax, running, issued, live, poller, sent, late, approved,
          raced, lost>>

Statuses == {"PENDING", "APPROVED", "SKIPPED", "EXECUTED", "FAILED"}
Amounts == 0..MaxTrade \cup 0..InitMax
NoRow == [status |-> "NONE", amount |-> 0]

(* Mutant: the permission's limit is added to the amount.                    *)
RowOnTop(status, amount) == [status |-> status, amount |-> amount + MaxTrade]

Row(status, amount) == [status |-> status, amount |-> amount]

(* held: the status of the row the thread has in memory, "NONE" without one. *)
IdlePoller == [pc |-> "idle", src |-> NoSource, perm |-> NoGrant, go |-> FALSE,
               held |-> "NONE", amount |-> 0]
Poller == {IdlePoller} \cup
  [pc: {"agent", "deny", "gate", "lookup", "send", "skip", "record", "failed",
        "review"},
   src: Sources, perm: Grants \cup {NoGrant}, go: BOOLEAN,
   held: Statuses \cup {"NONE"}, amount: Amounts]

TypeOK ==
  /\ exec \in [Sources -> [status: Statuses \cup {"NONE"}, amount: Amounts]]
  /\ relMax \in [Rels -> Amounts]
  /\ running \in BOOLEAN
  /\ issued \subseteq Grants /\ live \subseteq issued
  /\ poller \in [Pollers -> Poller]
  /\ sent \in [Sources -> Nat] /\ late \in [Grants -> Nat]
  /\ approved \subseteq Sources /\ raced \subseteq Sources /\ lost \subseteq Sources

Init ==
  /\ exec = [s \in Sources |-> NoRow]
  /\ relMax = [r \in Rels |-> InitMax]
  /\ running = FALSE
  /\ issued = {} /\ live = {}
  /\ poller = [p \in Pollers |-> IdlePoller]
  /\ sent = [s \in Sources |-> 0] /\ late = [g \in Grants |-> 0]
  /\ approved = {} /\ raced = {} /\ lost = {}

owners == <<running, issued, live>>
history == <<late, approved, raced, lost>>

Total(r, statuses) ==
  MapThenSumSet(LAMBDA s : exec[s].amount,
                {s \in Sources : RelOf[s] = r /\ exec[s].status \in statuses})

(* Mutant: what was executed is forgotten.                                   *)
PendingTotal(r) == Total(r, {"PENDING", "APPROVED"})

(* _daily_copy_total: of one relationship, not of the agent.                 *)
DailyCopyTotal(r) == Total(r, {"PENDING", "APPROVED", "EXECUTED"})

(* The next step of a thread, and its return to the loop.                    *)
Goto(p, pc) == poller' = [poller EXCEPT ![p].pc = pc]
Done(p) == poller' = [poller EXCEPT ![p] = IdlePoller]

(* Mutant: only an executed row counts.                                      *)
Executed(s) == exec[s].status = "EXECUTED"

(* CopyExecution.objects.filter(...).exists().                               *)
Recorded(s) == exec[s] # NoRow

(* CopyExecution.objects.create: an IntegrityError if the row exists.        *)
Create(s, row) ==
  exec' = IF Recorded(s) THEN exec ELSE [exec EXCEPT ![s] = row]

(* Mutant: permissions that ended are read as well.                          *)
AnyPermission == issued

(* What active_permission may return: AgentAuthority lets overlapping grants *)
(* leave more than one ACTIVE.                                               *)
ActivePermission == live

-----------------------------------------------------------------------------
(* detect_and_process_copy.                                                  *)

(* No row yet: the agent path if the follow is automatic and an agent is     *)
(* running, the review path otherwise.                                       *)
Detect(p, s) ==
  LET r == RelOf[s]
      path == IF r \in AutoRels /\ running THEN "agent" ELSE "review"
  IN
  /\ poller[p].pc = "idle"
  /\ ~ Recorded(s)
  /\ poller' = [poller EXCEPT ![p] = [IdlePoller EXCEPT !.pc = path, !.src = s,
                                                        !.amount = relMax[r]]]
  /\ raced' = IF \E q \in Pollers : poller[q].src = s THEN raced \cup {s} ELSE raced
  /\ UNCHANGED <<exec, relMax, owners, sent, late, approved, lost>>

(* PENDING for a notify-me follow and for a copy the score and risk checks   *)
(* let through, SKIPPED for an automatic one they refuse (the limits of the  *)
(* relationship among them: on this path the choice is the environment's).   *)
Review(p) ==
  LET s == poller[p].src IN
  /\ poller[p].pc = "review"
  /\ \E status \in {"PENDING"} \cup (IF RelOf[s] \in AutoRels THEN {"SKIPPED"} ELSE {}) :
       Create(s, Row(status, poller[p].amount))
  /\ Done(p)
  /\ UNCHANGED <<relMax, owners, sent, history>>

-----------------------------------------------------------------------------
(* evaluate_and_maybe_execute and execute_trade.                             *)

(* The agent and its permission are read again.  An agent that no longer     *)
(* runs ends the attempt without a row.                                      *)
AgentRead(p) ==
  /\ poller[p].pc = "agent"
  /\ \/ ~ running /\ Done(p)
     \/ running /\ ActivePermission = {} /\ Goto(p, "deny")
     \/ /\ running
        /\ \E g \in ActivePermission :
             poller' = [poller EXCEPT ![p].pc = "gate", ![p].perm = g,
                                      ![p].amount = Min({@, MaxTrade})]
  /\ UNCHANGED <<exec, relMax, owners, sent, history>>

(* The permission it finds has lapsed: permission and agent are saved as     *)
(* EXPIRED, and the copy is denied though another permission may be live.    *)
FindExpired(p) ==
  /\ poller[p].pc = "agent" /\ running
  /\ \E g \in ActivePermission : live' = live \ {g}
  /\ running' = FALSE
  /\ Goto(p, "deny")
  /\ UNCHANGED <<exec, relMax, issued, sent, history>>

Deny(p) ==
  /\ poller[p].pc = "deny"
  /\ Create(poller[p].src, Row("SKIPPED", poller[p].amount))
  /\ Done(p)
  /\ UNCHANGED <<relMax, owners, sent, history>>

(* The day's total is read, the relationship's limit is overwritten with the *)
(* permission's, then score, policy, risk and delegation decide; all but the *)
(* daily limit is the environment's choice.                                  *)
Gate(p) ==
  LET r == RelOf[poller[p].src] IN
  /\ poller[p].pc = "gate"
  /\ relMax' = [relMax EXCEPT ![r] = MaxTrade]
  /\ \E ok \in BOOLEAN :
       /\ ok => DailyCopyTotal(r) + poller[p].amount <= MaxDaily
       /\ poller' = [poller EXCEPT ![p].pc = "lookup", ![p].go = ok]
  /\ UNCHANGED <<exec, owners, sent, history>>

(* A row another thread has created meanwhile is picked up as it is.         *)
Lookup(p) ==
  /\ poller[p].pc = "lookup"
  /\ poller' = [poller EXCEPT ![p].pc = IF poller[p].go THEN "send" ELSE "skip",
                              ![p].held = exec[poller[p].src].status]
  /\ UNCHANGED <<exec, relMax, owners, sent, history>>

(* Without a row one is created; a row in memory is saved over whatever is   *)
(* there now.                                                                *)
Skip(p) ==
  LET s == poller[p].src
      row == Row("SKIPPED", poller[p].amount)
  IN
  /\ poller[p].pc = "skip"
  /\ IF poller[p].held = "NONE" THEN Create(s, row)
                                ELSE exec' = [exec EXCEPT ![s] = row]
  /\ Done(p)
  /\ UNCHANGED <<relMax, owners, sent, history>>

(* The transaction leaves with whatever permission the thread holds.         *)
Transmit(p) ==
  LET s == poller[p].src  g == poller[p].perm IN
  /\ poller[p].pc = "send" /\ sent[s] < MaxSent
  /\ sent' = [sent EXCEPT ![s] = @ + 1]
  /\ late' = [late EXCEPT ![g] = IF g \in live THEN @ ELSE @ + 1]

Send(p) ==
  /\ Transmit(p) /\ Goto(p, "record")
  /\ UNCHANGED <<exec, relMax, owners, approved, raced, lost>>

(* Sent, but no receipt came in time, or confirm_trade refused it.           *)
SendLost(p) ==
  /\ Transmit(p) /\ Goto(p, "failed")
  /\ lost' = lost \cup {poller[p].src}
  /\ UNCHANGED <<exec, relMax, owners, approved, raced>>

(* The quote, the balance, the simulation or the gas check failed.           *)
SendFails(p) ==
  /\ poller[p].pc = "send" /\ Goto(p, "failed")
  /\ UNCHANGED <<exec, relMax, owners, sent, history>>

(* An IntegrityError here is caught with every other: the trade was made and *)
(* this thread leaves no row for it.                                         *)
Record(p) ==
  LET s == poller[p].src
      row == Row("EXECUTED", poller[p].amount)
  IN
  /\ poller[p].pc = "record"
  /\ IF poller[p].held = "NONE"
       THEN /\ Create(s, row)
            /\ lost' = IF Recorded(s) THEN lost \cup {s} ELSE lost
       ELSE exec' = [exec EXCEPT ![s] = row] /\ UNCHANGED lost
  /\ Done(p)
  /\ UNCHANGED <<relMax, owners, sent, late, approved, raced>>

(* Only a row that was PENDING when it was read becomes FAILED; without a    *)
(* row none is created, and the fill is picked up by the next poll.          *)
Failed(p) ==
  LET s == poller[p].src IN
  /\ poller[p].pc = "failed"
  /\ exec' = IF poller[p].held = "PENDING" THEN [exec EXCEPT ![s].status = "FAILED"]
                                           ELSE exec
  /\ Done(p)
  /\ UNCHANGED <<relMax, owners, sent, history>>

(* The process dies; a database error in the loop ends one fill's turn alike.*)
Crash(p) ==
  /\ poller[p].pc # "idle"
  /\ lost' = IF poller[p].pc = "record" THEN lost \cup {poller[p].src} ELSE lost
  /\ Done(p)
  /\ UNCHANGED <<exec, relMax, owners, sent, late, approved, raced>>

-----------------------------------------------------------------------------
(* The owner: skip_copy_execution and prepare_copy_trade lock the row and    *)
(* check its status; a copy the risk check refuses is rolled back.           *)

SkipCopyExecution(s) ==
  /\ exec[s].status = "PENDING"
  /\ exec' = [exec EXCEPT ![s].status = "SKIPPED"]
  /\ UNCHANGED <<relMax, owners, poller, sent, history>>

PrepareCopyTrade(s) ==
  /\ exec[s].status \in {"PENDING", "APPROVED"}
  /\ exec' = [exec EXCEPT ![s].status = "APPROVED"]
  /\ approved' = approved \cup {s}
  /\ UNCHANGED <<relMax, owners, poller, sent, late, raced, lost>>

(* issued and live are the variables of the ledger.                          *)
Ledger == INSTANCE GrantLedger WITH Perms <- Grants

(* Starting and pausing the agent.                                           *)
StartStop ==
  /\ running' = ~ running
  /\ UNCHANGED <<exec, relMax, issued, live, poller, sent, history>>

(* Signing: after the grant's transaction the view copies its limits to the  *)
(* relationships, unless the process dies first.                             *)
Sign(g) ==
  /\ Ledger!Issue(g)
  /\ relMax' \in {relMax, [r \in Rels |-> MaxTrade]}
  /\ UNCHANGED <<exec, running, poller, sent, history>>

(* Revoking and expiring.                                                    *)
EndPermission ==
  /\ Ledger!End
  /\ UNCHANGED <<exec, relMax, running, poller, sent, history>>

Authority == StartStop \/ (\E g \in Grants : Sign(g)) \/ EndPermission

-----------------------------------------------------------------------------
PollerStep(p) ==
  \/ \E s \in Sources : Detect(p, s)
  \/ Review(p)
  \/ AgentRead(p) \/ FindExpired(p) \/ Deny(p) \/ Gate(p) \/ Lookup(p) \/ Skip(p)
  \/ Send(p) \/ SendLost(p) \/ SendFails(p) \/ Record(p) \/ Failed(p)
  \/ Crash(p)

Next ==
  \/ \E p \in Pollers : PollerStep(p)
  \/ \E s \in Sources : SkipCopyExecution(s) \/ PrepareCopyTrade(s)
  \/ Authority

Spec == Init /\ [][Next]_vars

-----------------------------------------------------------------------------
(* The agent copies a fill at most once, and not at all if its copy was ever *)
(* prepared for the owner to sign (who may have it prepared again), unless   *)
(* two threads worked on it side by side or a transaction was sent without   *)
(* its row being saved: the row, and only the row, stops the next poll.      *)
CopiedOnce ==
  \A s \in Sources \ (raced \cup lost) :
    sent[s] + (IF s \in approved THEN 1 ELSE 0) <= 1

(* What was executed or skipped, by the agent or by the owner, stays so,     *)
(* unless a second thread held the fill before the row existed.              *)
FinalKept ==
  [][\A s \in Sources \ raced :
       exec[s].status \in {"EXECUTED", "SKIPPED"} => exec'[s] = exec[s]]_vars

(* The recorded copies of one trader exceed the daily limit by at most one   *)
(* trade for each thread that read the day's total beside another.           *)
DailyBound ==
  \A r \in Rels :
    Total(r, {"EXECUTED"}) <= MaxDaily + (Cardinality(Pollers) - 1) * MaxTrade

(* Once a permission has ended, no more is sent under it than what the       *)
(* threads that had already read it were about to send.                      *)
LateSends == \A g \in Grants : late[g] <= Cardinality(Pollers)

(* The daily limit the owner signed is the permission's: whatever the agent  *)
(* executes in a day, for whichever traders, stays within it.                *)
DailyCap ==
  MapThenSumSet(LAMBDA r : Total(r, {"EXECUTED"}), Rels) <= MaxDaily
=============================================================================
