--------------------------- MODULE AgentAuthority ---------------------------
(***************************************************************************)
(* The authority a user gives a DreamAgent: rows of DreamAgent and          *)
(* DreamAgentPermission for one user and one smart account, and the web,    *)
(* bot and worker threads that change them.                                 *)
(*                                                                          *)
(* The database is Postgres at READ COMMITTED and no handler of this part   *)
(* takes a row lock before it reads, so a handler is modelled at the grain  *)
(* at which others can see it: what it READS (a SELECT into an in-memory    *)
(* row), the rows a bulk UPDATE ... WHERE status = ACTIVE matches, and its  *)
(* COMMIT, at which every write of its atomic block appears at once.  A     *)
(* row saved from memory overwrites whatever is there.                      *)
(***************************************************************************)
EXTENDS Naturals

CONSTANTS
  Agents,     \* DreamAgent rows the user may come to own
  MaxPerm,    \* bound: permissions ever granted, numbered by created_at
  Requests,   \* threads serving the owner: web views and Telegram commands
  Readers,    \* threads calling active_permission: page views, copy workers
  NoAgent     \* "no row"

ASSUME AuthorityConstants ==
  /\ MaxPerm \in Nat
  /\ NoAgent \notin Agents

Perms == 1..MaxPerm

AgentStatus == {"CREATED", "FUNDED", "CONFIGURED", "AUTHORIZED", "RUNNING",
                "PAUSED", "EXPIRED", "REVOKED"}
PermStatus == {"PENDING", "ACTIVE", "EXPIRED", "REVOKED"}

VARIABLES
  account,    \* whether the SmartAccount row exists
  status,     \* DreamAgent.status, "ABSENT" while the row does not exist
  owner,      \* the agent a permission row belongs to, NoAgent while unused
  permStatus, \* DreamAgentPermission.status ("PENDING" while unused)
  lapsed,     \* permissions whose expires_at has passed
  req,        \* the owner's requests in flight
  reader,     \* the active_permission calls in flight
  raced       \* history: the conflicting pairs that were in flight together

vars == <<account, status, owner, permStatus, lapsed, req, reader, raced>>

Operation == {"OPEN", "FUND", "GRANT", "REVOKE", "STATUS", "EXPIRE"}

(* The pairs of operations whose overlap the properties speak of.            *)
Conflicts == {{"OPEN"}, {"OPEN", "GRANT"}, {"GRANT"}, {"EXPIRE", "GRANT"}}
             \cup {{op, "REVOKE"} : op \in {"GRANT", "STATUS", "FUND", "EXPIRE"}}

(* A request: its operation, how far it is, and what it holds in memory.     *)
(* "locked" is a grant whose first write is its agent row, so that its bulk  *)
(* UPDATE runs under that row's lock: no other transaction on the agent      *)
(* commits between what it matches and its own commit.                       *)
Request == [op: Operation \cup {"NONE"},
            pc: {"idle", "read", "locked", "matched"},
            agents: SUBSET Agents,       \* the DreamAgent instances it holds
            target: AgentStatus,         \* the status it will save on them
            rows: SUBSET Perms]          \* rows its bulk UPDATE has matched

Reader == [pc: {"idle", "query", "permission", "agent"},
           agent: Agents \cup {NoAgent},
           running: BOOLEAN,   \* the agent row it holds said RUNNING
           perm: Perms \cup {0}]

IdleRequest == [op |-> "NONE", pc |-> "idle", agents |-> {},
                target |-> "CREATED", rows |-> {}]
IdleReader == [pc |-> "idle", agent |-> NoAgent, running |-> FALSE,
               perm |-> 0]

TypeOK ==
  /\ account \in BOOLEAN
  /\ status \in [Agents -> AgentStatus \cup {"ABSENT"}]
  /\ owner \in [Perms -> Agents \cup {NoAgent}]
  /\ permStatus \in [Perms -> PermStatus]
  /\ lapsed \subseteq Perms
  /\ req \in [Requests -> Request]
  /\ reader \in [Readers -> Reader]
  /\ raced \subseteq Conflicts

Init ==
  /\ account = FALSE
  /\ status = [a \in Agents |-> "ABSENT"]
  /\ owner = [p \in Perms |-> NoAgent]
  /\ permStatus = [p \in Perms |-> "PENDING"]
  /\ lapsed = {}
  /\ req = [r \in Requests |-> IdleRequest]
  /\ reader = [d \in Readers |-> IdleReader]
  /\ raced = {}

-----------------------------------------------------------------------------
(* Queries.                                                                  *)

(* Mutant: revoked agents are not excluded.                                  *)
Existing == {a \in Agents : status[a] # "ABSENT"}

(* .exclude(status=REVOKED).  The handlers order by updated_at and take the  *)
(* first, or the one the caller names; other handlers (the Telegram pending  *)
(* trade, a session-key refresh) touch updated_at, so any live row may be    *)
(* the first.                                                                *)
Live == {a \in Agents : status[a] \notin {"ABSENT", "REVOKED"}}

(* Mutant: no filter on the status.                                          *)
Owned(a) == {p \in Perms : owner[p] = a}

Active(a) == {p \in Perms : owner[p] = a /\ permStatus[p] = "ACTIVE"}

Issued == {p \in Perms : owner[p] # NoAgent}

(* A primary key no committed and no in-flight row has.                      *)
Fresh == {a \in Agents : /\ status[a] = "ABSENT"
                         /\ \A r \in Requests : a \notin req[r].agents}

CanTransition(from, to) ==
  CASE from = "CREATED"    -> to \in {"FUNDED", "CONFIGURED"}
    [] from = "FUNDED"     -> to = "CONFIGURED"
    [] from = "CONFIGURED" -> to = "AUTHORIZED"
    [] from = "AUTHORIZED" -> to \in {"RUNNING", "PAUSED"}
    [] from = "RUNNING"    -> to \in {"PAUSED", "EXPIRED", "AUTHORIZED"}
    [] from = "PAUSED"     -> to \in {"RUNNING", "AUTHORIZED"}
    [] from = "EXPIRED"    -> to \in {"CONFIGURED", "AUTHORIZED"}
    [] OTHER               -> FALSE

(* History: the operations in flight when a new one begins.                  *)
InFlight == {op \in Operation :
               \/ \E r \in Requests : req[r].op = op
               \/ op = "EXPIRE" /\ \E d \in Readers : reader[d].pc # "idle"}
Race(op) ==
  raced' = raced \cup {c \in Conflicts : \E other \in InFlight : c = {op, other}}

Begin(r, op, pc, agents, target) ==
  /\ req[r].pc = "idle"
  /\ req' = [req EXCEPT ![r] = [op |-> op, pc |-> pc, agents |-> agents,
                                target |-> target, rows |-> {}]]
  /\ Race(op)

Finish(r) == req' = [req EXCEPT ![r] = IdleRequest]

(* A commit that saves one status on every agent row the request holds.      *)
SaveStatus(r) ==
  status' = [a \in Agents |-> IF a \in req[r].agents THEN req[r].target
                              ELSE status[a]]

-----------------------------------------------------------------------------
(* Opening the account: create_account commits, then ensure_agent reads and, *)
(* if the user has no live agent, creates one.  The agent page calls         *)
(* ensure_agent again for an account that exists.                            *)

OpenAccount(r) ==
  /\ Begin(r, "OPEN", "read", {}, "CREATED")
  /\ account' = TRUE
  /\ UNCHANGED <<status, owner, permStatus, lapsed, reader>>

EnsureAgentFound(r) ==
  /\ req[r].op = "OPEN" /\ req[r].pc = "read"
  /\ Live # {}
  /\ Finish(r)
  /\ UNCHANGED <<account, status, owner, permStatus, lapsed, reader, raced>>

(* Mutant: an agent is created though the user has one.                      *)
EnsureAgentAlways(r) ==
  /\ req[r].op = "OPEN" /\ req[r].pc = "read"
  /\ \E a \in Fresh : req' = [req EXCEPT ![r].pc = "matched", ![r].agents = {a}]
  /\ UNCHANGED <<account, status, owner, permStatus, lapsed, reader, raced>>

EnsureAgentMissing(r) ==
  /\ req[r].op = "OPEN" /\ req[r].pc = "read"
  /\ Live = {}
  /\ \E a \in Fresh : req' = [req EXCEPT ![r].pc = "matched",
                                         ![r].agents = {a}]
  /\ UNCHANGED <<account, status, owner, permStatus, lapsed, reader, raced>>

EnsureAgentCommit(r) ==
  /\ req[r].op = "OPEN" /\ req[r].pc = "matched"
  /\ SaveStatus(r)
  /\ Finish(r)
  /\ UNCHANGED <<account, owner, permStatus, lapsed, reader, raced>>

-----------------------------------------------------------------------------
(* A deposit: mark_funded saves FUNDED on every agent it read as CREATED; one*)
(* that read no such agent writes no agent row and is left out.              *)

DepositRead(r) ==
  LET created == {a \in Agents : status[a] = "CREATED"} IN
  /\ account /\ created # {}
  /\ Begin(r, "FUND", "read", created, "FUNDED")
  /\ UNCHANGED <<account, status, owner, permStatus, lapsed, reader>>

DepositCommit(r) ==
  /\ req[r].op = "FUND"
  /\ SaveStatus(r)
  /\ Finish(r)
  /\ UNCHANGED <<account, owner, permStatus, lapsed, reader, raced>>

-----------------------------------------------------------------------------
(* Signing a grant.                                                          *)

(* ensure_agent picks a live agent or, when there is none, creates one inside*)
(* the grant's transaction.  A CREATED or FUNDED agent is first saved as     *)
(* CONFIGURED, which takes the lock of its row.                              *)
GrantRead(r) ==
  /\ account
  /\ \E activate \in BOOLEAN :
       LET target == IF activate THEN "RUNNING" ELSE "AUTHORIZED" IN
       \/ \E a \in Live :
            Begin(r, "GRANT",
                  IF status[a] \in {"CREATED", "FUNDED"} THEN "locked" ELSE "read",
                  {a}, target)
       \/ /\ Live = {}
          /\ \E a \in Fresh : Begin(r, "GRANT", "locked", {a}, target)
  /\ UNCHANGED <<account, status, owner, permStatus, lapsed, reader>>

(* The bulk UPDATE of the previous permissions matches the committed ACTIVE  *)
(* rows.  A matched row that another transaction changes first is re-checked *)
(* and left alone; a row committed later is not matched at all.              *)
RevokePrevious(r) ==
  /\ req[r].op \in {"GRANT", "REVOKE"} /\ req[r].pc = "read"
  /\ req' = [req EXCEPT ![r].pc = "matched",
                        ![r].rows = UNION {Active(a) : a \in req[r].agents}]
  /\ UNCHANGED <<account, status, owner, permStatus, lapsed, reader, raced>>

(* Mutants: the UPDATE is forgotten, or writes the status of an agent.       *)
NothingRevoked(rows) == permStatus
PausedRows(rows) ==
  [p \in Perms |-> IF p \in rows THEN "PAUSED" ELSE permStatus[p]]

(* The commit of a bulk UPDATE: the rows it matched that are still ACTIVE.   *)
Revoked(rows) ==
  [p \in Perms |-> IF p \in rows /\ permStatus[p] = "ACTIVE" THEN "REVOKED"
                   ELSE permStatus[p]]

(* Under the lock of the agent's row nothing can be committed between what   *)
(* the UPDATE matches and the commit.                                        *)
Matched(r, a) == IF req[r].pc = "locked" THEN Active(a) ELSE req[r].rows

(* Mutant: an earlier row of the agent is signed again.                      *)
GrantAgain(r) ==
  /\ req[r].op = "GRANT" /\ req[r].pc \in {"locked", "matched"}
  /\ \E a \in req[r].agents, p \in Perms :
       /\ \A q \in 1..(p - 1) : q \in Issued
       /\ owner' = [owner EXCEPT ![p] = a]
       /\ permStatus' = [Revoked(Active(a)) EXCEPT ![p] = "ACTIVE"]
  /\ SaveStatus(r)
  /\ Finish(r)
  /\ UNCHANGED <<account, lapsed, reader, raced>>

(* The new permission, the revocation of the earlier ones and the agent's    *)
(* status appear together.  MaxPerm bounds the permissions ever created.     *)
GrantCommit(r) ==
  /\ req[r].op = "GRANT" /\ req[r].pc \in {"locked", "matched"}
  /\ \E a \in req[r].agents, p \in Perms \ Issued :
       /\ \A q \in 1..(p - 1) : q \in Issued
       /\ owner' = [owner EXCEPT ![p] = a]
       /\ permStatus' = [Revoked(Matched(r, a)) EXCEPT ![p] = "ACTIVE"]
  /\ SaveStatus(r)
  /\ Finish(r)
  /\ UNCHANGED <<account, lapsed, reader, raced>>

-----------------------------------------------------------------------------
(* Revoking, from the revoke view or as a status change to REVOKED.          *)

RevokeRead(r) ==
  /\ \E a \in Live : Begin(r, "REVOKE", "read", {a}, "REVOKED")
  /\ UNCHANGED <<account, status, owner, permStatus, lapsed, reader>>

RevokeCommit(r) ==
  /\ req[r].op = "REVOKE" /\ req[r].pc = "matched"
  /\ permStatus' = Revoked(req[r].rows)
  /\ SaveStatus(r)
  /\ Finish(r)
  /\ UNCHANGED <<account, owner, lapsed, reader, raced>>

-----------------------------------------------------------------------------
(* Pause, resume and the other status changes: the transition is checked on  *)
(* the row that was read, and saved over whatever the row is by then.        *)

StatusRead(r, new) ==
  /\ \E a \in Live : /\ CanTransition(status[a], new)
                     /\ Begin(r, "STATUS", "read", {a}, new)
  /\ UNCHANGED <<account, status, owner, permStatus, lapsed, reader>>

StatusCommit(r) ==
  /\ req[r].op = "STATUS"
  /\ SaveStatus(r)
  /\ Finish(r)
  /\ UNCHANGED <<account, owner, permStatus, lapsed, reader, raced>>

(* A validation error, a lost connection or a killed worker rolls back what  *)
(* the transaction wrote.                                                    *)
Abort(r) ==
  /\ req[r].pc # "idle"
  /\ Finish(r)
  /\ UNCHANGED <<account, status, owner, permStatus, lapsed, reader, raced>>

-----------------------------------------------------------------------------
(* active_permission(agent): no transaction, every save commits by itself.   *)

(* The caller has read the agent row some time before the call.              *)
ReadAgent(d) ==
  /\ reader[d].pc = "idle"
  /\ \E a \in Agents :
       /\ status[a] # "ABSENT"
       /\ reader' = [reader EXCEPT ![d] = [pc |-> "query", agent |-> a, perm |-> 0,
                                           running |-> status[a] = "RUNNING"]]
  /\ Race("EXPIRE")
  /\ UNCHANGED <<account, status, owner, permStatus, lapsed, req>>

ReaderDone(d) == reader' = [reader EXCEPT ![d] = IdleReader]

NothingExpired(d) ==
  /\ reader[d].pc = "query"
  /\ \/ Active(reader[d].agent) = {}
     \/ \E p \in Active(reader[d].agent) : p \notin lapsed
  /\ ReaderDone(d)
  /\ UNCHANGED <<account, status, owner, permStatus, lapsed, req, raced>>

(* The newest ACTIVE row.  Two rows are ACTIVE only when their grants        *)
(* overlapped, and then created_at may order them either way.                *)
FoundExpired(d) ==
  /\ reader[d].pc = "query"
  /\ \E p \in Active(reader[d].agent) \cap lapsed :
       reader' = [reader EXCEPT ![d].pc = "permission", ![d].perm = p]
  /\ UNCHANGED <<account, status, owner, permStatus, lapsed, req, raced>>

SavePermissionExpired(d) ==
  /\ reader[d].pc = "permission"
  /\ permStatus' = [permStatus EXCEPT ![reader[d].perm] = "EXPIRED"]
  /\ IF reader[d].running
       THEN reader' = [reader EXCEPT ![d].pc = "agent"]
       ELSE ReaderDone(d)
  /\ UNCHANGED <<account, status, owner, lapsed, req, raced>>

SaveAgentExpired(d) ==
  /\ reader[d].pc = "agent"
  /\ status' = [status EXCEPT ![reader[d].agent] = "EXPIRED"]
  /\ ReaderDone(d)
  /\ UNCHANGED <<account, owner, permStatus, lapsed, req, raced>>

ReaderCrash(d) ==
  /\ reader[d].pc # "idle"
  /\ ReaderDone(d)
  /\ UNCHANGED <<account, status, owner, permStatus, lapsed, req, raced>>

(* The clock passes a permission's expires_at.                               *)
Lapse(p) ==
  /\ p \in Issued \ lapsed
  /\ lapsed' = lapsed \cup {p}
  /\ UNCHANGED <<account, status, owner, permStatus, req, reader, raced>>

-----------------------------------------------------------------------------
RequestStep(r) ==
  \/ OpenAccount(r) \/ EnsureAgentFound(r) \/ EnsureAgentMissing(r)
  \/ EnsureAgentCommit(r)
  \/ DepositRead(r) \/ DepositCommit(r)
  \/ GrantRead(r) \/ RevokePrevious(r) \/ GrantCommit(r)
  \/ RevokeRead(r) \/ RevokeCommit(r)
  \/ (\E new \in AgentStatus : StatusRead(r, new)) \/ StatusCommit(r)
  \/ Abort(r)

ReaderStep(d) ==
  \/ ReadAgent(d) \/ NothingExpired(d) \/ FoundExpired(d)
  \/ SavePermissionExpired(d) \/ SaveAgentExpired(d) \/ ReaderCrash(d)

Next ==
  \/ \E r \in Requests : RequestStep(r)
  \/ \E d \in Readers : ReaderStep(d)
  \/ \E p \in Perms : Lapse(p)

Spec == Init /\ [][Next]_vars

-----------------------------------------------------------------------------
(* Properties.  Nothing here is ordered by a lock, so what holds is stated   *)
(* together with the overlap that breaks it.                                 *)

(* An agent has at most one ACTIVE permission, the limits the owner signed   *)
(* last, as long as no two grants were ever in flight together.              *)
OneActivePermission ==
  {"GRANT"} \notin raced =>
    \A p, q \in Perms : /\ permStatus[p] = "ACTIVE" /\ permStatus[q] = "ACTIVE"
                        /\ owner[p] = owner[q]
                        => p = q

(* A revoked agent holds no ACTIVE permission, as long as no grant overlapped*)
(* a revocation, whatever deposits, pauses and expiries interleave.          *)
RevokedHoldsNothing ==
  {"GRANT", "REVOKE"} \notin raced =>
    \A p \in Perms : permStatus[p] = "ACTIVE" => status[owner[p]] # "REVOKED"

(* The overlaps in which a writer that read the agent before the revocation  *)
(* saves it afterwards.                                                      *)
RevokeRaced == \E op \in {"GRANT", "STATUS", "FUND", "EXPIRE"} :
                 {op, "REVOKE"} \in raced

(* A revoked agent stays revoked unless such a writer overlapped a           *)
(* revocation: no sequence of complete requests leaves REVOKED.              *)
RevokedStaysRevoked ==
  [][\A a \in Agents : status[a] = "REVOKED" =>
       status'[a] = "REVOKED" \/ RevokeRaced]_vars

(* The user has at most one agent that is not revoked, the one every page    *)
(* and command picks, unless two callers of ensure_agent overlapped or a     *)
(* revoked agent was resurrected.                                            *)
OneLiveAgent ==
  \/ {{"OPEN"}, {"GRANT"}, {"OPEN", "GRANT"}} \cap raced # {}
  \/ RevokeRaced
  \/ \A a, b \in Live : a = b

(* The record of why a permission ended is kept: REVOKED is never rewritten  *)
(* to EXPIRED, except by an active_permission call that overlapped the       *)
(* revocation.                                                               *)
RevocationKept ==
  [][\A p \in Perms : permStatus[p] = "REVOKED" =>
       \/ permStatus'[p] = "REVOKED"
       \/ {{"EXPIRE", "REVOKE"}, {"EXPIRE", "GRANT"}} \cap raced # {}]_vars

(* Signed permissions behave as the ledger says: none is ever live again     *)
(* after it ended.                                                           *)
Ledger == INSTANCE GrantLedger
            WITH issued <- Issued,
                 live <- {p \in Perms : permStatus[p] = "ACTIVE"}
LedgerSpec == Ledger!Spec

(* What the transition table of the model says and overlapping requests do   *)
(* not respect: REVOKED has no successor.                                    *)
RevokedIsTerminal ==
  [][\A a \in Agents : status[a] = "REVOKED" => status'[a] = "REVOKED"]_vars
=============================================================================
