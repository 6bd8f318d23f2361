------------------------ MODULE AgentAuthorityProofs ------------------------
(***************************************************************************)
(* Proofs about AgentAuthority for any number of agents, permissions,       *)
(* request threads and active_permission callers.                           *)
(***************************************************************************)
EXTENDS AgentAuthority, TLAPS

(* Every handler leaves every row and every in-memory instance well typed.   *)
LEMMA TypeInit == Init => TypeOK
<1> SUFFICES ASSUME Init PROVE TypeOK
  OBVIOUS
<1>1. IdleRequest \in Request
  BY DEF IdleRequest, Request, AgentStatus
<1>2. IdleReader \in Reader
  BY DEF IdleReader, Reader
<1> QED
  BY <1>1, <1>2 DEF Init, TypeOK, PermStatus

LEMMA BeginTypes ==
  ASSUME TypeOK, NEW r \in Requests, NEW op \in Operation,
         NEW pc \in {"idle", "read", "locked", "matched"},
         NEW agents \in SUBSET Agents, NEW target \in AgentStatus,
         Begin(r, op, pc, agents, target)
  PROVE  req' \in [Requests -> Request] /\ raced' \subseteq Conflicts
  BY DEF TypeOK, Begin, Race, Request

LEMMA FinishTypes ==
  ASSUME TypeOK, NEW r \in Requests, Finish(r)
  PROVE  req' \in [Requests -> Request]
  BY DEF TypeOK, Finish, IdleRequest, Request, AgentStatus

LEMMA SaveStatusTypes ==
  ASSUME TypeOK, NEW r \in Requests, SaveStatus(r)
  PROVE  status' \in [Agents -> AgentStatus \cup {"ABSENT"}]
  BY DEF TypeOK, SaveStatus, Request

LEMMA RevokedTypes ==
  ASSUME TypeOK, NEW rows
  PROVE  Revoked(rows) \in [Perms -> PermStatus]
  BY DEF TypeOK, Revoked, PermStatus

LEMMA RequestTypes ==
  ASSUME TypeOK, NEW r \in Requests, RequestStep(r)
  PROVE  TypeOK'
<1>1. CASE OpenAccount(r)
  BY <1>1, BeginTypes DEF OpenAccount, TypeOK, Operation, AgentStatus
<1>2. CASE EnsureAgentFound(r)
  BY <1>2, FinishTypes DEF EnsureAgentFound, TypeOK
<1>3. CASE EnsureAgentMissing(r)
  BY <1>3 DEF EnsureAgentMissing, TypeOK, Fresh, Request
<1>4. CASE EnsureAgentCommit(r)
  BY <1>4, FinishTypes, SaveStatusTypes DEF EnsureAgentCommit, TypeOK
<1>5. CASE DepositRead(r)
  BY <1>5, BeginTypes DEF DepositRead, TypeOK, Operation, AgentStatus
<1>6. CASE DepositCommit(r)
  BY <1>6, FinishTypes, SaveStatusTypes DEF DepositCommit, TypeOK
<1>7. CASE GrantRead(r)
  <2>1. \E pc \in {"read", "locked"}, a \in Agents,
           target \in {"RUNNING", "AUTHORIZED"} :
          Begin(r, "GRANT", pc, {a}, target)
    BY <1>7 DEF GrantRead, Live, Fresh
  <2> QED
    BY <1>7, <2>1, BeginTypes DEF GrantRead, TypeOK, Operation, AgentStatus
<1>8. CASE RevokePrevious(r)
  <2> DEFINE matched == UNION {Active(a) : a \in req[r].agents}
  <2>1. matched \in SUBSET Perms
    BY DEF Active
  <2>2. req' = [req EXCEPT ![r] = [@ EXCEPT !.pc = "matched", !.rows = matched]]
    BY <1>8 DEF RevokePrevious
  <2> HIDE DEF matched
  <2>3. req' \in [Requests -> Request]
    BY <2>1, <2>2 DEF TypeOK, Request
  <2> QED
    BY <1>8, <2>3 DEF RevokePrevious, TypeOK
<1>9. CASE GrantCommit(r)
  <2>1. PICK a \in req[r].agents, p \in Perms \ Issued :
          /\ owner' = [owner EXCEPT ![p] = a]
          /\ \E rows : permStatus' = [Revoked(rows) EXCEPT ![p] = "ACTIVE"]
    BY <1>9 DEF GrantCommit
  <2>2. a \in Agents
    BY DEF TypeOK, Request
  <2>3. permStatus' \in [Perms -> PermStatus]
    BY <2>1, RevokedTypes DEF PermStatus
  <2>4. owner' \in [Perms -> Agents \cup {NoAgent}]
    BY <2>1, <2>2 DEF TypeOK
  <2> QED
    BY <1>9, <2>3, <2>4, FinishTypes, SaveStatusTypes DEF GrantCommit, TypeOK
<1>10. CASE RevokeRead(r)
  BY <1>10, BeginTypes DEF RevokeRead, TypeOK, Operation, AgentStatus, Live
<1>11. CASE RevokeCommit(r)
  BY <1>11, FinishTypes, SaveStatusTypes, RevokedTypes DEF RevokeCommit, TypeOK
<1>12. CASE \E new \in AgentStatus : StatusRead(r, new)
  BY <1>12, BeginTypes DEF StatusRead, TypeOK, Operation, Live
<1>13. CASE StatusCommit(r)
  BY <1>13, FinishTypes, SaveStatusTypes DEF StatusCommit, TypeOK
<1>14. CASE Abort(r)
  BY <1>14, FinishTypes DEF Abort, TypeOK
<1> QED
  BY <1>1, <1>2, <1>3, <1>4, <1>5, <1>6, <1>7, <1>8, <1>9, <1>10, <1>11,
     <1>12, <1>13, <1>14 DEF RequestStep

LEMMA ReaderTypes ==
  ASSUME TypeOK, NEW d \in Readers, ReaderStep(d)
  PROVE  TypeOK'
<1>0. ReaderDone(d) => reader' \in [Readers -> Reader]
  BY DEF ReaderDone, TypeOK, Reader, IdleReader
<1>1. CASE ReadAgent(d)
  <2>1. reader' \in [Readers -> Reader]
    BY <1>1 DEF ReadAgent, TypeOK, Reader
  <2>2. raced' \subseteq Conflicts
    BY <1>1 DEF ReadAgent, TypeOK, Race
  <2> QED
    BY <1>1, <2>1, <2>2 DEF ReadAgent, TypeOK
<1>2. CASE NothingExpired(d)
  BY <1>0, <1>2 DEF NothingExpired, TypeOK
<1>3. CASE FoundExpired(d)
  <2>1. PICK p \in Perms :
          reader' = [reader EXCEPT ![d].pc = "permission", ![d].perm = p]
    BY <1>3 DEF FoundExpired, Active
  <2>2. reader' \in [Readers -> Reader]
    BY <2>1 DEF TypeOK, Reader
  <2> QED
    BY <1>3, <2>2 DEF FoundExpired, TypeOK
<1>4. CASE SavePermissionExpired(d)
  <2>1. reader' \in [Readers -> Reader]
    BY <1>0, <1>4 DEF SavePermissionExpired, TypeOK, Reader
  <2> QED
    BY <1>4, <2>1 DEF SavePermissionExpired, TypeOK, PermStatus
<1>5. CASE SaveAgentExpired(d)
  BY <1>0, <1>5 DEF SaveAgentExpired, TypeOK, AgentStatus
<1>6. CASE ReaderCrash(d)
  BY <1>0, <1>6 DEF ReaderCrash, TypeOK
<1> QED
  BY <1>1, <1>2, <1>3, <1>4, <1>5, <1>6 DEF ReaderStep

LEMMA TypeNext == TypeOK /\ [Next]_vars => TypeOK'
<1> SUFFICES ASSUME TypeOK, [Next]_vars PROVE TypeOK'
  OBVIOUS
<1>1. CASE \E r \in Requests : RequestStep(r)
  BY <1>1, RequestTypes
<1>2. CASE \E d \in Readers : ReaderStep(d)
  BY <1>2, ReaderTypes
<1>3. CASE \E p \in Perms : Lapse(p)
  BY <1>3 DEF Lapse, TypeOK, Issued
<1>4. CASE UNCHANGED vars
  BY <1>4 DEF vars, TypeOK
<1> QED
  BY <1>1, <1>2, <1>3, <1>4 DEF Next

(* Type correctness: whatever the interleaving, rows and in-memory instances *)
(* only ever hold the statuses the models declare.                           *)
THEOREM TypeCorrect == Spec => []TypeOK
  BY TypeInit, TypeNext, PTL DEF Spec

-----------------------------------------------------------------------------
(* At most one ACTIVE permission per agent.  The invariant says in addition  *)
(* that, while no two grants have overlapped, one grant at most is in flight *)
(* and the rows its bulk UPDATE matched are all that is ACTIVE.              *)

GrantsApart ==
  \A r, s \in Requests : req[r].op = "GRANT" /\ req[s].op = "GRANT" => r = s

GrantSnapshot ==
  \A r \in Requests : req[r].op = "GRANT" /\ req[r].pc = "matched" =>
    \A a \in req[r].agents : Active(a) \subseteq req[r].rows

GrantInv == OneActivePermission
            /\ ({"GRANT"} \notin raced => GrantsApart /\ GrantSnapshot)

(* An operation that begins while another is in flight records the pair.     *)
LEMMA OverlapRecorded ==
  ASSUME NEW op, NEW other \in Operation, NEW r \in Requests,
         Race(op), req[r].op = other, {op, other} \in Conflicts
  PROVE  {op, other} \in raced'
  BY DEF Race, InFlight

(* Every step but the three of a grant leaves grants and ACTIVE rows be.     *)
GrantStep(r) == GrantRead(r) \/ RevokePrevious(r) \/ GrantCommit(r)

LEMMA OtherSteps ==
  ASSUME TypeOK, [Next]_vars, ~ \E r \in Requests : GrantStep(r)
  PROVE  /\ owner' = owner
         /\ raced \subseteq raced'
         /\ \A p \in Perms : permStatus'[p] = "ACTIVE" => permStatus[p] = "ACTIVE"
         /\ \A s \in Requests : req'[s].op = "GRANT" => req'[s] = req[s]
<1> DEFINE Goal == /\ owner' = owner
                   /\ raced \subseteq raced'
                   /\ \A p \in Perms :
                        permStatus'[p] = "ACTIVE" => permStatus[p] = "ACTIVE"
                   /\ \A s \in Requests :
                        req'[s].op = "GRANT" => req'[s] = req[s]
<1>1. ASSUME NEW r \in Requests, RequestStep(r) PROVE Goal
  <2>1. ASSUME NEW op, NEW pc, NEW agents, NEW target, op # "GRANT",
               Begin(r, op, pc, agents, target)
        PROVE  /\ raced \subseteq raced'
               /\ \A s \in Requests : req'[s].op = "GRANT" => req'[s] = req[s]
    BY <2>1 DEF Begin, Race, TypeOK
  <2>2. Finish(r) => \A s \in Requests : req'[s].op = "GRANT" => req'[s] = req[s]
    BY DEF Finish, IdleRequest, TypeOK
  <2>3. \A rows : \A p \in Perms :
          Revoked(rows)[p] = "ACTIVE" => permStatus[p] = "ACTIVE"
    BY DEF Revoked
  <2>4. CASE OpenAccount(r) \/ DepositRead(r) \/ RevokeRead(r)
             \/ \E new \in AgentStatus : StatusRead(r, new)
    BY <2>1, <2>4 DEF OpenAccount, DepositRead, RevokeRead, StatusRead
  <2>5. CASE \/ EnsureAgentFound(r) \/ EnsureAgentCommit(r) \/ DepositCommit(r)
             \/ StatusCommit(r) \/ Abort(r)
    BY <2>2, <2>5 DEF EnsureAgentFound, EnsureAgentCommit, DepositCommit,
                      StatusCommit, Abort
  <2>6. CASE EnsureAgentMissing(r)
    BY <2>6 DEF EnsureAgentMissing, TypeOK, Request
  <2>7. CASE RevokeCommit(r)
    BY <2>2, <2>3, <2>7 DEF RevokeCommit
  <2> QED
    BY <1>1, <2>4, <2>5, <2>6, <2>7 DEF RequestStep, GrantStep
<1>2. ASSUME NEW d \in Readers, ReaderStep(d) PROVE Goal
  BY <1>2 DEF ReaderStep, ReadAgent, NothingExpired, FoundExpired,
              SavePermissionExpired, SaveAgentExpired, ReaderCrash, Race, TypeOK
<1>3. ASSUME NEW p \in Perms, Lapse(p) PROVE Goal
  BY <1>3 DEF Lapse
<1>4. CASE UNCHANGED vars
  BY <1>4 DEF vars
<1> QED
  BY <1>1, <1>2, <1>3, <1>4 DEF Next

LEMMA GrantInvNext == TypeOK /\ GrantInv /\ [Next]_vars => GrantInv'
<1> SUFFICES ASSUME TypeOK, GrantInv, [Next]_vars, {"GRANT"} \notin raced'
             PROVE  /\ GrantsApart' /\ GrantSnapshot'
                    /\ \A p, q \in Perms :
                         /\ permStatus'[p] = "ACTIVE" /\ permStatus'[q] = "ACTIVE"
                         /\ owner'[p] = owner'[q]
                         => p = q
  BY DEF GrantInv, OneActivePermission
<1>1. CASE ~ \E r \in Requests : GrantStep(r)
  <2>1. {"GRANT"} \notin raced
    BY <1>1, OtherSteps
  <2>2. GrantsApart'
    BY <1>1, <2>1, OtherSteps DEF GrantInv, GrantsApart
  <2>3. \A a : Active(a)' \subseteq Active(a)
    BY <1>1, OtherSteps DEF Active
  <2>4. GrantSnapshot'
    BY <1>1, <2>1, <2>3, OtherSteps DEF GrantInv, GrantSnapshot
  <2> QED
    BY <1>1, <2>1, <2>2, <2>4, OtherSteps DEF GrantInv, OneActivePermission
<1>2. ASSUME NEW r \in Requests, GrantRead(r)
      PROVE  /\ GrantsApart' /\ GrantSnapshot' /\ {"GRANT"} \notin raced
             /\ owner' = owner /\ permStatus' = permStatus
  <2>1. PICK pc \in {"read", "locked"}, a \in Agents,
             target \in {"RUNNING", "AUTHORIZED"} :
               Begin(r, "GRANT", pc, {a}, target)
    BY <1>2 DEF GrantRead, Live, Fresh
  <2>2. {"GRANT"} \notin raced /\ GrantsApart /\ GrantSnapshot
    BY <2>1 DEF GrantInv, Begin, Race
  <2>3. ASSUME NEW s \in Requests, s # r PROVE req[s].op # "GRANT"
    <3>1. {"GRANT", "GRANT"} = {"GRANT"} /\ {"GRANT"} \in Conflicts
      BY DEF Conflicts
    <3>2. Race("GRANT") /\ "GRANT" \in Operation
      BY <2>1 DEF Begin, Operation
    <3> QED
      BY <3>1, <3>2, OverlapRecorded
  <2>4. /\ \A s \in Requests : s # r => req'[s] = req[s]
        /\ req'[r].pc = pc
    BY <2>1 DEF Begin, TypeOK
  <2>5. GrantsApart'
    BY <2>3, <2>4 DEF GrantsApart
  <2>6. GrantSnapshot'
    BY <2>2, <2>3, <2>4 DEF GrantSnapshot
  <2> QED
    BY <1>2, <2>2, <2>5, <2>6 DEF GrantRead
<1>3. ASSUME NEW r \in Requests, RevokePrevious(r)
      PROVE  /\ GrantsApart' /\ GrantSnapshot' /\ {"GRANT"} \notin raced
             /\ owner' = owner /\ permStatus' = permStatus
  <2>1. /\ \A s \in Requests : s # r => req'[s] = req[s]
        /\ req'[r].op = req[r].op /\ req'[r].agents = req[r].agents
        /\ req'[r].rows = UNION {Active(a) : a \in req[r].agents}
    BY <1>3 DEF RevokePrevious, TypeOK, Request
  <2>2. /\ {"GRANT"} \notin raced /\ GrantsApart /\ GrantSnapshot
        /\ owner' = owner /\ permStatus' = permStatus
    BY <1>3 DEF GrantInv, RevokePrevious
  <2>3. GrantsApart'
    BY <2>1, <2>2 DEF GrantsApart
  <2>4. \A a : Active(a)' = Active(a)
    BY <2>2 DEF Active
  <2>5. GrantSnapshot'
    BY <2>1, <2>2, <2>4 DEF GrantSnapshot
  <2> QED
    BY <2>2, <2>3, <2>5
<1>4. ASSUME NEW r \in Requests, GrantCommit(r)
      PROVE  /\ GrantsApart' /\ GrantSnapshot'
             /\ \A p, q \in Perms :
                  /\ permStatus'[p] = "ACTIVE" /\ permStatus'[q] = "ACTIVE"
                  /\ owner'[p] = owner'[q]
                  => p = q
  <2>1. {"GRANT"} \notin raced /\ GrantsApart /\ GrantSnapshot
    BY <1>4 DEF GrantInv, GrantCommit
  <2>2. \A s \in Requests : req'[s].op # "GRANT"
    BY <1>4, <2>1 DEF GrantCommit, Finish, IdleRequest, GrantsApart, TypeOK
  <2>3. PICK a \in req[r].agents, new \in Perms :
          /\ Active(a) \subseteq Matched(r, a)
          /\ owner' = [owner EXCEPT ![new] = a]
          /\ permStatus' = [Revoked(Matched(r, a)) EXCEPT ![new] = "ACTIVE"]
    BY <1>4, <2>1 DEF GrantCommit, GrantSnapshot, Matched
  <2>4. \A p \in Perms : p # new =>
          /\ permStatus'[p] = "ACTIVE" => permStatus[p] = "ACTIVE" /\ p \notin Matched(r, a)
          /\ owner'[p] = owner[p]
    BY <2>3 DEF Revoked, TypeOK
  <2>5. owner'[new] = a
    BY <2>3 DEF TypeOK
  <2>6. \A p \in Perms : p # new /\ permStatus'[p] = "ACTIVE" => owner'[p] # a
    BY <2>3, <2>4 DEF Active
  <2>7. \A p, q \in Perms :
          /\ permStatus'[p] = "ACTIVE" /\ permStatus'[q] = "ACTIVE"
          /\ owner'[p] = owner'[q]
          => p = q
    BY <2>1, <2>4, <2>5, <2>6 DEF GrantInv, OneActivePermission
  <2> QED
    BY <2>2, <2>7 DEF GrantsApart, GrantSnapshot
<1> QED
  BY <1>1, <1>2, <1>3, <1>4 DEF GrantStep, GrantInv, OneActivePermission

LEMMA GrantInvInit == Init => GrantInv
  BY DEF Init, GrantInv, OneActivePermission, GrantsApart, GrantSnapshot,
         IdleRequest

(* The owner's latest limits are the only ones in force, unless two grants   *)
(* overlapped: every path that creates a permission revokes the others.      *)
THEOREM OnePermission == Spec => []OneActivePermission
<1>1. TypeOK /\ GrantInv /\ [Next]_vars => (TypeOK /\ GrantInv)'
  BY TypeNext, GrantInvNext
<1>2. GrantInv => OneActivePermission
  BY DEF GrantInv
<1> QED
  BY <1>1, <1>2, TypeInit, GrantInvInit, PTL DEF Spec

-----------------------------------------------------------------------------
(* Refinement: GrantCommit issues a permission, every other step ends some   *)
(* permissions or none.                                                      *)

LEMMA LedgerStep == TypeOK /\ [Next]_vars => [Ledger!Next]_(Ledger!vars)
<1> SUFFICES ASSUME TypeOK, [Next]_vars PROVE Ledger!Next
  BY DEF Ledger!vars
<1>1. ASSUME owner' = owner,
             \A p \in Perms : permStatus'[p] = "ACTIVE" => permStatus[p] = "ACTIVE"
      PROVE  Ledger!End
  BY <1>1 DEF Ledger!End, Issued
<1>2. CASE ~ \E r \in Requests : GrantStep(r)
  BY <1>1, <1>2, OtherSteps DEF Ledger!Next
<1>3. ASSUME NEW r \in Requests, GrantRead(r) \/ RevokePrevious(r)
      PROVE  Ledger!Next
  BY <1>1, <1>3 DEF GrantRead, RevokePrevious, Ledger!Next
<1>4. ASSUME NEW r \in Requests, GrantCommit(r) PROVE Ledger!Next
  <2>1. PICK a \in req[r].agents, new \in Perms \ Issued :
          /\ owner' = [owner EXCEPT ![new] = a]
          /\ permStatus' = [Revoked(Matched(r, a)) EXCEPT ![new] = "ACTIVE"]
    BY <1>4 DEF GrantCommit
  <2>2. a \in Agents /\ a # NoAgent
    BY AuthorityConstants DEF TypeOK, Request
  <2>3. Issued' = Issued \cup {new}
    BY <2>1, <2>2 DEF Issued, TypeOK
  <2>4. \A p \in Perms : permStatus'[p] = "ACTIVE" => permStatus[p] = "ACTIVE" \/ p = new
    BY <2>1 DEF Revoked, TypeOK
  <2>5. Ledger!Issue(new)
    BY <2>1, <2>3, <2>4 DEF Ledger!Issue
  <2> QED
    BY <2>1, <2>5 DEF Ledger!Next
<1> QED
  BY <1>2, <1>3, <1>4 DEF GrantStep

(* A permission that has ended never carries authority again, for any number *)
(* of overlapping requests: AgentAuthority implements GrantLedger.           *)
THEOREM ImplementsLedger == Spec => LedgerSpec
<1>1. Init => Ledger!Init
  BY DEF Init, Ledger!Init, Issued
<1> QED
  BY <1>1, LedgerStep, TypeCorrect, PTL DEF Spec, LedgerSpec, Ledger!Spec

-----------------------------------------------------------------------------
(* A revoked agent holds nothing.  The invariant says in addition that only  *)
(* a revocation saves REVOKED, that no grant is in flight with one, and that *)
(* the rows a revocation matched are all that is ACTIVE for its agents.      *)

OnlyRevokeRevokes ==
  \A r \in Requests : req[r].op # "REVOKE" => req[r].target # "REVOKED"

GrantRevokeApart ==
  \A r, s \in Requests : ~ (req[r].op = "GRANT" /\ req[s].op = "REVOKE")

RevokeSnapshot ==
  \A r \in Requests : req[r].op = "REVOKE" /\ req[r].pc = "matched" =>
    \A a \in req[r].agents : Active(a) \subseteq req[r].rows

RevokeInv ==
  /\ RevokedHoldsNothing
  /\ OnlyRevokeRevokes
  /\ \A p \in Perms : permStatus[p] = "ACTIVE" => owner[p] \in Agents
  /\ {"GRANT", "REVOKE"} \notin raced => GrantRevokeApart /\ RevokeSnapshot

LEMMA BeginEffect ==
  ASSUME TypeOK, NEW r \in Requests, NEW op \in Operation, NEW pc, NEW agents,
         NEW target, Begin(r, op, pc, agents, target)
  PROVE  /\ req[r].pc = "idle"
         /\ \A s \in Requests : s # r => req'[s] = req[s]
         /\ req'[r].op = op /\ req'[r].pc = pc /\ req'[r].agents = agents
         /\ req'[r].target = target
         /\ raced \subseteq raced'
         /\ \A s \in Requests : {op, req[s].op} \in Conflicts
                => {op, req[s].op} \in raced'
<1>1. \A s \in Requests : {op, req[s].op} \in Conflicts => req[s].op \in Operation
  BY DEF Conflicts, Operation, TypeOK, Request
<1> QED
  BY <1>1, OverlapRecorded DEF Begin, TypeOK, Race

LEMMA FinishEffect ==
  ASSUME TypeOK, NEW r \in Requests, Finish(r)
  PROVE  /\ \A s \in Requests : s # r => req'[s] = req[s]
         /\ req'[r] = IdleRequest
  BY DEF Finish, TypeOK

LEMMA SaveStatusEffect ==
  ASSUME TypeOK, NEW r \in Requests, SaveStatus(r)
  PROVE  \A a \in Agents :
           status'[a] = IF a \in req[r].agents THEN req[r].target ELSE status[a]
  BY DEF SaveStatus, TypeOK

(* The reads with which a request begins.                                    *)
BeginStep(r) ==
  \/ OpenAccount(r) \/ DepositRead(r) \/ GrantRead(r) \/ RevokeRead(r)
  \/ \E new \in AgentStatus : StatusRead(r, new)

LEMMA BeginStepEffect ==
  ASSUME TypeOK, NEW r \in Requests, BeginStep(r)
  PROVE  /\ UNCHANGED <<status, owner, permStatus>>
         /\ \E op \in Operation, pc \in {"read", "locked"} : \E agents, target :
              /\ Begin(r, op, pc, agents, target)
              /\ op # "REVOKE" => target # "REVOKED"
<1>1. CASE OpenAccount(r)
  BY <1>1 DEF OpenAccount, Operation
<1>2. CASE DepositRead(r)
  BY <1>2 DEF DepositRead, Operation
<1>3. CASE GrantRead(r)
  <2>1. \E pc \in {"read", "locked"}, a \in Agents,
           target \in {"RUNNING", "AUTHORIZED"} :
          Begin(r, "GRANT", pc, {a}, target)
    BY <1>3 DEF GrantRead, Live, Fresh
  <2> QED
    BY <1>3, <2>1 DEF GrantRead, Operation
<1>4. CASE RevokeRead(r)
  BY <1>4 DEF RevokeRead, Operation
<1>5. ASSUME NEW new \in AgentStatus, StatusRead(r, new)
      PROVE  /\ UNCHANGED <<status, owner, permStatus>>
             /\ \E a : Begin(r, "STATUS", "read", {a}, new)
             /\ new # "REVOKED"
  BY <1>5 DEF StatusRead, CanTransition
<1> QED
  BY <1>1, <1>2, <1>3, <1>4, <1>5 DEF BeginStep, Operation

LEMMA RevokeInvRequest ==
  ASSUME TypeOK, RevokeInv, NEW r \in Requests, RequestStep(r)
  PROVE  RevokeInv'
<1> USE DEF RevokeInv
<1>1. CASE BeginStep(r)
  <2>1. UNCHANGED <<status, owner, permStatus>>
    BY <1>1, BeginStepEffect
  <2>2. PICK op \in Operation, pc \in {"read", "locked"} : \E agents, target :
          /\ Begin(r, op, pc, agents, target)
          /\ op # "REVOKE" => target # "REVOKED"
    BY <1>1, BeginStepEffect
  <2>3. PICK agents, target :
          /\ Begin(r, op, pc, agents, target)
          /\ op # "REVOKE" => target # "REVOKED"
    BY <2>2
  <2>4. /\ req[r].pc = "idle"
        /\ \A s \in Requests : s # r => req'[s] = req[s]
        /\ req'[r].op = op /\ req'[r].pc = pc /\ req'[r].target = target
        /\ raced \subseteq raced'
        /\ \A s \in Requests : {op, req[s].op} \in Conflicts
             => {op, req[s].op} \in raced'
    BY <2>3, BeginEffect
  <2>5. RevokedHoldsNothing' /\ OnlyRevokeRevokes'
    BY <2>1, <2>3, <2>4 DEF RevokedHoldsNothing, OnlyRevokeRevokes
  <2>6. ASSUME {"GRANT", "REVOKE"} \notin raced'
        PROVE  GrantRevokeApart' /\ RevokeSnapshot'
    <3>1. {"GRANT", "REVOKE"} \in Conflicts /\ {"REVOKE", "GRANT"} = {"GRANT", "REVOKE"}
      BY DEF Conflicts
    <3>2. \A s \in Requests :
            /\ op = "GRANT" => req[s].op # "REVOKE"
            /\ op = "REVOKE" => req[s].op # "GRANT"
      BY <2>4, <2>6, <3>1
    <3>3. GrantRevokeApart /\ RevokeSnapshot
      BY <2>4, <2>6
    <3>4. GrantRevokeApart'
      BY <2>4, <3>2, <3>3 DEF GrantRevokeApart
    <3>5. RevokeSnapshot'
      BY <2>1, <2>4, <3>3 DEF RevokeSnapshot, Active
    <3> QED
      BY <3>4, <3>5
  <2> QED
    BY <2>1, <2>5, <2>6
<1>2. CASE RevokePrevious(r)
  <2>1. /\ \A s \in Requests : s # r => req'[s] = req[s]
        /\ req'[r].op = req[r].op /\ req'[r].agents = req[r].agents
        /\ req'[r].target = req[r].target
        /\ req'[r].rows = UNION {Active(a) : a \in req[r].agents}
        /\ UNCHANGED <<status, owner, permStatus, raced>>
    BY <1>2 DEF RevokePrevious, TypeOK, Request
  <2>2. \A a : Active(a)' = Active(a)
    BY <2>1 DEF Active
  <2>3. RevokeSnapshot => RevokeSnapshot'
    BY <2>1, <2>2 DEF RevokeSnapshot
  <2> QED
    BY <2>1, <2>3 DEF RevokedHoldsNothing, OnlyRevokeRevokes, GrantRevokeApart
<1>3. CASE EnsureAgentMissing(r)
  BY <1>3 DEF EnsureAgentMissing, RevokedHoldsNothing, OnlyRevokeRevokes,
              GrantRevokeApart, RevokeSnapshot, Active, TypeOK, Request
(* What is left finishes the request.                                        *)
<1>4. ASSUME Finish(r), raced' = raced
      PROVE  /\ OnlyRevokeRevokes'
             /\ GrantRevokeApart => GrantRevokeApart'
             /\ \A s \in Requests : req'[s].op # "NONE" => s # r /\ req'[s] = req[s]
  BY <1>4, FinishEffect DEF OnlyRevokeRevokes, GrantRevokeApart, IdleRequest
<1>5. CASE EnsureAgentFound(r) \/ Abort(r)
  <2>1. Finish(r) /\ UNCHANGED <<status, owner, permStatus, raced>>
    BY <1>5 DEF EnsureAgentFound, Abort
  <2>2. RevokeSnapshot => RevokeSnapshot'
    BY <1>4, <2>1 DEF RevokeSnapshot, Active
  <2> QED
    BY <1>4, <2>1, <2>2 DEF RevokedHoldsNothing
<1>6. CASE EnsureAgentCommit(r) \/ DepositCommit(r) \/ StatusCommit(r)
  <2>1. /\ Finish(r) /\ SaveStatus(r) /\ UNCHANGED <<owner, permStatus, raced>>
        /\ req[r].op # "REVOKE"
    BY <1>6 DEF EnsureAgentCommit, DepositCommit, StatusCommit
  <2>2. RevokeSnapshot => RevokeSnapshot'
    BY <1>4, <2>1 DEF RevokeSnapshot, Active
  <2>3. RevokedHoldsNothing'
    BY <2>1, SaveStatusEffect DEF RevokedHoldsNothing, OnlyRevokeRevokes
  <2> QED
    BY <1>4, <2>1, <2>2, <2>3
<1>7. CASE GrantCommit(r)
  <2>1. PICK a \in req[r].agents, new \in Perms :
          /\ owner' = [owner EXCEPT ![new] = a]
          /\ permStatus' = [Revoked(Matched(r, a)) EXCEPT ![new] = "ACTIVE"]
    BY <1>7 DEF GrantCommit
  <2>2. a \in Agents
    BY DEF TypeOK, Request
  <2>3. /\ owner'[new] = a
        /\ \A p \in Perms : p # new =>
             /\ owner'[p] = owner[p]
             /\ permStatus'[p] = "ACTIVE" => permStatus[p] = "ACTIVE"
    BY <2>1 DEF Revoked, TypeOK
  <2>4. Finish(r) /\ SaveStatus(r) /\ raced' = raced /\ req[r].op = "GRANT"
    BY <1>7 DEF GrantCommit
  <2>5. \A b \in Agents : status'[b] = "REVOKED" => b # a /\ status[b] = "REVOKED"
    BY <2>1, <2>4, SaveStatusEffect DEF OnlyRevokeRevokes
  <2>6. RevokedHoldsNothing'
    BY <2>2, <2>3, <2>4, <2>5 DEF RevokedHoldsNothing
  <2>7. GrantRevokeApart => RevokeSnapshot'
    BY <1>4, <2>4 DEF GrantRevokeApart, RevokeSnapshot
  <2> QED
    BY <1>4, <2>2, <2>3, <2>4, <2>6, <2>7
<1>8. CASE RevokeCommit(r)
  <2>1. /\ Finish(r) /\ SaveStatus(r) /\ UNCHANGED <<owner, raced>>
        /\ req[r].op = "REVOKE" /\ req[r].pc = "matched"
        /\ permStatus' = Revoked(req[r].rows)
    BY <1>8 DEF RevokeCommit
  <2>2. \A p \in Perms : permStatus'[p] = "ACTIVE" =>
          permStatus[p] = "ACTIVE" /\ p \notin req[r].rows
    BY <2>1 DEF Revoked
  <2>3. RevokeSnapshot => RevokeSnapshot'
    BY <1>4, <2>1, <2>2 DEF RevokeSnapshot, Active
  <2>4. RevokeSnapshot => \A p \in Perms :
          permStatus'[p] = "ACTIVE" => owner[p] \notin req[r].agents
    BY <2>1, <2>2 DEF RevokeSnapshot, Active
  <2>5. RevokedHoldsNothing'
    BY <2>1, <2>2, <2>4, SaveStatusEffect DEF RevokedHoldsNothing
  <2> QED
    BY <1>4, <2>1, <2>2, <2>3, <2>5
<1> QED
  BY <1>1, <1>2, <1>3, <1>5, <1>6, <1>7, <1>8 DEF RequestStep, BeginStep

LEMMA RevokeInvNext == TypeOK /\ RevokeInv /\ [Next]_vars => RevokeInv'
<1> SUFFICES ASSUME TypeOK, RevokeInv, [Next]_vars PROVE RevokeInv'
  OBVIOUS
<1>1. ASSUME /\ req' = req /\ owner' = owner /\ raced \subseteq raced'
             /\ \A p \in Perms : permStatus'[p] = "ACTIVE" => permStatus[p] = "ACTIVE"
             /\ \A a \in Agents : status'[a] = "REVOKED" => status[a] = "REVOKED"
      PROVE  RevokeInv'
  BY <1>1 DEF RevokeInv, RevokedHoldsNothing, OnlyRevokeRevokes, GrantRevokeApart,
              RevokeSnapshot, Active
<1>2. ASSUME NEW d \in Readers, ReaderStep(d) PROVE RevokeInv'
  BY <1>1, <1>2 DEF ReaderStep, ReadAgent, NothingExpired, FoundExpired,
                    SavePermissionExpired, SaveAgentExpired, ReaderCrash, Race,
                    TypeOK
<1>3. ASSUME NEW p \in Perms, Lapse(p) PROVE RevokeInv'
  BY <1>1, <1>3 DEF Lapse
<1>4. CASE UNCHANGED vars
  BY <1>1, <1>4 DEF vars
<1> QED
  BY <1>2, <1>3, <1>4, RevokeInvRequest DEF Next

LEMMA RevokeInvInit == Init => RevokeInv
  BY DEF Init, RevokeInv, RevokedHoldsNothing, OnlyRevokeRevokes,
         GrantRevokeApart, RevokeSnapshot, IdleRequest

(* Revocation is complete: once an agent is REVOKED no permission it was     *)
(* granted is ACTIVE, unless a grant overlapped a revocation.                *)
THEOREM RevocationIsComplete == Spec => []RevokedHoldsNothing
<1>1. TypeOK /\ RevokeInv /\ [Next]_vars => (TypeOK /\ RevokeInv)'
  BY TypeNext, RevokeInvNext
<1>2. RevokeInv => RevokedHoldsNothing
  BY DEF RevokeInv
<1> QED
  BY <1>1, <1>2, TypeInit, RevokeInvInit, PTL DEF Spec

-----------------------------------------------------------------------------
(* The shapes of a request's steps, for the invariants about what requests   *)
(* hold in memory: a read that begins it, the agent ensure_agent is about to *)
(* insert, the bulk UPDATE, and an end with or without a saved status.       *)

Saves(r) ==
  \/ EnsureAgentCommit(r) \/ DepositCommit(r) \/ GrantCommit(r)
  \/ RevokeCommit(r) \/ StatusCommit(r)

RevokeTargets ==
  \A r \in Requests : (req[r].op = "REVOKE") <=> (req[r].target = "REVOKED")

Makers == {"OPEN", "GRANT"}
Writers == {"GRANT", "STATUS", "FUND"}

(* An agent a request may pick: one that is live, or a row to be inserted.   *)
MayHold(a, op) ==
  \/ status[a] \notin {"ABSENT", "REVOKED"}
  \/ op = "GRANT" /\ a \in Fresh /\ Live = {}

LEMMA BeginShape ==
  ASSUME TypeOK, NEW r \in Requests, BeginStep(r)
  PROVE  /\ UNCHANGED <<status, owner, permStatus, reader>>
         /\ req[r].pc = "idle"
         /\ \A s \in Requests : s # r => req'[s] = req[s]
         /\ \A a \in req'[r].agents : MayHold(a, req'[r].op)
         /\ req'[r].op = "OPEN" => req'[r].agents = {}
         /\ req'[r].op \in Makers => \A a, b \in req'[r].agents : a = b
         /\ (req'[r].op = "REVOKE") <=> (req'[r].target = "REVOKED")
         /\ Race(req'[r].op)
<1>1. ASSUME NEW op \in Operation, NEW pc, NEW agents, NEW target,
             Begin(r, op, pc, agents, target)
      PROVE  /\ req[r].pc = "idle"
             /\ \A s \in Requests : s # r => req'[s] = req[s]
             /\ req'[r].op = op /\ req'[r].agents = agents
             /\ req'[r].target = target
             /\ Race(op)
  BY <1>1 DEF Begin, TypeOK
<1>2. CASE OpenAccount(r)
  <2>1. Begin(r, "OPEN", "read", {}, "CREATED") /\ "OPEN" \in Operation
    BY <1>2 DEF OpenAccount, Operation
  <2>2. UNCHANGED <<status, owner, permStatus, reader>>
    BY <1>2 DEF OpenAccount
  <2> QED
    BY <1>1, <2>1, <2>2
<1>3. CASE DepositRead(r)
  <2> DEFINE created == {a \in Agents : status[a] = "CREATED"}
  <2>1. Begin(r, "FUND", "read", created, "FUNDED") /\ "FUND" \in Operation
    BY <1>3 DEF DepositRead, Operation
  <2>2. UNCHANGED <<status, owner, permStatus, reader>>
    BY <1>3 DEF DepositRead
  <2>3. \A a \in created : MayHold(a, "FUND")
    BY DEF MayHold
  <2> HIDE DEF created
  <2> QED
    BY <1>1, <2>1, <2>2, <2>3 DEF Makers
<1>4. CASE GrantRead(r)
  <2>1. PICK pc \in {"read", "locked"}, a \in Agents,
             target \in {"RUNNING", "AUTHORIZED"} :
          /\ Begin(r, "GRANT", pc, {a}, target)
          /\ MayHold(a, "GRANT")
    BY <1>4 DEF GrantRead, Live, Fresh, MayHold
  <2>2. UNCHANGED <<status, owner, permStatus, reader>> /\ "GRANT" \in Operation
    BY <1>4 DEF GrantRead, Operation
  <2> QED
    BY <1>1, <2>1, <2>2
<1>5. CASE RevokeRead(r)
  <2>1. PICK a \in Live : Begin(r, "REVOKE", "read", {a}, "REVOKED")
    BY <1>5 DEF RevokeRead
  <2>2. UNCHANGED <<status, owner, permStatus, reader>> /\ "REVOKE" \in Operation
    BY <1>5 DEF RevokeRead, Operation
  <2> QED
    BY <1>1, <2>1, <2>2 DEF Live, MayHold, Makers
<1>6. ASSUME NEW new \in AgentStatus, StatusRead(r, new)
      PROVE  /\ UNCHANGED <<status, owner, permStatus, reader>>
             /\ \E a \in Live : Begin(r, "STATUS", "read", {a}, new)
             /\ new # "REVOKED" /\ "STATUS" \in Operation
  BY <1>6 DEF StatusRead, CanTransition, Operation
<1>7. CASE \E new \in AgentStatus : StatusRead(r, new)
  <2>1. PICK new \in AgentStatus : StatusRead(r, new)
    BY <1>7
  <2>2. PICK a \in Live : Begin(r, "STATUS", "read", {a}, new)
    BY <1>6, <2>1
  <2> QED
    BY <1>1, <1>6, <2>1, <2>2 DEF Live, MayHold, Makers
<1> QED
  BY <1>2, <1>3, <1>4, <1>5, <1>7 DEF BeginStep

LEMMA MissingShape ==
  ASSUME TypeOK, NEW r \in Requests, EnsureAgentMissing(r)
  PROVE  /\ UNCHANGED <<status, owner, permStatus, reader, raced>>
         /\ \A s \in Requests : s # r => req'[s] = req[s]
         /\ req[r].op = "OPEN" /\ req'[r].op = "OPEN" /\ Live = {}
         /\ req'[r].target = req[r].target
         /\ \E a \in Fresh : req'[r].agents = {a}
<1>1. PICK a \in Fresh : req' = [req EXCEPT ![r].pc = "matched", ![r].agents = {a}]
  BY DEF EnsureAgentMissing
<1> QED
  BY <1>1 DEF EnsureAgentMissing, TypeOK, Request

LEMMA PreviousShape ==
  ASSUME TypeOK, NEW r \in Requests, RevokePrevious(r)
  PROVE  /\ UNCHANGED <<status, owner, permStatus, reader, raced>>
         /\ \A s \in Requests : s # r => req'[s] = req[s]
         /\ req'[r].op = req[r].op /\ req'[r].agents = req[r].agents
  BY DEF RevokePrevious, TypeOK, Request

LEMMA SaveShape ==
  ASSUME TypeOK, RevokeTargets, NEW r \in Requests, Saves(r)
  PROVE  /\ UNCHANGED <<reader, raced>>
         /\ \A s \in Requests : s # r => req'[s] = req[s]
         /\ req'[r] = IdleRequest
         /\ \A a \in Agents :
              status'[a] = IF a \in req[r].agents THEN req[r].target ELSE status[a]
         /\ req[r].target # "ABSENT"
         /\ req[r].op \in Writers \cup {"OPEN", "REVOKE"}
         /\ (req[r].op = "REVOKE") <=> (req[r].target = "REVOKED")
         /\ req[r].agents \subseteq Agents
<1>1. Finish(r) /\ SaveStatus(r) /\ UNCHANGED <<reader, raced>>
      /\ req[r].op \in Writers \cup {"OPEN", "REVOKE"}
  BY DEF Saves, EnsureAgentCommit, DepositCommit, GrantCommit, RevokeCommit,
         StatusCommit, Writers
<1>2. req[r].target # "ABSENT" /\ req[r].agents \subseteq Agents
  BY DEF TypeOK, Request, AgentStatus
<1> QED
  BY <1>1, <1>2, FinishEffect, SaveStatusEffect DEF RevokeTargets

LEMMA QuietEnd ==
  ASSUME TypeOK, NEW r \in Requests, EnsureAgentFound(r) \/ Abort(r)
  PROVE  /\ UNCHANGED <<status, owner, permStatus, reader, raced>>
         /\ \A s \in Requests : s # r => req'[s] = req[s]
         /\ req'[r] = IdleRequest
  BY FinishEffect DEF EnsureAgentFound, Abort

LEMMA RequestShapes ==
  ASSUME NEW r \in Requests, RequestStep(r)
  PROVE  \/ BeginStep(r) \/ EnsureAgentMissing(r) \/ RevokePrevious(r)
         \/ Saves(r) \/ EnsureAgentFound(r) \/ Abort(r)
  BY DEF RequestStep, BeginStep, Saves

-----------------------------------------------------------------------------
(* A revoked agent stays revoked.  The first invariant is about agents that  *)
(* requests and callers hold: one without a row is held by the one request   *)
(* that will insert it, and a row, once read, stays.                         *)

HeldInv ==
  /\ RevokeTargets
  /\ \A r \in Requests : \A a \in req[r].agents : status[a] = "ABSENT" =>
       /\ req[r].op \in Makers
       /\ \A s \in Requests : a \in req[s].agents => s = r
  /\ \A r \in Requests : req[r].op = "OPEN" =>
       \A a \in req[r].agents : status[a] = "ABSENT"
  /\ \A d \in Readers : reader[d].running =>
       reader[d].agent \in Agents /\ status[reader[d].agent] # "ABSENT"
  /\ \A d \in Readers : reader[d].pc = "agent" => reader[d].running
  /\ \A d \in Readers : reader[d].running => reader[d].pc # "idle"

LEMMA ReaderHolds ==
  ASSUME TypeOK, HeldInv, NEW d \in Readers, ReaderStep(d)
  PROVE  /\ UNCHANGED <<req, owner>>
         /\ \A e \in Readers : e # d => reader'[e] = reader[e]
         /\ raced \subseteq raced'
         /\ reader'[d].running =>
              /\ reader'[d].agent \in Agents /\ reader'[d].pc # "idle"
              /\ status'[reader'[d].agent] # "ABSENT"
              /\ status'[reader'[d].agent] # "REVOKED" \/
                   /\ reader[d].running /\ reader'[d].agent = reader[d].agent
                   /\ status' = status
         /\ reader'[d].pc = "agent" => reader'[d].running
         /\ \A a \in Agents :
              \/ status'[a] = status[a]
              \/ /\ reader[d].running /\ a = reader[d].agent
                 /\ status'[a] = "EXPIRED"
<1>1. CASE ReadAgent(d)
  <2>1. PICK a \in Agents :
          /\ status[a] # "ABSENT"
          /\ reader' = [reader EXCEPT ![d] =
               [pc |-> "query", agent |-> a, perm |-> 0,
                running |-> status[a] = "RUNNING"]]
    BY <1>1 DEF ReadAgent
  <2>2. /\ reader'[d].pc = "query" /\ reader'[d].agent = a
        /\ reader'[d].running = (status[a] = "RUNNING")
        /\ \A e \in Readers : e # d => reader'[e] = reader[e]
    BY <2>1 DEF TypeOK
  <2>3. UNCHANGED <<req, owner, status>> /\ raced \subseteq raced'
    BY <1>1 DEF ReadAgent, Race
  <2> QED
    BY <2>1, <2>2, <2>3
<1>2. ASSUME ReaderDone(d)
      PROVE  /\ \A e \in Readers : e # d => reader'[e] = reader[e]
             /\ reader'[d].pc = "idle" /\ ~ reader'[d].running
  BY <1>2 DEF ReaderDone, TypeOK, IdleReader
<1>3. CASE NothingExpired(d) \/ ReaderCrash(d)
  BY <1>2, <1>3 DEF NothingExpired, ReaderCrash
<1>4. ASSUME NEW pc \in {"permission", "agent"},
             \A e \in Readers : e # d => reader'[e] = reader[e],
             reader'[d].pc = pc, reader'[d].agent = reader[d].agent,
             reader'[d].running = reader[d].running,
             pc = "agent" => reader[d].running,
             UNCHANGED <<req, owner, status, raced>>
      PROVE  /\ reader'[d].running =>
                  /\ reader'[d].agent \in Agents /\ reader'[d].pc # "idle"
                  /\ status'[reader'[d].agent] # "ABSENT"
             /\ reader'[d].pc = "agent" => reader'[d].running
  BY <1>4 DEF HeldInv
<1>5. CASE FoundExpired(d)
  <2>1. PICK p : reader' = [reader EXCEPT ![d].pc = "permission", ![d].perm = p]
    BY <1>5 DEF FoundExpired
  <2>2. /\ \A e \in Readers : e # d => reader'[e] = reader[e]
        /\ reader'[d].pc = "permission" /\ reader'[d].agent = reader[d].agent
        /\ reader'[d].running = reader[d].running
    BY <2>1 DEF TypeOK, Reader
  <2>3. UNCHANGED <<req, owner, status, raced>>
    BY <1>5 DEF FoundExpired
  <2> QED
    BY <1>4, <2>2, <2>3
<1>6. CASE SavePermissionExpired(d)
  <2>1. UNCHANGED <<req, owner, status, raced>>
    BY <1>6 DEF SavePermissionExpired
  <2>2. CASE reader[d].running
    <3>1. reader' = [reader EXCEPT ![d].pc = "agent"]
      BY <1>6, <2>2 DEF SavePermissionExpired
    <3>2. /\ \A e \in Readers : e # d => reader'[e] = reader[e]
          /\ reader'[d].pc = "agent" /\ reader'[d].agent = reader[d].agent
          /\ reader'[d].running = reader[d].running
      BY <3>1 DEF TypeOK, Reader
    <3> QED
      BY <1>4, <2>1, <2>2, <3>2
  <2>3. CASE ~ reader[d].running
    BY <1>2, <1>6, <2>1, <2>3 DEF SavePermissionExpired
  <2> QED
    BY <2>2, <2>3
<1>7. CASE SaveAgentExpired(d)
  <2>1. /\ ReaderDone(d) /\ UNCHANGED <<req, owner, raced>>
        /\ status' = [status EXCEPT ![reader[d].agent] = "EXPIRED"]
        /\ reader[d].running
    BY <1>7 DEF SaveAgentExpired, HeldInv
  <2>2. \A a \in Agents : status'[a] =
          IF a = reader[d].agent THEN "EXPIRED" ELSE status[a]
    BY <2>1 DEF TypeOK
  <2> QED
    BY <1>2, <2>1, <2>2
<1> QED
  BY <1>1, <1>3, <1>5, <1>6, <1>7 DEF ReaderStep

LEMMA HeldRequest ==
  ASSUME TypeOK, HeldInv, NEW r \in Requests, RequestStep(r)
  PROVE  HeldInv'
<1>1. CASE BeginStep(r)
  <2>1. /\ UNCHANGED <<status, reader>>
        /\ \A s \in Requests : s # r => req'[s] = req[s]
        /\ \A a \in req'[r].agents : MayHold(a, req'[r].op)
        /\ req'[r].op = "OPEN" => req'[r].agents = {}
        /\ (req'[r].op = "REVOKE") <=> (req'[r].target = "REVOKED")
    BY <1>1, BeginShape
  <2>2. \A a \in req'[r].agents : status[a] = "ABSENT" =>
          /\ req'[r].op = "GRANT"
          /\ \A s \in Requests : a \notin req[s].agents
    BY <2>1 DEF MayHold, Fresh
  <2> QED
    BY <2>1, <2>2 DEF HeldInv, RevokeTargets, Makers
<1>2. CASE EnsureAgentMissing(r)
  <2>1. PICK a \in Fresh : req'[r].agents = {a}
    BY <1>2, MissingShape
  <2>2. /\ req[r].op = "OPEN" /\ req'[r].op = "OPEN" /\ UNCHANGED <<status, reader>>
        /\ \A s \in Requests : s # r => req'[s] = req[s]
        /\ req'[r].target = req[r].target
    BY <1>2, MissingShape
  <2>3. status[a] = "ABSENT" /\ \A s \in Requests : a \notin req[s].agents
    BY DEF Fresh
  <2> QED
    BY <2>1, <2>2, <2>3 DEF HeldInv, RevokeTargets, Makers
<1>3. CASE RevokePrevious(r)
  <2>1. req'[r].target = req[r].target
    BY <1>3 DEF RevokePrevious, TypeOK, Request
  <2> QED
    BY <1>3, <2>1, PreviousShape DEF HeldInv, RevokeTargets
<1>4. CASE Saves(r)
  <2>1. /\ reader' = reader
        /\ \A s \in Requests : s # r => req'[s] = req[s]
        /\ req'[r] = IdleRequest
        /\ \A a \in Agents :
             status'[a] = IF a \in req[r].agents THEN req[r].target ELSE status[a]
        /\ req[r].target # "ABSENT"
    BY <1>4, SaveShape DEF HeldInv
  <2>2. \A s \in Requests : req[s].agents \subseteq Agents
    BY DEF TypeOK, Request
  <2>3. ASSUME NEW s \in Requests, s # r, NEW a \in req[s].agents, a \in req[r].agents
        PROVE  status[a] # "ABSENT"
    BY <2>3 DEF HeldInv
  <2> QED
    BY <2>1, <2>2, <2>3 DEF HeldInv, RevokeTargets, IdleRequest
<1>5. CASE EnsureAgentFound(r) \/ Abort(r)
  BY <1>5, QuietEnd DEF HeldInv, RevokeTargets, IdleRequest
<1> QED
  BY <1>1, <1>2, <1>3, <1>4, <1>5, RequestShapes

LEMMA HeldNext == TypeOK /\ HeldInv /\ [Next]_vars => HeldInv'
<1> SUFFICES ASSUME TypeOK, HeldInv, [Next]_vars PROVE HeldInv'
  OBVIOUS
<1>1. ASSUME NEW d \in Readers, ReaderStep(d) PROVE HeldInv'
  <2>1. \A r \in Requests : req[r].agents \subseteq Agents
    BY DEF TypeOK, Request
  <2>2. \A a \in Agents : status'[a] = "ABSENT" <=> status[a] = "ABSENT"
    BY <1>1, ReaderHolds DEF HeldInv
  <2> QED
    BY <1>1, <2>1, <2>2, ReaderHolds DEF HeldInv, RevokeTargets
<1>2. CASE (\E p \in Perms : Lapse(p)) \/ UNCHANGED vars
  BY <1>2 DEF Lapse, vars, HeldInv, RevokeTargets
<1> QED
  BY <1>1, <1>2, HeldRequest DEF Next

LEMMA HeldInit == Init => HeldInv
  BY DEF Init, HeldInv, RevokeTargets, IdleRequest, IdleReader

(* While no writer overlapped a revocation, none is in flight beside one,    *)
(* and no writer holds an agent that is REVOKED.                             *)
StaleInv ==
  ~ RevokeRaced =>
    /\ \A r \in Requests : req[r].op = "REVOKE" =>
         /\ \A s \in Requests : req[s].op \notin Writers
         /\ \A d \in Readers : reader[d].pc = "idle"
    /\ \A r \in Requests : req[r].op \in Writers =>
         \A a \in req[r].agents : status[a] # "REVOKED"
    /\ \A d \in Readers : reader[d].running => status[reader[d].agent] # "REVOKED"

LEMMA RaceRecorded ==
  ASSUME NEW op, Race(op), ~ RevokeRaced'
  PROVE  /\ ~ RevokeRaced
         /\ op = "REVOKE" => /\ \A s \in Requests : req[s].op \notin Writers
                             /\ \A d \in Readers : reader[d].pc = "idle"
         /\ op \in Writers \cup {"EXPIRE"} =>
              \A s \in Requests : req[s].op # "REVOKE"
<1>1. raced \subseteq raced'
  BY DEF Race
<1>2. ASSUME NEW w \in Writers \cup {"EXPIRE"}
      PROVE  {w, "REVOKE"} \in Conflicts /\ {w, "REVOKE"} \notin raced'
             /\ {"REVOKE", w} = {w, "REVOKE"}
             /\ w \in Operation /\ "REVOKE" \in Operation
  BY <1>2 DEF Writers, Conflicts, RevokeRaced, Operation
<1>3. ASSUME op = "REVOKE", NEW s \in Requests, req[s].op \in Writers PROVE FALSE
  BY <1>2, <1>3, OverlapRecorded
<1>4. ASSUME op = "REVOKE", NEW d \in Readers, reader[d].pc # "idle" PROVE FALSE
  BY <1>2, <1>4 DEF Race, InFlight
<1>5. ASSUME op \in Writers \cup {"EXPIRE"}, NEW s \in Requests, req[s].op = "REVOKE"
      PROVE  FALSE
  BY <1>2, <1>5, OverlapRecorded
<1> QED
  BY <1>1, <1>3, <1>4, <1>5 DEF RevokeRaced

LEMMA StaleRequest ==
  ASSUME TypeOK, HeldInv, StaleInv, NEW r \in Requests, RequestStep(r),
         ~ RevokeRaced'
  PROVE  StaleInv'
<1>1. CASE BeginStep(r)
  <2>1. /\ UNCHANGED <<status, reader>>
        /\ \A s \in Requests : s # r => req'[s] = req[s]
        /\ \A a \in req'[r].agents : MayHold(a, req'[r].op)
        /\ Race(req'[r].op)
    BY <1>1, BeginShape
  <2>2. \A a \in req'[r].agents : status[a] # "REVOKED"
    BY <2>1 DEF MayHold, Fresh
  <2>3. /\ ~ RevokeRaced
        /\ req'[r].op = "REVOKE" => /\ \A s \in Requests : req[s].op \notin Writers
                                    /\ \A d \in Readers : reader[d].pc = "idle"
        /\ req'[r].op \in Writers => \A s \in Requests : req[s].op # "REVOKE"
    BY <2>1, RaceRecorded
  <2>4. "REVOKE" \notin Writers
    BY DEF Writers
  <2> QED
    BY <2>1, <2>2, <2>3, <2>4 DEF StaleInv
<1>2. CASE EnsureAgentMissing(r)
  <2>1. "OPEN" \notin Writers
    BY DEF Writers
  <2> QED
    BY <1>2, <2>1, MissingShape DEF StaleInv, RevokeRaced
<1>3. CASE RevokePrevious(r)
  BY <1>3, PreviousShape DEF StaleInv, RevokeRaced
<1>4. CASE Saves(r)
  <2>1. /\ UNCHANGED <<reader, raced>>
        /\ \A s \in Requests : s # r => req'[s] = req[s]
        /\ req'[r] = IdleRequest
        /\ \A a \in Agents :
             status'[a] = IF a \in req[r].agents THEN req[r].target ELSE status[a]
        /\ (req[r].op = "REVOKE") <=> (req[r].target = "REVOKED")
    BY <1>4, SaveShape DEF HeldInv
  <2>2. ~ RevokeRaced /\ IdleRequest.op \notin Writers \cup {"REVOKE"}
    BY <2>1 DEF RevokeRaced, IdleRequest, Writers
  <2>3. \A s \in Requests : req[s].agents \subseteq Agents
    BY DEF TypeOK, Request
  <2>4. CASE req[r].op = "REVOKE"
    BY <2>1, <2>2, <2>4 DEF StaleInv, HeldInv
  <2>5. CASE req[r].op # "REVOKE"
    BY <2>1, <2>2, <2>3, <2>5 DEF StaleInv, HeldInv
  <2> QED
    BY <2>4, <2>5
<1>5. CASE EnsureAgentFound(r) \/ Abort(r)
  BY <1>5, QuietEnd DEF StaleInv, RevokeRaced, IdleRequest, Writers
<1> QED
  BY <1>1, <1>2, <1>3, <1>4, <1>5, RequestShapes

LEMMA StaleNext == TypeOK /\ HeldInv /\ StaleInv /\ [Next]_vars => StaleInv'
<1> SUFFICES ASSUME TypeOK, HeldInv, StaleInv, [Next]_vars, ~ RevokeRaced'
             PROVE  StaleInv'
  BY DEF StaleInv
<1>1. ASSUME NEW d \in Readers, ReaderStep(d) PROVE StaleInv'
  <2>1. ~ RevokeRaced
    BY <1>1, ReaderHolds DEF RevokeRaced
  <2>2. \A r \in Requests : req[r].agents \subseteq Agents
    BY DEF TypeOK, Request
  <2>3. \A a \in Agents : status'[a] = "REVOKED" => status[a] = "REVOKED"
    BY <1>1, ReaderHolds
  <2>4. reader'[d].running => status'[reader'[d].agent] # "REVOKED"
    BY <1>1, <2>1, ReaderHolds DEF StaleInv
  <2>5. \A s \in Requests : req[s].op = "REVOKE" => reader'[d].pc = "idle"
    <3>1. CASE ReadAgent(d)
      <4>1. Race("EXPIRE")
        BY <3>1 DEF ReadAgent
      <4> QED
        BY <4>1, RaceRecorded
    <3>2. CASE ~ ReadAgent(d)
      <4>1. reader[d].pc # "idle"
        BY <1>1, <3>2 DEF ReaderStep, NothingExpired, FoundExpired,
                          SavePermissionExpired, SaveAgentExpired, ReaderCrash
      <4> QED
        BY <2>1, <4>1 DEF StaleInv
    <3> QED
      BY <3>1, <3>2
  <2>6. /\ req' = req
        /\ \A e \in Readers : e # d => reader'[e] = reader[e]
    BY <1>1, ReaderHolds
  <2> QED
    BY <2>1, <2>2, <2>3, <2>4, <2>5, <2>6 DEF StaleInv, HeldInv
<1>2. CASE (\E p \in Perms : Lapse(p)) \/ UNCHANGED vars
  BY <1>2 DEF Lapse, vars, StaleInv, RevokeRaced
<1> QED
  BY <1>1, <1>2, StaleRequest DEF Next

LEMMA StaleInit == Init => StaleInv
  BY DEF Init, StaleInv, IdleRequest, IdleReader, Writers

(* A step that takes an agent out of REVOKED is one of a writer that read it *)
(* before the revocation.                                                    *)
LEMMA RevokedStep ==
  ASSUME TypeOK, HeldInv, StaleInv, [Next]_vars, ~ RevokeRaced,
         NEW a \in Agents, status[a] = "REVOKED"
  PROVE  status'[a] = "REVOKED"
<1>1. ASSUME NEW r \in Requests, RequestStep(r) PROVE status'[a] = "REVOKED"
  <2>1. CASE Saves(r)
    <3>1. CASE a \in req[r].agents
      <4>1. req[r].op \notin Writers \cup {"OPEN"}
        BY <3>1 DEF HeldInv, StaleInv
      <4> QED
        BY <2>1, <3>1, <4>1, SaveShape DEF HeldInv
    <3> QED
      BY <2>1, <3>1, SaveShape DEF HeldInv
  <2>2. CASE ~ Saves(r)
    BY <1>1, <2>2, RequestShapes, BeginShape, MissingShape, PreviousShape, QuietEnd
  <2> QED
    BY <2>1, <2>2
<1>2. ASSUME NEW d \in Readers, ReaderStep(d) PROVE status'[a] = "REVOKED"
  BY <1>2, ReaderHolds DEF StaleInv
<1>3. CASE (\E p \in Perms : Lapse(p)) \/ UNCHANGED vars
  BY <1>3 DEF Lapse, vars
<1> QED
  BY <1>1, <1>2, <1>3 DEF Next

(* No sequence of complete requests takes an agent out of REVOKED: that      *)
(* needs a grant, a status change, a deposit or an expiry that had read the  *)
(* agent before the revocation and saves it afterwards.                      *)
THEOREM RevokedStays == Spec => RevokedStaysRevoked
<1> DEFINE Kept == \A a \in Agents : status[a] = "REVOKED" =>
                     status'[a] = "REVOKED" \/ RevokeRaced
<1>1. TypeOK /\ HeldInv /\ StaleInv /\ [Next]_vars => (TypeOK /\ HeldInv /\ StaleInv)'
  BY TypeNext, HeldNext, StaleNext
<1>2. TypeOK /\ HeldInv /\ StaleInv /\ [Next]_vars => [Kept]_vars
  BY RevokedStep
<1> QED
  BY <1>1, <1>2, TypeInit, HeldInit, StaleInit, PTL DEF Spec, RevokedStaysRevoked

-----------------------------------------------------------------------------
(* One live agent.  While no two callers of ensure_agent overlapped, one at  *)
(* most is in flight, and the agent it is to insert will be the only one.    *)

MakersRaced == {{"OPEN"}, {"GRANT"}, {"OPEN", "GRANT"}} \cap raced # {}

LiveInv ==
  RevokeRaced \/ MakersRaced \/
    /\ \A a, b \in Live : a = b
    /\ \A r \in Requests : req[r].op \in Makers =>
         /\ \A s \in Requests : req[s].op \in Makers => s = r
         /\ \A a, b \in req[r].agents : a = b
         /\ \A a \in req[r].agents : status[a] = "ABSENT" => Live = {}

LEMMA MakersRecorded ==
  ASSUME NEW op \in Makers, Race(op), ~ MakersRaced', NEW r \in Requests
  PROVE  req[r].op \notin Makers
<1>1. ASSUME req[r].op \in Makers PROVE FALSE
  <2>1. {op, req[r].op} \in {{"OPEN"}, {"GRANT"}, {"OPEN", "GRANT"}}
    BY <1>1 DEF Makers
  <2>2. {op, req[r].op} \in Conflicts /\ req[r].op \in Operation
    BY <1>1, <2>1 DEF Conflicts, Makers, Operation
  <2> QED
    BY <2>1, <2>2, OverlapRecorded DEF MakersRaced
<1> QED
  BY <1>1

LEMMA LiveRequest ==
  ASSUME TypeOK, HeldInv, StaleInv, LiveInv, NEW r \in Requests, RequestStep(r),
         ~ RevokeRaced, ~ RevokeRaced', ~ MakersRaced, ~ MakersRaced'
  PROVE  LiveInv'
<1>1. CASE BeginStep(r)
  <2>1. /\ UNCHANGED status
        /\ \A s \in Requests : s # r => req'[s] = req[s]
        /\ \A a \in req'[r].agents : MayHold(a, req'[r].op)
        /\ req'[r].op \in Makers => \A a, b \in req'[r].agents : a = b
        /\ Race(req'[r].op)
    BY <1>1, BeginShape
  <2>2. Live' = Live
    BY <2>1 DEF Live
  <2>3. req'[r].op \in Makers => \A s \in Requests : req[s].op \notin Makers
    BY <2>1, MakersRecorded
  <2>4. \A a \in req'[r].agents : status[a] = "ABSENT" => Live = {}
    BY <2>1 DEF MayHold
  <2> QED
    BY <2>1, <2>2, <2>3, <2>4 DEF LiveInv
<1>2. CASE EnsureAgentMissing(r)
  <2>1. PICK a \in Fresh : req'[r].agents = {a}
    BY <1>2, MissingShape
  <2>2. Live' = Live /\ Live = {} /\ status' = status
    BY <1>2, MissingShape DEF Live
  <2> QED
    BY <1>2, <2>1, <2>2, MissingShape DEF LiveInv
<1>3. CASE RevokePrevious(r)
  <2>1. Live' = Live
    BY <1>3, PreviousShape DEF Live
  <2> QED
    BY <1>3, <2>1, PreviousShape DEF LiveInv
<1>4. CASE Saves(r)
  <2>1. /\ \A s \in Requests : s # r => req'[s] = req[s]
        /\ req'[r].op \notin Makers
        /\ \A a \in Agents :
             status'[a] = IF a \in req[r].agents THEN req[r].target ELSE status[a]
        /\ req[r].target # "ABSENT" /\ req[r].agents \subseteq Agents
        /\ req[r].op \in Writers \cup {"OPEN", "REVOKE"}
        /\ (req[r].op = "REVOKE") <=> (req[r].target = "REVOKED")
    BY <1>4, SaveShape DEF HeldInv, IdleRequest, Makers
  <2>2. \A a \in Agents : status'[a] \notin {"ABSENT", "REVOKED"} =>
          a \in Live \/ (a \in req[r].agents /\ status[a] = "ABSENT"
                         /\ req[r].op \in Makers)
    BY <2>1 DEF Live, HeldInv, StaleInv
  <2>3. \A a, b \in Live' : a = b
    BY <2>2 DEF Live, LiveInv
  <2>4. ASSUME NEW s \in Requests, req'[s].op \in Makers,
               NEW a \in req'[s].agents, status'[a] = "ABSENT"
        PROVE  Live' = {}
    <3>1. s # r /\ req'[s] = req[s] /\ req[r].op \notin Makers
      BY <2>1, <2>4 DEF LiveInv
    <3>2. req[s].agents \subseteq Agents
      BY DEF TypeOK, Request
    <3>3. status[a] = "ABSENT"
      BY <2>1, <2>4, <3>1, <3>2
    <3>4. Live = {}
      BY <2>4, <3>1, <3>3 DEF LiveInv
    <3> QED
      BY <2>2, <3>1, <3>4 DEF Live
  <2> QED
    BY <2>1, <2>3, <2>4 DEF LiveInv
<1>5. CASE EnsureAgentFound(r) \/ Abort(r)
  <2>1. Live' = Live
    BY <1>5, QuietEnd DEF Live
  <2> QED
    BY <1>5, <2>1, QuietEnd DEF LiveInv, IdleRequest, Makers
<1> QED
  BY <1>1, <1>2, <1>3, <1>4, <1>5, RequestShapes

LEMMA RacedGrows == TypeOK /\ HeldInv /\ [Next]_vars => raced \subseteq raced'
<1> SUFFICES ASSUME TypeOK, HeldInv, [Next]_vars PROVE raced \subseteq raced'
  OBVIOUS
<1>1. ASSUME NEW r \in Requests, RequestStep(r) PROVE raced \subseteq raced'
  BY <1>1, RequestShapes, BeginShape, MissingShape, PreviousShape, SaveShape,
     QuietEnd DEF Race, HeldInv
<1>2. CASE (\E p \in Perms : Lapse(p)) \/ UNCHANGED vars
  BY <1>2 DEF Lapse, vars
<1> QED
  BY <1>1, <1>2, ReaderHolds DEF Next

LEMMA LiveNext ==
  TypeOK /\ HeldInv /\ StaleInv /\ LiveInv /\ [Next]_vars => LiveInv'
<1> SUFFICES ASSUME TypeOK, HeldInv, StaleInv, LiveInv, [Next]_vars,
                    ~ RevokeRaced', ~ MakersRaced'
             PROVE  LiveInv'
  BY DEF LiveInv
<1>1. ~ RevokeRaced /\ ~ MakersRaced
  BY RacedGrows DEF RevokeRaced, MakersRaced
<1>2. ASSUME NEW d \in Readers, ReaderStep(d) PROVE LiveInv'
  <2>1. \A r \in Requests : req[r].agents \subseteq Agents
    BY DEF TypeOK, Request
  <2>2. \A a \in Agents : /\ (status'[a] = "ABSENT") <=> (status[a] = "ABSENT")
                          /\ (status'[a] = "REVOKED") <=> (status[a] = "REVOKED")
    BY <1>1, <1>2, ReaderHolds DEF HeldInv, StaleInv
  <2>3. Live' = Live
    BY <2>2 DEF Live
  <2>4. req' = req
    BY <1>2, ReaderHolds
  <2> QED
    BY <1>1, <2>1, <2>2, <2>3, <2>4 DEF LiveInv
<1>3. CASE (\E p \in Perms : Lapse(p)) \/ UNCHANGED vars
  <2>1. UNCHANGED <<status, req>>
    BY <1>3 DEF Lapse, vars
  <2>2. Live' = Live
    BY <2>1 DEF Live
  <2> QED
    BY <1>1, <2>1, <2>2 DEF LiveInv
<1> QED
  BY <1>1, <1>2, <1>3, LiveRequest DEF Next

(* The user has at most one agent that is not revoked, the one every page    *)
(* and command picks, unless two callers of ensure_agent overlapped or a     *)
(* stale writer resurrected a revoked one.                                   *)
THEOREM LiveAgent == Spec => []OneLiveAgent
<1>1. Init => LiveInv
  BY DEF Init, LiveInv, Live, IdleRequest, Makers
<1>2. TypeOK /\ HeldInv /\ StaleInv /\ LiveInv /\ [Next]_vars
      => (TypeOK /\ HeldInv /\ StaleInv /\ LiveInv)'
  BY TypeNext, HeldNext, StaleNext, LiveNext
<1>3. LiveInv => OneLiveAgent
  BY DEF LiveInv, OneLiveAgent, MakersRaced
<1> QED
  BY <1>1, <1>2, <1>3, TypeInit, HeldInit, StaleInit, PTL DEF Spec

-----------------------------------------------------------------------------
(* The record of a revocation.  A permission row no grant has inserted is    *)
(* unused, and while no active_permission call overlapped a revocation or a  *)
(* grant, none is in flight beside one and the row it is to save is not      *)
(* REVOKED.                                                                  *)

ExpiryRaced == {{"EXPIRE", "REVOKE"}, {"EXPIRE", "GRANT"}} \cap raced # {}

Revokers == {"GRANT", "REVOKE"}

KeptInv ==
  /\ \A p \in Perms : owner[p] = NoAgent => permStatus[p] = "PENDING"
  /\ \A d \in Readers : reader[d].pc = "permission" =>
       reader[d].perm \in Perms /\ owner[reader[d].perm] # NoAgent
  /\ ~ ExpiryRaced =>
       \A d \in Readers : reader[d].pc # "idle" =>
         /\ \A r \in Requests : req[r].op \notin Revokers
         /\ reader[d].pc = "permission" => permStatus[reader[d].perm] # "REVOKED"

LEMMA ExpiryRecorded ==
  ASSUME NEW op, Race(op), ~ ExpiryRaced'
  PROVE  /\ ~ ExpiryRaced
         /\ op \in Revokers => \A d \in Readers : reader[d].pc = "idle"
         /\ op = "EXPIRE" => \A r \in Requests : req[r].op \notin Revokers
<1>1. raced \subseteq raced'
  BY DEF Race
<1>2. ASSUME NEW w \in Revokers
      PROVE  {w, "EXPIRE"} \in Conflicts /\ {w, "EXPIRE"} \notin raced'
             /\ {"EXPIRE", w} = {w, "EXPIRE"}
             /\ w \in Operation /\ "EXPIRE" \in Operation
  BY <1>2 DEF Revokers, Conflicts, ExpiryRaced, Operation
<1>3. ASSUME op \in Revokers, NEW d \in Readers, reader[d].pc # "idle" PROVE FALSE
  BY <1>2, <1>3 DEF Race, InFlight
<1>4. ASSUME op = "EXPIRE", NEW r \in Requests, req[r].op \in Revokers PROVE FALSE
  BY <1>2, <1>4, OverlapRecorded
<1> QED
  BY <1>1, <1>3, <1>4 DEF ExpiryRaced

(* What the two commits that write permissions do to them.                   *)
LEMMA PermWrites ==
  ASSUME TypeOK, KeptInv, NEW r \in Requests, GrantCommit(r) \/ RevokeCommit(r)
  PROVE  /\ \A p \in Perms : owner[p] # NoAgent =>
              /\ owner'[p] = owner[p]
              /\ permStatus[p] = "REVOKED" => permStatus'[p] = "REVOKED"
         /\ \A p \in Perms : owner'[p] = NoAgent => permStatus'[p] = "PENDING"
         /\ req[r].op \in Revokers
<1>1. ASSUME NEW rows, NEW p \in Perms
      PROVE  /\ permStatus[p] # "ACTIVE" => Revoked(rows)[p] = permStatus[p]
             /\ Revoked(rows) \in [Perms -> PermStatus]
  BY RevokedTypes DEF Revoked
<1>2. CASE GrantCommit(r)
  <2>1. PICK a \in req[r].agents, new \in Perms \ Issued :
          /\ owner' = [owner EXCEPT ![new] = a]
          /\ permStatus' = [Revoked(Matched(r, a)) EXCEPT ![new] = "ACTIVE"]
    BY <1>2 DEF GrantCommit
  <2>2. a \in Agents /\ a # NoAgent /\ owner[new] = NoAgent
    BY AuthorityConstants DEF TypeOK, Request, Issued
  <2>3. \A p \in Perms : p # new =>
          owner'[p] = owner[p] /\ permStatus'[p] = Revoked(Matched(r, a))[p]
    BY <1>1, <2>1 DEF TypeOK
  <2>4. owner'[new] = a
    BY <2>1 DEF TypeOK
  <2>5. req[r].op \in Revokers
    BY <1>2 DEF GrantCommit, Revokers
  <2> QED
    BY <1>1, <2>2, <2>3, <2>4, <2>5 DEF KeptInv
<1>3. CASE RevokeCommit(r)
  <2>1. owner' = owner /\ permStatus' = Revoked(req[r].rows) /\ req[r].op \in Revokers
    BY <1>3 DEF RevokeCommit, Revokers
  <2> QED
    BY <1>1, <2>1 DEF KeptInv
<1> QED
  BY <1>2, <1>3

LEMMA KeptRequest ==
  ASSUME TypeOK, HeldInv, KeptInv, NEW r \in Requests, RequestStep(r)
  PROVE  KeptInv'
<1>1. ASSUME UNCHANGED <<owner, permStatus, reader>>, raced \subseteq raced',
             \A s \in Requests : s # r => req'[s] = req[s],
             ~ ExpiryRaced' /\ req'[r].op \in Revokers =>
               req[r].op \in Revokers \/ \A d \in Readers : reader[d].pc = "idle"
      PROVE  KeptInv'
  BY <1>1 DEF KeptInv, ExpiryRaced
<1>2. CASE BeginStep(r)
  <2>1. /\ UNCHANGED <<owner, permStatus, reader>>
        /\ \A s \in Requests : s # r => req'[s] = req[s]
        /\ Race(req'[r].op) /\ raced \subseteq raced'
    BY <1>2, BeginShape DEF Race
  <2> QED
    BY <1>1, <2>1, ExpiryRecorded
<1>3. CASE EnsureAgentMissing(r)
  BY <1>1, <1>3, MissingShape DEF Revokers
<1>4. CASE RevokePrevious(r)
  BY <1>1, <1>4, PreviousShape
<1>5. CASE EnsureAgentFound(r) \/ Abort(r)
  BY <1>1, <1>5, QuietEnd DEF Revokers, IdleRequest
<1>6. CASE EnsureAgentCommit(r) \/ DepositCommit(r) \/ StatusCommit(r)
  <2>1. Saves(r) /\ UNCHANGED <<owner, permStatus>>
    BY <1>6 DEF Saves, EnsureAgentCommit, DepositCommit, StatusCommit
  <2> QED
    BY <1>1, <2>1, SaveShape DEF HeldInv, Revokers, IdleRequest
<1>7. CASE GrantCommit(r) \/ RevokeCommit(r)
  <2>1. /\ UNCHANGED <<reader, raced>>
        /\ \A s \in Requests : s # r => req'[s] = req[s]
        /\ req'[r].op \notin Revokers
    BY <1>7, SaveShape DEF HeldInv, Saves, Revokers, IdleRequest
  <2>2. \A d \in Readers : reader[d].pc = "permission" =>
          reader[d].perm \in Perms /\ owner[reader[d].perm] # NoAgent
    BY DEF KeptInv
  <2>3. ~ ExpiryRaced => \A d \in Readers : reader[d].pc = "idle"
    BY <1>7, PermWrites DEF KeptInv
  <2> QED
    BY <1>7, <2>1, <2>2, <2>3, PermWrites DEF KeptInv, ExpiryRaced
<1> QED
  BY <1>2, <1>3, <1>4, <1>5, <1>6, <1>7 DEF RequestStep, BeginStep

LEMMA KeptReader ==
  ASSUME TypeOK, HeldInv, KeptInv, NEW d \in Readers, ReaderStep(d)
  PROVE  KeptInv'
<1>1. ASSUME UNCHANGED <<owner, req, permStatus, raced>>,
             \A e \in Readers : e # d => reader'[e] = reader[e],
             reader'[d].pc # "idle" => reader[d].pc # "idle",
             reader'[d].pc = "permission" =>
               /\ reader'[d].perm \in Perms /\ owner[reader'[d].perm] # NoAgent
               /\ permStatus[reader'[d].perm] # "REVOKED"
      PROVE  KeptInv'
  BY <1>1 DEF KeptInv, ExpiryRaced
<1>2. ReaderDone(d) => /\ \A e \in Readers : e # d => reader'[e] = reader[e]
                       /\ reader'[d].pc = "idle"
  BY DEF ReaderDone, TypeOK, IdleReader
<1>3. CASE ReadAgent(d)
  <2>1. /\ UNCHANGED <<owner, req, permStatus>> /\ Race("EXPIRE")
        /\ \E a \in Agents :
             reader' = [reader EXCEPT ![d] =
               [pc |-> "query", agent |-> a, perm |-> 0,
                running |-> status[a] = "RUNNING"]]
    BY <1>3 DEF ReadAgent
  <2>2. /\ reader'[d].pc = "query"
        /\ \A e \in Readers : e # d => reader'[e] = reader[e]
    BY <2>1 DEF TypeOK
  <2> QED
    BY <2>1, <2>2, ExpiryRecorded DEF KeptInv
<1>4. CASE NothingExpired(d) \/ ReaderCrash(d)
  BY <1>1, <1>2, <1>4 DEF NothingExpired, ReaderCrash
<1>5. CASE FoundExpired(d)
  <2>1. PICK p \in Active(reader[d].agent) :
          reader' = [reader EXCEPT ![d].pc = "permission", ![d].perm = p]
    BY <1>5 DEF FoundExpired
  <2>2. /\ reader'[d].pc = "permission" /\ reader'[d].perm = p
        /\ \A e \in Readers : e # d => reader'[e] = reader[e]
    BY <2>1 DEF TypeOK, Reader
  <2>3. p \in Perms /\ owner[p] # NoAgent /\ permStatus[p] = "ACTIVE"
    BY DEF Active, KeptInv
  <2> QED
    BY <1>1, <1>5, <2>2, <2>3 DEF FoundExpired
<1>6. CASE SavePermissionExpired(d)
  <2>1. /\ \A e \in Readers : e # d => reader'[e] = reader[e]
        /\ reader'[d].pc # "permission"
    <3>1. CASE reader[d].running
      BY <1>6, <3>1 DEF SavePermissionExpired, TypeOK, Reader
    <3>2. CASE ~ reader[d].running
      BY <1>2, <1>6, <3>2 DEF SavePermissionExpired
    <3> QED
      BY <3>1, <3>2
  <2>2. /\ UNCHANGED <<owner, req, raced>> /\ reader[d].pc = "permission"
        /\ \A p \in Perms : permStatus'[p] =
             IF p = reader[d].perm THEN "EXPIRED" ELSE permStatus[p]
    BY <1>6 DEF SavePermissionExpired, TypeOK
  <2> QED
    BY <2>1, <2>2 DEF KeptInv, ExpiryRaced
<1>7. CASE SaveAgentExpired(d)
  BY <1>1, <1>2, <1>7 DEF SaveAgentExpired
<1> QED
  BY <1>3, <1>4, <1>5, <1>6, <1>7 DEF ReaderStep

LEMMA KeptNext == TypeOK /\ HeldInv /\ KeptInv /\ [Next]_vars => KeptInv'
<1> SUFFICES ASSUME TypeOK, HeldInv, KeptInv, [Next]_vars PROVE KeptInv'
  OBVIOUS
<1>1. CASE (\E p \in Perms : Lapse(p)) \/ UNCHANGED vars
  BY <1>1 DEF Lapse, vars, KeptInv, ExpiryRaced
<1> QED
  BY <1>1, KeptRequest, KeptReader DEF Next

LEMMA RecordStep ==
  ASSUME TypeOK, KeptInv, [Next]_vars, ~ ExpiryRaced,
         NEW p \in Perms, permStatus[p] = "REVOKED"
  PROVE  permStatus'[p] = "REVOKED"
<1>1. ASSUME NEW r \in Requests, RequestStep(r) PROVE permStatus'[p] = "REVOKED"
  <2>1. CASE GrantCommit(r) \/ RevokeCommit(r)
    BY <2>1, PermWrites DEF KeptInv
  <2>2. CASE ~ (GrantCommit(r) \/ RevokeCommit(r))
    BY <1>1, <2>2, BeginShape, MissingShape, PreviousShape, QuietEnd
       DEF RequestStep, BeginStep, EnsureAgentCommit, DepositCommit, StatusCommit
  <2> QED
    BY <2>1, <2>2
<1>2. ASSUME NEW d \in Readers, ReaderStep(d) PROVE permStatus'[p] = "REVOKED"
  <2>1. CASE SavePermissionExpired(d)
    BY <2>1 DEF SavePermissionExpired, KeptInv, TypeOK
  <2> QED
    BY <1>2, <2>1 DEF ReaderStep, ReadAgent, NothingExpired, FoundExpired,
                      SaveAgentExpired, ReaderCrash
<1>3. CASE (\E q \in Perms : Lapse(q)) \/ UNCHANGED vars
  BY <1>3 DEF Lapse, vars
<1> QED
  BY <1>1, <1>2, <1>3 DEF Next

(* Why a permission ended stays on record: REVOKED is rewritten to EXPIRED   *)
(* only by an active_permission call that overlapped what revoked it.        *)
THEOREM RevocationRecordKept == Spec => RevocationKept
<1> DEFINE Kept ==
      \A p \in Perms : permStatus[p] = "REVOKED" =>
        \/ permStatus'[p] = "REVOKED"
        \/ {{"EXPIRE", "REVOKE"}, {"EXPIRE", "GRANT"}} \cap raced # {}
<1>1. Init => KeptInv
  BY DEF Init, KeptInv, IdleReader
<1>2. TypeOK /\ HeldInv /\ KeptInv /\ [Next]_vars => (TypeOK /\ HeldInv /\ KeptInv)'
  BY TypeNext, HeldNext, KeptNext
<1>3. TypeOK /\ KeptInv /\ [Next]_vars => [Kept]_vars
  BY RecordStep DEF ExpiryRaced
<1> QED
  BY <1>1, <1>2, <1>3, TypeInit, HeldInit, PTL DEF Spec, RevocationKept
=============================================================================
