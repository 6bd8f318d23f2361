---------------------------- MODULE FollowRules -----------------------------
(***************************************************************************)
(* Whom a user follows, and the list of traders the agent's permission      *)
(* allows.  The list is a JSON column of the permission: empty it allows    *)
(* everybody, otherwise only the traders it names, so every follow adds its *)
(* trader to the lists of the active permissions.  Follows and edits are    *)
(* transactions that read the lists and the relationship before they write  *)
(* them; a grant takes its list from the relationships, in a query of the   *)
(* view, before its own transaction.                                        *)
(***************************************************************************)
EXTENDS Naturals

CONSTANTS
  Traders,
  Callers,    \* requests of the user, in the browser and the bot
  Perms       \* the permissions that may ever be granted

VARIABLES
  rel,        \* status of the relationship with a trader ("NONE": no row)
  perms,      \* the permissions granted
  active,     \* the permissions in force
  list,       \* allowed_traders_json
  busy,       \* requests in flight
  excluded,   \* history: traders the owner left out of the list of a grant
  raced,      \* history: traders whose follow met another writer of a list
  stale       \* history: traders stopped while an edit had them loaded

follows == <<rel, perms, active, list, busy, excluded, raced, stale>>

FollowStatuses == {"ACTIVE", "PAUSED", "STOPPED"}
NoRequest == [op |-> "idle", trader |-> {}, status |-> "NONE",
              pc |-> "", asks |-> FALSE, seen |-> {}, named |-> {}]

FollowTypeOK ==
  /\ rel \in [Traders -> FollowStatuses \cup {"NONE"}]
  /\ active \subseteq perms /\ perms \subseteq Perms
  /\ list \in [Perms -> SUBSET Traders]
  /\ excluded \subseteq Traders /\ raced \subseteq Traders /\ stale \subseteq Traders
  /\ busy \in [Callers ->
       [op: {"idle", "follow", "edit", "grant"}, trader: SUBSET Traders,
        status: FollowStatuses \cup {"NONE"}, pc: {"", "loaded", "open"},
        asks: BOOLEAN, seen: SUBSET (Perms \X SUBSET Traders), named: SUBSET Traders]]

FollowInit ==
  /\ rel = [t \in Traders |-> "NONE"]
  /\ perms = {} /\ active = {} /\ list = [p \in Perms |-> {}]
  /\ busy = [h \in Callers |-> NoRequest]
  /\ excluded = {} /\ raced = {} /\ stale = {}

(* The row of a relationship is locked from its write to the commit.         *)
Locked(t) == \E h \in Callers : busy[h].pc = "open" /\ busy[h].trader = {t}
Loaded(t) == UNION {busy[h].trader \cap {t} : h \in {g \in Callers : busy[g].pc = "loaded"}}
Writers(op) == {h \in Callers : busy[h].op = op /\ busy[h].pc = "open"}
Follows == Writers("follow") \cup Writers("edit")

(* _include_trader_on_agent_allowlist, the read: the active permissions and  *)
(* their lists.  The lists it extends are saved whole.                       *)
Seen == {<<p, list[p]>> : p \in active}

(* Mutant: a list that names others is left alone.                           *)
IncludeNever(t, seen) == list

(* ... and the write: an empty list stays empty, it allows everybody.        *)
Include(t, seen) ==
  [p \in Perms |->
     IF \E s \in seen : s[1] = p /\ s[2] # {} /\ t \notin s[2]
       THEN {t} \cup UNION {s[2] : s \in {x \in seen : x[1] = p}}
       ELSE list[p]]

(* Every list that is written while another writer is under way is a race.   *)
RacedWith(t) ==
  raced \cup IF Follows # {} \/ \E h \in Callers : busy[h].op = "grant"
               THEN {t} \cup UNION {busy[h].trader : h \in Follows} ELSE {}

-----------------------------------------------------------------------------
(* _upsert_copy_relationship writes every rule, the status included,         *)
(* whatever the row was; then reads the lists.  /copy differs from /follow   *)
(* in auto_execute, which nothing here depends on.                           *)
Follow(h, t) ==
  /\ busy[h] = NoRequest /\ ~ Locked(t)
  /\ busy' = [busy EXCEPT ![h] = [NoRequest EXCEPT
       !.op = "follow", !.trader = {t}, !.status = "ACTIVE",
       !.pc = "open", !.asks = TRUE, !.seen = Seen]]
  /\ raced' = RacedWith(t)
  /\ UNCHANGED <<rel, perms, active, list, excluded, stale>>

(* The detail view loads the row ...                                         *)
EditLoad(h, t) ==
  /\ busy[h] = NoRequest /\ rel[t] # "NONE"
  /\ busy' = [busy EXCEPT ![h] = [NoRequest EXCEPT
       !.op = "edit", !.trader = {t}, !.status = rel[t],
       !.pc = "loaded"]]
  /\ UNCHANGED <<rel, perms, active, list, excluded, raced, stale>>

(* Mutant: a status that was not sent is set to its default.                 *)
DefaultStatus(h, asked) == IF asked = {} THEN {"ACTIVE"} ELSE asked

(* The status sent with the edit, or the one loaded.                         *)
NewStatus(h, asked) == IF asked = {} THEN {busy[h].status} ELSE asked

(* ... and update_copy_relationship saves all of it with the fields that     *)
(* were sent.                                                                *)
EditSave(h, t, asked) ==
  /\ busy[h].op = "edit" /\ busy[h].pc = "loaded" /\ busy[h].trader = {t} /\ ~ Locked(t)
  /\ \E status \in NewStatus(h, asked) :
       /\ busy' = [busy EXCEPT ![h].status = status, ![h].pc = "open",
                               ![h].asks = asked # {},
                               ![h].seen = IF status = "ACTIVE" THEN Seen ELSE {}]
       /\ raced' = IF status = "ACTIVE" THEN RacedWith(t) ELSE raced
  /\ UNCHANGED <<rel, perms, active, list, excluded, stale>>

CommitFollow(h, t) ==
  /\ busy[h].pc = "open" /\ busy[h].trader = {t}
  /\ rel' = [rel EXCEPT ![t] = busy[h].status]
  /\ list' = Include(t, busy[h].seen)
  /\ excluded' = IF busy[h].status = "ACTIVE" THEN excluded \ {t} ELSE excluded
  /\ stale' = IF busy[h].status = "STOPPED" THEN stale \cup Loaded(t) ELSE stale
  /\ busy' = [busy EXCEPT ![h] = NoRequest]
  /\ UNCHANGED <<perms, active, raced>>

(* delete_copy_relationship saves the status only.                           *)
Stop(t) ==
  /\ rel[t] # "NONE" /\ ~ Locked(t)
  /\ rel' = [rel EXCEPT ![t] = "STOPPED"]
  /\ stale' = stale \cup Loaded(t)
  /\ UNCHANGED <<perms, active, list, busy, excluded, raced>>

-----------------------------------------------------------------------------
(* DreamAgentGrantView: the traders the owner names, or all that are         *)
(* followed now.                                                             *)
GrantLoad(h, chosen) ==
  /\ busy[h] = NoRequest
  /\ LET followed == {t \in Traders : rel[t] = "ACTIVE"}
         named == IF chosen = {} THEN followed ELSE chosen IN
     busy' = [busy EXCEPT ![h] = [NoRequest EXCEPT !.op = "grant", !.named = named,
                                              !.asks = chosen # {}]]
  /\ raced' = raced \cup UNION {busy[g].trader : g \in Follows}
  /\ UNCHANGED <<rel, perms, active, list, excluded, stale>>

(* grant_agent: the permissions before are revoked.                          *)
OnlyPermission(p) == {p}

GrantCommit(h, p) ==
  /\ busy[h].op = "grant" /\ p \notin perms
  /\ perms' = perms \cup {p}
  /\ active' = OnlyPermission(p)
  /\ list' = [list EXCEPT ![p] = busy[h].named]
  /\ raced' = raced \cup UNION {busy[g].trader : g \in Follows}
  /\ excluded' = IF busy[h].asks THEN Traders \ busy[h].named ELSE {}
  /\ busy' = [busy EXCEPT ![h] = NoRequest]
  /\ UNCHANGED <<rel, stale>>

(* Any request may fail, or its process die: nothing of it is committed.     *)
Abort(h) ==
  /\ busy[h] # NoRequest /\ busy' = [busy EXCEPT ![h] = NoRequest]
  /\ UNCHANGED <<rel, perms, active, list, excluded, raced, stale>>

Revoke ==
  /\ active # {} /\ active' = {}
  /\ UNCHANGED <<rel, perms, list, busy, excluded, raced, stale>>

FollowNext ==
  \/ \E h \in Callers, t \in Traders :
       \/ Follow(h, t) \/ EditLoad(h, t) \/ CommitFollow(h, t)
       \/ \E asked \in {{}} \cup {{x} : x \in FollowStatuses} : EditSave(h, t, asked)
  \/ \E h \in Callers : (\E chosen \in SUBSET Traders : GrantLoad(h, chosen)) \/ Abort(h)
  \/ \E h \in Callers, p \in Perms : GrantCommit(h, p)
  \/ \E t \in Traders : Stop(t)
  \/ Revoke

FollowSpec == FollowInit /\ [][FollowNext]_follows

-----------------------------------------------------------------------------
Allows(p, t) == list[p] = {} \/ t \in list[p]

(* "A later /follow must be copyable even if the grant snapshotted an older  *)
(* list": the permission in force allows every trader the user follows,      *)
(* unless the owner left that trader out of it, or the follow met another    *)
(* follow, edit or grant while one of them had read a list or the follows.   *)
FollowedIsAllowed ==
  \A t \in Traders \ (raced \cup excluded), p \in active :
    rel[t] = "ACTIVE" => Allows(p, t)

(* What the user stopped stays stopped until a follow or an edit asks for it,*)
(* unless an edit that had loaded the row before is saved after the stop.    *)
KeepsStopped ==
  \A t \in Traders \ stale :
    rel[t] = "STOPPED" /\ rel'[t] # "STOPPED" =>
      \E h \in Callers : busy[h].trader = {t} /\ busy[h].pc = "open" /\ busy[h].asks

StoppedStays == [][KeepsStopped]_follows
=============================================================================
