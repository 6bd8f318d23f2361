---------------------------- MODULE TelegramLink ----------------------------
(***************************************************************************)
(* Linking a Telegram chat to a wallet user.  The user names a chat on the  *)
(* portfolio page (start_link), the bot asks in that chat, and whoever sits *)
(* there taps Confirm or Cancel.                                            *)
(*                                                                          *)
(* start_link is one transaction of three steps: it locks another user's    *)
(* pending row for the chat and reads its own row without a lock, then      *)
(* writes its own row and messages the chat, then commits.  The others lock *)
(* the only row they touch, and are one step.                               *)
(***************************************************************************)
EXTENDS Naturals

CONSTANTS
  Users, Chats,
  Requests,   \* threads in start_link
  MaxToken    \* bound: confirm tokens ever drawn

VARIABLES
  links,      \* TelegramLink rows; user and chat_id are unique
  starting,   \* start_link transactions in flight
  lastToken,  \* tokens 1..lastToken have been drawn
  issued,     \* history: the request each token was sent for
  expired,    \* tokens whose confirm_expires_at has passed
  tap,        \* history: chat and token of the tap that last linked a user
  raced       \* history: users linked while a start_link of theirs was in flight

vars == <<links, starting, lastToken, issued, expired, tap, raced>>

Request == [user: Users, chat: Chats, token: Nat]
Link == [user: Users, chat: Chats, status: {"PENDING", "ACTIVE"}, token: Nat]
Start == [req: Requests, user: Users, chat: Chats, evicts: SUBSET Users,
          pc: {"read", "asked"}, token: Nat]

TypeOK ==
  /\ links \subseteq Link /\ starting \subseteq Start
  /\ lastToken \in Nat /\ issued \subseteq Request /\ expired \subseteq Nat
  /\ tap \in [Users -> SUBSET (Chats \X Nat)] /\ raced \subseteq Users

Init ==
  /\ links = {} /\ starting = {}
  /\ lastToken = 0 /\ issued = {} /\ expired = {}
  /\ tap = [u \in Users |-> {}] /\ raced = {}

RowOf(u) == {l \in links : l.user = u}
Active(u) == \E l \in RowOf(u) : l.status = "ACTIVE"

(* Rows a transaction of start_link other than the given ones has locked.    *)
LockedBut(u, mine) ==
  \E t \in starting \ mine : u \in t.evicts \/ (t.pc = "asked" /\ t.user = u)

NoneActive(others) == \A l \in others : l.status # "ACTIVE"

(* The chat's row of another user is locked and marked for deletion; an      *)
(* active one, or an active link of one's own, refuses the request.          *)
StartRead(r, u, c) ==
  LET others == {l \in links : l.chat = c /\ l.user # u} IN
  /\ \A t \in starting : t.req # r
  /\ \A l \in others : ~ LockedBut(l.user, {})
  /\ NoneActive(others) /\ ~ Active(u)
  /\ starting' = starting \cup
       {[req |-> r, user |-> u, chat |-> c, pc |-> "read", token |-> 0,
         evicts |-> {l.user : l \in others}]}
  /\ UNCHANGED <<links, lastToken, issued, expired, tap, raced>>

(* update_or_create takes the user's row whatever it has become, with a      *)
(* fresh token; the buttons reach the chat before the commit.                *)
StartAsk(t) ==
  /\ t.pc = "read" /\ lastToken < MaxToken
  /\ ~ LockedBut(t.user, {t})
  /\ \A s \in starting \ {t} : ~ (s.pc = "asked" /\ s.chat = t.chat)
  /\ \A l \in links : l.chat = t.chat => l.user \in t.evicts \cup {t.user}
  /\ lastToken' = lastToken + 1
  /\ issued' = issued \cup {[user |-> t.user, chat |-> t.chat, token |-> lastToken']}
  /\ starting' = (starting \ {t}) \cup {[t EXCEPT !.pc = "asked", !.token = lastToken']}
  /\ UNCHANGED <<links, expired, tap, raced>>

StartCommit(t) ==
  /\ t.pc = "asked"
  /\ links' = {l \in links : l.user \notin t.evicts \cup {t.user}} \cup
       {[user |-> t.user, chat |-> t.chat, status |-> "PENDING", token |-> t.token]}
  /\ starting' = starting \ {t}
  /\ UNCHANGED <<lastToken, issued, expired, tap, raced>>

(* The message was not accepted, the chat was taken meanwhile, the database  *)
(* broke a deadlock of two requests, or the process died.                    *)
StartAbort(t) ==
  /\ starting' = starting \ {t}
  /\ UNCHANGED <<links, lastToken, issued, expired, tap, raced>>

-----------------------------------------------------------------------------
(* Mutant: the token is not compared.                                        *)
AnyRequestOfChat(c, k) == {l \in links : l.chat = c /\ l.status = "PENDING"}

(* The pending row of a tap: unique, as chats are.                           *)
Pending(c, k) ==
  {l \in links : l.chat = c /\ l.token = k /\ l.status = "PENDING"}

(* Confirm on the button, or /start ok_<token>, from chat c.  An expired or  *)
(* unknown token, or a chat that is taken, changes nothing.                  *)
ConfirmLink(c, k) ==
  \E l \in Pending(c, k) :
    /\ ~ LockedBut(l.user, {}) /\ k \notin expired
    /\ ~ \E m \in links \ {l} : m.chat = l.chat /\ m.status = "ACTIVE"
    /\ links' = (links \ {l}) \cup {[l EXCEPT !.status = "ACTIVE", !.token = 0]}
    /\ tap' = [tap EXCEPT ![l.user] = {<<c, k>>}]
    /\ raced' = raced \cup {t.user : t \in {s \in starting : s.user = l.user}}
    /\ UNCHANGED <<starting, lastToken, issued, expired>>

CancelPendingLink(c, k) ==
  \E l \in Pending(c, k) :
    /\ ~ LockedBut(l.user, {})
    /\ links' = links \ {l}
    /\ UNCHANGED <<starting, lastToken, issued, expired, tap, raced>>

Unlink(u) ==
  /\ RowOf(u) # {} /\ ~ LockedBut(u, {})
  /\ links' = links \ RowOf(u)
  /\ UNCHANGED <<starting, lastToken, issued, expired, tap, raced>>

(* LINK_TTL passes.                                                          *)
Expire(k) ==
  /\ expired' = expired \cup {k}
  /\ UNCHANGED <<links, starting, lastToken, issued, tap, raced>>

Next ==
  \/ \E r \in Requests, u \in Users, c \in Chats : StartRead(r, u, c)
  \/ \E t \in starting : StartAsk(t) \/ StartCommit(t) \/ StartAbort(t)
  \/ \E c \in Chats, k \in 1..lastToken : ConfirmLink(c, k) \/ CancelPendingLink(c, k)
  \/ \E u \in Users : Unlink(u)
  \/ \E k \in (1..lastToken) \ expired : Expire(k)

Spec == Init /\ [][Next]_vars

-----------------------------------------------------------------------------
(* Both sides agreed: an active link was confirmed from that very chat, with *)
(* the token sent there for that very user's request, however requests of    *)
(* several users for the same chat, and their old buttons, cross.            *)
LinkedByConsent ==
  \A l \in links : l.status = "ACTIVE" =>
    \E q \in tap[l.user] :
      /\ q[1] = l.chat
      /\ [user |-> l.user, chat |-> l.chat, token |-> q[2]] \in issued

(* Only its owner's unlink ends an active link, unless it became active      *)
(* while a request of the same user was in flight: that request read the     *)
(* row as pending and saves it so.                                           *)
ActiveKept ==
  [][\A l \in links :
       l.status = "ACTIVE" /\ l.user \notin raced =>
         l \in links' \/ Unlink(l.user)]_vars
=============================================================================
