---------------------------- MODULE TelegramDesk ----------------------------
(***************************************************************************)
(* What the bot does with the updates of one chat, and the trade the        *)
(* session key makes for it without a wallet (execute_agent_manual_trade),  *)
(* which the web page uses too.  Updates come as UpdateQueue says: at least *)
(* once, and possibly again while the first delivery is still being         *)
(* handled.  A thread that fails, Telegram refusing its message included,   *)
(* ends its update; one that dies leaves it to be delivered again.          *)
(***************************************************************************)
EXTENDS Naturals, Sequences, FiniteSets

CONSTANTS
  Threads,    \* bot and web threads
  Updates,    \* 1..n: the updates of the chat
  Messages,   \* what an update may say
  MaxTrade, MaxDaily,   \* limits of the permission in force
  MaxTotal    \* bound: the transactions sent

ASSUME DeskConstants ==
  /\ IsFiniteSet(Threads) /\ Threads # {}
  /\ Updates \subseteq Nat \ {0}
  /\ \A m \in Messages : m.amount \in Nat
  /\ MaxTrade \in Nat /\ MaxDaily \in Nat /\ MaxTotal \in Nat

VARIABLES
  arrived, dropped, handled, again,   \* UpdateQueue
  said,       \* the message of an update
  linked,     \* the chat is linked to the user (it stays so: see TelegramLink)
  status,     \* of the user's agent
  valid,      \* its permission is ACTIVE and has not expired
  desk,       \* the threads
  volume,     \* amount of the COPY evaluations of manual trades, and of copies
  copied,
  sent,       \* transactions sent for an update
  spent,      \* amounts of all of them
  told,       \* last answer to an update: "" none yet
  follow,     \* what the user's rule for a trader says: none, notify, auto
  lost,       \* history: updates whose transaction left without a COPY evaluation
  stray       \* history: the amounts of these transactions

Web == 0
queue == <<arrived, dropped, handled, again>>
authority == <<linked, status, valid, follow>>
dealings == <<volume, copied, sent, spent, lost, stray>>
bot == <<queue, said, authority, desk, dealings, told>>

Queue == INSTANCE UpdateQueue

(* A command or a button with its word, or a text: the phrases it contains   *)
(* and the intent parse_intent finds in it.                                  *)
Message == [kind: {"command", "button", "text"}, word: STRING,
            says: SUBSET {"pause", "resume", "positions", "claim", "agent"},
            amount: Nat]
Statuses == {"AUTHORIZED", "RUNNING", "PAUSED", "EXPIRED"}
NoUpdate == [pc |-> "idle", u |-> Web, amount |-> 0]

DeskTypeOK ==
  /\ arrived \in Nat /\ dropped \subseteq Updates /\ again \subseteq Updates
  /\ handled \in [Updates -> 0..2] /\ said \in [Updates -> Messages]
  /\ linked \in BOOLEAN /\ status \in Statuses /\ valid \in BOOLEAN
  /\ desk \in [Threads -> [pc: {"idle", "route", "offer", "authorise", "check", "send",
                                "record", "failed", "end"},
                           u: Updates \cup {Web}, amount: Nat]]
  /\ follow \in {"none", "notify", "auto"}
  /\ volume \in Nat /\ copied \in Nat /\ spent \in Nat
  /\ sent \in [Updates -> Nat]
  /\ lost \subseteq Updates /\ stray \in Nat
  /\ told \in [Updates -> {"", "answered", "refused", "submitted"}]

DeskInit ==
  /\ Queue!QueueInit /\ said \in [Updates -> Messages]
  /\ linked \in BOOLEAN /\ status \in {"AUTHORIZED", "RUNNING", "PAUSED"}
  /\ valid = TRUE /\ follow = "none"
  /\ desk = [t \in Threads |-> NoUpdate]
  /\ volume = 0 /\ copied = 0 /\ spent = 0
  /\ sent = [u \in Updates |-> 0]
  /\ lost = {} /\ stray = 0
  /\ told = [u \in Updates |-> ""]

Goto(t, pc) == desk' = [desk EXCEPT ![t].pc = pc]
Leave(t) == desk' = [desk EXCEPT ![t] = NoUpdate]

(* The next step, or the end of the update without it if Telegram refuses    *)
(* the message that comes first.                                             *)
Say(t, answer, pc) ==
  \/ /\ Goto(t, pc)
     /\ told' = IF desk[t].u = Web THEN told ELSE [told EXCEPT ![desk[t].u] = answer]
  \/ Goto(t, "end") /\ UNCHANGED told

(* get_tradable_agent.                                                       *)
AgentTradable == status \in {"RUNNING", "AUTHORIZED"} /\ valid

(* _handle_message: what a command asks for; unknown ones get the help.      *)
CommandAsks(w) ==
  CASE w \in {"/start", "/help", "/connect"} -> "start"
    [] w = "/pause"  -> "pause"
    [] w = "/resume" -> "resume"
    [] w = "/trade"  -> "trade"
    [] w = "/follow" -> "follow"
    [] w = "/copy"   -> "copy"
    [] w = "/claim"  -> "claim"
    [] OTHER         -> "look"

(* _handle_callback.  Nothing puts a trade for tr:ok to find, so it is always*)
(* an expired one.                                                           *)
ButtonAsks(w) ==
  CASE w \in {"tg:ok", "tg:no"}  -> "start"
    [] w = "go:pause"            -> "pause"
    [] w = "go:resume"           -> "resume"
    [] w = "by"                  -> "trade"
    [] w = "fl"                  -> "follow"
    [] w = "cp"                  -> "copy"
    [] w \in {"cl", "go:claim"}  -> "claim"
    [] OTHER                     -> "look"

(* _handle_natural_language: the first group of phrases the text contains,   *)
(* whatever else it says ("unpause my agent" asks for the pause), then the   *)
(* intent.                                                                   *)
TextAsks(m) ==
  LET found == SelectSeq(<<"pause", "resume", "positions", "claim", "agent">>,
                         LAMBDA p : p \in m.says)
  IN IF found # <<>>
       THEN IF found[1] \in {"positions", "agent"} THEN "look" ELSE found[1]
       ELSE IF m.word = "PREPARE_TRADE" THEN "trade" ELSE "look"

Asked(m) ==
  CASE m.kind = "command" -> CommandAsks(m.word)
    [] m.kind = "button"  -> ButtonAsks(m.word)
    [] m.kind = "text"    -> TextAsks(m)

(* _default_trade_amount: a button trades the permission's limit at most.    *)
Amount(m) == IF m.kind = "button" /\ m.amount > MaxTrade THEN MaxTrade ELSE m.amount

-----------------------------------------------------------------------------
Others == \E u \in Updates :
            /\ Queue!Arrive /\ arrived' = u
            /\ UNCHANGED <<said, authority, desk, dealings, told>>

Acknowledge ==
  /\ \E u \in 1..arrived : handled[u] > 0 /\ dropped' = dropped \cup {u}
  /\ UNCHANGED <<arrived, handled, again, said, authority, desk, dealings, told>>

(* Delivered, for the first time or again.                                   *)
Take(t, u) ==
  /\ desk[t].pc = "idle" /\ u \in (1..arrived) \ dropped
  /\ again' = IF handled[u] > 0 \/ (\E s \in Threads : desk[s].pc # "idle" /\ desk[s].u = u)
                THEN again \cup {u} ELSE again
  /\ desk' = [desk EXCEPT ![t] = [pc |-> "route", u |-> u, amount |-> Amount(said[u])]]
  /\ UNCHANGED <<arrived, dropped, handled, said, authority, dealings, told>>

(* _require_user, and the read-only answers.                                 *)
Look(t) ==
  LET m == said[desk[t].u] IN
  /\ desk[t].pc = "route" /\ (~ linked \/ Asked(m) \in {"start", "look"})
  /\ Say(t, "answered", "end")
  /\ UNCHANGED <<queue, said, authority, dealings>>

(* _cmd_pause_resume: set_agent_status refuses what the table does not allow.*)
PauseResume(t) ==
  LET ask == Asked(said[desk[t].u]) IN
  /\ desk[t].pc = "route" /\ linked /\ ask \in {"pause", "resume"}
  /\ status' = CASE ask = "pause" /\ status \in {"AUTHORIZED", "RUNNING"} -> "PAUSED"
                 [] ask = "resume" /\ status \in {"AUTHORIZED", "PAUSED"} -> "RUNNING"
                 [] OTHER -> status
  /\ Say(t, "answered", "end")
  /\ UNCHANGED <<queue, said, linked, valid, follow, dealings>>

(* _do_follow rewrites the rule: automatic only by /copy, and only while the *)
(* agent runs (see FollowRules).                                             *)
Follow(t) ==
  LET ask == Asked(said[desk[t].u]) IN
  /\ desk[t].pc = "route" /\ linked /\ ask \in {"follow", "copy"}
  /\ follow' = IF ask = "copy" /\ status = "RUNNING" THEN "auto" ELSE "notify"
  /\ Say(t, "answered", "end")
  /\ UNCHANGED <<queue, said, linked, status, valid, dealings>>

(* _cmd_claim needs a session key agent; what it claims, Holdings says.      *)
Claim(t) ==
  /\ desk[t].pc = "route" /\ linked /\ Asked(said[desk[t].u]) = "claim"
  /\ Say(t, "answered", "end")
  /\ UNCHANGED <<queue, said, authority, dealings>>

(* _cmd_trade, the YES and NO buttons and "Buy $5 YES on BTC": a button asks *)
(* for at most the permission's limit, the others for what they say.         *)
Trade(t) ==
  /\ desk[t].pc = "route" /\ linked /\ Asked(said[desk[t].u]) = "trade"
  /\ IF AgentTradable /\ desk[t].amount <= MaxTrade
       THEN Goto(t, "offer") /\ UNCHANGED told
       ELSE Say(t, "refused", "end")
  /\ UNCHANGED <<queue, said, authority, dealings>>

(* _offer_trade announces the trade before it is made.                       *)
Offer(t) ==
  /\ desk[t].pc = "offer"
  /\ Goto(t, "authorise") \/ Goto(t, "end")
  /\ UNCHANGED <<queue, said, authority, dealings, told>>

(* AgentTradeView.                                                           *)
WebTrade(t, amount) ==
  /\ desk[t].pc = "idle"
  /\ desk' = [desk EXCEPT ![t] = [pc |-> "authorise", u |-> Web, amount |-> amount]]
  /\ UNCHANGED <<queue, said, authority, dealings, told>>

-----------------------------------------------------------------------------
(* execute_agent_manual_trade: agent, permission and delegation are read.    *)
Authorise(t) ==
  /\ desk[t].pc = "authorise"
  /\ IF AgentTradable THEN Goto(t, "check") /\ UNCHANGED told ELSE Say(t, "refused", "end")
  /\ UNCHANGED <<queue, said, authority, dealings>>

(* Mutant: the trade in question is left out of the day's total.             *)
VolumeBefore(amount) == volume + copied

(* _daily_agent_volume: COPY evaluations of today, of copies too.            *)
VolumeWith(amount) == volume + copied + amount

(* The limits; risk, the outcome and the market are the environment's choice.*)
CheckLimits(t) ==
  LET a == desk[t].amount IN
  /\ desk[t].pc = "check"
  /\ \/ /\ a <= MaxTrade /\ VolumeWith(a) <= MaxDaily
        /\ Goto(t, "send") /\ UNCHANGED told
     \/ Say(t, "refused", "end")
  /\ UNCHANGED <<queue, said, authority, dealings>>

(* The quote, the delegation, the simulation or the gas check may fail before*)
(* the transaction is sent; its receipt may not come, or confirm_trade fail, *)
(* after it.                                                                 *)
Transmit(t, pc) ==
  LET u == desk[t].u IN
  /\ desk[t].pc = "send" /\ spent < MaxTotal
  /\ sent' = IF u = Web THEN sent ELSE [sent EXCEPT ![u] = @ + 1]
  /\ spent' = spent + desk[t].amount
  /\ Goto(t, pc)
  /\ UNCHANGED <<queue, said, authority, volume, copied, told>>

SendTrade(t) == Transmit(t, "record") /\ UNCHANGED <<lost, stray>>

SendLost(t) ==
  /\ Transmit(t, "failed")
  /\ lost' = lost \cup ({desk[t].u} \ {Web}) /\ stray' = stray + desk[t].amount

SendFails(t) ==
  /\ desk[t].pc = "send" /\ Goto(t, "failed")
  /\ UNCHANGED <<queue, said, authority, dealings, told>>

(* The COPY evaluation counts from now on.                                   *)
Record(t) ==
  /\ desk[t].pc = "record"
  /\ volume' = volume + desk[t].amount
  /\ Say(t, "submitted", "end")
  /\ UNCHANGED <<queue, said, authority, copied, sent, spent, lost, stray>>

(* Mutant: a trade that failed is tried again.                               *)
FailedRetries(t) ==
  /\ desk[t].pc = "failed" /\ Goto(t, "send")
  /\ UNCHANGED <<queue, said, authority, dealings, told>>

(* A FAILED evaluation, and the error as answer.                             *)
Failed(t) ==
  /\ desk[t].pc = "failed"
  /\ Say(t, "refused", "end")
  /\ UNCHANGED <<queue, said, authority, dealings>>

(* handle_update, or the view, returns.                                      *)
Return(t) ==
  LET u == desk[t].u IN
  /\ desk[t].pc = "end" /\ Leave(t)
  /\ \/ u # Web /\ Queue!Finish(u)
     \/ u = Web /\ UNCHANGED queue
  /\ UNCHANGED <<said, authority, dealings, told>>

(* The process dies; its update is delivered again.                          *)
Die(t) ==
  LET u == desk[t].u IN
  /\ desk[t].pc # "idle" /\ Leave(t)
  /\ again' = again \cup ({u} \ {Web})
  /\ \/ desk[t].pc = "record" /\ lost' = lost \cup ({u} \ {Web}) /\ stray' = stray + desk[t].amount
     \/ desk[t].pc # "record" /\ UNCHANGED <<lost, stray>>
  /\ UNCHANGED <<arrived, dropped, handled, said, authority, volume, copied, sent, spent, told>>

-----------------------------------------------------------------------------
(* The permission lapses; the read that finds it, by any page or command,    *)
(* ends a running agent with it.                                             *)
FindExpired ==
  /\ valid /\ valid' = FALSE
  /\ status' = IF status = "RUNNING" THEN "EXPIRED" ELSE status
  /\ UNCHANGED <<queue, said, linked, follow, desk, dealings, told>>

(* The copy pipeline records a copy.                                         *)
CopyRecorded ==
  /\ copied < MaxDaily /\ copied' = copied + 1
  /\ UNCHANGED <<queue, said, authority, desk, volume, sent, spent, lost, stray, told>>

ThreadStep(t) ==
  \/ \E u \in Updates : Take(t, u)
  \/ \E amount \in 1..(MaxTrade + 1) : WebTrade(t, amount)
  \/ Look(t) \/ PauseResume(t) \/ Follow(t) \/ Claim(t) \/ Trade(t) \/ Offer(t)
  \/ Authorise(t) \/ CheckLimits(t)
  \/ SendTrade(t) \/ SendLost(t) \/ SendFails(t) \/ Record(t) \/ Failed(t) \/ Return(t) \/ Die(t)

DeskNext == Others \/ Acknowledge \/ FindExpired \/ CopyRecorded \/ \E t \in Threads : ThreadStep(t)

DeskSpec == DeskInit /\ [][DeskNext]_bot

-----------------------------------------------------------------------------
(* One update makes at most one trade, and its answer is true: "submitted"   *)
(* of a transaction that was sent, a refusal only if none was, unless the    *)
(* update was delivered again or the transaction left without being recorded.*)
OneTrueAnswer ==
  \A u \in Updates \ again :
    /\ sent[u] <= 1
    /\ told[u] = "submitted" => sent[u] = 1
    /\ told[u] = "refused" /\ u \notin lost => sent[u] = 0

(* What the session key spends by hand exceeds the day's limit by at most    *)
(* one trade for each thread but one that read the same total, and by what   *)
(* was sent without being counted.                                           *)
ManualBound ==
  spent <= MaxDaily + (Cardinality(Threads) - 1) * MaxTrade + stray
=============================================================================
