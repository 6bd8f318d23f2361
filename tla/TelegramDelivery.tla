-------------------------- MODULE TelegramDelivery --------------------------
(***************************************************************************)
(* How Telegram updates reach the bot.  Telegram keeps an update until it   *)
(* is acknowledged: by the 200 answer to a webhook POST, or by a getUpdates *)
(* call with a larger offset.  Every process, that of a management command  *)
(* included, registers the webhook at its start or, where that is not       *)
(* possible, becomes the poller if it gets the file lock; telegram_poll     *)
(* itself then polls too, without asking for the lock.  A poller removes    *)
(* the webhook, fetches what is not acknowledged, handles it in order and   *)
(* acknowledges it with the next call.                                      *)
(***************************************************************************)
EXTENDS Naturals

CONSTANTS
  Webs,       \* web processes
  Commands,   \* processes of management commands: telegram_poll, and others,
              \* as sync_dreamdex, which never take StartCommand
  MaxUpdate,  \* bound: updates 1..MaxUpdate are sent to the bot
  MaxCrash    \* bound: crashes of processes

ASSUME DeliveryConstants ==
  Webs \cap Commands = {} /\ MaxUpdate \in Nat /\ MaxCrash \in Nat

VARIABLES
  configured, \* TELEGRAM_WEBHOOK_SECRET and an https origin are set
  webhook,    \* Telegram has a webhook registered
  arrived,    \* updates 1..arrived have been sent
  acked,      \* updates Telegram has dropped from its queue
  listener,   \* what a process does, and the command besides: its poll loop's
              \* offset and batch
  posting,    \* <<process, update>>: webhook POSTs being handled
  done,       \* how often an update has been handled to the end (2: or more)
  crashes,
  exposed     \* history: updates delivered again

delivery == <<configured, webhook, arrived, acked, listener, posting, done,
              crashes, exposed>>

Procs == Webs \cup Commands
Ready(p) == <<p, "ready">>    \* what AppConfig.ready starts in a process
Main(c) == <<c, "main">>      \* the loop of the command itself
Listeners == {Ready(p) : p \in Procs} \cup {Main(c) : c \in Commands}
Updates == 1..MaxUpdate
Down == [pc |-> "down", offset |-> 0, batch |-> {}]
Listener == [pc: {"down", "web", "standby", "clear", "poll", "handle"},
             offset: Nat, batch: SUBSET Updates]

DeliveryTypeOK ==
  /\ configured \in BOOLEAN /\ webhook \in BOOLEAN
  /\ arrived \in 0..MaxUpdate /\ acked \subseteq Updates
  /\ listener \in [Listeners -> Listener] /\ posting \subseteq Webs \X Updates
  /\ done \in [Updates -> 0..2] /\ crashes \in Nat /\ exposed \subseteq Updates

DeliveryInit ==
  /\ configured \in BOOLEAN /\ webhook = FALSE
  /\ arrived = 0 /\ acked = {}
  /\ listener = [l \in Listeners |-> Down] /\ posting = {}
  /\ done = [u \in Updates |-> 0] /\ crashes = 0 /\ exposed = {}

To(l, pc) == listener' = [listener EXCEPT ![l] = [Down EXCEPT !.pc = pc]]
Polling(l) == listener[l].pc \in {"clear", "poll", "handle"}
Running(p) == listener[Ready(p)].pc # "down"

(* _acquire_poll_lock: the lock is a process's as long as it lives, and only *)
(* the loop that ready starts asks for it.                                   *)
LockHeld == \E p \in Procs : Polling(Ready(p))

(* Fetched and not acknowledged yet: in the batch, or handled already.       *)
HeldBy(l) == {u \in (1..arrived) \ acked : u < listener[l].offset}
             \cup listener[l].batch
HeldElsewhere(l) ==
  (UNION {HeldBy(m) : m \in Listeners \ {l}}) \cup {x[2] : x \in posting}

(* Somebody writes to the bot.                                               *)
Arrive ==
  /\ arrived < MaxUpdate /\ arrived' = arrived + 1
  /\ UNCHANGED <<configured, webhook, acked, listener, posting, done, crashes, exposed>>

-----------------------------------------------------------------------------
(* start_telegram_listener, which AppConfig.ready calls in every process:   *)
(* the webhook, or the poller, or neither because another process of the     *)
(* host polls.  setWebhook may fail, and may have been obeyed all the same.  *)
StartListener(p) ==
  /\ ~ Running(p)
  /\ \/ configured /\ webhook' = TRUE /\ To(Ready(p), "web")
     \/ /\ webhook' \in {webhook, configured \/ webhook}
        /\ To(Ready(p), IF LockHeld THEN "standby" ELSE "clear")
  /\ UNCHANGED <<configured, arrived, acked, posting, done, crashes, exposed>>

(* telegram_poll begins after ready, and polls whatever is configured.       *)
StartCommand(c) ==
  /\ Running(c) /\ listener[Main(c)].pc = "down"
  /\ To(Main(c), "clear")
  /\ UNCHANGED <<configured, webhook, arrived, acked, posting, done, crashes, exposed>>

(* delete_webhook, which may fail, before the loop and after a conflict.     *)
ClearWebhook(l) ==
  /\ listener[l].pc = "clear"
  /\ webhook' \in {webhook, FALSE}
  /\ To(l, "poll")
  /\ UNCHANGED <<configured, arrived, acked, posting, done, crashes, exposed>>

(* Mutants: the last update handled is asked for again, or one is passed     *)
(* over.                                                                     *)
OffsetIsLast(u) == u
OffsetSkips(u) == u + 2

OffsetAfter(u) == u + 1

(* getUpdates answers: the offset acknowledges, the rest is the batch.       *)
GetUpdates(l) ==
  LET old == {u \in 1..arrived : u < listener[l].offset}
      new == (1..arrived) \ (acked \cup old) IN
  /\ listener[l].pc = "poll" /\ ~ webhook
  /\ acked' = acked \cup old
  /\ listener' = [listener EXCEPT ![l].batch = new,
                                  ![l].pc = IF new = {} THEN "poll" ELSE "handle"]
  /\ exposed' = exposed \cup (new \cap HeldElsewhere(l))
  /\ UNCHANGED <<configured, webhook, arrived, posting, done, crashes>>

(* A conflict with a webhook makes the loop delete it; any other failure is  *)
(* slept over.                                                               *)
GetUpdatesConflicts(l) ==
  /\ listener[l].pc = "poll" /\ webhook
  /\ webhook' \in {TRUE, FALSE}
  /\ UNCHANGED <<configured, arrived, acked, listener, posting, done, crashes, exposed>>

(* The updates of a batch are handled in the order in which they were sent.  *)
Current(l, u) == u \in listener[l].batch /\ \A v \in listener[l].batch : u <= v

OnceMore(u) == done' = [done EXCEPT ![u] = IF @ = 0 THEN 1 ELSE 2]

(* handle_update has returned, whatever happened inside it: exceptions are   *)
(* caught there.  The offset moves past the update.                          *)
Handled(l) ==
  /\ listener[l].pc = "handle"
  /\ \E u \in Updates :
       LET rest == listener[l].batch \ {u} IN
       /\ Current(l, u)
       /\ listener' = [listener EXCEPT
            ![l] = [pc |-> IF rest = {} THEN "poll" ELSE "handle",
                    offset |-> OffsetAfter(u), batch |-> rest]]
       /\ OnceMore(u)
  /\ UNCHANGED <<configured, webhook, arrived, acked, posting, crashes, exposed>>

-----------------------------------------------------------------------------
(* Telegram posts an update to a web process; unanswered ones are posted     *)
(* again, also while the first POST is still being handled.                  *)
Post(p, u) ==
  /\ webhook /\ Running(p)
  /\ u \in (1..arrived) \ acked /\ <<p, u>> \notin posting
  /\ posting' = posting \cup {<<p, u>>}
  /\ exposed' = IF u \in HeldElsewhere(Ready(p)) \cup HeldBy(Ready(p)) THEN exposed \cup {u} ELSE exposed
  /\ UNCHANGED <<configured, webhook, arrived, acked, listener, done, crashes>>

(* TelegramWebhookView.post answers 200 after handle_update; the answer may  *)
(* be late or lost.                                                          *)
Answer(p, u, received) ==
  /\ <<p, u>> \in posting
  /\ posting' = posting \ {<<p, u>>}
  /\ OnceMore(u)
  /\ acked' = IF received THEN acked \cup {u} ELSE acked
  /\ exposed' = IF received THEN exposed ELSE exposed \cup {u}
  /\ UNCHANGED <<configured, webhook, arrived, listener, crashes>>

(* The process ends, between any two steps, and whatever runs in it ends     *)
(* with it.                                                                  *)
CrashListener(p) ==
  /\ Running(p) /\ crashes < MaxCrash
  /\ crashes' = crashes + 1
  /\ listener' = [l \in Listeners |-> IF l[1] = p THEN Down ELSE listener[l]]
  /\ exposed' = exposed \cup (UNION {HeldBy(l) : l \in {m \in Listeners : m[1] = p}})
                         \cup {x[2] : x \in {y \in posting : y[1] = p}}
  /\ posting' = {x \in posting : x[1] # p}
  /\ UNCHANGED <<configured, webhook, arrived, acked, done>>

Polls(l) == ClearWebhook(l) \/ GetUpdates(l) \/ GetUpdatesConflicts(l)

DeliveryNext ==
  \/ Arrive
  \/ \E p \in Procs : StartListener(p) \/ CrashListener(p)
  \/ \E c \in Commands : StartCommand(c)
  \/ \E l \in Listeners : Polls(l) \/ Handled(l)
  \/ \E p \in Webs, u \in Updates : Post(p, u)
  \/ \E p \in Webs, u \in Updates, received \in BOOLEAN : Answer(p, u, received)

-----------------------------------------------------------------------------
(* The bot is running: web processes are started again, the threads of a     *)
(* running process go on, and Telegram posts what is not acknowledged.       *)
(* Nobody need start the command, or start it again.  Each call may fail for *)
(* as long as it does not fail for ever.                                     *)
Fairness ==
  /\ \A p \in Webs : WF_delivery(StartListener(p))
  /\ \A l \in Listeners : /\ WF_delivery(ClearWebhook(l)) /\ WF_delivery(GetUpdates(l))
                          /\ WF_delivery(Handled(l))
  /\ \A p \in Webs, u \in Updates :
       /\ WF_delivery(Post(p, u))
       /\ WF_delivery(\E received \in BOOLEAN : Answer(p, u, received))

DeliverySpec == DeliveryInit /\ [][DeliveryNext]_delivery /\ Fairness

-----------------------------------------------------------------------------
(* Both ways of delivery, their changes from one to the other, crashes and   *)
(* second pollers included, are the queue the bot relies on: nothing is      *)
(* dropped before it was handled, and nothing is handled twice unless it was *)
(* delivered again (a crash, a lost or late answer, a second poller, a POST  *)
(* beside a poll).                                                           *)
Queue == INSTANCE UpdateQueue WITH dropped <- acked, handled <- done, again <- exposed
QueueSpec == Queue!QueueSpec

(* Nobody polls, no webhook is registered, and every web process is up, so   *)
(* that none will look for the lock or register the webhook again.           *)
Deserted ==
  ~ webhook /\ (\A l \in Listeners : ~ Polling(l)) /\ \A p \in Webs : Running(p)

(* Whatever is sent to the bot is handled, though a listener that found the  *)
(* lock taken never looks for it again and nothing restores a webhook that   *)
(* a poller has removed; unless the bot has been deserted, and only the end  *)
(* of a command's process deserts it: the last poller, it had the lock that  *)
(* the web processes stand by for, or had removed the webhook they           *)
(* registered.                                                               *)
DesertedByCommand ==
  [][Deserted' /\ ~ Deserted => \E c \in Commands : CrashListener(c)]_delivery

EveryUpdateHandled ==
  /\ DesertedByCommand
  /\ \A u \in Updates : (arrived >= u) ~> (done[u] >= 1 \/ Deserted)
=============================================================================
