----------------------------- MODULE UpdateQueue -----------------------------
(***************************************************************************)
(* What the bot may assume of Telegram's queue, however updates reach it:   *)
(* every update is delivered at least once, is kept until a delivery has    *)
(* been handled to the end, and is handled a second time only if it was     *)
(* delivered again.                                                         *)
(*                                                                          *)
(* TelegramDelivery.tla implements this module; TelegramDesk.tla builds on  *)
(* it.                                                                      *)
(***************************************************************************)
EXTENDS Naturals

CONSTANT Updates    \* 1..n, in the order in which they are sent

VARIABLES arrived,  \* updates 1..arrived have been sent
          dropped,  \* updates Telegram has forgotten
          handled,  \* how often an update was handled to the end (2: or more)
          again     \* updates that were delivered more than once

queue == <<arrived, dropped, handled, again>>

QueueInit ==
  /\ arrived = 0 /\ dropped = {} /\ again = {}
  /\ handled = [u \in Updates |-> 0]

Arrive ==
  /\ arrived' = arrived + 1 /\ arrived' \in Updates
  /\ UNCHANGED <<dropped, handled, again>>

(* A delivery of u ends; Telegram may learn of it at once.                   *)
Finish(u) ==
  /\ u \in 1..arrived
  /\ again' \in {again, again \cup {u}}
  /\ u \in again' \/ handled[u] = 0
  /\ handled' = [handled EXCEPT ![u] = IF @ = 0 THEN 1 ELSE 2]
  /\ dropped' \in {dropped, dropped \cup {u}}
  /\ UNCHANGED arrived

(* Updates are acknowledged, or delivered again.                             *)
Redeliver ==
  /\ dropped \subseteq dropped' /\ again \subseteq again'
  /\ \A u \in dropped' : handled[u] > 0
  /\ UNCHANGED <<arrived, handled>>

QueueNext == Arrive \/ Redeliver \/ \E u \in Updates : Finish(u)

QueueSpec == QueueInit /\ [][QueueNext]_queue
=============================================================================
