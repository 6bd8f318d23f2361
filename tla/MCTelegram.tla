------------------------------ MODULE MCTelegram ------------------------------
(***************************************************************************)
(* How the bot is reached, for TLC: the delivery of its updates to two web  *)
(* processes alone, and beside the command, which one update is enough for; *)
(* and the linking of two chats to two users.  The two modules share no     *)
(* state: a behaviour plays one scene, and the rest stays in its initial    *)
(* state.  A scene leaves out no action that fairness is stated of.         *)
(***************************************************************************)
EXTENDS TelegramDelivery, TelegramLink

VARIABLE scene

CONSTANTS w1, w2, k1, u1, u2, c1, c2, r1, r2

MCWebs == {w1, w2}
MCCommands == {k1}
MCUsers == {u1, u2}
MCChats == {c1, c2}
MCRequests == {r1, r2}

MCInit == scene \in {"webs", "command", "link"} /\ DeliveryInit /\ Init

MCNext ==
  \/ /\ scene = "webs" /\ DeliveryNext /\ \A c \in Commands : ~ Running(c)'
     /\ UNCHANGED <<scene, vars>>
  \/ /\ scene = "command" /\ DeliveryNext /\ arrived' <= 1
     /\ UNCHANGED <<scene, vars>>
  \/ scene = "link" /\ Next /\ UNCHANGED <<scene, delivery>>

MCSpec == MCInit /\ [][MCNext]_<<scene, delivery, vars>> /\ Fairness
=============================================================================
