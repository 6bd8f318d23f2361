--------------------------- MODULE TelegramProofs ---------------------------
(***************************************************************************)
(* Proofs about what reaches the bot and whom it obeys.  TelegramDelivery,  *)
(* for any number of web processes, commands, updates and crashes,          *)
(* implements UpdateQueue; in TelegramLink, for any users, chats, requests  *)
(* in flight and tokens, an active link was agreed to on both sides, and    *)
(* only its owner ends it.                                                  *)
(*                                                                          *)
(* The invariant of the delivery says what a process knows: the offset of a *)
(* poller is past updates that are handled only, a batch leaves out handled *)
(* updates only, and an update that two hold, or that one holds though it   *)
(* is handled, has been exposed.                                            *)
(***************************************************************************)
EXTENDS TelegramDelivery, TelegramLink, TLAPS

(* A listener that does not handle a batch has none; one that does not poll  *)
(* has no offset either.                                                     *)
Resting ==
  \A l \in Listeners :
    /\ listener[l].pc # "handle" => listener[l].batch = {}
    /\ listener[l].pc \in {"down", "web", "standby", "clear"} => listener[l].offset = 0

(* Only what was sent is held, and a batch begins at the offset.             *)
Sent ==
  /\ posting \subseteq Webs \X (1..arrived)
  /\ \A l \in Listeners :
       /\ listener[l].offset <= arrived + 1
       /\ \A u \in listener[l].batch : u \in 1..arrived /\ listener[l].offset <= u

(* What is acknowledged, or passed over by a poller, is handled.             *)
PassedIsDone ==
  /\ \A u \in acked : u \in 1..arrived /\ done[u] > 0
  /\ \A l \in Listeners, u \in 1..arrived :
       \/ u < listener[l].offset
       \/ u \notin listener[l].batch /\ \E b \in listener[l].batch : u < b
       => done[u] > 0

(* What two hold has been exposed.                                           *)
SharedIsExposed ==
  /\ \A l, m \in Listeners, u \in Updates :
       l # m /\ u \in listener[l].batch /\ u \in listener[m].batch => u \in exposed
  /\ \A l \in Listeners, q \in Webs, u \in Updates :
       u \in listener[l].batch /\ <<q, u>> \in posting => u \in exposed
  /\ \A p, q \in Webs, u \in Updates :
       p # q /\ <<p, u>> \in posting /\ <<q, u>> \in posting => u \in exposed

(* A handled update is acknowledged, exposed or behind somebody's offset;    *)
(* one that is still held has been exposed.                                  *)
DoneIsKnown ==
  \A u \in Updates : done[u] > 0 =>
    /\ u \in acked \/ u \in exposed \/ \E l \in Listeners : u < listener[l].offset
    /\ \A l \in Listeners : u \in listener[l].batch => u \in exposed
    /\ \A p \in Webs : <<p, u>> \in posting => u \in exposed

DeliveryInv ==
  DeliveryTypeOK /\ Resting /\ Sent /\ PassedIsDone /\ SharedIsExposed /\ DoneIsKnown

-----------------------------------------------------------------------------
LEMMA Places ==
  /\ \A p \in Procs : Ready(p) \in Listeners /\ Ready(p)[1] = p
  /\ \A c \in Commands : Main(c) \in Listeners /\ Main(c)[1] = c
  /\ Webs \subseteq Procs
  BY DEF Listeners, Ready, Main, Procs

(* However a listener starts, it has neither an offset nor a batch.          *)
LEMMA Started ==
  ASSUME NEW p \in Procs, StartListener(p)
  PROVE  /\ \E at \in {"web", "standby", "clear"} :
                listener' = [listener EXCEPT ![Ready(p)] = [pc |-> at, offset |-> 0, batch |-> {}]]
         /\ webhook' \in {webhook, TRUE, configured \/ webhook}
         /\ listener[Ready(p)].pc = "down"
         /\ UNCHANGED <<configured, arrived, acked, posting, done, crashes, exposed>>
<1>1. CASE LockHeld
  BY <1>1 DEF StartListener, To, Down, Running
<1>2. CASE ~ LockHeld
  BY <1>2 DEF StartListener, To, Down, Running
<1> QED
  BY <1>1, <1>2

LEMMA DeliveryTypeNext == DeliveryTypeOK /\ DeliveryNext => DeliveryTypeOK'
<1> SUFFICES ASSUME DeliveryTypeOK, DeliveryNext PROVE DeliveryTypeOK'
  OBVIOUS
<1> USE DeliveryConstants, Places DEF Updates
<1>1. ASSUME Arrive PROVE DeliveryTypeOK'
  BY <1>1 DEF Arrive, DeliveryTypeOK, Listener
<1>2. ASSUME NEW p \in Procs, StartListener(p) PROVE DeliveryTypeOK'
  <2>1. PICK at \in {"web", "standby", "clear"} :
          listener' = [listener EXCEPT ![Ready(p)] = [pc |-> at, offset |-> 0, batch |-> {}]]
    BY <1>2, Started
  <2>2. /\ webhook' \in {webhook, TRUE, configured \/ webhook}
        /\ UNCHANGED <<configured, arrived, acked, posting, done, crashes, exposed>>
    BY <1>2, Started
  <2> QED
    BY <2>1, <2>2 DEF DeliveryTypeOK, Listener
<1>3. ASSUME NEW c \in Commands, StartCommand(c) PROVE DeliveryTypeOK'
  BY <1>3 DEF StartCommand, To, Down, Running, DeliveryTypeOK, Listener
<1>4. ASSUME NEW l \in Listeners, ClearWebhook(l) PROVE DeliveryTypeOK'
  BY <1>4 DEF ClearWebhook, To, Down, DeliveryTypeOK, Listener
<1>5. ASSUME NEW l \in Listeners, GetUpdates(l) PROVE DeliveryTypeOK'
  <2> DEFINE old == {u \in 1..arrived : u < listener[l].offset}
             new == (1..arrived) \ (acked \cup old)
             at == IF new = {} THEN "poll" ELSE "handle"
  <2>1. /\ acked' = acked \cup old /\ exposed' = exposed \cup (new \cap HeldElsewhere(l))
        /\ listener' = [listener EXCEPT ![l].batch = new, ![l].pc = at]
        /\ UNCHANGED <<configured, webhook, arrived, posting, done, crashes>>
    BY <1>5 DEF GetUpdates
  <2>2. old \subseteq 1..MaxUpdate /\ new \subseteq 1..MaxUpdate
    BY DEF DeliveryTypeOK
  <2>3. at \in {"poll", "handle"}
    OBVIOUS
  <2> HIDE DEF old, new, at
  <2>4. listener' \in [Listeners -> Listener]
    <3>1. [listener[l] EXCEPT !.batch = new, !.pc = at] \in Listener
      <4>1. listener[l] \in Listener
        BY DEF DeliveryTypeOK
      <4>2. \A r \in Listener : [r EXCEPT !.batch = new, !.pc = at] \in Listener
        BY <2>2, <2>3 DEF Listener
      <4> QED
        BY <4>1, <4>2
    <3>2. listener' = [listener EXCEPT ![l] = [listener[l] EXCEPT !.batch = new, !.pc = at]]
      BY <2>1 DEF DeliveryTypeOK
    <3> QED
      BY <3>1, <3>2 DEF DeliveryTypeOK
  <2> QED
    BY <2>1, <2>2, <2>4 DEF DeliveryTypeOK
<1>6. ASSUME NEW l \in Listeners, GetUpdatesConflicts(l) PROVE DeliveryTypeOK'
  BY <1>6 DEF GetUpdatesConflicts, DeliveryTypeOK, Listener
<1>7. ASSUME NEW l \in Listeners, Handled(l) PROVE DeliveryTypeOK'
  BY <1>7 DEF Handled, Current, OnceMore, OffsetAfter, DeliveryTypeOK, Listener
<1>8. ASSUME NEW p \in Webs, NEW u \in Updates, Post(p, u) PROVE DeliveryTypeOK'
  BY <1>8 DEF Post, HeldElsewhere, HeldBy, DeliveryTypeOK, Listener
<1>9. ASSUME NEW p \in Webs, NEW u \in Updates, NEW received \in BOOLEAN, Answer(p, u, received) PROVE DeliveryTypeOK'
  BY <1>9 DEF Answer, OnceMore, DeliveryTypeOK, Listener
<1>10. ASSUME NEW p \in Procs, CrashListener(p) PROVE DeliveryTypeOK'
  <2>1. Down \in Listener
    BY DEF Down, Listener
  <2>2. listener' \in [Listeners -> Listener]
    BY <1>10, <2>1 DEF CrashListener, DeliveryTypeOK
  <2>3. \A l \in Listeners : HeldBy(l) \subseteq 1..MaxUpdate
    BY DEF HeldBy, DeliveryTypeOK, Listener
  <2>4. exposed' \subseteq 1..MaxUpdate /\ posting' \subseteq posting /\ crashes' \in Nat
    <3>1. \A x \in posting : x[2] \in 1..MaxUpdate
      BY DEF DeliveryTypeOK
    <3>2. crashes' \in Nat
      BY <1>10 DEF CrashListener, DeliveryTypeOK
    <3> DEFINE lost == UNION {HeldBy(l) : l \in {m \in Listeners : m[1] = p}}
               posts == {x[2] : x \in {y \in posting : y[1] = p}}
    <3>3. lost \subseteq 1..MaxUpdate
      BY <2>3
    <3>4. posts \subseteq 1..MaxUpdate
      BY <3>1
    <3>5. exposed' = exposed \cup lost \cup posts /\ posting' \subseteq posting
      BY <1>10 DEF CrashListener
    <3> QED
      BY <3>2, <3>3, <3>4, <3>5 DEF DeliveryTypeOK
  <2> QED
    BY <1>10, <2>2, <2>4 DEF CrashListener, DeliveryTypeOK
<1> QED
  BY <1>1, <1>2, <1>3, <1>4, <1>5, <1>6, <1>7, <1>8, <1>9, <1>10 DEF DeliveryNext, Polls

LEMMA RestingNext == DeliveryInv /\ DeliveryNext => Resting'
<1> SUFFICES ASSUME DeliveryInv, DeliveryNext PROVE Resting'
  OBVIOUS
<1> USE DeliveryConstants, Places DEF Updates, DeliveryInv, DeliveryTypeOK, Listener
<1>1. ASSUME Arrive PROVE Resting'
  BY <1>1 DEF Arrive, Resting
<1>2. ASSUME NEW p \in Procs, StartListener(p) PROVE Resting'
  <2>1. PICK at \in {"web", "standby", "clear"} :
          listener' = [listener EXCEPT ![Ready(p)] = [pc |-> at, offset |-> 0, batch |-> {}]]
    BY <1>2, Started
  <2>2. /\ webhook' \in {webhook, TRUE, configured \/ webhook}
        /\ UNCHANGED <<configured, arrived, acked, posting, done, crashes, exposed>>
    BY <1>2, Started
  <2> QED
    BY <2>1, <2>2 DEF Resting
<1>3. ASSUME NEW c \in Commands, StartCommand(c) PROVE Resting'
  BY <1>3 DEF StartCommand, To, Down, Running, Resting
<1>4. ASSUME NEW l \in Listeners, ClearWebhook(l) PROVE Resting'
  BY <1>4 DEF ClearWebhook, To, Down, Resting
<1>5. ASSUME NEW l \in Listeners, GetUpdates(l) PROVE Resting'
  BY <1>5 DEF GetUpdates, HeldElsewhere, HeldBy, Resting
<1>6. ASSUME NEW l \in Listeners, GetUpdatesConflicts(l) PROVE Resting'
  BY <1>6 DEF GetUpdatesConflicts, Resting
<1>7. ASSUME NEW l \in Listeners, Handled(l) PROVE Resting'
  BY <1>7 DEF Handled, Current, OnceMore, OffsetAfter, Resting
<1>8. ASSUME NEW p \in Webs, NEW u \in Updates, Post(p, u) PROVE Resting'
  BY <1>8 DEF Post, HeldElsewhere, HeldBy, Resting
<1>9. ASSUME NEW p \in Webs, NEW u \in Updates, NEW received \in BOOLEAN, Answer(p, u, received) PROVE Resting'
  BY <1>9 DEF Answer, OnceMore, Resting
<1>10. ASSUME NEW p \in Procs, CrashListener(p) PROVE Resting'
  BY <1>10 DEF CrashListener, Down, HeldBy, Resting
<1> QED
  BY <1>1, <1>2, <1>3, <1>4, <1>5, <1>6, <1>7, <1>8, <1>9, <1>10 DEF DeliveryNext, Polls

LEMMA SentNext == DeliveryInv /\ DeliveryNext => Sent'
<1> SUFFICES ASSUME DeliveryInv, DeliveryNext PROVE Sent'
  OBVIOUS
<1> USE DeliveryConstants, Places DEF Updates, DeliveryInv, DeliveryTypeOK, Listener
<1>1. ASSUME Arrive PROVE Sent'
  BY <1>1 DEF Arrive, Resting, Sent
<1>2. ASSUME NEW p \in Procs, StartListener(p) PROVE Sent'
  <2>1. PICK at \in {"web", "standby", "clear"} :
          listener' = [listener EXCEPT ![Ready(p)] = [pc |-> at, offset |-> 0, batch |-> {}]]
    BY <1>2, Started
  <2>2. /\ webhook' \in {webhook, TRUE, configured \/ webhook}
        /\ UNCHANGED <<configured, arrived, acked, posting, done, crashes, exposed>>
    BY <1>2, Started
  <2> QED
    BY <2>1, <2>2 DEF Resting, Sent
<1>3. ASSUME NEW c \in Commands, StartCommand(c) PROVE Sent'
  BY <1>3 DEF StartCommand, To, Down, Running, Resting, Sent
<1>4. ASSUME NEW l \in Listeners, ClearWebhook(l) PROVE Sent'
  BY <1>4 DEF ClearWebhook, To, Down, Resting, Sent
<1>5. ASSUME NEW l \in Listeners, GetUpdates(l) PROVE Sent'
  BY <1>5 DEF GetUpdates, HeldElsewhere, HeldBy, Resting, Sent
<1>6. ASSUME NEW l \in Listeners, GetUpdatesConflicts(l) PROVE Sent'
  BY <1>6 DEF GetUpdatesConflicts, Resting, Sent
<1>7. ASSUME NEW l \in Listeners, Handled(l) PROVE Sent'
  BY <1>7 DEF Handled, Current, OnceMore, OffsetAfter, Resting, Sent
<1>8. ASSUME NEW p \in Webs, NEW u \in Updates, Post(p, u) PROVE Sent'
  BY <1>8 DEF Post, HeldElsewhere, HeldBy, Resting, Sent
<1>9. ASSUME NEW p \in Webs, NEW u \in Updates, NEW received \in BOOLEAN, Answer(p, u, received) PROVE Sent'
  BY <1>9 DEF Answer, OnceMore, Resting, Sent
<1>10. ASSUME NEW p \in Procs, CrashListener(p) PROVE Sent'
  BY <1>10 DEF CrashListener, Down, HeldBy, Resting, Sent
<1> QED
  BY <1>1, <1>2, <1>3, <1>4, <1>5, <1>6, <1>7, <1>8, <1>9, <1>10 DEF DeliveryNext, Polls

LEMMA PassedIsDoneNext == DeliveryInv /\ DeliveryNext => PassedIsDone'
<1> SUFFICES ASSUME DeliveryInv, DeliveryNext PROVE PassedIsDone'
  OBVIOUS
<1> USE DeliveryConstants, Places DEF Updates, DeliveryInv, DeliveryTypeOK, Listener
<1>1. ASSUME Arrive PROVE PassedIsDone'
  BY <1>1 DEF Arrive, Resting, Sent, PassedIsDone
<1>2. ASSUME NEW p \in Procs, StartListener(p) PROVE PassedIsDone'
  <2>1. PICK at \in {"web", "standby", "clear"} :
          listener' = [listener EXCEPT ![Ready(p)] = [pc |-> at, offset |-> 0, batch |-> {}]]
    BY <1>2, Started
  <2>2. /\ webhook' \in {webhook, TRUE, configured \/ webhook}
        /\ UNCHANGED <<configured, arrived, acked, posting, done, crashes, exposed>>
    BY <1>2, Started
  <2> QED
    BY <2>1, <2>2 DEF Resting, Sent, PassedIsDone
<1>3. ASSUME NEW c \in Commands, StartCommand(c) PROVE PassedIsDone'
  BY <1>3 DEF StartCommand, To, Down, Running, Resting, Sent, PassedIsDone
<1>4. ASSUME NEW l \in Listeners, ClearWebhook(l) PROVE PassedIsDone'
  BY <1>4 DEF ClearWebhook, To, Down, Resting, Sent, PassedIsDone
<1>5. ASSUME NEW l \in Listeners, GetUpdates(l) PROVE PassedIsDone'
  BY <1>5 DEF GetUpdates, HeldElsewhere, HeldBy, Resting, Sent, PassedIsDone
<1>6. ASSUME NEW l \in Listeners, GetUpdatesConflicts(l) PROVE PassedIsDone'
  BY <1>6 DEF GetUpdatesConflicts, Resting, Sent, PassedIsDone
<1>7. ASSUME NEW l \in Listeners, Handled(l) PROVE PassedIsDone'
  BY <1>7 DEF Handled, Current, OnceMore, OffsetAfter, Resting, Sent, PassedIsDone
<1>8. ASSUME NEW p \in Webs, NEW u \in Updates, Post(p, u) PROVE PassedIsDone'
  BY <1>8 DEF Post, HeldElsewhere, HeldBy, Resting, Sent, PassedIsDone
<1>9. ASSUME NEW p \in Webs, NEW u \in Updates, NEW received \in BOOLEAN, Answer(p, u, received) PROVE PassedIsDone'
  BY <1>9 DEF Answer, OnceMore, Resting, Sent, PassedIsDone
<1>10. ASSUME NEW p \in Procs, CrashListener(p) PROVE PassedIsDone'
  BY <1>10 DEF CrashListener, Down, HeldBy, Resting, Sent, PassedIsDone
<1> QED
  BY <1>1, <1>2, <1>3, <1>4, <1>5, <1>6, <1>7, <1>8, <1>9, <1>10 DEF DeliveryNext, Polls

LEMMA SharedIsExposedNext == DeliveryInv /\ DeliveryNext => SharedIsExposed'
<1> SUFFICES ASSUME DeliveryInv, DeliveryNext PROVE SharedIsExposed'
  OBVIOUS
<1> USE DeliveryConstants, Places DEF Updates, DeliveryInv, DeliveryTypeOK, Listener
<1>1. ASSUME Arrive PROVE SharedIsExposed'
  BY <1>1 DEF Arrive, Resting, Sent, SharedIsExposed
<1>2. ASSUME NEW p \in Procs, StartListener(p) PROVE SharedIsExposed'
  <2>1. PICK at \in {"web", "standby", "clear"} :
          listener' = [listener EXCEPT ![Ready(p)] = [pc |-> at, offset |-> 0, batch |-> {}]]
    BY <1>2, Started
  <2>2. /\ webhook' \in {webhook, TRUE, configured \/ webhook}
        /\ UNCHANGED <<configured, arrived, acked, posting, done, crashes, exposed>>
    BY <1>2, Started
  <2> QED
    BY <2>1, <2>2 DEF Resting, Sent, SharedIsExposed
<1>3. ASSUME NEW c \in Commands, StartCommand(c) PROVE SharedIsExposed'
  BY <1>3 DEF StartCommand, To, Down, Running, Resting, Sent, SharedIsExposed
<1>4. ASSUME NEW l \in Listeners, ClearWebhook(l) PROVE SharedIsExposed'
  BY <1>4 DEF ClearWebhook, To, Down, Resting, Sent, SharedIsExposed
<1>5. ASSUME NEW l \in Listeners, GetUpdates(l) PROVE SharedIsExposed'
  BY <1>5 DEF GetUpdates, HeldElsewhere, HeldBy, Resting, Sent, SharedIsExposed
<1>6. ASSUME NEW l \in Listeners, GetUpdatesConflicts(l) PROVE SharedIsExposed'
  BY <1>6 DEF GetUpdatesConflicts, Resting, Sent, SharedIsExposed
<1>7. ASSUME NEW l \in Listeners, Handled(l) PROVE SharedIsExposed'
  BY <1>7 DEF Handled, Current, OnceMore, OffsetAfter, Resting, Sent, SharedIsExposed
<1>8. ASSUME NEW p \in Webs, NEW u \in Updates, Post(p, u) PROVE SharedIsExposed'
  <2> p \in Procs
    OBVIOUS
  <2>1. /\ \A l \in Listeners : u \in listener[l].batch => u \in exposed'
        /\ \A q \in Webs \ {p} : <<q, u>> \in posting => u \in exposed'
    <3>1. ASSUME NEW l \in Listeners, u \in listener[l].batch PROVE u \in exposed'
      <4>1. u \in HeldBy(l)
        BY <3>1 DEF HeldBy
      <4>2. l # Ready(p) => u \in HeldElsewhere(Ready(p))
        BY <4>1 DEF HeldElsewhere
      <4> QED
        BY <1>8, <4>1, <4>2 DEF Post
    <3>2. ASSUME NEW q \in Webs, <<q, u>> \in posting PROVE u \in exposed'
      <4>1. <<q, u>>[2] = u
        OBVIOUS
      <4>2. u \in {x[2] : x \in posting}
        BY <3>2, <4>1
      <4>3. u \in HeldElsewhere(Ready(p))
        BY <4>2 DEF HeldElsewhere
      <4> QED
        BY <1>8, <4>3 DEF Post
    <3> QED
      BY <3>1, <3>2
  <2>2. /\ posting' = posting \cup {<<p, u>>} /\ exposed \subseteq exposed'
        /\ UNCHANGED listener
    BY <1>8 DEF Post
  <2> QED
    BY <2>1, <2>2 DEF SharedIsExposed
<1>9. ASSUME NEW p \in Webs, NEW u \in Updates, NEW received \in BOOLEAN, Answer(p, u, received) PROVE SharedIsExposed'
  BY <1>9 DEF Answer, OnceMore, Resting, Sent, SharedIsExposed
<1>10. ASSUME NEW p \in Procs, CrashListener(p) PROVE SharedIsExposed'
  BY <1>10 DEF CrashListener, Down, HeldBy, Resting, Sent, SharedIsExposed
<1> QED
  BY <1>1, <1>2, <1>3, <1>4, <1>5, <1>6, <1>7, <1>8, <1>9, <1>10 DEF DeliveryNext, Polls

LEMMA DoneIsKnownNext == DeliveryInv /\ DeliveryNext => DoneIsKnown'
<1> SUFFICES ASSUME DeliveryInv, DeliveryNext PROVE DoneIsKnown'
  OBVIOUS
<1> USE DeliveryConstants, Places DEF Updates, DeliveryInv, DeliveryTypeOK, Listener
<1>1. ASSUME Arrive PROVE DoneIsKnown'
  BY <1>1 DEF Arrive, Resting, Sent, SharedIsExposed, DoneIsKnown
<1>2. ASSUME NEW p \in Procs, StartListener(p) PROVE DoneIsKnown'
  <2>1. PICK at \in {"web", "standby", "clear"} :
          listener' = [listener EXCEPT ![Ready(p)] = [pc |-> at, offset |-> 0, batch |-> {}]]
    BY <1>2, Started
  <2>2. /\ webhook' \in {webhook, TRUE, configured \/ webhook}
        /\ UNCHANGED <<configured, arrived, acked, posting, done, crashes, exposed>>
    BY <1>2, Started
  <2>3. listener[Ready(p)].offset = 0
    BY <1>2, Started DEF Resting
  <2> QED
    BY <2>1, <2>2, <2>3 DEF Sent, SharedIsExposed, DoneIsKnown
<1>3. ASSUME NEW c \in Commands, StartCommand(c) PROVE DoneIsKnown'
  BY <1>3 DEF StartCommand, To, Down, Running, Resting, Sent, SharedIsExposed, DoneIsKnown
<1>4. ASSUME NEW l \in Listeners, ClearWebhook(l) PROVE DoneIsKnown'
  BY <1>4 DEF ClearWebhook, To, Down, Resting, Sent, SharedIsExposed, DoneIsKnown
<1>5. ASSUME NEW l \in Listeners, GetUpdates(l) PROVE DoneIsKnown'
  BY <1>5 DEF GetUpdates, HeldElsewhere, HeldBy, Resting, Sent, SharedIsExposed, DoneIsKnown
<1>6. ASSUME NEW l \in Listeners, GetUpdatesConflicts(l) PROVE DoneIsKnown'
  BY <1>6 DEF GetUpdatesConflicts, Resting, Sent, SharedIsExposed, DoneIsKnown
<1>7. ASSUME NEW l \in Listeners, Handled(l) PROVE DoneIsKnown'
  BY <1>7 DEF Handled, Current, OnceMore, OffsetAfter, Resting, Sent, SharedIsExposed, DoneIsKnown
<1>8. ASSUME NEW p \in Webs, NEW u \in Updates, Post(p, u) PROVE DoneIsKnown'
  <2>1. /\ posting' = posting \cup {<<p, u>>} /\ exposed \subseteq exposed'
        /\ UNCHANGED <<listener, done, acked>> /\ u \notin acked /\ u \in 1..arrived
    BY <1>8 DEF Post
  <2>2. ASSUME NEW l \in Listeners, u < listener[l].offset PROVE u \in exposed'
    <3>1. u \in HeldBy(l)
      BY <2>1, <2>2 DEF HeldBy
    <3>2. l # Ready(p) => u \in HeldElsewhere(Ready(p))
      BY <3>1 DEF HeldElsewhere
    <3> QED
      BY <1>8, <3>1, <3>2 DEF Post
  <2>3. done[u] > 0 => u \in exposed'
    BY <2>1, <2>2 DEF DoneIsKnown
  <2> QED
    BY <2>1, <2>3 DEF DoneIsKnown
<1>9. ASSUME NEW p \in Webs, NEW u \in Updates, NEW received \in BOOLEAN, Answer(p, u, received) PROVE DoneIsKnown'
  BY <1>9 DEF Answer, OnceMore, Resting, Sent, SharedIsExposed, DoneIsKnown
<1>10. ASSUME NEW p \in Procs, CrashListener(p) PROVE DoneIsKnown'
  BY <1>10 DEF CrashListener, Down, HeldBy, Resting, Sent, SharedIsExposed, DoneIsKnown
<1> QED
  BY <1>1, <1>2, <1>3, <1>4, <1>5, <1>6, <1>7, <1>8, <1>9, <1>10 DEF DeliveryNext, Polls

-----------------------------------------------------------------------------
LEMMA DeliveryInvInit == DeliveryInit => DeliveryInv
<1> SUFFICES ASSUME DeliveryInit PROVE DeliveryInv
  OBVIOUS
<1> USE DeliveryConstants DEF DeliveryInit, Updates, Down
<1>1. DeliveryTypeOK
  <2>1. Down \in Listener
    BY DEF Listener
  <2>2. listener \in [Listeners -> Listener]
    BY <2>1
  <2>3. done \in [Updates -> 0..2]
    OBVIOUS
  <2>4. arrived \in 0..MaxUpdate /\ crashes \in Nat
    OBVIOUS
  <2> QED
    BY <2>2, <2>3, <2>4 DEF DeliveryTypeOK
<1>2. Resting /\ Sent
  BY DEF Resting, Sent
<1>3. PassedIsDone /\ SharedIsExposed /\ DoneIsKnown
  BY DEF PassedIsDone, SharedIsExposed, DoneIsKnown
<1> QED
  BY <1>1, <1>2, <1>3 DEF DeliveryInv

LEMMA DeliveryInvNext == DeliveryInv /\ [DeliveryNext]_delivery => DeliveryInv'
<1>1. DeliveryInv /\ DeliveryNext => DeliveryInv'
  BY DeliveryTypeNext, RestingNext, SentNext, PassedIsDoneNext,
     SharedIsExposedNext, DoneIsKnownNext DEF DeliveryInv
<1>2. DeliveryInv /\ UNCHANGED delivery => DeliveryInv'
  BY DEF DeliveryInv, delivery, DeliveryTypeOK, Resting, Sent, PassedIsDone,
         SharedIsExposed, DoneIsKnown
<1> QED
  BY <1>1, <1>2

(* What processes know about updates holds in every state, for any number of *)
(* pollers, web processes and crashes.                                       *)
THEOREM DeliveryInvariant == DeliverySpec => []DeliveryInv
  BY DeliveryInvInit, DeliveryInvNext, PTL DEF DeliverySpec

-----------------------------------------------------------------------------
(* The steps of TelegramDelivery as steps of UpdateQueue.                    *)

LEMMA QueueFinish ==
  ASSUME DeliveryInv, NEW l \in Listeners, Handled(l)
  PROVE  \E u \in Updates : Queue!Finish(u)
<1> USE DEF Updates, DeliveryInv
<1>1. PICK u \in Updates : u \in listener[l].batch /\ OnceMore(u)
  BY DEF Handled, Current
<1>2. UNCHANGED <<arrived, acked, exposed>>
  BY DEF Handled
<1>3. u \in 1..arrived
  BY <1>1 DEF Sent
<1>4. done[u] \in 0..2
  BY <1>1 DEF DeliveryTypeOK
<1>5. u \in exposed \/ done[u] = 0
  <2>1. done[u] > 0 => u \in exposed
    BY <1>1 DEF DoneIsKnown
  <2> QED
    BY <1>4, <2>1
<1> QED
  BY <1>1, <1>2, <1>3, <1>5 DEF Queue!Finish, OnceMore

LEMMA QueueAnswer ==
  ASSUME DeliveryInv, NEW p \in Webs, NEW u \in Updates, NEW received \in BOOLEAN,
         Answer(p, u, received)
  PROVE  Queue!Finish(u)
<1> USE DEF Updates, DeliveryInv
<1>1. u \in 1..arrived /\ (done[u] > 0 => u \in exposed) /\ done[u] \in Nat
  BY DEF Answer, Sent, DoneIsKnown, DeliveryTypeOK, Procs
<1> QED
  BY <1>1 DEF Answer, Queue!Finish, OnceMore

LEMMA QueueRedeliver ==
  ASSUME DeliveryInv,
         \/ \E p \in Procs : StartListener(p) \/ CrashListener(p)
         \/ \E c \in Commands : StartCommand(c)
         \/ \E l \in Listeners : Polls(l)
         \/ \E p \in Webs, u \in Updates : Post(p, u)
  PROVE  Queue!Redeliver \/ UNCHANGED Queue!queue
<1> USE DEF Updates, DeliveryInv, Queue!Redeliver, Queue!queue
<1>1. \A u \in acked : done[u] > 0
  BY DEF PassedIsDone
<1>2. ASSUME NEW p \in Procs, StartListener(p) PROVE UNCHANGED Queue!queue
  BY <1>2 DEF StartListener
<1>3. ASSUME NEW c \in Commands, StartCommand(c) PROVE UNCHANGED Queue!queue
  BY <1>3 DEF StartCommand
<1>4. ASSUME NEW l \in Listeners, ClearWebhook(l) PROVE UNCHANGED Queue!queue
  BY <1>4 DEF ClearWebhook
<1>5. ASSUME NEW l \in Listeners, GetUpdates(l) PROVE Queue!Redeliver
  BY <1>1, <1>5 DEF GetUpdates, PassedIsDone
<1>6. ASSUME NEW l \in Listeners, GetUpdatesConflicts(l) PROVE UNCHANGED Queue!queue
  BY <1>6 DEF GetUpdatesConflicts
<1>7. ASSUME NEW p \in Webs, NEW u \in Updates, Post(p, u) PROVE Queue!Redeliver
  BY <1>1, <1>7 DEF Post
<1>8. ASSUME NEW p \in Procs, CrashListener(p) PROVE Queue!Redeliver
  BY <1>1, <1>8 DEF CrashListener
<1> QED
  BY <1>2, <1>3, <1>4, <1>5, <1>6, <1>7, <1>8 DEF Polls

LEMMA QueueStep ==
  DeliveryInv /\ [DeliveryNext]_delivery => [Queue!QueueNext]_(Queue!queue)
<1> SUFFICES ASSUME DeliveryInv, [DeliveryNext]_delivery
             PROVE  Queue!QueueNext \/ UNCHANGED Queue!queue
  OBVIOUS
<1> USE DEF Queue!QueueNext
<1>1. CASE Arrive
  BY <1>1, DeliveryConstants
     DEF Arrive, Queue!Arrive, Updates, DeliveryInv, DeliveryTypeOK
<1>2. ASSUME NEW l \in Listeners, Handled(l) PROVE Queue!QueueNext
  BY <1>2, QueueFinish
<1>3. CASE \/ \E p \in Procs : StartListener(p) \/ CrashListener(p)
           \/ \E c \in Commands : StartCommand(c)
           \/ \E l \in Listeners : Polls(l)
           \/ \E p \in Webs, u \in Updates : Post(p, u)
  BY <1>3, QueueRedeliver
<1>4. ASSUME NEW p \in Webs, NEW u \in Updates, NEW received \in BOOLEAN,
             Answer(p, u, received)
      PROVE  Queue!QueueNext
  BY <1>4, QueueAnswer
<1>5. CASE UNCHANGED delivery
  BY <1>5 DEF delivery, Queue!queue
<1> QED
  BY <1>1, <1>2, <1>3, <1>4, <1>5 DEF DeliveryNext

(* Webhook and poll loops, however many and however they crash and take over *)
(* from each other, are the queue of UpdateQueue: an update is dropped only  *)
(* after it was handled, and handled again only if delivered again.          *)
THEOREM DeliveryIsQueue == DeliverySpec => QueueSpec
<1>1. DeliveryInit => Queue!QueueInit
  BY DEF DeliveryInit, Queue!QueueInit
<1> QED
  BY <1>1, QueueStep, DeliveryInvariant, PTL DEF DeliverySpec, QueueSpec, Queue!QueueSpec

-----------------------------------------------------------------------------
(* Every step but the end of a command leaves a poller, the webhook or a web *)
(* process that is about to start, if there was one.                         *)
LEMMA DesertionNext ==
  ASSUME DeliveryTypeOK, [DeliveryNext]_delivery, Deserted', ~ Deserted
  PROVE  \E c \in Commands : CrashListener(c)
<1> USE Places DEF DeliveryTypeOK, Deserted, Polling, Running
<1>1. ASSUME NEW p \in Procs, StartListener(p) PROVE FALSE
  <2>1. listener[Ready(p)].pc = "down"
    BY <1>1, Started
  <2>2. CASE To(Ready(p), "standby") /\ LockHeld
    <3>1. PICK q \in Procs : Polling(Ready(q))
      BY <2>2 DEF LockHeld
    <3>2. Ready(q) # Ready(p)
      BY <2>1, <3>1
    <3>3. listener'[Ready(q)] = listener[Ready(q)]
      BY <2>2, <3>2 DEF To
    <3> QED
      BY <3>1, <3>3
  <2>3. CASE To(Ready(p), "clear")
    BY <2>3 DEF To, Down
  <2> QED
    BY <1>1, <2>2, <2>3 DEF StartListener
<1>2. ASSUME NEW c \in Commands, StartCommand(c) PROVE FALSE
  BY <1>2 DEF StartCommand, To, Down
<1>3. ASSUME NEW l \in Listeners, ClearWebhook(l) PROVE FALSE
  BY <1>3 DEF ClearWebhook, To, Down
<1>4. ASSUME NEW l \in Listeners, GetUpdates(l) \/ GetUpdatesConflicts(l) PROVE FALSE
  <2>1. ASSUME GetUpdatesConflicts(l) PROVE FALSE
    BY <2>1 DEF GetUpdatesConflicts
  <2>2. ASSUME GetUpdates(l) PROVE FALSE
    BY <2>2 DEF GetUpdates, Listener
  <2> QED
    BY <1>4, <2>1, <2>2
<1>5. ASSUME NEW l \in Listeners, Handled(l) PROVE FALSE
  BY <1>5 DEF Handled
<1>6. ASSUME NEW p \in Webs, CrashListener(p) PROVE FALSE
  BY <1>6 DEF CrashListener, Down
<1>7. CASE \/ Arrive \/ \E p \in Webs, u \in Updates : Post(p, u)
           \/ \E p \in Webs, u \in Updates, received \in BOOLEAN : Answer(p, u, received)
           \/ UNCHANGED delivery
  BY <1>7 DEF Arrive, Post, Answer, delivery
<1> QED
  BY <1>1, <1>2, <1>3, <1>4, <1>5, <1>6, <1>7 DEF DeliveryNext, Polls, Procs

(* DesertedByCommand: the bot is left with neither poller nor webhook by the *)
(* end of a command's process only, whichever processes hold the lock,       *)
(* register the webhook or remove it.                                        *)
THEOREM OnlyCommandsDesert == DeliverySpec => DesertedByCommand
<1>1. DeliveryTypeOK /\ [DeliveryNext]_delivery =>
        [Deserted' /\ ~ Deserted => \E c \in Commands : CrashListener(c)]_delivery
  BY DesertionNext
<1>2. DeliveryInv => DeliveryTypeOK
  BY DEF DeliveryInv
<1> QED
  BY <1>1, <1>2, DeliveryInvariant, PTL DEF DeliverySpec, DesertedByCommand

-----------------------------------------------------------------------------
(* The links of TelegramLink.                                                *)

(* LinkedByConsent is about active rows, and the token is erased when a row  *)
(* becomes active: before that, every request in flight and every pending    *)
(* row carries a token that was issued for it, and a user has one row, so    *)
(* that confirming it does not overwrite the tap of another.                 *)
RequestsAreIssued ==
  /\ \A t \in starting : t.pc = "asked" =>
       [user |-> t.user, chat |-> t.chat, token |-> t.token] \in issued
  /\ \A l \in links : l.status = "PENDING" =>
       [user |-> l.user, chat |-> l.chat, token |-> l.token] \in issued

OneRowPerUser == \A l, m \in links : l.user = m.user => l = m

(* The rows a request will delete stay pending under its lock; its own user  *)
(* is linked only behind its back.                                           *)
StartsKnow ==
  \A t \in starting, l \in links : l.status = "ACTIVE" =>
    /\ l.user \notin t.evicts
    /\ l.user = t.user => t.user \in raced

LinkInv == TypeOK /\ RequestsAreIssued /\ OneRowPerUser /\ StartsKnow /\ LinkedByConsent

-----------------------------------------------------------------------------
LEMMA TypeNext == TypeOK /\ [Next]_vars => TypeOK'
<1> SUFFICES ASSUME TypeOK, [Next]_vars PROVE TypeOK'
  OBVIOUS
<1> USE DEF TypeOK, Request, Link, Start
<1>1. ASSUME NEW r \in Requests, NEW u \in Users, NEW c \in Chats, StartRead(r, u, c)
      PROVE  TypeOK'
  BY <1>1 DEF StartRead
<1>2. ASSUME NEW t \in starting, StartAsk(t) PROVE TypeOK'
  <2>1. lastToken' \in Nat /\ t \in Start
    BY <1>2 DEF StartAsk
  <2>2. [t EXCEPT !.pc = "asked", !.token = lastToken'] \in Start
    BY <2>1
  <2>3. [user |-> t.user, chat |-> t.chat, token |-> lastToken'] \in Request
    BY <2>1
  <2> QED
    BY <1>2, <2>1, <2>2, <2>3 DEF StartAsk
<1>3. ASSUME NEW t \in starting, StartCommit(t) PROVE TypeOK'
  BY <1>3 DEF StartCommit
<1>4. ASSUME NEW t \in starting, StartAbort(t) PROVE TypeOK'
  BY <1>4 DEF StartAbort
<1>5. ASSUME NEW c \in Chats, NEW k \in 1..lastToken, ConfirmLink(c, k) PROVE TypeOK'
  <2>1. PICK l \in links :
          /\ links' = (links \ {l}) \cup {[l EXCEPT !.status = "ACTIVE", !.token = 0]}
          /\ tap' = [tap EXCEPT ![l.user] = {<<c, k>>}]
          /\ raced' = raced \cup {t.user : t \in {s \in starting : s.user = l.user}}
          /\ UNCHANGED <<starting, lastToken, issued, expired>>
    BY <1>5 DEF ConfirmLink, Pending
  <2>2. [l EXCEPT !.status = "ACTIVE", !.token = 0] \in Link
    OBVIOUS
  <2>3. {<<c, k>>} \in SUBSET (Chats \X Nat)
    OBVIOUS
  <2> QED
    BY <2>1, <2>2, <2>3
<1>6. ASSUME NEW c \in Chats, NEW k \in 1..lastToken, CancelPendingLink(c, k)
      PROVE  TypeOK'
  BY <1>6 DEF CancelPendingLink
<1>7. ASSUME NEW u \in Users, Unlink(u) PROVE TypeOK'
  BY <1>7 DEF Unlink
<1>8. ASSUME NEW k \in (1..lastToken) \ expired, Expire(k) PROVE TypeOK'
  BY <1>8 DEF Expire
<1>9. CASE UNCHANGED vars
  BY <1>9 DEF vars
<1> QED
  BY <1>1, <1>2, <1>3, <1>4, <1>5, <1>6, <1>7, <1>8, <1>9 DEF Next

LEMMA InvNext == LinkInv /\ [Next]_vars => LinkInv'
<1> SUFFICES ASSUME LinkInv, [Next]_vars PROVE LinkInv'
  OBVIOUS
<1> DEFINE Rest == RequestsAreIssued /\ OneRowPerUser /\ StartsKnow /\ LinkedByConsent
<1> USE DEF LinkInv, TypeOK, Request, Link, Start
<1>1. ASSUME NEW r \in Requests, NEW u \in Users, NEW c \in Chats, StartRead(r, u, c)
      PROVE  Rest'
  <2>1. RequestsAreIssued' /\ OneRowPerUser' /\ LinkedByConsent'
    BY <1>1 DEF StartRead, RequestsAreIssued, OneRowPerUser, LinkedByConsent
  <2>2. StartsKnow'
    BY <1>1 DEF StartRead, StartsKnow, NoneActive, Active, RowOf, OneRowPerUser
  <2> QED
    BY <2>1, <2>2
<1>2. ASSUME NEW t \in starting, StartAsk(t) PROVE Rest'
  <2> DEFINE asked == [t EXCEPT !.pc = "asked", !.token = lastToken']
  <2>1. /\ issued' = issued \cup {[user |-> t.user, chat |-> t.chat, token |-> lastToken']}
        /\ starting' = (starting \ {t}) \cup {asked}
        /\ UNCHANGED <<links, expired, tap, raced>>
    BY <1>2 DEF StartAsk
  <2>2. asked.user = t.user /\ asked.chat = t.chat /\ asked.token = lastToken'
        /\ asked.evicts = t.evicts
    OBVIOUS
  <2> HIDE DEF asked
  <2>3. RequestsAreIssued'
    BY <2>1, <2>2 DEF RequestsAreIssued
  <2>4. OneRowPerUser' /\ LinkedByConsent' /\ StartsKnow'
    BY <2>1, <2>2 DEF OneRowPerUser, StartsKnow, LinkedByConsent
  <2> QED
    BY <2>3, <2>4
<1>3. ASSUME NEW t \in starting, StartCommit(t) PROVE Rest'
  BY <1>3 DEF StartCommit, RequestsAreIssued, OneRowPerUser, StartsKnow, LinkedByConsent
<1>4. ASSUME NEW t \in starting, StartAbort(t) PROVE Rest'
  BY <1>4 DEF StartAbort, RequestsAreIssued, OneRowPerUser, StartsKnow, LinkedByConsent
<1>5. ASSUME NEW c \in Chats, NEW k \in 1..lastToken, ConfirmLink(c, k) PROVE Rest'
  <2>1. PICK l \in links :
          /\ l.chat = c /\ l.token = k /\ l.status = "PENDING"
          /\ ~ LockedBut(l.user, {})
          /\ links' = (links \ {l}) \cup {[l EXCEPT !.status = "ACTIVE", !.token = 0]}
          /\ tap' = [tap EXCEPT ![l.user] = {<<c, k>>}]
          /\ raced' = raced \cup {t.user : t \in {s \in starting : s.user = l.user}}
          /\ UNCHANGED <<starting, lastToken, issued, expired>>
    BY <1>5 DEF ConfirmLink, Pending
  <2>2. RequestsAreIssued' /\ OneRowPerUser'
    BY <2>1 DEF RequestsAreIssued, OneRowPerUser
  <2>3. StartsKnow'
    BY <2>1 DEF StartsKnow, LockedBut
  <2>4. LinkedByConsent'
    BY <2>1 DEF LinkedByConsent, RequestsAreIssued, OneRowPerUser
  <2> QED
    BY <2>2, <2>3, <2>4
<1>6. ASSUME NEW c \in Chats, NEW k \in 1..lastToken, CancelPendingLink(c, k) PROVE Rest'
  BY <1>6 DEF CancelPendingLink, RequestsAreIssued, OneRowPerUser, StartsKnow, LinkedByConsent
<1>7. ASSUME NEW u \in Users, Unlink(u) PROVE Rest'
  BY <1>7 DEF Unlink, RequestsAreIssued, OneRowPerUser, StartsKnow, LinkedByConsent
<1>8. ASSUME NEW k \in (1..lastToken) \ expired, Expire(k) PROVE Rest'
  BY <1>8 DEF Expire, RequestsAreIssued, OneRowPerUser, StartsKnow, LinkedByConsent
<1>9. CASE UNCHANGED vars
  BY <1>9 DEF vars, RequestsAreIssued, OneRowPerUser, StartsKnow, LinkedByConsent
<1>10. TypeOK'
  BY TypeNext
<1> QED
  BY <1>1, <1>2, <1>3, <1>4, <1>5, <1>6, <1>7, <1>8, <1>9, <1>10 DEF Next

LEMMA InvInit == Init => LinkInv
  BY DEF Init, LinkInv, TypeOK, Request, Link, Start, RequestsAreIssued,
         OneRowPerUser, StartsKnow, LinkedByConsent

LEMMA Invariant == Spec => []LinkInv
  BY InvInit, InvNext, PTL DEF Spec

(* Type correctness of the links.                                            *)
THEOREM TypeCorrect == Spec => []TypeOK
<1>1. LinkInv => TypeOK
  BY DEF LinkInv
<1> QED
  BY <1>1, Invariant, PTL

(* Whoever holds an active link asked for that chat, and somebody in that    *)
(* chat tapped the button sent for it, however requests cross.               *)
THEOREM ConsentOnBothSides == Spec => []LinkedByConsent
<1>1. LinkInv => LinkedByConsent
  BY DEF LinkInv
<1> QED
  BY <1>1, Invariant, PTL

-----------------------------------------------------------------------------
LEMMA KeptNext ==
  ASSUME LinkInv, Next, NEW l \in links, l.status = "ACTIVE", l.user \notin raced,
         l \notin links'
  PROVE  Unlink(l.user)
<1> USE DEF LinkInv, TypeOK, Request, Link, Start
<1>1. ASSUME NEW t \in starting, StartCommit(t) PROVE FALSE
  BY <1>1 DEF StartCommit, StartsKnow
<1>2. ASSUME NEW c \in Chats, NEW k \in 1..lastToken,
             ConfirmLink(c, k) \/ CancelPendingLink(c, k)
      PROVE  FALSE
  BY <1>2 DEF ConfirmLink, CancelPendingLink, Pending
<1>3. ASSUME NEW u \in Users, Unlink(u) PROVE Unlink(l.user)
  BY <1>3 DEF Unlink, RowOf
<1>4. \/ \E t \in starting : StartCommit(t)
      \/ \E c \in Chats, k \in 1..lastToken : ConfirmLink(c, k) \/ CancelPendingLink(c, k)
      \/ \E u \in Users : Unlink(u)
  BY DEF Next, StartRead, StartAsk, StartAbort, Expire
<1> QED
  BY <1>1, <1>2, <1>3, <1>4

(* An active link ends by its owner's unlink only, except where the row was  *)
(* confirmed while a request of the same user had read it as pending.        *)
THEOREM OwnersEndLinks == Spec => ActiveKept
<1>1. LinkInv /\ [Next]_vars =>
        [\A l \in links : l.status = "ACTIVE" /\ l.user \notin raced =>
           l \in links' \/ Unlink(l.user)]_vars
  BY KeptNext
<1> QED
  BY <1>1, Invariant, PTL DEF Spec, ActiveKept
=============================================================================
