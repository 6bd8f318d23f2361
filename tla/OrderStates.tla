----------------------------- MODULE OrderStates -----------------------------
(***************************************************************************)
(* What a Trade row promises to whoever reads it, with requests, receipts   *)
(* and locks left out: it is offered for signing, it becomes CONFIRMED only *)
(* after its transaction was mined without reverting, and neither CONFIRMED *)
(* nor EXPIRED is ever left.                                                *)
(*                                                                          *)
(* TradeBooking.tla implements this module.                                 *)
(***************************************************************************)
CONSTANT Orders

VARIABLES state,    \* "new", "offered", "confirmed" or "expired"
          mined     \* orders whose transaction was mined without reverting

vars == <<state, mined>>

Init == /\ state = [o \in Orders |-> "new"]
        /\ mined = {}

Offer(o) == /\ state[o] = "new"
            /\ state' = [state EXCEPT ![o] = "offered"]
            /\ UNCHANGED mined

Mine(o) == /\ state[o] # "new"
           /\ mined' = mined \cup {o}
           /\ UNCHANGED state

Confirm(o) == /\ state[o] = "offered" /\ o \in mined
              /\ state' = [state EXCEPT ![o] = "confirmed"]
              /\ UNCHANGED mined

(* The clean-up ends any number of offers at once.                           *)
Expire(S) == /\ \A o \in S : state[o] = "offered"
             /\ state' = [o \in Orders |-> IF o \in S THEN "expired" ELSE state[o]]
             /\ UNCHANGED mined

Next == \/ \E o \in Orders : Offer(o) \/ Mine(o) \/ Confirm(o)
        \/ \E S \in SUBSET Orders : Expire(S)

Spec == Init /\ [][Next]_vars
=============================================================================
