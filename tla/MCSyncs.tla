------------------------------ MODULE MCSyncs ------------------------------
(***************************************************************************)
(* The liveness of the three syncs for TLC, one of them to a behaviour: the *)
(* scene.  The others stay in their initial states, where their properties  *)
(* ask for nothing.  The fairness is that of each component's own module.   *)
(* The fill index has its own names; CountedAreIndexed and                  *)
(* FollowedAreEvaluated are its properties.                                 *)
(***************************************************************************)
EXTENDS FillIndex

VARIABLES
  scene,
  tradable, trade, chain, indexed, imported, cached, confirm, import,
  sawRevert, early, doubled,
  clob, expired, row, lock, fresh, syncing, job, misses, crossed

CONSTANTS o1, c1, c2, s1, s2, none, m1, p1, p2, w1, w2, f1, t1, k1

Booking == INSTANCE TradeBooking WITH
  Orders <- {o1}, Confirmers <- {c1, c2}, Syncers <- {s1, s2}, NoOrder <- none,
  open <- tradable, sync <- import, overlapped <- doubled

Index == INSTANCE MarketIndex WITH
  Markets <- {m1}, Procs <- {p1, p2}, Web <- {w1, w2}, Workers <- {w2}, Pages <- {w1},
  Shared <- TRUE, MaxFail <- 1, failures <- misses

MCFills == {f1}
MCTraders == {t1}
MCTraderOf == [f \in MCFills |-> t1]
MCWeb == {w1}
MCWorkers == {k1}

booking == <<tradable, trade, chain, indexed, imported, cached, confirm, import,
             sawRevert, early, doubled>>
index == <<clob, expired, row, lock, fresh, syncing, job, misses, crossed>>
mcvars == <<scene, booking, index, vars>>

MCInit ==
  /\ scene \in {"booking", "index", "fills"}
  /\ Booking!Init /\ Index!Init /\ Init

InBooking == scene = "booking" /\ UNCHANGED <<scene, index, vars>>
InIndex == scene = "index" /\ UNCHANGED <<scene, booking, vars>>
InFills == scene = "fills" /\ UNCHANGED <<scene, booking, index>>

BookingStep == InBooking /\ Booking!Next
IndexStep == InIndex /\ Index!Next
FillsStep == InFills /\ Next

MCNext == BookingStep \/ IndexStep \/ FillsStep

(* A behaviour plays one scene, so a condition may hold one action of each.  *)
(* Of every component only one reader is held to go on: a syncer that may    *)
(* crash but does not always, the page that shows the market, the poll loop. *)
MCFairness ==
  /\ SF_mcvars(\/ InBooking /\ Booking!SyncFetch(s1)
               \/ InIndex /\ Index!FetchOne(w1, m1)
               \/ InFills /\ Begin(k1))
  /\ SF_mcvars(\/ InBooking /\ Booking!SyncRead(s1)
               \/ InIndex /\ Index!SaveOne(w1, m1))
  /\ SF_mcvars(\/ InBooking /\ Booking!SyncImport(s1, o1)
               \/ InIndex /\ Index!SyncStep(w1))
  /\ SF_mcvars(\/ InBooking /\ Booking!SyncFinish(s1)
               \/ InIndex /\ Index!SyncStep(w2))
  /\ WF_mcvars(\/ InBooking /\ Booking!CacheExpires
               \/ InIndex /\ Index!WaitOver(w1)
               \/ InFills /\ SyncStep(k1))

MCSpec == MCInit /\ [][MCNext]_mcvars /\ MCFairness

(* Every fill the indexer serves is booked (TradeBooking).                   *)
EveryFillBooked == Booking!EveryFillBooked

(* A market looked at again and again is settled in the index (MarketIndex). *)
ViewedMarketsSettle == Index!ViewedMarketsSettle
=============================================================================
