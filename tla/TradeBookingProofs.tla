------------------------- MODULE TradeBookingProofs -------------------------
(***************************************************************************)
(* Proofs about TradeBooking for any number of orders, confirmations and    *)
(* imports.                                                                 *)
(***************************************************************************)
EXTENDS TradeBooking, TLAPS

LEMMA TypeInit == Init => TypeOK
<1> SUFFICES ASSUME Init PROVE TypeOK
  OBVIOUS
<1>1. IdleConfirm \in Confirm /\ IdleSync \in Sync
  BY DEF IdleConfirm, Confirm, IdleSync, Sync
<1> QED
  BY <1>1 DEF Init, TypeOK, ChainState

LEMMA OrderTypes ==
  ASSUME TypeOK, NEW o \in Orders, OrderStep(o)
  PROVE  TypeOK'
<1>1. CASE Prepare(o)
  BY <1>1 DEF Prepare, history, TypeOK, TradeStatus
<1>2. ASSUME NEW from, NEW to \in ChainState, Chain(o, from, to) PROVE TypeOK'
  BY <1>2 DEF Chain, history, TypeOK
<1>3. CASE Send(o) \/ Mine(o) \/ Match(o)
  BY <1>2, <1>3 DEF Send, Mine, Match, ChainState
<1>4. CASE Index(o)
  BY <1>4 DEF Index, history, TypeOK
<1> QED
  BY <1>1, <1>3, <1>4 DEF OrderStep

LEMMA ConfirmTypes ==
  ASSUME TypeOK, NEW c \in Confirmers, ConfirmStep(c)
  PROVE  TypeOK'
<1>1. ConfirmDone(c) => confirm' \in [Confirmers -> Confirm]
  BY DEF ConfirmDone, TypeOK, Confirm, IdleConfirm
<1>2. CASE \E o \in Orders : ConfirmStart(c, o)
  <2>1. confirm' \in [Confirmers -> Confirm]
    BY <1>2 DEF ConfirmStart, TypeOK, Confirm
  <2> QED
    BY <1>2, <2>1 DEF ConfirmStart, history, TypeOK
<1>3. CASE ConfirmSuccess(c)
  BY <1>1, <1>3 DEF ConfirmSuccess, history, TypeOK, TradeStatus
<1>4. CASE ConfirmReverted(c)
  <2>1. confirm[c].order \in Orders
    BY <1>4 DEF ConfirmReverted, TypeOK, Confirm
  <2> QED
    BY <1>1, <1>4, <2>1 DEF ConfirmReverted, TypeOK
<1>5. CASE ConfirmGivesUp(c)
  BY <1>1, <1>5 DEF ConfirmGivesUp, history, TypeOK
<1> QED
  BY <1>2, <1>3, <1>4, <1>5 DEF ConfirmStep

LEMMA SyncTypes ==
  ASSUME TypeOK, NEW s \in Syncers, SyncStep(s)
  PROVE  TypeOK'
<1>1. SyncDone(s) => sync' \in [Syncers -> Sync]
  BY DEF SyncDone, TypeOK, Sync, IdleSync
<1>2. CASE SyncFetch(s)
  <2>1. CASE indexed = {}
    BY <1>2, <2>1 DEF SyncFetch, history, TypeOK
  <2>2. CASE indexed # {}
    <3>1. sync' = [sync EXCEPT ![s] = [pc |-> "fetched", ok |-> TRUE, todo |-> indexed]]
      BY <1>2, <2>2 DEF SyncFetch
    <3>2. [pc |-> "fetched", ok |-> TRUE, todo |-> indexed] \in Sync
      BY DEF TypeOK, Sync
    <3> QED
      BY <1>2, <2>2, <3>1, <3>2 DEF SyncFetch, history, TypeOK
  <2> QED
    BY <2>1, <2>2
<1>3. CASE \E part \in SUBSET indexed : SyncFetchPart(s, part)
  <2>1. sync' \in [Syncers -> Sync]
    BY <1>3 DEF SyncFetchPart, TypeOK, Sync
  <2> QED
    BY <1>3, <2>1 DEF SyncFetchPart, history, TypeOK
<1>4. CASE SyncRead(s)
  <2> DEFINE new == (sync[s].todo \ ExistingExt) \ UiTx
  <2>1. new \subseteq Orders
    BY DEF TypeOK, Sync
  <2>2. /\ sync' = [sync EXCEPT ![s] = [@ EXCEPT !.pc = "import", !.todo = new]]
        /\ early' = early \cup {o \in new : trade[o] # "CONFIRMED"}
        /\ overlapped' \in BOOLEAN
    BY <1>4 DEF SyncRead
  <2> HIDE DEF new
  <2>3. sync' \in [Syncers -> Sync] /\ early' \subseteq Orders
    BY <2>1, <2>2 DEF TypeOK, Sync
  <2> QED
    BY <1>4, <2>2, <2>3 DEF SyncRead, TypeOK
<1>5. CASE \E o \in Orders : SyncImport(s, o)
  <2>1. PICK o \in Orders : SyncImport(s, o)
    BY <1>5
  <2>2. sync' \in [Syncers -> Sync]
    BY <2>1 DEF SyncImport, TypeOK, Sync
  <2>3. imported' \in [Orders -> Nat]
    BY <2>1 DEF SyncImport, TypeOK
  <2> QED
    BY <2>1, <2>2, <2>3 DEF SyncImport, history, TypeOK
<1>6. CASE SyncFinish(s)
  <2>1. sync[s].ok \in BOOLEAN
    BY DEF TypeOK, Sync
  <2> QED
    BY <1>1, <1>6, <2>1 DEF SyncFinish, history, TypeOK
<1>7. CASE SyncCrash(s)
  BY <1>1, <1>7 DEF SyncCrash, history, TypeOK
<1> QED
  BY <1>2, <1>3, <1>4, <1>5, <1>6, <1>7 DEF SyncStep

LEMMA TypeNext == TypeOK /\ [Next]_vars => TypeOK'
<1> SUFFICES ASSUME TypeOK, [Next]_vars PROVE TypeOK'
  OBVIOUS
<1>1. ASSUME NEW old \in SUBSET Orders, ExpireStale(old) PROVE TypeOK'
  BY <1>1 DEF ExpireStale, history, TypeOK, TradeStatus
<1>2. CASE Close \/ CacheExpires
  BY <1>2 DEF Close, CacheExpires, history, TypeOK
<1>3. CASE UNCHANGED vars
  BY <1>3 DEF vars, TypeOK
<1> QED
  BY <1>1, <1>2, <1>3, OrderTypes, ConfirmTypes, SyncTypes DEF Next

(* Type correctness of the booking of trades.                                *)
THEOREM TypeCorrect == Spec => []TypeOK
  BY TypeInit, TypeNext, PTL DEF Spec

-----------------------------------------------------------------------------
(* The row lock: while a confirmation waits for its receipt its row stays    *)
(* confirmable and no other confirmation holds it.                           *)

LockInv ==
  \A c \in Confirmers : confirm[c].pc = "waiting" =>
    /\ trade[confirm[c].order] \in Confirmable
    /\ chain[confirm[c].order] # "UNSENT"
    /\ \A d \in Confirmers : confirm[d].order = confirm[c].order => d = c

LEMMA LockedOrders ==
  ASSUME TypeOK, NEW c \in Confirmers, confirm[c].pc = "waiting"
  PROVE  confirm[c].order \in Locked /\ confirm[c].order \in Orders
  BY BookingConstants DEF TypeOK, Confirm, Locked

LEMMA LockInvNext == TypeOK /\ LockInv /\ [Next]_vars => LockInv'
<1> SUFFICES ASSUME TypeOK, LockInv, [Next]_vars PROVE LockInv'
  OBVIOUS
<1>1. ASSUME confirm' = confirm,
             \A c \in Confirmers : confirm[c].pc = "waiting" =>
               /\ trade'[confirm[c].order] = trade[confirm[c].order]
               /\ chain'[confirm[c].order] # "UNSENT"
      PROVE  LockInv'
  BY <1>1 DEF LockInv
<1>2. ASSUME confirm' = confirm, trade' = trade, chain' = chain PROVE LockInv'
  BY <1>2 DEF LockInv
<1>3. ASSUME NEW o \in Orders, OrderStep(o) PROVE LockInv'
  <2>1. CASE Prepare(o)
    BY <1>1, <2>1, LockedOrders DEF Prepare, LockInv, Confirmable, TypeOK
  <2>2. ASSUME NEW from, NEW to \in ChainState \ {"UNSENT"}, Chain(o, from, to)
        PROVE  LockInv'
    BY <1>1, <2>2, LockedOrders DEF Chain, LockInv, TypeOK
  <2>3. CASE Send(o) \/ Mine(o) \/ Match(o)
    BY <2>2, <2>3 DEF Send, Mine, Match, ChainState
  <2>4. CASE Index(o)
    BY <1>2, <2>4 DEF Index
  <2> QED
    BY <1>3, <2>1, <2>3, <2>4 DEF OrderStep
<1>4. ASSUME NEW c \in Confirmers, ConfirmStep(c) PROVE LockInv'
  <2>1. ASSUME NEW o \in Orders, ConfirmStart(c, o) PROVE LockInv'
    <3>1. /\ confirm'[c] = [pc |-> "waiting", order |-> o]
          /\ \A d \in Confirmers : d # c => confirm'[d] = confirm[d]
      BY <2>1 DEF ConfirmStart, TypeOK
    <3>2. \A d \in Confirmers : confirm[d].order # o
      BY <2>1, BookingConstants DEF ConfirmStart, Locked
    <3> QED
      BY <2>1, <3>1, <3>2 DEF ConfirmStart, LockInv, Confirmable
  <2>2. ASSUME ConfirmDone(c)
        PROVE  /\ confirm'[c] = IdleConfirm
               /\ \A d \in Confirmers : d # c => confirm'[d] = confirm[d]
    BY <2>2 DEF ConfirmDone, TypeOK
  <2>3. CASE ConfirmSuccess(c)
    <3>1. \A d \in Confirmers : d # c /\ confirm[d].pc = "waiting" =>
            trade'[confirm[d].order] = trade[confirm[d].order]
      BY <2>3, LockedOrders DEF ConfirmSuccess, LockInv, TypeOK
    <3>2. chain' = chain /\ ConfirmDone(c)
      BY <2>3 DEF ConfirmSuccess
    <3> QED
      BY <2>2, <3>1, <3>2, LockedOrders, BookingConstants
         DEF LockInv, IdleConfirm
  <2>4. CASE ConfirmReverted(c) \/ ConfirmGivesUp(c)
    BY <2>2, <2>4, LockedOrders, BookingConstants
       DEF ConfirmReverted, ConfirmGivesUp, history, LockInv, IdleConfirm
  <2> QED
    BY <1>4, <2>1, <2>3, <2>4 DEF ConfirmStep
<1>5. ASSUME NEW s \in Syncers, SyncStep(s) PROVE LockInv'
  BY <1>2, <1>5 DEF SyncStep, SyncFetch, SyncFetchPart, SyncRead, SyncImport,
                    SyncFinish, SyncCrash
<1>6. ASSUME NEW old \in SUBSET Orders, ExpireStale(old) PROVE LockInv'
  BY <1>1, <1>6, LockedOrders DEF ExpireStale, LockInv
<1>7. CASE Close \/ CacheExpires \/ UNCHANGED vars
  BY <1>2, <1>7 DEF Close, CacheExpires, vars
<1> QED
  BY <1>3, <1>4, <1>5, <1>6, <1>7 DEF Next

LEMMA LockInvInit == Init => LockInv
  BY DEF Init, LockInv, IdleConfirm

(* No transaction is sent before its row was committed.                      *)
SentInv == \A o \in Orders : chain[o] # "UNSENT" => trade[o] # "ABSENT"

LEMMA SentInvNext == TypeOK /\ LockInv /\ SentInv /\ [Next]_vars => SentInv'
<1> SUFFICES ASSUME TypeOK, LockInv, SentInv, [Next]_vars PROVE SentInv'
  OBVIOUS
<1>1. ASSUME trade' = trade, chain' = chain PROVE SentInv'
  BY <1>1 DEF SentInv
<1>2. ASSUME NEW o \in Orders, OrderStep(o) PROVE SentInv'
  BY <1>1, <1>2 DEF OrderStep, Prepare, Send, Mine, Match, Index, Chain, SentInv,
                    TypeOK
<1>3. ASSUME NEW c \in Confirmers, ConfirmStep(c) PROVE SentInv'
  <2>1. CASE ConfirmSuccess(c)
    BY <2>1, LockedOrders DEF ConfirmSuccess, SentInv, TypeOK
  <2> QED
    BY <1>1, <1>3, <2>1 DEF ConfirmStep, ConfirmStart, ConfirmReverted,
                            ConfirmGivesUp
<1>4. ASSUME NEW s \in Syncers, SyncStep(s) PROVE SentInv'
  BY <1>1, <1>4 DEF SyncStep, SyncFetch, SyncFetchPart, SyncRead, SyncImport,
                    SyncFinish, SyncCrash
<1>5. ASSUME NEW old \in SUBSET Orders, ExpireStale(old) PROVE SentInv'
  BY <1>5 DEF ExpireStale, SentInv
<1>6. CASE Close \/ CacheExpires \/ UNCHANGED vars
  BY <1>1, <1>6 DEF Close, CacheExpires, vars
<1> QED
  BY <1>2, <1>3, <1>4, <1>5, <1>6 DEF Next

-----------------------------------------------------------------------------
(* Refinement: each action is the one of OrderStates it stands for, or a     *)
(* stutter.                                                                  *)

LEMMA OtherStutters ==
  ASSUME trade' = trade, chain' = chain
  PROVE  UNCHANGED States!vars
  BY DEF States!vars, OrderState

LEMMA StatesStep ==
  TypeOK /\ LockInv /\ SentInv /\ [Next]_vars => [States!Next]_(States!vars)
<1> SUFFICES ASSUME TypeOK, LockInv, SentInv, [Next]_vars
             PROVE  [States!Next]_(States!vars)
  OBVIOUS
<1> DEFINE stateOf == [o \in Orders |-> OrderState(o)]
           minedSet == {o \in Orders : chain[o] \in Succeeded}
<1>0. ASSUME NEW o \in Orders, NEW value, trade' = [trade EXCEPT ![o] = value]
      PROVE  stateOf' = [stateOf EXCEPT ![o] = OrderState(o)']
  BY <1>0 DEF OrderState, TypeOK
<1>1. ASSUME NEW o \in Orders, OrderStep(o) PROVE [States!Next]_(States!vars)
  <2>1. CASE Prepare(o)
    <3>1. OrderState(o) = "new" /\ OrderState(o)' = "offered"
      BY <2>1 DEF Prepare, OrderState, TypeOK
    <3>2. stateOf' = [stateOf EXCEPT ![o] = "offered"] /\ minedSet' = minedSet
      BY <1>0, <2>1, <3>1 DEF Prepare
    <3> QED
      BY <3>1, <3>2 DEF States!Next, States!Offer
  <2>2. CASE Send(o)
    <3>1. trade' = trade /\ chain' = [chain EXCEPT ![o] = "PENDING"]
          /\ chain[o] = "UNSENT"
      BY <2>2 DEF Send, Chain
    <3>2. stateOf' = stateOf /\ minedSet' = minedSet
      BY <3>1 DEF OrderState, Succeeded, TypeOK
    <3> QED
      BY <3>2 DEF States!vars
  <2>3. CASE Index(o)
    BY <2>3, OtherStutters DEF Index
  <2>4. CASE Mine(o)
    <3>1. PICK to \in {"TAKEN", "RESTING", "REVERTED"} :
            /\ trade' = trade /\ chain' = [chain EXCEPT ![o] = to]
            /\ chain[o] = "PENDING"
      BY <2>4 DEF Mine, Chain
    <3>2. stateOf' = stateOf
      BY <3>1 DEF OrderState
    <3>3. CASE to = "REVERTED"
      BY <3>1, <3>2, <3>3 DEF States!vars, Succeeded, TypeOK
    <3>4. CASE to # "REVERTED"
      <4>1. minedSet' = minedSet \cup {o}
        BY <3>1, <3>4 DEF Succeeded, TypeOK
      <4>2. stateOf[o] # "new"
        BY <3>1 DEF OrderState, SentInv
      <4> QED
        BY <3>2, <4>1, <4>2 DEF States!Next, States!Mine
    <3> QED
      BY <3>3, <3>4
  <2>5. CASE Match(o)
    BY <2>5 DEF Match, Chain, States!vars, OrderState, Succeeded, TypeOK
  <2> QED
    BY <1>1, <2>1, <2>2, <2>3, <2>4, <2>5 DEF OrderStep
<1>2. ASSUME NEW c \in Confirmers, ConfirmStep(c) PROVE [States!Next]_(States!vars)
  <2>1. CASE ConfirmSuccess(c)
    <3>1. PICK o \in Orders : /\ chain[o] \in Succeeded /\ chain' = chain
                              /\ trade' = [trade EXCEPT ![o] = "CONFIRMED"]
                              /\ trade[o] \in Confirmable
      BY <2>1, LockedOrders DEF ConfirmSuccess, LockInv
    <3>2. OrderState(o) = "offered" /\ OrderState(o)' = "confirmed"
      BY <3>1 DEF OrderState, Confirmable, TypeOK
    <3>3. stateOf' = [stateOf EXCEPT ![o] = "confirmed"]
      <4>1. stateOf' = [stateOf EXCEPT ![o] = OrderState(o)']
        BY <1>0, <3>1
      <4> QED
        BY <3>2, <4>1
    <3>4. stateOf[o] = "offered" /\ o \in minedSet /\ minedSet' = minedSet
      BY <3>1, <3>2
    <3> QED
      BY <3>1, <3>3, <3>4 DEF States!Next, States!Confirm
  <2> QED
    BY <1>2, <2>1, OtherStutters
       DEF ConfirmStep, ConfirmStart, ConfirmReverted, ConfirmGivesUp
<1>3. ASSUME NEW s \in Syncers, SyncStep(s) PROVE [States!Next]_(States!vars)
  BY <1>3, OtherStutters DEF SyncStep, SyncFetch, SyncFetchPart, SyncRead,
                             SyncImport, SyncFinish, SyncCrash
<1>4. ASSUME NEW old \in SUBSET Orders, ExpireStale(old)
      PROVE  [States!Next]_(States!vars)
  <2>1. /\ \A o \in old : stateOf[o] = "offered"
        /\ minedSet' = minedSet
    BY <1>4 DEF ExpireStale, OrderState
  <2>2. stateOf' = [o \in Orders |-> IF o \in old THEN "expired" ELSE stateOf[o]]
    BY <1>4 DEF ExpireStale, OrderState
  <2> QED
    BY <2>1, <2>2 DEF States!Next, States!Expire
<1>5. CASE Close \/ CacheExpires \/ UNCHANGED vars
  BY <1>5, OtherStutters DEF Close, CacheExpires, vars
<1> QED
  BY <1>1, <1>2, <1>3, <1>4, <1>5 DEF Next

(* However confirmations, clean-ups and imports interleave, a Trade row goes *)
(* through the states the design gives it: TradeBooking implements           *)
(* OrderStates.                                                              *)
THEOREM ImplementsOrderStates == Spec => OrderStatesSpec
<1>1. Init => TypeOK /\ LockInv /\ SentInv /\ States!Init
  BY TypeInit, LockInvInit
     DEF Init, SentInv, States!Init, OrderState, Succeeded
<1>2. TypeOK /\ LockInv /\ SentInv /\ [Next]_vars => (TypeOK /\ LockInv /\ SentInv)'
  BY TypeNext, LockInvNext, SentInvNext
<1> QED
  BY <1>1, <1>2, StatesStep, PTL DEF Spec, OrderStatesSpec, States!Spec

-----------------------------------------------------------------------------
(* Why a confirmed order can count twice.  The invariant says in addition    *)
(* that an import works on indexed fills only and that every fill it is      *)
(* still to import, or has imported, has one of the two causes.              *)

Due(o) == \/ imported[o] > 0
          \/ \E s \in Syncers : sync[s].pc = "import" /\ o \in sync[s].todo

CauseInv ==
  /\ \A o \in indexed : chain[o] \in {"TAKEN", "MADE"}
  /\ \A s \in Syncers : sync[s].todo \subseteq indexed
  /\ \A o \in Orders : Due(o) => o \in early \/ chain[o] = "MADE"

LEMMA CauseInvNext == TypeOK /\ CauseInv /\ [Next]_vars => CauseInv'
<1> SUFFICES ASSUME TypeOK, CauseInv, [Next]_vars PROVE CauseInv'
  OBVIOUS
<1>1. ASSUME chain' = chain, indexed' = indexed, imported' = imported,
             sync' = sync, early' = early
      PROVE  CauseInv'
  BY <1>1 DEF CauseInv, Due
<1>2. ASSUME NEW o \in Orders, OrderStep(o) PROVE CauseInv'
  <2>1. CASE Prepare(o)
    BY <1>1, <2>1 DEF Prepare, history
  <2>2. ASSUME NEW from, NEW to, Chain(o, from, to), o \notin indexed,
               chain[o] # "MADE"
        PROVE  CauseInv'
    BY <2>2 DEF Chain, history, CauseInv, Due, TypeOK
  <2>3. CASE Send(o) \/ Mine(o) \/ Match(o)
    BY <2>2, <2>3 DEF Send, Mine, Match, Chain, CauseInv
  <2>4. CASE Index(o)
    BY <2>4 DEF Index, history, CauseInv, Due
  <2> QED
    BY <1>2, <2>1, <2>3, <2>4 DEF OrderStep
<1>3. ASSUME NEW c \in Confirmers, ConfirmStep(c) PROVE CauseInv'
  BY <1>1, <1>3 DEF ConfirmStep, ConfirmStart, ConfirmSuccess, ConfirmReverted,
                    ConfirmGivesUp, history
<1>4. ASSUME NEW s \in Syncers, SyncStep(s) PROVE CauseInv'
  <2>1. ASSUME NEW o \in Orders, SyncImport(s, o) PROVE CauseInv'
    <3>1. /\ sync[s].pc = "import" /\ o \in sync[s].todo
          /\ \A p \in Orders : p # o => imported'[p] = imported[p]
          /\ \A t \in Syncers : /\ sync'[t].pc = sync[t].pc
                               /\ sync'[t].todo \subseteq sync[t].todo
          /\ UNCHANGED <<chain, indexed, early>>
      BY <2>1 DEF SyncImport, history, TypeOK, Sync
    <3>2. \A p \in Orders : Due(p)' => Due(p)
      BY <3>1 DEF Due
    <3> QED
      BY <3>1, <3>2 DEF CauseInv
  <2>2. CASE SyncRead(s)
    <3> DEFINE new == (sync[s].todo \ ExistingExt) \ UiTx
    <3>1. /\ sync' = [sync EXCEPT ![s] = [@ EXCEPT !.pc = "import", !.todo = new]]
          /\ early' = early \cup {o \in new : trade[o] # "CONFIRMED"}
          /\ UNCHANGED <<chain, indexed, imported>>
      BY <2>2 DEF SyncRead
    <3>2. new \subseteq sync[s].todo /\ new \subseteq indexed
      BY DEF CauseInv
    <3>3. \A o \in new : o \in early' \/ chain[o] = "MADE"
      BY <3>1, <3>2 DEF CauseInv, TypeOK, UiTx
    <3> HIDE DEF new
    <3>4. /\ \A t \in Syncers : t # s => sync'[t] = sync[t]
          /\ sync'[s].todo = new
      BY <3>1 DEF TypeOK, Sync
    <3>5. \A o \in Orders : Due(o)' => Due(o) \/ o \in new
      BY <3>1, <3>4 DEF Due
    <3> QED
      BY <3>1, <3>2, <3>3, <3>4, <3>5 DEF CauseInv
  <2>3. ASSUME SyncDone(s), UNCHANGED <<chain, indexed, imported, early>>
        PROVE  CauseInv'
    BY <2>3 DEF SyncDone, IdleSync, CauseInv, Due, TypeOK
  <2>4. CASE SyncFinish(s) \/ SyncCrash(s)
    BY <2>3, <2>4 DEF SyncFinish, SyncCrash, history
  <2>5. ASSUME NEW part \in SUBSET indexed, NEW ok,
               sync' = [sync EXCEPT ![s] = [pc |-> "fetched", ok |-> ok,
                                            todo |-> part]],
               UNCHANGED <<chain, indexed, imported, early>>
        PROVE  CauseInv'
    BY <2>5 DEF CauseInv, Due, TypeOK
  <2>6. CASE SyncFetch(s)
    BY <1>1, <2>5, <2>6 DEF SyncFetch, history
  <2>7. CASE \E part \in SUBSET indexed : SyncFetchPart(s, part)
    BY <2>5, <2>7 DEF SyncFetchPart, history
  <2> QED
    BY <1>4, <2>1, <2>2, <2>4, <2>6, <2>7 DEF SyncStep
<1>5. ASSUME NEW old \in SUBSET Orders, ExpireStale(old) PROVE CauseInv'
  BY <1>1, <1>5 DEF ExpireStale, history
<1>6. CASE Close \/ CacheExpires \/ UNCHANGED vars
  BY <1>1, <1>6 DEF Close, CacheExpires, vars, history
<1> QED
  BY <1>2, <1>3, <1>4, <1>5, <1>6 DEF Next

(* Whatever overlaps, a confirmed order is counted again only because its    *)
(* fill was picked before the confirmation committed, or because another     *)
(* transaction matched it.                                                   *)
THEOREM DoubleBookingExplained == Spec => []DoubleBookingCauses
<1>1. Init => CauseInv
  BY DEF Init, CauseInv, Due, IdleSync
<1>2. TypeOK /\ CauseInv /\ [Next]_vars => (TypeOK /\ CauseInv)'
  BY TypeNext, CauseInvNext
<1>3. CauseInv => DoubleBookingCauses
  BY DEF CauseInv, Due, DoubleBookingCauses
<1> QED
  BY <1>1, <1>2, <1>3, TypeInit, PTL DEF Spec

-----------------------------------------------------------------------------
(* What keeps the imports apart.  An import that read the rows alone is the  *)
(* only one past its queries, and none of the fills it has yet to insert has *)
(* a row: nothing else inserts one meanwhile.                                *)

Importing(s) == sync[s].pc = "import"

OnceInv ==
  overlapped \/
    /\ \A o \in Orders : imported[o] <= 1
    /\ \A s \in Syncers : Importing(s) =>
         /\ \A t \in Syncers : Importing(t) => t = s
         /\ \A o \in sync[s].todo : imported[o] = 0

LEMMA OnceInvInit == Init => OnceInv
  BY DEF Init, OnceInv, Importing, IdleSync

LEMMA OnceSync ==
  ASSUME TypeOK, OnceInv, NEW s \in Syncers, SyncStep(s)
  PROVE  OnceInv'
<1>1. ASSUME UNCHANGED <<imported, overlapped>>, ~Importing(s)',
             \A t \in Syncers : t # s => sync'[t] = sync[t]
      PROVE  OnceInv'
  BY <1>1 DEF OnceInv, Importing
<1>2. ASSUME SyncDone(s), UNCHANGED <<imported, overlapped>> PROVE OnceInv'
  BY <1>1, <1>2 DEF SyncDone, IdleSync, Importing, TypeOK
<1>3. ASSUME NEW part, NEW ok,
             sync' = [sync EXCEPT ![s] = [pc |-> "fetched", ok |-> ok,
                                          todo |-> part]],
             UNCHANGED <<imported, overlapped>>
      PROVE  OnceInv'
  BY <1>1, <1>3 DEF Importing, TypeOK
<1>4. CASE SyncFetch(s)
  <2>1. CASE indexed = {}
    BY <1>4, <2>1 DEF SyncFetch, history, OnceInv, Importing
  <2>2. CASE indexed # {}
    BY <1>3, <1>4, <2>2 DEF SyncFetch, history
  <2> QED
    BY <2>1, <2>2
<1>5. CASE \E part \in SUBSET indexed : SyncFetchPart(s, part)
  BY <1>3, <1>5 DEF SyncFetchPart, history
<1>6. CASE SyncRead(s)
  <2> DEFINE new == (sync[s].todo \ ExistingExt) \ UiTx
  <2>1. /\ sync' = [sync EXCEPT ![s] = [@ EXCEPT !.pc = "import", !.todo = new]]
        /\ overlapped' = (overlapped \/ \E t \in Syncers : Importing(t))
        /\ imported' = imported
    BY <1>6 DEF SyncRead, Importing
  <2>2. \A o \in new : imported[o] = 0
    BY DEF ExistingExt, TypeOK, Sync
  <2> HIDE DEF new
  <2>3. /\ \A t \in Syncers : t # s => sync'[t] = sync[t]
        /\ sync'[s].todo = new
    BY <2>1 DEF TypeOK, Sync
  <2> QED
    BY <2>1, <2>2, <2>3 DEF OnceInv, Importing
<1>7. ASSUME NEW o \in Orders, SyncImport(s, o) PROVE OnceInv'
  <2>1. /\ Importing(s) /\ o \in sync[s].todo
        /\ imported' = [imported EXCEPT ![o] = imported[o] + 1]
        /\ sync' = [sync EXCEPT ![s].todo = sync[s].todo \ {o}]
        /\ overlapped' = overlapped
    BY <1>7 DEF SyncImport, Importing, history
  <2>2. /\ \A t \in Syncers : t # s => sync'[t] = sync[t]
        /\ sync'[s].todo = sync[s].todo \ {o} /\ sync'[s].pc = sync[s].pc
    BY <2>1 DEF TypeOK, Sync
  <2>3. /\ imported'[o] = imported[o] + 1
        /\ \A p \in Orders : p # o => imported'[p] = imported[p]
        /\ sync[s].todo \subseteq Orders
    BY <2>1 DEF TypeOK, Sync
  <2> QED
    BY <2>1, <2>2, <2>3 DEF OnceInv, Importing
<1>8. CASE SyncFinish(s) \/ SyncCrash(s)
  BY <1>2, <1>8 DEF SyncFinish, SyncCrash, history
<1> QED
  BY <1>4, <1>5, <1>6, <1>7, <1>8 DEF SyncStep

LEMMA OnceInvNext == TypeOK /\ OnceInv /\ [Next]_vars => OnceInv'
<1> SUFFICES ASSUME TypeOK, OnceInv, [Next]_vars PROVE OnceInv'
  OBVIOUS
<1>1. ASSUME UNCHANGED <<imported, sync, overlapped>> PROVE OnceInv'
  BY <1>1 DEF OnceInv, Importing
<1>2. ASSUME NEW o \in Orders, OrderStep(o) PROVE OnceInv'
  BY <1>1, <1>2 DEF OrderStep, Prepare, Send, Mine, Match, Index, Chain, history
<1>3. ASSUME NEW c \in Confirmers, ConfirmStep(c) PROVE OnceInv'
  BY <1>1, <1>3 DEF ConfirmStep, ConfirmStart, ConfirmSuccess, ConfirmReverted,
                    ConfirmGivesUp, history
<1>4. ASSUME NEW old \in SUBSET Orders, ExpireStale(old) PROVE OnceInv'
  BY <1>1, <1>4 DEF ExpireStale, history
<1>5. CASE Close \/ CacheExpires \/ UNCHANGED vars
  BY <1>1, <1>5 DEF Close, CacheExpires, vars, history
<1> QED
  BY <1>2, <1>3, <1>4, <1>5, OnceSync DEF Next

(* sync_trades_from_fills books a fill at most once for as long as no import *)
(* has read the rows while another was inserting: the earlier query is all   *)
(* that keeps two of them apart.                                             *)
THEOREM FillsImportedOnce == Spec => []ImportedOnce
<1>1. OnceInv => ImportedOnce
  BY DEF OnceInv, ImportedOnce
<1> QED
  BY <1>1, TypeInit, TypeNext, OnceInvInit, OnceInvNext, PTL DEF Spec
=============================================================================
