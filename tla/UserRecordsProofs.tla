------------------------- MODULE UserRecordsProofs -------------------------
(***************************************************************************)
(* Proofs about what the services keep for one user: what the session key   *)
(* sends and is told (SessionKey), the record of the account's balance       *)
(* (AccountLedger), the order the user signs (OrderEntry), the bot's desk    *)
(* (TelegramDesk) and one position (Holdings), for any number of threads,    *)
(* redemptions, transactions and confirmations, any amounts and any limits.  *)
(***************************************************************************)
EXTENDS MCUserRecords, SumLemmas

-----------------------------------------------------------------------------
Fields == {"pc", "grant", "calls", "pays", "nonce", "mined", "why"}

Shape ==
  /\ count \in Nat
  /\ DOMAIN send = Sends
  /\ \A s \in Sends : DOMAIN send[s] = Fields /\ send[s].nonce \in Nat

(* Before its send nothing of a redemption is on the chain, in the pool it   *)
(* is not mined, and one just built has not been refused for its nonce.      *)
Unsent ==
  \A s \in Sends :
    /\ send[s].pc \in {"new", "built", "counted", "checked"} =>
         send[s].mined = "no" /\ s \notin pool
    /\ s \in pool => send[s].mined = "no"
    /\ send[s].pc = "built" => send[s].why # "nonce"

(* One that nobody overtook will send with the count of the moment, and      *)
(* nothing of the key is pending.                                            *)
Alone ==
  \A s \in Sends \ overtaken :
    send[s].pc \in {"counted", "checked"} => send[s].nonce = count /\ pool = {}

KeyInv == Shape /\ Unsent /\ Alone /\ ToldTruly /\ RefusedWhenOvertaken

-----------------------------------------------------------------------------
(* A step that writes some fields of one redemption leaves the other         *)
(* redemptions as they were.                                                 *)
LEMMA OneChanges ==
  ASSUME Shape, NEW s \in Sends, NEW r, send' = [send EXCEPT ![s] = r],
         DOMAIN r = Fields, r.nonce \in Nat, count' \in Nat
  PROVE  /\ Shape'
         /\ send'[s] = r /\ \A o \in Sends \ {s} : send'[o] = send[o]
  BY DEF Shape

(* Under which grant a redemption is, what it calls and whether it pays.     *)
SameOrder(r, q) == r.grant = q.grant /\ r.calls = q.calls /\ r.pays = q.pays

LEMMA NewSendShape ==
  ASSUME NEW g
  PROVE  /\ DOMAIN NewSend(g) = Fields
         /\ NewSend(g).pc = "new" /\ NewSend(g).nonce = 0 /\ NewSend(g).mined = "no"
         /\ NewSend(g).why = "none"
  BY DEF NewSend, Fields

(* What a redemption may become without the chain, the pool and the count    *)
(* changing, unless it is to send.                                           *)
LEMMA CallerMoves ==
  ASSUME KeyInv, NEW s \in Sends, NEW r, send' = [send EXCEPT ![s] = r],
         DOMAIN r = Fields, r.nonce \in Nat, r.mined = send[s].mined,
         UNCHANGED <<count, pool, overtaken>>, unheard' \in {unheard, unheard \cup {s}},
         r.pc \in {"new", "built", "counted", "checked"} =>
           send[s].mined = "no" /\ s \notin pool,
         r.pc = "built" => r.why # "nonce",
         r.pc \in {"counted", "checked"} /\ s \notin overtaken => r.nonce = count /\ pool = {},
         r.pc = "ok" => r.mined = "done",
         r.pc = "failed" /\ s \notin unheard' => r.mined # "done" /\ s \notin pool,
         r.why = "nonce" => s \in overtaken
  PROVE  KeyInv'
<1>1. Shape' /\ send'[s] = r /\ \A o \in Sends \ {s} : send'[o] = send[o]
  BY OneChanges DEF KeyInv, Shape
<1>2. Unsent'
  BY <1>1 DEF KeyInv, Unsent
<1>3. Alone'
  BY <1>1 DEF KeyInv, Alone
<1>4. ToldTruly'
  BY <1>1 DEF KeyInv, ToldTruly
<1>5. RefusedWhenOvertaken'
  BY <1>1 DEF KeyInv, RefusedWhenOvertaken
<1> QED
  BY <1>1, <1>2, <1>3, <1>4, <1>5 DEF KeyInv

LEMMA InitHolds == SessionInit => KeyInv
<1> SUFFICES ASSUME SessionInit PROVE KeyInv
  OBVIOUS
<1>1. \A s \in Sends : send[s] = NewSend(grant)
  BY DEF SessionInit
<1>2. DOMAIN send = Sends /\ count = 0 /\ pool = {}
  BY DEF SessionInit
<1> QED
  BY <1>1, <1>2, NewSendShape
     DEF KeyInv, Shape, Unsent, Alone, ToldTruly, RefusedWhenOvertaken

LEMMA BuildKeeps ==
  ASSUME KeyInv, NEW s \in Sends,
         \/ \E approve \in BOOLEAN : BuildTrade(s, approve)
         \/ \E needed : BuildClaim(s, needed)
  PROVE  KeyInv'
<1>1. PICK c : send' = [send EXCEPT ![s] = [NewSend(grant) EXCEPT !.pc = "built", !.calls = c]]
  BY DEF BuildTrade, BuildClaim
<1> DEFINE r == [NewSend(grant) EXCEPT !.pc = "built", !.calls = c]
<1>2. /\ DOMAIN r = Fields /\ r.pc = "built" /\ r.nonce \in Nat /\ r.mined = "no"
      /\ r.why # "nonce"
  BY NewSendShape DEF Fields
<1>3. UNCHANGED <<count, pool, overtaken, unheard>>
  BY DEF BuildTrade, BuildClaim, chain, history
<1>4. send[s].mined = "no" /\ s \notin pool
  BY DEF BuildTrade, BuildClaim, KeyInv, Unsent
<1>5. PICK q : /\ send' = [send EXCEPT ![s] = q] /\ DOMAIN q = Fields /\ q.pc = "built"
               /\ q.nonce \in Nat /\ q.mined = send[s].mined /\ q.why # "nonce"
  BY <1>1, <1>2, <1>4
<1> QED
  BY <1>3, <1>4, <1>5, CallerMoves

(* The steps that set the outcome of one redemption, or its next step.       *)
LEMMA SetShape ==
  ASSUME KeyInv, NEW s \in Sends, NEW pc, Set(s, pc)
  PROVE  \E r : /\ send' = [send EXCEPT ![s] = r] /\ DOMAIN r = Fields /\ r.pc = pc
                /\ r.nonce = send[s].nonce /\ r.mined = send[s].mined
                /\ r.why = send[s].why /\ SameOrder(r, send[s])
<1> DEFINE r == [send[s] EXCEPT !.pc = pc]
<1>1. /\ DOMAIN r = Fields /\ r.pc = pc /\ r.nonce = send[s].nonce
      /\ r.mined = send[s].mined /\ r.why = send[s].why /\ SameOrder(r, send[s])
  BY DEF KeyInv, Shape, Fields, SameOrder
<1>2. send' = [send EXCEPT ![s] = r]
  BY DEF Set
<1> QED
  BY <1>1, <1>2

LEMMA FailShape ==
  ASSUME KeyInv, NEW s \in Sends, NEW why, Fail(s, why)
  PROVE  \E r : /\ send' = [send EXCEPT ![s] = r] /\ DOMAIN r = Fields /\ r.pc = "failed"
                /\ r.nonce = send[s].nonce /\ r.mined = send[s].mined /\ r.why = why
                /\ SameOrder(r, send[s])
<1> DEFINE r == [send[s] EXCEPT !.pc = "failed", !.why = why]
<1>1. /\ DOMAIN r = Fields /\ r.pc = "failed" /\ r.nonce = send[s].nonce
      /\ r.mined = send[s].mined /\ r.why = why /\ SameOrder(r, send[s])
  BY DEF KeyInv, Shape, Fields, SameOrder
<1>2. send' = [send EXCEPT ![s] = r]
  BY DEF Fail, KeyInv, Shape
<1> QED
  BY <1>1, <1>2

LEMMA CountKeeps ==
  ASSUME KeyInv, NEW s \in Sends, Count(s)
  PROVE  KeyInv'
<1>1. /\ send[s].pc = "built" /\ send[s].mined = "no" /\ s \notin pool
      /\ send[s].why # "nonce"
  BY DEF Count, KeyInv, Unsent
<1>2. UNCHANGED <<count, pool, unheard>>
  BY DEF Count, chain
<1>3. CASE SignedTo(send[s].grant)
  <2>1. PICK p : send' = [send EXCEPT ![s].pc = "counted", ![s].nonce = NonceFor(s),
                            ![s].pays = p]
    BY <1>3 DEF Count
  <2> DEFINE r == [send[s] EXCEPT !.pc = "counted", !.nonce = NonceFor(s), !.pays = p]
  <2>2. /\ DOMAIN r = Fields /\ r.pc = "counted" /\ r.nonce = count
        /\ r.mined = "no" /\ r.why = send[s].why
    BY <1>1 DEF KeyInv, Shape, Fields, NonceFor
  <2>3. send' = [send EXCEPT ![s] = r]
    BY <2>1 DEF KeyInv, Shape
  <2>4. count \in Nat
    BY DEF KeyInv, Shape
  <2> HIDE DEF r
  <2>5. Shape' /\ send'[s] = r /\ \A o \in Sends \ {s} : send'[o] = send[o]
    BY <1>2, <2>2, <2>3, <2>4, OneChanges DEF KeyInv
  <2>6. overtaken' = IF pool = {} THEN overtaken \ {s} ELSE overtaken \cup {s}
    BY <1>3 DEF Count
  <2>7. Unsent'
    BY <1>1, <1>2, <2>2, <2>5 DEF KeyInv, Unsent
  <2>8. Alone'
    BY <1>2, <2>2, <2>5, <2>6 DEF KeyInv, Alone
  <2>9. ToldTruly'
    BY <1>2, <2>2, <2>5 DEF KeyInv, ToldTruly
  <2>10. RefusedWhenOvertaken'
    BY <1>1, <2>2, <2>5, <2>6 DEF KeyInv, RefusedWhenOvertaken
  <2> QED
    BY <2>5, <2>7, <2>8, <2>9, <2>10 DEF KeyInv
<1>4. CASE ~ SignedTo(send[s].grant)
  <2>1. Fail(s, "delegate") /\ UNCHANGED overtaken
    BY <1>4 DEF Count
  <2>2. PICK r : /\ send' = [send EXCEPT ![s] = r] /\ DOMAIN r = Fields /\ r.pc = "failed"
                 /\ r.nonce = send[s].nonce /\ r.mined = send[s].mined /\ r.why = "delegate"
    BY <2>1, FailShape
  <2>3. send[s].nonce \in Nat
    BY DEF KeyInv, Shape
  <2> QED
    BY <1>1, <1>2, <2>1, <2>2, <2>3, CallerMoves
<1> QED
  BY <1>3, <1>4

LEMMA CheckKeeps ==
  ASSUME KeyInv, NEW s \in Sends, Check(s)
  PROVE  KeyInv'
<1>1. /\ send[s].pc = "counted" /\ send[s].mined = "no" /\ s \notin pool
      /\ send[s].nonce \in Nat
      /\ (s \notin overtaken => send[s].nonce = count /\ pool = {})
      /\ (send[s].why = "nonce" => s \in overtaken)
  BY DEF Check, KeyInv, Unsent, Shape, Alone, RefusedWhenOvertaken
<1>2. UNCHANGED <<count, pool, overtaken, unheard>>
  BY DEF Check, chain, history
<1>3. CASE \E w \in Wrong(s) \cup {"revert", "gas"} : Fail(s, w)
  <2>1. PICK w \in Wrong(s) \cup {"revert", "gas"} : Fail(s, w)
    BY <1>3
  <2>2. w # "nonce"
    BY DEF Wrong
  <2>3. PICK r : /\ send' = [send EXCEPT ![s] = r] /\ DOMAIN r = Fields /\ r.pc = "failed"
                 /\ r.nonce = send[s].nonce /\ r.mined = send[s].mined /\ r.why = w
    BY <2>1, FailShape
  <2> QED
    BY <1>1, <1>2, <2>2, <2>3, CallerMoves
<1>4. CASE Set(s, "checked")
  <2>1. PICK r : /\ send' = [send EXCEPT ![s] = r] /\ DOMAIN r = Fields /\ r.pc = "checked"
                 /\ r.nonce = send[s].nonce /\ r.mined = send[s].mined
                 /\ r.why = send[s].why
    BY <1>4, SetShape
  <2> QED
    BY <1>1, <1>2, <2>1, CallerMoves
<1> QED
  BY <1>3, <1>4 DEF Check

LEMMA SendKeeps ==
  ASSUME KeyInv, NEW s \in Sends, Send(s)
  PROVE  KeyInv'
<1>1. /\ send[s].pc = "checked" /\ send[s].mined = "no" /\ s \notin pool
      /\ send[s].nonce \in Nat /\ count \in Nat
      /\ (s \notin overtaken => send[s].nonce = count /\ pool = {})
      /\ (send[s].why = "nonce" => s \in overtaken)
  BY DEF Send, KeyInv, Unsent, Shape, Alone, RefusedWhenOvertaken
<1>2. count' = count
  BY DEF Send
<1>3. CASE ~ Accepts(send[s].nonce)
  <2>1. Fail(s, "nonce") /\ UNCHANGED <<pool, overtaken, unheard>>
    BY <1>3 DEF Send, history
  <2>2. s \in overtaken
    BY <1>1, <1>3 DEF Accepts
  <2>3. PICK r : /\ send' = [send EXCEPT ![s] = r] /\ DOMAIN r = Fields /\ r.pc = "failed"
                 /\ r.nonce = send[s].nonce /\ r.mined = send[s].mined /\ r.why = "nonce"
    BY <2>1, FailShape
  <2> QED
    BY <1>1, <1>2, <2>1, <2>2, <2>3, CallerMoves
<1>4. CASE Accepts(send[s].nonce)
  <2>1. /\ pool' = pool \cup {s}
        /\ overtaken' = overtaken \cup
               { o \in Sends \ {s} : send[o].pc \in {"counted", "checked"} }
    BY <1>4 DEF Send
  <2>2. PICK r : /\ send' = [send EXCEPT ![s] = r] /\ DOMAIN r = Fields
                 /\ r.pc \in {"waiting", "failed"} /\ r.nonce = send[s].nonce
                 /\ r.mined = send[s].mined
                 /\ r.why = "nonce" => s \in overtaken
                 /\ IF r.pc = "waiting" THEN unheard' = unheard
                                        ELSE unheard' = unheard \cup {s}
    <3>1. CASE Set(s, "waiting") /\ UNCHANGED unheard
      <4>1. PICK r : /\ send' = [send EXCEPT ![s] = r] /\ DOMAIN r = Fields /\ r.pc = "waiting"
                     /\ r.nonce = send[s].nonce /\ r.mined = send[s].mined
                     /\ r.why = send[s].why
        BY <3>1, SetShape
      <4> QED
        BY <4>1, <3>1, <1>1
    <3>2. CASE Fail(s, "lost") /\ unheard' = unheard \cup {s}
      <4>1. PICK r : /\ send' = [send EXCEPT ![s] = r] /\ DOMAIN r = Fields /\ r.pc = "failed"
                     /\ r.nonce = send[s].nonce /\ r.mined = send[s].mined /\ r.why = "lost"
        BY <3>2, FailShape
      <4> QED
        BY <4>1, <3>2
    <3> QED
      BY <1>4, <3>1, <3>2 DEF Send
  <2>3. Shape' /\ send'[s] = r /\ \A o \in Sends \ {s} : send'[o] = send[o]
    BY <1>1, <1>2, <2>2, OneChanges DEF KeyInv
  <2>4. Unsent'
    BY <1>1, <2>1, <2>2, <2>3 DEF KeyInv, Unsent
  <2>5. Alone'
    BY <2>1, <2>2, <2>3 DEF KeyInv, Alone
  <2>6. ToldTruly'
    BY <1>1, <2>1, <2>2, <2>3 DEF KeyInv, ToldTruly
  <2>7. RefusedWhenOvertaken'
    BY <2>1, <2>2, <2>3 DEF KeyInv, RefusedWhenOvertaken
  <2> QED
    BY <2>3, <2>4, <2>5, <2>6, <2>7 DEF KeyInv
<1> QED
  BY <1>3, <1>4

LEMMA MineKeeps ==
  ASSUME KeyInv, NEW s \in Sends, Mine(s)
  PROVE  KeyInv'
<1>1. s \in pool /\ pool' = pool \ {s} /\ count' = count + 1 /\ UNCHANGED <<overtaken, unheard>>
  BY DEF Mine, history
<1>2. /\ send[s].pc \notin {"new", "built", "counted", "checked"} /\ send[s].mined = "no"
      /\ count \in Nat /\ send[s].nonce \in Nat /\ DOMAIN send[s] = Fields
      /\ (send[s].why = "nonce" => s \in overtaken)
      /\ (send[s].pc # "ok") /\ (send[s].pc = "failed" => s \in unheard)
  BY <1>1 DEF KeyInv, Unsent, Shape, ToldTruly, RefusedWhenOvertaken
<1>3. PICK r : /\ send' = [send EXCEPT ![s] = r] /\ DOMAIN r = Fields
               /\ r.pc = send[s].pc /\ r.nonce = send[s].nonce
               /\ (r.why = "nonce" => s \in overtaken)
  <2>1. CASE send' = [send EXCEPT ![s].mined = "done"]
    <3> DEFINE r == [send[s] EXCEPT !.mined = "done"]
    <3>1. /\ DOMAIN r = Fields /\ r.pc = send[s].pc /\ r.nonce = send[s].nonce
          /\ r.why = send[s].why
      BY <1>2 DEF Fields
    <3>2. send' = [send EXCEPT ![s] = r]
      BY <2>1
    <3> QED
      BY <3>1, <3>2, <1>2
  <2>2. CASE \E w \in Wrong(s) \cup {"revert"} :
               send' = [send EXCEPT ![s].mined = "reverted", ![s].why = w]
    <3>1. PICK w \in Wrong(s) \cup {"revert"} :
            send' = [send EXCEPT ![s].mined = "reverted", ![s].why = w]
      BY <2>2
    <3> DEFINE r == [send[s] EXCEPT !.mined = "reverted", !.why = w]
    <3>2. /\ DOMAIN r = Fields /\ r.pc = send[s].pc /\ r.nonce = send[s].nonce
          /\ r.why = w
      BY <1>2 DEF Fields
    <3>3. send' = [send EXCEPT ![s] = r]
      BY <3>1 DEF KeyInv, Shape
    <3>4. w # "nonce"
      BY DEF Wrong
    <3> QED
      BY <3>2, <3>3, <3>4
  <2> QED
    BY <2>1, <2>2 DEF Mine
<1>4. Shape' /\ send'[s] = r /\ \A o \in Sends \ {s} : send'[o] = send[o]
  <2>1. Shape /\ r.nonce \in Nat /\ count' \in Nat
    BY <1>1, <1>2, <1>3 DEF KeyInv
  <2> QED
    BY <2>1, <1>3, OneChanges
<1>5. Unsent'
  BY <1>1, <1>2, <1>3, <1>4 DEF KeyInv, Unsent
<1>6. Alone'
  BY <1>1, <1>2, <1>3, <1>4 DEF KeyInv, Alone
<1>7. ToldTruly'
  BY <1>1, <1>2, <1>3, <1>4 DEF KeyInv, ToldTruly
<1>8. RefusedWhenOvertaken'
  BY <1>1, <1>3, <1>4 DEF KeyInv, RefusedWhenOvertaken
<1> QED
  BY <1>4, <1>5, <1>6, <1>7, <1>8 DEF KeyInv

LEMMA AnswerKeeps ==
  ASSUME KeyInv, NEW s \in Sends, Answer(s) \/ GiveUp(s)
  PROVE  KeyInv'
<1>1. /\ send[s].pc = "waiting" /\ send[s].nonce \in Nat
      /\ (s \in pool => send[s].mined = "no")
      /\ (send[s].why = "nonce" => s \in overtaken)
      /\ UNCHANGED <<count, pool, overtaken>>
  BY DEF Answer, GiveUp, KeyInv, Unsent, Shape, RefusedWhenOvertaken, chain, history
<1>2. CASE Answer(s)
  <2>1. /\ unheard' = unheard
        /\ \/ send[s].mined = "done" /\ Set(s, "ok")
           \/ send[s].mined = "reverted" /\ Set(s, "failed")
    BY <1>2 DEF Answer, ReceiptGood, history
  <2>2. PICK pc \in {"ok", "failed"} :
          /\ Set(s, pc) /\ (pc = "ok" => send[s].mined = "done")
          /\ (pc = "failed" => send[s].mined = "reverted")
    BY <2>1
  <2>3. PICK r : /\ send' = [send EXCEPT ![s] = r] /\ DOMAIN r = Fields /\ r.pc = pc
                 /\ r.nonce = send[s].nonce /\ r.mined = send[s].mined
                 /\ r.why = send[s].why
    BY <2>2, SetShape
  <2> QED
    BY <1>1, <2>1, <2>2, <2>3, CallerMoves
<1>3. CASE GiveUp(s)
  <2>1. Fail(s, "timeout") /\ unheard' = unheard \cup {s}
    BY <1>3 DEF GiveUp
  <2>2. PICK r : /\ send' = [send EXCEPT ![s] = r] /\ DOMAIN r = Fields /\ r.pc = "failed"
                 /\ r.nonce = send[s].nonce /\ r.mined = send[s].mined /\ r.why = "timeout"
    BY <2>1, FailShape
  <2> QED
    BY <1>1, <2>1, <2>2, CallerMoves
<1> QED
  BY <1>2, <1>3

LEMMA StepKeeps == KeyInv /\ [SessionNext]_session => KeyInv'
<1> SUFFICES ASSUME KeyInv, [SessionNext]_session PROVE KeyInv'
  OBVIOUS
<1>1. ASSUME UNCHANGED <<count, pool, send, overtaken, unheard>> PROVE KeyInv'
  BY <1>1 DEF KeyInv, Shape, Unsent, Alone, ToldTruly, RefusedWhenOvertaken
<1>2. CASE NewKey \/ Sign \/ Lapse \/ Done \/ UNCHANGED session
  BY <1>1, <1>2 DEF NewKey, Sign, Lapse, Done, session, chain, history
<1> QED
  BY <1>2, BuildKeeps, CountKeeps, CheckKeeps, SendKeeps, MineKeeps, AnswerKeeps DEF SessionNext

LEMMA Inductive == SessionSpec => []KeyInv
  BY InitHolds, StepKeeps, PTL DEF SessionSpec

(* What broadcast_delegated_execution tells its caller is what became of the *)
(* redemption on the chain, for any number of threads on the one key, unless *)
(* the caller gave up waiting or the node's reply was lost.                  *)
THEOREM CallersToldTruly == SessionSpec => []ToldTruly
  BY Inductive, PTL DEF KeyInv

(* A nonce is refused only to a thread that read the count while another     *)
(* transaction of the key was pending, or that another overtook.             *)
THEOREM NonceRefusedWhenOvertaken == SessionSpec => []RefusedWhenOvertaken
  BY Inductive, PTL DEF KeyInv

-----------------------------------------------------------------------------
(* Why the chain finds nothing beyond the grant: what a redemption calls was *)
(* checked against the grant it was built from, money is sent only under an  *)
(* unrestricted one, and before the key changes every grant names it.        *)

Covered(q) ==
  /\ \A m \in q.calls : GrantAllows(q.grant, m)
  /\ q.pays => Unrestricted(q.grant)
  /\ q.why \notin {"method", "value"}

NamesOldKey(q) == q.grant.delegate = "old key" /\ q.why # "delegate"

CoverInv ==
  /\ grant.methods \in Lists
  /\ key = "old key" => grant.delegate = "old key"
  /\ \A s \in Sends : Covered(send[s]) /\ (key = "old key" => NamesOldKey(send[s]))

LEMMA CoverMove ==
  ASSUME KeyInv, CoverInv, NEW s \in Sends, NEW r, send' = [send EXCEPT ![s] = r],
         UNCHANGED <<key, grant>>, Covered(r), key = "old key" => NamesOldKey(r)
  PROVE  CoverInv'
<1>1. send'[s] = r /\ \A o \in Sends \ {s} : send'[o] = send[o]
  BY DEF KeyInv, Shape
<1>2. \A o \in Sends : Covered(send'[o]) /\ (key = "old key" => NamesOldKey(send'[o]))
  BY <1>1 DEF CoverInv
<1> QED
  BY <1>2 DEF CoverInv, Covered, NamesOldKey, GrantAllows, Unrestricted

LEMMA CoverFail ==
  ASSUME KeyInv, CoverInv, NEW s \in Sends, NEW w, Fail(s, w),
         UNCHANGED <<key, grant>>, w \notin {"method", "value"},
         key = "old key" => w # "delegate"
  PROVE  CoverInv'
<1> DEFINE r == [send[s] EXCEPT !.pc = "failed", !.why = w]
<1>1. r.why = w /\ SameOrder(r, send[s])
  BY DEF KeyInv, Shape, Fields, SameOrder
<1>2. send' = [send EXCEPT ![s] = r]
  BY DEF Fail, KeyInv, Shape
<1> HIDE DEF r
<1>3. Covered(r) /\ (key = "old key" => NamesOldKey(r))
  BY <1>1 DEF CoverInv, Covered, NamesOldKey, SameOrder
<1> QED
  BY <1>2, <1>3, CoverMove

LEMMA CoverSet ==
  ASSUME KeyInv, CoverInv, NEW s \in Sends, NEW pc, Set(s, pc), UNCHANGED <<key, grant>>
  PROVE  CoverInv'
<1>1. PICK r : /\ send' = [send EXCEPT ![s] = r] /\ DOMAIN r = Fields /\ r.pc = pc
               /\ r.nonce = send[s].nonce /\ r.mined = send[s].mined
               /\ r.why = send[s].why /\ SameOrder(r, send[s])
  BY SetShape
<1> QED
  BY <1>1, CoverMove DEF CoverInv, Covered, NamesOldKey, SameOrder

(* What the enforcers can find wrong with a redemption.                      *)
LEMMA NothingBeyond ==
  ASSUME CoverInv, NEW s \in Sends, NEW w \in Wrong(s)
  PROVE  w \notin {"method", "value"} /\ (key = "old key" => w # "delegate")
  BY DEF CoverInv, Covered, NamesOldKey, Wrong

LEMMA CoverBuild ==
  ASSUME KeyInv, CoverInv, NEW s \in Sends,
         \/ \E approve \in BOOLEAN : BuildTrade(s, approve)
         \/ \E needed : BuildClaim(s, needed)
  PROVE  CoverInv'
<1>1. \A m \in {"approve", Order} : GrantAllows(grant, m)
  BY DEF CoverInv, Lists, Methods, Order, GrantAllows
<1>2. PICK c : /\ send' = [send EXCEPT ![s] =
                             [NewSend(grant) EXCEPT !.pc = "built", !.calls = c]]
               /\ \A m \in c : GrantAllows(grant, m)
  <2>1. ASSUME NEW approve \in BOOLEAN, BuildTrade(s, approve)
        PROVE  \E c : /\ send' = [send EXCEPT ![s] =
                                    [NewSend(grant) EXCEPT !.pc = "built", !.calls = c]]
                      /\ \A m \in c : GrantAllows(grant, m)
    <3> DEFINE c == (IF approve THEN {"approve"} ELSE {}) \cup {Order}
    <3>1. \A m \in c : GrantAllows(grant, m)
      BY <1>1
    <3> QED
      BY <2>1, <3>1 DEF BuildTrade
  <2>2. ASSUME NEW needed, BuildClaim(s, needed)
        PROVE  \E c : /\ send' = [send EXCEPT ![s] =
                                    [NewSend(grant) EXCEPT !.pc = "built", !.calls = c]]
                      /\ \A m \in c : GrantAllows(grant, m)
    <3>1. \A m \in ClaimCalls(grant, needed) : GrantAllows(grant, m)
      BY <2>2 DEF BuildClaim, ClaimCalls, GrantClaims
    <3> QED
      BY <2>2, <3>1 DEF BuildClaim
  <2> QED
    BY <2>1, <2>2
<1> DEFINE r == [NewSend(grant) EXCEPT !.pc = "built", !.calls = c]
<1>3. r.grant = grant /\ r.calls = c /\ r.pays = FALSE /\ r.why = "none"
  BY DEF NewSend
<1>4. Covered(r) /\ (key = "old key" => NamesOldKey(r))
  BY <1>2, <1>3 DEF CoverInv, Covered, NamesOldKey
<1>5. UNCHANGED <<key, grant>>
  BY DEF BuildTrade, BuildClaim
<1> HIDE DEF r
<1>6. send' = [send EXCEPT ![s] = r]
  BY <1>2 DEF r
<1> QED
  BY <1>4, <1>5, <1>6, CoverMove

LEMMA CoverCount ==
  ASSUME KeyInv, CoverInv, NEW s \in Sends, Count(s)
  PROVE  CoverInv'
<1>1. UNCHANGED <<key, grant>>
  BY DEF Count
<1>2. CASE SignedTo(send[s].grant)
  <2>1. PICK rich \in BOOLEAN :
          send' = [send EXCEPT ![s].pc = "counted", ![s].nonce = NonceFor(s),
                     ![s].pays = rich /\ PaysGas(send[s].grant)]
    BY <1>2 DEF Count
  <2> DEFINE p == rich /\ PaysGas(send[s].grant)
             r == [send[s] EXCEPT !.pc = "counted", !.nonce = NonceFor(s), !.pays = p]
  <2>2. /\ r.grant = send[s].grant /\ r.calls = send[s].calls /\ r.why = send[s].why
        /\ r.pays = p
    BY DEF KeyInv, Shape, Fields
  <2>3. p => Unrestricted(send[s].grant)
    BY DEF PaysGas
  <2>4. Covered(r) /\ (key = "old key" => NamesOldKey(r))
    BY <2>2, <2>3 DEF CoverInv, Covered, NamesOldKey
  <2>5. send' = [send EXCEPT ![s] = r]
    BY <2>1 DEF KeyInv, Shape
  <2> HIDE DEF r
  <2> QED
    BY <1>1, <2>4, <2>5, CoverMove
<1>3. CASE ~ SignedTo(send[s].grant)
  <2>1. Fail(s, "delegate") /\ key # "old key"
    BY <1>3 DEF Count, SignedTo, CoverInv, NamesOldKey
  <2> QED
    BY <1>1, <2>1, CoverFail
<1> QED
  BY <1>2, <1>3

LEMMA CoverCheck ==
  ASSUME KeyInv, CoverInv, NEW s \in Sends, Check(s)
  PROVE  CoverInv'
<1>1. UNCHANGED <<key, grant>>
  BY DEF Check
<1>2. ASSUME NEW w \in Wrong(s) \cup {"revert", "gas"}, Fail(s, w) PROVE CoverInv'
  BY <1>1, <1>2, NothingBeyond, CoverFail
<1>3. ASSUME Set(s, "checked") PROVE CoverInv'
  BY <1>1, <1>3, CoverSet
<1> QED
  BY <1>2, <1>3 DEF Check

LEMMA CoverMine ==
  ASSUME KeyInv, CoverInv, NEW s \in Sends, Mine(s)
  PROVE  CoverInv'
<1>1. UNCHANGED <<key, grant>> /\ DOMAIN send[s] = Fields
  BY DEF Mine, KeyInv, Shape
<1>2. CASE send' = [send EXCEPT ![s].mined = "done"]
  <2> DEFINE r == [send[s] EXCEPT !.mined = "done"]
  <2>1. r.why = send[s].why /\ SameOrder(r, send[s])
    BY <1>1 DEF Fields, SameOrder
  <2>2. send' = [send EXCEPT ![s] = r]
    BY <1>2
  <2> HIDE DEF r
  <2>3. Covered(r) /\ (key = "old key" => NamesOldKey(r))
    BY <2>1 DEF CoverInv, Covered, NamesOldKey, SameOrder
  <2> QED
    BY <1>1, <2>2, <2>3, CoverMove
<1>3. ASSUME NEW w \in Wrong(s) \cup {"revert"},
             send' = [send EXCEPT ![s].mined = "reverted", ![s].why = w]
      PROVE  CoverInv'
  <2> DEFINE r == [send[s] EXCEPT !.mined = "reverted", !.why = w]
  <2>1. r.why = w /\ SameOrder(r, send[s])
    BY <1>1 DEF Fields, SameOrder
  <2>2. send' = [send EXCEPT ![s] = r]
    BY <1>3 DEF KeyInv, Shape
  <2> HIDE DEF r
  <2>3. w \notin {"method", "value"} /\ (key = "old key" => w # "delegate")
    BY NothingBeyond
  <2>4. Covered(r) /\ (key = "old key" => NamesOldKey(r))
    BY <2>1, <2>3 DEF CoverInv, Covered, NamesOldKey, SameOrder
  <2> QED
    BY <1>1, <2>2, <2>4, CoverMove
<1> QED
  BY <1>2, <1>3 DEF Mine

LEMMA CoverNext == KeyInv /\ CoverInv /\ [SessionNext]_session => CoverInv'
<1> SUFFICES ASSUME KeyInv, CoverInv, [SessionNext]_session PROVE CoverInv'
  OBVIOUS
<1>1. CASE NewKey
  BY <1>1 DEF NewKey, CoverInv, Covered, GrantAllows, Unrestricted
<1>2. CASE Sign
  <2>1. PICK m \in Lists : grant' = [delegate |-> key, methods |-> m]
    BY <1>2 DEF Sign
  <2>2. grant'.methods \in Lists /\ grant'.delegate = key
    BY <2>1
  <2>3. UNCHANGED <<key, send>>
    BY <1>2 DEF Sign
  <2> QED
    BY <2>2, <2>3 DEF CoverInv, Covered, NamesOldKey, GrantAllows, Unrestricted
<1>3. CASE Lapse \/ Done \/ UNCHANGED session
  BY <1>3 DEF Lapse, Done, session, CoverInv, Covered, NamesOldKey, GrantAllows, Unrestricted
<1>4. ASSUME NEW s \in Sends, Send(s) PROVE CoverInv'
  <2>1. UNCHANGED <<key, grant>>
    BY <1>4 DEF Send
  <2>2. Set(s, "waiting") \/ Fail(s, "lost") \/ Fail(s, "nonce")
    BY <1>4 DEF Send
  <2> QED
    BY <2>1, <2>2, CoverSet, CoverFail
<1>5. ASSUME NEW s \in Sends, Answer(s) \/ GiveUp(s) PROVE CoverInv'
  <2>1. UNCHANGED <<key, grant>>
    BY <1>5 DEF Answer, GiveUp
  <2>2. Set(s, "ok") \/ Set(s, "failed") \/ Fail(s, "timeout")
    BY <1>5 DEF Answer, GiveUp
  <2> QED
    BY <2>1, <2>2, CoverSet, CoverFail
<1> QED
  BY <1>1, <1>2, <1>3, <1>4, <1>5, CoverBuild, CoverCount, CoverCheck, CoverMine
     DEF SessionNext

LEMMA CoverInit == SessionInit => CoverInv
<1> SUFFICES ASSUME SessionInit PROVE CoverInv
  OBVIOUS
<1>1. grant.methods \in Lists /\ grant.delegate = "old key"
  BY DEF SessionInit, Grants
<1>2. \A s \in Sends : send[s] = NewSend(grant)
  BY DEF SessionInit
<1>3. /\ NewSend(grant).grant = grant /\ NewSend(grant).calls = {}
      /\ NewSend(grant).pays = FALSE /\ NewSend(grant).why = "none"
  BY DEF NewSend
<1> QED
  BY <1>1, <1>2, <1>3 DEF CoverInv, Covered, NamesOldKey

(* However trades, claims, signatures and a new session key interleave, no   *)
(* redemption is refused for a method its grant does not allow or a payment  *)
(* the caveats forbid, and none for its delegate while the key is the one    *)
(* the owner signed to.                                                      *)
THEOREM WithinTheGrant == SessionSpec => []NeverBeyondGrant
<1>1. CoverInv => NeverBeyondGrant
  BY DEF CoverInv, Covered, NamesOldKey, NeverBeyondGrant
<1>2. KeyInv /\ CoverInv /\ [SessionNext]_session => (KeyInv /\ CoverInv)'
  BY StepKeeps, CoverNext
<1> QED
  BY <1>1, <1>2, InitHolds, CoverInit, PTL DEF SessionSpec

-----------------------------------------------------------------------------
(* The argument for RecordCovered.  What was deposited is on the chain, was  *)
(* withdrawn or was paid for trades.  While no two requests overlap, the one *)
(* in flight has read the record as it is; and until a withdrawal has    *)
(* been confirmed the record shows one deposit, which is no more than all.   *)

Deposits == {t \in Txs : transfers[t].kind = "deposit"}
Gone == {t \in Txs : /\ transfers[t].kind = "withdraw"
                     /\ transfers[t].state \in {"mined", "confirmed"}}

Balanced == Total(Deposits) = funds + Total(Gone) + paid

OneReader ==
  ~ overlapped =>
    /\ \A r, o \in Confirmations :
         confirming[r].tx # "none" /\ confirming[o].tx # "none" => r = o
    /\ \A r \in Confirmations : confirming[r].tx # "none" => confirming[r].seen = record
    /\ ~ record.balance.known =>
         \A t \in Gone : transfers[t].state # "confirmed"

Reading ==
  /\ \A t \in Txs : transfers[t].kind = "none" => transfers[t].state = "new"
  /\ \A r \in Confirmations :
       confirming[r].tx \in Txs =>
         transfers[confirming[r].tx].state \in {"mined", "confirmed"}

LedgerInv == LedgerTypeOK /\ Balanced /\ OneReader /\ Reading /\ RecordCovered

LEMMA TransfersAdd ==
  ASSUME LedgerTypeOK
  PROVE  /\ IsFiniteSet(Txs)
         /\ \A t \in Txs : transfers[t].amount \in Nat
         /\ \A T : Total(T) = RowTotal(transfers, T)
         /\ Unconfirmed(Txs) \in SUBSET Txs /\ Gone \in SUBSET Txs
         /\ Deposits \in SUBSET Txs
<1>1. \A T : Total(T) = RowTotal(transfers, T)
  BY DEF Total, RowTotal
<1> QED
  BY <1>1, LedgerConstants DEF LedgerTypeOK, Unconfirmed, Gone, Deposits

LEMMA TransfersAddNext ==
  /\ Total(Deposits)' = RowTotal(transfers', Deposits')
  /\ Total(Gone)' = RowTotal(transfers', Gone')
  /\ Total(Unconfirmed(Txs))' = RowTotal(transfers', Unconfirmed(Txs)')
  BY DEF Total, RowTotal, MapThenSumSet, MapThenFoldSet

LEMMA LedgerTypeNext == LedgerTypeOK /\ [LedgerNext]_ledger => LedgerTypeOK'
<1> SUFFICES ASSUME LedgerTypeOK, [LedgerNext]_ledger PROVE LedgerTypeOK'
  OBVIOUS
<1>1. ASSUME NEW t \in Txs, NEW n \in Amounts, Deposit(t, n) PROVE LedgerTypeOK'
  <2>1. n \in Nat
    BY LedgerConstants DEF Amounts
  <2> QED
    BY <1>1, <2>1 DEF Deposit, LedgerTypeOK
<1>2. ASSUME NEW t \in Txs, NEW n \in Amounts, PrepareWithdraw(t, n) PROVE LedgerTypeOK'
  <2>1. n \in Nat
    BY LedgerConstants DEF Amounts
  <2> QED
    BY <1>2, <2>1 DEF PrepareWithdraw, LedgerTypeOK
<1>3. ASSUME NEW t \in Txs, Withdraw(t) PROVE LedgerTypeOK'
  <2>1. transfers' \in [Txs -> [kind: {"none", "deposit", "withdraw"}, amount: Nat,
                                state: {"new", "signed", "mined", "reverted", "confirmed"}]]
    BY <1>3 DEF Withdraw, LedgerTypeOK
  <2>2. funds' \in Nat
    BY <1>3 DEF Withdraw, LedgerTypeOK
  <2> QED
    BY <1>3, <2>1, <2>2 DEF Withdraw, LedgerTypeOK
<1>4. CASE Spend
  BY <1>4 DEF Spend, LedgerTypeOK
<1>5. ASSUME NEW r \in Confirmations, NEW t \in Txs \cup {"account"}, Load(r, t)
      PROVE  LedgerTypeOK'
  BY <1>5 DEF Load, LedgerTypeOK
<1>6. ASSUME NEW r \in Confirmations, NEW kind, Finish(r, kind)
      PROVE  /\ confirming[r].tx \in Txs /\ confirming[r].seen \in Metadata
             /\ transfers' \in [Txs -> [kind: {"none", "deposit", "withdraw"}, amount: Nat,
                                state: {"new", "signed", "mined", "reverted", "confirmed"}]]
             /\ confirming' \in [Confirmations ->
                  [tx: Txs \cup {"none", "account"}, seen: Metadata, was: AccountStatuses]]
             /\ funds' \in Nat /\ paid' \in Nat /\ overlapped' \in BOOLEAN
  <2>1. NoConfirmation \in [tx: Txs \cup {"none", "account"}, seen: Metadata, was: AccountStatuses]
    BY DEF NoConfirmation, Metadata, Figure, Missing, AccountStatuses
  <2>2. confirming[r].tx \in Txs /\ confirming[r].seen \in Metadata
    BY <1>6 DEF Finish, LedgerTypeOK
  <2> QED
    BY <1>6, <2>1, <2>2 DEF Finish, LedgerTypeOK
<1>7. ASSUME NEW r \in Confirmations, SaveDeposit(r) PROVE LedgerTypeOK'
  <2>1. record' \in Metadata
    <3>1. transfers[confirming[r].tx].amount \in Nat /\ confirming[r].seen \in Metadata
      BY <1>6, <1>7 DEF SaveDeposit, LedgerTypeOK
    <3> QED
      BY <1>7, <3>1 DEF SaveDeposit, Metadata, Known, Figure
  <2> QED
    BY <1>6, <1>7, <2>1 DEF SaveDeposit, LedgerTypeOK, AccountStatuses
<1>8. ASSUME NEW r \in Confirmations, SaveWithdraw(r) PROVE LedgerTypeOK'
  <2>1. record' \in Metadata
    <3>1. transfers[confirming[r].tx].amount \in Nat /\ confirming[r].seen \in Metadata
      BY <1>6, <1>8 DEF SaveWithdraw, LedgerTypeOK
    <3>2. Figures(confirming[r].seen) \in Nat
      BY <3>1 DEF Figures, Metadata, Figure
    <3>3. Less(Figures(confirming[r].seen), transfers[confirming[r].tx].amount) \in Nat
      BY <3>1, <3>2 DEF Less
    <3> QED
      BY <1>8, <3>1, <3>3 DEF SaveWithdraw, AfterWithdraw, Metadata, Known, Figure
  <2> QED
    BY <1>6, <1>8, <2>1 DEF SaveWithdraw, LedgerTypeOK
<1>9. ASSUME NEW r \in Confirmations, SaveAccount(r) PROVE LedgerTypeOK'
  <2>1. NoConfirmation \in [tx: Txs \cup {"none", "account"}, seen: Metadata, was: AccountStatuses]
    BY DEF NoConfirmation, Metadata, Figure, Missing, AccountStatuses
  <2> QED
    BY <1>9, <2>1 DEF SaveAccount, LedgerTypeOK
<1>10. CASE UNCHANGED ledger
  BY <1>10 DEF ledger, LedgerTypeOK
<1> QED
  BY <1>1, <1>2, <1>3, <1>4, <1>5, <1>7, <1>8, <1>9, <1>10
     DEF LedgerNext, Confirm, CreateAgain

LEMMA LedgerInvInit == LedgerInit => LedgerInv
<1> SUFFICES ASSUME LedgerInit PROVE LedgerInv
  OBVIOUS
<1>1. LedgerTypeOK
  BY DEF LedgerInit, LedgerTypeOK, NoConfirmation, Metadata, Figure, Missing, AccountStatuses
<1>2. Deposits = {} /\ Gone = {} /\ Unconfirmed(Txs) = {}
  BY DEF LedgerInit, Deposits, Gone, Unconfirmed
<1>3. Total({}) = 0
  BY <1>1, TransfersAdd, RowTotalAdds
<1>4. Balanced
  BY <1>2, <1>3 DEF LedgerInit, Balanced
<1>5. OneReader /\ Reading
  BY <1>2, LedgerConstants DEF LedgerInit, OneReader, Reading, NoConfirmation
<1>6. RecordCovered
  BY <1>2, <1>3
     DEF LedgerInit, RecordCovered, Recorded, Figures, NoConfirmation, Missing
<1> QED
  BY <1>1, <1>4, <1>5, <1>6 DEF LedgerInv

(* What the totals become when one transfer changes.                         *)
LEMMA TotalKept ==
  ASSUME LedgerTypeOK, LedgerTypeOK', NEW S \in SUBSET Txs,
         \A t \in S : transfers'[t].amount = transfers[t].amount
  PROVE  RowTotal(transfers', S) = Total(S) /\ Total(S) \in Nat
<1>1. \A t \in Txs : transfers[t].amount \in Nat /\ transfers'[t].amount \in Nat
  BY DEF LedgerTypeOK
<1>2. RowTotal(transfers, S) = RowTotal(transfers', S)
  BY <1>1, LedgerConstants, RowTotalSame
<1>3. RowTotal(transfers, S) \in Nat
  BY <1>1, LedgerConstants, RowTotalAdds
<1> QED
  BY <1>2, <1>3, TransfersAdd

LEMMA TotalJoins ==
  ASSUME LedgerTypeOK, LedgerTypeOK', NEW S \in SUBSET Txs, NEW c \in Txs \ S,
         \A t \in S : transfers'[t].amount = transfers[t].amount
  PROVE  /\ RowTotal(transfers', S \cup {c}) = Total(S) + transfers'[c].amount
         /\ Total(S) \in Nat /\ transfers'[c].amount \in Nat
<1>1. \A t \in Txs : transfers[t].amount \in Nat /\ transfers'[t].amount \in Nat
  BY DEF LedgerTypeOK
<1>2. RowTotal(transfers', S \cup {c}) = RowTotal(transfers, S) + transfers'[c].amount
  BY <1>1, LedgerConstants, RowTotalJoins
<1>3. RowTotal(transfers, S) \in Nat
  BY <1>1, LedgerConstants, RowTotalAdds
<1> QED
  BY <1>1, <1>2, <1>3, TransfersAdd

LEMMA TotalLeaves ==
  ASSUME LedgerTypeOK, NEW S \in SUBSET Txs, NEW c \in S
  PROVE  /\ Total(S) = Total(S \ {c}) + transfers[c].amount
         /\ Total(S \ {c}) \in Nat /\ transfers[c].amount \in Nat
<1>1. S \ {c} \in SUBSET Txs /\ c \in Txs
  OBVIOUS
<1>2. \A t \in Txs : transfers[t].amount \in Nat
  BY DEF LedgerTypeOK
<1>3. RowTotal(transfers, S) = transfers[c].amount + RowTotal(transfers, S \ {c})
  BY <1>1, <1>2, LedgerConstants, RowTotalAdds
<1>4. RowTotal(transfers, S \ {c}) \in Nat
  BY <1>1, <1>2, LedgerConstants, RowTotalAdds
<1>5. transfers[c].amount \in Nat
  BY <1>1, <1>2
<1>6. Total(S) = RowTotal(transfers, S) /\ Total(S \ {c}) = RowTotal(transfers, S \ {c})
  BY TransfersAdd
<1> QED
  BY <1>3, <1>4, <1>5, <1>6

(* A step that changes no amount nor who is in which set.                    *)
LEMMA SameTotals ==
  ASSUME LedgerTypeOK, LedgerTypeOK',
         Deposits' = Deposits, Gone' = Gone, Unconfirmed(Txs)' = Unconfirmed(Txs),
         \A t \in Txs : transfers'[t].amount = transfers[t].amount
  PROVE  /\ Total(Deposits)' = Total(Deposits) /\ Total(Gone)' = Total(Gone)
         /\ Total(Unconfirmed(Txs))' = Total(Unconfirmed(Txs))
  BY TransfersAdd, TransfersAddNext, TotalKept

LEMMA FiguresAreNumbers ==
  ASSUME NEW m \in Metadata
  PROVE  Figures(m) \in Nat
  BY DEF Figures, Metadata, Figure

LEMMA LedgerDeposit ==
  ASSUME LedgerInv, LedgerTypeOK', NEW t \in Txs, NEW n \in Amounts, Deposit(t, n)
  PROVE  LedgerInv'
<1> USE DEF LedgerInv
<1>1. /\ transfers[t].kind = "none" /\ funds' = funds + n /\ n \in Nat
      /\ transfers'[t].kind = "deposit" /\ transfers'[t].amount = n
      /\ transfers'[t].state = "mined"
      /\ \A o \in Txs : o # t => transfers'[o] = transfers[o]
      /\ UNCHANGED <<record, confirming, paid, overlapped>>
  BY LedgerConstants DEF Deposit, Amounts, LedgerTypeOK
<1>2. /\ t \notin Deposits /\ Deposits' = Deposits \cup {t}
      /\ Gone' = Gone /\ Unconfirmed(Txs)' = Unconfirmed(Txs)
      /\ t \notin Gone /\ t \notin Unconfirmed(Txs)
  BY <1>1 DEF Deposits, Gone, Unconfirmed
<1>3. Total(Deposits)' = Total(Deposits) + n /\ Total(Deposits) \in Nat
  BY <1>1, <1>2, TotalJoins, TransfersAdd, TransfersAddNext
<1>4. /\ Total(Gone)' = Total(Gone) /\ Total(Gone) \in Nat
      /\ Total(Unconfirmed(Txs))' = Total(Unconfirmed(Txs))
      /\ Total(Unconfirmed(Txs)) \in Nat
  BY <1>1, <1>2, TotalKept, TransfersAdd, TransfersAddNext
<1>5. Balanced'
  BY <1>1, <1>3, <1>4 DEF Balanced, LedgerTypeOK
<1>6. OneReader'
  BY <1>1, <1>2 DEF OneReader, Gone
<1>7. Reading'
  BY <1>1 DEF Reading, LedgerTypeOK
<1>8. RecordCovered'
  <2>1. Recorded \in Nat
    BY FiguresAreNumbers DEF Recorded, LedgerTypeOK
  <2>2. Recorded' = Recorded
    BY <1>1 DEF Recorded
  <2> QED
    BY <1>1, <1>4, <2>1, <2>2 DEF RecordCovered, LedgerTypeOK
<1> QED
  BY <1>5, <1>6, <1>7, <1>8

LEMMA LedgerPrepare ==
  ASSUME LedgerInv, LedgerTypeOK', NEW t \in Txs, NEW n \in Amounts,
         PrepareWithdraw(t, n)
  PROVE  LedgerInv'
<1> USE DEF LedgerInv
<1>1. /\ transfers[t].kind = "none" /\ transfers[t].state = "new"
      /\ transfers'[t].kind = "withdraw" /\ transfers'[t].state = "signed"
      /\ \A o \in Txs : o # t => transfers'[o] = transfers[o]
      /\ UNCHANGED <<funds, record, confirming, paid, overlapped>>
  BY DEF PrepareWithdraw, LedgerTypeOK, Reading
<1>2. /\ Deposits' = Deposits /\ t \notin Deposits
      /\ Gone' = Gone /\ Unconfirmed(Txs)' = Unconfirmed(Txs)
      /\ t \notin Gone /\ t \notin Unconfirmed(Txs)
  BY <1>1 DEF Deposits, Gone, Unconfirmed
<1>3. /\ Total(Deposits)' = Total(Deposits) /\ Total(Gone)' = Total(Gone)
      /\ Total(Unconfirmed(Txs))' = Total(Unconfirmed(Txs))
  BY <1>1, <1>2, TotalKept, TransfersAdd, TransfersAddNext
<1>4. Balanced' /\ RecordCovered'
  BY <1>1, <1>3 DEF Balanced, RecordCovered, Recorded
<1>5. OneReader'
  BY <1>1, <1>2 DEF OneReader, Gone
<1>6. Reading'
  BY <1>1 DEF Reading, LedgerTypeOK
<1> QED
  BY <1>4, <1>5, <1>6

LEMMA LedgerWithdraw ==
  ASSUME LedgerInv, LedgerTypeOK', NEW t \in Txs, Withdraw(t)
  PROVE  LedgerInv'
<1> USE DEF LedgerInv
<1> DEFINE a == transfers[t].amount
<1>0. a \in Nat /\ funds \in Nat /\ paid \in Nat
  BY DEF LedgerTypeOK
<1>1. /\ transfers[t].kind = "withdraw" /\ transfers[t].state = "signed"
      /\ transfers'[t].kind = "withdraw" /\ transfers'[t].amount = a
      /\ \A o \in Txs : o # t => transfers'[o] = transfers[o]
      /\ UNCHANGED <<record, confirming, paid, overlapped>>
  BY DEF Withdraw, LedgerTypeOK
<1>2. Deposits' = Deposits /\ t \notin Gone /\ t \notin Unconfirmed(Txs)
  BY <1>1 DEF Deposits, Gone, Unconfirmed
<1>3. Total(Deposits)' = Total(Deposits)
  BY <1>1, <1>2, TotalKept, TransfersAdd, TransfersAddNext
<1>4. Reading'
  BY <1>1 DEF Reading, LedgerTypeOK
<1>5. CASE transfers'[t].state = "mined" /\ a <= funds /\ funds' = funds - a
  <2>1. /\ Gone' = Gone \cup {t}
        /\ Unconfirmed(Txs)' = Unconfirmed(Txs) \cup {t}
    BY <1>1, <1>5 DEF Gone, Unconfirmed
  <2>2. /\ Total(Gone)' = Total(Gone) + a /\ Total(Gone) \in Nat
        /\ Total(Unconfirmed(Txs))' = Total(Unconfirmed(Txs)) + a
        /\ Total(Unconfirmed(Txs)) \in Nat
    BY <1>1, <1>2, <2>1, TotalJoins, TransfersAdd, TransfersAddNext
  <2> HIDE DEF a
  <2>3. Balanced'
    BY <1>0, <1>1, <1>3, <1>5, <2>2 DEF Balanced
  <2>4. RecordCovered'
    <3>1. Recorded' = Recorded /\ Recorded \in Nat
      BY <1>1, FiguresAreNumbers DEF Recorded, LedgerTypeOK
    <3> QED
      BY <1>0, <1>1, <1>5, <2>2, <3>1 DEF RecordCovered
  <2>5. OneReader'
    BY <1>1, <1>5, <2>1 DEF OneReader, Gone
  <2> QED
    BY <1>4, <2>3, <2>4, <2>5
<1>6. CASE transfers'[t].state = "reverted" /\ funds' = funds
  <2>1. Gone' = Gone /\ Unconfirmed(Txs)' = Unconfirmed(Txs)
    BY <1>1, <1>2, <1>6 DEF Gone, Unconfirmed
  <2>2. /\ Total(Gone)' = Total(Gone)
        /\ Total(Unconfirmed(Txs))' = Total(Unconfirmed(Txs))
    BY <1>1, <1>2, <2>1, TotalKept, TransfersAdd, TransfersAddNext
  <2>3. Balanced' /\ RecordCovered'
    BY <1>1, <1>3, <1>6, <2>2 DEF Balanced, RecordCovered, Recorded
  <2>4. OneReader'
    BY <1>1, <1>2, <2>1 DEF OneReader, Gone
  <2> QED
    BY <1>4, <2>3, <2>4
<1>7. \/ transfers'[t].state = "mined" /\ a <= funds /\ funds' = funds - a
      \/ transfers'[t].state = "reverted" /\ funds' = funds
  BY DEF Withdraw, LedgerTypeOK
<1> QED
  BY <1>5, <1>6, <1>7

(* A step that leaves the transfers alone.                                   *)
LEMMA SameTransfers ==
  ASSUME LedgerInv, LedgerTypeOK', UNCHANGED transfers
  PROVE  /\ Total(Deposits)' = Total(Deposits) /\ Total(Gone)' = Total(Gone)
         /\ Total(Unconfirmed(Txs))' = Total(Unconfirmed(Txs))
         /\ Gone' = Gone
         /\ Total(Gone) \in Nat /\ Total(Unconfirmed(Txs)) \in Nat
<1>1. Deposits' = Deposits /\ Gone' = Gone /\ Unconfirmed(Txs)' = Unconfirmed(Txs)
  BY DEF Deposits, Gone, Unconfirmed
<1> QED
  BY <1>1, SameTotals, TotalKept, TransfersAdd DEF LedgerInv

LEMMA LedgerSpend ==
  ASSUME LedgerInv, LedgerTypeOK', Spend
  PROVE  LedgerInv'
<1> USE DEF LedgerInv
<1>1. /\ funds \in Nat /\ paid \in Nat /\ funds # 0
      /\ funds' = funds - 1 /\ paid' = paid + 1
      /\ UNCHANGED <<transfers, record, confirming, overlapped>>
  BY DEF Spend, LedgerTypeOK
<1>2. /\ Total(Deposits)' = Total(Deposits) /\ Total(Gone)' = Total(Gone)
      /\ Total(Unconfirmed(Txs))' = Total(Unconfirmed(Txs)) /\ Gone' = Gone
      /\ Total(Gone) \in Nat /\ Total(Unconfirmed(Txs)) \in Nat
  BY <1>1, SameTransfers
<1>3. Balanced'
  BY <1>1, <1>2 DEF Balanced
<1>4. RecordCovered'
  <2>1. Recorded' = Recorded /\ Recorded \in Nat
    BY <1>1, FiguresAreNumbers DEF Recorded, LedgerTypeOK
  <2> QED
    BY <1>1, <1>2, <2>1 DEF RecordCovered
<1>5. OneReader' /\ Reading'
  BY <1>1, <1>2 DEF OneReader, Reading
<1> QED
  BY <1>3, <1>4, <1>5

LEMMA LedgerLoad ==
  ASSUME LedgerInv, LedgerTypeOK', NEW r \in Confirmations, NEW t \in Txs \cup {"account"},
         Load(r, t), t \in Txs => transfers[t].state \in {"mined", "confirmed"}
  PROVE  LedgerInv'
<1> USE DEF LedgerInv
<1>1. /\ UNCHANGED <<funds, transfers, record, paid>>
      /\ confirming'[r].tx = t /\ confirming'[r].seen = record
      /\ \A o \in Confirmations : o # r => confirming'[o] = confirming[o]
  BY DEF Load, LedgerTypeOK
<1>2. ~ overlapped' => /\ ~ overlapped
                       /\ \A o \in Confirmations : o # r => confirming[o].tx = "none"
  BY DEF Load
<1>3. /\ Total(Deposits)' = Total(Deposits) /\ Total(Gone)' = Total(Gone)
      /\ Total(Unconfirmed(Txs))' = Total(Unconfirmed(Txs)) /\ Gone' = Gone
  BY <1>1, SameTransfers
<1>4. Balanced' /\ RecordCovered'
  BY <1>1, <1>2, <1>3 DEF Balanced, RecordCovered, Recorded
<1>5. OneReader'
  BY <1>1, <1>2, <1>3 DEF OneReader
<1>6. Reading'
  BY <1>1 DEF Reading
<1> QED
  BY <1>4, <1>5, <1>6

(* Whoever saves has read the record as it is, unless two overlapped, and    *)
(* nobody is left reading.                                                   *)
LEMMA Finished ==
  ASSUME LedgerInv, LedgerTypeOK', NEW r \in Confirmations, NEW kind, Finish(r, kind)
  PROVE  /\ confirming[r].tx \in Txs /\ transfers[confirming[r].tx].kind = kind
         /\ transfers[confirming[r].tx].state \in {"mined", "confirmed"}
         /\ \A t \in Txs : /\ transfers'[t].kind = transfers[t].kind
                            /\ transfers'[t].amount = transfers[t].amount
         /\ transfers'[confirming[r].tx].state = "confirmed"
         /\ \A t \in Txs : t # confirming[r].tx => transfers'[t] = transfers[t]
         /\ UNCHANGED <<funds, paid, overlapped>>
         /\ ~ overlapped => /\ confirming[r].seen = record
                            /\ \A o \in Confirmations : confirming'[o].tx = "none"
         /\ Reading'
<1> USE DEF LedgerInv
<1>1. confirming[r].tx # "none" /\ confirming[r].tx \in Txs
  BY LedgerConstants DEF Finish
<1>2. /\ transfers' = [transfers EXCEPT ![confirming[r].tx].state = "confirmed"]
      /\ confirming' = [confirming EXCEPT ![r] = NoConfirmation]
      /\ transfers[confirming[r].tx].kind = kind
      /\ UNCHANGED <<funds, paid, overlapped>>
  BY DEF Finish
<1>3. /\ \A t \in Txs : /\ transfers'[t].kind = transfers[t].kind
                         /\ transfers'[t].amount = transfers[t].amount
      /\ transfers'[confirming[r].tx].state = "confirmed"
      /\ \A t \in Txs : t # confirming[r].tx => transfers'[t] = transfers[t]
  BY <1>1, <1>2 DEF LedgerTypeOK
<1>4. /\ confirming'[r].tx = "none"
      /\ \A o \in Confirmations : o # r => confirming'[o] = confirming[o]
  BY <1>2 DEF LedgerTypeOK, NoConfirmation
<1>5. transfers[confirming[r].tx].state \in {"mined", "confirmed"}
  BY <1>1 DEF Reading
<1>6. ~ overlapped => /\ confirming[r].seen = record
                      /\ \A o \in Confirmations : confirming'[o].tx = "none"
  BY <1>1, <1>4 DEF OneReader
<1>7. ASSUME NEW o \in Confirmations, confirming'[o].tx \in Txs
      PROVE  transfers'[confirming'[o].tx].state \in {"mined", "confirmed"}
  <2>1. o # r /\ confirming'[o] = confirming[o]
    BY <1>4, <1>7, LedgerConstants
  <2>2. confirming[o].tx \in Txs /\ transfers[confirming[o].tx].state \in {"mined", "confirmed"}
    BY <1>7, <2>1 DEF Reading, LedgerTypeOK
  <2> QED
    BY <1>3, <2>1, <2>2
<1>8. Reading'
  <2>1. \A t \in Txs : transfers'[t].kind = "none" => transfers'[t].state = "new"
    BY <1>1, <1>3, <1>5 DEF Reading
  <2> QED
    BY <1>7, <2>1 DEF Reading
<1> QED
  BY <1>1, <1>2, <1>3, <1>5, <1>6, <1>8

LEMMA LedgerSaveDeposit ==
  ASSUME LedgerInv, LedgerTypeOK', NEW r \in Confirmations, SaveDeposit(r)
  PROVE  LedgerInv'
<1> USE DEF LedgerInv
<1> DEFINE t == confirming[r].tx
           a == transfers[t].amount
<1>1. /\ t \in Txs /\ transfers[t].kind = "deposit"
      /\ \A o \in Txs : /\ transfers'[o].kind = transfers[o].kind
                         /\ transfers'[o].amount = transfers[o].amount
      /\ \A o \in Txs : o # t => transfers'[o] = transfers[o]
      /\ UNCHANGED <<funds, paid, overlapped>>
      /\ ~ overlapped => /\ confirming[r].seen = record
                         /\ \A o \in Confirmations : confirming'[o].tx = "none"
      /\ Reading'
  BY Finished DEF SaveDeposit
<1>2. record' = [confirming[r].seen EXCEPT !.deposit = Known(a)]
  BY DEF SaveDeposit
<1>3. /\ Deposits' = Deposits /\ Gone' = Gone
      /\ Unconfirmed(Txs)' = Unconfirmed(Txs) /\ t \in Deposits
      /\ Gone \in SUBSET (Txs \ {t})
  BY <1>1 DEF Deposits, Gone, Unconfirmed
<1>4. /\ Total(Deposits)' = Total(Deposits) /\ Total(Gone)' = Total(Gone)
      /\ Total(Unconfirmed(Txs))' = Total(Unconfirmed(Txs))
  BY <1>1, <1>3, SameTotals
<1>5. Balanced'
  BY <1>1, <1>4 DEF Balanced
<1>6. ASSUME ~ overlapped
      PROVE  record' = [record EXCEPT !.deposit = Known(a)] /\ record \in Metadata
  BY <1>1, <1>2, <1>6 DEF LedgerTypeOK
<1>7. OneReader'
  <2>1. ~ overlapped => record'.balance = record.balance
    BY <1>6 DEF Metadata
  <2> QED
    BY <1>1, <1>3, <2>1 DEF OneReader
<1>8. ASSUME ~ overlapped
      PROVE  Recorded' <= funds + Total(Unconfirmed(Txs)) + paid
  <2>1. record'.balance = record.balance /\ record'.deposit = Known(a)
    BY <1>6, <1>8 DEF Metadata
  <2>2. CASE record.balance.known
    <3>1. Recorded' = record.balance.amount /\ Recorded = record.balance.amount
      BY <2>1, <2>2 DEF Recorded, Figures
    <3> QED
      BY <1>8, <3>1 DEF RecordCovered
  <2>3. CASE ~ record.balance.known
    <3>1. Recorded' = a
      BY <2>1, <2>3 DEF Recorded, Figures, Known
    <3>2. Gone = Unconfirmed(Txs)
      BY <1>8, <2>3 DEF OneReader, Gone, Unconfirmed
    <3>3. /\ Total(Deposits) = Total(Deposits \ {t}) + a
          /\ Total(Deposits \ {t}) \in Nat /\ a \in Nat
      BY <1>3, TotalLeaves, TransfersAdd
    <3>4. a <= Total(Deposits)
      BY <3>3
    <3> QED
      BY <3>1, <3>2, <3>4 DEF Balanced
  <2> QED
    BY <2>2, <2>3
<1>9. RecordCovered'
  BY <1>1, <1>4, <1>8 DEF RecordCovered
<1> QED
  BY <1>1, <1>5, <1>7, <1>9

LEMMA LedgerSaveWithdraw ==
  ASSUME LedgerInv, LedgerTypeOK', NEW r \in Confirmations, SaveWithdraw(r)
  PROVE  LedgerInv'
<1> USE DEF LedgerInv
<1> DEFINE t == confirming[r].tx
           a == transfers[t].amount
<1>1. /\ t \in Txs /\ transfers[t].kind = "withdraw"
      /\ transfers[t].state \in {"mined", "confirmed"}
      /\ transfers'[t].state = "confirmed"
      /\ \A o \in Txs : /\ transfers'[o].kind = transfers[o].kind
                         /\ transfers'[o].amount = transfers[o].amount
      /\ \A o \in Txs : o # t => transfers'[o] = transfers[o]
      /\ UNCHANGED <<funds, paid, overlapped>>
      /\ ~ overlapped => /\ confirming[r].seen = record
                         /\ \A o \in Confirmations : confirming'[o].tx = "none"
      /\ Reading'
  BY Finished DEF SaveWithdraw
<1>2. record' = AfterWithdraw(confirming[r].seen, a)
  BY DEF SaveWithdraw
<1>3. /\ Deposits' = Deposits /\ Gone' = Gone
      /\ Unconfirmed(Txs)' = Unconfirmed(Txs) \ {t}
  BY <1>1 DEF Deposits, Gone, Unconfirmed
<1>4. /\ Total(Deposits)' = Total(Deposits) /\ Total(Gone)' = Total(Gone)
  BY <1>1, <1>3, TotalKept, TransfersAdd, TransfersAddNext
<1>5. Balanced'
  BY <1>1, <1>4 DEF Balanced
<1>6. ASSUME ~ overlapped
      PROVE  /\ record'.balance = Known(Less(Recorded, a)) /\ record'.balance.known
             /\ Recorded' = Less(Recorded, a)
  <2>1. record \in Metadata /\ confirming[r].seen = record
    BY <1>1, <1>6 DEF LedgerTypeOK
  <2>2. record'.balance = Known(Less(Recorded, a))
    BY <1>2, <2>1 DEF AfterWithdraw, Metadata, Recorded
  <2> QED
    BY <2>2 DEF Known, Recorded, Figures
<1>7. OneReader'
  BY <1>1, <1>6 DEF OneReader
<1>8. ASSUME ~ overlapped
      PROVE  Recorded' <= funds + Total(Unconfirmed(Txs))' + paid
  <2>1. /\ Recorded \in Nat /\ a \in Nat /\ funds \in Nat /\ paid \in Nat
        /\ Recorded <= funds + Total(Unconfirmed(Txs)) + paid
    BY <1>1, <1>8, FiguresAreNumbers DEF Recorded, LedgerTypeOK, RecordCovered
  <2>2. /\ Total(Unconfirmed(Txs))' = Total(Unconfirmed(Txs) \ {t})
        /\ Total(Unconfirmed(Txs) \ {t}) \in Nat
    BY <1>1, <1>3, TotalKept, TransfersAdd, TransfersAddNext
  <2>3. CASE t \in Unconfirmed(Txs)
    <3>1. Total(Unconfirmed(Txs)) = Total(Unconfirmed(Txs) \ {t}) + a
      BY <2>3, TotalLeaves, TransfersAdd
    <3> HIDE DEF a
    <3> QED
      BY <1>6, <1>8, <2>1, <2>2, <3>1 DEF Less
  <2>4. CASE t \notin Unconfirmed(Txs)
    <3>1. Unconfirmed(Txs) \ {t} = Unconfirmed(Txs)
      BY <2>4
    <3>2. Total(Unconfirmed(Txs))' = Total(Unconfirmed(Txs))
      BY <2>2, <3>1
    <3>3. Total(Unconfirmed(Txs)) \in Nat
      BY <2>2, <3>1
    <3> HIDE DEF a
    <3> QED
      BY <1>6, <1>8, <2>1, <3>2, <3>3 DEF Less
  <2> QED
    BY <2>3, <2>4
<1>9. RecordCovered'
  BY <1>1, <1>8 DEF RecordCovered
<1> QED
  BY <1>1, <1>5, <1>7, <1>9

LEMMA LedgerSaveAccount ==
  ASSUME LedgerInv, LedgerTypeOK', NEW r \in Confirmations, SaveAccount(r)
  PROVE  LedgerInv'
<1> USE DEF LedgerInv
<1>1. /\ record' = confirming[r].seen /\ confirming[r].tx = "account"
      /\ confirming'[r].tx = "none"
      /\ \A o \in Confirmations : o # r => confirming'[o] = confirming[o]
      /\ UNCHANGED <<funds, transfers, paid, overlapped>>
  BY DEF SaveAccount, LedgerTypeOK, NoConfirmation
<1>2. /\ Total(Deposits)' = Total(Deposits) /\ Total(Gone)' = Total(Gone)
      /\ Total(Unconfirmed(Txs))' = Total(Unconfirmed(Txs)) /\ Gone' = Gone
  BY <1>1, SameTransfers
<1>3. ~ overlapped => record' = record
  BY <1>1 DEF OneReader
<1>4. Balanced' /\ RecordCovered'
  BY <1>1, <1>2, <1>3 DEF Balanced, RecordCovered, Recorded
<1>5. OneReader'
  BY <1>1, <1>2, <1>3 DEF OneReader
<1>6. Reading'
  BY <1>1, LedgerConstants DEF Reading
<1> QED
  BY <1>4, <1>5, <1>6

LEMMA LedgerInvNext == LedgerInv /\ [LedgerNext]_ledger => LedgerInv'
<1> SUFFICES ASSUME LedgerInv, [LedgerNext]_ledger PROVE LedgerInv'
  OBVIOUS
<1>1. LedgerTypeOK'
  BY LedgerTypeNext DEF LedgerInv
<1>2. CASE UNCHANGED ledger
  <2>1. /\ UNCHANGED <<funds, transfers, record, confirming, paid, overlapped>>
    BY <1>2 DEF ledger
  <2>2. /\ Total(Deposits)' = Total(Deposits) /\ Total(Gone)' = Total(Gone)
        /\ Total(Unconfirmed(Txs))' = Total(Unconfirmed(Txs)) /\ Gone' = Gone
    BY <1>1, <2>1, SameTransfers
  <2> QED
    BY <1>1, <2>1, <2>2
       DEF LedgerInv, Balanced, OneReader, Reading, RecordCovered, Recorded
<1>3. ASSUME NEW r \in Confirmations, NEW t \in Txs, Confirm(r, t) PROVE LedgerInv'
  BY <1>1, <1>3, LedgerLoad DEF Confirm
<1>4. ASSUME NEW r \in Confirmations, CreateAgain(r) PROVE LedgerInv'
  BY <1>1, <1>4, LedgerConstants, LedgerLoad DEF CreateAgain
<1> QED
  BY <1>1, <1>2, <1>3, <1>4, LedgerDeposit, LedgerPrepare, LedgerWithdraw, LedgerSpend,
     LedgerSaveAccount, LedgerSaveDeposit, LedgerSaveWithdraw DEF LedgerNext

(* The balance on record never exceeds what the chain holds, the withdrawals *)
(* still to be confirmed and the agent's trades added, unless two requests   *)
(* that rewrite the record were in flight together.                          *)
THEOREM RecordIsCovered == LedgerSpec => []RecordCovered
<1>1. LedgerInv => RecordCovered
  BY DEF LedgerInv
<1> QED
  BY <1>1, LedgerInvInit, LedgerInvNext, PTL DEF LedgerSpec

-----------------------------------------------------------------------------
(* The argument for RefusedForCause.  An order that is priced on the grid    *)
(* stays on it, ends before the market does, and, until it is mined, either  *)
(* an approval is awaited or what is approved covers its dearest fill; the   *)
(* limit order that may replace it is for the same size at a price no dearer,*)
(* because the market order's limit is the last tick of the book.            *)

OrderFields ==
  {"pc", "side", "outcome", "notional", "asked", "shown", "type", "limit", "qty",
   "booked", "expire", "approve", "onGrid", "got", "paid", "why"}

OrderShape ==
  /\ now \in 0..Close /\ allowance \in Nat /\ elsewhere \in BOOLEAN
  /\ DOMAIN order = OrderFields
  /\ order.pc \in {"none", "priced", "ready", "resting", "done", "reverted"}
  /\ order.side \in {"BUY", "SELL"} /\ order.outcome \in {"YES", "NO"}
  /\ order.notional \in BOOLEAN /\ order.approve \in BOOLEAN
  /\ order.onGrid \in BOOLEAN
  /\ order.limit \in 0..Scale /\ order.qty \in Nat

(* The size a request comes to on the pool's grid.                           *)
Raw(o) == IF o.notional THEN NotionalToQuantity(o.asked, o.shown) ELSE o.asked
Sized(o) == Align(Raw(o), Grid(TRUE))

AskedFor ==
  order.pc \in {"priced", "ready"} =>
    /\ order.asked \in 1..MaxAsked /\ order.shown \in Prices
    /\ order.qty <= MaxAsked * Scale
    /\ order.expire \in Int /\ order.expire <= Close

OnItsGrid ==
  order.pc \in {"priced", "ready"} /\ order.onGrid =>
    order.limit % Step = 0 /\ order.qty % Lot = 0 /\ order.qty >= MinLot

AtMarket ==
  order.pc = "priced" /\ order.onGrid =>
    /\ order.qty = Sized(order)
    /\ order.limit = MarketLimit(order.side, order.outcome, Grid(TRUE))

Approved ==
  order.pc \in {"priced", "ready"} /\ order.onGrid /\ ~ order.approve /\ ~ elsewhere =>
    ~ Lacking(order)

EntryInv == OrderShape /\ AskedFor /\ OnItsGrid /\ AtMarket /\ Approved /\ RefusedForCause

(* Whole division, as far as it is needed.                                   *)
LEMMA Product ==
  ASSUME NEW a \in Nat, NEW b \in Nat, NEW c \in Nat, a <= b
  PROVE  a * c \in Nat /\ a * c <= b * c /\ c * a <= c * b
OBVIOUS

LEMMA Division ==
  ASSUME NEW n \in Nat, NEW d \in Nat \ {0}
  PROVE  n \div d \in Nat /\ n \div d <= n /\ n % d \in 0..d - 1
OBVIOUS

LEMMA Snapped ==
  ASSUME NEW n \in Nat, NEW d \in Nat \ {0}
  PROVE  (n \div d) * d \in 0..n /\ ((n \div d) * d) % d = 0
<1>1. n \div d \in Nat
  BY Division
<1>2. (n \div d) * d \in 0..n
  BY <1>1
<1>3. \A q \in Nat : (q * d) % d = 0
  OBVIOUS
<1> QED
  BY <1>1, <1>2, <1>3

LEMMA Whole ==
  ASSUME NEW n \in Nat, NEW d \in Nat \ {0}, n % d = 0
  PROVE  (n \div d) * d = n /\ (n >= d => (n - d) % d = 0)
<1>1. PICK q \in Nat : n = q * d
  OBVIOUS
<1>2. n \div d = q
  BY <1>1
<1>3. ASSUME n >= d PROVE (n - d) % d = 0
  <2>1. q # 0
    BY <1>1, <1>3
  <2>2. n - d = (q - 1) * d /\ q - 1 \in Nat
    BY <1>1, <2>1
  <2>3. \A p \in Nat : (p * d) % d = 0
    OBVIOUS
  <2> QED
    BY <2>2, <2>3
<1> QED
  BY <1>1, <1>2, <1>3

LEMMA DivisionGrows ==
  ASSUME NEW m \in Nat, NEW n \in Nat, NEW d \in Nat \ {0}, m <= n
  PROVE  m \div d <= n \div d
OBVIOUS

LEMMA DivisionUndoes ==
  ASSUME NEW n \in Nat, NEW d \in Nat \ {0}
  PROVE  (n * d) \div d = n
OBVIOUS

(* quantize never returns more than the number of units it divides.          *)
LEMMA NearestBound ==
  ASSUME NEW n \in Nat, NEW d \in Nat \ {0}
  PROVE  Nearest(n, d) \in 0..n
<1>1. n \div d \in Nat /\ n \div d <= n /\ n % d \in 0..d - 1
  BY Division
<1>2. CASE d = 1
  <2>1. n % d = 0
    BY <1>1, <1>2
  <2> QED
    BY <1>1, <1>2, <2>1 DEF Nearest
<1>3. CASE n = 0
  <2>1. n % d = 0
    BY <1>3, Snapped
  <2> QED
    BY <1>1, <1>3, <2>1 DEF Nearest
<1>4. CASE d >= 2 /\ n >= 1
  <2>1. (n \div d) * d <= n
    BY Snapped
  <2>2. (n \div d) * 2 <= (n \div d) * d
    BY <1>1, <1>4
  <2>3. n \div d + 1 <= n
    BY <1>1, <1>4, <2>1, <2>2
  <2> QED
    BY <1>1, <2>3 DEF Nearest
<1> QED
  BY <1>2, <1>3, <1>4

LEMMA LeastOfTwo ==
  ASSUME NEW a \in Int, NEW b \in Int
  PROVE  /\ Min({a, b}) = IF a <= b THEN a ELSE b
         /\ Max({a, b}) = IF a <= b THEN b ELSE a
<1>1. Min({a, b}) = IF a <= b THEN a ELSE b
  BY DEF Min
<1>2. Max({a, b}) = IF a <= b THEN b ELSE a
  BY DEF Max
<1> QED
  BY <1>1, <1>2

(* What the grid does to a size, and to a limit.                             *)
LEMMA AlignFits ==
  ASSUME NEW qty \in Nat, NEW read \in BOOLEAN
  PROVE  LET q == Align(qty, Grid(read)) IN
         /\ q \in 0..qty
         /\ read /\ q > 0 => q % Lot = 0 /\ q >= MinLot
<1> DEFINE g == Grid(read)
           s == (qty \div g.lot) * g.lot
<1>1. g.lot \in Nat \ {0} /\ g.min \in Nat \ {0} /\ (read => g.lot = Lot /\ g.min = MinLot)
  BY OrderConstants DEF Grid
<1>2. s \in 0..qty /\ s % g.lot = 0
  BY <1>1, Snapped
<1>3. Align(qty, g) = IF s < (IF g.min > g.lot THEN g.min ELSE g.lot) THEN 0 ELSE s
  BY DEF Align
<1> HIDE DEF s, g
<1>4. Align(qty, g) \in 0..qty
  BY <1>1, <1>2, <1>3
<1>5. read /\ Align(qty, g) > 0 => Align(qty, g) % Lot = 0 /\ Align(qty, g) >= MinLot
  BY <1>1, <1>2, <1>3
<1> QED
  BY <1>4, <1>5 DEF g

LEMMA MarketLimitFits ==
  ASSUME NEW side \in {"BUY", "SELL"}, NEW outcome \in {"YES", "NO"}, NEW read \in BOOLEAN
  PROVE  LET l == MarketLimit(side, outcome, Grid(read)) IN
         /\ l \in 1..Scale - 1
         /\ read => l % Step = 0
         /\ read /\ side = "BUY" => PerShare(outcome, l) = Scale - Step
<1>1. Scale \in Nat /\ Step \in Nat \ {0} /\ Step < Scale /\ Scale % Step = 0
  BY OrderConstants
<1>2. MarketLimit(side, outcome, Grid(read)) =
        IF PaysYes(side, outcome) THEN Scale - Grid(read).step ELSE Grid(read).step
  BY DEF MarketLimit
<1>3. Grid(read).step = IF read THEN Step ELSE 1
  BY DEF Grid
<1>4. Step % Step = 0 /\ (Scale - Step) % Step = 0
  <2>1. (Scale - Step) % Step = 0
    <3>1. (Scale \div Step) * Step = Scale
            /\ (Scale >= Step => (Scale - Step) % Step = 0)
      BY <1>1, Whole
    <3> QED
      BY <1>1, <3>1
  <2>2. Step = 1 * Step /\ \A q \in Nat : (q * Step) % Step = 0
    BY <1>1
  <2> QED
    BY <2>1, <2>2
<1>5. side = "BUY" => (PaysYes(side, outcome) <=> outcome = "YES")
  BY DEF PaysYes
<1>6. MarketLimit(side, outcome, Grid(read)) \in 1..Scale - 1
  BY <1>1, <1>2, <1>3
<1>7. read => MarketLimit(side, outcome, Grid(read)) % Step = 0
  BY <1>2, <1>3, <1>4
<1>8. read /\ side = "BUY" =>
        PerShare(outcome, MarketLimit(side, outcome, Grid(read))) = Scale - Step
  BY <1>1, <1>2, <1>3, <1>5 DEF PerShare
<1> QED
  BY <1>6, <1>7, <1>8

(* A LIMIT at the price shown pays no more for a share than the last tick.   *)
LEMMA LimitFits ==
  ASSUME NEW side \in {"BUY", "SELL"}, NEW outcome \in {"YES", "NO"},
         NEW shown \in Prices, NEW read \in BOOLEAN
  PROVE  LET l == LimitOf(side, outcome, "LIMIT", shown, Grid(read)) IN
         /\ l \in 0..Scale - 1
         /\ read => l % Step = 0
         /\ read /\ l > 0 => PerShare(outcome, l) \in 0..Scale - Step
<1>1. Scale \in Nat /\ Step \in Nat \ {0} /\ Step < Scale /\ Scale % Step = 0
  BY OrderConstants
<1>2. shown \in Nat /\ shown < Scale
  BY <1>1 DEF Prices
<1> DEFINE g == IF read THEN Step ELSE 1
           l == (shown \div g) * g
<1>3. LimitOf(side, outcome, "LIMIT", shown, Grid(read)) = l
  BY DEF LimitOf, Grid
<1>4. g \in Nat \ {0}
  BY <1>1
<1>5. l \in 0..shown /\ l % g = 0
  BY <1>2, <1>4, Snapped
<1>6. read => l % Step = 0
  BY <1>5
<1>7. ASSUME read PROVE l <= Scale - Step /\ (l > 0 => l >= Step)
  <2>1. Scale \div Step \in Nat /\ shown \div Step \in Nat
    BY <1>1, <1>2, Division
  <2>2. Scale = (Scale \div Step) * Step
    BY <1>1, Whole
  <2>3. (shown \div Step) * Step < (Scale \div Step) * Step
    <3>1. (shown \div Step) * Step \in 0..shown
      BY <1>5, <1>7
    <3> QED
      BY <1>1, <1>2, <2>2, <3>1
  <2>4. shown \div Step < Scale \div Step
    BY <1>1, <2>1, <2>3
  <2>5. shown \div Step <= Scale \div Step - 1
    BY <2>1, <2>4
  <2>6. (shown \div Step) * Step <= (Scale \div Step - 1) * Step
    BY <1>1, <2>1, <2>5, <2>4, Product
  <2>7. (Scale \div Step - 1) * Step = (Scale \div Step) * Step - Step
    BY <1>1, <2>1
  <2>8. (shown \div Step) > 0 => (shown \div Step) * Step >= Step
    BY <1>1, <2>1
  <2>9. (shown \div Step) = 0 => (shown \div Step) * Step = 0
    BY <1>1
  <2> QED
    BY <1>1, <1>7, <2>1, <2>2, <2>6, <2>7, <2>8, <2>9
<1>8. read /\ l > 0 => PerShare(outcome, l) \in 0..Scale - Step
  <2> HIDE DEF l
  <2> QED
    BY <1>1, <1>2, <1>5, <1>7 DEF PerShare
<1> HIDE DEF l
<1>9. l \in 0..Scale - 1
  BY <1>1, <1>2, <1>5
<1> QED
  BY <1>3, <1>6, <1>8, <1>9

(* What a buy may cost at most, in dollars.                                  *)
LEMMA QuoteBound ==
  ASSUME NEW qty \in Nat, NEW price \in 0..Scale
  PROVE  /\ (qty * price) \div Scale \in 0..qty
         /\ \A p \in 0..price : (qty * p) \div Scale <= (qty * price) \div Scale
<1>1. Scale \in Nat \ {0}
  BY OrderConstants
<1>2. \A p \in 0..price : qty * p \in Nat /\ qty * p <= qty * price
  BY <1>1, Product
<1>3. qty * price \in Nat /\ qty * price <= qty * Scale /\ qty * Scale \in Nat
  BY <1>1, Product
<1>4. (qty * Scale) \div Scale = qty
  BY <1>1, DivisionUndoes
<1>5. (qty * price) \div Scale <= (qty * Scale) \div Scale
  BY <1>1, <1>3, DivisionGrows
<1>6. \A p \in 0..price : (qty * p) \div Scale <= (qty * price) \div Scale
  BY <1>1, <1>2, <1>3, DivisionGrows
<1>7. (qty * price) \div Scale \in Nat
  BY <1>1, <1>3, Division
<1> QED
  BY <1>4, <1>5, <1>6, <1>7

LEMMA RequestBound ==
  ASSUME NEW asked \in 1..MaxAsked, NEW shown \in Prices
  PROVE  /\ NotionalToQuantity(asked, shown) \in 0..MaxAsked * Scale
         /\ asked <= MaxAsked * Scale /\ MaxAsked * Scale <= Unlimited
         /\ MaxAsked * Scale \in Nat /\ Unlimited \in Nat /\ Unlimited >= 1
<1>1. Scale \in Nat \ {0} /\ MaxAsked \in Nat /\ asked \in Nat /\ MaxAsked >= 1
  BY OrderConstants
<1>2. shown \in Nat \ {0}
  BY <1>1 DEF Prices
<1>3. asked * Scale \in Nat /\ asked * Scale <= MaxAsked * Scale
  BY <1>1, Product
<1>4. asked * 1 <= asked * Scale
  BY <1>1, Product
<1>5. MaxAsked * Scale \in Nat /\ (MaxAsked * Scale) * 1 <= (MaxAsked * Scale) * Scale
  BY <1>1, Product
<1>6. Unlimited \in Nat /\ MaxAsked * Scale <= Unlimited /\ Unlimited >= 1
  <2>1. MaxAsked * 1 <= MaxAsked * Scale
    BY <1>1, Product
  <2> QED
    BY <1>1, <1>5, <2>1 DEF Unlimited
<1>7. NotionalToQuantity(asked, shown) \in 0..asked * Scale
  BY <1>2, <1>3, NearestBound DEF NotionalToQuantity
<1> QED
  BY <1>1, <1>3, <1>4, <1>5, <1>6, <1>7

LEMMA EntryInit == Init => EntryInv
<1> SUFFICES ASSUME Init PROVE EntryInv
  OBVIOUS
<1>1. now = 0 /\ order = NoOrder /\ elsewhere = FALSE /\ allowance \in Allowances \cup {Unlimited}
  BY DEF Init
<1>2. Unlimited \in Nat /\ Allowances \subseteq Nat /\ Close \in Nat /\ Scale \in Nat
  <2>1. MaxAsked \in Nat /\ Scale \in Nat
    BY OrderConstants
  <2>2. MaxAsked * Scale \in Nat
    BY <2>1
  <2> QED
    BY <2>1, <2>2, OrderConstants DEF Unlimited
<1>3. OrderShape
  <2>1. /\ DOMAIN order = OrderFields
        /\ order.pc = "none" /\ order.side = "BUY" /\ order.outcome = "YES"
        /\ order.notional = TRUE /\ order.approve = FALSE /\ order.onGrid = TRUE
        /\ order.limit = 0 /\ order.qty = 0
    BY <1>1 DEF OrderFields, NoOrder
  <2>2. 0 \in 0..Close /\ 0 \in 0..Scale /\ allowance \in Nat
    BY <1>1, <1>2
  <2>3. now \in 0..Close
    BY <1>1, <1>2
  <2>4. elsewhere \in BOOLEAN
    BY <1>1
  <2>5. order.limit \in 0..Scale /\ order.qty \in Nat
    BY <2>1, <2>2
  <2>6. order.notional \in BOOLEAN /\ order.approve \in BOOLEAN /\ order.onGrid \in BOOLEAN
    BY <2>1
  <2> QED
    BY <1>1, <2>1, <2>2, <2>3, <2>4, <2>5, <2>6 DEF OrderShape
<1>4. order.pc = "none"
  BY <1>1 DEF NoOrder
<1> QED
  BY <1>3, <1>4 DEF EntryInv, AskedFor, OnItsGrid, AtMarket, Approved, RefusedForCause

LEMMA PricedKeeps ==
  ASSUME EntryInv, now < Close,
         NEW side \in {"BUY", "SELL"}, NEW outcome \in {"YES", "NO"},
         NEW notional \in BOOLEAN, NEW asked \in 1..MaxAsked, NEW shown \in Prices,
         NEW read \in BOOLEAN, Priced(side, outcome, notional, asked, shown, read)
  PROVE  EntryInv'
<1> DEFINE raw == IF notional THEN NotionalToQuantity(asked, shown) ELSE asked
           qty == Align(raw, Grid(read))
           limit == MarketLimit(side, outcome, Grid(read))
           o == [NoOrder EXCEPT
              !.pc = "priced", !.side = side, !.outcome = outcome, !.notional = notional,
              !.asked = asked, !.shown = shown, !.qty = qty, !.booked = qty,
              !.limit = limit, !.expire = ExpireAt(side), !.onGrid = read]
<1>1. PICK approve \in {Short(o), TRUE} : order' = [o EXCEPT !.approve = approve]
  BY DEF Priced, LimitOf
<1>2. qty > 0 /\ elsewhere' = FALSE /\ now' = now /\ allowance' = allowance
  BY DEF Priced
<1>3. now \in 0..Close /\ allowance \in Nat
  BY DEF EntryInv, OrderShape
<1>4. /\ DOMAIN order' = OrderFields /\ order'.pc = "priced" /\ order'.side = side
      /\ order'.outcome = outcome /\ order'.notional = notional /\ order'.asked = asked
      /\ order'.shown = shown /\ order'.qty = qty /\ order'.limit = limit
      /\ order'.expire = ExpireAt(side) /\ order'.onGrid = read /\ order'.approve = approve
  BY <1>1 DEF NoOrder, OrderFields
<1>5. o.side = side /\ o.qty = qty /\ o.limit = limit /\ o.outcome = outcome
  BY DEF NoOrder
<1>6. raw \in 0..MaxAsked * Scale /\ MaxAsked * Scale \in Nat
  BY RequestBound
<1>7. raw \in Nat
  BY <1>6
<1>8. qty \in 0..raw /\ (read => qty % Lot = 0 /\ qty >= MinLot)
  BY <1>2, <1>7, AlignFits
<1>9. limit \in 1..Scale - 1 /\ (read => limit % Step = 0)
  BY MarketLimitFits
<1>10. ExpireAt(side) \in Int /\ ExpireAt(side) <= Close
  <2>1. Close \in Nat /\ OrderLife \in Nat
    BY OrderConstants
  <2> DEFINE b == IF side = "BUY" THEN Close - 1 ELSE Max({Close - 1, now + 1})
  <2>2. b \in Int /\ b <= Close
    <3>1. Max({Close - 1, now + 1}) =
            IF Close - 1 <= now + 1 THEN now + 1 ELSE Close - 1
      <4> DEFINE u == Close - 1
                 w == now + 1
      <4>1. u \in Int /\ w \in Int
        BY <1>3, <2>1
      <4> HIDE DEF u, w
      <4>2. Max({u, w}) = IF u <= w THEN w ELSE u
        BY <4>1, LeastOfTwo
      <4> QED
        BY <4>2 DEF u, w
    <3> QED
      BY <1>3, <2>1, <3>1
  <2>3. ExpireAt(side) = Min({now + OrderLife, b})
    BY DEF ExpireAt
  <2> HIDE DEF b
  <2>4. Min({now + OrderLife, b}) = IF now + OrderLife <= b THEN now + OrderLife ELSE b
    BY <1>3, <2>1, <2>2, LeastOfTwo
  <2> QED
    BY <1>3, <2>1, <2>2, <2>3, <2>4
<1>11. Lacking(order)' <=> Short(o)
  <2>1. Quote(order') = Quote(o)
    BY <1>4, <1>5 DEF Quote
  <2>2. Short(o) <=> allowance < IF side = "BUY" THEN AtLeastOne(Quote(o)) ELSE 1
    BY <1>5 DEF Short, NoOperator
  <2> QED
    BY <1>2, <1>4, <2>1, <2>2 DEF Lacking
<1>12. approve \in BOOLEAN /\ (~ approve => ~ Short(o))
  <2>1. Short(o) \in BOOLEAN
    <3>1. qty \in Nat /\ limit \in 0..Scale /\ Scale \in Nat
      BY <1>6, <1>8, <1>9, OrderConstants
    <3>2. PerShare(outcome, limit) \in 0..Scale
      BY <3>1 DEF PerShare
    <3>3. Quote(o) \in Nat
      <4>1. Quote(o) = (qty * PerShare(outcome, limit)) \div Scale
        BY <1>5 DEF Quote
      <4> HIDE DEF qty, limit
      <4> QED
        BY <3>1, <3>2, <4>1, QuoteBound
    <3> HIDE DEF o, qty, limit
    <3> QED
      <4> DEFINE needed == AtLeastOne(Quote(o))
      <4>1. needed \in Nat
        BY <3>3 DEF AtLeastOne
      <4> HIDE DEF needed
      <4>2. (allowance < needed) \in BOOLEAN /\ (allowance < 1) \in BOOLEAN
        OBVIOUS
      <4>3. Short(o) = IF o.side = "BUY" THEN allowance < needed ELSE allowance < 1
        BY Zenon DEF Short, NoOperator, needed
      <4> QED
        BY <4>2, <4>3, Zenon
  <2> HIDE DEF o
  <2> QED
    BY <1>1, <2>1, Zenon
<1> HIDE DEF qty, limit, raw, o
<1>13. OrderShape'
  <2>1. limit \in 0..Scale /\ qty \in Nat
    BY <1>6, <1>8, <1>9, OrderConstants
  <2> QED
    BY <1>2, <1>3, <1>4, <1>12, <2>1 DEF OrderShape
<1>14. AskedFor'
  <2>1. qty <= MaxAsked * Scale
    BY <1>6, <1>8
  <2> QED
    BY <1>4, <1>10, <2>1 DEF AskedFor
<1>15. OnItsGrid'
  BY <1>4, <1>8, <1>9 DEF OnItsGrid
<1>16. AtMarket'
  <2>1. read => qty = Align(raw, Grid(TRUE)) /\ limit = MarketLimit(side, outcome, Grid(TRUE))
    BY DEF qty, limit
  <2>2. Raw(order') = raw
    BY <1>4 DEF Raw, raw
  <2> QED
    BY <1>4, <2>1, <2>2 DEF AtMarket, Sized
<1>17. Approved'
  BY <1>4, <1>11, <1>12 DEF Approved
<1>18. RefusedForCause'
  BY <1>4 DEF RefusedForCause
<1> QED
  BY <1>13, <1>14, <1>15, <1>16, <1>17, <1>18 DEF EntryInv

(* The state of an order that is given up.                                   *)
LEMMA GivenUp ==
  ASSUME EntryInv, order' = NoOrder,
         now' = now, allowance' = allowance, elsewhere' = elsewhere
  PROVE  EntryInv'
<1>1. /\ DOMAIN order' = OrderFields
      /\ order'.pc = "none" /\ order'.side = "BUY" /\ order'.outcome = "YES"
      /\ order'.notional = TRUE /\ order'.approve = FALSE /\ order'.onGrid = TRUE
      /\ order'.limit = 0 /\ order'.qty = 0
  BY DEF OrderFields, NoOrder
<1>2. 0 \in 0..Scale
  BY OrderConstants
<1>3. order'.limit \in 0..Scale /\ order'.qty \in Nat
  BY <1>1, <1>2
<1>4. order'.notional \in BOOLEAN /\ order'.approve \in BOOLEAN /\ order'.onGrid \in BOOLEAN
  BY <1>1
<1>5. OrderShape'
  BY <1>1, <1>3, <1>4 DEF EntryInv, OrderShape
<1> QED
  BY <1>1, <1>5 DEF EntryInv, AskedFor, OnItsGrid, AtMarket, Approved, RefusedForCause

(* The order as it is becomes the transaction to sign.                       *)
LEMMA ReadyKeeps ==
  ASSUME EntryInv, order.pc = "priced", order' = [order EXCEPT !.pc = "ready"],
         now' = now, allowance' = allowance, elsewhere' = elsewhere
  PROVE  EntryInv'
<1>1. OrderShape
  BY DEF EntryInv
<1>2. /\ DOMAIN order' = OrderFields /\ order'.pc = "ready"
      /\ \A f \in OrderFields \ {"pc"} : order'[f] = order[f]
  BY <1>1 DEF OrderShape, OrderFields
<1>3. /\ order'.side = order.side /\ order'.outcome = order.outcome
      /\ order'.notional = order.notional /\ order'.approve = order.approve
      /\ order'.onGrid = order.onGrid /\ order'.limit = order.limit
      /\ order'.qty = order.qty /\ order'.asked = order.asked
      /\ order'.shown = order.shown /\ order'.expire = order.expire
  BY <1>2 DEF OrderFields
<1>4. OrderShape'
  BY <1>1, <1>2, <1>3 DEF OrderShape
<1>5. AskedFor' /\ OnItsGrid' /\ AtMarket' /\ RefusedForCause'
  BY <1>2, <1>3 DEF EntryInv, AskedFor, OnItsGrid, AtMarket, RefusedForCause
<1>6. Lacking(order)' <=> Lacking(order)
  BY <1>3 DEF Lacking, Quote
<1>7. Approved'
  BY <1>2, <1>3, <1>6 DEF EntryInv, Approved
<1> QED
  BY <1>4, <1>5, <1>7 DEF EntryInv

(* It is replaced by a limit order at the price shown.                       *)
LEMMA LimitKeeps ==
  ASSUME EntryInv, order.pc = "priced", NEW read \in BOOLEAN, Fits(AsLimit(order, read)),
         order' = [AsLimit(order, read) EXCEPT !.pc = "ready"],
         now' = now, allowance' = allowance, elsewhere' = elsewhere
  PROVE  EntryInv'
<1> DEFINE qty == Align(Raw(order), Grid(read))
           limit == LimitOf(order.side, order.outcome, "LIMIT", order.shown, Grid(read))
<1>1. OrderShape /\ AskedFor
  BY DEF EntryInv
<1>2. /\ DOMAIN order' = OrderFields /\ order'.pc = "ready"
      /\ order'.side = order.side /\ order'.outcome = order.outcome
      /\ order'.notional = order.notional /\ order'.approve = order.approve
      /\ order'.onGrid = (order.onGrid /\ read) /\ order'.limit = limit
      /\ order'.qty = qty /\ order'.asked = order.asked
      /\ order'.shown = order.shown /\ order'.expire = order.expire
  BY <1>1 DEF OrderShape, OrderFields, AsLimit, Raw
<1>3. qty > 0 /\ limit > 0
  BY <1>1 DEF OrderShape, OrderFields, AsLimit, Raw, Fits
<1>4. /\ order.asked \in 1..MaxAsked /\ order.shown \in Prices
      /\ order.expire \in Int /\ order.expire <= Close
      /\ order.side \in {"BUY", "SELL"} /\ order.outcome \in {"YES", "NO"}
      /\ order.limit \in 0..Scale /\ order.qty \in Nat /\ Scale \in Nat /\ Step \in Nat
      /\ Step < Scale
  BY <1>1, OrderConstants DEF OrderShape, AskedFor
<1>5. Raw(order) \in 0..MaxAsked * Scale /\ MaxAsked * Scale \in Nat
  <2>1. /\ NotionalToQuantity(order.asked, order.shown) \in 0..MaxAsked * Scale
        /\ order.asked <= MaxAsked * Scale /\ MaxAsked * Scale \in Nat
    BY <1>4, RequestBound
  <2>2. order.asked \in Nat
    BY <1>4
  <2>3. order.asked \in 0..MaxAsked * Scale
    BY <2>1, <2>2
  <2> QED
    BY <2>1, <2>3 DEF Raw
<1>6. Raw(order) \in Nat
  BY <1>5
<1>7. qty \in 0..Raw(order) /\ (read => qty % Lot = 0 /\ qty >= MinLot)
  BY <1>3, <1>6, AlignFits
<1>8. /\ limit \in 0..Scale - 1 /\ (read => limit % Step = 0)
      /\ (read => PerShare(order.outcome, limit) \in 0..Scale - Step)
  BY <1>3, <1>4, LimitFits
<1>9. OrderShape'
  <2>1. limit \in 0..Scale /\ qty \in Nat
    BY <1>4, <1>5, <1>7, <1>8
  <2> HIDE DEF limit, qty
  <2> QED
    BY <1>1, <1>2, <2>1 DEF OrderShape
<1>10. AskedFor'
  <2>1. qty <= MaxAsked * Scale
    BY <1>5, <1>7
  <2> HIDE DEF limit, qty
  <2> QED
    BY <1>2, <1>4, <2>1 DEF AskedFor
<1>11. OnItsGrid'
  <2> HIDE DEF limit, qty
  <2> QED
    BY <1>2, <1>7, <1>8 DEF OnItsGrid
<1>12. AtMarket' /\ RefusedForCause'
  BY <1>2 DEF AtMarket, RefusedForCause
<1>13. ASSUME order.onGrid, read, ~ order.approve, ~ elsewhere
       PROVE  ~ Lacking(order)'
  <2>1. /\ order.qty = qty
        /\ order.limit = MarketLimit(order.side, order.outcome, Grid(TRUE))
    BY <1>13 DEF EntryInv, AtMarket, Sized
  <2>2. ~ Lacking(order)
    BY <1>13 DEF EntryInv, Approved
  <2>3. CASE order.side = "BUY"
    <3> DEFINE dear == PerShare(order.outcome, order.limit)
               fair == PerShare(order.outcome, limit)
    <3>1. dear = Scale - Step
      BY <1>4, <2>1, <2>3, MarketLimitFits
    <3>2. fair \in 0..dear /\ dear \in 0..Scale /\ fair \in 0..Scale
      <4>1. fair \in 0..Scale - Step
        BY <1>8, <1>13
      <4> HIDE DEF dear, fair, qty, limit
      <4> QED
        BY <1>4, <3>1, <4>1
    <3>3. Quote(order) = (order.qty * dear) \div Scale
      BY DEF Quote
    <3>4. Quote(order)' = (order.qty * fair) \div Scale
      BY <1>2, <2>1 DEF Quote
    <3> HIDE DEF dear, fair, qty, limit
    <3>5. Quote(order)' <= Quote(order) /\ Quote(order) \in Nat
      <4>1. /\ (order.qty * dear) \div Scale \in 0..order.qty
            /\ \A p \in 0..dear : (order.qty * p) \div Scale <= (order.qty * dear) \div Scale
        BY <1>4, <3>2, QuoteBound
      <4> QED
        BY <3>2, <3>3, <3>4, <4>1
    <3>6. Quote(order)' \in Int
      <4>1. (order.qty * fair) \div Scale \in 0..order.qty
        BY <1>4, <3>2, QuoteBound
      <4> QED
        BY <1>4, <3>4, <4>1
    <3>7. ~ (allowance < AtLeastOne(Quote(order)))
      BY <2>2, <2>3 DEF Lacking
    <3>8. ~ (allowance < AtLeastOne(Quote(order)'))
      BY <1>1, <3>5, <3>6, <3>7 DEF AtLeastOne, OrderShape
    <3>9. Lacking(order)' <=> allowance < AtLeastOne(Quote(order)')
      BY <1>2, <2>3 DEF Lacking, AtLeastOne
    <3> QED
      BY <3>8, <3>9
  <2>4. CASE order.side # "BUY"
    BY <1>2, <2>2, <2>4 DEF Lacking
  <2> QED
    BY <2>3, <2>4
<1>14. Approved'
  BY <1>2, <1>13 DEF Approved
<1> QED
  BY <1>9, <1>10, <1>11, <1>12, <1>14 DEF EntryInv

LEMMA DryRunKeeps ==
  ASSUME EntryInv, NEW answer, DryRun(answer)
  PROVE  EntryInv'
<1>1. /\ order.pc = "priced"
      /\ now' = now /\ allowance' = allowance /\ elsewhere' = elsewhere
  BY DEF DryRun
<1>2. CASE order' = [order EXCEPT !.pc = "ready"]
  BY <1>1, <1>2, ReadyKeeps
<1>3. CASE order' = NoOrder
  BY <1>1, <1>3, GivenUp
<1>4. ASSUME NEW read \in BOOLEAN, Fits(AsLimit(order, read)),
             order' = [AsLimit(order, read) EXCEPT !.pc = "ready"]
      PROVE  EntryInv'
  BY <1>1, <1>4, LimitKeeps
<1>5. \/ order' = [order EXCEPT !.pc = "ready"]
      \/ order' = NoOrder
      \/ \E read \in BOOLEAN : /\ Fits(AsLimit(order, read))
                               /\ order' = [AsLimit(order, read) EXCEPT !.pc = "ready"]
  BY Zenon DEF DryRun
<1> QED
  BY <1>2, <1>3, <1>4, <1>5

LEMMA ApproveKeeps ==
  ASSUME EntryInv, Approve
  PROVE  EntryInv'
<1>1. /\ order.pc = "ready" /\ allowance' = Unlimited /\ now' = now /\ elsewhere' = elsewhere
      /\ order' = [order EXCEPT !.approve = FALSE]
  BY DEF Approve
<1>2. OrderShape /\ AskedFor
  BY DEF EntryInv
<1>3. /\ DOMAIN order' = OrderFields /\ order'.approve = FALSE
      /\ order'.pc = order.pc /\ order'.side = order.side /\ order'.outcome = order.outcome
      /\ order'.notional = order.notional /\ order'.onGrid = order.onGrid
      /\ order'.limit = order.limit /\ order'.qty = order.qty
      /\ order'.asked = order.asked /\ order'.shown = order.shown
      /\ order'.expire = order.expire
  BY <1>1, <1>2 DEF OrderShape, OrderFields
<1>4. /\ order.asked \in 1..MaxAsked /\ order.shown \in Prices
      /\ order.qty <= MaxAsked * Scale /\ order.qty \in Nat /\ order.limit \in 0..Scale
      /\ Scale \in Nat
  BY <1>1, <1>2, OrderConstants DEF AskedFor, OrderShape
<1>5. MaxAsked * Scale \in Nat /\ MaxAsked * Scale <= Unlimited /\ Unlimited \in Nat /\ Unlimited >= 1
  BY <1>4, RequestBound
<1>6. OrderShape'
  BY <1>1, <1>2, <1>3, <1>5 DEF OrderShape
<1>7. AskedFor' /\ OnItsGrid' /\ AtMarket' /\ RefusedForCause'
  BY <1>1, <1>3 DEF EntryInv, AskedFor, OnItsGrid, AtMarket, RefusedForCause
<1>8. ~ Lacking(order)'
  <2> DEFINE price == PerShare(order.outcome, order.limit)
  <2>1. price \in 0..Scale
    BY <1>4 DEF PerShare
  <2>2. Quote(order)' = (order.qty * price) \div Scale
    BY <1>3 DEF Quote
  <2> HIDE DEF price
  <2>3. (order.qty * price) \div Scale \in 0..order.qty
    BY <1>4, <2>1, QuoteBound
  <2>4. Quote(order)' \in Int /\ Quote(order)' <= Unlimited
    BY <1>4, <1>5, <2>2, <2>3
  <2>5. ~ (Unlimited < AtLeastOne(Quote(order)')) /\ ~ (Unlimited < 1)
    BY <1>5, <2>4 DEF AtLeastOne
  <2>6. Lacking(order)' <=>
          Unlimited < (IF order.side = "BUY" THEN AtLeastOne(Quote(order)') ELSE 1)
    BY <1>1, <1>3 DEF Lacking, AtLeastOne
  <2> QED
    BY <2>5, <2>6
<1>9. Approved'
  BY <1>8 DEF Approved
<1> QED
  BY <1>6, <1>7, <1>9 DEF EntryInv

(* What an order takes from a book, and pays, is a number.                   *)
LEMMA BookIsNumbers ==
  ASSUME NEW book \in Books
  PROVE  IsFiniteSet(Prices) /\ \A p \in Prices : p \in Nat /\ book[p] \in Nat
<1>1. Scale \in Nat \ {0} /\ Depths \subseteq Nat
  BY OrderConstants
<1>2. 1 \in Int /\ Scale - 1 \in Int
  BY <1>1
<1>3. IsFiniteSet(1..Scale - 1)
  BY <1>2, FS_Interval
<1>4. \A p \in Prices : p \in Nat
  BY <1>1 DEF Prices
<1>5. \A p \in Prices : book[p] \in Nat
  BY <1>1 DEF Books
<1> QED
  BY <1>3, <1>4, <1>5 DEF Prices

LEMMA FromIsNumber ==
  ASSUME NEW book \in Books, order.qty \in Nat, NEW p \in Prices
  PROVE  From(order, book, p) \in Nat
<1> DEFINE S == {q \in Prices : Taken(order, q) /\ Better(order, p, q)}
<1>1. IsFiniteSet(S) /\ \A q \in S : book[q] \in Nat
  BY BookIsNumbers, FS_Subset
<1>2. Before(order, book, p) = (CHOOSE it : it = Pass(it, book, SUBSET S))[S]
  BY DEF Before, MapThenSumSet, MapThenFoldSet, Pass, Pick
<1> HIDE DEF S
<1>3. Before(order, book, p) \in Nat
  BY <1>1, <1>2, PassIsNumber
<1> DEFINE left == order.qty - Before(order, book, p)
           rest == Max({left, 0})
<1>4. left \in Int
  BY <1>3
<1> HIDE DEF left
<1>5. rest \in Nat
  <2>1. 0 \in Int
    OBVIOUS
  <2>2. Max({left, 0}) = IF left <= 0 THEN 0 ELSE left
    BY <1>4, <2>1, LeastOfTwo
  <2> QED
    BY <1>4, <2>2
<1> HIDE DEF rest
<1>6. Min({book[p], rest}) \in Nat
  BY BookIsNumbers, <1>5, LeastOfTwo
<1>7. From(order, book, p) = IF ~ Taken(order, p) THEN 0 ELSE Min({book[p], rest})
  BY DEF From, rest, left
<1> QED
  BY <1>6, <1>7

LEMMA PaidIsNumber ==
  ASSUME NEW book \in Books, order.qty \in Nat
  PROVE  Paid(order, book) \in Nat
<1>1. Scale \in Nat \ {0}
  BY OrderConstants
<1>2. IsFiniteSet(Prices) /\ \A p \in Prices : p \in Nat
  BY BookIsNumbers
<1>3. \A p \in Prices : From(order, book, p) \in Nat
  BY FromIsNumber
<1> DEFINE f == [p \in Prices |-> p * From(order, book, p)]
           Is(it) == it = [s \in SUBSET Prices |-> IF s = {} THEN 0
                        ELSE Pick(s) * From(order, book, Pick(s)) + it[s \ {Pick(s)}]]
           h == CHOOSE it : Is(it)
<1>4. \A p \in Prices : f[p] \in Nat
  BY <1>2, <1>3
<1>5. ASSUME NEW it PROVE Is(it) <=> it = Pass(it, f, SUBSET Prices)
  <2>1. \A s \in SUBSET Prices : s # {} => Pick(s) \in Prices
    BY DEF Pick
  <2>2. \A s \in SUBSET Prices :
          (IF s = {} THEN 0 ELSE Pick(s) * From(order, book, Pick(s)) + it[s \ {Pick(s)}])
            = (IF s = {} THEN 0 ELSE f[Pick(s)] + it[s \ {Pick(s)}])
    BY <2>1
  <2> QED
    BY <2>2 DEF Pass
<1>6. Paid(order, book) = h[Prices] \div Scale
  BY DEF Paid, MapThenSumSet, MapThenFoldSet, Pick
<1> HIDE DEF f, Is
<1>7. \E it : Is(it)
  BY <1>2, <1>5, PassExists
<1>8. Is(h)
  BY <1>7
<1> HIDE DEF h
<1>9. TotalOf(h, f, Prices)
  BY <1>2, <1>4, <1>5, <1>8, PassTotals
<1>10. h[Prices] \in Nat
  BY <1>9 DEF TotalOf
<1> QED
  BY <1>1, <1>6, <1>10, Division

LEMMA FilledIsNumber ==
  ASSUME NEW book \in Books, order.qty \in Nat
  PROVE  Filled(order, book) \in Nat
<1>1. IsFiniteSet(Prices)
  BY BookIsNumbers
<1>2. \A p \in Prices : From(order, book, p) \in Nat
  BY FromIsNumber
<1> DEFINE f == [p \in Prices |-> From(order, book, p)]
           Is(it) == it = [s \in SUBSET Prices |-> IF s = {} THEN 0
                        ELSE From(order, book, Pick(s)) + it[s \ {Pick(s)}]]
           h == CHOOSE it : Is(it)
<1>3. \A p \in Prices : f[p] \in Nat
  BY <1>1, <1>2
<1>4. ASSUME NEW it PROVE Is(it) <=> it = Pass(it, f, SUBSET Prices)
  <2>1. \A s \in SUBSET Prices : s # {} => Pick(s) \in Prices
    BY DEF Pick
  <2>2. \A s \in SUBSET Prices :
          (IF s = {} THEN 0 ELSE From(order, book, Pick(s)) + it[s \ {Pick(s)}])
            = (IF s = {} THEN 0 ELSE f[Pick(s)] + it[s \ {Pick(s)}])
    BY <2>1
  <2> QED
    BY <2>2 DEF Pass
<1>5. Filled(order, book) = h[Prices]
  BY DEF Filled, MapThenSumSet, MapThenFoldSet, Pick
<1> HIDE DEF f, Is
<1>6. \E it : Is(it)
  BY <1>1, <1>4, PassExists
<1>7. Is(h)
  BY <1>6
<1> HIDE DEF h
<1>8. TotalOf(h, f, Prices)
  BY <1>1, <1>3, <1>4, <1>7, PassTotals
<1>9. h[Prices] \in Nat
  BY <1>8 DEF TotalOf
<1> QED
  BY <1>5, <1>9

(* Once it is mined an order is only bound by why it was refused.            *)
LEMMA MinedKeeps ==
  ASSUME OrderShape, OrderShape', order'.pc \in {"resting", "done"}
  PROVE  EntryInv'
BY DEF EntryInv, AskedFor, OnItsGrid, AtMarket, Approved, RefusedForCause

LEMMA SubmitKeeps ==
  ASSUME EntryInv, NEW book \in Books, Submit(book)
  PROVE  EntryInv'
<1> DEFINE filled == Filled(order, book)
           cost == Paid(order, book)
<1>1. order.pc = "ready" /\ ~ order.approve /\ now' = now /\ elsewhere' = elsewhere
  BY DEF Submit
<1>2. OrderShape /\ AskedFor /\ OnItsGrid /\ Approved
  BY DEF EntryInv
<1>3. CASE /\ order' = [order EXCEPT
                   !.pc = IF @ = "ready" /\ order.type = "LIMIT" /\ filled < order.qty
                          THEN "resting" ELSE "done",
                   !.got = filled, !.paid = cost]
           /\ allowance' = IF order.side = "BUY" /\ allowance # Unlimited
                           THEN Max({allowance - cost, 0}) ELSE allowance
  <2> HIDE DEF filled, cost
  <2>1. /\ DOMAIN order' = OrderFields /\ order'.pc \in {"resting", "done"}
        /\ order'.side = order.side /\ order'.outcome = order.outcome
        /\ order'.notional = order.notional /\ order'.approve = order.approve
        /\ order'.onGrid = order.onGrid
        /\ order'.limit = order.limit /\ order'.qty = order.qty
    BY <1>2, <1>3 DEF OrderShape, OrderFields
  <2>2. allowance' \in Nat
    <3>1. cost \in Nat /\ allowance \in Nat
      BY <1>2, PaidIsNumber DEF OrderShape, cost
    <3> DEFINE left == allowance - cost
    <3>2. left \in Int
      BY <3>1
    <3> HIDE DEF left
    <3>3. Max({left, 0}) \in Nat
      BY <3>2, LeastOfTwo
    <3> QED
      BY <1>3, <3>1, <3>3 DEF left
  <2>3. OrderShape'
    BY <1>1, <1>2, <2>1, <2>2 DEF OrderShape
  <2> QED
    BY <1>2, <2>1, <2>3, MinedKeeps
<1>4. ASSUME NEW r \in Refusals(order, filled = 0),
             order' = [order EXCEPT !.pc = "reverted", !.why = r],
             allowance' = allowance
      PROVE  EntryInv'
  <2>1. /\ DOMAIN order' = OrderFields /\ order'.pc = "reverted" /\ order'.why = r
        /\ order'.side = order.side /\ order'.outcome = order.outcome
        /\ order'.notional = order.notional /\ order'.approve = order.approve
        /\ order'.onGrid = order.onGrid
        /\ order'.limit = order.limit /\ order'.qty = order.qty
    BY <1>2, <1>4 DEF OrderShape, OrderFields
  <2>2. OrderShape'
    BY <1>1, <1>2, <1>4, <2>1 DEF OrderShape
  <2>3. /\ r = "grid" => order.limit % Step # 0 \/ order.qty % Lot # 0 \/ order.qty < MinLot
        /\ r = "late" => order.expire > Close
        /\ r = "allowance" => Lacking(order)
    BY <1>4 DEF Refusals
  <2>4. r = "allowance" => elsewhere \/ ~ order.onGrid
    BY <1>1, <1>2, <2>3 DEF Approved
  <2>5. r = "grid" => ~ order.onGrid
    <3>1. MinLot \in Nat /\ order.qty \in Nat
      BY <1>2, OrderConstants DEF OrderShape
    <3> QED
      BY <1>1, <1>2, <2>3, <3>1 DEF OnItsGrid
  <2>6. r # "late"
    <3>1. order.expire \in Int /\ order.expire <= Close /\ Close \in Nat
      BY <1>1, <1>2, OrderConstants DEF AskedFor
    <3> QED
      BY <2>3, <3>1
  <2>7. RefusedForCause'
    BY <1>1, <2>1, <2>4, <2>5, <2>6 DEF RefusedForCause
  <2> QED
    BY <2>1, <2>2, <2>7 DEF EntryInv, AskedFor, OnItsGrid, AtMarket, Approved
<1>5. \/ /\ order' = [order EXCEPT
                   !.pc = IF @ = "ready" /\ order.type = "LIMIT" /\ filled < order.qty
                          THEN "resting" ELSE "done",
                   !.got = filled, !.paid = cost]
         /\ allowance' = IF order.side = "BUY" /\ allowance # Unlimited
                         THEN Max({allowance - cost, 0}) ELSE allowance
      \/ \E r \in Refusals(order, filled = 0) :
            order' = [order EXCEPT !.pc = "reverted", !.why = r] /\ allowance' = allowance
  BY Zenon DEF Submit
<1> QED
  BY <1>3, <1>4, <1>5

LEMMA EntryNext == EntryInv /\ [Next]_vars => EntryInv'
<1> SUFFICES ASSUME EntryInv, [Next]_vars PROVE EntryInv'
  OBVIOUS
<1>1. OrderShape
  BY DEF EntryInv
<1>2. ASSUME NEW outcome \in {"YES", "NO"}, NEW read \in BOOLEAN,
             NEW asked \in 1..MaxAsked, NEW shown \in Prices, NEW notional \in BOOLEAN,
             Prepare(outcome, notional, asked, shown, read)
      PROVE  EntryInv'
  BY <1>2, PricedKeeps DEF Prepare, Tradable
<1>3. ASSUME NEW outcome \in {"YES", "NO"}, NEW read \in BOOLEAN,
             NEW asked \in 1..MaxAsked, NEW shown \in Prices,
             PrepareSell(outcome, asked, shown, read)
      PROVE  EntryInv'
  BY <1>3, PricedKeeps DEF PrepareSell, Tradable
<1>4. ASSUME NEW answer, DryRun(answer) PROVE EntryInv'
  BY <1>4, DryRunKeeps
<1>5. ASSUME NEW book \in Books, Submit(book) PROVE EntryInv'
  BY <1>5, SubmitKeeps
<1>6. ASSUME NEW n, Rest(n) PROVE EntryInv'
  <2>1. /\ DOMAIN order' = OrderFields /\ order'.pc \in {"resting", "done"}
        /\ order'.side = order.side /\ order'.outcome = order.outcome
        /\ order'.notional = order.notional /\ order'.approve = order.approve
        /\ order'.onGrid = order.onGrid
        /\ order'.limit = order.limit /\ order'.qty = order.qty
    BY <1>1, <1>6 DEF Rest, OrderShape, OrderFields
  <2>2. OrderShape'
    BY <1>1, <1>6, <2>1 DEF Rest, OrderShape
  <2> QED
    BY <1>1, <2>1, <2>2, MinedKeeps
<1>7. ASSUME NEW a \in Allowances, Elsewhere(a) PROVE EntryInv'
  <2>1. a \in Nat
    BY OrderConstants
  <2>2. OrderShape'
    BY <1>1, <1>7, <2>1 DEF Elsewhere, OrderShape
  <2>3. order' = order /\ elsewhere' = TRUE /\ now' = now
    BY <1>7 DEF Elsewhere
  <2> QED
    BY <2>2, <2>3 DEF EntryInv, AskedFor, OnItsGrid, AtMarket, Sized, Approved, RefusedForCause
<1>8. CASE Approve
  BY <1>8, ApproveKeeps
<1>9. CASE Drop
  BY <1>9, GivenUp DEF Drop
<1>10. ASSUME now' \in 0..Close, UNCHANGED <<allowance, order, elsewhere>> PROVE EntryInv'
  BY <1>10 DEF EntryInv, OrderShape, AskedFor, OnItsGrid, AtMarket, Approved, RefusedForCause,
               Lacking, Sized, Raw, Quote
<1>11. CASE Tick
  <2>1. now' \in 0..Close
    BY <1>1, <1>11, OrderConstants DEF Tick, OrderShape
  <2> QED
    BY <1>10, <1>11, <2>1 DEF Tick
<1>12. CASE UNCHANGED vars
  BY <1>1, <1>10, <1>12 DEF vars, OrderShape
<1> QED
  BY <1>2, <1>3, <1>4, <1>5, <1>6, <1>7, <1>8, <1>9, <1>11, <1>12 DEF Next

(* A transaction the user was given to sign is refused for its allowance     *)
(* only if the approval was used up after it was priced, or the grid could   *)
(* not be read; for the grid only in the latter case; and never for          *)
(* outliving the market: for every grid, book, allowance and amount.         *)
THEOREM SignedOrdersRefusedForCause == Spec => []RefusedForCause
<1>1. EntryInv => RefusedForCause
  BY DEF EntryInv
<1> QED
  BY <1>1, EntryInit, EntryNext, PTL DEF Spec

-----------------------------------------------------------------------------
(* The bot's desk (TelegramDesk).                                            *)
Steps == {"idle", "route", "offer", "authorise", "check", "send", "record", "failed", "end"}
Thread == [pc: Steps, u: Updates \cup {Web}, amount: Nat]

DeskShape ==
  /\ desk \in [Threads -> Thread]
  /\ said \in [Updates -> Messages]
  /\ handled \in [Updates -> Nat] /\ sent \in [Updates -> Nat]
  /\ told \in [Updates -> {"", "answered", "refused", "submitted"}]
  /\ volume \in Nat /\ copied \in Nat /\ spent \in Nat /\ stray \in Nat
  /\ \A t \in Threads : desk[t].pc = "idle" => desk[t].u = Web

In(pcs) == {t \in Threads : desk[t].pc \in pcs}

(* A trade past the limits is of the permission's size at most, what was     *)
(* spent is on record, about to be, or stray, and the trades that passed fit *)
(* into the day with one trade for each thread but one.                      *)
AmountsKept == \A t \in In({"send", "record"}) : desk[t].amount <= MaxTrade
Accounted == spent = volume + stray + RowTotal(desk, In({"record"}))
Fitting ==
  volume + RowTotal(desk, In({"send", "record"}))
    <= MaxDaily + (Cardinality(Threads) - 1) * MaxTrade

AmountInv == AmountsKept /\ Accounted /\ Fitting

(* What has been sent and told of an update whose only thread is at pc.      *)
Stands(pc, n, answer, astray) ==
  /\ pc \notin {"record", "failed", "end"} => n = 0 /\ answer = ""
  /\ pc = "record" => n = 1 /\ answer = ""
  /\ pc = "failed" => n <= 1 /\ answer = "" /\ (n = 0 \/ astray)
Truly(n, answer, astray) ==
  /\ n <= 1
  /\ answer = "submitted" => n = 1
  /\ answer = "refused" /\ ~ astray => n = 0

(* An update delivered once has one thread at most, and none once handled.   *)
Fine(u) ==
  /\ handled[u] > 0 => \A t \in Threads : desk[t].u # u
  /\ \A s, t \in Threads : desk[s].u = u /\ desk[t].u = u => s = t
  /\ (\A t \in Threads : desk[t].u # u) /\ handled[u] = 0 => sent[u] = 0 /\ told[u] = ""
  /\ \A t \in Threads : desk[t].u = u => Stands(desk[t].pc, sent[u], told[u], u \in lost)
  /\ Truly(sent[u], told[u], u \in lost)

AnswerInv == \A u \in Updates \ again : Fine(u)

DeskInv == DeskShape /\ AmountInv /\ AnswerInv

-----------------------------------------------------------------------------
Moved(t, r) == r \in Thread /\ desk' = [desk EXCEPT ![t] = r]

LEMMA WebIsNoUpdate == Web \notin Updates
  BY DeskConstants DEF Web

LEMMA GotoMoves ==
  ASSUME DeskShape, NEW t \in Threads, NEW pc \in Steps, Goto(t, pc)
  PROVE  \E r : Moved(t, r) /\ r.pc = pc /\ r.u = desk[t].u /\ r.amount = desk[t].amount
<1> DEFINE r == [desk[t] EXCEPT !.pc = pc]
<1>1. r \in Thread /\ r.pc = pc /\ r.u = desk[t].u /\ r.amount = desk[t].amount
  BY DEF DeskShape, Thread
<1>2. desk' = [desk EXCEPT ![t] = r]
  BY DEF Goto
<1> QED
  BY <1>1, <1>2 DEF Moved

LEMMA SayMoves ==
  ASSUME DeskShape, NEW t \in Threads, NEW answer, Say(t, answer, "end")
  PROVE  /\ \E r : /\ Moved(t, r) /\ r.pc = "end"
                   /\ r.u = desk[t].u /\ r.amount = desk[t].amount
         /\ told' = told \/ (desk[t].u # Web /\ told' = [told EXCEPT ![desk[t].u] = answer])
<1>1. Goto(t, "end")
  BY DEF Say
<1>2. told' = told \/ (desk[t].u # Web /\ told' = [told EXCEPT ![desk[t].u] = answer])
  BY DEF Say
<1> QED
  BY <1>1, <1>2, GotoMoves DEF Steps

LEMMA LeaveMoves ==
  ASSUME NEW t \in Threads, Leave(t)
  PROVE  Moved(t, NoUpdate) /\ NoUpdate.pc = "idle" /\ NoUpdate.u = Web
  BY DEF Leave, Moved, NoUpdate, Thread, Steps, Web

(* What a thread does to the others' rows, and to the sets of those who ...  *)
LEMMA MovedRows ==
  ASSUME DeskShape, NEW t \in Threads, NEW r, Moved(t, r)
  PROVE  /\ desk' \in [Threads -> Thread] /\ desk'[t] = r
         /\ \A s \in Threads \ {t} : desk'[s] = desk[s]
         /\ \A pcs : In(pcs)' = IF r.pc \in pcs THEN In(pcs) \cup {t} ELSE In(pcs) \ {t}
<1>1. /\ desk' \in [Threads -> Thread] /\ desk'[t] = r
      /\ \A s \in Threads \ {t} : desk'[s] = desk[s]
  BY DEF DeskShape, Moved
<1>2. ASSUME NEW pcs
      PROVE  In(pcs)' = IF r.pc \in pcs THEN In(pcs) \cup {t} ELSE In(pcs) \ {t}
  BY <1>1 DEF In
<1> QED
  BY <1>1, <1>2

(* ... are at some step, and the total of their amounts.                     *)
LEMMA MovedTotals ==
  ASSUME DeskShape, NEW t \in Threads, NEW r, Moved(t, r), NEW pcs
  PROVE  /\ RowTotal(desk, In(pcs)) \in Nat /\ RowTotal(desk', In(pcs)') \in Nat
         /\ RowTotal(desk', In(pcs)') + (IF desk[t].pc \in pcs THEN desk[t].amount ELSE 0)
              = RowTotal(desk, In(pcs)) + (IF r.pc \in pcs THEN r.amount ELSE 0)
<1>1. /\ desk' \in [Threads -> Thread] /\ desk'[t] = r
      /\ \A s \in Threads \ {t} : desk'[s] = desk[s]
      /\ In(pcs)' = IF r.pc \in pcs THEN In(pcs) \cup {t} ELSE In(pcs) \ {t}
  BY MovedRows
<1>2. IsFiniteSet(Threads) /\ In(pcs) \in SUBSET Threads
  BY DeskConstants DEF In
<1>3. \A x \in Threads : desk[x].amount \in Nat /\ desk'[x].amount \in Nat
  BY <1>1 DEF DeskShape, Thread
<1>4. \A x \in Threads : x # t => desk[x].amount = desk'[x].amount
  BY <1>1
<1>5. t \in In(pcs) <=> desk[t].pc \in pcs
  BY DEF In
<1>6. /\ In(pcs)' \in SUBSET Threads /\ In(pcs) \ {t} = In(pcs)' \ {t}
      /\ t \in In(pcs)' <=> r.pc \in pcs
  BY <1>1, <1>2
<1>7. /\ RowTotal(desk, In(pcs)) \in Nat /\ RowTotal(desk', In(pcs)') \in Nat
      /\ RowTotal(desk', In(pcs)') + (IF t \in In(pcs) THEN desk[t].amount ELSE 0)
           = RowTotal(desk, In(pcs)) + (IF t \in In(pcs)' THEN desk'[t].amount ELSE 0)
  BY <1>2, <1>3, <1>4, <1>6, RowTotalMoves
<1> QED
  BY <1>1, <1>5, <1>6, <1>7

(* A step of a thread that stays in the limits, with what it adds to the     *)
(* dealings.                                                                 *)
Counted(pc, amount, pcs) == IF pc \in pcs THEN amount ELSE 0

LEMMA AmountsMove ==
  ASSUME DeskShape, AmountInv, NEW t \in Threads, NEW r, Moved(t, r),
         r.pc \in {"send", "record"} => r.amount <= MaxTrade,
         volume' \in Nat, stray' \in Nat, spent' \in Nat,
         spent' - volume' - stray' + Counted(desk[t].pc, desk[t].amount, {"record"})
           = spent - volume - stray + Counted(r.pc, r.amount, {"record"}),
         \/ volume' + Counted(r.pc, r.amount, {"send", "record"})
              <= volume + Counted(desk[t].pc, desk[t].amount, {"send", "record"})
         \/ Fitting'
  PROVE  AmountInv'
<1>1. /\ desk' \in [Threads -> Thread] /\ desk'[t] = r
      /\ \A s \in Threads \ {t} : desk'[s] = desk[s]
      /\ \A pcs : In(pcs)' = IF r.pc \in pcs THEN In(pcs) \cup {t} ELSE In(pcs) \ {t}
  BY MovedRows
<1>2. AmountsKept'
  BY <1>1 DEF AmountInv, AmountsKept, In
<1>3. /\ RowTotal(desk, In({"record"})) \in Nat /\ RowTotal(desk', In({"record"})') \in Nat
      /\ RowTotal(desk', In({"record"})') + Counted(desk[t].pc, desk[t].amount, {"record"})
              = RowTotal(desk, In({"record"})) + Counted(r.pc, r.amount, {"record"})
  BY MovedTotals DEF Counted
<1>4. /\ Counted(desk[t].pc, desk[t].amount, {"record"}) \in Nat
      /\ Counted(r.pc, r.amount, {"record"}) \in Nat
      /\ Counted(desk[t].pc, desk[t].amount, {"send", "record"}) \in Nat
      /\ Counted(r.pc, r.amount, {"send", "record"}) \in Nat
  BY <1>1 DEF Counted, DeskShape, Thread
<1>5. spent' = volume' + stray' + RowTotal(desk', In({"record"})')
  <2> DEFINE a == Counted(desk[t].pc, desk[t].amount, {"record"})
             b == Counted(r.pc, r.amount, {"record"})
             was == RowTotal(desk, In({"record"}))
             is == RowTotal(desk', In({"record"})')
  <2>1. spent = volume + stray + was /\ volume \in Nat /\ stray \in Nat /\ spent \in Nat
    BY DEF AmountInv, Accounted, DeskShape
  <2>2. /\ a \in Nat /\ b \in Nat /\ was \in Nat /\ is \in Nat /\ is + a = was + b
        /\ spent' - volume' - stray' + a = spent - volume - stray + b
    BY <1>3, <1>4
  <2> HIDE DEF a, b, was, is
  <2> DEFINE s2 == spent'
             v2 == volume'
             y2 == stray'
  <2>3. v2 \in Nat /\ y2 \in Nat /\ s2 \in Nat /\ s2 - v2 - y2 + a = spent - volume - stray + b
    BY <2>2
  <2> HIDE DEF s2, v2, y2
  <2>4. s2 - v2 - y2 = is
    BY <2>1, <2>2, <2>3
  <2>5. s2 = v2 + y2 + is
    BY <2>2, <2>3, <2>4
  <2> QED
    BY <2>5 DEF is, s2, v2, y2
<1>6. Accounted'
  BY <1>5 DEF Accounted, RowTotal, MapThenSumSet, MapThenFoldSet
<1>7. CASE volume' + Counted(r.pc, r.amount, {"send", "record"})
              <= volume + Counted(desk[t].pc, desk[t].amount, {"send", "record"})
  <2>1. /\ RowTotal(desk, In({"send", "record"})) \in Nat
        /\ RowTotal(desk', In({"send", "record"})') \in Nat
        /\ RowTotal(desk', In({"send", "record"})')
               + Counted(desk[t].pc, desk[t].amount, {"send", "record"})
              = RowTotal(desk, In({"send", "record"})) + Counted(r.pc, r.amount, {"send", "record"})
    BY MovedTotals DEF Counted
  <2> DEFINE a == Counted(desk[t].pc, desk[t].amount, {"send", "record"})
             b == Counted(r.pc, r.amount, {"send", "record"})
             was == RowTotal(desk, In({"send", "record"}))
             is == RowTotal(desk', In({"send", "record"})')
  <2>2. /\ a \in Nat /\ b \in Nat /\ was \in Nat /\ is \in Nat /\ is + a = was + b
        /\ volume' + b <= volume + a /\ volume \in Nat
    BY <1>4, <1>7, <2>1 DEF DeskShape
  <2> DEFINE cap == MaxDaily + (Cardinality(Threads) - 1) * MaxTrade
  <2>3. cap \in Int
    <3>1. Cardinality(Threads) \in Nat
      BY DeskConstants, FS_CardinalityType
    <3>2. Cardinality(Threads) - 1 \in Int
      BY <3>1
    <3> QED
      BY <3>2, DeskConstants
  <2>4. volume + RowTotal(desk, In({"send", "record"})) <= cap
    BY DEF AmountInv, Fitting
  <2>5. volume + was <= cap
    BY <2>4
  <2> HIDE DEF cap, a, b, was, is
  <2>6. volume' + is <= cap
    BY <2>2, <2>3, <2>5
  <2> QED
    BY <1>2, <1>6, <2>6 DEF AmountInv, Fitting, cap, is, RowTotal, MapThenSumSet, MapThenFoldSet
<1> QED
  BY <1>2, <1>6, <1>7 DEF AmountInv

LEMMA QuietAmounts ==
  ASSUME DeskShape, AmountInv, NEW t \in Threads, NEW r, Moved(t, r),
         r.pc \notin {"send", "record"}, desk[t].pc # "record",
         UNCHANGED <<volume, spent, stray>>
  PROVE  AmountInv'
<1>1. desk[t].amount \in Nat
  BY DEF DeskShape, Thread
<1>2. /\ Counted(r.pc, r.amount, {"send", "record"}) = 0
      /\ Counted(r.pc, r.amount, {"record"}) = 0
      /\ Counted(desk[t].pc, desk[t].amount, {"record"}) = 0
      /\ Counted(desk[t].pc, desk[t].amount, {"send", "record"}) \in Nat
  BY <1>1 DEF Counted
<1>0. volume \in Nat /\ stray \in Nat /\ spent \in Nat
  BY DEF DeskShape
<1>3. /\ spent' - volume' - stray' + Counted(desk[t].pc, desk[t].amount, {"record"})
           = spent - volume - stray + Counted(r.pc, r.amount, {"record"})
      /\ volume' + Counted(r.pc, r.amount, {"send", "record"})
              <= volume + Counted(desk[t].pc, desk[t].amount, {"send", "record"})
      /\ volume' \in Nat /\ stray' \in Nat /\ spent' \in Nat
  BY <1>0, <1>2
<1> QED
  BY <1>3, AmountsMove

(* A trade passes the limits.                                                *)
LEMMA PassAmounts ==
  ASSUME DeskShape, AmountInv, NEW t \in Threads, NEW r, Moved(t, r),
         desk[t].pc = "check", r.pc = "send", r.amount = desk[t].amount,
         r.amount <= MaxTrade, VolumeWith(r.amount) <= MaxDaily,
         UNCHANGED <<volume, spent, stray>>
  PROVE  AmountInv'
<1> DEFINE others == In({"send", "record"}) \ {t}
           n == Cardinality(Threads)
<1>1. /\ desk' \in [Threads -> Thread] /\ desk'[t] = r
      /\ \A s \in Threads \ {t} : desk'[s] = desk[s]
      /\ \A pcs : In(pcs)' = IF r.pc \in pcs THEN In(pcs) \cup {t} ELSE In(pcs) \ {t}
  BY MovedRows
<1>2. /\ RowTotal(desk, In({"send", "record"})) \in Nat
      /\ RowTotal(desk', In({"send", "record"})')
            = RowTotal(desk, In({"send", "record"})) + r.amount
  <2>1. /\ RowTotal(desk, In({"send", "record"})) \in Nat
        /\ RowTotal(desk', In({"send", "record"})') \in Nat
        /\ RowTotal(desk', In({"send", "record"})') + 0
              = RowTotal(desk, In({"send", "record"})) + r.amount
    BY MovedTotals
  <2> QED
    BY <2>1
<1>3. In({"send", "record"}) \in SUBSET Threads /\ t \notin In({"send", "record"})
  BY DEF In
<1>4. IsFiniteSet(Threads) /\ n \in Nat /\ n # 0 /\ MaxTrade \in Nat /\ MaxDaily \in Nat
  BY DeskConstants, OneFewer
<1>5. \A x \in Threads : desk[x].amount \in Nat
  BY DEF DeskShape, Thread
<1>6. RowTotal(desk, In({"send", "record"})) <= Cardinality(In({"send", "record"})) * MaxTrade
  BY <1>3, <1>4, <1>5, RowTotalAtMost DEF AmountInv, AmountsKept
<1>7. Cardinality(In({"send", "record"})) \in Nat /\ Cardinality(In({"send", "record"})) <= n - 1
  <2>1. Cardinality(Threads \ {t}) = n - 1 /\ IsFiniteSet(Threads \ {t})
    BY <1>4, OneFewer, FS_Subset
  <2>2. In({"send", "record"}) \subseteq Threads \ {t}
    BY <1>3
  <2>3. Cardinality(In({"send", "record"})) <= Cardinality(Threads \ {t})
    BY <2>1, <2>2, FS_Subset
  <2> QED
    BY <1>3, <1>4, <2>1, <2>3, OneFewer
<1> HIDE DEF n
<1>8. Cardinality(In({"send", "record"})) * MaxTrade <= (n - 1) * MaxTrade
  BY <1>4, <1>7
<1>9. (n - 1) * MaxTrade \in Nat /\ Cardinality(In({"send", "record"})) * MaxTrade \in Nat
  <2>1. n - 1 \in Nat
    BY <1>4
  <2> QED
    BY <2>1, <1>4, <1>7
<1>10. RowTotal(desk, In({"send", "record"})) <= (n - 1) * MaxTrade
  BY <1>2, <1>6, <1>8, <1>9
<1>11. volume \in Nat /\ r.amount \in Nat /\ copied \in Nat
  BY <1>1 DEF DeskShape, Thread
<1>12. volume + r.amount <= MaxDaily
  BY <1>4, <1>11 DEF VolumeWith
<1>13. volume' + RowTotal(desk', In({"send", "record"})') <= MaxDaily + (n - 1) * MaxTrade
  <2>1. volume' = volume
    OBVIOUS
  <2> QED
    BY <1>2, <1>4, <1>9, <1>10, <1>11, <1>12, <2>1
<1>14. Fitting'
  <2>1. n' = n
    BY DEF n
  <2> QED
    BY <1>13, <2>1 DEF Fitting, n, RowTotal, MapThenSumSet, MapThenFoldSet
<1>15. /\ Counted(r.pc, r.amount, {"record"}) = 0
       /\ Counted(desk[t].pc, desk[t].amount, {"record"}) = 0
  BY DEF Counted
<1>16. spent' - volume' - stray' + 0 = spent - volume - stray + 0
       /\ volume' \in Nat /\ stray' \in Nat /\ spent' \in Nat
  BY DEF DeskShape
<1> QED
  BY <1>14, <1>15, <1>16, AmountsMove

-----------------------------------------------------------------------------
LEMMA GoneStands ==
  ASSUME NEW pc, NEW n, NEW answer, NEW g \in BOOLEAN, NEW h \in BOOLEAN, g => h
  PROVE  /\ Stands(pc, n, answer, g) => Stands(pc, n, answer, h)
         /\ Truly(n, answer, g) => Truly(n, answer, h)
  BY DEF Stands, Truly

(* A step of a thread leaves an update alone that is not its own ...         *)
LEMMA OthersFine ==
  ASSUME DeskShape, NEW t \in Threads, NEW r, Moved(t, r), NEW u, Fine(u),
         desk[t].u # u, r.u # u, lost \subseteq lost',
         sent'[u] = sent[u], told'[u] = told[u], handled'[u] = handled[u]
  PROVE  Fine(u)'
<1>1. desk'[t] = r /\ \A s \in Threads \ {t} : desk'[s] = desk[s]
  BY MovedRows
<1>2. \A s \in Threads : /\ (desk'[s].u = u <=> desk[s].u = u)
                         /\ desk[s].u = u => desk'[s] = desk[s]
  BY <1>1
<1> DEFINE g == u \in lost
           h == u \in lost'
<1>3. g \in BOOLEAN /\ h \in BOOLEAN /\ (g => h)
  OBVIOUS
<1>4. /\ \A s \in Threads : desk[s].u = u => Stands(desk[s].pc, sent[u], told[u], g)
      /\ Truly(sent[u], told[u], g)
  BY DEF Fine
<1> HIDE DEF g, h
<1>5. ASSUME NEW s \in Threads, desk'[s].u = u
      PROVE  Stands(desk'[s].pc, sent'[u], told'[u], h)
  <2>1. desk'[s] = desk[s] /\ desk[s].u = u
    BY <1>2, <1>5
  <2>2. Stands(desk[s].pc, sent[u], told[u], g)
    BY <1>4, <2>1
  <2>3. Stands(desk[s].pc, sent[u], told[u], h)
    BY <1>3, <2>2, GoneStands
  <2> QED
    BY <2>1, <2>3
<1>6. Truly(sent'[u], told'[u], h)
  BY <1>3, <1>4, GoneStands
<1>7. /\ handled'[u] > 0 => \A s \in Threads : desk'[s].u # u
      /\ \A o, s \in Threads : desk'[o].u = u /\ desk'[s].u = u => o = s
      /\ (\A s \in Threads : desk'[s].u # u) /\ handled'[u] = 0 => sent'[u] = 0 /\ told'[u] = ""
  BY <1>2 DEF Fine
<1> QED
  BY <1>5, <1>6, <1>7 DEF Fine, h

(* ... and its own stays fine if what it has now become of it is.            *)
LEMMA OwnFine ==
  ASSUME DeskShape, NEW t \in Threads, NEW r, Moved(t, r), NEW u, Fine(u),
         desk[t].u = u, r.u = u, handled'[u] = handled[u],
         Stands(r.pc, sent'[u], told'[u], u \in lost'),
         Truly(sent'[u], told'[u], u \in lost')
  PROVE  Fine(u)'
<1>1. desk'[t] = r /\ \A s \in Threads \ {t} : desk'[s] = desk[s]
  BY MovedRows
<1>2. \A s \in Threads : desk'[s].u = u <=> s = t
  BY <1>1 DEF Fine
<1>3. handled'[u] > 0 => \A s \in Threads : desk'[s].u # u
  BY <1>2 DEF Fine
<1>4. \A s \in Threads : desk'[s].u = u =>
        Stands(desk'[s].pc, sent'[u], told'[u], u \in lost')
  BY <1>1, <1>2
<1>5. /\ \A o, s \in Threads : desk'[o].u = u /\ desk'[s].u = u => o = s
      /\ ~ \A s \in Threads : desk'[s].u # u
  BY <1>2
<1> QED
  BY <1>3, <1>4, <1>5 DEF Fine

(* A step of a thread on its update, or on the web page's trade, that sends  *)
(* nothing.                                                                  *)
LEMMA QuietAnswers ==
  ASSUME DeskShape, AnswerInv, NEW t \in Threads, NEW r, Moved(t, r),
         r.u = desk[t].u, UNCHANGED <<handled, again, sent, lost>>,
         NEW answer \in {"answered", "refused", "submitted"},
         told' = told \/ (desk[t].u # Web /\ r.pc = "end" /\ told' = [told EXCEPT ![desk[t].u] = answer]),
         desk[t].u \notin again => 
           LET n == sent[desk[t].u]
               astray == desk[t].u \in lost
           IN \/ /\ r.pc \notin {"record", "failed", "end"}
                 /\ desk[t].pc \notin {"record", "failed", "end"}
              \/ /\ r.pc = "failed" /\ desk[t].pc = "send"
              \/ /\ r.pc = "end"
                 /\ Stands(desk[t].pc, n, told[desk[t].u], astray) => Truly(n, answer, astray)
  PROVE  AnswerInv'
<1> SUFFICES ASSUME NEW u \in Updates \ again PROVE Fine(u)'
  BY DEF AnswerInv
<1>1. Fine(u)
  BY DEF AnswerInv
<1>2. desk[t].u \in Updates \cup {Web}
  BY DEF DeskShape, Thread
<1>3. CASE desk[t].u # u
  <2>1. told'[u] = told[u]
    BY <1>2, <1>3 DEF DeskShape
  <2> QED
    BY <1>1, <1>3, <2>1, OthersFine
<1>4. CASE desk[t].u = u
  <2>1. Stands(desk[t].pc, sent[u], told[u], u \in lost) /\ Truly(sent[u], told[u], u \in lost)
    BY <1>1, <1>4 DEF Fine
  <2>2. told'[u] = told[u] \/ (r.pc = "end" /\ told'[u] = answer)
    BY <1>4 DEF DeskShape
  <2>3. Stands(r.pc, sent'[u], told'[u], u \in lost') /\ Truly(sent'[u], told'[u], u \in lost')
    <3>1. CASE r.pc \notin {"record", "failed", "end"}
      BY <1>4, <2>1, <2>2, <3>1 DEF Stands
    <3>2. CASE r.pc = "failed"
      <4>1. desk[t].pc = "send" /\ told'[u] = told[u] /\ sent'[u] = sent[u] /\ lost' = lost
        BY <1>4, <2>2, <3>2
      <4>2. sent[u] = 0 /\ told[u] = ""
        BY <2>1, <4>1 DEF Stands
      <4>3. Stands(r.pc, sent'[u], told'[u], u \in lost')
        <5>0. 0 <= 1
          OBVIOUS
        <5>1. sent'[u] <= 1 /\ sent'[u] = 0 /\ told'[u] = ""
          BY <4>1, <4>2, <5>0, Zenon
        <5>2. r.pc \in {"record", "failed", "end"} /\ r.pc # "record"
          BY <3>2
        <5> QED
          BY <5>1, <5>2, Zenon DEF Stands
      <4> QED
        BY <2>1, <4>1, <4>3
    <3>3. CASE r.pc = "end"
      BY <1>4, <2>1, <2>2, <3>3 DEF Stands
    <3>4. CASE r.pc = "record"
      BY <1>4, <3>4
    <3> QED
      BY <3>1, <3>2, <3>3, <3>4
  <2> QED
    BY <1>1, <1>4, <2>3, OwnFine
<1> QED
  BY <1>3, <1>4

(* What moves nothing of the desk.                                           *)
LEMMA RestKeeps ==
  ASSUME DeskInv, UNCHANGED <<desk, said, handled, sent, told, volume, spent, lost, stray>>,
         again \subseteq again', copied' \in Nat
  PROVE  DeskInv'
<1>1. DeskShape'
  BY DEF DeskInv, DeskShape
<1>2. AmountInv'
  BY DEF DeskInv, AmountInv, AmountsKept, Accounted, Fitting, In,
         RowTotal, MapThenSumSet, MapThenFoldSet
<1>3. AnswerInv'
  BY DEF DeskInv, AnswerInv, Fine, Stands, Truly
<1> QED
  BY <1>1, <1>2, <1>3 DEF DeskInv

LEMMA DeskStarts == DeskInit => DeskInv
<1> SUFFICES ASSUME DeskInit PROVE DeskInv
  OBVIOUS
<1>1. DeskShape
  BY DEF DeskInit, DeskShape, Queue!QueueInit, Thread, Steps, NoUpdate, Web
<1>2. In({"record"}) = {} /\ In({"send", "record"}) = {}
  BY DEF DeskInit, In, NoUpdate
<1>3. RowTotal(desk, {}) = 0
  <2>1. \A t \in Threads : desk[t].amount \in Nat
    BY <1>1 DEF DeskShape, Thread
  <2> QED
    BY <2>1, DeskConstants, RowTotalAdds
<1>0. volume = 0 /\ stray = 0 /\ spent = 0
  BY DEF DeskInit
<1>4. Accounted /\ AmountsKept
  <2>1. RowTotal(desk, In({"record"})) = 0
    BY <1>2, <1>3
  <2>2. Accounted
    BY <1>0, <2>1 DEF Accounted
  <2>3. AmountsKept
    BY <1>2 DEF AmountsKept
  <2> QED
    BY <2>2, <2>3
<1>5. Fitting
  <2> DEFINE n == Cardinality(Threads)
  <2>1. n \in Nat /\ n # 0 /\ MaxTrade \in Nat /\ MaxDaily \in Nat
    BY DeskConstants, OneFewer
  <2> HIDE DEF n
  <2>2. n - 1 \in Nat
    BY <2>1
  <2>3. (n - 1) * MaxTrade \in Nat
    BY <2>1, <2>2
  <2>4. volume + RowTotal(desk, In({"send", "record"})) = 0
    BY <1>0, <1>2, <1>3
  <2> QED
    BY <2>1, <2>3, <2>4 DEF Fitting, n
<1>6. AnswerInv
  <2>1. \A u \in Updates : u # Web
    BY WebIsNoUpdate
  <2>2. \A u \in Updates : sent[u] = 0 /\ told[u] = "" /\ handled[u] = 0
    BY DEF DeskInit, Queue!QueueInit
  <2>3. \A t \in Threads : desk[t].u = Web
    BY DEF DeskInit, NoUpdate
  <2> SUFFICES ASSUME NEW u \in Updates PROVE Fine(u)
    BY DEF AnswerInv
  <2>4. \A t \in Threads : desk[t].u # u
    BY <2>1, <2>3
  <2>5. sent[u] <= 1 /\ told[u] \notin {"submitted", "refused"}
    <3>1. 0 <= 1 /\ "" # "submitted" /\ "" # "refused"
      OBVIOUS
    <3> QED
      BY <2>2, <3>1, Zenon
  <2>6. Truly(sent[u], told[u], u \in lost)
    BY <2>5, Zenon DEF Truly
  <2> QED
    BY <2>2, <2>4, <2>6 DEF Fine
<1> QED
  BY <1>1, <1>4, <1>5, <1>6 DEF DeskInv, AmountInv

-----------------------------------------------------------------------------
LEMMA ShapeMoves ==
  ASSUME DeskShape, NEW t \in Threads, NEW r, Moved(t, r), r.pc = "idle" => r.u = Web,
         UNCHANGED said,
         handled' \in [Updates -> Nat], sent' \in [Updates -> Nat],
         told' \in [Updates -> {"", "answered", "refused", "submitted"}],
         volume' \in Nat, copied' \in Nat, spent' \in Nat, stray' \in Nat
  PROVE  DeskShape'
<1>1. /\ desk' \in [Threads -> Thread] /\ desk'[t] = r
      /\ \A s \in Threads \ {t} : desk'[s] = desk[s]
  BY MovedRows
<1>2. \A s \in Threads : desk'[s].pc = "idle" => desk'[s].u = Web
  BY <1>1 DEF DeskShape
<1> QED
  BY <1>1, <1>2 DEF DeskShape

Dealings == <<said, handled, again, sent, volume, copied, spent, lost, stray>>

(* A thread ends its update with an answer.                                  *)
LEMMA SayKeeps ==
  ASSUME DeskInv, NEW t \in Threads, NEW answer \in {"answered", "refused", "submitted"},
         Say(t, answer, "end"), desk[t].pc # "record", UNCHANGED Dealings,
         \A n, a : \A astray \in BOOLEAN :
            Stands(desk[t].pc, n, a, astray) => Truly(n, answer, astray)
  PROVE  DeskInv'
<1>0. DeskShape /\ AmountInv /\ AnswerInv
  BY DEF DeskInv
<1>1. PICK r : Moved(t, r) /\ r.pc = "end" /\ r.u = desk[t].u /\ r.amount = desk[t].amount
  BY <1>0, SayMoves
<1>2. told' = told \/ (desk[t].u # Web /\ told' = [told EXCEPT ![desk[t].u] = answer])
  BY <1>0, SayMoves
<1>3. UNCHANGED <<said, handled, again, sent, volume, copied, spent, lost, stray>>
  BY DEF Dealings
<1>4. told' \in [Updates -> {"", "answered", "refused", "submitted"}]
  BY <1>0, <1>2 DEF DeskShape
<1>5. DeskShape'
  <2>1. /\ handled' \in [Updates -> Nat] /\ sent' \in [Updates -> Nat]
        /\ volume' \in Nat /\ copied' \in Nat /\ spent' \in Nat /\ stray' \in Nat
    BY <1>0, <1>3 DEF DeskShape
  <2> QED
    BY <1>0, <1>1, <1>3, <1>4, <2>1, ShapeMoves
<1>6. AmountInv'
  BY <1>0, <1>1, <1>3, QuietAmounts
<1>7. AnswerInv'
  <2> DEFINE n == sent[desk[t].u]
             astray == desk[t].u \in lost
  <2>0. astray \in BOOLEAN
    OBVIOUS
  <2> HIDE DEF n, astray
  <2>1. Stands(desk[t].pc, n, told[desk[t].u], astray) => Truly(n, answer, astray)
    BY <2>0
  <2>2. told' = told \/ (desk[t].u # Web /\ r.pc = "end"
                         /\ told' = [told EXCEPT ![desk[t].u] = answer])
    BY <1>1, <1>2
  <2> QED
    BY <1>0, <1>1, <1>3, <2>1, <2>2, QuietAnswers DEF n, astray
<1> QED
  BY <1>5, <1>6, <1>7 DEF DeskInv

(* A thread goes on with its update and sends nothing.                       *)
LEMMA GotoKeeps ==
  ASSUME DeskInv, NEW t \in Threads, NEW pc \in Steps \ {"idle", "send", "record"},
         Goto(t, pc), UNCHANGED told, UNCHANGED Dealings,
         \/ pc # "failed" /\ desk[t].pc \notin {"record", "failed", "end"}
         \/ pc = "failed" /\ desk[t].pc = "send"
  PROVE  DeskInv'
<1>0. DeskShape /\ AmountInv /\ AnswerInv
  BY DEF DeskInv
<1>1. PICK r : Moved(t, r) /\ r.pc = pc /\ r.u = desk[t].u /\ r.amount = desk[t].amount
  BY <1>0, GotoMoves
<1>3. UNCHANGED <<said, handled, again, sent, volume, copied, spent, lost, stray>>
  BY DEF Dealings
<1>5. DeskShape'
  <2>1. /\ handled' \in [Updates -> Nat] /\ sent' \in [Updates -> Nat]
        /\ told' \in [Updates -> {"", "answered", "refused", "submitted"}]
        /\ volume' \in Nat /\ copied' \in Nat /\ spent' \in Nat /\ stray' \in Nat
    BY <1>0, <1>3 DEF DeskShape
  <2> QED
    BY <1>0, <1>1, <1>3, <2>1, ShapeMoves
<1>6. AmountInv'
  BY <1>0, <1>1, <1>3, QuietAmounts
<1>7. AnswerInv'
  <2> DEFINE n == sent[desk[t].u]
             astray == desk[t].u \in lost
  <2>1. \/ r.pc \notin {"record", "failed", "end"} /\ desk[t].pc \notin {"record", "failed", "end"}
        \/ r.pc = "failed" /\ desk[t].pc = "send"
        \/ r.pc = "end" /\ (Stands(desk[t].pc, n, told[desk[t].u], astray)
                             => Truly(n, "answered", astray))
    <3>1. CASE pc = "end"
      <4>1. desk[t].pc \notin {"record", "failed", "end"}
        BY <3>1
      <4>2. Stands(desk[t].pc, n, told[desk[t].u], astray) => n = 0
        BY <4>1 DEF Stands
      <4>3. 0 <= 1
        OBVIOUS
      <4>4. n = 0 => Truly(n, "answered", astray)
        BY <4>3, Zenon DEF Truly
      <4> QED
        BY <1>1, <3>1, <4>2, <4>4
    <3>2. CASE pc # "end"
      BY <1>1, <3>2
    <3> QED
      BY <3>1, <3>2
  <2> QED
    BY <1>0, <1>1, <1>3, <2>1, QuietAnswers
<1> QED
  BY <1>5, <1>6, <1>7 DEF DeskInv

LEMMA AnsweredKeeps ==
  ASSUME DeskInv, NEW t \in Threads, NEW answer \in {"answered", "refused"},
         Say(t, answer, "end"), UNCHANGED Dealings,
         desk[t].pc \notin {"record", "failed", "end"}
  PROVE  DeskInv'
<1>1. ASSUME NEW n, NEW a, NEW astray \in BOOLEAN, Stands(desk[t].pc, n, a, astray)
      PROVE  Truly(n, answer, astray)
  <2>1. n = 0
    BY <1>1 DEF Stands
  <2>2. 0 <= 1 /\ answer # "submitted"
    OBVIOUS
  <2> QED
    BY <2>1, <2>2, Zenon DEF Truly
<1> QED
  BY <1>1, SayKeeps

-----------------------------------------------------------------------------
LEMMA TakeKeeps ==
  ASSUME DeskInv, NEW t \in Threads, NEW u \in Updates, Take(t, u)
  PROVE  DeskInv'
<1>0. DeskShape /\ AmountInv /\ AnswerInv
  BY DEF DeskInv
<1> DEFINE r == [pc |-> "route", u |-> u, amount |-> Amount(said[u])]
<1>1. Moved(t, r) /\ r.pc = "route" /\ r.u = u
  <2>1. said[u].amount \in Nat /\ MaxTrade \in Nat
    BY <1>0, DeskConstants DEF DeskShape
  <2>2. Amount(said[u]) \in Nat
    BY <2>1 DEF Amount
  <2>3. r \in Thread
    BY <2>2 DEF Thread, Steps
  <2> QED
    BY <2>3 DEF Take, Moved
<1> HIDE DEF r
<1>2. UNCHANGED <<handled, said, told, volume, copied, sent, spent, lost, stray>>
  BY DEF Take, dealings
<1>3. /\ desk[t].pc = "idle" /\ desk[t].u = Web
      /\ again' = IF handled[u] > 0 \/ (\E s \in Threads : desk[s].pc # "idle" /\ desk[s].u = u)
                  THEN again \cup {u} ELSE again
  BY <1>0 DEF Take, DeskShape
<1>4. DeskShape'
  <2>1. /\ handled' \in [Updates -> Nat] /\ sent' \in [Updates -> Nat]
        /\ told' \in [Updates -> {"", "answered", "refused", "submitted"}]
        /\ volume' \in Nat /\ copied' \in Nat /\ spent' \in Nat /\ stray' \in Nat
    BY <1>0, <1>2 DEF DeskShape
  <2> QED
    BY <1>0, <1>1, <1>2, <2>1, ShapeMoves
<1>5. AmountInv'
  BY <1>0, <1>1, <1>2, <1>3, QuietAmounts
<1>6. ASSUME NEW v \in Updates \ again' PROVE Fine(v)'
  <2>1. v \in Updates \ again /\ Fine(v)
    BY <1>0, <1>3 DEF AnswerInv
  <2>2. CASE v # u
    <3>1. desk[t].u # v
      BY <1>3, <2>1, WebIsNoUpdate
    <3> QED
      BY <1>0, <1>1, <1>2, <2>1, <2>2, <3>1, OthersFine
  <2>3. CASE v = u
    <3>1. handled[u] \in Nat /\ ~ (handled[u] > 0)
      BY <1>0, <1>3, <2>3 DEF DeskShape
    <3>2. handled[u] = 0
      BY <3>1
    <3>3. \A s \in Threads : desk[s].u # u
      BY <1>0, <1>3, <2>3, WebIsNoUpdate DEF DeskShape
    <3>4. sent[u] = 0 /\ told[u] = "" /\ Truly(sent[u], told[u], u \in lost)
      BY <2>1, <2>3, <3>2, <3>3 DEF Fine
    <3>5. desk'[t] = r /\ \A s \in Threads \ {t} : desk'[s] = desk[s]
      BY <1>0, <1>1, MovedRows
    <3>6. \A s \in Threads : desk'[s].u = u <=> s = t
      BY <1>1, <3>3, <3>5
    <3>7. Stands(r.pc, sent'[u], told'[u], u \in lost')
      BY <1>1, <1>2, <3>4 DEF Stands
    <3>8. Truly(sent'[u], told'[u], u \in lost')
      BY <1>2, <3>4
    <3>9. ~ (handled'[u] > 0)
      BY <1>2, <3>1
    <3>10. \A s \in Threads : desk'[s].u = u =>
             Stands(desk'[s].pc, sent'[u], told'[u], u \in lost')
      BY <3>5, <3>6, <3>7
    <3> QED
      BY <2>3, <3>6, <3>8, <3>9, <3>10 DEF Fine
  <2> QED
    BY <2>2, <2>3
<1> QED
  BY <1>4, <1>5, <1>6 DEF DeskInv, AnswerInv

LEMMA WebKeeps ==
  ASSUME DeskInv, NEW t \in Threads, NEW amount \in Nat, WebTrade(t, amount)
  PROVE  DeskInv'
<1>0. DeskShape /\ AmountInv /\ AnswerInv
  BY DEF DeskInv
<1> DEFINE r == [pc |-> "authorise", u |-> Web, amount |-> amount]
<1>1. Moved(t, r) /\ r.pc = "authorise" /\ r.u = Web
  BY DEF WebTrade, Moved, Thread, Steps
<1> HIDE DEF r
<1>2. UNCHANGED <<handled, again, said, told, volume, copied, sent, spent, lost, stray>>
  BY DEF WebTrade, dealings, queue
<1>3. desk[t].pc = "idle" /\ desk[t].u = Web
  BY <1>0 DEF WebTrade, DeskShape
<1>4. DeskShape'
  <2>1. /\ handled' \in [Updates -> Nat] /\ sent' \in [Updates -> Nat]
        /\ told' \in [Updates -> {"", "answered", "refused", "submitted"}]
        /\ volume' \in Nat /\ copied' \in Nat /\ spent' \in Nat /\ stray' \in Nat
    BY <1>0, <1>2 DEF DeskShape
  <2> QED
    BY <1>0, <1>1, <1>2, <2>1, ShapeMoves
<1>5. AmountInv'
  BY <1>0, <1>1, <1>2, <1>3, QuietAmounts
<1>6. AnswerInv'
  <2> SUFFICES ASSUME NEW v \in Updates \ again PROVE Fine(v)'
    BY <1>2 DEF AnswerInv
  <2>1. Fine(v) /\ v # Web
    BY <1>0, WebIsNoUpdate DEF AnswerInv
  <2> QED
    BY <1>0, <1>1, <1>2, <1>3, <2>1, OthersFine
<1> QED
  BY <1>4, <1>5, <1>6 DEF DeskInv

LEMMA PassKeeps ==
  ASSUME DeskInv, NEW t \in Threads, desk[t].pc = "check",
         desk[t].amount <= MaxTrade, VolumeWith(desk[t].amount) <= MaxDaily,
         Goto(t, "send"), UNCHANGED told, UNCHANGED Dealings
  PROVE  DeskInv'
<1>0. DeskShape /\ AmountInv /\ AnswerInv
  BY DEF DeskInv
<1>1. PICK r : Moved(t, r) /\ r.pc = "send" /\ r.u = desk[t].u /\ r.amount = desk[t].amount
  BY <1>0, GotoMoves DEF Steps
<1>2. UNCHANGED <<said, handled, again, sent, volume, copied, spent, lost, stray>>
  BY DEF Dealings
<1>3. DeskShape'
  <2>1. /\ handled' \in [Updates -> Nat] /\ sent' \in [Updates -> Nat]
        /\ told' \in [Updates -> {"", "answered", "refused", "submitted"}]
        /\ volume' \in Nat /\ copied' \in Nat /\ spent' \in Nat /\ stray' \in Nat
    BY <1>0, <1>2 DEF DeskShape
  <2> QED
    BY <1>0, <1>1, <1>2, <2>1, ShapeMoves
<1>4. AmountInv'
  BY <1>0, <1>1, <1>2, PassAmounts
<1>5. AnswerInv'
  BY <1>0, <1>1, <1>2, QuietAnswers
<1> QED
  BY <1>3, <1>4, <1>5 DEF DeskInv

LEMMA CounterUp ==
  ASSUME NEW f \in [Updates -> Nat], NEW u \in Updates, NEW n \in Nat, NEW g,
         g = [f EXCEPT ![u] = n]
  PROVE  /\ g \in [Updates -> Nat] /\ g[u] = n
         /\ \A v \in Updates : v # u => g[v] = f[v]
  OBVIOUS

LEMMA OneSent ==
  ASSUME NEW pc \in {"record", "failed"}, NEW astray \in BOOLEAN, pc = "failed" => astray
  PROVE  Stands(pc, 1, "", astray) /\ Truly(1, "", astray)
<1>1. 1 <= 1 /\ "" # "submitted" /\ "" # "refused"
  OBVIOUS
<1>2. Stands("record", 1, "", astray) /\ Stands("failed", 1, "", TRUE)
  BY <1>1 DEF Stands
<1>3. Truly(1, "", astray)
  BY <1>1, Zenon DEF Truly
<1> QED
  BY <1>2, <1>3

LEMMA TransmitKeeps ==
  ASSUME DeskInv, NEW t \in Threads,
         \/ Transmit(t, "record") /\ UNCHANGED <<lost, stray>>
         \/ /\ Transmit(t, "failed")
            /\ lost' = lost \cup ({desk[t].u} \ {Web}) /\ stray' = stray + desk[t].amount
  PROVE  DeskInv'
<1>0. DeskShape /\ AmountInv /\ AnswerInv
  BY DEF DeskInv
<1> DEFINE u == desk[t].u
           a == desk[t].amount
<1>1. PICK pc \in {"record", "failed"} :
        /\ Transmit(t, pc)
        /\ pc = "record" => UNCHANGED <<lost, stray>>
        /\ pc = "failed" => lost' = lost \cup ({u} \ {Web}) /\ stray' = stray + a
  OBVIOUS
<1>2. PICK r : Moved(t, r) /\ r.pc = pc /\ r.u = u /\ r.amount = a
  BY <1>0, <1>1, GotoMoves DEF Transmit, Steps
<1>3. /\ desk[t].pc = "send" /\ spent' = spent + a
      /\ UNCHANGED <<handled, again, said, volume, copied, told>>
      /\ sent' = IF u = Web THEN sent ELSE [sent EXCEPT ![u] = @ + 1]
  BY <1>1 DEF Transmit, queue
<1>4. u \in Updates \cup {Web} /\ a \in Nat /\ a <= MaxTrade
  BY <1>0, <1>3 DEF DeskShape, Thread, AmountInv, AmountsKept, In
<1>5. volume \in Nat /\ spent \in Nat /\ stray \in Nat
  BY <1>0 DEF DeskShape
<1>10. /\ sent' \in [Updates -> Nat]
       /\ u \in Updates /\ sent[u] = 0 => sent'[u] = 1
       /\ \A v \in Updates : v # u => sent'[v] = sent[v]
  <2>1. sent \in [Updates -> Nat]
    BY <1>0 DEF DeskShape
  <2>2. CASE u = Web
    BY <1>3, <2>1, <2>2, WebIsNoUpdate
  <2>3. CASE u # Web
    <3>1. u \in Updates /\ sent[u] + 1 \in Nat /\ sent' = [sent EXCEPT ![u] = sent[u] + 1]
      BY <1>3, <1>4, <2>1, <2>3
    <3> HIDE DEF u
    <3>2. /\ sent' \in [Updates -> Nat] /\ sent'[u] = sent[u] + 1
          /\ \A v \in Updates : v # u => sent'[v] = sent[v]
      BY <2>1, <3>1, CounterUp
    <3> QED
      BY <3>2
  <2> QED
    BY <2>2, <2>3
<1>6. spent' \in Nat /\ stray' \in Nat /\ volume' = volume
  BY <1>1, <1>3, <1>4, <1>5
<1>7. DeskShape'
  <2>1. sent' \in [Updates -> Nat]
    BY <1>10
  <2>2. /\ handled' \in [Updates -> Nat] /\ copied' \in Nat
        /\ told' \in [Updates -> {"", "answered", "refused", "submitted"}]
    BY <1>0, <1>3 DEF DeskShape
  <2> QED
    BY <1>0, <1>2, <1>3, <1>5, <1>6, <2>1, <2>2, ShapeMoves
<1>8. AmountInv'
  <2>1. /\ Counted("send", a, {"record"}) = 0 /\ Counted("record", a, {"record"}) = a
        /\ Counted("failed", a, {"record"}) = 0
        /\ Counted("send", a, {"send", "record"}) = a
        /\ Counted("record", a, {"send", "record"}) = a
        /\ Counted("failed", a, {"send", "record"}) = 0
    BY DEF Counted
  <2>2. CASE pc = "record"
    <3>1. spent' - volume' - stray' + 0 = spent - volume - stray + a
      BY <1>1, <1>3, <1>4, <1>5, <2>2
    <3>2. volume' + a <= volume + a
      BY <1>4, <1>5, <1>6
    <3> HIDE DEF a
    <3> QED
      BY <1>0, <1>2, <1>3, <1>4, <1>5, <1>6, <2>1, <2>2, <3>1, <3>2, AmountsMove DEF a
  <2>3. CASE pc = "failed"
    <3>1. spent' - volume' - stray' + 0 = spent - volume - stray + 0
      BY <1>1, <1>3, <1>4, <1>5, <2>3
    <3>2. volume' + 0 <= volume + a
      BY <1>4, <1>5, <1>6
    <3> HIDE DEF a
    <3> QED
      BY <1>0, <1>2, <1>3, <1>4, <1>5, <1>6, <2>1, <2>3, <3>1, <3>2, AmountsMove DEF a
  <2> QED
    BY <2>2, <2>3
<1>9. AnswerInv'
  <2> SUFFICES ASSUME NEW v \in Updates \ again PROVE Fine(v)'
    BY <1>3 DEF AnswerInv
  <2>1. Fine(v) /\ v # Web /\ lost \subseteq lost'
    BY <1>0, <1>1, WebIsNoUpdate DEF AnswerInv
  <2>2. CASE u # v
    <3>1. sent'[v] = sent[v]
      BY <1>10, <2>2
    <3> QED
      BY <1>0, <1>2, <1>3, <2>1, <2>2, <3>1, OthersFine
  <2>3. CASE u = v
    <3>1. sent[v] = 0 /\ told[v] = ""
      BY <1>3, <2>1, <2>3 DEF Fine, Stands
    <3>2. sent'[v] = 1 /\ told'[v] = ""
      BY <1>3, <1>10, <2>1, <2>3, <3>1
    <3> DEFINE astray == v \in lost'
    <3>3. astray \in BOOLEAN /\ (pc = "failed" => astray)
      BY <1>1, <2>1, <2>3
    <3> HIDE DEF astray
    <3>4. Stands(pc, 1, "", astray) /\ Truly(1, "", astray)
      BY <3>3, OneSent
    <3>5. Stands(r.pc, sent'[v], told'[v], astray) /\ Truly(sent'[v], told'[v], astray)
      BY <1>2, <3>2, <3>4
    <3> QED
      BY <1>0, <1>2, <1>3, <2>1, <2>3, <3>5, OwnFine DEF astray
  <2> QED
    BY <2>2, <2>3
<1> QED
  BY <1>7, <1>8, <1>9 DEF DeskInv

LEMMA RecordKeeps ==
  ASSUME DeskInv, NEW t \in Threads, Record(t)
  PROVE  DeskInv'
<1>0. DeskShape /\ AmountInv /\ AnswerInv
  BY DEF DeskInv
<1> DEFINE a == desk[t].amount
<1>1. /\ desk[t].pc = "record" /\ volume' = volume + a /\ Say(t, "submitted", "end")
      /\ UNCHANGED <<handled, again, said, copied, sent, spent, lost, stray>>
  BY DEF Record, queue
<1>2. PICK r : Moved(t, r) /\ r.pc = "end" /\ r.u = desk[t].u /\ r.amount = a
  BY <1>0, <1>1, SayMoves
<1>3. told' = told \/ (desk[t].u # Web /\ told' = [told EXCEPT ![desk[t].u] = "submitted"])
  BY <1>0, <1>1, SayMoves
<1>4. a \in Nat /\ volume \in Nat /\ spent \in Nat /\ stray \in Nat
  BY <1>0 DEF DeskShape, Thread
<1>5. volume' \in Nat
  BY <1>1, <1>4
<1>6. DeskShape'
  <2>1. /\ handled' \in [Updates -> Nat] /\ sent' \in [Updates -> Nat]
        /\ copied' \in Nat /\ spent' \in Nat /\ stray' \in Nat
    BY <1>0, <1>1 DEF DeskShape
  <2>2. told' \in [Updates -> {"", "answered", "refused", "submitted"}]
    BY <1>0, <1>3 DEF DeskShape
  <2> QED
    BY <1>0, <1>1, <1>2, <1>5, <2>1, <2>2, ShapeMoves
<1>7. AmountInv'
  <2>1. /\ Counted("record", a, {"record"}) = a /\ Counted("end", a, {"record"}) = 0
        /\ Counted("record", a, {"send", "record"}) = a
        /\ Counted("end", a, {"send", "record"}) = 0
    BY DEF Counted
  <2>2. spent' - volume' - stray' + a = spent - volume - stray + 0
    BY <1>1, <1>4
  <2>3. volume' + 0 <= volume + a
    BY <1>1, <1>4
  <2>4. spent' \in Nat /\ stray' \in Nat
    BY <1>1, <1>4
  <2> HIDE DEF a
  <2> QED
    BY <1>0, <1>1, <1>2, <1>5, <2>1, <2>2, <2>3, <2>4, AmountsMove DEF a
<1>8. AnswerInv'
  <2> DEFINE n == sent[desk[t].u]
             astray == desk[t].u \in lost
  <2>1. Stands("record", n, told[desk[t].u], astray) => n = 1
    BY DEF Stands
  <2>2. 1 <= 1 /\ "submitted" # "refused"
    OBVIOUS
  <2>3. n = 1 => Truly(n, "submitted", astray)
    BY <2>2, Zenon DEF Truly
  <2>4. told' = told \/ (desk[t].u # Web /\ r.pc = "end"
                         /\ told' = [told EXCEPT ![desk[t].u] = "submitted"])
    BY <1>2, <1>3
  <2> QED
    BY <1>0, <1>1, <1>2, <2>1, <2>3, <2>4, QuietAnswers
<1> QED
  BY <1>6, <1>7, <1>8 DEF DeskInv

LEMMA ReturnKeeps ==
  ASSUME DeskInv, NEW t \in Threads, Return(t)
  PROVE  DeskInv'
<1>0. DeskShape /\ AmountInv /\ AnswerInv
  BY DEF DeskInv
<1> DEFINE u == desk[t].u
<1>1. Moved(t, NoUpdate) /\ NoUpdate.pc = "idle" /\ NoUpdate.u = Web
  BY LeaveMoves DEF Return
<1>2. /\ desk[t].pc = "end"
      /\ UNCHANGED <<said, told, volume, copied, sent, spent, lost, stray>>
  BY DEF Return, dealings
<1>3. u \in Updates \cup {Web}
  BY <1>0 DEF DeskShape, Thread
<1>4. \/ u = Web /\ UNCHANGED <<handled, again>>
      \/ /\ u # Web /\ again \subseteq again'
         /\ handled' = [handled EXCEPT ![u] = IF @ = 0 THEN 1 ELSE 2]
  BY DEF Return, queue, Queue!Finish
<1>8. /\ handled' \in [Updates -> Nat]
      /\ u \in Updates => handled'[u] \in {1, 2}
      /\ \A v \in Updates : v # u => handled'[v] = handled[v]
  <2>1. handled \in [Updates -> Nat]
    BY <1>0 DEF DeskShape
  <2>2. CASE u = Web
    BY <1>4, <2>1, <2>2, WebIsNoUpdate
  <2>3. CASE u # Web
    <3> DEFINE n == IF handled[u] = 0 THEN 1 ELSE 2
    <3>1. u \in Updates /\ n \in Nat /\ n \in {1, 2} /\ handled' = [handled EXCEPT ![u] = n]
      BY <1>3, <1>4, <2>1, <2>3
    <3> HIDE DEF u, n
    <3>2. /\ handled' \in [Updates -> Nat] /\ handled'[u] = n
          /\ \A v \in Updates : v # u => handled'[v] = handled[v]
      BY <2>1, <3>1, CounterUp
    <3> QED
      BY <3>1, <3>2
  <2> QED
    BY <2>2, <2>3
<1>5. DeskShape'
  <2>1. handled' \in [Updates -> Nat]
    BY <1>8
  <2>2. /\ sent' \in [Updates -> Nat] /\ told' \in [Updates -> {"", "answered", "refused", "submitted"}]
        /\ volume' \in Nat /\ copied' \in Nat /\ spent' \in Nat /\ stray' \in Nat
    BY <1>0, <1>2 DEF DeskShape
  <2> QED
    BY <1>0, <1>1, <1>2, <2>1, <2>2, ShapeMoves
<1>6. AmountInv'
  BY <1>0, <1>1, <1>2, QuietAmounts
<1>7. AnswerInv'
  <2> SUFFICES ASSUME NEW v \in Updates \ again' PROVE Fine(v)'
    BY DEF AnswerInv
  <2>1. v \in Updates \ again /\ Fine(v) /\ v # Web
    BY <1>0, <1>4, WebIsNoUpdate DEF AnswerInv
  <2>2. CASE u # v
    <3>1. handled'[v] = handled[v]
      BY <1>8, <2>1, <2>2
    <3> QED
      BY <1>0, <1>1, <1>2, <2>1, <2>2, <3>1, OthersFine
  <2>3. CASE u = v
    <3>1. handled'[v] \in {1, 2} /\ handled'[v] # 0
      BY <1>8, <2>1, <2>3
    <3>2. \A s \in Threads \ {t} : desk[s].u # v
      BY <2>1, <2>3 DEF Fine
    <3>3. \A s \in Threads : desk'[s].u # v
      BY <1>0, <1>1, <2>1, <3>2, MovedRows
    <3>4. Truly(sent'[v], told'[v], v \in lost')
      BY <1>2, <2>1 DEF Fine
    <3>5. /\ handled'[v] > 0 => \A s \in Threads : desk'[s].u # v
          /\ \A o, s \in Threads : desk'[o].u = v /\ desk'[s].u = v => o = s
          /\ (\A s \in Threads : desk'[s].u # v) /\ handled'[v] = 0 => sent'[v] = 0 /\ told'[v] = ""
          /\ \A s \in Threads : desk'[s].u = v =>
               Stands(desk'[s].pc, sent'[v], told'[v], v \in lost')
      BY <3>1, <3>3
    <3> QED
      BY <3>4, <3>5 DEF Fine
  <2> QED
    BY <2>2, <2>3
<1> QED
  BY <1>5, <1>6, <1>7 DEF DeskInv

LEMMA DieKeeps ==
  ASSUME DeskInv, NEW t \in Threads, Die(t)
  PROVE  DeskInv'
<1>0. DeskShape /\ AmountInv /\ AnswerInv
  BY DEF DeskInv
<1> DEFINE u == desk[t].u
           a == desk[t].amount
<1>1. Moved(t, NoUpdate) /\ NoUpdate.pc = "idle" /\ NoUpdate.u = Web
  BY LeaveMoves DEF Die
<1>2. /\ again' = again \cup ({u} \ {Web}) /\ lost \subseteq lost'
      /\ UNCHANGED <<handled, said, told, volume, copied, sent, spent>>
      /\ desk[t].pc = "record" => stray' = stray + a
      /\ desk[t].pc # "record" => stray' = stray
  BY DEF Die
<1>3. a \in Nat /\ volume \in Nat /\ spent \in Nat /\ stray \in Nat
  BY <1>0 DEF DeskShape, Thread
<1>4. stray' \in Nat
  BY <1>2, <1>3
<1>5. DeskShape'
  <2>1. /\ handled' \in [Updates -> Nat]
        /\ sent' \in [Updates -> Nat] /\ told' \in [Updates -> {"", "answered", "refused", "submitted"}]
        /\ volume' \in Nat /\ copied' \in Nat /\ spent' \in Nat
    BY <1>0, <1>2 DEF DeskShape
  <2> QED
    BY <1>0, <1>1, <1>2, <1>4, <2>1, ShapeMoves
<1>6. AmountInv'
  <2>1. CASE desk[t].pc # "record"
    BY <1>0, <1>1, <1>2, <2>1, QuietAmounts
  <2>2. CASE desk[t].pc = "record"
    <3> DEFINE b == NoUpdate.amount
    <3>1. /\ Counted("record", a, {"record"}) = a /\ Counted("idle", b, {"record"}) = 0
          /\ Counted("record", a, {"send", "record"}) = a
          /\ Counted("idle", b, {"send", "record"}) = 0
      BY DEF Counted
    <3>2. spent' - volume' - stray' + a = spent - volume - stray + 0
      BY <1>2, <1>3, <2>2
    <3>3. volume' + 0 <= volume + a
      BY <1>2, <1>3
    <3>4. spent' \in Nat /\ volume' \in Nat
      BY <1>2, <1>3
    <3> HIDE DEF a, b
    <3> QED
      BY <1>0, <1>1, <1>4, <2>2, <3>1, <3>2, <3>3, <3>4, AmountsMove DEF a, b
  <2> QED
    BY <2>1, <2>2
<1>7. AnswerInv'
  <2> SUFFICES ASSUME NEW v \in Updates \ again' PROVE Fine(v)'
    BY DEF AnswerInv
  <2>1. v \in Updates \ again /\ v # Web /\ u # v
    BY <1>2, WebIsNoUpdate
  <2>2. Fine(v)
    BY <1>0, <2>1 DEF AnswerInv
  <2> QED
    BY <1>0, <1>1, <1>2, <2>1, <2>2, OthersFine
<1> QED
  BY <1>5, <1>6, <1>7 DEF DeskInv

LEMMA ThreadKeeps ==
  ASSUME DeskInv, NEW t \in Threads, ThreadStep(t)
  PROVE  DeskInv'
<1>1. ASSUME NEW u \in Updates, Take(t, u) PROVE DeskInv'
  BY <1>1, TakeKeeps
<1>2. ASSUME NEW amount \in 1..(MaxTrade + 1), WebTrade(t, amount) PROVE DeskInv'
  <2>1. amount \in Nat
    BY DeskConstants
  <2> QED
    BY <1>2, <2>1, WebKeeps
<1>3. CASE Look(t) \/ PauseResume(t) \/ Follow(t) \/ Claim(t)
  <2>1. /\ Say(t, "answered", "end") /\ UNCHANGED Dealings
        /\ desk[t].pc \notin {"record", "failed", "end"}
    BY <1>3 DEF Look, PauseResume, Follow, Claim, Dealings, dealings, queue
  <2> QED
    BY <2>1, AnsweredKeeps
<1>4. CASE Trade(t)
  <2>1. UNCHANGED Dealings /\ desk[t].pc = "route"
    BY <1>4 DEF Trade, Dealings, dealings, queue
  <2>2. CASE Goto(t, "offer") /\ UNCHANGED told
    BY <2>1, <2>2, GotoKeeps DEF Steps
  <2>3. CASE Say(t, "refused", "end")
    BY <2>1, <2>3, AnsweredKeeps
  <2> QED
    BY <1>4, <2>2, <2>3 DEF Trade
<1>5. CASE Offer(t)
  <2>1. UNCHANGED Dealings /\ UNCHANGED told /\ desk[t].pc = "offer"
    BY <1>5 DEF Offer, Dealings, dealings, queue
  <2>2. CASE Goto(t, "authorise")
    BY <2>1, <2>2, GotoKeeps DEF Steps
  <2>3. CASE Goto(t, "end")
    BY <2>1, <2>3, GotoKeeps DEF Steps
  <2> QED
    BY <1>5, <2>2, <2>3 DEF Offer
<1>6. CASE Authorise(t)
  <2>1. UNCHANGED Dealings /\ desk[t].pc = "authorise"
    BY <1>6 DEF Authorise, Dealings, dealings, queue
  <2>2. CASE Goto(t, "check") /\ UNCHANGED told
    BY <2>1, <2>2, GotoKeeps DEF Steps
  <2>3. CASE Say(t, "refused", "end")
    BY <2>1, <2>3, AnsweredKeeps
  <2> QED
    BY <1>6, <2>2, <2>3 DEF Authorise
<1>7. CASE CheckLimits(t)
  <2>1. UNCHANGED Dealings /\ desk[t].pc = "check"
    BY <1>7 DEF CheckLimits, Dealings, dealings, queue
  <2>2. CASE /\ desk[t].amount <= MaxTrade /\ VolumeWith(desk[t].amount) <= MaxDaily
             /\ Goto(t, "send") /\ UNCHANGED told
    BY <2>1, <2>2, PassKeeps
  <2>3. CASE Say(t, "refused", "end")
    BY <2>1, <2>3, AnsweredKeeps
  <2> QED
    BY <1>7, <2>2, <2>3 DEF CheckLimits
<1>8. CASE SendTrade(t) \/ SendLost(t)
  BY <1>8, TransmitKeeps DEF SendTrade, SendLost
<1>9. CASE SendFails(t)
  <2>1. /\ UNCHANGED Dealings /\ UNCHANGED told
        /\ desk[t].pc = "send" /\ Goto(t, "failed")
    BY <1>9 DEF SendFails, Dealings, dealings, queue
  <2> QED
    BY <2>1, GotoKeeps DEF Steps
<1>10. CASE Failed(t)
  <2>1. UNCHANGED Dealings /\ desk[t].pc = "failed" /\ Say(t, "refused", "end")
    BY <1>10 DEF Failed, Dealings, dealings, queue
  <2>2. ASSUME NEW n, NEW a, NEW astray \in BOOLEAN, Stands("failed", n, a, astray)
        PROVE  Truly(n, "refused", astray)
    <3>1. n <= 1 /\ (n = 0 \/ astray)
      BY <2>2 DEF Stands
    <3>2. "refused" # "submitted"
      OBVIOUS
    <3> QED
      BY <3>1, <3>2, Zenon DEF Truly
  <2> QED
    BY <2>1, <2>2, SayKeeps
<1> QED
  BY <1>1, <1>2, <1>3, <1>4, <1>5, <1>6, <1>7, <1>8, <1>9, <1>10,
     RecordKeeps, ReturnKeeps, DieKeeps DEF ThreadStep

LEMMA DeskKeeps == DeskInv /\ [DeskNext]_bot => DeskInv'
<1> SUFFICES ASSUME DeskInv, [DeskNext]_bot PROVE DeskInv'
  OBVIOUS
<1>0. copied \in Nat
  BY DEF DeskInv, DeskShape
<1>1. CASE Others \/ Acknowledge \/ FindExpired
  BY <1>0, <1>1, RestKeeps DEF Others, Acknowledge, FindExpired, dealings, queue, Queue!Arrive
<1>2. CASE CopyRecorded
  <2>1. copied' \in Nat
    BY <1>0, <1>2 DEF CopyRecorded
  <2> QED
    BY <1>2, <2>1, RestKeeps DEF CopyRecorded, queue
<1>3. CASE UNCHANGED bot
  BY <1>0, <1>3, RestKeeps DEF bot, dealings, queue
<1> QED
  BY <1>1, <1>2, <1>3, ThreadKeeps DEF DeskNext

(* One update makes at most one trade and is answered truly, whatever the    *)
(* threads do beside each other (handle_update of telegram_bot_service.py).  *)
THEOREM OneTradeOneAnswer == DeskSpec => []OneTrueAnswer
<1>1. DeskInv => OneTrueAnswer
  BY DEF DeskInv, AnswerInv, Fine, Truly, OneTrueAnswer
<1> QED
  BY <1>1, DeskStarts, DeskKeeps, PTL DEF DeskSpec

(* By hand the session key spends no more than the day's limit, one trade    *)
(* for each thread but one, and what was sent without being counted          *)
(* (execute_agent_manual_trade of agent_execution_service.py).               *)
THEOREM ManualTradesBounded == DeskSpec => []ManualBound
<1>1. ASSUME DeskInv PROVE ManualBound
  <2> DEFINE cap == MaxDaily + (Cardinality(Threads) - 1) * MaxTrade
             some == RowTotal(desk, In({"record"}))
             all == RowTotal(desk, In({"send", "record"}))
  <2>1. In({"record"}) \in SUBSET Threads /\ In({"send", "record"}) \in SUBSET Threads
        /\ In({"record"}) \subseteq In({"send", "record"})
    BY DEF In
  <2>2. \A t \in Threads : desk[t].amount \in Nat
    BY <1>1 DEF DeskInv, DeskShape, Thread
  <2>3. some \in Nat /\ all \in Nat /\ some <= all
    BY <2>1, <2>2, DeskConstants, RowTotalAdds
  <2>4. volume \in Nat /\ spent \in Nat /\ stray \in Nat
    BY <1>1 DEF DeskInv, DeskShape
  <2>5. spent = volume + stray + some /\ volume + all <= cap
    BY <1>1 DEF DeskInv, AmountInv, Accounted, Fitting
  <2>6. cap \in Int
    <3>1. Cardinality(Threads) - 1 \in Int
      BY DeskConstants, OneFewer
    <3> QED
      BY <3>1, DeskConstants
  <2> HIDE DEF cap, some, all
  <2>7. spent <= cap + stray
    BY <2>3, <2>4, <2>5, <2>6
  <2> QED
    BY <2>7 DEF ManualBound, cap
<1> QED
  BY <1>1, DeskStarts, DeskKeeps, PTL DEF DeskSpec

-----------------------------------------------------------------------------
(* One position (Holdings).  What is held and was sold was bought, on chain  *)
(* (Conserve).  While no history flag says otherwise, a closed row is either *)
(* sold out, by the books, or the market no longer trades and nothing is     *)
(* left (RowEmpty), and so it will be when a request in flight closes it     *)
(* (ClosesEmpty): a read that found a settled row closed; a claim, which is  *)
(* for all there is.                                                         *)
Conserve == Held + gone <= got
Clean == ~ split /\ ~ blind /\ ~ rebought
SoldOut == bought <= sold /\ sold > 0

NothingLeft == market # "open" /\ Held = 0
RowEmpty == row.status = "CLOSED" => SoldOut \/ NothingLeft
ClosesEmpty(q) ==
  /\ q.pc = "sync" /\ q.closed /\ q.paid => SoldOut \/ NothingLeft
  /\ q.pc = "claim" => /\ market # "open" /\ q.qty > 0
                       /\ held[q.account] \in {0, q.qty} /\ Held = held[q.account]
  /\ q.pc = "confirm" => NothingLeft
EmptyInv == Clean => RowEmpty /\ \A r \in Requests : ClosesEmpty(req[r])

(* While the settlement stands, no older read was under way at a claim and   *)
(* the position was not sold out, a closed row is a claimed one, and every   *)
(* read in flight has seen the row closed or not, as it is.                  *)
SeesRow(q) ==
  q.pc = "sync" =>
    /\ q.net # 0
    /\ row.status = "CLOSED" => q.closed /\ q.paid
    /\ row.status # "CLOSED" => ~ q.closed
ClaimsPaid == ~ late => \A r \in Requests : req[r].pc \in {"claim", "confirm"} => Payout
ClosedIsClaimed ==
  ~ late /\ ~ rebought /\ ~ SoldOut =>
    (row.status = "CLOSED" => Payout) /\ \A r \in Requests : SeesRow(req[r])
SoldIsSold ==
  ~ rebought => \A r \in Requests : req[r].pc = "sync" /\ req[r].net = 0 => SoldOut

PositionInv ==
  HoldingsTypeOK /\ Conserve /\ EmptyInv /\ ClaimsPaid /\ ClosedIsClaimed /\ SoldIsSold

HeldRequests ==
  [pc: {"idle", "sync", "claim", "sell", "confirm", "book"}, account: Accounts,
   qty: 0..MaxSold, own: 0..MaxSold, net: 0..MaxBuy, closed: BOOLEAN, paid: BOOLEAN]

-----------------------------------------------------------------------------
LEMMA PositionTyped ==
  ASSUME HoldingsTypeOK
  PROVE  /\ held["agent"] \in Nat /\ held["wallet"] \in Nat /\ held["book"] \in Nat
         /\ got \in Nat /\ gone \in Nat /\ MaxBuy \in Nat /\ MaxSold \in Nat
         /\ bought \in Nat /\ sold \in Nat /\ unbooked \in Nat
         /\ \A r \in Requests : req[r] \in HeldRequests
         /\ \A r \in Requests : /\ req[r].account \in {"agent", "wallet"}
                                /\ req[r].qty \in Nat /\ req[r].net \in Nat
                                /\ req[r].own \in Nat
  BY HoldingsConstants DEF HoldingsTypeOK, HeldRequests, Accounts, Places

LEMMA IdleHolding ==
  NoRequest \in HeldRequests /\ NoRequest.pc = "idle"
  BY HoldingsConstants DEF NoRequest, HeldRequests, Accounts

LEMMA OfferTyped ==
  ASSUME NEW pc \in {"claim", "sell"}, NEW a \in Accounts, NEW n \in 0..MaxSold
  PROVE  LET q == [NoRequest EXCEPT !.pc = pc, !.account = a, !.qty = n]
         IN q \in HeldRequests /\ q.pc = pc /\ q.account = a /\ q.qty = n
<1> DEFINE q == [NoRequest EXCEPT !.pc = pc, !.account = a, !.qty = n]
<1>1. NoRequest \in HeldRequests
  BY IdleHolding
<1>2. pc \in {"idle", "sync", "claim", "sell", "confirm", "book"}
  OBVIOUS
<1>3. q \in HeldRequests
  BY <1>1, <1>2 DEF HeldRequests
<1>4. q.pc = pc /\ q.account = a /\ q.qty = n
  BY DEF NoRequest
<1> QED
  BY <1>3, <1>4

LEMMA OneHoldingMoves ==
  ASSUME HoldingsTypeOK, NEW r \in Requests, NEW q, req' = [req EXCEPT ![r] = q]
  PROVE  /\ req'[r] = q /\ \A s \in Requests \ {r} : req'[s] = req[s]
         /\ q \in HeldRequests => req' \in [Requests -> HeldRequests]
  BY DEF HoldingsTypeOK, HeldRequests

(* A request that begins, or ends without effect.                            *)
LEMMA RequestKeeps ==
  ASSUME PositionInv, NEW r \in Requests, NEW q \in HeldRequests,
         req' = [req EXCEPT ![r] = q],
         UNCHANGED <<market, tokens, bought, sold, row, rebought, late>>,
         unbooked' \in Nat,
         split' \in BOOLEAN, split => split', blind' \in BOOLEAN, blind => blind',
         Clean' => ClosesEmpty(q),
         ~ late => (q.pc \in {"claim", "confirm"} => Payout),
         ~ late /\ ~ rebought /\ ~ SoldOut => SeesRow(q),
         ~ rebought => (q.pc = "sync" /\ q.net = 0 => SoldOut)
  PROVE  PositionInv'
<1>1. /\ req'[r] = q /\ \A s \in Requests \ {r} : req'[s] = req[s]
      /\ req' \in [Requests -> HeldRequests]
  BY OneHoldingMoves DEF PositionInv
<1>2. UNCHANGED <<held, got, gone>>
  BY DEF tokens
<1>3. HoldingsTypeOK'
  BY <1>1, <1>2 DEF PositionInv, HoldingsTypeOK, HeldRequests
<1>4. Conserve'
  BY <1>2 DEF PositionInv, Conserve, Held
<1>5. Clean' => Clean
  BY DEF Clean
<1>6. SoldOut' = SoldOut /\ NothingLeft' = NothingLeft /\ Held' = Held
  BY <1>2 DEF SoldOut, NothingLeft, Held
<1>7. EmptyInv'
  <2> SUFFICES ASSUME Clean' PROVE RowEmpty' /\ \A s \in Requests : ClosesEmpty(req[s])'
    BY DEF EmptyInv
  <2>1. RowEmpty'
    BY <1>5, <1>6 DEF PositionInv, EmptyInv, RowEmpty
  <2>2. ASSUME NEW s \in Requests PROVE ClosesEmpty(req[s])'
    <3>1. ClosesEmpty(req'[s])
      BY <1>1, <1>5 DEF PositionInv, EmptyInv
    <3> QED
      BY <3>1, <1>2, <1>6 DEF ClosesEmpty
  <2> QED
    BY <2>1, <2>2
<1>8. ClaimsPaid'
  BY <1>1 DEF PositionInv, ClaimsPaid, Payout
<1>9. ClosedIsClaimed'
  BY <1>1, <1>2, <1>6 DEF PositionInv, ClosedIsClaimed, SeesRow, Payout
<1>10. SoldIsSold'
  BY <1>1, <1>2, <1>6 DEF PositionInv, SoldIsSold
<1> QED
  BY <1>3, <1>4, <1>7, <1>8, <1>9, <1>10 DEF PositionInv

LEMMA SyncReadKeeps == ASSUME PositionInv, NEW r \in Requests, SyncRead(r) PROVE PositionInv'
<1> DEFINE c == row.status = "CLOSED"
           p == Payout
           n == Net
           m == IF bought > 0 THEN bought ELSE sold
           q == [pc |-> "sync", account |-> "wallet", qty |-> m, own |-> 0, net |-> n,
                 closed |-> c, paid |-> p]
<1>1. /\ bought \in Nat /\ sold \in Nat /\ MaxBuy \in Nat /\ MaxSold \in Nat
      /\ bought <= MaxBuy /\ sold <= MaxSold /\ MaxBuy <= MaxSold /\ bought + sold > 0
  BY PositionTyped, HoldingsConstants DEF PositionInv, HoldingsTypeOK, SyncRead
<1>2. n \in 0..MaxBuy /\ m \in 0..MaxSold
  BY <1>1 DEF Net
<1>3. n = 0 => SoldOut
  BY <1>1 DEF SoldOut, Net
<1>4. req' = [req EXCEPT ![r] = q] /\ UNCHANGED <<market, tokens, books, row, marks>>
  BY DEF SyncRead
<1>5. c \in BOOLEAN /\ p \in BOOLEAN /\ (c <=> row.status = "CLOSED") /\ (p <=> Payout)
  BY DEF Payout
<1> HIDE DEF c, p, n, m
<1>6. /\ q \in HeldRequests /\ q.pc = "sync" /\ q.net = n
      /\ q.closed = c /\ q.paid = p
  <2>1. 0 \in 0..MaxSold
    BY <1>1
  <2>2. "sync" \in {"idle", "sync", "claim", "sell", "confirm", "book"}
    OBVIOUS
  <2>3. q \in HeldRequests
    BY <2>1, <2>2, <1>2, <1>5 DEF HeldRequests, Accounts
  <2> QED
    BY <2>3
<1> HIDE DEF q
<1>7. /\ UNCHANGED <<split, blind, rebought, late, bought, sold>>
      /\ split' \in BOOLEAN /\ blind' \in BOOLEAN /\ unbooked' \in Nat
  BY <1>4 DEF marks, books, PositionInv, HoldingsTypeOK
<1>8. Clean' => ClosesEmpty(q)
  <2> SUFFICES ASSUME Clean PROVE ClosesEmpty(q)
    BY <1>7 DEF Clean
  <2>1. q.closed /\ q.paid => SoldOut \/ NothingLeft
    BY <1>5, <1>6 DEF PositionInv, EmptyInv, RowEmpty
  <2> QED
    BY <2>1, <1>6 DEF ClosesEmpty
<1>9. ~ late /\ ~ rebought /\ ~ SoldOut => SeesRow(q)
  BY <1>3, <1>5, <1>6 DEF PositionInv, ClosedIsClaimed, SeesRow
<1>10. q.net = 0 => SoldOut
  BY <1>3, <1>6
<1>11. q.pc \notin {"claim", "confirm"}
  BY <1>6
<1> QED
  BY <1>4, <1>6, <1>7, <1>8, <1>9, <1>10, <1>11, RequestKeeps

LEMMA ClaimReadKeeps == ASSUME PositionInv, NEW r \in Requests, ClaimRead(r) PROVE PositionInv'
<1> DEFINE a0 == Holder
           n0 == held[a0]
           more == Held > n0
           q == [NoRequest EXCEPT !.pc = "claim", !.account = a0, !.qty = n0]
<1>1. /\ req' = [req EXCEPT ![r] = q] /\ split' = (split \/ more)
      /\ UNCHANGED <<market, tokens, bought, sold, unbooked, row, blind, rebought, late>>
  BY DEF ClaimRead, Begin, books
<1>2. /\ held["agent"] \in Nat /\ held["wallet"] \in Nat /\ held["book"] \in Nat
      /\ held["agent"] > 0 \/ held["wallet"] > 0
  BY PositionTyped DEF PositionInv, ClaimRead, Claimable, Accounts
<1>3. /\ a0 \in Accounts /\ n0 > 0 /\ n0 \in Nat /\ n0 = held[a0]
      /\ ~ more => Held = held[a0]
  BY <1>2 DEF Holder, Accounts, Held
<1>4. market # "open" /\ Payout
  BY DEF ClaimRead, Claimable, Result, Payout, Settled
<1>5. n0 \in 0..MaxSold
  BY <1>3, HoldingsConstants DEF PositionInv, HoldingsTypeOK, Places
<1>6. more \in BOOLEAN
  OBVIOUS
<1> HIDE DEF more, a0, n0
<1>7. q \in HeldRequests /\ q.pc = "claim" /\ q.account = a0 /\ q.qty = n0
  <2>1. PICK a \in Accounts, n \in 0..MaxSold : a = a0 /\ n = n0
    BY <1>3, <1>5
  <2> DEFINE offer == [NoRequest EXCEPT !.pc = "claim", !.account = a, !.qty = n]
  <2>2. q = offer
    BY <2>1
  <2>3. offer \in HeldRequests /\ offer.pc = "claim" /\ offer.account = a /\ offer.qty = n
    BY OfferTyped
  <2> QED
    BY <2>1, <2>2, <2>3
<1> HIDE DEF q
<1>8. /\ split' \in BOOLEAN /\ (split => split') /\ (more => split') /\ blind' \in BOOLEAN
      /\ unbooked' \in Nat
  BY <1>1, <1>6 DEF PositionInv, HoldingsTypeOK
<1>9. Clean' => ClosesEmpty(q)
  <2> SUFFICES ASSUME ~ more PROVE ClosesEmpty(q)
    BY <1>8 DEF Clean
  <2> QED
    BY <1>3, <1>4, <1>7 DEF ClosesEmpty
<1>10. SeesRow(q)
  BY <1>7 DEF SeesRow
<1> QED
  BY <1>1, <1>4, <1>7, <1>8, <1>9, <1>10, RequestKeeps

LEMMA ClaimBlindKeeps == ASSUME PositionInv, NEW r \in Requests, ClaimBlind(r) PROVE PositionInv'
<1>1. PICK a \in Accounts : Begin(r, "claim", [account |-> a, qty |-> row.amount])
  BY DEF ClaimBlind
<1> DEFINE q == [NoRequest EXCEPT !.pc = "claim", !.account = a, !.qty = row.amount]
<1>2. /\ req' = [req EXCEPT ![r] = q] /\ blind' = TRUE
      /\ UNCHANGED <<market, tokens, bought, sold, unbooked, row, split, rebought, late>>
  BY <1>1 DEF ClaimBlind, Begin, books
<1>3. Payout
  BY DEF ClaimBlind, Result, Payout, Settled
<1>4. q \in HeldRequests /\ q.pc = "claim"
  <2>1. row.amount \in 0..MaxSold
    BY DEF PositionInv, HoldingsTypeOK
  <2> QED
    BY <2>1, OfferTyped
<1> HIDE DEF q
<1>5. ~ Clean' /\ SeesRow(q) /\ split' \in BOOLEAN /\ unbooked' \in Nat
  BY <1>2, <1>4 DEF Clean, SeesRow, PositionInv, HoldingsTypeOK
<1> QED
  BY <1>2, <1>3, <1>4, <1>5, RequestKeeps

LEMMA OtherRequestKeeps ==
  ASSUME PositionInv, NEW r \in Requests, PrepareClose(r) \/ Abort(r)
  PROVE  PositionInv'
<1>1. UNCHANGED <<market, tokens, bought, sold, row, split, blind, rebought, late>>
  BY DEF PrepareClose, Abort, marks, books
<1>2. unbooked' \in Nat
  BY PositionTyped DEF PositionInv, PrepareClose, Abort, books
<1>3. PICK q \in HeldRequests : req' = [req EXCEPT ![r] = q] /\ q.pc \in {"idle", "sell"}
  <2>1. CASE PrepareClose(r)
    <3>1. PICK n \in {held["wallet"], row.amount} :
            Begin(r, "sell", [account |-> "wallet", qty |-> n])
      BY <2>1 DEF PrepareClose
    <3> DEFINE q == [NoRequest EXCEPT !.pc = "sell", !.account = "wallet", !.qty = n]
    <3>2. req' = [req EXCEPT ![r] = q]
      BY <3>1 DEF Begin
    <3>3. n \in 0..MaxSold
      <4>1. held["wallet"] \in 0..MaxBuy /\ row.amount \in 0..MaxSold
        BY DEF PositionInv, HoldingsTypeOK, Places, Accounts
      <4>2. held["wallet"] \in 0..MaxSold
        BY <4>1, HoldingsConstants
      <4> QED
        BY <3>1, <4>1, <4>2
    <3>4. q \in HeldRequests /\ q.pc = "sell"
      BY <3>3, OfferTyped DEF Accounts
    <3> QED
      BY <3>2, <3>4
  <2>2. CASE Abort(r)
    BY <2>2, IdleHolding DEF Abort, EndRequest
  <2> QED
    BY <2>1, <2>2
<1>4. ClosesEmpty(q) /\ SeesRow(q) /\ q.pc \notin {"sync", "claim", "confirm"}
  BY <1>3 DEF ClosesEmpty, SeesRow
<1>5. split' \in BOOLEAN /\ blind' \in BOOLEAN
  BY <1>1 DEF PositionInv, HoldingsTypeOK
<1> QED
  BY <1>1, <1>2, <1>3, <1>4, <1>5, RequestKeeps

-----------------------------------------------------------------------------
LEMMA SyncSaveKeeps == ASSUME PositionInv, NEW r \in Requests, SyncSave(r) PROVE PositionInv'
<1> DEFINE seen == req[r]
           stays == NewStatus(seen)
           amount == IF seen.net = 0 THEN seen.qty ELSE seen.net
<1>1. /\ seen.pc = "sync" /\ row' = [status |-> stays, amount |-> amount]
      /\ req' = [req EXCEPT ![r] = NoRequest] /\ UNCHANGED <<market, tokens, books, marks>>
  BY DEF SyncSave, EndRequest
<1>2. UNCHANGED <<held, got, gone, bought, sold, unbooked, split, blind, rebought, late>>
  BY <1>1 DEF tokens, books, marks
<1>3. /\ req'[r] = NoRequest /\ \A s \in Requests \ {r} : req'[s] = req[s]
      /\ req' \in [Requests -> HeldRequests]
  BY <1>1, IdleHolding, OneHoldingMoves DEF PositionInv
<1>4. seen.net \in 0..MaxBuy /\ seen.qty \in 0..MaxSold /\ seen.net \in Nat
      /\ MaxBuy <= MaxSold /\ MaxBuy \in Nat /\ MaxSold \in Nat
  BY PositionTyped, HoldingsConstants DEF PositionInv, HoldingsTypeOK
<1>5. stays \in {"OPEN", "SETTLED", "CLOSED"} /\ amount \in 0..MaxSold
  BY <1>4 DEF NewStatus
<1>6. /\ stays = "CLOSED" => seen.net = 0 \/ (seen.closed /\ seen.paid)
      /\ seen.net # 0 /\ seen.closed /\ seen.paid => stays = "CLOSED"
      /\ seen.net # 0 /\ ~ seen.closed => stays # "CLOSED"
  BY <1>4 DEF NewStatus
<1> HIDE DEF stays, amount
<1>7. row'.status = stays /\ row'.amount = amount
  BY <1>1
<1>8. HoldingsTypeOK'
  BY <1>1, <1>2, <1>3, <1>5 DEF PositionInv, HoldingsTypeOK, HeldRequests
<1>9. Conserve'
  BY <1>1, <1>2 DEF PositionInv, Conserve, Held
<1>10. EmptyInv'
  <2> SUFFICES ASSUME Clean' PROVE RowEmpty' /\ \A s \in Requests : ClosesEmpty(req[s])'
    BY DEF EmptyInv
  <2>1. Clean
    BY <1>2 DEF Clean
  <2>2. RowEmpty'
    <3>1. ASSUME stays = "CLOSED" PROVE SoldOut \/ NothingLeft
      <4>1. CASE seen.net = 0
        BY <4>1, <2>1, <1>1 DEF PositionInv, SoldIsSold, Clean
      <4>2. CASE seen.closed /\ seen.paid
        BY <4>2, <2>1, <1>1 DEF PositionInv, EmptyInv, ClosesEmpty
      <4> QED
        BY <3>1, <4>1, <4>2, <1>6
    <3> QED
      BY <3>1, <1>1, <1>2, <1>7 DEF RowEmpty, NothingLeft, SoldOut, Held
  <2>3. ASSUME NEW s \in Requests PROVE ClosesEmpty(req[s])'
    <3>1. ClosesEmpty(req'[s])
      BY <2>1, <1>3, IdleHolding DEF PositionInv, EmptyInv, ClosesEmpty
    <3> QED
      BY <3>1, <1>1, <1>2 DEF ClosesEmpty, NothingLeft, SoldOut, Held
  <2> QED
    BY <2>2, <2>3
<1>11. ClaimsPaid'
  BY <1>1, <1>2, <1>3, IdleHolding DEF PositionInv, ClaimsPaid, Payout
<1>12. ClosedIsClaimed'
  <2> SUFFICES ASSUME ~ late, ~ rebought, ~ SoldOut
               PROVE  /\ row'.status = "CLOSED" => Payout
                      /\ \A s \in Requests : SeesRow(req[s])'
    BY <1>1, <1>2 DEF ClosedIsClaimed, SoldOut, Payout
  <2>1. SeesRow(seen) /\ (row.status = "CLOSED" => Payout)
    BY DEF PositionInv, ClosedIsClaimed
  <2>2. row'.status = "CLOSED" <=> row.status = "CLOSED"
    BY <2>1, <1>1, <1>6, <1>7 DEF SeesRow
  <2>3. ASSUME NEW s \in Requests PROVE SeesRow(req[s])'
    <3>1. SeesRow(req'[s])
      BY <1>3, IdleHolding DEF PositionInv, ClosedIsClaimed, SeesRow
    <3> QED
      BY <3>1, <2>2 DEF SeesRow
  <2> QED
    BY <2>1, <2>2, <2>3
<1>13. SoldIsSold'
  BY <1>1, <1>2, <1>3, IdleHolding DEF PositionInv, SoldIsSold, SoldOut
<1> QED
  BY <1>8, <1>9, <1>10, <1>11, <1>12, <1>13 DEF PositionInv

LEMMA ConfirmRedeemKeeps ==
  ASSUME PositionInv, NEW r \in Requests, ConfirmRedeem(r)
  PROVE  PositionInv'
<1> DEFINE reads == \E s \in Requests : req[s].pc = "sync"
<1>1. /\ req[r].pc = "confirm" /\ row' = [row EXCEPT !.status = "CLOSED"]
      /\ late' = (late \/ reads)
      /\ req' = [req EXCEPT ![r] = NoRequest]
      /\ UNCHANGED <<market, tokens, books, split, blind, rebought>>
  BY DEF ConfirmRedeem, Redeemed, EndRequest
<1>2. UNCHANGED <<held, got, gone, bought, sold, unbooked>>
  BY <1>1 DEF tokens, books
<1>3. /\ req'[r] = NoRequest /\ \A s \in Requests \ {r} : req'[s] = req[s]
      /\ req' \in [Requests -> HeldRequests]
  BY <1>1, IdleHolding, OneHoldingMoves DEF PositionInv
<1>4. reads \in BOOLEAN /\ (~ reads => \A s \in Requests : req[s].pc # "sync")
  OBVIOUS
<1> HIDE DEF reads
<1>5. late' \in BOOLEAN /\ (~ late' => ~ late /\ \A s \in Requests : req[s].pc # "sync")
  BY <1>1, <1>4 DEF PositionInv, HoldingsTypeOK
<1>6. row'.status = "CLOSED" /\ row' \in [status: {"NONE", "OPEN", "SETTLED", "CLOSED"},
                                          amount: 0..MaxSold]
  BY <1>1 DEF PositionInv, HoldingsTypeOK
<1>7. HoldingsTypeOK'
  BY <1>1, <1>2, <1>3, <1>5, <1>6 DEF PositionInv, HoldingsTypeOK, HeldRequests
<1>8. Conserve'
  BY <1>1, <1>2 DEF PositionInv, Conserve, Held
<1>9. EmptyInv'
  <2> SUFFICES ASSUME Clean' PROVE RowEmpty' /\ \A s \in Requests : ClosesEmpty(req[s])'
    BY DEF EmptyInv
  <2>1. Clean
    BY <1>1 DEF Clean
  <2>2. RowEmpty'
    BY <2>1, <1>1, <1>2 DEF PositionInv, EmptyInv, ClosesEmpty, RowEmpty, NothingLeft, SoldOut, Held
  <2>3. ASSUME NEW s \in Requests PROVE ClosesEmpty(req[s])'
    <3>1. ClosesEmpty(req'[s])
      BY <2>1, <1>3, IdleHolding DEF PositionInv, EmptyInv, ClosesEmpty
    <3> QED
      BY <3>1, <1>1, <1>2 DEF ClosesEmpty, NothingLeft, SoldOut, Held
  <2> QED
    BY <2>2, <2>3
<1>10. ClaimsPaid'
  BY <1>1, <1>3, <1>5, IdleHolding DEF PositionInv, ClaimsPaid, Payout
<1>11. ClosedIsClaimed'
  <2> SUFFICES ASSUME ~ late' PROVE Payout /\ \A s \in Requests : req'[s].pc # "sync"
    BY <1>1 DEF ClosedIsClaimed, SeesRow, Payout
  <2>1. Payout
    BY <1>1, <1>5 DEF PositionInv, ClaimsPaid
  <2> QED
    BY <2>1, <1>3, <1>5, IdleHolding
<1>12. SoldIsSold'
  BY <1>1, <1>2, <1>3, IdleHolding DEF PositionInv, SoldIsSold, SoldOut
<1> QED
  BY <1>7, <1>8, <1>9, <1>10, <1>11, <1>12 DEF PositionInv

(* A redeem takes all there is, and then no other claim does.                *)
LEMMA RedeemKeeps == ASSUME PositionInv, NEW r \in Requests, Redeem(r) PROVE PositionInv'
<1> DEFINE a == req[r].account
           n == req[r].qty
           q == [req[r] EXCEPT !.pc = "confirm"]
<1>1. /\ req[r].pc = "claim" /\ n <= held[a] /\ held' = [held EXCEPT ![a] = held[a] - n]
      /\ UNCHANGED <<market, got, gone, bought, sold, unbooked, row, split, blind, rebought, late>>
  BY DEF Redeem, books, marks
<1>2. req' = [req EXCEPT ![r] = q]
  BY DEF Redeem, PositionInv, HoldingsTypeOK
<1>3. q \in HeldRequests /\ q.pc = "confirm"
  BY PositionTyped DEF PositionInv, HeldRequests
<1>4. a \in {"agent", "wallet"} /\ n \in Nat
  BY PositionTyped DEF PositionInv
<1>5. /\ held["agent"] \in 0..MaxBuy /\ held["wallet"] \in 0..MaxBuy /\ held["book"] \in 0..MaxBuy
      /\ MaxBuy \in Nat /\ got \in Nat /\ gone \in Nat
  BY PositionTyped DEF PositionInv, HoldingsTypeOK, Accounts, Places
<1>6. ClosesEmpty(req[r]) \/ ~ Clean
  BY DEF PositionInv, EmptyInv
<1> HIDE DEF a, n, q
<1>7. /\ req'[r] = q /\ \A s \in Requests \ {r} : req'[s] = req[s]
      /\ req' \in [Requests -> HeldRequests]
  BY <1>2, <1>3, OneHoldingMoves DEF PositionInv
<1>8. /\ held' \in [Places -> 0..MaxBuy] /\ held'["book"] = held["book"]
      /\ held'["agent"] <= held["agent"] /\ held'["wallet"] <= held["wallet"]
      /\ held'["agent"] \in Nat /\ held'["wallet"] \in Nat /\ held'[a] = held[a] - n
  BY <1>1, <1>4, <1>5 DEF PositionInv, HoldingsTypeOK, Accounts, Places
<1>9. HoldingsTypeOK'
  BY <1>1, <1>7, <1>8 DEF PositionInv, HoldingsTypeOK, HeldRequests
<1>10. Conserve'
  BY <1>1, <1>5, <1>8 DEF PositionInv, Conserve, Held
<1>11. EmptyInv'
  <2> SUFFICES ASSUME Clean' PROVE RowEmpty' /\ \A s \in Requests : ClosesEmpty(req[s])'
    BY DEF EmptyInv
  <2>1. Clean
    BY <1>1 DEF Clean
  <2>2. market # "open" /\ n > 0 /\ held[a] \in {0, n} /\ Held = held[a]
    BY <2>1, <1>1, <1>6 DEF ClosesEmpty, a, n
  <2>3. held'[a] = 0 /\ held["agent"] + held["wallet"] + held["book"] = held[a]
    BY <2>2, <1>1, <1>4, <1>5, <1>8 DEF Held
  <2>4. held'["agent"] = 0 /\ held'["wallet"] = 0 /\ held'["book"] = 0
    <3>1. CASE a = "agent"
      BY <3>1, <2>3, <1>1, <1>5, <1>8
    <3>2. CASE a = "wallet"
      BY <3>2, <2>3, <1>1, <1>5, <1>8
    <3> QED
      BY <3>1, <3>2, <1>4
  <2>5. Held' = 0 /\ NothingLeft'
    BY <2>2, <2>4, <1>1 DEF Held, NothingLeft
  <2>6. RowEmpty'
    BY <2>5 DEF RowEmpty
  <2>7. ASSUME NEW s \in Requests PROVE ClosesEmpty(req[s])'
    <3>1. CASE s = r
      BY <3>1, <2>5, <1>3, <1>7 DEF ClosesEmpty
    <3>2. CASE s # r
      <4>1. req'[s] = req[s] /\ ClosesEmpty(req[s])
        BY <3>2, <2>1, <1>7 DEF PositionInv, EmptyInv
      <4>2. req[s].account \in {"agent", "wallet"}
        BY PositionTyped DEF PositionInv
      <4>3. held'[req[s].account] = 0
        BY <4>2, <2>4
      <4> QED
        BY <4>1, <4>3, <2>5, <1>1 DEF ClosesEmpty
    <3> QED
      BY <3>1, <3>2
  <2> QED
    BY <2>6, <2>7
<1>12. ClaimsPaid'
  BY <1>1, <1>7 DEF PositionInv, ClaimsPaid, Payout
<1>13. ClosedIsClaimed'
  BY <1>1, <1>3, <1>7 DEF PositionInv, ClosedIsClaimed, SeesRow, Payout, SoldOut
<1>14. SoldIsSold'
  BY <1>1, <1>3, <1>7 DEF PositionInv, SoldIsSold, SoldOut
<1> QED
  BY <1>9, <1>10, <1>11, <1>12, <1>13, <1>14 DEF PositionInv

-----------------------------------------------------------------------------
(* Tokens that move while the market trades: nobody relies on there being    *)
(* none, or on how many there are.  A request may move on to "book".         *)
LEMMA TradeKeeps ==
  ASSUME PositionInv, market = "open",
         held' \in [Places -> 0..MaxBuy], got' \in 0..MaxBuy, gone' \in 0..MaxBuy,
         unbooked' \in Nat, Conserve',
         req' \in [Requests -> HeldRequests],
         \A s \in Requests : req'[s] = req[s] \/ req'[s].pc = "book",
         UNCHANGED <<market, bought, sold, row, split, blind, rebought, late>>
  PROVE  PositionInv'
<1>1. HoldingsTypeOK'
  BY DEF PositionInv, HoldingsTypeOK, HeldRequests
<1>2. SoldOut' = SoldOut /\ Payout' = Payout /\ Clean' = Clean
  BY DEF SoldOut, Payout, Clean
<1>3. EmptyInv'
  <2> SUFFICES ASSUME Clean PROVE RowEmpty' /\ \A s \in Requests : ClosesEmpty(req[s])'
    BY <1>2 DEF EmptyInv
  <2>1. RowEmpty'
    BY <1>2 DEF PositionInv, EmptyInv, RowEmpty, NothingLeft
  <2>2. ASSUME NEW s \in Requests PROVE ClosesEmpty(req[s])'
    <3>1. ClosesEmpty(req[s]) \/ req'[s].pc = "book"
      BY DEF PositionInv, EmptyInv
    <3> QED
      BY <3>1, <1>2 DEF ClosesEmpty, NothingLeft
  <2> QED
    BY <2>1, <2>2
<1>4. ClaimsPaid'
  BY <1>2 DEF PositionInv, ClaimsPaid
<1>5. ClosedIsClaimed'
  BY <1>2 DEF PositionInv, ClosedIsClaimed, SeesRow
<1>6. SoldIsSold'
  BY <1>2 DEF PositionInv, SoldIsSold
<1> QED
  BY <1>1, <1>3, <1>4, <1>5, <1>6 DEF PositionInv

LEMMA BuyKeeps == ASSUME PositionInv, NEW a \in Accounts, Buy(a) PROVE PositionInv'
<1>1. /\ market = "open" /\ got < MaxBuy /\ got' = got + 1
      /\ held' = [held EXCEPT ![a] = held[a] + 1]
      /\ UNCHANGED <<market, gone, bought, sold, unbooked, row, req, split, blind, rebought, late>>
  BY DEF Buy, books, marks
<1>2. /\ held["agent"] \in Nat /\ held["wallet"] \in Nat /\ held["book"] \in Nat
      /\ MaxBuy \in Nat /\ got \in Nat /\ gone \in Nat
      /\ held["agent"] + held["wallet"] + held["book"] + gone <= got
  BY PositionTyped DEF PositionInv, Conserve, Held
<1>3. a = "agent" \/ a = "wallet"
  BY DEF Accounts
<1>4. /\ held' \in [Places -> 0..MaxBuy] /\ got' \in 0..MaxBuy /\ held'["book"] = held["book"]
      /\ \/ held'["agent"] = held["agent"] + 1 /\ held'["wallet"] = held["wallet"]
         \/ held'["wallet"] = held["wallet"] + 1 /\ held'["agent"] = held["agent"]
  BY <1>1, <1>2, <1>3 DEF PositionInv, HoldingsTypeOK, Accounts, Places
<1>5. Conserve'
  BY <1>1, <1>2, <1>4 DEF Conserve, Held
<1>6. /\ gone' \in 0..MaxBuy /\ unbooked' \in Nat /\ req' \in [Requests -> HeldRequests]
      /\ \A s \in Requests : req'[s] = req[s]
  BY <1>1, PositionTyped DEF PositionInv, HoldingsTypeOK, HeldRequests
<1> QED
  BY <1>1, <1>4, <1>5, <1>6, TradeKeeps

LEMMA SellMinedKeeps == ASSUME PositionInv, NEW r \in Requests, SellMined(r) PROVE PositionInv'
<1>1. PICK n \in 0..req[r].qty : \E rest \in {0, req[r].qty - n} :
        /\ n + rest > 0
        /\ held' = [held EXCEPT !["wallet"] = @ - (n + rest), !["book"] = @ + rest]
        /\ gone' = gone + n
        /\ req' = [req EXCEPT ![r].pc = "book", ![r].own = n]
  BY DEF SellMined
<1>2. PICK rest \in {0, req[r].qty - n} :
        /\ held' = [held EXCEPT !["wallet"] = @ - (n + rest), !["book"] = @ + rest]
        /\ gone' = gone + n
  BY <1>1
<1>3. /\ market = "open" /\ req[r].qty <= held["wallet"]
      /\ UNCHANGED <<market, got, bought, sold, unbooked, row, split, blind, rebought, late>>
  BY DEF SellMined, books, marks
<1>4. /\ held["agent"] \in Nat /\ held["wallet"] \in Nat /\ held["book"] \in Nat
      /\ MaxBuy \in Nat /\ got \in Nat /\ gone \in Nat /\ req[r].qty \in Nat /\ got <= MaxBuy
      /\ held["agent"] + held["wallet"] + held["book"] + gone <= got
      /\ req[r].qty <= MaxSold /\ MaxSold \in Nat
  BY PositionTyped DEF PositionInv, HoldingsTypeOK, Conserve, Held
<1>5. n \in Nat /\ rest \in Nat /\ n + rest <= held["wallet"] /\ n <= MaxSold
  BY <1>2, <1>3, <1>4
<1>6. /\ held' \in [Places -> 0..MaxBuy] /\ gone' \in 0..MaxBuy
      /\ held'["agent"] = held["agent"] /\ held'["book"] = held["book"] + rest
      /\ held'["wallet"] = held["wallet"] - (n + rest)
  <2>1. held["wallet"] - (n + rest) \in 0..MaxBuy /\ held["book"] + rest \in 0..MaxBuy
        /\ gone + n \in 0..MaxBuy
    BY <1>4, <1>5
  <2> QED
    BY <1>2, <2>1 DEF PositionInv, HoldingsTypeOK, Accounts, Places
<1>7. Conserve'
  BY <1>2, <1>3, <1>4, <1>5, <1>6 DEF Conserve, Held
<1>8. req' \in [Requests -> HeldRequests] /\ req'[r].pc = "book"
      /\ \A s \in Requests : req'[s] = req[s] \/ req'[s].pc = "book"
  <2> DEFINE q == [req[r] EXCEPT !.pc = "book", !.own = n]
  <2>1. req' = [req EXCEPT ![r] = q]
    BY <1>1 DEF PositionInv, HoldingsTypeOK
  <2>2. n \in 0..MaxSold
    BY <1>4, <1>5
  <2>3. q \in HeldRequests /\ q.pc = "book"
    BY <2>2, PositionTyped DEF PositionInv, HeldRequests
  <2> HIDE DEF q
  <2> QED
    BY <2>1, <2>3, OneHoldingMoves DEF PositionInv
<1>9. got' \in 0..MaxBuy /\ unbooked' \in Nat
  BY <1>3 DEF PositionInv, HoldingsTypeOK
<1> QED
  BY <1>3, <1>6, <1>7, <1>8, <1>9, TradeKeeps

LEMMA RestFilledKeeps == ASSUME PositionInv, RestFilled PROVE PositionInv'
<1>1. /\ market = "open" /\ held["book"] > 0 /\ gone' = gone + 1 /\ unbooked' = unbooked + 1
      /\ held' = [held EXCEPT !["book"] = held["book"] - 1]
      /\ UNCHANGED <<market, got, bought, sold, row, req, split, blind, rebought, late>>
  BY DEF RestFilled, marks
<1>2. /\ held["agent"] \in Nat /\ held["wallet"] \in Nat /\ held["book"] \in Nat
      /\ MaxBuy \in Nat /\ got \in Nat /\ gone \in Nat /\ unbooked \in Nat /\ got <= MaxBuy
      /\ held["agent"] + held["wallet"] + held["book"] + gone <= got
  BY PositionTyped DEF PositionInv, HoldingsTypeOK, Conserve, Held
<1>3. /\ held' \in [Places -> 0..MaxBuy] /\ gone' \in 0..MaxBuy
      /\ held'["agent"] = held["agent"] /\ held'["wallet"] = held["wallet"]
      /\ held'["book"] = held["book"] - 1
  BY <1>1, <1>2 DEF PositionInv, HoldingsTypeOK, Accounts, Places
<1>4. Conserve'
  BY <1>1, <1>2, <1>3 DEF Conserve, Held
<1>5. /\ got' \in 0..MaxBuy /\ unbooked' \in Nat /\ req' \in [Requests -> HeldRequests]
      /\ \A s \in Requests : req'[s] = req[s]
  BY <1>1, <1>2, PositionTyped DEF PositionInv, HoldingsTypeOK, HeldRequests
<1> QED
  BY <1>1, <1>3, <1>4, <1>5, TradeKeeps

(* What rested comes back, at any time: as much is held as before, and a     *)
(* claim that is for all there is left nothing in the book.                  *)
LEMMA RestReturnedKeeps == ASSUME PositionInv, RestReturned PROVE PositionInv'
<1>1. /\ held["book"] > 0
      /\ held' = [held EXCEPT !["wallet"] = held["wallet"] + held["book"], !["book"] = 0]
      /\ UNCHANGED <<market, got, gone, bought, sold, unbooked, row, req, split, blind, rebought, late>>
  BY DEF RestReturned, books, marks
<1>2. /\ held["agent"] \in Nat /\ held["wallet"] \in Nat /\ held["book"] \in Nat
      /\ MaxBuy \in Nat /\ got \in Nat /\ gone \in Nat /\ got <= MaxBuy
      /\ held["agent"] + held["wallet"] + held["book"] + gone <= got
  BY PositionTyped DEF PositionInv, HoldingsTypeOK, Conserve, Held
<1>3. /\ held' \in [Places -> 0..MaxBuy] /\ held'["agent"] = held["agent"]
      /\ held'["wallet"] = held["wallet"] + held["book"] /\ held'["book"] = 0
  BY <1>1, <1>2 DEF PositionInv, HoldingsTypeOK, Accounts, Places
<1>4. Held' = Held
  BY <1>2, <1>3 DEF Held
<1>5. HoldingsTypeOK' /\ Conserve'
  BY <1>1, <1>3, <1>4 DEF PositionInv, HoldingsTypeOK, Conserve
<1>6. /\ SoldOut' = SoldOut /\ Payout' = Payout /\ Clean' = Clean /\ NothingLeft' = NothingLeft
      /\ ~ NothingLeft
  BY <1>1, <1>2, <1>4 DEF SoldOut, Payout, Clean, NothingLeft, Held
<1>7. EmptyInv'
  <2> SUFFICES ASSUME Clean PROVE RowEmpty' /\ \A s \in Requests : ClosesEmpty(req[s])'
    BY <1>6 DEF EmptyInv
  <2>1. RowEmpty'
    BY <1>1, <1>6 DEF PositionInv, EmptyInv, RowEmpty
  <2>2. ASSUME NEW s \in Requests PROVE ClosesEmpty(req[s])'
    <3>1. ClosesEmpty(req[s]) /\ req[s].account \in {"agent", "wallet"}
      BY PositionTyped DEF PositionInv, EmptyInv
    <3>2. Held # held[req[s].account]
      <4>1. CASE req[s].account = "agent"
        BY <4>1, <1>1, <1>2 DEF Held
      <4>2. CASE req[s].account = "wallet"
        BY <4>2, <1>1, <1>2 DEF Held
      <4> QED
        BY <4>1, <4>2, <3>1
    <3>3. req[s].pc \notin {"claim", "confirm"}
      BY <3>1, <3>2, <1>6 DEF ClosesEmpty
    <3> QED
      BY <3>1, <3>3, <1>1, <1>6 DEF ClosesEmpty
  <2> QED
    BY <2>1, <2>2
<1>8. ClaimsPaid'
  BY <1>1, <1>6 DEF PositionInv, ClaimsPaid
<1>9. ClosedIsClaimed' /\ SoldIsSold'
  BY <1>1, <1>6 DEF PositionInv, ClosedIsClaimed, SeesRow, SoldIsSold
<1> QED
  BY <1>5, <1>7, <1>8, <1>9 DEF PositionInv

(* A sale is booked, by the page or by the import.  It may be the request    *)
(* that ends, or be left with nothing to import.                             *)
LEMMA BookedKeeps ==
  ASSUME PositionInv, NEW n \in Nat, BookSale(n), unbooked' \in Nat,
         req' \in [Requests -> HeldRequests],
         \A s \in Requests : req'[s] = req[s] \/ req'[s].pc \in {"idle", "book"},
         UNCHANGED <<market, tokens, bought, row, split, blind, rebought, late>>
  PROVE  PositionInv'
<1>1. sold \in Nat /\ bought \in Nat /\ sold' = sold + n /\ sold' \in 0..MaxSold
  BY PositionTyped DEF PositionInv, BookSale
<1>2. UNCHANGED <<held, got, gone>>
  BY DEF tokens
<1>3. HoldingsTypeOK'
  BY <1>1, <1>2 DEF PositionInv, HoldingsTypeOK, HeldRequests
<1>4. /\ SoldOut => SoldOut'
      /\ Conserve' /\ Held' = Held /\ NothingLeft' = NothingLeft /\ Payout' = Payout
      /\ Clean' = Clean
  BY <1>1, <1>2 DEF SoldOut, PositionInv, Conserve, Held, NothingLeft, Payout, Clean
<1>5. EmptyInv'
  <2> SUFFICES ASSUME Clean PROVE RowEmpty' /\ \A s \in Requests : ClosesEmpty(req[s])'
    BY <1>4 DEF EmptyInv
  <2>1. RowEmpty'
    BY <1>4 DEF PositionInv, EmptyInv, RowEmpty
  <2>2. ASSUME NEW s \in Requests PROVE ClosesEmpty(req[s])'
    <3>1. ClosesEmpty(req[s]) \/ req'[s].pc \in {"idle", "book"}
      BY DEF PositionInv, EmptyInv
    <3> QED
      BY <3>1, <1>2, <1>4 DEF ClosesEmpty
  <2> QED
    BY <2>1, <2>2
<1>6. ClaimsPaid'
  BY <1>4 DEF PositionInv, ClaimsPaid
<1>7. ClosedIsClaimed'
  BY <1>4 DEF PositionInv, ClosedIsClaimed, SeesRow
<1>8. SoldIsSold'
  BY <1>4 DEF PositionInv, SoldIsSold
<1> QED
  BY <1>3, <1>4, <1>5, <1>6, <1>7, <1>8 DEF PositionInv

LEMMA SaleBookedKeeps ==
  ASSUME PositionInv,
         RestImported \/ \E r \in Requests : ConfirmClose(r) \/ SellImported(r)
  PROVE  PositionInv'
<1>1. ASSUME NEW r \in Requests, ConfirmClose(r) PROVE PositionInv'
  <2>1. /\ req[r].qty \in Nat /\ BookSale(req[r].qty) /\ unbooked' \in Nat
        /\ UNCHANGED <<market, tokens, bought, row, split, blind, rebought, late>>
    BY <1>1, PositionTyped DEF ConfirmClose, PositionInv, marks
  <2>2. req' = [req EXCEPT ![r] = NoRequest]
    BY <1>1 DEF ConfirmClose, EndRequest
  <2>3. /\ req' \in [Requests -> HeldRequests]
        /\ \A s \in Requests : req'[s] = req[s] \/ req'[s].pc \in {"idle", "book"}
    BY <2>2, IdleHolding, OneHoldingMoves DEF PositionInv
  <2> QED
    BY <2>1, <2>3, BookedKeeps
<1>2. ASSUME NEW r \in Requests, SellImported(r) PROVE PositionInv'
  <2>1. /\ req[r].own \in Nat /\ BookSale(req[r].own) /\ unbooked' \in Nat
        /\ UNCHANGED <<market, tokens, bought, row, split, blind, rebought, late>>
    BY <1>2, PositionTyped DEF SellImported, PositionInv, marks
  <2> DEFINE q == [req[r] EXCEPT !.own = 0]
  <2>2. req' = [req EXCEPT ![r] = q]
    BY <1>2 DEF SellImported, PositionInv, HoldingsTypeOK
  <2>3. q \in HeldRequests /\ q.pc = "book"
    BY <1>2, PositionTyped DEF SellImported, PositionInv, HeldRequests
  <2> HIDE DEF q
  <2>4. /\ req' \in [Requests -> HeldRequests]
        /\ \A s \in Requests : req'[s] = req[s] \/ req'[s].pc \in {"idle", "book"}
    BY <2>2, <2>3, OneHoldingMoves DEF PositionInv
  <2> QED
    BY <2>1, <2>4, BookedKeeps
<1>3. CASE RestImported
  <2>1. /\ unbooked \in Nat /\ BookSale(unbooked) /\ unbooked' \in Nat
        /\ req' \in [Requests -> HeldRequests] /\ \A s \in Requests : req'[s] = req[s]
        /\ UNCHANGED <<market, tokens, bought, row, split, blind, rebought, late>>
    BY <1>3, PositionTyped DEF RestImported, PositionInv, marks, HoldingsTypeOK, HeldRequests
  <2> QED
    BY <2>1, BookedKeeps
<1> QED
  BY <1>1, <1>2, <1>3

(* Another purchase in the books is no matter while nothing is sold.         *)
LEMMA BuyBookedKeeps == ASSUME PositionInv, BuyBooked PROVE PositionInv'
<1> DEFINE some == sold > 0
<1>1. /\ bought < MaxBuy /\ bought' = bought + 1 /\ rebought' = (rebought \/ some)
      /\ UNCHANGED <<market, tokens, sold, unbooked, row, req, split, blind, late>>
  BY DEF BuyBooked
<1>2. bought \in Nat /\ sold \in Nat /\ MaxBuy \in Nat
  BY PositionTyped DEF PositionInv
<1>3. some \in BOOLEAN /\ (~ some => sold = 0)
  BY <1>2
<1> HIDE DEF some
<1>4. rebought' \in BOOLEAN /\ (~ rebought' => ~ rebought /\ sold = 0)
  BY <1>1, <1>3 DEF PositionInv, HoldingsTypeOK
<1>5. /\ bought' \in 0..MaxBuy /\ UNCHANGED <<held, got, gone>>
      /\ sold = 0 => ~ SoldOut /\ ~ SoldOut'
  BY <1>1, <1>2 DEF tokens, SoldOut
<1>6. HoldingsTypeOK' /\ Conserve'
  BY <1>1, <1>4, <1>5 DEF PositionInv, HoldingsTypeOK, Conserve, Held
<1>7. Held' = Held /\ NothingLeft' = NothingLeft /\ Payout' = Payout
  BY <1>1, <1>5 DEF Held, NothingLeft, Payout
<1>8. EmptyInv'
  <2> SUFFICES ASSUME Clean' PROVE RowEmpty' /\ \A s \in Requests : ClosesEmpty(req[s])'
    BY DEF EmptyInv
  <2>1. Clean /\ ~ SoldOut
    BY <1>1, <1>4, <1>5 DEF Clean
  <2> QED
    BY <2>1, <1>1, <1>5, <1>7 DEF PositionInv, EmptyInv, RowEmpty, ClosesEmpty
<1>9. ClaimsPaid'
  BY <1>1, <1>7 DEF PositionInv, ClaimsPaid
<1>10. ClosedIsClaimed' /\ SoldIsSold'
  BY <1>1, <1>4, <1>5, <1>7 DEF PositionInv, ClosedIsClaimed, SeesRow, SoldIsSold
<1> QED
  BY <1>6, <1>8, <1>9, <1>10 DEF PositionInv

(* The market never opens again; and if it was settled, late is set.          *)
LEMMA MarketKeeps ==
  ASSUME PositionInv, NEW m \in Settled \cup {"closed"}, Market(m)
  PROVE  PositionInv'
<1>1. /\ market' = m /\ late' = (late \/ market \in Settled)
      /\ UNCHANGED <<held, got, gone, bought, sold, unbooked, row, req, split, blind, rebought>>
  BY DEF Market, tokens, books
<1>2. m \in {"closed", "won", "lost", "void"}
  BY DEF Settled
<1>3. late' \in BOOLEAN /\ (~ late' => ~ late /\ ~ Payout)
  <2> DEFINE g == market \in Settled
  <2>1. g \in BOOLEAN /\ (g <=> Payout)
    BY DEF Payout
  <2> HIDE DEF g
  <2>2. late' = (late \/ g)
    BY <1>1 DEF g
  <2> QED
    BY <2>1, <2>2 DEF PositionInv, HoldingsTypeOK
<1>4. HoldingsTypeOK'
  BY <1>1, <1>2, <1>3 DEF PositionInv, HoldingsTypeOK
<1>5. Conserve'
  BY <1>1 DEF PositionInv, Conserve, Held
<1>6. EmptyInv'
  <2> SUFFICES ASSUME Clean' PROVE RowEmpty' /\ \A s \in Requests : ClosesEmpty(req[s])'
    BY DEF EmptyInv
  <2>1. Clean
    BY <1>1 DEF Clean
  <2>2. RowEmpty'
    BY <2>1, <1>1, <1>2 DEF PositionInv, EmptyInv, RowEmpty, NothingLeft, SoldOut, Held
  <2>3. ASSUME NEW s \in Requests PROVE ClosesEmpty(req[s])'
    <3>1. ClosesEmpty(req[s])
      BY <2>1 DEF PositionInv, EmptyInv
    <3> QED
      BY <3>1, <1>1, <1>2 DEF ClosesEmpty, NothingLeft, SoldOut, Held
  <2> QED
    BY <2>2, <2>3
<1>7. ClaimsPaid'
  BY <1>1, <1>3 DEF PositionInv, ClaimsPaid
<1>8. ClosedIsClaimed'
  BY <1>1, <1>3 DEF PositionInv, ClosedIsClaimed, SeesRow, SoldOut
<1>9. SoldIsSold'
  BY <1>1 DEF PositionInv, SoldIsSold, SoldOut
<1> QED
  BY <1>4, <1>5, <1>6, <1>7, <1>8, <1>9 DEF PositionInv

LEMMA PositionInit == HoldingsInit => PositionInv
<1> SUFFICES ASSUME HoldingsInit PROVE PositionInv
  OBVIOUS
<1>1. \A r \in Requests : req[r] = NoRequest
  BY DEF HoldingsInit
<1>2. HoldingsTypeOK
  <2>1. 0 \in 0..MaxBuy /\ 0 \in 0..MaxSold
    BY HoldingsConstants
  <2>2. held \in [Places -> 0..MaxBuy] /\ req \in [Requests -> HeldRequests]
    BY <2>1, IdleHolding DEF HoldingsInit
  <2>3. row \in [status: {"NONE", "OPEN", "SETTLED", "CLOSED"}, amount: 0..MaxSold]
    BY <2>1 DEF HoldingsInit
  <2> QED
    BY <2>1, <2>2, <2>3 DEF HoldingsInit, HoldingsTypeOK, HeldRequests
<1>3. Conserve
  BY DEF HoldingsInit, Conserve, Held, Accounts, Places
<1>4. EmptyInv
  BY <1>1, IdleHolding DEF HoldingsInit, EmptyInv, RowEmpty, ClosesEmpty
<1>5. ClaimsPaid /\ ClosedIsClaimed /\ SoldIsSold
  BY <1>1, IdleHolding DEF HoldingsInit, ClaimsPaid, ClosedIsClaimed, SoldIsSold, SeesRow
<1> QED
  BY <1>2, <1>3, <1>4, <1>5 DEF PositionInv

LEMMA PositionStep == PositionInv /\ [HoldingsNext]_holdings => PositionInv'
<1> SUFFICES ASSUME PositionInv, [HoldingsNext]_holdings PROVE PositionInv'
  OBVIOUS
<1>1. CASE UNCHANGED holdings
  <2>1. UNCHANGED <<market, held, got, gone, bought, sold, unbooked, row, req, split, blind,
                    rebought, late>>
    BY <1>1 DEF holdings
  <2>2. HoldingsTypeOK' /\ Conserve'
    BY <2>1 DEF PositionInv, HoldingsTypeOK, Conserve, Held
  <2>3. EmptyInv'
    BY <2>1 DEF PositionInv, EmptyInv, Clean, RowEmpty, ClosesEmpty, NothingLeft, SoldOut, Held
  <2>4. ClaimsPaid' /\ ClosedIsClaimed' /\ SoldIsSold'
    BY <2>1 DEF PositionInv, ClaimsPaid, ClosedIsClaimed, SoldIsSold, SeesRow, SoldOut, Payout
  <2> QED
    BY <2>2, <2>3, <2>4 DEF PositionInv
<1>2. ASSUME NEW r \in Requests, ClaimByAgent(r)
      PROVE  PositionInv'
  BY <1>2, ClaimReadKeeps DEF ClaimByAgent
<1> QED
  BY <1>1, <1>2, BuyKeeps, BuyBookedKeeps, MarketKeeps, RestFilledKeeps, RestReturnedKeeps,
     SaleBookedKeeps, SyncReadKeeps, SyncSaveKeeps, ClaimReadKeeps, ClaimBlindKeeps,
     RedeemKeeps, ConfirmRedeemKeeps, SellMinedKeeps, OtherRequestKeeps
     DEF HoldingsNext, RequestStep

(* NoWinningsHidden: while the books hold, what the portfolio shows as       *)
(* claimed or closed has no tokens, in the wallet, the Smart Account or an   *)
(* order that rests, unless one of the named histories took place.           *)
THEOREM ClosedHidesNothing == HoldingsSpec => []NoWinningsHidden
<1>1. PositionInv => NoWinningsHidden
  <2> SUFFICES ASSUME PositionInv, Result \in {"claimed", "closed"}, BooksHold, Clean
               PROVE  Held = 0
    BY DEF NoWinningsHidden, Clean
  <2>1. row.status = "CLOSED"
    BY DEF Result
  <2>2. CASE NothingLeft
    BY <2>2 DEF NothingLeft
  <2>3. CASE SoldOut
    <3>1. Held \in Nat /\ Held + gone <= got /\ bought <= sold /\ sold <= gone /\ got <= bought
      BY <2>3, PositionTyped DEF PositionInv, Conserve, Held, SoldOut, BooksHold
    <3>2. got \in Nat /\ gone \in Nat /\ bought \in Nat /\ sold \in Nat
      BY PositionTyped DEF PositionInv
    <3> HIDE DEF Held
    <3> QED
      BY <3>1, <3>2
  <2> QED
    BY <2>1, <2>2, <2>3 DEF PositionInv, EmptyInv, RowEmpty
<1> QED
  BY <1>1, PositionInit, PositionStep, PTL DEF HoldingsSpec

(* KeepsClaim: what a claim recorded no portfolio read takes back, unless it *)
(* was under way before the claim or the settlement was withdrawn.           *)
THEOREM ClaimsStayRecorded == HoldingsSpec => ClaimStaysRecorded
<1>1. PositionInv /\ [HoldingsNext]_holdings => KeepsClaim
  <2> SUFFICES ASSUME PositionInv, [HoldingsNext]_holdings,
                      Result = "claimed", ~ late, ~ rebought
               PROVE  row'.status = "CLOSED"
    BY DEF KeepsClaim
  <2>1. row.status = "CLOSED" /\ ~ SoldOut
    <3>1. bought \in Nat /\ sold \in Nat
      BY PositionTyped DEF PositionInv
    <3>2. row.status = "CLOSED" /\ Net = 0 /\ sold > 0 => Result = "closed"
      BY DEF Result
    <3>3. row.status # "CLOSED" => Result # "claimed"
      BY DEF Result
    <3>4. "closed" # "claimed"
      OBVIOUS
    <3>5. row.status = "CLOSED" /\ ~ (Net = 0 /\ sold > 0)
      BY <3>2, <3>3, <3>4, Zenon
    <3> QED
      BY <3>1, <3>5 DEF SoldOut, Net
  <2>2. ASSUME NEW r \in Requests, SyncSave(r)
        PROVE  row'.status = "CLOSED"
    <3>1. req[r].pc = "sync" /\ row'.status = NewStatus(req[r])
      BY <2>2 DEF SyncSave
    <3>2. SeesRow(req[r])
      BY <2>1 DEF PositionInv, ClosedIsClaimed
    <3>3. req[r].closed /\ req[r].paid /\ req[r].net # 0
      BY <3>1, <3>2, <2>1 DEF SeesRow
    <3> QED
      BY <3>1, <3>3 DEF NewStatus
  <2>3. ASSUME NEW r \in Requests, ConfirmRedeem(r)
        PROVE  row'.status = "CLOSED"
    BY <2>3 DEF ConfirmRedeem, PositionInv, HoldingsTypeOK
  <2>4. \/ row' = row \/ \E r \in Requests : SyncSave(r) \/ ConfirmRedeem(r)
    <3>1. UNCHANGED holdings => row' = row
      BY DEF holdings
    <3>2. \A r \in Requests :
            SyncRead(r) \/ ClaimRead(r) \/ ClaimByAgent(r) \/ ClaimBlind(r) \/ Redeem(r)
              \/ PrepareClose(r) \/ SellMined(r) \/ ConfirmClose(r) \/ SellImported(r)
              \/ Abort(r) => row' = row
      BY DEF SyncRead, ClaimRead, ClaimByAgent, ClaimBlind, Redeem, PrepareClose, SellMined,
             ConfirmClose, SellImported, Abort
    <3>3. (\E a \in Accounts : Buy(a)) \/ (\E m \in Settled \cup {"closed"} : Market(m))
            \/ BuyBooked \/ RestFilled \/ RestReturned \/ RestImported => row' = row
      BY DEF Buy, Market, BuyBooked, RestFilled, RestReturned, RestImported
    <3> QED
      BY <3>1, <3>2, <3>3 DEF HoldingsNext, RequestStep
  <2> QED
    BY <2>1, <2>2, <2>3, <2>4
<1> QED
  BY <1>1, PositionInit, PositionStep, PTL DEF HoldingsSpec, ClaimStaysRecorded

-----------------------------------------------------------------------------
(* The session key's redemptions are typed, and its count is the number of   *)
(* those that were mined, of which there are no more than redemptions.       *)
SendTyped(r) ==
  /\ r.pc \in {"new", "built", "counted", "checked", "waiting", "ok", "failed"}
  /\ r.grant \in Grants
  /\ r.calls \subseteq Methods /\ r.pays \in BOOLEAN
  /\ r.nonce \in 0..Cardinality(Sends)
  /\ r.mined \in {"no", "done", "reverted"}
  /\ r.why \in SendRefusals \cup {"none"}

SendsTyped ==
  /\ key \in Keys /\ grant \in Grants /\ live \in BOOLEAN
  /\ gas \in 0..GasTank /\ pool \subseteq Sends
  /\ \A s \in Sends : SendTyped(send[s])
  /\ overtaken \subseteq Sends /\ unheard \subseteq Sends

MinedSends == {s \in Sends : send[s].mined # "no"}

CountInv == SendsTyped /\ count = Cardinality(MinedSends)

LEMMA CountIsBounded ==
  ASSUME CountInv
  PROVE  count \in 0..Cardinality(Sends) /\ SessionTypeOK
<1>1. /\ Cardinality(MinedSends) \in Nat /\ Cardinality(Sends) \in Nat
      /\ Cardinality(MinedSends) <= Cardinality(Sends)
  <2>1. MinedSends \in SUBSET Sends
    BY DEF MinedSends
  <2>2. IsFiniteSet(Sends)
    BY SessionConstants
  <2>3. IsFiniteSet(MinedSends) /\ Cardinality(MinedSends) <= Cardinality(Sends)
    BY <2>1, <2>2, FS_Subset
  <2> QED
    BY <2>2, <2>3, FS_CardinalityType
<1>2. count \in 0..Cardinality(Sends)
  BY <1>1 DEF CountInv
<1> QED
  BY <1>2 DEF CountInv, SendsTyped, SendTyped, SessionTypeOK

(* A redemption is written; unless it is mined, the count stays.             *)
LEMMA OneSendTyped ==
  ASSUME KeyInv, CountInv, NEW s \in Sends, NEW r, send' = [send EXCEPT ![s] = r],
         SendTyped(r), r.mined = send[s].mined, count' = count
  PROVE  /\ \A o \in Sends : SendTyped(send'[o])
         /\ count' = Cardinality(MinedSends')
<1>1. \A o \in Sends : send'[o] = IF o = s THEN r ELSE send[o]
  BY DEF KeyInv, Shape
<1>2. MinedSends' = MinedSends
  BY <1>1 DEF MinedSends
<1> QED
  BY <1>1, <1>2 DEF CountInv, SendsTyped

LEMMA SetTyped ==
  ASSUME KeyInv, CountInv, NEW s \in Sends, count' = count,
         \/ \E pc \in {"checked", "waiting", "ok", "failed"} : Set(s, pc)
         \/ \E why \in SendRefusals : Fail(s, why)
  PROVE  /\ \A o \in Sends : SendTyped(send'[o])
         /\ count' = Cardinality(MinedSends')
<1>1. SendTyped(send[s])
  BY DEF CountInv, SendsTyped
<1>2. ASSUME NEW pc \in {"checked", "waiting", "ok", "failed"}, Set(s, pc)
      PROVE  \E r : send' = [send EXCEPT ![s] = r] /\ SendTyped(r) /\ r.mined = send[s].mined
  <2>1. PICK r : /\ send' = [send EXCEPT ![s] = r] /\ r.pc = pc
                 /\ r.nonce = send[s].nonce /\ r.mined = send[s].mined
                 /\ r.why = send[s].why /\ SameOrder(r, send[s])
    BY <1>2, SetShape
  <2>2. SendTyped(r)
    BY <1>1, <2>1 DEF SendTyped, SameOrder
  <2> QED
    BY <2>1, <2>2
<1>3. ASSUME NEW why \in SendRefusals, Fail(s, why)
      PROVE  \E r : send' = [send EXCEPT ![s] = r] /\ SendTyped(r) /\ r.mined = send[s].mined
  <2>1. PICK r : /\ send' = [send EXCEPT ![s] = r] /\ r.pc = "failed"
                 /\ r.nonce = send[s].nonce /\ r.mined = send[s].mined
                 /\ r.why = why /\ SameOrder(r, send[s])
    BY <1>3, FailShape
  <2>2. SendTyped(r)
    BY <1>1, <2>1 DEF SendTyped, SameOrder
  <2> QED
    BY <2>1, <2>2
<1> QED
  BY <1>2, <1>3, OneSendTyped

LEMMA BuildTyped ==
  ASSUME KeyInv, CountInv, NEW s \in Sends,
         \/ \E approve \in BOOLEAN : BuildTrade(s, approve)
         \/ \E needed \in SUBSET Methods : BuildClaim(s, needed)
  PROVE  CountInv'
<1>1. PICK c \in SUBSET Methods :
        send' = [send EXCEPT ![s] = [NewSend(grant) EXCEPT !.pc = "built", !.calls = c]]
  <2>1. ASSUME NEW approve \in BOOLEAN, BuildTrade(s, approve)
        PROVE  \E c \in SUBSET Methods :
          send' = [send EXCEPT ![s] = [NewSend(grant) EXCEPT !.pc = "built", !.calls = c]]
    <3> DEFINE c == (IF approve THEN {"approve"} ELSE {}) \cup {Order}
    <3>1. c \in SUBSET Methods
      BY DEF Methods
    <3>2. send' = [send EXCEPT ![s] = [NewSend(grant) EXCEPT !.pc = "built", !.calls = c]]
      BY <2>1 DEF BuildTrade
    <3> QED
      BY <3>1, <3>2
  <2>2. ASSUME NEW needed \in SUBSET Methods, BuildClaim(s, needed)
        PROVE  \E c \in SUBSET Methods :
          send' = [send EXCEPT ![s] = [NewSend(grant) EXCEPT !.pc = "built", !.calls = c]]
    <3>1. ClaimCalls(grant, needed) \in SUBSET Methods
      BY DEF ClaimCalls, Methods
    <3> QED
      BY <2>2, <3>1 DEF BuildClaim
  <2> QED
    BY <2>1, <2>2
<1>2. /\ send[s].mined = "no" /\ count' = count
      /\ UNCHANGED <<key, grant, live, gas, pool, overtaken, unheard>>
  BY DEF BuildTrade, BuildClaim, KeyInv, Unsent, chain, history
<1> DEFINE r == [NewSend(grant) EXCEPT !.pc = "built", !.calls = c]
<1>3. SendTyped(r) /\ r.mined = "no"
  <2>1. /\ r.pc = "built" /\ r.grant = grant /\ r.calls = c /\ r.pays = FALSE
        /\ r.nonce = 0 /\ r.mined = "no" /\ r.why = "none"
    BY DEF NewSend
  <2>2. 0 \in 0..Cardinality(Sends) /\ grant \in Grants
    <3>1. Cardinality(Sends) \in Nat
      BY SessionConstants, FS_CardinalityType
    <3> QED
      BY <3>1 DEF CountInv, SendsTyped
  <2> HIDE DEF r
  <2> QED
    BY <2>1, <2>2 DEF SendTyped
<1> HIDE DEF r
<1>4. send' = [send EXCEPT ![s] = r]
  BY <1>1 DEF r
<1>5. (\A o \in Sends : SendTyped(send'[o])) /\ count' = Cardinality(MinedSends')
  BY <1>2, <1>3, <1>4, OneSendTyped
<1> QED
  BY <1>2, <1>5 DEF CountInv, SendsTyped

LEMMA CountTyped ==
  ASSUME KeyInv, CountInv, NEW s \in Sends, Count(s)
  PROVE  CountInv'
<1>1. /\ UNCHANGED <<key, grant, live, count, pool, gas, unheard>>
      /\ overtaken' \subseteq Sends
  BY DEF Count, chain, CountInv, SendsTyped
<1>2. (\A o \in Sends : SendTyped(send'[o])) /\ count' = Cardinality(MinedSends')
  <2>1. CASE SignedTo(send[s].grant)
    <3>1. PICK rich \in BOOLEAN :
            send' = [send EXCEPT ![s].pc = "counted", ![s].nonce = NonceFor(s),
                            ![s].pays = rich /\ PaysGas(send[s].grant)]
      BY <2>1 DEF Count
    <3> DEFINE p == rich /\ PaysGas(send[s].grant)
    <3>2. p \in BOOLEAN
      BY DEF PaysGas, Unrestricted
    <3>3. send' = [send EXCEPT ![s].pc = "counted", ![s].nonce = NonceFor(s), ![s].pays = p]
      BY <3>1
    <3> HIDE DEF p
    <3> DEFINE r == [send[s] EXCEPT !.pc = "counted", !.nonce = NonceFor(s), !.pays = p]
    <3>4. /\ r.pc = "counted" /\ r.grant = send[s].grant /\ r.calls = send[s].calls
          /\ r.pays = p /\ r.nonce = count /\ r.mined = send[s].mined /\ r.why = send[s].why
      BY DEF KeyInv, Shape, Fields, NonceFor
    <3>5. send' = [send EXCEPT ![s] = r]
      BY <3>3 DEF KeyInv, Shape
    <3> HIDE DEF r
    <3>6. SendTyped(r)
      <4>1. count \in 0..Cardinality(Sends)
        BY CountIsBounded
      <4>2. SendTyped(send[s])
        BY DEF CountInv, SendsTyped
      <4> QED
        BY <3>2, <3>4, <4>1, <4>2 DEF SendTyped
    <3> QED
      BY <1>1, <3>4, <3>5, <3>6, OneSendTyped
  <2>2. CASE ~ SignedTo(send[s].grant)
    <3>1. Fail(s, "delegate") /\ "delegate" \in SendRefusals
      BY <2>2 DEF Count, SendRefusals
    <3> QED
      BY <1>1, <3>1, SetTyped
  <2> QED
    BY <2>1, <2>2
<1> QED
  BY <1>1, <1>2 DEF CountInv, SendsTyped

LEMMA CheckTyped ==
  ASSUME KeyInv, CountInv, NEW s \in Sends, Check(s)
  PROVE  CountInv'
<1>1. UNCHANGED <<key, grant, live, count, pool, gas, overtaken, unheard>>
  BY DEF Check, chain, history
<1>2. Set(s, "checked") \/ \E why \in SendRefusals : Fail(s, why)
  <2>1. Wrong(s) \cup {"revert", "gas"} \subseteq SendRefusals
    BY DEF Wrong, SendRefusals
  <2> QED
    BY <2>1 DEF Check
<1>3. (\A o \in Sends : SendTyped(send'[o])) /\ count' = Cardinality(MinedSends')
  BY <1>1, <1>2, SetTyped
<1> QED
  BY <1>1, <1>3 DEF CountInv, SendsTyped

LEMMA SendingTyped ==
  ASSUME KeyInv, CountInv, NEW s \in Sends, Send(s)
  PROVE  CountInv'
<1>1. /\ UNCHANGED <<key, grant, live, count, gas>>
      /\ pool' \subseteq Sends /\ overtaken' \subseteq Sends /\ unheard' \subseteq Sends
  BY DEF Send, history, CountInv, SendsTyped
<1>2. Set(s, "waiting") \/ \E why \in SendRefusals : Fail(s, why)
  BY DEF Send, SendRefusals
<1>3. (\A o \in Sends : SendTyped(send'[o])) /\ count' = Cardinality(MinedSends')
  BY <1>1, <1>2, SetTyped
<1> QED
  BY <1>1, <1>3 DEF CountInv, SendsTyped

LEMMA AnswerTyped ==
  ASSUME KeyInv, CountInv, NEW s \in Sends, Answer(s) \/ GiveUp(s)
  PROVE  CountInv'
<1>1. /\ UNCHANGED <<key, grant, live, count, pool, gas, overtaken>>
      /\ unheard' \subseteq Sends
  BY DEF Answer, GiveUp, chain, history, CountInv, SendsTyped
<1>2. Set(s, "ok") \/ Set(s, "failed") \/ \E why \in SendRefusals : Fail(s, why)
  BY DEF Answer, GiveUp, SendRefusals
<1>3. (\A o \in Sends : SendTyped(send'[o])) /\ count' = Cardinality(MinedSends')
  BY <1>1, <1>2, SetTyped
<1> QED
  BY <1>1, <1>3 DEF CountInv, SendsTyped

(* What is mined was in the pool, so it was not mined before: it counts once.*)
LEMMA MineTyped ==
  ASSUME KeyInv, CountInv, NEW s \in Sends, Mine(s)
  PROVE  CountInv'
<1>1. /\ UNCHANGED <<key, grant, live, overtaken, unheard>>
      /\ pool' \subseteq Sends /\ count' = count + 1 /\ s \in pool
  BY DEF Mine, history, CountInv, SendsTyped
<1>2. gas' \in 0..GasTank
  <2>1. gas \in 0..GasTank /\ gas > 0 /\ gas' \in {gas, gas - 1}
    BY DEF Mine, CountInv, SendsTyped
  <2> QED
    BY <2>1, SessionConstants
<1>3. send[s].mined = "no" /\ SendTyped(send[s])
  BY <1>1 DEF KeyInv, Unsent, CountInv, SendsTyped
<1>4. PICK r : /\ send' = [send EXCEPT ![s] = r] /\ SendTyped(r) /\ r.mined # "no"
  <2>1. CASE send' = [send EXCEPT ![s].mined = "done"]
    <3> DEFINE r == [send[s] EXCEPT !.mined = "done"]
    <3>1. /\ r.pc = send[s].pc /\ SameOrder(r, send[s]) /\ r.nonce = send[s].nonce
          /\ r.mined = "done" /\ r.why = send[s].why
      BY DEF KeyInv, Shape, Fields, SameOrder
    <3>2. send' = [send EXCEPT ![s] = r]
      BY <2>1
    <3> HIDE DEF r
    <3>3. SendTyped(r)
      BY <1>3, <3>1 DEF SendTyped, SameOrder
    <3> QED
      BY <3>1, <3>2, <3>3
  <2>2. ASSUME NEW w \in Wrong(s) \cup {"revert"},
               send' = [send EXCEPT ![s].mined = "reverted", ![s].why = w]
        PROVE  \E r : send' = [send EXCEPT ![s] = r] /\ SendTyped(r) /\ r.mined # "no"
    <3> DEFINE r == [send[s] EXCEPT !.mined = "reverted", !.why = w]
    <3>1. /\ r.pc = send[s].pc /\ SameOrder(r, send[s]) /\ r.nonce = send[s].nonce
          /\ r.mined = "reverted" /\ r.why = w
      BY DEF KeyInv, Shape, Fields, SameOrder
    <3>2. send' = [send EXCEPT ![s] = r]
      BY <2>2 DEF KeyInv, Shape
    <3>3. w \in SendRefusals
      BY DEF Wrong, SendRefusals
    <3> HIDE DEF r
    <3>4. SendTyped(r)
      BY <1>3, <3>1, <3>3 DEF SendTyped, SameOrder
    <3> QED
      BY <3>1, <3>2, <3>4
  <2> QED
    BY <2>1, <2>2 DEF Mine
<1>5. \A o \in Sends : send'[o] = IF o = s THEN r ELSE send[o]
  BY <1>4 DEF KeyInv, Shape
<1>6. MinedSends' = MinedSends \cup {s} /\ s \notin MinedSends
  BY <1>3, <1>4, <1>5 DEF MinedSends
<1>7. Cardinality(MinedSends') = Cardinality(MinedSends) + 1
  <2>1. MinedSends \in SUBSET Sends
    BY DEF MinedSends
  <2>2. IsFiniteSet(MinedSends)
    BY <2>1, SessionConstants, FS_Subset
  <2> QED
    BY <1>6, <2>2, FS_AddElement
<1> QED
  BY <1>1, <1>2, <1>4, <1>5, <1>7 DEF CountInv, SendsTyped

LEMMA CountInvInit == SessionInit => CountInv
<1> SUFFICES ASSUME SessionInit PROVE CountInv
  OBVIOUS
<1>1. grant \in Grants /\ \A s \in Sends : send[s] = NewSend(grant)
  BY DEF SessionInit
<1>2. SendTyped(NewSend(grant))
  <2>1. 0 \in 0..Cardinality(Sends)
    <3>1. Cardinality(Sends) \in Nat
      BY SessionConstants, FS_CardinalityType
    <3> QED
      BY <3>1
  <2> QED
    BY <1>1, <2>1 DEF NewSend, SendTyped
<1>3. MinedSends = {}
  BY <1>1 DEF MinedSends, NewSend
<1>4. Cardinality(MinedSends) = 0
  BY <1>3, FS_EmptySet
<1>5. gas \in 0..GasTank
  <2>1. gas = GasTank
    BY DEF SessionInit
  <2> QED
    BY <2>1, SessionConstants
<1> QED
  BY <1>1, <1>2, <1>4, <1>5 DEF SessionInit, CountInv, SendsTyped, Keys

LEMMA CountInvNext == KeyInv /\ CountInv /\ [SessionNext]_session => CountInv'
<1> SUFFICES ASSUME KeyInv, CountInv, [SessionNext]_session PROVE CountInv'
  OBVIOUS
<1>1. ASSUME UNCHANGED <<send, count, pool, gas, overtaken, unheard>>,
             key' \in Keys, grant' \in Grants, live' \in BOOLEAN
      PROVE  CountInv'
  BY <1>1 DEF CountInv, SendsTyped, MinedSends
<1>2. CASE NewKey \/ Sign \/ Lapse \/ Done \/ UNCHANGED session
  <2>1. /\ UNCHANGED <<send, count, pool, gas, overtaken, unheard>>
        /\ key' \in Keys /\ live' \in BOOLEAN
    BY <1>2 DEF NewKey, Sign, Lapse, Done, session, chain, history, CountInv, SendsTyped, Keys
  <2>2. grant' \in Grants
    <3>1. key \in Keys /\ grant \in Grants
      BY DEF CountInv, SendsTyped
    <3>2. CASE Sign
      <4>1. PICK m \in Lists : grant' = [delegate |-> key, methods |-> m]
        BY <3>2 DEF Sign
      <4> QED
        BY <3>1, <4>1 DEF Grants
    <3>3. CASE NewKey \/ Lapse \/ Done \/ UNCHANGED session
      BY <3>1, <3>3 DEF NewKey, Lapse, Done, session
    <3> QED
      BY <1>2, <3>2, <3>3
  <2> QED
    BY <1>1, <2>1, <2>2
<1>3. ASSUME NEW s \in Sends, NEW approve \in BOOLEAN, BuildTrade(s, approve)
      PROVE  CountInv'
  BY <1>3, BuildTyped
<1>4. ASSUME NEW s \in Sends, NEW needed \in Needs, BuildClaim(s, needed) PROVE CountInv'
  BY <1>4, NeedsAreMethods, BuildTyped
<1>5. ASSUME NEW s \in Sends,
             Count(s) \/ Check(s) \/ Send(s) \/ Mine(s) \/ Answer(s) \/ GiveUp(s)
      PROVE  CountInv'
  BY <1>5, CountTyped, CheckTyped, SendingTyped, MineTyped, AnswerTyped
<1> QED
  BY <1>2, <1>3, <1>4, <1>5 DEF SessionNext

-----------------------------------------------------------------------------
(* The rest of the desk's types: what has arrived are the first updates.     *)
QueueTyped ==
  /\ arrived \in Nat /\ 1..arrived \subseteq Updates
  /\ dropped \subseteq Updates /\ again \subseteq Updates /\ lost \subseteq Updates
  /\ handled \in [Updates -> 0..2]

AgentTyped ==
  /\ linked \in BOOLEAN /\ status \in Statuses /\ valid \in BOOLEAN
  /\ follow \in {"none", "notify", "auto"}

LEMMA DeskTypes ==
  ASSUME DeskShape, QueueTyped, AgentTyped
  PROVE  DeskTypeOK
BY DEF DeskShape, QueueTyped, AgentTyped, DeskTypeOK, Thread, Steps

LEMMA DeskTypesInit == DeskInit => QueueTyped /\ AgentTyped
<1> SUFFICES ASSUME DeskInit PROVE QueueTyped /\ AgentTyped
  OBVIOUS
<1>1. /\ arrived = 0 /\ dropped = {} /\ again = {} /\ lost = {}
      /\ handled = [u \in Updates |-> 0]
  BY DEF DeskInit, Queue!QueueInit
<1>2. AgentTyped
  BY DEF DeskInit, AgentTyped, Statuses
<1> QED
  BY <1>1, <1>2 DEF QueueTyped

LEMMA QueueTypedStep ==
  ASSUME DeskInv, QueueTyped, NEW t \in Threads, ThreadStep(t)
  PROVE  QueueTyped'
<1>1. desk[t].u \in Updates \cup {Web}
  BY DEF DeskInv, DeskShape, Thread
<1>2. ASSUME UNCHANGED queue, lost' \subseteq Updates PROVE QueueTyped'
  BY <1>2 DEF queue, QueueTyped
<1>3. ASSUME NEW u \in Updates, Take(t, u) PROVE QueueTyped'
  <2>1. UNCHANGED <<arrived, dropped, handled, lost>> /\ again' \subseteq Updates
    BY <1>3 DEF Take, dealings, QueueTyped
  <2> QED
    BY <2>1 DEF QueueTyped
<1>4. CASE \/ \E amount \in 1..(MaxTrade + 1) : WebTrade(t, amount)
           \/ Look(t) \/ PauseResume(t) \/ Follow(t) \/ Claim(t) \/ Trade(t) \/ Offer(t)
           \/ Authorise(t) \/ CheckLimits(t) \/ SendFails(t) \/ Failed(t)
  <2>1. UNCHANGED queue /\ UNCHANGED lost
    BY <1>4 DEF WebTrade, Look, PauseResume, Follow, Claim, Trade, Offer, Authorise,
                CheckLimits, SendFails, Failed, dealings
  <2> QED
    BY <1>2, <2>1 DEF QueueTyped
<1>5. CASE SendTrade(t) \/ SendLost(t) \/ Record(t)
  <2>1. UNCHANGED queue
    BY <1>5 DEF SendTrade, SendLost, Record, Transmit
  <2>2. lost' \in {lost, lost \cup ({desk[t].u} \ {Web})}
    BY <1>5 DEF SendTrade, SendLost, Record
  <2> QED
    BY <1>1, <1>2, <2>1, <2>2 DEF QueueTyped
<1>6. CASE Return(t)
  <2>1. UNCHANGED lost
    BY <1>6 DEF Return, dealings
  <2>2. CASE desk[t].u = Web
    <3>1. UNCHANGED queue
      BY <1>6, <2>2 DEF Return
    <3> QED
      BY <1>2, <2>1, <3>1 DEF QueueTyped
  <2>3. CASE desk[t].u # Web
    <3> DEFINE u == desk[t].u
    <3>1. u \in Updates
      BY <1>1, <2>3
    <3>2. /\ arrived' = arrived /\ again' \in {again, again \cup {u}}
          /\ handled' = [handled EXCEPT ![u] = IF @ = 0 THEN 1 ELSE 2]
          /\ dropped' \in {dropped, dropped \cup {u}}
      BY <1>6, <2>3 DEF Return, Queue!Finish
    <3> HIDE DEF u
    <3> QED
      BY <2>1, <3>1, <3>2 DEF QueueTyped
  <2> QED
    BY <2>2, <2>3
<1>7. CASE Die(t)
  <2>1. /\ UNCHANGED <<arrived, dropped, handled>>
        /\ again' = again \cup ({desk[t].u} \ {Web})
        /\ lost' \in {lost, lost \cup ({desk[t].u} \ {Web})}
    BY <1>7 DEF Die
  <2> QED
    BY <1>1, <2>1 DEF QueueTyped
<1> QED
  BY <1>3, <1>4, <1>5, <1>6, <1>7 DEF ThreadStep

LEMMA AgentTypedStep ==
  ASSUME AgentTyped, NEW t \in Threads, ThreadStep(t)
  PROVE  AgentTyped'
<1>1. ASSUME UNCHANGED authority PROVE AgentTyped'
  BY <1>1 DEF authority, AgentTyped
<1>2. CASE PauseResume(t)
  <2>1. UNCHANGED <<linked, valid, follow>> /\ status' \in {status, "PAUSED", "RUNNING"}
    BY <1>2 DEF PauseResume
  <2> QED
    BY <2>1 DEF AgentTyped, Statuses
<1>3. CASE Follow(t)
  <2>1. UNCHANGED <<linked, status, valid>> /\ follow' \in {"auto", "notify"}
    BY <1>3 DEF Follow
  <2> QED
    BY <2>1 DEF AgentTyped
<1>4. CASE \/ \E u \in Updates : Take(t, u)
           \/ \E amount \in 1..(MaxTrade + 1) : WebTrade(t, amount)
           \/ Look(t) \/ Claim(t) \/ Trade(t) \/ Offer(t)
           \/ Authorise(t) \/ CheckLimits(t)
           \/ SendTrade(t) \/ SendLost(t) \/ SendFails(t) \/ Record(t) \/ Failed(t)
           \/ Return(t) \/ Die(t)
  <2>1. UNCHANGED authority
    BY <1>4 DEF Take, WebTrade, Look, Claim, Trade, Offer, Authorise, CheckLimits, SendTrade,
                SendLost, SendFails, Transmit, Record, Failed, Return, Die
  <2> QED
    BY <1>1, <2>1
<1> QED
  BY <1>2, <1>3, <1>4 DEF ThreadStep

LEMMA DeskTypesNext ==
  DeskInv /\ QueueTyped /\ AgentTyped /\ [DeskNext]_bot => QueueTyped' /\ AgentTyped'
<1> SUFFICES ASSUME DeskInv, QueueTyped, AgentTyped, [DeskNext]_bot
             PROVE  QueueTyped' /\ AgentTyped'
  OBVIOUS
<1>1. CASE Others
  <2>1. /\ arrived' = arrived + 1 /\ arrived' \in Updates
        /\ UNCHANGED <<dropped, handled, again, lost, linked, status, valid, follow>>
    BY <1>1 DEF Others, Queue!Arrive, authority, dealings
  <2>2. 1..arrived' \subseteq Updates /\ arrived' \in Nat
    BY <2>1 DEF QueueTyped
  <2> QED
    BY <2>1, <2>2 DEF QueueTyped, AgentTyped
<1>2. CASE Acknowledge
  <2>1. PICK u \in 1..arrived : dropped' = dropped \cup {u}
    BY <1>2 DEF Acknowledge
  <2>2. UNCHANGED <<arrived, handled, again, lost, linked, status, valid, follow>>
    BY <1>2 DEF Acknowledge, authority, dealings
  <2>3. u \in Updates
    BY DEF QueueTyped
  <2> QED
    BY <2>1, <2>2, <2>3 DEF QueueTyped, AgentTyped
<1>3. CASE FindExpired
  <2>1. /\ UNCHANGED <<arrived, dropped, handled, again, lost, linked, follow>>
        /\ valid' = FALSE /\ status' \in {status, "EXPIRED"}
    BY <1>3 DEF FindExpired, queue, dealings
  <2> QED
    BY <2>1 DEF QueueTyped, AgentTyped, Statuses
<1>4. CASE CopyRecorded \/ UNCHANGED bot
  <2>1. UNCHANGED <<queue, authority, lost>>
    BY <1>4 DEF CopyRecorded, bot, dealings
  <2> QED
    BY <2>1 DEF queue, authority, QueueTyped, AgentTyped
<1>5. ASSUME NEW t \in Threads, ThreadStep(t) PROVE QueueTyped' /\ AgentTyped'
  BY <1>5, QueueTypedStep, AgentTypedStep
<1> QED
  BY <1>1, <1>2, <1>3, <1>4, <1>5 DEF DeskNext

-----------------------------------------------------------------------------
(* The rest of an order's types.                                             *)
OrderType ==
  [pc: {"none", "priced", "ready", "resting", "done", "reverted"},
   side: {"BUY", "SELL"}, outcome: {"YES", "NO"}, notional: BOOLEAN,
   asked: 0..MaxAsked, shown: 0..Scale, type: {"MARKET", "LIMIT"},
   limit: 0..Scale, qty: Nat, booked: Nat, expire: Nat,
   approve: BOOLEAN, onGrid: BOOLEAN, got: Nat, paid: Nat, why: Reasons \cup {"none"}]

OrderTyped == order \in OrderType /\ allowance <= Unlimited

LEMMA OrderTypes ==
  ASSUME OrderShape, OrderTyped
  PROVE  TypeOK
<1>1. allowance \in 0..Unlimited
  <2>1. Unlimited \in Int
    <3>1. MaxAsked \in Nat /\ Scale \in Nat
      BY OrderConstants
    <3>2. MaxAsked * Scale \in Nat
      BY <3>1
    <3> QED
      BY <3>1, <3>2 DEF Unlimited
  <2>2. allowance \in Nat /\ allowance <= Unlimited
    BY DEF OrderShape, OrderTyped
  <2> QED
    BY <2>1, <2>2
<1> QED
  BY <1>1 DEF OrderShape, OrderTyped, OrderType, TypeOK

LEMMA NoOrderTyped == NoOrder \in OrderType
<1>1. 0 \in 0..MaxAsked /\ 0 \in 0..Scale
  BY OrderConstants
<1> QED
  BY <1>1 DEF NoOrder, OrderType

(* A new order ends at a number, not before its first second.                *)
LEMMA ExpiryIsNumber ==
  ASSUME NEW side, now \in 0..Close
  PROVE  ExpireAt(side) \in Nat
<1>1. Close \in Nat \ {0} /\ OrderLife \in Nat
  BY OrderConstants
<1> DEFINE u == Close - 1
           w == now + 1
           b == IF side = "BUY" THEN u ELSE Max({u, w})
           e == now + OrderLife
<1>2. u \in Nat /\ w \in Nat /\ e \in Nat
  BY <1>1
<1>3. ExpireAt(side) = Min({e, b})
  BY DEF ExpireAt
<1> HIDE DEF u, w, e
<1>4. Max({u, w}) \in Nat
  <2>1. Max({u, w}) = IF u <= w THEN w ELSE u
    BY <1>2, LeastOfTwo
  <2> QED
    BY <1>2, <2>1
<1>5. b \in Nat
  BY <1>2, <1>4
<1> HIDE DEF b
<1>6. Min({e, b}) \in Nat
  <2>1. Min({e, b}) = IF e <= b THEN e ELSE b
    BY <1>2, <1>5, LeastOfTwo
  <2> QED
    BY <1>2, <1>5, <2>1
<1> QED
  BY <1>3, <1>6

LEMMA PricedTyped ==
  ASSUME EntryInv, EntryInv', OrderTyped,
         NEW side \in {"BUY", "SELL"}, NEW outcome \in {"YES", "NO"},
         NEW notional \in BOOLEAN, NEW asked \in 1..MaxAsked, NEW shown \in Prices,
         NEW read \in BOOLEAN, Priced(side, outcome, notional, asked, shown, read)
  PROVE  OrderTyped'
<1> DEFINE qty == Align(IF notional THEN NotionalToQuantity(asked, shown) ELSE asked, Grid(read))
           limit == LimitOf(side, outcome, "MARKET", shown, Grid(read))
           end == ExpireAt(side)
           o == [NoOrder EXCEPT
              !.pc = "priced", !.side = side, !.outcome = outcome, !.notional = notional,
              !.asked = asked, !.shown = shown, !.qty = qty, !.booked = qty,
              !.limit = limit, !.expire = end, !.onGrid = read]
<1>1. PICK approve : order' = [o EXCEPT !.approve = approve]
  BY DEF Priced
<1>2. order'.qty = qty /\ order'.limit = limit /\ order'.approve = approve
  BY <1>1 DEF NoOrder
<1>3. qty \in Nat /\ limit \in 0..Scale /\ approve \in BOOLEAN
  BY <1>2 DEF EntryInv, OrderShape
<1>4. end \in Nat
  BY ExpiryIsNumber DEF EntryInv, OrderShape
<1>5. asked \in 0..MaxAsked /\ shown \in 0..Scale
  BY OrderConstants DEF Prices
<1>6. allowance' = allowance
  BY DEF Priced
<1> HIDE DEF qty, limit, end
<1>7. order' = [pc |-> "priced", side |-> side, outcome |-> outcome, notional |-> notional,
                asked |-> asked, shown |-> shown, type |-> "MARKET", limit |-> limit,
                qty |-> qty, booked |-> qty, expire |-> end, approve |-> approve,
                onGrid |-> read, got |-> 0, paid |-> 0, why |-> "none"]
  BY <1>1 DEF NoOrder
<1> HIDE DEF o
<1>8. order' \in OrderType
  BY <1>3, <1>4, <1>5, <1>7 DEF OrderType
<1> QED
  BY <1>6, <1>8 DEF OrderTyped

LEMMA DryRunTyped ==
  ASSUME EntryInv, EntryInv', OrderTyped, NEW answer, DryRun(answer)
  PROVE  OrderTyped'
<1>1. order \in OrderType /\ allowance' = allowance
  BY DEF DryRun, OrderTyped
<1>2. ASSUME NEW read \in BOOLEAN, order' = [AsLimit(order, read) EXCEPT !.pc = "ready"]
      PROVE  order' \in OrderType
  <2> DEFINE qty == Align(Raw(order), Grid(read))
             limit == LimitOf(order.side, order.outcome, "LIMIT", order.shown, Grid(read))
             grid == order.onGrid /\ read
  <2>1. order' = [order EXCEPT !.pc = "ready", !.type = "LIMIT", !.qty = qty, !.limit = limit,
                               !.onGrid = grid]
    BY <1>1, <1>2 DEF AsLimit, Raw, OrderType
  <2>2. order'.qty = qty /\ order'.limit = limit
    BY <1>1, <2>1 DEF OrderType
  <2>3. qty \in Nat /\ limit \in 0..Scale
    BY <2>2 DEF EntryInv, OrderShape
  <2>4. grid \in BOOLEAN
    OBVIOUS
  <2> HIDE DEF qty, limit, grid
  <2> QED
    BY <1>1, <2>1, <2>3, <2>4 DEF OrderType
<1>3. \/ order' \in {NoOrder, [order EXCEPT !.pc = "ready"]}
      \/ \E read \in BOOLEAN : order' = [AsLimit(order, read) EXCEPT !.pc = "ready"]
  BY DEF DryRun
<1>4. [order EXCEPT !.pc = "ready"] \in OrderType
  BY <1>1 DEF OrderType
<1> QED
  BY <1>1, <1>2, <1>3, <1>4, NoOrderTyped DEF OrderTyped

LEMMA SubmitTyped ==
  ASSUME EntryInv, OrderTyped, NEW book \in Books, Submit(book)
  PROVE  OrderTyped'
<1> DEFINE filled == Filled(order, book)
           cost == Paid(order, book)
<1>1. /\ order \in OrderType /\ allowance \in Nat /\ allowance <= Unlimited
      /\ order.qty \in Nat
  BY DEF EntryInv, OrderShape, OrderTyped
<1>2. filled \in Nat /\ cost \in Nat
  BY <1>1, PaidIsNumber, FilledIsNumber
<1>3. Unlimited \in Nat
  <2>1. MaxAsked \in Nat /\ Scale \in Nat
    BY OrderConstants
  <2>2. MaxAsked * Scale \in Nat
    BY <2>1
  <2> QED
    BY <2>1, <2>2 DEF Unlimited
<1>4. CASE /\ order' = [order EXCEPT
                   !.pc = IF @ = "ready" /\ order.type = "LIMIT" /\ filled < order.qty
                          THEN "resting" ELSE "done",
                   !.got = filled, !.paid = cost]
           /\ allowance' = IF order.side = "BUY" /\ allowance # Unlimited
                           THEN Max({allowance - cost, 0}) ELSE allowance
  <2> HIDE DEF filled, cost
  <2>1. PICK pc \in {"resting", "done"} :
          order' = [order EXCEPT !.pc = pc, !.got = filled, !.paid = cost]
    BY <1>4
  <2>2. order' \in OrderType
    BY <1>1, <1>2, <2>1 DEF OrderType
  <2>3. allowance' <= Unlimited
    <3> DEFINE left == allowance - cost
    <3>1. left \in Int /\ left <= allowance
      BY <1>1, <1>2
    <3> HIDE DEF left
    <3>2. Max({left, 0}) = IF left <= 0 THEN 0 ELSE left
      BY <3>1, LeastOfTwo
    <3>3. Max({left, 0}) <= Unlimited
      BY <1>1, <1>3, <3>1, <3>2
    <3> QED
      BY <1>1, <1>4, <3>3 DEF left
  <2> QED
    BY <2>2, <2>3 DEF OrderTyped
<1>5. ASSUME NEW r \in Refusals(order, filled = 0),
             order' = [order EXCEPT !.pc = "reverted", !.why = r],
             allowance' = allowance
      PROVE  OrderTyped'
  <2>1. r \in Reasons
    BY <1>5 DEF Refusals
  <2>2. order' \in OrderType
    BY <1>1, <1>5, <2>1 DEF OrderType
  <2> QED
    BY <1>1, <1>5, <2>2 DEF OrderTyped
<1>6. \/ /\ order' = [order EXCEPT
                   !.pc = IF @ = "ready" /\ order.type = "LIMIT" /\ filled < order.qty
                          THEN "resting" ELSE "done",
                   !.got = filled, !.paid = cost]
         /\ allowance' = IF order.side = "BUY" /\ allowance # Unlimited
                         THEN Max({allowance - cost, 0}) ELSE allowance
      \/ \E r \in Refusals(order, filled = 0) :
            order' = [order EXCEPT !.pc = "reverted", !.why = r] /\ allowance' = allowance
  BY Zenon DEF Submit
<1> QED
  BY <1>4, <1>5, <1>6

LEMMA RestTyped ==
  ASSUME EntryInv, OrderTyped, NEW n, Rest(n)
  PROVE  OrderTyped'
<1> DEFINE per == PerShare(order.outcome, order.limit)
           part == (n * per) \div Scale
<1>1. order \in OrderType /\ allowance' = allowance /\ order.qty \in Nat /\ order.got \in Nat
  BY DEF Rest, OrderTyped, OrderType
<1>2. n \in Nat
  BY <1>1 DEF Rest
<1>3. per \in 0..Scale
  <2>1. Scale \in Nat /\ order.limit \in 0..Scale
    BY <1>1, OrderConstants DEF OrderType
  <2> QED
    BY <2>1 DEF PerShare
<1>4. PICK pc \in {"resting", "done"} :
        order' = [order EXCEPT !.got = order.got + n, !.paid = order.paid + part, !.pc = pc]
  BY DEF Rest
<1> HIDE DEF part
<1>5. part \in Nat
  <2> HIDE DEF per
  <2>1. (n * per) \div Scale \in 0..n
    BY <1>2, <1>3, QuoteBound
  <2> QED
    BY <1>2, <2>1 DEF part
<1>6. order.got + n \in Nat /\ order.paid + part \in Nat
  BY <1>1, <1>2, <1>5 DEF OrderType
<1>7. order' \in OrderType
  BY <1>1, <1>4, <1>6 DEF OrderType
<1> QED
  BY <1>1, <1>7 DEF OrderTyped

LEMMA OrderTypedInit == Init => OrderTyped
<1>1. MaxAsked \in Nat /\ Scale \in Nat /\ Allowances \subseteq 0..Unlimited
  BY OrderConstants
<1>2. MaxAsked * Scale \in Nat
  BY <1>1
<1>3. Unlimited \in Nat
  BY <1>1, <1>2 DEF Unlimited
<1> QED
  BY <1>1, <1>3, NoOrderTyped DEF Init, OrderTyped

LEMMA OrderTypedNext == EntryInv /\ OrderTyped /\ [Next]_vars => OrderTyped'
<1> SUFFICES ASSUME EntryInv, OrderTyped, [Next]_vars PROVE OrderTyped'
  OBVIOUS
<1>0. EntryInv' /\ order \in OrderType
  BY EntryNext DEF OrderTyped
<1>1. ASSUME NEW outcome \in {"YES", "NO"}, NEW read \in BOOLEAN,
             NEW asked \in 1..MaxAsked, NEW shown \in Prices, NEW notional \in BOOLEAN,
             Prepare(outcome, notional, asked, shown, read)
      PROVE  OrderTyped'
  BY <1>0, <1>1, PricedTyped DEF Prepare
<1>2. ASSUME NEW outcome \in {"YES", "NO"}, NEW read \in BOOLEAN,
             NEW asked \in 1..MaxAsked, NEW shown \in Prices,
             PrepareSell(outcome, asked, shown, read)
      PROVE  OrderTyped'
  BY <1>0, <1>2, PricedTyped DEF PrepareSell
<1>3. ASSUME NEW answer, DryRun(answer) PROVE OrderTyped'
  BY <1>0, <1>3, DryRunTyped
<1>4. ASSUME NEW book \in Books, Submit(book) PROVE OrderTyped'
  BY <1>4, SubmitTyped
<1>5. ASSUME NEW n, Rest(n) PROVE OrderTyped'
  BY <1>5, RestTyped
<1>6. ASSUME NEW a \in Allowances, Elsewhere(a) PROVE OrderTyped'
  <2>1. order' = order /\ allowance' = a /\ a <= Unlimited
    BY <1>6, OrderConstants DEF Elsewhere
  <2> QED
    BY <1>0, <2>1 DEF OrderTyped
<1>7. CASE Approve
  <2>1. Unlimited \in Int
    <3>1. MaxAsked \in Nat /\ Scale \in Nat
      BY OrderConstants
    <3>2. MaxAsked * Scale \in Nat
      BY <3>1
    <3> QED
      BY <3>1, <3>2 DEF Unlimited
  <2>2. order' \in OrderType /\ allowance' = Unlimited
    BY <1>0, <1>7 DEF Approve, OrderType
  <2> QED
    BY <2>1, <2>2 DEF OrderTyped
<1>8. CASE Drop \/ Tick \/ UNCHANGED vars
  <2>1. order' \in {order, NoOrder} /\ allowance' = allowance
    BY <1>8 DEF Drop, Tick, vars
  <2> QED
    BY <1>0, <2>1, NoOrderTyped DEF OrderTyped
<1> QED
  BY <1>1, <1>2, <1>3, <1>4, <1>5, <1>6, <1>7, <1>8 DEF Next

-----------------------------------------------------------------------------
(* All of a user's records.  Whichever scene plays, its component keeps what *)
(* was shown of it, and the others rest.                                     *)
SessionInv == KeyInv /\ CountInv
OrderInv == EntryInv /\ OrderTyped
BotInv == DeskInv /\ QueueTyped /\ AgentTyped

RecordsInv == SessionInv /\ OrderInv /\ BotInv /\ LedgerInv /\ PositionInv

LEMMA SessionRested ==
  ASSUME SessionInv, UNCHANGED session
  PROVE  SessionInv'
  BY StepKeeps, CountInvNext DEF SessionInv

LEMMA OrderRested ==
  ASSUME OrderInv, UNCHANGED entry
  PROVE  OrderInv'
  BY EntryNext, OrderTypedNext DEF OrderInv, entry

LEMMA BotRested ==
  ASSUME BotInv, UNCHANGED bot
  PROVE  BotInv'
  BY DeskKeeps, DeskTypesNext DEF BotInv

LEMMA LedgerRested ==
  ASSUME LedgerInv, UNCHANGED ledger
  PROVE  LedgerInv'
  BY LedgerInvNext

LEMMA PositionRested ==
  ASSUME PositionInv, UNCHANGED holdings
  PROVE  PositionInv'
  BY PositionStep

LEMMA RecordsStart == MCInit => RecordsInv
<1> SUFFICES ASSUME MCInit PROVE RecordsInv
  OBVIOUS
<1>1. Init /\ DeskInit /\ HoldingsInit /\ LedgerInit /\ SessionInit
  BY DEF MCInit, EntryRests, BotRests, HoldingsRest, LedgerRests, SessionRests
<1>2. SessionInv
  BY <1>1, InitHolds, CountInvInit DEF SessionInv
<1>3. OrderInv
  BY <1>1, EntryInit, OrderTypedInit DEF OrderInv
<1>4. BotInv
  BY <1>1, DeskStarts, DeskTypesInit DEF BotInv
<1> QED
  BY <1>1, <1>2, <1>3, <1>4, LedgerInvInit, PositionInit DEF RecordsInv

LEMMA RecordsKeep == RecordsInv /\ [MCNext]_mcvars => RecordsInv'
<1> SUFFICES ASSUME RecordsInv, [MCNext]_mcvars PROVE RecordsInv'
  OBVIOUS
<1>1. CASE EntryStep
  <2>1. OrderInv'
    BY <1>1, EntryNext, OrderTypedNext DEF EntryStep, RecordsInv, OrderInv
  <2> QED
    BY <1>1, <2>1, SessionRested, BotRested, LedgerRested, PositionRested
    DEF EntryStep, RecordsInv
<1>2. CASE BotStep
  <2>1. BotInv'
    BY <1>2, DeskKeeps, DeskTypesNext DEF BotStep, RecordsInv, BotInv
  <2> QED
    BY <1>2, <2>1, SessionRested, OrderRested, LedgerRested, PositionRested
    DEF BotStep, RecordsInv
<1>3. CASE PositionsStep
  <2>1. PositionInv'
    BY <1>3, PositionStep DEF PositionsStep, RecordsInv
  <2> QED
    BY <1>3, <2>1, SessionRested, OrderRested, BotRested, LedgerRested
    DEF PositionsStep, RecordsInv
<1>4. CASE LedgerStep
  <2>1. LedgerInv'
    BY <1>4, LedgerInvNext DEF LedgerStep, RecordsInv
  <2> QED
    BY <1>4, <2>1, SessionRested, OrderRested, BotRested, PositionRested
    DEF LedgerStep, RecordsInv
<1>5. CASE SessionStep
  <2>1. SessionInv'
    BY <1>5, StepKeeps, CountInvNext DEF SessionStep, RecordsInv, SessionInv
  <2> QED
    BY <1>5, <2>1, OrderRested, BotRested, LedgerRested, PositionRested
    DEF SessionStep, RecordsInv
<1>6. CASE UNCHANGED mcvars
  BY <1>6, SessionRested, OrderRested, BotRested, LedgerRested, PositionRested
  DEF mcvars, RecordsInv
<1> QED
  BY <1>1, <1>2, <1>3, <1>4, <1>5, <1>6 DEF MCNext

(* UserTypeOK: every value the services keep for one user stays of its type, *)
(* in particular no balance, holding or allowance falls below zero, and the  *)
(* count the node answers is never above the number of redemptions.          *)
THEOREM RecordsKeepTheirTypes == MCSpec => []UserTypeOK
<1>1. RecordsInv => UserTypeOK
  <2> SUFFICES ASSUME RecordsInv PROVE UserTypeOK
    OBVIOUS
  <2>1. TypeOK
    BY OrderTypes DEF RecordsInv, OrderInv, EntryInv
  <2>2. DeskTypeOK
    BY DeskTypes DEF RecordsInv, BotInv, DeskInv
  <2>3. HoldingsTypeOK /\ LedgerTypeOK
    BY DEF RecordsInv, PositionInv, LedgerInv
  <2>4. SessionTypeOK
    BY CountIsBounded DEF RecordsInv, SessionInv
  <2> QED
    BY <2>1, <2>2, <2>3, <2>4 DEF UserTypeOK
<1> QED
  BY <1>1, RecordsStart, RecordsKeep, PTL DEF MCSpec
=============================================================================
