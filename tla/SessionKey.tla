----------------------------- MODULE SessionKey -----------------------------
(***************************************************************************)
(* The one session key every agent's trades and claims are sent with.  A     *)
(* thread reads the key's transaction count, dry-runs the redemption of the *)
(* owner's grant, sends it under that count as nonce and waits two minutes  *)
(* for the receipt; nothing keeps two threads apart.                        *)
(***************************************************************************)
EXTENDS Naturals, FiniteSets

CONSTANTS
  Sends,      \* redemptions, each by a thread of its own
  Needs,      \* the methods a claim may have to call first, in sets
  GasTank     \* redemptions the key, or the Smart Account, can pay for

ASSUME SessionConstants == IsFiniteSet(Sends) /\ GasTank \in Nat

VARIABLES
  key,        \* the session key the server is configured with
  grant,      \* the grant on record
  live,       \* the chain still honours the grants
  count,      \* the key's transactions mined so far
  pool,       \* transactions the node holds
  gas,        \* redemptions the key can still pay for
  send,       \* the redemptions
  overtaken,  \* history: another was pending at its count, or sent before its send
  unheard     \* history: it was given up unheard of, or its reply was lost

session == <<key, grant, live, count, pool, gas, send, overtaken, unheard>>

Keys == {"old key", "new key"}
Order == "placeBinaryOrder"
Methods == {Order, "approve", "setOperator", "redeem", "finalizeMarket", "pokeOracle",
            "syncSettlement"}

ASSUME NeedsAreMethods == Needs \subseteq SUBSET Methods

(* ALLOWED_CALL_SELECTORS, the list of grants from before claims, and what a *)
(* grant is worth where no enforcer is configured.                           *)
Lists == {Methods, {Order, "approve", "setOperator"}, Methods \cup {"any", "transfer"}}
Unrestricted(g) == "any" \in g.methods
Grants == [delegate: Keys, methods: Lists]

SendRefusals == {"delegate", "method", "value", "expired", "nonce", "gas", "revert", "timeout",
             "lost"}

SessionTypeOK ==
  /\ key \in Keys /\ grant \in Grants /\ live \in BOOLEAN
  /\ count \in 0..Cardinality(Sends)
  /\ pool \subseteq Sends
  /\ gas \in 0..GasTank
  /\ \A s \in Sends :
       /\ send[s].pc \in {"new", "built", "counted", "checked", "waiting", "ok", "failed"}
       /\ send[s].grant \in Grants
       /\ send[s].calls \subseteq Methods /\ send[s].pays \in BOOLEAN
       /\ send[s].nonce \in 0..Cardinality(Sends)
       /\ send[s].mined \in {"no", "done", "reverted"}
       /\ send[s].why \in SendRefusals \cup {"none"}
  /\ overtaken \subseteq Sends /\ unheard \subseteq Sends

NewSend(g) == [pc |-> "new", grant |-> g, calls |-> {}, pays |-> FALSE, nonce |-> 0,
               mined |-> "no", why |-> "none"]

SessionInit ==
  /\ key = "old key" /\ live = TRUE /\ count = 0 /\ pool = {} /\ gas = GasTank
  /\ grant \in { g \in Grants : g.delegate = "old key" }
  /\ send = [s \in Sends |-> NewSend(grant)]
  /\ overtaken = {} /\ unheard = {}

chain == <<live, count, pool, gas>>
history == <<overtaken, unheard>>

Set(s, pc) == send' = [send EXCEPT ![s].pc = pc]
Fail(s, why) == send' = [send EXCEPT ![s].pc = "failed", ![s].why = why]

-----------------------------------------------------------------------------
(* The server is given another session key; the owner signs again, which     *)
(* names the key of the day and today's list of methods.                     *)
NewKey == key = "old key" /\ key' = "new key" /\ UNCHANGED <<grant, chain, send, history>>

Sign ==
  /\ \E m \in Lists : /\ "redeem" \in m
                      /\ grant' = [delegate |-> key, methods |-> m]
  /\ UNCHANGED <<key, chain, send, history>>

Lapse == live /\ live' = FALSE /\ UNCHANGED <<key, grant, count, pool, gas, send, history>>

-----------------------------------------------------------------------------
(* grant_allows_calldata.                                                    *)
GrantAllows(g, method) == Unrestricted(g) \/ method \in g.methods

(* Mutant: any grant is taken to allow redeem.                               *)
AnyGrantClaims(g) == TRUE

(* grant_allows_redeem.                                                      *)
GrantClaims(g) == GrantAllows(g, "redeem")

(* _claim_via_session_key: what settles the market and the operator right,   *)
(* each only if the grant allows it, and the redeem.  All take effect or     *)
(* none, so the methods that are called are kept and not their order.        *)
ClaimCalls(g, needed) == { m \in needed : GrantAllows(g, m) } \cup {"redeem"}

(* The redemption is built from the grant on record: a trade with the        *)
(* approval it needs, or a claim if the grant covers it.                     *)
BuildTrade(s, approve) ==
  /\ send[s].pc = "new"
  /\ send' = [send EXCEPT ![s] = [NewSend(grant) EXCEPT !.pc = "built",
                !.calls = (IF approve THEN {"approve"} ELSE {}) \cup {Order}]]
  /\ UNCHANGED <<key, grant, chain, history>>

BuildClaim(s, needed) ==
  /\ send[s].pc = "new"
  /\ GrantClaims(grant)
  /\ send' = [send EXCEPT ![s] = [NewSend(grant) EXCEPT !.pc = "built",
                !.calls = ClaimCalls(grant, needed)]]
  /\ UNCHANGED <<key, grant, chain, history>>

(* apply_smart_account_gas_payment: not where caveats forbid sending money.  *)
PaysGas(g) == Unrestricted(g)

SignedTo(g) == g.delegate = key

(* get_transaction_count counts what is mined, not what is pending.          *)
NonceFor(s) == count

(* broadcast_delegated_execution: the delegate is compared, the gas payment  *)
(* added if the account can afford it, and the count taken.                  *)
Count(s) ==
  /\ send[s].pc = "built"
  /\ IF SignedTo(send[s].grant)
     THEN /\ \E rich \in BOOLEAN :
               send' = [send EXCEPT ![s].pc = "counted", ![s].nonce = NonceFor(s),
                          ![s].pays = rich /\ PaysGas(send[s].grant)]
          /\ overtaken' = IF pool = {} THEN overtaken \ {s} ELSE overtaken \cup {s}
     ELSE /\ Fail(s, "delegate") /\ UNCHANGED overtaken
  /\ UNCHANGED <<key, grant, chain, unheard>>

(* What the chain finds wrong with a redemption; the venue and the node may  *)
(* find more.                                                                *)
Wrong(s) ==
  { w \in {"delegate", "method", "value", "expired"} :
      CASE w = "delegate" -> send[s].grant.delegate # key
        [] w = "method" -> \E m \in send[s].calls : ~ GrantAllows(send[s].grant, m)
        [] w = "value" -> send[s].pays /\ ~ Unrestricted(send[s].grant)
        [] w = "expired" -> ~ live }

(* estimate_gas, and the key's own balance.                                  *)
Check(s) ==
  /\ send[s].pc = "counted"
  /\ \/ \E w \in Wrong(s) \cup {"revert"} : Fail(s, w)
     \/ gas = 0 /\ Fail(s, "gas")
     \/ Wrong(s) = {} /\ gas > 0 /\ Set(s, "checked")
  /\ UNCHANGED <<key, grant, chain, history>>

(* The node takes a transaction under the next free nonce; its reply may be  *)
(* lost on the way.                                                          *)
Accepts(n) == n >= count /\ \A o \in pool : send[o].nonce # n

Send(s) ==
  /\ send[s].pc = "checked"
  /\ IF Accepts(send[s].nonce)
     THEN /\ pool' = pool \cup {s}
          /\ overtaken' = overtaken \cup
                 { o \in Sends \ {s} : send[o].pc \in {"counted", "checked"} }
          /\ \/ Set(s, "waiting") /\ UNCHANGED unheard
             \/ Fail(s, "lost") /\ unheard' = unheard \cup {s}
     ELSE Fail(s, "nonce") /\ UNCHANGED <<pool, history>>
  /\ UNCHANGED <<key, grant, live, count, gas>>

(* Mined in nonce order: all its calls, or none (DelegationManager).         *)
Mine(s) ==
  /\ s \in pool /\ send[s].nonce = count /\ gas > 0
  /\ pool' = pool \ {s} /\ count' = count + 1
  /\ gas' = IF send[s].pays THEN gas ELSE gas - 1
  /\ \/ Wrong(s) = {} /\ send' = [send EXCEPT ![s].mined = "done"]
     \/ \E w \in Wrong(s) \cup {"revert"} :
          send' = [send EXCEPT ![s].mined = "reverted", ![s].why = w]
  /\ UNCHANGED <<key, grant, live, history>>

(* Mutant: the hash is answered as soon as the node has it.                  *)
ReceiptUnread(s) == send[s].mined # "reverted"

(* wait_for_transaction_receipt and its status.                              *)
ReceiptGood(s) == send[s].mined = "done"

Answer(s) ==
  /\ send[s].pc = "waiting"
  /\ IF ReceiptGood(s) THEN Set(s, "ok")
     ELSE send[s].mined = "reverted" /\ Set(s, "failed")
  /\ UNCHANGED <<key, grant, chain, history>>

(* No receipt in two minutes, or the node fails while it is asked for one,   *)
(* whatever has been mined.                                                  *)
GiveUp(s) ==
  /\ send[s].pc = "waiting"
  /\ Fail(s, "timeout")
  /\ unheard' = unheard \cup {s}
  /\ UNCHANGED <<key, grant, chain, overtaken>>

(* Redemptions do not end with these.                                        *)
Done == (\A s \in Sends : send[s].pc \in {"ok", "failed"} /\ s \notin pool) /\ UNCHANGED session

SessionNext ==
  \/ NewKey \/ Sign \/ Lapse \/ Done
  \/ \E s \in Sends, approve \in BOOLEAN : BuildTrade(s, approve)
  \/ \E s \in Sends, needed \in Needs : BuildClaim(s, needed)
  \/ \E s \in Sends : Count(s) \/ Check(s) \/ Send(s) \/ Mine(s) \/ Answer(s) \/ GiveUp(s)

SessionSpec == SessionInit /\ [][SessionNext]_session

-----------------------------------------------------------------------------
(* What a trade or a claim is told is what became of it: told ok, its calls  *)
(* are on the chain; told that it failed, they are not and never will be,    *)
(* unless it gave up waiting or the node's reply was lost.                   *)
ToldTruly ==
  \A s \in Sends :
    /\ send[s].pc = "ok" => send[s].mined = "done"
    /\ send[s].pc = "failed" /\ s \notin unheard => send[s].mined # "done" /\ s \notin pool

(* A redemption is refused for its nonce only if another was pending at its  *)
(* count, or sent between its count and its own send: alone, never.          *)
RefusedWhenOvertaken ==
  \A s \in Sends : send[s].why = "nonce" => s \in overtaken

(* None that was sent is refused for a method its grant does not allow, for  *)
(* a payment the caveats forbid, or, unless the key was changed meanwhile,   *)
(* for its delegate.                                                         *)
NeverBeyondGrant ==
  \A s \in Sends :
    send[s].mined = "reverted" \/ send[s].pc = "failed" =>
      /\ send[s].why \notin {"method", "value"}
      /\ send[s].mined = "reverted" /\ key = "old key" => send[s].why # "delegate"
=============================================================================
