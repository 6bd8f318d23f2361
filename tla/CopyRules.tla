------------------------------ MODULE CopyRules ------------------------------
(***************************************************************************)
(* What decides about one copy: the copy score (copy_score, over the        *)
(* consensus of consensus_service), the RiskEngine and the PolicyEngine, and *)
(* the three places that ask them - the review of a new fill, the agent's    *)
(* own trade, and the owner's confirmation of a copy that waits, by then     *)
(* against a rule and a market that may have changed.                        *)
(*                                                                           *)
(* Percentages, prices and rates are whole hundredths; a pillar of the score *)
(* is counted in hundredths of a point.  0 stands for None in a limit.       *)
(***************************************************************************)
EXTENDS Integers, FiniteSetsExt

CONSTANTS
  RuleValues,  \* per field of a CopyRelationship, the values the owner sets
  FactValues,  \* per fact of trader, market and fill, the values it takes
  Grants,      \* permissions: limits (perTrade, daily, minScore), whether they name
               \* the trader and the outcome, whether they are valid when looked up
  Spent,       \* the day's total over the relationship's other copies
  MaxChanges   \* bound: edits and drifts in one behaviour

ASSUME RuleConstants ==
  /\ Spent \in Nat /\ RuleValues.perTrade \subseteq Nat
  /\ \A p \in Grants : p.perTrade \in Nat

RuleFields == {"mode", "active", "auto", "perTrade", "daily", "minScore", "minWin",
               "minTrades", "minDepth", "minFavor", "asset", "every", "trust",
               "history", "depth", "movement", "crowd"}
Facts == {"win", "trades", "roi", "skill", "depth", "volume", "minutes", "price",
          "entry", "yes", "no", "wallets", "moving"}

(* What _upsert_copy_relationship gives a new follow.                        *)
DefaultRule ==
  [mode |-> "SMART", active |-> TRUE, auto |-> FALSE, perTrade |-> 10, daily |-> 50,
   minScore |-> 70, minWin |-> 65, minTrades |-> 30, minDepth |-> 1000,
   minFavor |-> 60, asset |-> TRUE, every |-> FALSE, trust |-> TRUE,
   history |-> TRUE, depth |-> TRUE, movement |-> TRUE, crowd |-> TRUE]

VARIABLES
  rule,     \* the CopyRelationship row
  facts,    \* what the score reads of trader, market and fill
  grant,    \* the running agent's permission; NoGrant: no agent runs
  copy,     \* the CopyExecution row: status, stored decision and score, amount
  moved,    \* history: rule or facts have changed since the copy was reviewed
  changes   \* edits and drifts so far

rules == <<rule, facts, grant, copy, moved, changes>>

NoGrant == [perTrade |-> 0, daily |-> 0, minScore |-> 0,
            names |-> FALSE, outcome |-> FALSE, valid |-> FALSE]
NoCopy == [status |-> "NONE", decision |-> "NONE", score |-> 0, amount |-> 0]

-----------------------------------------------------------------------------
(* The facts a fill may meet.                                                *)
Drifts ==
  {[win |-> a, trades |-> b, roi |-> c, skill |-> d, depth |-> e, volume |-> g,
    minutes |-> h, price |-> i, entry |-> j, yes |-> k, no |-> l, wallets |-> m,
    moving |-> n] :
     a \in FactValues.win, b \in FactValues.trades, c \in FactValues.roi,
     d \in FactValues.skill, e \in FactValues.depth, g \in FactValues.volume,
     h \in FactValues.minutes, i \in FactValues.price, j \in FactValues.entry,
     k \in FactValues.yes, l \in FactValues.no, m \in FactValues.wallets,
     n \in FactValues.moving}

(* The five pillars.                                                         *)

Clamp(x) == Max({0, Min({10000, x})})
Apart(a, b) == IF a < b THEN b - a ELSE a - b
Rounded(a, b) == (2 * a + b) \div (2 * b)
Tier(x, steps, top) ==
  LET below == {s \in steps : x < s[1]}
  IN IF below = {} THEN top
     ELSE (CHOOSE s \in below : \A t \in below : s[1] <= t[1])[2]

(* Win rate, completed trades (200 count in full), ROI around 50, and skill. *)
TraderScore(f) ==
  (40 * Clamp(100 * f.win) + 30 * Clamp(50 * f.trades)
     + 15 * Clamp(5000 + 100 * f.roi) + 15 * Clamp(100 * f.skill)) \div 100

(* Book depth, volume, time left, and how far the price is from one half.    *)
EventScore(f) ==
  LET time == IF f.minutes >= 60 THEN 9000 ELSE Clamp(150 * f.minutes) IN
  (35 * Clamp(2 * f.depth) + 25 * Clamp(f.volume \div 2) + 25 * time
     + 15 * Clamp(10000 - 150 * Apart(f.price, 50))) \div 100

(* Distance from one half, up to doubled by volume; a MOVING_FAST radar      *)
(* signal counts 75 at least.                                                *)
MarketScore(f) ==
  LET away == Clamp((Apart(f.price, 50) * 200 * (10000 + Min({f.volume, 10000})))
                      \div 10000)
  IN IF f.moving THEN Max({away, 7500}) ELSE away

(* The share of the traders' stake on YES, the market's price without any.   *)
Consensus(f) ==
  IF f.yes + f.no = 0 THEN 100 * f.price ELSE Rounded(10000 * f.yes, f.yes + f.no)

(* Eight wallets count in full, none as an even 50.                          *)
ConsensusScore(f) ==
  IF f.wallets = 0 THEN 5000
  ELSE Clamp((Consensus(f) * (56 + 3 * Min({f.wallets, 8}))) \div 80)

(* Time left and the move since the trader's entry; higher is safer.         *)
RiskScore(f) ==
  (55 * Tier(f.minutes, {<<1, 0>>, <<2, 2000>>, <<10, 5500>>}, 8500)
     + 45 * Tier(Apart(f.price, f.entry), {<<3, 9000>>, <<8, 6500>>}, 4000)) \div 100

(* A pillar the owner switched off counts 70.                                *)
Overall(r, f) ==
  LET considered(flag, points) == IF flag \/ r.every THEN points ELSE 7000 IN
  Rounded(25 * considered(r.trust \/ r.history, TraderScore(f))
            + 20 * considered(r.depth, EventScore(f))
            + 20 * considered(r.movement, MarketScore(f))
            + 20 * considered(r.crowd, ConsensusScore(f))
            + 15 * RiskScore(f), 10000)

(* "relationship.min_copy_score or 70".                                      *)
OrDefault(x, default) == IF x = 0 THEN default ELSE x

(* Mutant: the fewest trades are not enough.                                 *)
SkipsMore(r, f) ==
  IF r.every THEN {}
  ELSE {x \in {"score", "win", "trades", "depth", "favor"} :
          \/ x = "score"  /\ Overall(r, f) < OrDefault(r.minScore, 70)
          \/ x = "win"    /\ r.history /\ f.win < r.minWin
          \/ x = "trades" /\ r.history /\ f.trades <= r.minTrades
          \/ x = "depth"  /\ r.depth /\ f.depth < r.minDepth
          \/ x = "favor"  /\ r.mode = "CONSENSUS"
                          /\ Consensus(f) < 100 * OrDefault(r.minFavor, 60)}

(* evaluate_copy_score: why the score says SKIP; COPY without a reason.  A   *)
(* copy-every rule skips every check.                                        *)
ScoreSkips(r, f) ==
  IF r.every THEN {}
  ELSE {x \in {"score", "win", "trades", "depth", "favor"} :
          \/ x = "score"  /\ Overall(r, f) < OrDefault(r.minScore, 70)
          \/ x = "win"    /\ r.history /\ f.win < r.minWin
          \/ x = "trades" /\ r.history /\ f.trades < r.minTrades
          \/ x = "depth"  /\ r.depth /\ f.depth < r.minDepth
          \/ x = "favor"  /\ r.mode = "CONSENSUS"
                          /\ Consensus(f) < 100 * OrDefault(r.minFavor, 60)}

Decision(r, f) == IF ScoreSkips(r, f) = {} THEN "COPY" ELSE "SKIP"

(* RiskEngine.evaluate for a copy c, with the day's total and the book's     *)
(* depth if the caller passes it.  Score and decision are the ones passed,   *)
(* and count for a SMART rule only.  The wallet is the session's.            *)
Risks(r, f, c, total, depthKnown) ==
  {x \in {"closed", "stopped", "perTrade", "daily", "asset", "score",
          "skip", "win", "trades", "depth"} :
     \/ x = "closed"   /\ f.minutes = 0
     \/ x = "stopped"  /\ ~ r.active
     \/ x = "perTrade" /\ r.perTrade # 0 /\ c.amount > r.perTrade
     \/ x = "daily"    /\ r.daily # 0 /\ total + c.amount > r.daily
     \/ x = "asset"    /\ ~ r.asset
     \/ x = "score"    /\ r.mode = "SMART" /\ c.score < OrDefault(r.minScore, 70)
     \/ x = "skip"     /\ r.mode = "SMART" /\ c.decision = "SKIP"
     \/ x = "win"      /\ r.history /\ f.win < r.minWin
     \/ x = "trades"   /\ r.history /\ f.trades < r.minTrades
     \/ x = "depth"    /\ depthKnown /\ r.depth /\ f.depth < r.minDepth}

(* PolicyEngine.evaluate: the permission's own limits, whatever the rule's;  *)
(* and whether agent and permission hold still, if they did when looked up.  *)
PolicyRefuses(p, running, valid, f, score, amount) ==
  \/ ~ running \/ ~ valid
  \/ ~ p.names \/ ~ p.outcome \/ f.minutes = 0
  \/ amount > p.perTrade \/ Spent + amount > p.daily
  \/ score < p.minScore

(* _copy_amount.                                                             *)
CopyAmount(r) == OrDefault(r.perTrade, 10)

-----------------------------------------------------------------------------
Changes == changes < MaxChanges /\ changes' = changes + 1
Settled == copy.status \in {"SKIPPED", "APPROVED", "EXECUTED"}

(* The owner edits one field of the rule (update_copy_relationship saves it  *)
(* with the others as they are).                                             *)
EditRule ==
  /\ Changes /\ ~ Settled
  /\ \E x \in RuleFields : \E v \in RuleValues[x] \ {rule[x]} :
       rule' = [rule EXCEPT ![x] = v]
  /\ moved' = (copy # NoCopy)
  /\ UNCHANGED <<facts, grant, copy>>

(* Trader, market or time moves on.                                          *)
Drift ==
  /\ Changes /\ ~ Settled
  /\ \E x \in Facts : \E v \in FactValues[x] \ {facts[x]} :
       /\ x = "minutes" => v < facts.minutes
       /\ facts' = [facts EXCEPT ![x] = v]
  /\ moved' = (copy # NoCopy)
  /\ UNCHANGED <<rule, grant, copy>>

(* An agent is granted a permission, or stops running.                       *)
Authorise ==
  /\ Changes /\ copy = NoCopy
  /\ grant' \in (Grants \cup {NoGrant}) \ {grant}
  /\ UNCHANGED <<rule, facts, copy, moved>>

Scored(amount) ==
  [status |-> "NEW", decision |-> Decision(rule, facts),
   score |-> Overall(rule, facts), amount |-> amount]

(* The review path of detect_and_process_copy: a notify-me follow always     *)
(* gets its alert, an automatic one only if score and risk let the copy      *)
(* through; its own refusal by the RiskEngine is stored as SKIP.             *)
Review ==
  LET c == Scored(CopyAmount(rule))
      risks == Risks(rule, facts, c, Spent, TRUE)
  IN
  /\ copy = NoCopy /\ rule.active
  /\ ~ (rule.auto /\ grant # NoGrant)
  /\ copy' = CASE ~ rule.auto -> [c EXCEPT !.status = "PENDING"]
               [] rule.auto /\ c.decision = "COPY" /\ risks = {} ->
                    [c EXCEPT !.status = "PENDING"]
               [] OTHER -> [c EXCEPT !.status = "SKIPPED", !.decision = "SKIP"]
  /\ moved' = FALSE
  /\ UNCHANGED <<rule, facts, grant, changes>>

AgentCopies == copy = NoCopy /\ rule.active /\ rule.auto /\ grant # NoGrant

(* active_permission finds none.                                             *)
NoDelegation ==
  /\ AgentCopies /\ ~ grant.valid
  /\ copy' = [Scored(CopyAmount(rule)) EXCEPT !.status = "SKIPPED", !.decision = "SKIP"]
  /\ moved' = FALSE
  /\ UNCHANGED <<rule, facts, grant, changes>>

(* execute_trade: the score still uses the rule's old minimum; then the      *)
(* permission's limits are saved over the rule's, and policy and risk use    *)
(* those.  The permission may end meanwhile; the agent's status is the one   *)
(* that was read.                                                            *)
AgentTrades(valid) ==
  LET amount == IF rule.perTrade = 0 THEN grant.perTrade
                ELSE Min({CopyAmount(rule), grant.perTrade})
      c == Scored(amount)
      synced == [rule EXCEPT !.perTrade = grant.perTrade, !.daily = grant.daily,
                             !.minScore = grant.minScore]
      refused == \/ c.decision = "SKIP"
                 \/ PolicyRefuses(grant, TRUE, valid, facts, c.score, amount)
                 \/ Risks(synced, facts, c, Spent, TRUE) # {}
  IN
  /\ AgentCopies /\ grant.valid
  /\ rule' = synced
  /\ copy' = IF refused THEN [c EXCEPT !.status = "SKIPPED", !.decision = "SKIP"]
             ELSE [c EXCEPT !.status = "EXECUTED"]
  /\ moved' = FALSE
  /\ UNCHANGED <<facts, grant, changes>>

(* Mutant: a copy stored with SKIP is never let through.                     *)
ConfirmableCopy ==
  copy.decision = "COPY" /\ Risks(rule, facts, copy, Spent + copy.amount, FALSE) = {}

Confirmable == Risks(rule, facts, copy, Spent + copy.amount, FALSE) = {}

(* prepare_copy_trade: the stored score and decision, the rule as it is now, *)
(* no depth, and a total of the day that counts this very copy already.  The *)
(* SKIPPED of a refusal is rolled back with the error.                       *)
Confirm ==
  /\ copy.status \in {"PENDING", "APPROVED"}
  /\ Confirmable
  /\ copy' = [copy EXCEPT !.status = "APPROVED"]
  /\ UNCHANGED <<rule, facts, grant, moved, changes>>

(* skip_copy_execution.                                                      *)
Skip ==
  /\ copy.status = "PENDING"
  /\ copy' = [copy EXCEPT !.status = "SKIPPED"]
  /\ UNCHANGED <<rule, facts, grant, moved, changes>>

RulesInit ==
  /\ rule = DefaultRule
  /\ facts \in Drifts
  /\ grant = NoGrant /\ copy = NoCopy /\ moved = FALSE /\ changes = 0

RulesNext ==
  \/ EditRule \/ Drift \/ Authorise \/ Review
  \/ NoDelegation \/ \E valid \in BOOLEAN : AgentTrades(valid)
  \/ Confirm \/ Skip

RulesSpec == RulesInit /\ [][RulesNext]_rules

-----------------------------------------------------------------------------
(* What a review of the copy would say now, by score and by risk.            *)
Fresh == ScoreSkips(rule, facts)
           \cup Risks(rule, facts, Scored(copy.amount), Spent, TRUE)

(* The owner's limits are checked by two separately written functions:       *)
(* evaluate_copy_score and RiskEngine.evaluate find the same faults with     *)
(* win rate, history and depth, and under a SMART rule with the score,       *)
(* unless copy-every switches the first one's checks off.                    *)
EnginesAgree ==
  LET both == {"win", "trades", "depth"}
                \cup (IF rule.mode = "SMART" THEN {"score"} ELSE {})
      c == Scored(CopyAmount(rule))
  IN ~ rule.every =>
       ScoreSkips(rule, facts) \cap both = Risks(rule, facts, c, Spent, TRUE) \cap both

(* A copy that waits for the owner and that a review would pass now can be   *)
(* confirmed, unless its own amount, counted twice, goes over the day's      *)
(* limit, or a SMART rule holds its outdated score against it.               *)
WaitsForCause ==
  copy.status = "PENDING" /\ Fresh = {} /\ ~ Confirmable =>
    \/ rule.daily # 0 /\ Spent + 2 * copy.amount > rule.daily
    \/ rule.mode = "SMART" /\ moved
==============================================================================
