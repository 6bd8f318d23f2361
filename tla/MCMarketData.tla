---------------------------- MODULE MCMarketData ----------------------------
(***************************************************************************)
(* The safety of what the services know of DreamDEX and its traders, for    *)
(* TLC: the market index, the radar, the rules about a copy, who is         *)
(* followed, and the AI answers.  They meet in the database only where      *)
(* their modules say, so a behaviour plays one of them, its scene, and the  *)
(* others rest in one state.  The properties are those of the modules.      *)
(***************************************************************************)
EXTENDS MarketIndex, Radar, CopyRules, FollowRules, Assistant, TLC

CONSTANTS
  x1, x2,                  \* interchangeable: markets, runs or threads
  y1, y2,                  \* interchangeable: traders
  z1, z2,                  \* interchangeable: permissions
  u1, p1, w1, w2, e1

VARIABLE scene

index == vars
mcvars == <<scene, index, radar, rules, follows, answers>>

-----------------------------------------------------------------------------
(* The instances.                                                            *)
MCThreads == {x1, x2}
MCProcs == {p1}
MCWeb == {w1, w2}
MCWorkers == {w2}
MCPages == {w1}
MCTraders == {y1, y2}
MCPerms == {z1, z2}

(* One market of the radar: busy, quiet with one-sided fills, closed.        *)
MCEvents == {e1}
Fill(market, maker, id) == [market |-> market, maker |-> maker, taker |-> "NO", id |-> id]
MarketStates ==
  {[live |-> TRUE, price |-> 70, volume |-> 90000, minutes |-> 30, momentum |-> 0,
    book |-> {<<50, 100>>}, fills |-> {}],
   [live |-> TRUE, price |-> 50, volume |-> 100, minutes |-> 10, momentum |-> 20,
    book |-> {}, fills |-> {Fill(e1, "NO", 1), Fill(e1, "NO", 2), Fill(u1, "YES", 3)}],
   [live |-> FALSE, price |-> 99, volume |-> 100, minutes |-> 0, momentum |-> 0,
    book |-> {}, fills |-> {}]}

(* Values on both sides of every limit of a rule.                            *)
RuleChoices ==
  [mode |-> {"SMART", "BLIND", "CONSENSUS"}, active |-> BOOLEAN, auto |-> BOOLEAN,
   perTrade |-> {0, 10, 30}, daily |-> {0, 50, 15}, minScore |-> {0, 40, 70},
   minWin |-> {65, 40}, minTrades |-> {30, 0}, minDepth |-> {1000, 100},
   minFavor |-> {0, 60, 40}, asset |-> BOOLEAN, every |-> BOOLEAN, trust |-> BOOLEAN,
   history |-> BOOLEAN, depth |-> BOOLEAN, movement |-> BOOLEAN, crowd |-> BOOLEAN]
FactChoices ==
  [win |-> {60, 80}, trades |-> {200, 30}, roi |-> {20}, skill |-> {60},
   depth |-> {500, 5000}, volume |-> {20000}, minutes |-> {0, 30}, price |-> {60},
   entry |-> {60, 50}, yes |-> {8}, no |-> {2}, wallets |-> {8}, moving |-> BOOLEAN]
MCGrants ==
  {[perTrade |-> 20, daily |-> 60, minScore |-> 75,
    names |-> TRUE, outcome |-> TRUE, valid |-> TRUE],
   [perTrade |-> 5, daily |-> 30, minScore |-> 50,
    names |-> TRUE, outcome |-> FALSE, valid |-> TRUE],
   [perTrade |-> 5, daily |-> 30, minScore |-> 50,
    names |-> FALSE, outcome |-> TRUE, valid |-> TRUE],
   [perTrade |-> 5, daily |-> 30, minScore |-> 50,
    names |-> TRUE, outcome |-> TRUE, valid |-> FALSE]}

(* A limit of two seconds, an analysis cached for one, headlines for two.    *)
MCUsers == {"user"}
MCSettings == {[provider |-> "cursor", key |-> TRUE, local |-> TRUE, mock |-> FALSE]}
MCOps == {"analyze", "chat", "talk", "lens"}

-----------------------------------------------------------------------------
IndexRests == Init
RadarRests == RadarInit /\ \A e \in Events : venue[e].price = 70
RulesRest ==   \* one copies every fill, which leaves little to evaluate
  /\ rule = [DefaultRule EXCEPT !.every = TRUE]
  /\ facts = (CHOOSE f \in Drifts : TRUE)
  /\ grant = NoGrant /\ copy = NoCopy /\ moved = FALSE /\ changes = 0
FollowsRest == FollowInit
AnswersRest == AnswerInit

MCInit ==
  \/ /\ scene = "index" /\ Init
     /\ RadarRests /\ RulesRest /\ FollowsRest /\ AnswersRest
  \/ /\ scene = "radar" /\ RadarInit
     /\ IndexRests /\ RulesRest /\ FollowsRest /\ AnswersRest
  \/ /\ scene = "rules" /\ RulesInit
     /\ IndexRests /\ RadarRests /\ FollowsRest /\ AnswersRest
  \/ /\ scene = "follows" /\ FollowInit
     /\ IndexRests /\ RadarRests /\ RulesRest /\ AnswersRest
  \/ /\ scene = "answers" /\ AnswerInit
     /\ IndexRests /\ RadarRests /\ RulesRest /\ FollowsRest

IndexStep ==
  /\ scene = "index" /\ Next
  /\ UNCHANGED <<scene, radar, rules, follows, answers>>
RadarStep ==
  /\ scene = "radar" /\ RadarNext
  /\ UNCHANGED <<scene, index, rules, follows, answers>>
RulesStep ==
  /\ scene = "rules" /\ RulesNext
  /\ UNCHANGED <<scene, index, radar, follows, answers>>
FollowsStep ==
  /\ scene = "follows" /\ FollowNext
  /\ UNCHANGED <<scene, index, radar, rules, answers>>
AnswersStep ==
  /\ scene = "answers" /\ AnswerNext
  /\ UNCHANGED <<scene, index, radar, rules, follows>>

MCNext == IndexStep \/ RadarStep \/ RulesStep \/ FollowsStep \/ AnswersStep

MCSpec == MCInit /\ [][MCNext]_mcvars

(* A follow rule of which every trader has been raced over says no more.     *)
StillTold == scene = "follows" => Traders \ (raced \cup stale) # {}

Symmetry == Permutations({x1, x2}) \cup Permutations({y1, y2}) \cup Permutations({z1, z2})
=============================================================================
