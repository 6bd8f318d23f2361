-------------------------------- MODULE Radar --------------------------------
(***************************************************************************)
(* The event radar.  generate_radar_signals replaces the active signals of  *)
(* every open market in one transaction; a Celery task of its own, the full *)
(* sync task and the sync_dreamdex command may all be inside it, while      *)
(* sync_event_prices writes the prices it reads.                            *)
(*                                                                          *)
(* At READ COMMITTED a transaction's first statement, the UPDATE that turns *)
(* every active signal off, reaches the rows committed when it starts: it   *)
(* waits for another run's lock on them, but never sees the rows that run   *)
(* adds.  Prices and probabilities are percentages, momentum is in          *)
(* thousandths.                                                             *)
(***************************************************************************)
EXTENDS Integers, FiniteSetsExt

CONSTANTS
  Events,      \* markets with a row
  States,      \* what a market may look like at the venue: price, volume,
               \* minutes, momentum, book, fills
  Runners,     \* tasks and commands inside generate_radar_signals
  MaxRuns      \* bound: runs started

VARIABLES
  venue,       \* DreamDEX's own view of each market
  priced,      \* the EventContract row: price, volume and minutes as last synced
  open,        \* rows TRADING or LIVE
  listing,     \* sync_event_prices: the listing it holds, or {} when idle
  signals,     \* EventRadarSignal rows with is_active
  runner,      \* the runs
  runs,        \* runs started
  together     \* history: pairs of runs that were inside at the same time

radar == <<venue, priced, open, listing, signals, runner, runs, together>>

NoRun == [pc |-> "idle", run |-> 0, seen |-> {}, todo |-> {}, made |-> {}]

Synced(v) == [price |-> v.price, volume |-> v.volume, minutes |-> v.minutes]

-----------------------------------------------------------------------------
(* book_liquidity: the depth of both sides as quote notional; none without a *)
(* book.  A level is <<price, quantity>>.                                    *)
Depth(book) == MapThenSumSet(LAMBDA l : IF l[1] > 0 THEN l[1] * l[2] ELSE 100 * l[2],
                             book) \div 100

(* _trader_side_ratio: a fill with YES on either side counts for YES.  Pools *)
(* are used again by later markets, whose fills are not this one's.          *)
YesFills(v, e) == {f \in v.fills : f.market = e /\ "YES" \in {f.maker, f.taker}}
NoFills(v, e) == {f \in v.fills : f.market = e /\ "YES" \notin {f.maker, f.taker}}

Away(p) == IF p < 50 THEN 50 - p ELSE p - 50
Share(x, whole) == Min({10000, (10000 * x) \div whole})

OneSided(a, b) == a >= 2 /\ a >= 2 * b

(* compute_interest_score, in hundredths of a percent.                       *)
InterestScore(r, v) ==
  LET soon == IF r.minutes = 0 THEN 10000
              ELSE IF r.minutes >= 60 THEN 0 ELSE 10000 - Share(r.minutes, 60)
      pace == IF v.momentum < 0 THEN - v.momentum ELSE v.momentum
  IN (25 * Share(Away(r.price), 50) + 20 * Share(pace, 50)
       + 20 * Share(r.volume, 150000) + 15 * Share(Depth(v.book), 80)
       + 20 * soon) \div 100

(* _detect_signals.                                                          *)
Detected(r, v, e) ==
  LET yes == Cardinality(YesFills(v, e))
      no == Cardinality(NoFills(v, e))
  IN {t \in {"STRONG_CONSENSUS", "MOVING_FAST", "UNUSUAL_VOLUME", "EXPIRING_SOON",
             "TRADER_DIVERGENCE", "HIGH_LIQUIDITY", "PRICE_IMBALANCE"} :
        \/ t = "STRONG_CONSENSUS"  /\ (r.price >= 65 \/ r.price <= 35)
        \/ t = "MOVING_FAST"       /\ (v.momentum >= 15 \/ v.momentum <= -15)
        \/ t = "UNUSUAL_VOLUME"    /\ r.volume >= 80000
        \/ t = "EXPIRING_SOON"     /\ r.minutes \in 1..15
        \/ t = "TRADER_DIVERGENCE" /\ (OneSided(yes, no) \/ OneSided(no, yes))
        \/ t = "HIGH_LIQUIDITY"    /\ Depth(v.book) >= 40
        \/ t = "PRICE_IMBALANCE"   /\ Away(r.price) >= 15}

-----------------------------------------------------------------------------
(* generate_radar_signals.                                                   *)

(* Mutant: only the signals whose market has closed are turned off.          *)
ClosedOnly == {s \in signals : s.event \notin open}

(* The rows the UPDATE reaches.                                              *)
Reached == signals

Begin(k) ==
  /\ runner[k].pc = "idle" /\ runs < MaxRuns
  /\ runs' = runs + 1
  /\ runner' = [runner EXCEPT ![k] = [NoRun EXCEPT !.pc = "update", !.run = runs',
                                                  !.seen = Reached]]
  /\ together' = together \cup
       {{runs', runner[j].run} : j \in {j \in Runners : runner[j].pc # "idle"}}
  /\ UNCHANGED <<venue, priced, open, listing, signals>>

(* The UPDATE is through, once no other run holds a row it reaches; then the *)
(* open markets are read.                                                    *)
ReadMarkets(k) ==
  /\ runner[k].pc = "update"
  /\ \A j \in Runners \ {k} :
       runner[j].pc = "scan" => runner[j].seen \cap runner[k].seen = {}
  /\ runner' = [runner EXCEPT ![k].pc = "scan",
                              ![k].todo = {e \in open : priced[e].minutes > 0}]
  /\ UNCHANGED <<venue, priced, open, listing, signals, runs, together>>

(* One market of the loop: its row, its book, its fills.                     *)
Scan(k) ==
  \E e \in runner[k].todo :
    LET found == {[event |-> e, type |-> t, run |-> runner[k].run,
                   score |-> InterestScore(priced[e], venue[e])]
                  : t \in Detected(priced[e], venue[e], e)}
    IN /\ runner' = [runner EXCEPT ![k].todo = @ \ {e}, ![k].made = @ \cup found]
       /\ UNCHANGED <<venue, priced, open, listing, signals, runs, together>>

Publish(k) ==
  /\ runner[k].pc = "scan" /\ runner[k].todo = {}
  /\ signals' = (signals \ runner[k].seen) \cup runner[k].made
  /\ runner' = [runner EXCEPT ![k] = NoRun]
  /\ UNCHANGED <<venue, priced, open, listing, runs, together>>

(* The fills cannot be read: everything is rolled back.                      *)
RollBack(k) ==
  /\ runner[k].todo # {}
  /\ runner' = [runner EXCEPT ![k] = NoRun]
  /\ UNCHANGED <<venue, priced, open, listing, signals, runs, together>>

-----------------------------------------------------------------------------
(* sync_event_prices: the live listing, then one transaction over the rows   *)
(* that are still open.                                                      *)

ListPrices ==
  /\ listing = {}
  /\ listing' = {[event |-> e, now |-> Synced(venue[e])] : e \in {e \in Events : venue[e].live}}
  /\ UNCHANGED <<venue, priced, open, signals, runner, runs, together>>

WritePrices ==
  /\ listing # {}
  /\ priced' = [e \in Events |->
               IF e \in open /\ \E l \in listing : l.event = e
               THEN (CHOOSE l \in listing : l.event = e).now ELSE priced[e]]
  /\ listing' = {}
  /\ UNCHANGED <<venue, open, signals, runner, runs, together>>

(* The market moves on at the venue; MarketIndex closes the row.             *)
Move ==
  /\ \E e \in Events : \E v \in States \ {venue[e]} :
       /\ venue[e].live /\ v.minutes <= venue[e].minutes
       /\ venue' = [venue EXCEPT ![e] = v]
  /\ UNCHANGED <<priced, open, listing, signals, runner, runs, together>>

CloseRow ==
  /\ \E e \in open : ~ venue[e].live /\ open' = open \ {e}
  /\ UNCHANGED <<venue, priced, listing, signals, runner, runs, together>>

RadarInit ==
  /\ venue \in [Events -> {v \in States : v.live}]
  /\ priced = [e \in Events |-> Synced(venue[e])]
  /\ open = Events /\ listing = {} /\ signals = {}
  /\ runner = [k \in Runners |-> NoRun]
  /\ runs = 0 /\ together = {}

RadarNext ==
  \/ \E k \in Runners : Begin(k) \/ ReadMarkets(k) \/ Scan(k) \/ Publish(k) \/ RollBack(k)
  \/ ListPrices \/ WritePrices \/ Move \/ CloseRow

RadarSpec == RadarInit /\ [][RadarNext]_radar

-----------------------------------------------------------------------------
(* What the radar page and the copy score read is the finding of one run: no *)
(* signal twice, and one score for all the signals of a market.  Only runs   *)
(* that were inside generate_radar_signals together leave both their rows    *)
(* active, until a run that starts after both.                               *)
OneFinding ==
  \A s, t \in signals :
    s # t /\ s.event = t.event =>
      IF s.run = t.run THEN s.type # t.type /\ s.score = t.score
      ELSE {s.run, t.run} \in together
==============================================================================
