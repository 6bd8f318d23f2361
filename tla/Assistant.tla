------------------------------ MODULE Assistant ------------------------------
(***************************************************************************)
(* The AI answers of one web process: analyze_event, chat and lens_chat ask *)
(* one language model after the other, no more often than the rate limit    *)
(* says, with the headlines every thread shares; an anonymous analysis is   *)
(* cached.                                                                  *)
(*                                                                          *)
(* A reply has kind "ok" (with an estimate), "bare" (without the fields     *)
(* asked for), "empty", "e400" (the request is rejected as malformed),      *)
(* "e404" or "down".  What is shown is a model's estimate ("model"), the    *)
(* market price and three cents, as of a model ("bare") or marked           *)
(* UNAVAILABLE, or the mock's.  Time is counted in seconds.                  *)
(***************************************************************************)
EXTENDS Integers, Sequences, FiniteSets

CONSTANTS
  Askers, Users,
  Settings,     \* deployments: provider, key, local (fallback model), mock
  Ops,          \* what is asked: "analyze", "chat" (for an analysis), "talk", "lens"
  Limit,        \* RATE_LIMIT_SECONDS
  Ttl, NewsTtl, \* seconds an analysis and the headlines are cached
  MaxClock,     \* bound on time
  MaxAsked      \* bound on requests

ASSUME AnswerConstants == Limit \in Nat

Anonymous == "anon"
Who == Users \cup {Anonymous}
Replies == {"ok", "bare", "empty", "e400", "e404", "down"}

VARIABLES
  setting, clock,
  price,        \* of the one market asked about (a version)
  stamps,       \* _rate_limit: time of the last call of a user (0: none)
  cached,       \* the cached analysis: the price it is of, its expiry, what it shows
  news,         \* when the cached headlines expire; 0: none
  newsLock,     \* threads inside _refresh
  thread, asked,
  decisions,    \* AgentDecision rows of users
  tooSoon,      \* history: users with two calls closer than the limit
  crowded       \* history: users two threads of whom were waiting together

answers == <<setting, clock, price, stamps, cached, news, newsLock, thread, asked,
          decisions, tooSoon, crowded>>

NoEntry == [price |-> 0, until |-> 0, answer |-> "none"]
NoQuestion == [pc |-> "idle", who |-> Anonymous, op |-> "none", price |-> 0, wake |-> 0,
               at |-> 0, want |-> "none", mode |-> "none", shown |-> "none"]

Goto(t, pc) == thread' = [thread EXCEPT ![t].pc = pc]
Show(t, answer) ==
  thread' = [thread EXCEPT ![t] = [NoQuestion EXCEPT !.pc = "shown", !.shown = answer]]

-----------------------------------------------------------------------------
(* get_llm_client: one provider if its key is set, then the local model.     *)
Chain(s) ==
  LET keyed == IF s.provider = "ollama" \/ s.key THEN <<s.provider>> ELSE <<>>
  IN keyed \o IF s.local /\ s.provider # "ollama" THEN <<"local">> ELSE <<>>

(* OpenAICompatibleClient.complete: a request with JSON mode that is rejected*)
(* is sent again without; any other failure raises.                          *)
PlainRetry(mode, reply) == IF mode = "json" /\ reply = "e400" THEN "again" ELSE "raise"

(* GoogleAIStudioClient.complete: rejected with search, again without it;    *)
(* rejected with JSON mode, again without.  Never both.                      *)
GoogleRetry(mode, reply) ==
  IF (mode = "search" /\ reply \in {"e400", "e404"}) \/ (mode = "json" /\ reply = "e400")
    THEN "again" ELSE "raise"

(* CursorLLMClient.complete: the SDK if the endpoint is missing or rejects   *)
(* the request.  The error of a second attempt reads "HTTP Error 400", which *)
(* is not what is looked for.                                                *)
CursorRetry(mode, reply) ==
  IF mode = "json" /\ reply = "e400" THEN "again"
  ELSE IF mode \in {"json", "plain", "search"} /\ reply \in {"e400", "e404"} THEN "sdk"
  ELSE "raise"

Retry(provider, mode, reply) ==
  CASE provider = "google" -> GoogleRetry(mode, reply)
    [] provider = "cursor" -> CursorRetry(mode, reply)
    [] OTHER               -> PlainRetry(mode, reply)

(* The end of CascadingLLMClient.complete.                                   *)
Unanswered(s) ==
  IF s.mock THEN "mock" ELSE "unavailable"

-----------------------------------------------------------------------------
Tick ==
  /\ clock < MaxClock /\ clock' = clock + 1
  /\ UNCHANGED <<setting, price, stamps, cached, news, newsLock, thread, decisions,
                 tooSoon, crowded, asked>>

PriceMoves ==
  /\ price < 2 /\ price' = price + 1
  /\ UNCHANGED <<setting, clock, stamps, cached, news, newsLock, thread, decisions,
                 tooSoon, crowded, asked>>

(* A request.  chat with the words of an analysis is rate limited itself and *)
(* then calls analyze_event, which is again; what it answers from the        *)
(* database needs no model.  lens_chat counts everybody as one user.         *)
Ask(t, who, op) ==
  /\ thread[t].pc = "idle" /\ asked < MaxAsked /\ asked' = asked + 1
  /\ op = "lens" => who = Anonymous
  /\ thread' = [thread EXCEPT ![t] = [NoQuestion EXCEPT
       !.pc = IF op = "analyze" THEN "news" ELSE "limit", !.who = who, !.op = op,
       !.price = price]]
  /\ UNCHANGED <<setting, clock, price, stamps, cached, news, newsLock, decisions,
                 tooSoon, crowded>>

After(t) == IF thread[t].op \in {"analyze", "chat"} THEN "cache" ELSE "model"

(* list_headlines: cached, or fetched by the one thread that gets the lock;  *)
(* the others find them cached when they get it.                             *)
NewsCached(t) ==
  /\ thread[t].pc = "news" /\ news > clock
  /\ Goto(t, After(t))
  /\ UNCHANGED <<setting, clock, price, stamps, cached, news, newsLock, decisions,
                 tooSoon, crowded, asked>>

NewsRefresh(t) ==
  /\ thread[t].pc = "news" /\ news <= clock /\ newsLock = {}
  /\ newsLock' = {t} /\ Goto(t, "fetch")
  /\ UNCHANGED <<setting, clock, price, stamps, cached, news, decisions, tooSoon,
                 crowded, asked>>

(* No feed is as good as an empty one: nothing is cached just as long.       *)
NewsFetched(t) ==
  /\ thread[t].pc = "fetch"
  /\ news' = clock + NewsTtl /\ newsLock' = newsLock \ {t} /\ Goto(t, After(t))
  /\ UNCHANGED <<setting, clock, price, stamps, cached, decisions, tooSoon, crowded, asked>>

(* analyze_event: only an anonymous reader gets the cached analysis, of the  *)
(* price the market then had.                                                *)
CacheHit(t) ==
  /\ thread[t].pc = "cache" /\ thread[t].who = Anonymous
  /\ cached.price = thread[t].price /\ cached.until > clock
  /\ Show(t, cached.answer)
  /\ UNCHANGED <<setting, clock, price, stamps, cached, news, newsLock, decisions,
                 tooSoon, crowded, asked>>

CacheMiss(t) ==
  /\ thread[t].pc = "cache"
  /\ ~ (thread[t].who = Anonymous /\ cached.price = thread[t].price /\ cached.until > clock)
  /\ thread' = [thread EXCEPT ![t].pc = "limit", ![t].op = "analyze"]
  /\ UNCHANGED <<setting, clock, price, stamps, cached, news, newsLock, decisions,
                 tooSoon, crowded, asked>>

-----------------------------------------------------------------------------
(* Mutant: half a limit is waited for.                                       *)
WakesEarly(last) == IF last > 0 /\ clock - last < Limit THEN clock + 1 ELSE clock

(* _check_rate_limit: how long to sleep, from the last call as read now.     *)
Wakes(last) == IF last > 0 /\ clock - last < Limit THEN last + Limit ELSE clock

LimitRead(t) ==
  LET who == thread[t].who IN
  /\ thread[t].pc = "limit"
  /\ thread' = [thread EXCEPT ![t].pc = "asleep", ![t].wake = Wakes(stamps[who])]
  /\ crowded' = IF \E s \in Askers \ {t} : thread[s].pc = "asleep" /\ thread[s].who = who
                  THEN crowded \cup {who} ELSE crowded
  /\ UNCHANGED <<setting, clock, price, stamps, cached, news, newsLock, decisions, tooSoon, asked>>

(* ... and the call is stamped after the sleep, without looking again.       *)
LimitStamp(t) ==
  LET who == thread[t].who IN
  /\ thread[t].pc = "asleep" /\ clock >= thread[t].wake
  /\ stamps' = [stamps EXCEPT ![who] = clock]
  /\ tooSoon' = IF stamps[who] > 0 /\ clock - stamps[who] < Limit
                  THEN tooSoon \cup {who} ELSE tooSoon
  /\ thread' = [thread EXCEPT ![t].wake = 0, ![t].pc =
       CASE thread[t].op = "chat" -> "news" [] thread[t].op = "lens" -> "lens"
         [] thread[t].op = "talk" -> "talk" [] OTHER -> "model"]
  /\ UNCHANGED <<setting, clock, price, cached, news, newsLock, decisions, crowded, asked>>

(* chat: most intents are answered from the database.                        *)
Talk(t) ==
  /\ thread[t].pc = "talk"
  /\ Goto(t, "model") \/ Show(t, "record")
  /\ UNCHANGED <<setting, clock, price, stamps, cached, news, newsLock, decisions,
                 tooSoon, crowded, asked>>

(* lens_chat reads book and headlines, and asks for JSON or for a search.    *)
Lens(t) ==
  /\ thread[t].pc = "lens" /\ Goto(t, "news")
  /\ UNCHANGED <<setting, clock, price, stamps, cached, news, newsLock, decisions,
                 tooSoon, crowded, asked>>

Modes(op) == CASE op = "analyze" -> {"json"} [] op = "lens" -> {"json", "search"}
               [] OTHER -> {"plain"}

(* The first provider is asked.                                              *)
CallFirst(t) ==
  /\ thread[t].pc = "model"
  /\ \E m \in Modes(thread[t].op) :
       thread' = [thread EXCEPT ![t].pc = "ask", ![t].at = 1, ![t].want = m, ![t].mode = m]
  /\ UNCHANGED <<setting, clock, price, stamps, cached, news, newsLock, decisions,
                 tooSoon, crowded, asked>>

Written(t, answer) ==
  [thread EXCEPT ![t].pc = "write", ![t].at = 0, ![t].want = "none", ![t].mode = "none",
                 ![t].shown = answer]

(* The provider at hand replies: an answer, the same one again, or the next. *)
Reply(t) ==
  LET at == thread[t].at
      next(reply) == Retry(Chain(setting)[at], thread[t].mode, reply)
  IN
  /\ thread[t].pc = "ask" /\ at <= Len(Chain(setting))
  /\ \E reply \in Replies :
       thread' =
         CASE reply = "ok"   -> Written(t, "model")
           [] reply = "bare" -> Written(t, "bare")
           [] reply \notin {"ok", "bare"} /\ next(reply) # "raise" ->
                [thread EXCEPT ![t].mode = next(reply)]
           [] OTHER -> [thread EXCEPT ![t].at = at + 1, ![t].mode = thread[t].want]
  /\ UNCHANGED <<setting, clock, price, stamps, cached, news, newsLock, decisions,
                 tooSoon, crowded, asked>>

NobodyReplied(t) ==
  /\ thread[t].pc = "ask" /\ thread[t].at > Len(Chain(setting))
  /\ thread' = Written(t, Unanswered(setting))
  /\ UNCHANGED <<setting, clock, price, stamps, cached, news, newsLock, decisions,
                 tooSoon, crowded, asked>>

(* A user's analysis is recorded, an anonymous one cached, an outage's too.  *)
WriteAnswer(t) ==
  LET who == thread[t].who
      analysis == thread[t].op = "analyze" IN
  /\ thread[t].pc = "write"
  /\ cached' = IF analysis /\ who = Anonymous
                 THEN [price |-> thread[t].price, until |-> clock + Ttl,
                       answer |-> thread[t].shown]
                 ELSE cached
  /\ decisions' = IF analysis /\ who # Anonymous THEN decisions \cup {who} ELSE decisions
  /\ Show(t, thread[t].shown)
  /\ UNCHANGED <<setting, clock, price, stamps, news, newsLock, tooSoon, crowded, asked>>

Return(t) ==
  /\ thread[t].pc = "shown" /\ thread' = [thread EXCEPT ![t] = NoQuestion]
  /\ UNCHANGED <<setting, clock, price, stamps, cached, news, newsLock, decisions,
                 tooSoon, crowded, asked>>

AnswerInit ==
  /\ setting \in Settings /\ clock = 1 /\ price = 1
  /\ stamps = [w \in Who |-> 0]
  /\ cached = NoEntry /\ news = 0 /\ newsLock = {}
  /\ thread = [t \in Askers |-> NoQuestion] /\ asked = 0
  /\ decisions = {} /\ tooSoon = {} /\ crowded = {}

Step(t) ==
  \/ \E who \in Who, op \in Ops : Ask(t, who, op)
  \/ NewsCached(t) \/ NewsRefresh(t) \/ NewsFetched(t) \/ CacheHit(t) \/ CacheMiss(t)
  \/ LimitRead(t) \/ LimitStamp(t) \/ Talk(t) \/ Lens(t)
  \/ CallFirst(t) \/ Reply(t) \/ NobodyReplied(t) \/ WriteAnswer(t) \/ Return(t)

AnswerNext == Tick \/ PriceMoves \/ \E t \in Askers : Step(t)

AnswerSpec == AnswerInit /\ [][AnswerNext]_answers

-----------------------------------------------------------------------------
(* One user's calls are RATE_LIMIT_SECONDS apart, unless two threads slept   *)
(* on the same stamp.                                                        *)
CallsSpaced == tooSoon \subseteq crowded
==============================================================================
