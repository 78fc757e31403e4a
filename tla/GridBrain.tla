----------------------------- MODULE GridBrain -----------------------------
(***************************************************************************)
(* The Brain of the simulated grid bot for one symbol: three layers of     *)
(* signals merged into a directive that is cached, and a circuit breaker   *)
(* that is consulted first on every call.  Time is counted in calls.       *)
(* Multipliers and confidences are per cent, offsets hundredths of a per   *)
(* cent.                                                                   *)
(***************************************************************************)
EXTENDS Integers, FiniteSets

CONSTANTS
    BrainPrices,   \* prices the grid bot may pass
    Volatilities, Bands, Moods,   \* classes of readings that may occur
    DropLimit,     \* drop_threshold_pct
    Cooldown,      \* cooldown_sec, in calls
    Refresh        \* _refresh_interval, in calls

VARIABLES
    breaker,    \* CircuitBreakerState
    cache,      \* the cached directive and its age
    fearGreed,  \* SentimentProvider's cached index, "none" before the first
    answer      \* the directive handed out last, and the price it was asked for

brainVars == <<breaker, cache, fearGreed, answer>>

Default == [wide |-> 100, offset |-> 0, pauseBuys |-> FALSE, pauseSells |-> FALSE]
Signal(wide, offset, pauseBuys, pauseSells, confidence) ==
    [wide |-> wide, offset |-> offset, pauseBuys |-> pauseBuys,
     pauseSells |-> pauseSells, confidence |-> confidence]
NoSignal == Signal(100, 0, FALSE, FALSE, 0)

Emergency == [wide |-> 200, offset |-> -100, pauseBuys |-> TRUE, pauseSells |-> FALSE]

BrainTypeOK ==
    /\ breaker.last \in {0} \cup BrainPrices
    /\ breaker.age \in -1 .. Cooldown - 1
    /\ cache.age \in -1 .. Refresh + 1
    /\ fearGreed \in Moods \cup {"none"}
    /\ {answer.directive, cache.directive} \subseteq
         [wide : 70 .. 200, offset : -100 .. 50, pauseBuys : BOOLEAN, pauseSells : BOOLEAN]

BrainInit ==
    /\ breaker = [last |-> 0, age |-> -1]
    /\ cache = [directive |-> Default, age |-> -1]
    /\ fearGreed = "none"
    /\ answer = [directive |-> Default, price |-> 0]

-----------------------------------------------------------------------------
(***************************************************************************)
(* The layers.                                                             *)
(***************************************************************************)
\* Volatility widens, RSI pauses, the Bollinger position overrides the offset.
Technical(volatility, rsi, band) ==
    Signal(CASE volatility = "low" -> 70 [] volatility = "normal" -> 100
             [] volatility = "high" -> 150 [] volatility = "extreme" -> 200,
           CASE band = "upper" -> -30 [] band = "lower" -> 30
             [] band = "middle" -> IF rsi = "overbought" THEN -50
                                   ELSE IF rsi = "oversold" THEN 50 ELSE 0,
           rsi = "overbought", rsi = "oversold", 100)

TechnicalSignals ==
    {NoSignal} \cup
    {Technical(v, r, b) : v \in Volatilities, b \in Bands,
                          r \in {"overbought", "oversold", "between"}}

\* Pairs without a perpetual market, and failed requests, give no signal.
FundingSignals ==
    {NoSignal,
     Signal(100, -30, FALSE, TRUE, 55), Signal(85, -15, FALSE, FALSE, 40),
     Signal(100, 30, TRUE, FALSE, 55), Signal(85, 15, FALSE, FALSE, 40),
     Signal(100, 0, FALSE, FALSE, 10)}

Sentiment(mood) ==
    CASE mood = "extremeFear" -> Signal(150, -30, TRUE, FALSE, 85)
      [] mood = "fear" -> Signal(120, -10, FALSE, FALSE, 60)
      [] mood = "neutral" -> Signal(100, 0, FALSE, FALSE, 30)
      [] mood = "greed" -> Signal(90, 10, FALSE, FALSE, 60)
      [] mood = "extremeGreed" -> Signal(85, 30, FALSE, TRUE, 85)
      [] mood = "none" -> NoSignal

\* _aggregate: averages weighted by confidence from 10 % on, a pause of any
\* layer.
Weight(s) == IF s.confidence >= 10 THEN s.confidence ELSE 0

Aggregate(t, f, s) ==
    LET total == Weight(t) + Weight(f) + Weight(s)
        mean(x, y, z) == (x * Weight(t) + y * Weight(f) + z * Weight(s)) \div total
    IN  [wide |-> IF total = 0 THEN 100 ELSE mean(t.wide, f.wide, s.wide),
         offset |-> IF total = 0 THEN 0 ELSE mean(t.offset, f.offset, s.offset),
         pauseBuys |-> t.pauseBuys \/ f.pauseBuys \/ s.pauseBuys,
         pauseSells |-> t.pauseSells \/ f.pauseSells \/ s.pauseSells]

-----------------------------------------------------------------------------
(***************************************************************************)
(* get_directive: the breaker, then the cache, then a refresh.             *)
(***************************************************************************)
Drops(from, to) == from > 0 /\ 100 * (from - to) > DropLimit * from

\* update_price: cooling down it stays open; else a drop between two calls
\* opens it.
Updated(price) ==
    IF breaker.age \in 0 .. Cooldown - 2
    THEN [last |-> price, age |-> breaker.age + 1]
    ELSE [last |-> price, age |-> IF Drops(breaker.last, price) THEN 0 ELSE -1]

Older == IF cache.age \in {-1, Refresh + 1} THEN cache.age ELSE cache.age + 1
\* Fault: the cached directive is answered before the breaker is asked.
AskWhileOpenCached(price) ==
    /\ Updated(price).age >= 0
    /\ breaker' = Updated(price)
    /\ cache' = [cache EXCEPT !.age = Older]
    /\ answer' = [directive |-> cache.directive, price |-> price]
    /\ UNCHANGED fearGreed

AskWhileOpen(price) ==
    /\ Updated(price).age >= 0
    /\ breaker' = Updated(price)
    /\ cache' = [cache EXCEPT !.age = Older]
    /\ answer' = [directive |-> Emergency, price |-> price]
    /\ UNCHANGED fearGreed

AskCached(price) ==
    /\ Updated(price).age = -1
    /\ Older \in 0 .. Refresh
    /\ breaker' = Updated(price)
    /\ cache' = [cache EXCEPT !.age = Older]
    /\ answer' = [directive |-> cache.directive, price |-> price]
    /\ UNCHANGED fearGreed

\* A failing index keeps the value cached before; a refresh that raises keeps
\* the directive, and counts as a refresh.
AskAfresh(price) ==
    /\ Updated(price).age = -1
    /\ Older \notin 0 .. Refresh
    /\ breaker' = Updated(price)
    /\ fearGreed' \in Moods \cup {fearGreed}
    /\ cache' \in {[cache EXCEPT !.age = 0]} \cup
         {[directive |-> Aggregate(t, f, Sentiment(fearGreed')), age |-> 0] :
             t \in TechnicalSignals, f \in FundingSignals}
    /\ answer' = [directive |-> cache'.directive, price |-> price]

BrainNext ==
    \E p \in BrainPrices : AskWhileOpen(p) \/ AskCached(p) \/ AskAfresh(p)

BrainSpec == BrainInit /\ [][BrainNext]_brainVars

-----------------------------------------------------------------------------
\* Between a crash and the end of the cooldown no directive lets the grid bot
\* buy, whatever the cached one says ("halting buys for ... cooldown"), and
\* after it the directive is the cached one again.
CrashHaltsBuys ==
    /\ breaker.age >= 0 => answer.directive.pauseBuys
    /\ breaker.age = -1 => answer.directive \in {cache.directive, Default}

\* A crash is never missed: two successive prices the Brain was asked about
\* that lie further apart than the limit open the breaker or find it open.
CrashSeen == [][Drops(answer.price, answer'.price) => breaker'.age >= 0]_brainVars
=============================================================================
