--------------------------- MODULE Decisions_proofs ---------------------------
(***************************************************************************)
(* Proofs about what the strategy service decides on: the directives of    *)
(* the Brain, the verdicts in the signal log, the evidence a paper fill    *)
(* rests on, the signals the strategy acts on; and about which exchange    *)
(* the backend's orders go to.                                             *)
(***************************************************************************)
EXTENDS ExchangeProvider, GridBrain, SignalLog, RiskToFill, SignalPipeline, TLAPS

(***************************************************************************)
(* The Brain.                                                              *)
(***************************************************************************)
\* The readings the providers tell apart, and what the configuration may hold.
BrainConstants ==
    /\ BrainPrices \subseteq Nat
    /\ Volatilities \subseteq {"low", "normal", "high", "extreme"}
    /\ Bands \subseteq {"upper", "lower", "middle"}
    /\ Moods \subseteq {"extremeFear", "fear", "neutral", "greed", "extremeGreed"}
    /\ DropLimit \in Nat
    /\ Cooldown \in Nat \ {0}
    /\ Refresh \in Nat

DirectiveSet ==
    [wide : 70 .. 200, offset : -100 .. 50, pauseBuys : BOOLEAN, pauseSells : BOOLEAN]

\* What a layer may say: its values lie within the limits of a directive.
SignalSet ==
    [wide : 70 .. 200, offset : -100 .. 50, pauseBuys : BOOLEAN, pauseSells : BOOLEAN,
     confidence : 0 .. 100]

(***************************************************************************)
(* The inductive invariant.                                                *)
(***************************************************************************)
BrainShape ==
    /\ breaker \in [last : {0} \cup BrainPrices, age : -1 .. Cooldown - 1]
    /\ cache \in [directive : DirectiveSet, age : -1 .. Refresh + 1]
    /\ fearGreed \in Moods \cup {"none"}
    /\ answer \in [directive : DirectiveSet, price : {0} \cup BrainPrices]

BrainInv ==
    /\ BrainShape
    /\ breaker.last = answer.price
    /\ CrashHaltsBuys

(***************************************************************************)
(* A weighted mean stays between the least and the largest of its values.  *)
(***************************************************************************)
LEMMA Scaled ==
  ASSUME NEW a \in Int, NEW b \in Int, NEW w \in Nat, a <= b
  PROVE  a * w <= b * w
  <1>1. PICK k \in Nat : b = a + k
    OBVIOUS
  <1>2. k * w >= 0
    OBVIOUS
  <1>3. b * w = a * w + k * w
    BY <1>1
  <1> QED
    BY <1>2, <1>3

LEMMA QuotientBounds ==
  ASSUME NEW n \in Int, NEW d \in Nat \ {0}, NEW lo \in Int, NEW hi \in Int,
         lo * d <= n, n <= hi * d
  PROVE  n \div d \in lo .. hi
  OBVIOUS

LEMMA MeanBounds ==
  ASSUME NEW lo \in Int, NEW hi \in Int,
         NEW x \in lo .. hi, NEW y \in lo .. hi, NEW z \in lo .. hi,
         NEW u \in Nat, NEW v \in Nat, NEW w \in Nat, u + v + w # 0
  PROVE  (x * u + y * v + z * w) \div (u + v + w) \in lo .. hi
  <1>1. lo * u <= x * u /\ lo * v <= y * v /\ lo * w <= z * w
    BY Scaled
  <1>2. x * u <= hi * u /\ y * v <= hi * v /\ z * w <= hi * w
    BY Scaled
  <1>3. lo * (u + v + w) = lo * u + lo * v + lo * w
    OBVIOUS
  <1>4. hi * (u + v + w) = hi * u + hi * v + hi * w
    OBVIOUS
  <1>5. /\ x * u \in Int /\ y * v \in Int /\ z * w \in Int
        /\ lo * u \in Int /\ lo * v \in Int /\ lo * w \in Int
        /\ hi * u \in Int /\ hi * v \in Int /\ hi * w \in Int
    OBVIOUS
  <1> DEFINE n == x * u + y * v + z * w
             d == u + v + w
  <1>6. n \in Int /\ d \in Nat \ {0} /\ lo * d <= n /\ n <= hi * d
    BY <1>1, <1>2, <1>3, <1>4, <1>5
  <1> HIDE DEF n, d
  <1>7. n \div d \in lo .. hi
    BY <1>6, QuotientBounds
  <1> QED
    BY <1>7 DEF n, d

(***************************************************************************)
(* The layers speak within the limits, and so does their merge.            *)
(***************************************************************************)
LEMMA TechnicalLimits ==
  ASSUME BrainConstants
  PROVE  TechnicalSignals \subseteq SignalSet
  <1>1. NoSignal \in SignalSet
    BY DEF NoSignal, Signal, SignalSet
  <1>2. ASSUME NEW volatility \in Volatilities, NEW rsi, NEW band \in Bands
        PROVE  Technical(volatility, rsi, band) \in SignalSet
    <2> DEFINE wide == CASE volatility = "low" -> 70 [] volatility = "normal" -> 100
                         [] volatility = "high" -> 150 [] volatility = "extreme" -> 200
               offset == CASE band = "upper" -> -30 [] band = "lower" -> 30
                           [] band = "middle" -> IF rsi = "overbought" THEN -50
                                                 ELSE IF rsi = "oversold" THEN 50 ELSE 0
    <2>1. wide \in 70 .. 200
      BY DEF BrainConstants
    <2>2. offset \in -100 .. 50
      BY DEF BrainConstants
    <2>3. Technical(volatility, rsi, band) =
            [wide |-> wide, offset |-> offset, pauseBuys |-> rsi = "overbought",
             pauseSells |-> rsi = "oversold", confidence |-> 100]
      BY DEF Technical, Signal
    <2> HIDE DEF wide, offset
    <2> QED
      BY <2>1, <2>2, <2>3 DEF SignalSet
  <1> QED
    BY <1>1, <1>2 DEF TechnicalSignals

LEMMA FundingLimits == FundingSignals \subseteq SignalSet
  BY DEF FundingSignals, NoSignal, Signal, SignalSet

LEMMA SentimentLimits ==
  ASSUME BrainConstants, NEW mood \in Moods \cup {"none"}
  PROVE  Sentiment(mood) \in SignalSet
  BY DEF BrainConstants, Sentiment, NoSignal, Signal, SignalSet

LEMMA AggregateLimits ==
  ASSUME NEW t \in SignalSet, NEW f \in SignalSet, NEW s \in SignalSet
  PROVE  Aggregate(t, f, s) \in DirectiveSet
  <1>1. Weight(t) \in Nat /\ Weight(f) \in Nat /\ Weight(s) \in Nat
    BY DEF Weight, SignalSet
  <1>2. /\ t.wide \in 70 .. 200 /\ f.wide \in 70 .. 200 /\ s.wide \in 70 .. 200
        /\ t.offset \in -100 .. 50 /\ f.offset \in -100 .. 50 /\ s.offset \in -100 .. 50
        /\ {t.pauseBuys, f.pauseBuys, s.pauseBuys} \subseteq BOOLEAN
        /\ {t.pauseSells, f.pauseSells, s.pauseSells} \subseteq BOOLEAN
    BY DEF SignalSet
  <1> DEFINE total == Weight(t) + Weight(f) + Weight(s)
             wide == (t.wide * Weight(t) + f.wide * Weight(f) + s.wide * Weight(s)) \div total
             offset == (t.offset * Weight(t) + f.offset * Weight(f) + s.offset * Weight(s)) \div total
  <1>3. ASSUME total # 0
        PROVE  wide \in 70 .. 200 /\ offset \in -100 .. 50
    <2>1. \A lo, hi \in Int, u, v, w \in Nat : u + v + w # 0 =>
            \A x, y, z \in lo .. hi : (x * u + y * v + z * w) \div (u + v + w) \in lo .. hi
      BY MeanBounds
    <2>2. 70 \in Int /\ 200 \in Int /\ -100 \in Int /\ 50 \in Int
      OBVIOUS
    <2>3. wide \in 70 .. 200
      BY <1>1, <1>2, <1>3, <2>1, <2>2, Zenon
    <2>4. offset \in -100 .. 50
      BY <1>1, <1>2, <1>3, <2>1, <2>2, Zenon
    <2> QED
      BY <2>3, <2>4
  <1>4. Aggregate(t, f, s) =
          [wide |-> IF total = 0 THEN 100 ELSE wide,
           offset |-> IF total = 0 THEN 0 ELSE offset,
           pauseBuys |-> t.pauseBuys \/ f.pauseBuys \/ s.pauseBuys,
           pauseSells |-> t.pauseSells \/ f.pauseSells \/ s.pauseSells]
    BY DEF Aggregate
  <1> HIDE DEF total, wide, offset
  <1>5. (IF total = 0 THEN 100 ELSE wide) \in 70 .. 200
    BY <1>3
  <1>6. (IF total = 0 THEN 0 ELSE offset) \in -100 .. 50
    BY <1>3
  <1> QED
    BY <1>2, <1>4, <1>5, <1>6 DEF DirectiveSet

(***************************************************************************)
(* The breaker.                                                            *)
(***************************************************************************)
LEMMA UpdatedType ==
  ASSUME BrainConstants, BrainShape, NEW price \in BrainPrices
  PROVE  /\ Updated(price) \in [last : {0} \cup BrainPrices, age : -1 .. Cooldown - 1]
         /\ Updated(price).last = price
  BY DEF BrainConstants, BrainShape, Updated

\* A drop opens the breaker, unless it is open.
LEMMA UpdatedOpens ==
  ASSUME BrainConstants, BrainShape, NEW price \in BrainPrices, Drops(breaker.last, price)
  PROVE  Updated(price).age >= 0
  BY DEF BrainConstants, BrainShape, Updated

LEMMA OlderType ==
  ASSUME BrainConstants, BrainShape
  PROVE  Older \in -1 .. Refresh + 1
  BY DEF BrainConstants, BrainShape, Older

(***************************************************************************)
(* One step of each kind.                                                  *)
(***************************************************************************)
LEMMA InitStep ==
  ASSUME BrainConstants, BrainInit
  PROVE  BrainInv
  BY DEF BrainConstants, BrainInit, BrainInv, BrainShape, CrashHaltsBuys, Default, DirectiveSet

LEMMA WhileOpenStep ==
  ASSUME BrainConstants, BrainInv, NEW p \in BrainPrices, AskWhileOpen(p)
  PROVE  BrainInv' /\ breaker'.age >= 0
  <1>1. BrainShape
    BY DEF BrainInv
  <1>2. Emergency \in DirectiveSet /\ Emergency.pauseBuys
    BY DEF Emergency, DirectiveSet
  <1>3. BrainShape'
    BY <1>1, <1>2, UpdatedType, OlderType DEF AskWhileOpen, BrainShape
  <1>4. breaker'.last = answer'.price
    BY <1>1, UpdatedType DEF AskWhileOpen
  <1>5. breaker'.age >= 0 /\ breaker'.age # -1 /\ answer'.directive.pauseBuys
    BY <1>1, <1>2, UpdatedType DEF AskWhileOpen, BrainConstants
  <1> QED
    BY <1>3, <1>4, <1>5 DEF BrainInv, CrashHaltsBuys

LEMMA CachedStep ==
  ASSUME BrainConstants, BrainInv, NEW p \in BrainPrices, AskCached(p)
  PROVE  BrainInv' /\ Updated(p).age = -1
  <1>1. BrainShape
    BY DEF BrainInv
  <1>2. cache'.directive = cache.directive
    BY <1>1 DEF AskCached, BrainShape
  <1>3. BrainShape'
    BY <1>1, UpdatedType, OlderType DEF AskCached, BrainShape
  <1>4. breaker'.last = answer'.price
    BY <1>1, UpdatedType DEF AskCached
  <1>5. breaker'.age = -1 /\ answer'.directive = cache'.directive
    BY <1>2 DEF AskCached
  <1> QED
    BY <1>3, <1>4, <1>5 DEF BrainInv, CrashHaltsBuys, AskCached

LEMMA AfreshStep ==
  ASSUME BrainConstants, BrainInv, NEW p \in BrainPrices, AskAfresh(p)
  PROVE  BrainInv' /\ Updated(p).age = -1
  <1>1. BrainShape
    BY DEF BrainInv
  <1>2. fearGreed' \in Moods \cup {"none"}
    BY <1>1 DEF AskAfresh, BrainShape
  <1>3. cache' \in [directive : DirectiveSet, age : -1 .. Refresh + 1]
    <2>1. 0 \in -1 .. Refresh + 1
      BY DEF BrainConstants
    <2>2. CASE cache' = [cache EXCEPT !.age = 0]
      BY <1>1, <2>1, <2>2 DEF BrainShape
    <2>3. ASSUME NEW t \in TechnicalSignals, NEW f \in FundingSignals,
                 cache' = [directive |-> Aggregate(t, f, Sentiment(fearGreed')), age |-> 0]
          PROVE  cache' \in [directive : DirectiveSet, age : -1 .. Refresh + 1]
      <3>1. Aggregate(t, f, Sentiment(fearGreed')) \in DirectiveSet
        BY <1>2, TechnicalLimits, FundingLimits, SentimentLimits, AggregateLimits
      <3> QED
        BY <2>1, <2>3, <3>1
    <2> QED
      BY <2>2, <2>3 DEF AskAfresh
  <1>4. BrainShape'
    BY <1>1, <1>2, <1>3, UpdatedType DEF AskAfresh, BrainShape
  <1>5. breaker'.last = answer'.price
    BY <1>1, UpdatedType DEF AskAfresh
  <1>6. breaker'.age = -1 /\ answer'.directive = cache'.directive
    BY DEF AskAfresh
  <1> QED
    BY <1>4, <1>5, <1>6 DEF BrainInv, CrashHaltsBuys, AskAfresh

LEMMA InvStep ==
  ASSUME BrainConstants, BrainInv, [BrainNext]_brainVars
  PROVE  BrainInv'
  <1>1. CASE UNCHANGED brainVars
    BY <1>1 DEF brainVars, BrainInv, BrainShape, CrashHaltsBuys
  <1>2. CASE BrainNext
    BY <1>2, WhileOpenStep, CachedStep, AfreshStep DEF BrainNext
  <1> QED
    BY <1>1, <1>2

LEMMA SeenStep ==
  ASSUME BrainConstants, BrainInv, BrainNext
  PROVE  Drops(answer.price, answer'.price) => breaker'.age >= 0
  <1> SUFFICES ASSUME NEW p \in BrainPrices, Drops(answer.price, answer'.price),
                      AskWhileOpen(p) \/ AskCached(p) \/ AskAfresh(p)
               PROVE  breaker'.age >= 0
    BY DEF BrainNext
  <1>1. answer'.price = p
    BY DEF AskWhileOpen, AskCached, AskAfresh
  <1>2. Updated(p).age >= 0
    BY <1>1, UpdatedOpens DEF BrainInv
  <1> QED
    BY <1>2 DEF AskWhileOpen, AskCached, AskAfresh

-----------------------------------------------------------------------------
LEMMA InvHolds == ASSUME BrainConstants PROVE BrainSpec => []BrainInv
  <1>1. BrainInit => BrainInv
    BY InitStep
  <1>2. BrainInv /\ [BrainNext]_brainVars => BrainInv'
    BY InvStep
  <1> QED
    BY <1>1, <1>2, PTL DEF BrainSpec

\* get_directive: whatever the layers read, the directive of the Brain widens
\* the grid by a factor from 0.7 to 2 and moves it by at most one per cent, and
\* the breaker never cools down longer than configured.
THEOREM DirectivesBounded == ASSUME BrainConstants PROVE BrainSpec => []BrainTypeOK
  <1>1. BrainInv => BrainTypeOK
    BY DEF BrainInv, BrainShape, BrainTypeOK, DirectiveSet
  <1> QED
    BY <1>1, InvHolds, PTL

\* get_directive: from a crash to the end of the cooldown no answer lets the
\* grid bot buy, and afterwards the answer is the cached directive.
THEOREM CrashHaltsBuysHolds == ASSUME BrainConstants PROVE BrainSpec => []CrashHaltsBuys
  <1>1. BrainInv => CrashHaltsBuys
    BY DEF BrainInv
  <1> QED
    BY <1>1, InvHolds, PTL

\* update_price: no crash between two calls is missed, also when the call after
\* it is the one that ends a cooldown or finds the cache fresh.
THEOREM CrashSeenHolds == ASSUME BrainConstants PROVE BrainSpec => CrashSeen
  <1>1. BrainInv /\ [BrainNext]_brainVars =>
          [Drops(answer.price, answer'.price) => breaker'.age >= 0]_brainVars
    BY SeenStep
  <1> QED
    BY <1>1, InvHolds, PTL DEF BrainSpec, CrashSeen

-----------------------------------------------------------------------------
(***************************************************************************)
(* The signal log, for any number of tasks, signals and days: whichever    *)
(* task writes over whichever, and whatever a failed read or write loses,  *)
(* no verdict in the log was given before it was due.                      *)
(***************************************************************************)
\* An entry, with the fields log_signal gives it.
Entry(s) == s = [born |-> s.born, price |-> s.price, kind |-> s.kind,
                 day1 |-> s.day1, week1 |-> s.week1]

\* What is known on a day of an entry: its verdicts came in their order, each
\* not before its horizon and not after that day.
Earned(s, on) ==
    /\ Entry(s)
    /\ s.born \in Int /\ s.born <= on
    /\ s.day1 # Unjudged => /\ s.day1.on \in Int
                            /\ s.day1.on >= s.born + 1 /\ s.day1.on <= on
    /\ s.week1 # Unjudged => /\ s.week1.on \in Int
                             /\ s.week1.on >= s.born + 7 /\ s.week1.on <= on
                             /\ s.day1 # Unjudged /\ s.day1.on <= s.week1.on

LogEarned(data, on) == \A id \in DOMAIN data : Earned(data[id], on)

\* The logs the tasks hold are as sound as the saved one: any of them may be
\* the next to be saved.
Logs ==
    /\ day \in Int /\ day >= 0
    /\ LogEarned(signalLog, day)
    /\ DOMAIN loaded = LogTasks
    /\ \A t \in LogTasks : loaded[t] # Idle => LogEarned(loaded[t].data, day)

-----------------------------------------------------------------------------
LEMMA EarnedLater ==
    ASSUME NEW data, NEW on \in Int, NEW later \in Int, on <= later, LogEarned(data, on)
    PROVE  LogEarned(data, later)
  BY DEF LogEarned, Earned

LEMMA EmptyEarned == ASSUME NEW on PROVE LogEarned(<<>>, on)
  BY DEF LogEarned

\* _load_log: the saved log, or none.
LEMMA LoadsEarned ==
    ASSUME Logs, NEW data \in Loads
    PROVE  LogEarned(data, day)
  BY EmptyEarned DEF Loads, Logs

\* _save_log leaves entries out and changes none.
LEMMA TrimmedEarned ==
    ASSUME NEW data, NEW on, LogEarned(data, on), NEW kept \in Trimmed(data)
    PROVE  LogEarned(kept, on)
  <1>1. PICK newest \in SUBSET DOMAIN data : kept = Restrict(data, newest)
    BY DEF Trimmed
  <1> QED
    BY <1>1 DEF LogEarned, Restrict

\* A first verdict is no younger than its horizon, and one of a week finds or
\* brings the one of a day with it.
LEMMA EvaluatedEarned ==
    ASSUME NEW s, NEW price, day \in Int, day >= 0, Earned(s, day)
    PROVE  Earned(Evaluated(s, price), day)
  <1> DEFINE v == Verdict(s, price)
             one == IF Ripe(s, 1) /\ s.day1 = Unjudged THEN v ELSE s.day1
             seven == IF Ripe(s, 7) /\ s.week1 = Unjudged THEN v ELSE s.week1
  <1>1. CASE s.price <= 0 \/ price <= 0
    BY <1>1 DEF Evaluated
  <1>2. CASE ~(s.price <= 0 \/ price <= 0)
    <2>1. Evaluated(s, price) = [born |-> s.born, price |-> s.price, kind |-> s.kind,
                                 day1 |-> one, week1 |-> seven]
      BY <1>2 DEF Evaluated, Earned, Entry
    <2>2. v.on = day /\ v # Unjudged
      BY DEF Verdict, Unjudged
    <2>3. one # Unjudged => one.on \in Int /\ one.on >= s.born + 1 /\ one.on <= day
      BY <2>2 DEF Earned, Ripe
    <2>4. seven # Unjudged => /\ seven.on \in Int /\ seven.on >= s.born + 7
                              /\ seven.on <= day
                              /\ one # Unjudged /\ one.on <= seven.on
      BY <2>2, <2>3 DEF Earned, Ripe
    <2> HIDE DEF one, seven, v
    <2> QED
      BY <2>1, <2>3, <2>4 DEF Earned, Entry
  <1> QED
    BY <1>1, <1>2

-----------------------------------------------------------------------------
\* A task that puts down a sound log leaves all of them sound.
LEMMA LoadedStep ==
    ASSUME Logs, UNCHANGED <<day, signalLog>>, NEW t \in LogTasks, NEW held,
           held # Idle => LogEarned(held.data, day),
           loaded' = [loaded EXCEPT ![t] = held]
    PROVE  Logs'
  BY DEF Logs

LEMMA LogSignalStep ==
    ASSUME Logs, NEW t \in LogTasks, NEW id, NEW price, NEW kind, LogSignal(t, id, price, kind)
    PROVE  Logs'
  <1>1. PICK data \in Loads :
           loaded' = [loaded EXCEPT ![t] =
             [what |-> "save",
              data |-> [x \in DOMAIN data \cup {id} |->
                          IF x = id THEN [born |-> day, price |-> price, kind |-> kind,
                                          day1 |-> Unjudged, week1 |-> Unjudged]
                          ELSE data[x]]]]
    BY DEF LogSignal
  <1> DEFINE new == [born |-> day, price |-> price, kind |-> kind,
                     day1 |-> Unjudged, week1 |-> Unjudged]
             longer == [x \in DOMAIN data \cup {id} |-> IF x = id THEN new ELSE data[x]]
             held == [what |-> "save", data |-> longer]
  <1>2. Earned(new, day)
    BY DEF Earned, Entry, Logs
  <1>3. LogEarned(data, day)
    BY LoadsEarned
  <1>4. LogEarned(longer, day)
    <2> HIDE DEF new
    <2> QED
      BY <1>2, <1>3 DEF LogEarned
  <1>5. held.data = longer
    OBVIOUS
  <1>6. UNCHANGED <<day, signalLog>>
    BY DEF LogSignal
  <1>7. loaded' = [loaded EXCEPT ![t] = held]
    BY <1>1
  <1> HIDE DEF held
  <1> QED
    BY <1>4, <1>5, <1>6, <1>7, LoadedStep

LEMMA EvaluateStep ==
    ASSUME Logs, NEW t \in LogTasks, NEW price, EvaluateSignals(t, price)
    PROVE  Logs'
  <1>1. PICK data \in Loads :
           LET judged == [id \in DOMAIN data |-> Evaluated(data[id], price)] IN
           loaded' = [loaded EXCEPT ![t] = IF judged = data THEN Idle
                                           ELSE [what |-> "save", data |-> judged]]
    BY DEF EvaluateSignals
  <1> DEFINE judged == [id \in DOMAIN data |-> Evaluated(data[id], price)]
             held == IF judged = data THEN Idle ELSE [what |-> "save", data |-> judged]
  <1>2. LogEarned(data, day)
    BY LoadsEarned
  <1>3. LogEarned(judged, day)
    BY <1>2, EvaluatedEarned DEF LogEarned, Logs
  <1>4. held # Idle => held.data = judged
    OBVIOUS
  <1>5. UNCHANGED <<day, signalLog>>
    BY DEF EvaluateSignals
  <1>6. loaded' = [loaded EXCEPT ![t] = held]
    BY <1>1
  <1> HIDE DEF held
  <1> QED
    BY <1>3, <1>4, <1>5, <1>6, LoadedStep

LEMMA SaveStep ==
    ASSUME Logs, NEW t \in LogTasks, Save(t)
    PROVE  Logs'
  <1>1. LogEarned(loaded[t].data, day)
    BY DEF Save, Logs
  <1>2. LogEarned(signalLog', day)
    BY <1>1, TrimmedEarned DEF Save, SaveLog, Logs
  <1> QED
    BY <1>2 DEF Save, Logs

LEMMA TomorrowStep ==
    ASSUME Logs, NEW n \in {1, 7}, Tomorrow(n)
    PROVE  Logs'
  <1>1. day' \in Int /\ day' >= 0 /\ day <= day'
    BY DEF Tomorrow, Logs
  <1> QED
    BY <1>1, EarnedLater DEF Tomorrow, Logs

THEOREM LogsHold == LogSpec => []Logs
  <1>1. LogInit => Logs
    BY EmptyEarned DEF LogInit, Logs
  <1>2. Logs /\ [LogNext]_logVars => Logs'
    <2> SUFFICES ASSUME Logs, [LogNext]_logVars PROVE Logs'
      OBVIOUS
    <2>1. ASSUME NEW t \in LogTasks, NEW id \in SignalIds, NEW p \in LogPrices,
                 NEW k \in SignalKinds, LogSignal(t, id, p, k)
          PROVE  Logs'
      BY <2>1, LogSignalStep
    <2>2. ASSUME NEW t \in LogTasks, NEW p \in LogPrices, EvaluateSignals(t, p) PROVE Logs'
      BY <2>2, EvaluateStep
    <2>3. ASSUME NEW t \in LogTasks, Save(t) PROVE Logs'
      BY <2>3, SaveStep
    <2>4. ASSUME NEW n \in {1, 7}, Tomorrow(n) PROVE Logs'
      BY <2>4, TomorrowStep
    <2>5. CASE UNCHANGED logVars
      BY <2>5 DEF logVars, Logs
    <2> QED
      BY <2>1, <2>2, <2>3, <2>4, <2>5 DEF LogNext
  <1> QED
    BY <1>1, <1>2, PTL DEF LogSpec

\* A verdict is in the log only once its horizon has passed, and the weekly one
\* only beside a daily one that is no younger, although tasks save over each
\* other and reads and writes fail (evaluate_signals, _save_log).
THEOREM VerdictsAreEarnedHolds == LogSpec => []VerdictsAreEarned
  <1>1. Logs => VerdictsAreEarned
    BY DEF Logs, LogEarned, Earned, VerdictsAreEarned
  <1> QED
    BY <1>1, LogsHold, PTL

-----------------------------------------------------------------------------
(***************************************************************************)
(* From evidence to a paper fill.                                          *)
(***************************************************************************)
Passes(state) == state \in {"watchlist", "paper_candidate"}

\* What evaluate_risk lets pass is safe by its raw evidence.
LEMMA PassingIsSafe ==
    ASSUME NEW e \in Evidences, Passes(RiskState(e))
    PROVE  SafeEvidence(e)
  <1>1. /\ e.chain \in Supported /\ ~e.invalidated
        /\ Vetoes(e) = {} /\ Missing(e) = {} /\ ~Stale(e)
    BY DEF Passes, RiskState
  <1>2. /\ {e.age, e.liquidity, e.locked, e.holders, e.clustered} \subseteq Int \cup {None}
        /\ e.providers \in Nat /\ EvidenceAge \in Nat /\ ClockSkew \in Nat
    BY RiskData
  <1>3. e.age # None /\ e.age \in -ClockSkew..EvidenceAge
    <2>1. "freshness" \notin Missing(e)
      BY <1>1
    <2>2. e.age # None
      BY <2>1 DEF Missing
    <2>3. ~Outdated(e.age)
      BY <1>1, <2>2 DEF Stale
    <2>4. e.age \in Int
      BY <1>2, <2>2
    <2> QED
      BY <1>2, <2>2, <2>3, <2>4 DEF Outdated
  <1>4. e.providers >= 2 /\ ~e.conflict /\ ~e.incomplete
    <2>1. "confirmation" \notin Missing(e) /\ "reconciliation" \notin Missing(e)
          /\ "availability" \notin Missing(e)
      BY <1>1
    <2>2. ~(e.providers < 2) /\ ~Conflict(e) /\ ~e.incomplete
      BY <2>1 DEF Missing
    <2> QED
      BY <1>2, <2>2 DEF Conflict
  <1>5. e.holders # None => e.clustered # None \/ e.holders < 50
    <2>1. "concentration" \notin Vetoes(e)
      BY <1>1
    <2>2. ~(Concentration(e) # None /\ Concentration(e) >= 50)
      BY <2>1 DEF Vetoes
    <2> QED
      BY <1>2, <2>2 DEF Concentration
  <1>6. /\ e.liquidity # None /\ e.liquidity >= MinLiquidity
        /\ e.locked # None /\ e.locked >= MinLocked
    <2>1. "liquidity" \notin Missing(e) /\ "custody" \notin Missing(e)
          /\ "liquidity" \notin Vetoes(e) /\ "lp_lock" \notin Vetoes(e)
      BY <1>1
    <2>2. e.liquidity # None /\ e.locked # None
      BY <2>1 DEF Missing
    <2>3. ~Below(e.liquidity, MinLiquidity) /\ ~Below(e.locked, MinLocked)
      BY <2>1 DEF Vetoes
    <2> QED
      BY <1>2, <2>2, <2>3 DEF Below, MinLiquidity, MinLocked
  <1>7. e.sellStatus \notin {"failed", "reverted", "blocked", "honeypot"}
    <2>1. "sell_failed" \notin Vetoes(e)
      BY <1>1
    <2> QED
      BY <2>1 DEF Vetoes
  <1>8. e.cluster.severity \notin {"high", "critical"}
    <2>1. "cluster_sell" \notin Vetoes(e)
      BY <1>1
    <2> QED
      BY <2>1 DEF Vetoes, Alerted
  <1>9. \A name \in DOMAIN e.controls : e.controls[name] \notin {"true", "active"}
    <2> SUFFICES ASSUME NEW name \in DOMAIN e.controls, e.controls[name] \in {"true", "active"}
                 PROVE  FALSE
      OBVIOUS
    <2>1. ControlPresent(e.controls[name])
      BY DEF ControlPresent, AsBool
    <2>2. name \in Vetoes(e)
      BY <2>1 DEF Vetoes
    <2> QED
      BY <1>1, <2>2
  <1> QED
    BY <1>1, <1>3, <1>4, <1>5, <1>6, <1>7, <1>8, <1>9 DEF SafeEvidence

\* _effective_slippage_bps rounds up, so a quote within the intent's slippage
\* pays what the intent asks for.
LEMMA WithinSlippage ==
    ASSUME NEW q \in PaperQuotes, NEW limit \in Nat, ~(EffectiveSlippage(q) > limit)
    PROVE  q.simulated * 10000 >= q.expected * (10000 - limit)
  <1> DEFINE exp == q.expected
             sim == q.simulated
             loss == (exp - sim) * 10000
             bps == (loss + exp - 1) \div exp
  <1>1. exp \in Nat /\ exp > 0 /\ sim \in Nat /\ limit \in Int /\ limit >= 0
    BY RiskData
  <1>2. CASE sim >= exp
    <2> HIDE DEF exp, sim
    <2>1. exp * limit >= 0
      BY <1>1
    <2>2. exp * (10000 - limit) = exp * 10000 - exp * limit
      BY <1>1
    <2>3. exp * limit \in Int
      BY <1>1
    <2> DEFINE part == exp * limit
               rest == exp * (10000 - limit)
    <2>4. part >= 0 /\ rest = exp * 10000 - part /\ part \in Int
      BY <2>1, <2>2, <2>3
    <2> HIDE DEF part, rest
    <2>5. sim * 10000 >= rest
      BY <1>1, <1>2, <2>4
    <2> QED
      BY <2>5 DEF exp, sim, rest
  <1>3. CASE ~(sim >= exp)
    <2>1. ~(bps > limit)
      BY <1>3 DEF EffectiveSlippage
    <2>2. loss \in Int
      <3> HIDE DEF exp, sim
      <3> QED
        BY <1>1
    <2> HIDE DEF exp, sim, loss
    <2>3. bps \in Int /\ loss + exp - 1 < exp * bps + exp
      BY <1>1, <2>2
    <2> HIDE DEF bps
    <2>4. exp * bps <= exp * limit
      BY <1>1, <2>1, <2>3
    <2>5. exp * bps \in Int /\ exp * limit \in Int
      BY <1>1, <2>3
    <2>6. loss <= exp * limit
      BY <1>1, <2>2, <2>3, <2>4, <2>5
    <2>7. loss = exp * 10000 - sim * 10000
      BY <1>1 DEF loss
    <2>8. exp * (10000 - limit) = exp * 10000 - exp * limit
      BY <1>1
    <2>9. sim * 10000 >= exp * (10000 - limit)
      BY <1>1, <2>5, <2>6, <2>7, <2>8
    <2> QED
      BY <2>9 DEF exp, sim
  <1> QED
    BY <1>2, <1>3

\* An intent was built from a decision that passed, no later than now.
Founded(i, t) ==
    /\ i.evidence \in Evidences /\ Passes(RiskState(i.evidence))
    /\ i.payload.created \in Nat /\ i.payload.created <= t
    /\ i.payload.expires \in Nat
    /\ i.payload.slippage \in Nat

Filled(f, intents) ==
    /\ \E i \in intents : i.payload = f.payload /\ SafeEvidence(i.evidence)
    /\ f.at \in f.payload.created..f.payload.expires - 1
    /\ f.at \in f.quote.quotedAt..f.quote.expires - 1
    /\ f.quote.simulated * 10000 >= f.quote.expected * (10000 - f.payload.slippage)

Annotated(s) == s # None => \E e \in Evidences : s = [evidence |-> e, decision |-> EvaluateRisk(e)]

RiskInv ==
    /\ moment \in Nat
    /\ Annotated(scanned)
    /\ \A i \in proposed : Founded(i, moment)
    /\ \A f \in fills : Filled(f, proposed)

LEMMA BuildKeepsRisk ==
    ASSUME RiskInv, NEW s \in Slippages, BuildTradeIntent(s)
    PROVE  RiskInv'
  <1>1. PICK p, new :
           /\ p = [state |-> scanned.decision.state, slippage |-> s, tokenIn |-> "usd",
                   tokenOut |-> "token", created |-> moment, expires |-> moment + IntentLife]
           /\ new = [payload |-> p, evidence |-> scanned.evidence]
           /\ proposed' = proposed \cup {new}
           /\ OpportunityAllowed(scanned.decision) /\ Normalizes(p) /\ scanned # None
           /\ UNCHANGED <<moment, scanned, receipts, fills>>
    BY DEF BuildTradeIntent
  <1>2. PICK e \in Evidences : scanned = [evidence |-> e, decision |-> EvaluateRisk(e)]
    BY <1>1 DEF RiskInv, Annotated
  <1>3. new.evidence = e /\ Passes(RiskState(e))
    BY <1>1, <1>2 DEF EvaluateRisk, OpportunityAllowed, Passes
  <1>4. /\ new.payload.created = moment /\ new.payload.expires = moment + IntentLife
        /\ new.payload.slippage = s
    BY <1>1
  <1>5. moment \in Nat /\ moment + IntentLife \in Nat
    BY RiskData DEF RiskInv
  <1>6. s \in Nat
    <2>1. s \in 0 .. 10000
      BY <1>1 DEF Normalizes
    <2> DEFINE most == 10000
    <2>2. s \in 0 .. most /\ most \in Nat
      BY <2>1
    <2> HIDE DEF most
    <2> QED
      BY <2>2
  <1>7. Founded(new, moment)
    BY <1>3, <1>4, <1>5, <1>6 DEF Founded
  <1>8. \A i \in proposed' : Founded(i, moment)
    BY <1>1, <1>7 DEF RiskInv
  <1>9. \A f \in fills : Filled(f, proposed')
    BY <1>1 DEF RiskInv, Filled
  <1> QED
    BY <1>1, <1>8, <1>9 DEF RiskInv

LEMMA SimulateKeepsRisk ==
    ASSUME RiskInv, NEW w \in Wire, NEW q \in PaperQuotes, Simulate(w, q)
    PROVE  RiskInv'
  <1>1. PICK i \in proposed : w.payload = i.payload
    BY DEF Wire
  <1>2. UNCHANGED <<moment, scanned, proposed>>
    BY DEF Simulate
  <1>3. PICK new : /\ new = [payload |-> w.payload, quote |-> q, at |-> moment]
                   /\ fills' = IF FailureCode(w.payload, q) = None THEN fills \cup {new} ELSE fills
    BY DEF Simulate
  <1>4. ASSUME FailureCode(w.payload, q) = None PROVE Filled(new, proposed)
    <2>1. /\ ~(moment >= w.payload.expires) /\ ~(moment < q.quotedAt)
          /\ ~(moment >= q.expires) /\ ~(EffectiveSlippage(q) > w.payload.slippage)
      BY <1>4, RiskData DEF FailureCode
    <2>2. Founded(i, moment) /\ moment \in Nat
      BY DEF RiskInv
    <2>3. /\ w.payload.created \in Nat /\ w.payload.created <= moment /\ w.payload.expires \in Nat
          /\ w.payload.slippage \in Nat
      <3>1. /\ i.payload.created \in Nat /\ i.payload.created <= moment /\ i.payload.expires \in Nat
            /\ i.payload.slippage \in Nat
        BY <2>2 DEF Founded
      <3> QED
        BY <1>1, <3>1
    <2>4. SafeEvidence(i.evidence)
      BY <2>2, PassingIsSafe DEF Founded
    <2>5. moment \in w.payload.created .. w.payload.expires - 1
      BY <2>1, <2>2, <2>3
    <2>6. q.quotedAt \in Nat /\ q.expires \in Nat
      BY RiskData
    <2>7. moment \in q.quotedAt .. q.expires - 1
      BY <2>1, <2>2, <2>6
    <2>8. q.simulated * 10000 >= q.expected * (10000 - w.payload.slippage)
      <3> DEFINE limit == w.payload.slippage
      <3>1. limit \in Nat /\ ~(EffectiveSlippage(q) > limit)
        BY <2>1, <2>3
      <3> HIDE DEF limit
      <3>2. q.simulated * 10000 >= q.expected * (10000 - limit)
        BY <3>1, WithinSlippage
      <3> QED
        BY <3>2 DEF limit
    <2>9. new.payload = w.payload /\ new.quote = q /\ new.at = moment
      BY <1>3
    <2> QED
      BY <1>1, <2>4, <2>5, <2>7, <2>8, <2>9 DEF Filled
  <1>5. \A f \in fills' : Filled(f, proposed)
    BY <1>3, <1>4 DEF RiskInv
  <1> QED
    BY <1>2, <1>5 DEF RiskInv

LEMMA RiskStep ==
    ASSUME RiskInv, [RiskNext]_riskVars
    PROVE  RiskInv'
  <1>1. ASSUME NEW e \in Evidences, AnnotateRisk(e) PROVE RiskInv'
    <2>1. scanned' = [evidence |-> e, decision |-> EvaluateRisk(e)]
          /\ UNCHANGED <<moment, proposed, receipts, fills>>
      BY <1>1 DEF AnnotateRisk
    <2>2. Annotated(scanned')
      BY <2>1 DEF Annotated
    <2> QED
      BY <2>1, <2>2 DEF RiskInv
  <1>2. ASSUME NEW s \in Slippages, BuildTradeIntent(s) PROVE RiskInv'
    BY <1>2, BuildKeepsRisk
  <1>3. ASSUME NEW w \in Wire, NEW q \in PaperQuotes, Simulate(w, q) PROVE RiskInv'
    BY <1>3, SimulateKeepsRisk
  <1>4. CASE GatewayRestarts
    BY <1>4 DEF GatewayRestarts, RiskInv
  <1>5. CASE Moment
    <2>1. moment' = moment + 1 /\ UNCHANGED <<scanned, proposed, receipts, fills>>
      BY <1>5 DEF Moment
    <2>2. ASSUME NEW i \in proposed PROVE Founded(i, moment')
      <3>1. Founded(i, moment) /\ moment \in Nat
        BY DEF RiskInv
      <3>2. i.payload.created <= moment + 1
        BY <3>1 DEF Founded
      <3> QED
        BY <2>1, <3>1, <3>2 DEF Founded
    <2> QED
      BY <2>1, <2>2 DEF RiskInv
  <1>6. CASE UNCHANGED riskVars
    BY <1>6 DEF riskVars, RiskInv
  <1> QED
    BY <1>1, <1>2, <1>3, <1>4, <1>5, <1>6 DEF RiskNext

\* Whatever the order of scans, proposals, evaluations and restarts of the
\* gateway, and for all evidence and quotes: a paper fill rests on evidence that
\* was safe by itself, was made while intent and quote lived, and pays what the
\* intent's slippage allows (risk_gate.py, trade_intent.py, paper_execution.py).
THEOREM FillsRestOnEvidenceHolds == RiskSpec => []FillsRestOnEvidence
  <1>1. RiskInit => RiskInv
    BY DEF RiskInit, RiskInv, Annotated
  <1>2. RiskInv => FillsRestOnEvidence
    BY DEF RiskInv, Filled, FillsRestOnEvidence
  <1> QED
    BY <1>1, <1>2, RiskStep, PTL DEF RiskSpec

-----------------------------------------------------------------------------
(***************************************************************************)
(* The signal pipeline.  The numbers on the lists are those of signals     *)
(* that were emitted, and the last signal is on a list only once the event *)
(* loop has passed the step that puts it there.  Only the strategy in      *)
(* force has a cooldown to count, and only the first one has an executor.  *)
(***************************************************************************)
Emitted == [symbol : FeedSymbols, side : {"BUY", "SELL", "none"}, at : Int, by : Int]

UpTo(list, n) == \A i \in DOMAIN list : list[i] <= n

\* While a signal is worked on its order may be out from the call on, and its
\* publication only when the loop is idle again.
NotYet ==
    /\ UpTo(orders, Len(signals)) /\ UpTo(published, Len(signals))
    /\ phase \in {"asked", "connecting", "calling"} =>
          /\ execution /\ UpTo(orders, Len(signals) - 1)
          /\ Len(signals) > 0 /\ signals[Len(signals)].by = 0
    /\ phase # "idle" => Len(signals) > 0 /\ UpTo(published, Len(signals) - 1)

\* The cooldown of a symbol counts from the latest signal the strategy in force
\* emitted for it; earlier strategies emitted the others.
Counted ==
    \A i \in DOMAIN signals :
        LET s == signals[i].symbol IN
        /\ signals[i].by <= strategy.number
        /\ signals[i].by = strategy.number =>
             /\ s \in strategy.config.symbols
             /\ lastSignal[s] # -1
             /\ signals[i].at <= lastSignal[s]
             /\ lastSignal[s] <= now

PipeInv ==
    /\ now \in Nat
    /\ strategy.number \in Nat /\ (strategy.executor => strategy.number = 0)
    /\ lastSignal \in [strategy.config.symbols -> Int]
    /\ signals \in Seq(Emitted)
    /\ orders \in Seq(Int) /\ published \in Seq(Int)
    /\ \A i \in DOMAIN orders : orders[i] \in DOMAIN signals
    /\ NotYet
    /\ Counted
    /\ SignalsActOnce

\* What goes behind an ascending list below it keeps it ascending.
LEMMA AscendsOn ==
    ASSUME NEW list \in Seq(Int), Ascending(list), NEW n \in Int, UpTo(list, n - 1)
    PROVE  /\ Append(list, n) \in Seq(Int) /\ Ascending(Append(list, n))
           /\ UpTo(Append(list, n), n)
  <1> DEFINE longer == Append(list, n)
  <1>1. longer \in Seq(Int) /\ Len(longer) = Len(list) + 1 /\ Len(list) \in Nat
    OBVIOUS
  <1>2. DOMAIN longer = 1 .. Len(list) + 1 /\ DOMAIN list = 1 .. Len(list)
    BY <1>1
  <1>3. \A i \in DOMAIN list : longer[i] = list[i] /\ list[i] \in Int /\ list[i] <= n - 1
    BY <1>2 DEF UpTo
  <1>4. longer[Len(list) + 1] = n
    OBVIOUS
  <1> HIDE DEF longer
  <1>5. ASSUME NEW i \in DOMAIN longer, NEW j \in DOMAIN longer, i < j
        PROVE  longer[i] < longer[j]
    <2>1. i \in DOMAIN list /\ (j \in DOMAIN list \/ j = Len(list) + 1)
      BY <1>1, <1>2, <1>5
    <2>2. CASE j \in DOMAIN list
      BY <1>3, <1>5, <2>1, <2>2 DEF Ascending
    <2>3. CASE j = Len(list) + 1
      BY <1>3, <1>4, <2>1, <2>3
    <2> QED
      BY <2>1, <2>2, <2>3
  <1>6. \A i \in DOMAIN longer : longer[i] <= n
    <2> SUFFICES ASSUME NEW i \in DOMAIN longer PROVE longer[i] <= n
      OBVIOUS
    <2>1. i \in DOMAIN list \/ i = Len(list) + 1
      BY <1>1, <1>2
    <2> QED
      BY <1>3, <1>4, <2>1
  <1> QED
    BY <1>1, <1>5, <1>6 DEF longer, Ascending, UpTo

LEMMA UpToMore ==
    ASSUME NEW list \in Seq(Int), NEW m \in Int, NEW n \in Int, m <= n, UpTo(list, m)
    PROVE  UpTo(list, n)
  <1>1. \A i \in DOMAIN list : list[i] \in Int
    OBVIOUS
  <1> QED
    BY <1>1 DEF UpTo

LEMMA PipeInitially == PipeInit => PipeInv
  BY DEF PipeInit, PipeInv, NotYet, Counted, SignalsActOnce, Ascending, UpTo

\* A new signal comes a cooldown after the last one its strategy emitted for the symbol.
LEMMA MarketDataKeeps ==
    ASSUME PipeInv, NEW s \in FeedSymbols, NEW score, ProcessMarketData(s, score)
    PROVE  PipeInv'
  <1>1. /\ phase = "idle" /\ s \in strategy.config.symbols
        /\ UNCHANGED <<strategy, orders, published, execution, now>>
    BY DEF ProcessMarketData
  <1>2. CASE UNCHANGED <<lastSignal, signals, phase>>
    BY <1>1, <1>2 DEF PipeInv, NotYet, Counted, SignalsActOnce
  <1>3. CASE ~UNCHANGED <<lastSignal, signals, phase>>
    <2> DEFINE new == [symbol |-> s, side |-> Side(score), at |-> now, by |-> strategy.number]
               n == Len(signals)
    <2>1. /\ ~InCooldown(s)
          /\ lastSignal' = [lastSignal EXCEPT ![s] = now]
          /\ signals' = Append(signals, new)
          /\ phase' = IF execution /\ strategy.executor THEN "asked" ELSE "publishing"
      BY <1>3 DEF ProcessMarketData, Emits
    <2>2. new \in Emitted
      <3>1. Side(score) \in {"BUY", "SELL", "none"}
        BY Zenon DEF Side
      <3>2. now \in Int /\ strategy.number \in Int
        BY DEF PipeInv
      <3> QED
        BY <3>1, <3>2 DEF Emitted
    <2>3. /\ signals' \in Seq(Emitted) /\ Len(signals') = n + 1 /\ n \in Nat
          /\ DOMAIN signals' = 1 .. n + 1 /\ DOMAIN signals = 1 .. n
          /\ \A i \in DOMAIN signals : signals'[i] = signals[i] /\ signals[i] \in Emitted
          /\ signals'[n + 1] = new
      BY <2>1, <2>2 DEF PipeInv
    <2>4. new.symbol = s /\ new.at = now /\ new.by = strategy.number
      OBVIOUS
    <2>5. NotYet'
      <3>1. UpTo(orders, n) /\ UpTo(published, n)
        BY <1>1 DEF PipeInv, NotYet
      <3>2. Len(signals') - 1 = n /\ Len(signals') > 0 /\ n <= Len(signals') /\ Len(signals') \in Int
        BY <2>3
      <3>3. UpTo(orders, Len(signals')) /\ UpTo(published, Len(signals'))
        BY <2>3, <3>1, <3>2, UpToMore DEF PipeInv
      <3>4. UpTo(orders, Len(signals') - 1) /\ UpTo(published, Len(signals') - 1)
        BY <3>1, <3>2
      <3>5. phase' = "asked" => execution /\ strategy.executor
        BY <2>1
      <3>6. phase' = "asked" => signals'[Len(signals')].by = 0
        BY <2>3, <2>4, <3>5 DEF PipeInv
      <3>7. phase' \in {"asked", "publishing"}
        BY <2>1
      <3> QED
        BY <1>1, <3>2, <3>3, <3>4, <3>5, <3>6, <3>7 DEF NotYet, UpTo
    <2>6. Counted'
      <3> SUFFICES ASSUME NEW i \in DOMAIN signals'
                   PROVE  LET x == signals'[i].symbol IN
                          /\ signals'[i].by <= strategy.number
                          /\ signals'[i].by = strategy.number =>
                               /\ x \in strategy.config.symbols /\ lastSignal'[x] # -1
                               /\ signals'[i].at <= lastSignal'[x] /\ lastSignal'[x] <= now
        BY <1>1 DEF Counted
      <3>1. lastSignal'[s] = now /\ now \in Nat /\ strategy.number \in Nat
        BY <1>1, <2>1 DEF PipeInv
      <3>2. CASE i = n + 1
        BY <1>1, <2>3, <2>4, <3>1, <3>2
      <3>3. CASE i \in DOMAIN signals
        <4>1. signals'[i] = signals[i] /\ signals[i].at \in Int
          BY <2>3, <3>3 DEF Emitted
        <4>2. signals[i].by <= strategy.number
          BY <3>3 DEF PipeInv, Counted
        <4>3. CASE signals[i].by = strategy.number
          <5> DEFINE x == signals[i].symbol
          <5>1. /\ x \in strategy.config.symbols /\ lastSignal[x] # -1
                /\ signals[i].at <= lastSignal[x] /\ lastSignal[x] <= now
                /\ lastSignal[x] \in Int
            BY <3>3, <4>3 DEF PipeInv, Counted
          <5>2. lastSignal'[x] = IF x = s THEN now ELSE lastSignal[x]
            BY <2>1, <5>1 DEF PipeInv
          <5> QED
            BY <3>1, <4>1, <4>2, <5>1, <5>2
        <4> QED
          BY <4>1, <4>2, <4>3
      <3> QED
        BY <2>3, <3>2, <3>3
    <2>7. ASSUME NEW i \in DOMAIN signals', NEW j \in DOMAIN signals', i < j,
                 signals'[i].symbol = signals'[j].symbol, signals'[i].by = signals'[j].by
          PROVE  signals'[j].at - signals'[i].at >= SignalCooldown
      <3>1. i \in DOMAIN signals /\ (j \in DOMAIN signals \/ j = n + 1)
        BY <2>3, <2>7
      <3>2. CASE j \in DOMAIN signals
        BY <2>3, <2>7, <3>1, <3>2 DEF PipeInv, SignalsActOnce
      <3>3. CASE j = n + 1
        <4>1. /\ signals[i].symbol = s /\ signals[i].by = strategy.number
              /\ signals'[j].at = now /\ signals'[i].at = signals[i].at
          BY <2>3, <2>4, <2>7, <3>1, <3>3
        <4>2. lastSignal[s] # -1 /\ signals[i].at <= lastSignal[s] /\ lastSignal[s] \in Int
          BY <1>1, <3>1, <4>1 DEF PipeInv, Counted
        <4>3. ~(now - lastSignal[s] < SignalCooldown)
          BY <2>1, <4>2 DEF InCooldown
        <4>4. signals[i].at \in Int /\ now \in Int /\ SignalCooldown \in Int
          BY <2>3, <3>1, PipeTimes DEF Emitted, PipeInv
        <4> QED
          BY <4>1, <4>2, <4>3, <4>4
      <3> QED
        BY <3>1, <3>2, <3>3
    <2>8. \A i \in DOMAIN orders :
            orders[i] \in DOMAIN signals' /\ signals'[orders[i]].by = 0
      BY <2>3 DEF PipeInv, SignalsActOnce
    <2>9. SignalsActOnce'
      BY <1>1, <2>7, <2>8 DEF PipeInv, SignalsActOnce, Ascending
    <2>10. lastSignal' \in [strategy.config.symbols -> Int]
      BY <1>1, <2>1 DEF PipeInv
    <2> QED
      BY <1>1, <2>3, <2>5, <2>6, <2>8, <2>9, <2>10 DEF PipeInv
  <1> QED
    BY <1>2, <1>3

\* The steps of the loop up to the call, and everything else, leave the lists.
LEMMA QuietKeeps ==
    ASSUME PipeInv, Ask \/ Connect \/ SubscriptionFails \/ Resubscribe \/ BackendChanges
                    \/ PipeTime \/ UNCHANGED pipeVars
    PROVE  PipeInv'
  <1>1. UNCHANGED <<strategy, signals, orders, published, execution, lastSignal>>
    BY DEF Ask, Connect, SubscriptionFails, Resubscribe, BackendChanges, PipeTime, pipeVars
  <1>2. now' \in Nat /\ now' >= now
    BY DEF Ask, Connect, SubscriptionFails, Resubscribe, BackendChanges, PipeTime, pipeVars, PipeInv
  <1>3. Len(signals) \in Nat
    BY DEF PipeInv
  <1>4. \/ phase' = phase
        \/ phase \in {"asked", "connecting"} /\ phase' \in {"connecting", "calling", "publishing"}
    BY DEF Ask, Connect, SubscriptionFails, Resubscribe, BackendChanges, PipeTime, pipeVars
  <1>5. NotYet'
    BY <1>1, <1>4 DEF PipeInv, NotYet, UpTo
  <1>6. Counted'
    <2>1. now \in Int /\ now' \in Int /\ now <= now'
      BY <1>2 DEF PipeInv
    <2>2. \A x \in strategy.config.symbols : lastSignal[x] \in Int
      BY DEF PipeInv
    <2>3. Counted
      BY DEF PipeInv
    <2> QED
      BY <1>1, <2>1, <2>2, <2>3 DEF Counted
  <1>7. SignalsActOnce'
    BY <1>1 DEF PipeInv, SignalsActOnce, Ascending
  <1> QED
    BY <1>1, <1>2, <1>5, <1>6, <1>7 DEF PipeInv

\* A strategy that is put in the place of the running one has emitted nothing yet
\* and has no executor; no order is under way when that happens.
LEMMA ReplaceKeeps ==
    ASSUME PipeInv, NEW config, Replace(config)
    PROVE  PipeInv'
  <1>1. /\ strategy'.number = strategy.number + 1 /\ strategy'.config = config
        /\ strategy'.executor = FALSE
        /\ lastSignal' = [x \in config.symbols |-> -1]
        /\ phase \in {"idle", "publishing"}
        /\ UNCHANGED <<signals, phase, orders, published, execution, now>>
    BY DEF Replace
  <1>2. strategy.number \in Nat /\ signals \in Seq(Emitted)
    BY DEF PipeInv
  <1>3. \A i \in DOMAIN signals : signals[i].by \in Int
    <2>1. \A i \in DOMAIN signals : signals[i] \in Emitted
      BY <1>2
    <2> QED
      BY <2>1 DEF Emitted
  <1>4. Counted'
    <2>1. \A i \in DOMAIN signals : signals[i].by <= strategy.number
      BY DEF PipeInv, Counted
    <2>2. \A i \in DOMAIN signals :
            signals[i].by <= strategy'.number /\ signals[i].by # strategy'.number
      BY <1>1, <1>2, <1>3, <2>1
    <2> QED
      BY <1>1, <2>2 DEF Counted
  <1>5. NotYet'
    BY <1>1 DEF PipeInv, NotYet, UpTo
  <1>6. SignalsActOnce'
    BY <1>1 DEF PipeInv, SignalsActOnce, Ascending
  <1>7. lastSignal' \in [strategy'.config.symbols -> Int]
    BY <1>1
  <1> QED
    BY <1>1, <1>2, <1>4, <1>5, <1>6, <1>7 DEF PipeInv

\* The order and the publication of a signal go behind those of earlier ones.
LEMMA OutputKeeps ==
    ASSUME PipeInv, ExecuteOrder \/ PublishOrderSignal
    PROVE  PipeInv'
  <1> DEFINE n == Len(signals)
  <1>1. n \in Nat /\ n > 0 /\ n \in DOMAIN signals
    <2>1. signals \in Seq(Emitted)
      BY DEF PipeInv
    <2>2. n > 0
      BY DEF PipeInv, NotYet, ExecuteOrder, PublishOrderSignal
    <2> QED
      BY <2>1, <2>2
  <1>2. UNCHANGED <<strategy, signals, execution, lastSignal, now>>
    BY DEF ExecuteOrder, PublishOrderSignal
  <1>3. Counted'
    BY <1>2 DEF PipeInv, Counted
  <1>4. CASE ExecuteOrder
    <2>1. /\ phase = "calling" /\ phase' = "publishing" /\ published' = published
          /\ orders' = orders \/ orders' = Append(orders, n)
      BY <1>4 DEF ExecuteOrder
    <2>2. /\ UpTo(orders, n - 1) /\ UpTo(published, n - 1) /\ execution
          /\ signals[n].by = 0
      BY <2>1 DEF PipeInv, NotYet
    <2>3. orders' \in Seq(Int) /\ Ascending(orders') /\ UpTo(orders', n)
      <3>1. orders \in Seq(Int) /\ Ascending(orders) /\ UpTo(orders, n)
        BY DEF PipeInv, SignalsActOnce, NotYet
      <3>2. n \in Int
        BY <1>1
      <3> HIDE DEF n
      <3> QED
        BY <2>1, <2>2, <3>1, <3>2, AscendsOn
    <2>4. \A i \in DOMAIN orders' : orders'[i] \in DOMAIN signals /\ signals[orders'[i]].by = 0
      <3>1. /\ orders \in Seq(Int)
            /\ \A i \in DOMAIN orders : orders[i] \in DOMAIN signals /\ signals[orders[i]].by = 0
        BY DEF PipeInv, SignalsActOnce
      <3>2. \A i \in DOMAIN orders' : orders'[i] = n \/ (i \in DOMAIN orders /\ orders'[i] = orders[i])
        <4> HIDE DEF n
        <4> QED
          BY <2>1, <3>1
      <3> QED
        BY <1>1, <2>2, <3>1, <3>2
    <2>5. NotYet'
      <3>1. UpTo(published, n)
        BY DEF PipeInv, NotYet
      <3> QED
        BY <1>1, <1>2, <2>1, <2>2, <2>3, <3>1 DEF NotYet, UpTo
    <2>6. SignalsActOnce'
      BY <1>2, <2>1, <2>2, <2>3, <2>4 DEF PipeInv, SignalsActOnce, Ascending
    <2> QED
      BY <1>2, <1>3, <2>1, <2>3, <2>4, <2>5, <2>6 DEF PipeInv
  <1>5. CASE PublishOrderSignal
    <2>1. /\ phase = "publishing" /\ phase' = "idle" /\ orders' = orders
          /\ published' = published \/ published' = Append(published, n)
      BY <1>5 DEF PublishOrderSignal
    <2>2. UpTo(orders, n) /\ UpTo(published, n - 1)
      BY <2>1 DEF PipeInv, NotYet
    <2>3. published' \in Seq(Int) /\ Ascending(published') /\ UpTo(published', n)
      <3>1. published \in Seq(Int) /\ Ascending(published) /\ UpTo(published, n)
        BY DEF PipeInv, SignalsActOnce, NotYet
      <3>2. n \in Int
        BY <1>1
      <3> HIDE DEF n
      <3> QED
        BY <2>1, <2>2, <3>1, <3>2, AscendsOn
    <2>4. NotYet'
      <3>1. UpTo(orders, n)
        BY DEF PipeInv, NotYet
      <3> QED
        BY <1>1, <1>2, <2>1, <2>2, <2>3, <3>1 DEF NotYet, UpTo
    <2>5. SignalsActOnce'
      BY <1>2, <2>1, <2>2, <2>3 DEF PipeInv, SignalsActOnce, Ascending
    <2> QED
      BY <1>2, <1>3, <2>1, <2>3, <2>4, <2>5 DEF PipeInv
  <1> QED
    BY <1>4, <1>5

\* For any number of symbols, signals, attempts, faults and requests of the operator:
\* an order or a publication is never made twice nor out of order, none is sent while
\* execution is off or for a strategy such a request put in place, and two signals one
\* strategy emits for a symbol are a cooldown apart (execute_order_with_retry,
\* process_market_data, update_strategy_config, reset_strategy).
THEOREM SignalsActOnceHolds == PipeSpec => []SignalsActOnce
  <1>1. PipeInv /\ [PipeNext]_pipeVars => PipeInv'
    BY MarketDataKeeps, QuietKeeps, ReplaceKeeps, OutputKeeps
       DEF PipeNext, ResetStrategy, UpdateStrategyConfig
  <1>2. PipeInv => SignalsActOnce
    BY DEF PipeInv
  <1> QED
    BY PipeInitially, <1>1, <1>2, PTL DEF PipeSpec

(***************************************************************************)
(* The shared choice of exchange, for every set of supported exchanges and *)
(* any number of balance requests, with the operator acting at any moment. *)
(***************************************************************************)
LEMMA PointedType ==
  ASSUME TypeOK, NEW to
  PROVE  Pointed(to) \in Exchanges
  BY DEF Pointed, TypeOK

LEMMA DisturbedOf ==
  ASSUME TypeOK, NEW q \in Requests
  PROVE  /\ Disturbed[q] \subseteq clean[q]
         /\ Visiting(q) => target[q] \notin Disturbed[q]
  <1>1. Disturbed[q] = IF Visiting(q) THEN clean[q] \ {target[q]} ELSE clean[q]
    BY DEF Disturbed
  <1> QED
    BY <1>1

LEMMA DisturbedType ==
  ASSUME TypeOK
  PROVE  Disturbed \in [Requests -> SUBSET Exchanges]
  <1> DEFINE D(q) == IF Visiting(q) THEN clean[q] \ {target[q]} ELSE clean[q]
  <1>1. Disturbed = [q \in Requests |-> D(q)]
    BY DEF Disturbed
  <1>2. \A q \in Requests : D(q) \in SUBSET Exchanges
    BY DEF TypeOK
  <1> HIDE DEF D
  <1> QED
    BY <1>1, <1>2

LEMMA InitType == Init => TypeOK
  <1> SUFFICES ASSUME Init PROVE TypeOK
    OBVIOUS
  <1>1. /\ provider \in Exchanges /\ keys \subseteq Exchanges
        /\ stored \subseteq Exchanges /\ selected \in Exchanges \cup {NoExchange}
    BY DEF Init
  <1> QED
    BY <1>1 DEF Init, InitRequests, NothingRead, TypeOK

LEMMA OperatorType ==
  ASSUME TypeOK, NEW e \in Exchanges,
         SetExchange(e) \/ ConfigureExchange(e) \/ DeleteExchange(e)
  PROVE  TypeOK'
  <1>1. CASE SetExchange(e)
    BY <1>1, PointedType, DisturbedType DEF SetExchange, TypeOK, requestVars
  <1>2. CASE ConfigureExchange(e)
    BY <1>2 DEF ConfigureExchange, TypeOK, requestVars, historyVars
  <1>3. CASE DeleteExchange(e)
    BY <1>3, DisturbedType DEF DeleteExchange, TypeOK, requestVars
  <1> QED
    BY <1>1, <1>2, <1>3

LEMMA RequestType ==
  ASSUME TypeOK, NEW q \in Requests, RequestStep(q)
  PROVE  TypeOK'
  <1>1. CASE Begin(q)
    BY <1>1 DEF Begin, TypeOK, operatorVars, historyVars
  <1>2. ASSUME NEW e \in Exchanges, SaveOriginal(q, e) PROVE TypeOK'
    <2>1. clean' \in [Requests -> SUBSET Exchanges]
      BY <1>2, DisturbedType DEF SaveOriginal, TypeOK
    <2> QED
      BY <1>2, <2>1 DEF SaveOriginal, TypeOK, operatorVars
  <1>3. CASE SwitchTo(q)
    BY <1>3, PointedType DEF SwitchTo, TypeOK, operatorVars, historyVars
  <1>4. CASE Fetch(q)
    <2> DEFINE Accounts == [Exchanges -> Exchanges \cup {NoExchange}]
    <2>1. [readFrom[q] EXCEPT ![target[q]] = provider] \in Accounts
      BY DEF TypeOK
    <2>2. [readFrom EXCEPT ![q][target[q]] = provider]
            \in [Requests -> Accounts]
      BY <2>1 DEF TypeOK
    <2>3. readFrom' \in [Requests -> Accounts]
      BY <1>4, <2>2 DEF Fetch, TypeOK
    <2> QED
      BY <1>4, <2>3 DEF Fetch, TypeOK, operatorVars, historyVars
  <1>5. CASE SwitchBack(q)
    BY <1>5, PointedType DEF SwitchBack, TypeOK, operatorVars, historyVars
  <1>6. CASE Finish(q)
    BY <1>6 DEF Finish, NothingRead, TypeOK, operatorVars
  <1> QED
    BY <1>1, <1>2, <1>3, <1>4, <1>5, <1>6 DEF RequestStep

LEMMA NextType == TypeOK /\ [Next]_vars => TypeOK'
  <1> SUFFICES ASSUME TypeOK, [Next]_vars PROVE TypeOK'
    OBVIOUS
  <1>1. CASE UNCHANGED vars
    BY <1>1 DEF vars, operatorVars, requestVars, historyVars, TypeOK
  <1>2. CASE Next
    BY <1>2, OperatorType, RequestType DEF Next
  <1> QED
    BY <1>1, <1>2

\* The choice of exchange, the keys and the bookkeeping of every balance
\* request keep their types, whatever the operator and the requests do
\* (ExchangeManager, GetAllBalances).
THEOREM TypeHolds == Spec => []TypeOK
  <1> QED
    BY InitType, NextType, PTL DEF Spec

-----------------------------------------------------------------------------
(***************************************************************************)
(* While no visits crossed, at most one is under way, which remembers the  *)
(* operator's choice in original; and a visit nobody came between is the   *)
(* only one there is, so that once it switched the account read is that of *)
(* its target.                                                             *)
(***************************************************************************)
SelectedHasKey == selected # NoExchange => selected \in keys

OneVisit(q) == \A p \in Requests : Visiting(p) => p = q

Calm ==
    ~crossed =>
        /\ NoVisit /\ selected # NoExchange => provider = selected
        /\ \A q \in Requests :
              Visiting(q) => /\ OneVisit(q)
                             /\ selected # NoExchange => original[q] = selected

Undisturbed(q) ==
    Visiting(q) /\ target[q] \in clean[q] =>
        /\ OneVisit(q)
        /\ target[q] \in keys
        /\ step[q] = "switched" => provider = target[q]

\* An exchange is visited once in a request, and read only then.
VisitedOnce(q) ==
    /\ step[q] = "idle" => readFrom[q] = NothingRead /\ clean[q] = {}
    /\ Visiting(q) => target[q] \notin todo[q]
    /\ \A e \in todo[q] : e \notin clean[q] /\ readFrom[q][e] = NoExchange

ReadOwn(q) == \A e \in clean[q] : readFrom[q][e] \in {e, NoExchange}

Walk ==
    /\ SelectedHasKey
    /\ Calm
    /\ \A q \in Requests : Undisturbed(q) /\ VisitedOnce(q) /\ ReadOwn(q)

LEMMA InitWalk == Init => Walk
  BY DEF Init, InitRequests, NothingRead, Walk, SelectedHasKey, Calm,
         Undisturbed, VisitedOnce, ReadOwn, Visiting, NoVisit

\* A selection or a deletion disturbs the visits under way.
LEMMA OperatorWalk ==
  ASSUME TypeOK, Walk, NEW e \in Exchanges,
         SetExchange(e) \/ ConfigureExchange(e) \/ DeleteExchange(e)
  PROVE  Walk'
  <1>1. UNCHANGED requestVars /\ \A q \in Requests : Visiting(q)' = Visiting(q)
    BY DEF SetExchange, ConfigureExchange, DeleteExchange, requestVars, Visiting
  <1>2. SelectedHasKey'
    BY DEF SetExchange, ConfigureExchange, DeleteExchange, Walk, SelectedHasKey
  <1>3. Calm'
    <2>1. CASE SetExchange(e)
      BY <1>1, <2>1 DEF SetExchange, Pointed, Calm, NoVisit
    <2>2. CASE ConfigureExchange(e) \/ DeleteExchange(e)
      BY <1>1, <2>2 DEF ConfigureExchange, DeleteExchange, Walk, Calm, NoVisit,
                        OneVisit, requestVars, historyVars
    <2> QED
      BY <2>1, <2>2
  <1>4. ASSUME NEW q \in Requests
        PROVE  /\ clean'[q] \subseteq clean[q]
               /\ Undisturbed(q)'
    <2>1. CASE SetExchange(e) \/ DeleteExchange(e)
      <3>1. clean' = Disturbed
        BY <2>1 DEF SetExchange, DeleteExchange
      <3> QED
        BY <1>1, <3>1, DisturbedOf DEF Undisturbed, requestVars
    <2>2. CASE ConfigureExchange(e)
      BY <1>1, <2>2 DEF ConfigureExchange, Walk, Undisturbed, OneVisit,
                        requestVars, historyVars
    <2> QED
      BY <2>1, <2>2
  <1>5. ASSUME NEW q \in Requests PROVE VisitedOnce(q)' /\ ReadOwn(q)'
    BY <1>1, <1>4 DEF Walk, VisitedOnce, ReadOwn, requestVars
  <1> QED
    BY <1>2, <1>3, <1>4, <1>5 DEF Walk

\* A step of one request inside its visit leaves the others' books alone.
LEMMA VisitStep ==
  ASSUME TypeOK, Walk, NEW q \in Requests,
         Begin(q) \/ SwitchTo(q) \/ Fetch(q) \/ SwitchBack(q) \/ Finish(q)
  PROVE  Walk'
  <1>1. UNCHANGED <<operatorVars, crossed>> /\ SelectedHasKey'
    BY DEF Begin, SwitchTo, Fetch, SwitchBack, Finish, historyVars,
           operatorVars, Walk, SelectedHasKey
  <1>2. \A p \in Requests : p # q =>
           /\ step'[p] = step[p] /\ target'[p] = target[p]
           /\ todo'[p] = todo[p] /\ original'[p] = original[p]
           /\ readFrom'[p] = readFrom[p] /\ clean'[p] = clean[p]
           /\ Visiting(p)' = Visiting(p)
    BY DEF Begin, SwitchTo, Fetch, SwitchBack, Finish, historyVars, TypeOK,
           Visiting
  <1>3. Visiting(q)' => /\ Visiting(q) /\ target'[q] = target[q]
                        /\ original'[q] = original[q] /\ clean'[q] = clean[q]
    BY DEF Begin, SwitchTo, Fetch, SwitchBack, Finish, historyVars, TypeOK,
           Visiting
  <1>4. provider' = provider \/ Visiting(q)
    BY DEF Begin, SwitchTo, Fetch, SwitchBack, Finish, Visiting
  <1>5. Calm'
    <2> SUFFICES ASSUME ~crossed PROVE Calm'
      BY <1>1 DEF Calm
    <2>1. ASSUME NEW p \in Requests, Visiting(p)'
          PROVE  /\ OneVisit(p)'
                 /\ selected' # NoExchange => original'[p] = selected'
      <3>1. Visiting(p) /\ original'[p] = original[p]
        BY <1>2, <1>3, <2>1
      <3>2. \A r \in Requests : Visiting(r)' => Visiting(r)
        BY <1>2, <1>3
      <3> QED
        BY <1>1, <3>1, <3>2 DEF Walk, Calm, OneVisit, operatorVars
    <2>2. NoVisit' /\ selected' # NoExchange => provider' = selected'
      <3> SUFFICES ASSUME NoVisit', selected # NoExchange
                   PROVE  provider' = selected
        BY <1>1 DEF operatorVars
      <3>1. CASE SwitchBack(q)
        <4>1. original[q] = selected /\ selected \in keys
          BY <3>1 DEF SwitchBack, Visiting, Walk, Calm, SelectedHasKey
        <4> QED
          BY <3>1, <4>1 DEF SwitchBack, Pointed
      <3>2. CASE Begin(q) \/ Finish(q)
        <4>1. provider' = provider /\ ~Visiting(q)
          BY <3>2 DEF Begin, Finish, Visiting
        <4>2. NoVisit
          BY <1>2, <4>1 DEF NoVisit
        <4> QED
          BY <4>1, <4>2 DEF Walk, Calm
      <3>3. CASE SwitchTo(q) \/ Fetch(q)
        <4>1. step'[q] \in {"switched", "fetched"}
          BY <3>3 DEF SwitchTo, Fetch, TypeOK
        <4> QED
          BY <4>1 DEF NoVisit, Visiting
      <3> QED
        BY <3>1, <3>2, <3>3
    <2> QED
      BY <2>1, <2>2 DEF Calm
  <1>6. ASSUME NEW p \in Requests PROVE Undisturbed(p)'
    <2> SUFFICES ASSUME Visiting(p)', target'[p] \in clean'[p]
                 PROVE  /\ OneVisit(p)' /\ target'[p] \in keys'
                        /\ step'[p] = "switched" => provider' = target'[p]
      BY DEF Undisturbed
    <2>1. Visiting(p) /\ target'[p] = target[p] /\ target[p] \in clean[p]
      BY <1>2, <1>3
    <2>2. /\ OneVisit(p) /\ target[p] \in keys
          /\ step[p] = "switched" => provider = target[p]
      BY <2>1 DEF Walk, Undisturbed
    <2>3. OneVisit(p)'
      BY <1>2, <1>3, <2>2 DEF OneVisit
    <2>4. step'[p] = "switched" => provider' = target[p]
      <3>1. CASE p # q
        <4>1. ~Visiting(q)
          BY <2>2, <3>1 DEF OneVisit
        <4> QED
          BY <1>2, <1>4, <2>2, <3>1, <4>1
      <3>2. CASE p = q
        BY <2>2, <3>2 DEF Begin, SwitchTo, Fetch, SwitchBack, Finish, Pointed,
                          TypeOK
      <3> QED
        BY <3>1, <3>2
    <2> QED
      BY <1>1, <2>1, <2>2, <2>3, <2>4 DEF operatorVars
  <1>7. ASSUME NEW p \in Requests PROVE VisitedOnce(p)' /\ ReadOwn(p)'
    <2>0. VisitedOnce(p) /\ ReadOwn(p) /\ Undisturbed(p)
      BY DEF Walk
    <2>1. CASE p # q
      BY <1>2, <2>0, <2>1 DEF VisitedOnce, ReadOwn
    <2>2. CASE p = q /\ Begin(q)
      <3>1. /\ step'[p] = "next" /\ clean'[p] = {} /\ readFrom'[p] = NothingRead
            /\ todo'[p] \subseteq Exchanges
        BY <2>0, <2>2 DEF Begin, VisitedOnce, TypeOK, historyVars
      <3> QED
        BY <3>1 DEF VisitedOnce, ReadOwn, NothingRead, Visiting
    <2>3. CASE p = q /\ (SwitchTo(q) \/ SwitchBack(q))
      BY <2>0, <2>3 DEF SwitchTo, SwitchBack, VisitedOnce, ReadOwn, TypeOK,
                        Visiting, historyVars
    <2>4. CASE p = q /\ Fetch(q)
      <3>1. /\ step[p] = "switched" /\ step'[p] = "fetched" /\ Visiting(p)
            /\ clean' = clean /\ todo' = todo /\ target' = target
        BY <2>4 DEF Fetch, TypeOK, Visiting, historyVars
      <3>2. \A e \in Exchanges : \/ readFrom'[p][e] = readFrom[p][e]
                                 \/ e = target[p] /\ readFrom'[p][e] = provider
        BY <2>4 DEF Fetch, TypeOK
      <3>3. clean[p] \subseteq Exchanges /\ todo[p] \subseteq Exchanges
        BY DEF TypeOK
      <3>4. VisitedOnce(p)'
        BY <2>0, <3>1, <3>2, <3>3 DEF VisitedOnce
      <3>5. ReadOwn(p)'
        BY <2>0, <3>1, <3>2, <3>3 DEF ReadOwn, Undisturbed
      <3> QED
        BY <3>4, <3>5
    <2>5. CASE p = q /\ Finish(q)
      <3>1. /\ step'[p] = "idle" /\ clean'[p] = {} /\ readFrom'[p] = NothingRead
            /\ todo'[p] = {}
        BY <2>5 DEF Finish, TypeOK
      <3> QED
        BY <3>1 DEF VisitedOnce, ReadOwn, Visiting
    <2> QED
      BY <2>1, <2>2, <2>3, <2>4, <2>5
  <1> QED
    BY <1>1, <1>5, <1>6, <1>7 DEF Walk

\* A visit that begins beside another one disturbs both.
LEMMA SaveOriginalWalk ==
  ASSUME TypeOK, Walk, NEW q \in Requests, NEW e \in Exchanges, SaveOriginal(q, e)
  PROVE  Walk'
  <1>1. /\ UNCHANGED <<provider, operatorVars, readFrom>> /\ SelectedHasKey'
        /\ crossed' = (crossed \/ ~NoVisit)
    BY DEF SaveOriginal, operatorVars, Walk, SelectedHasKey
  <1>2. \A p \in Requests : p # q =>
           /\ step'[p] = step[p] /\ target'[p] = target[p]
           /\ todo'[p] = todo[p] /\ original'[p] = original[p]
           /\ Visiting(p)' = Visiting(p)
    BY DEF SaveOriginal, TypeOK, Visiting
  <1>3. /\ ~Visiting(q) /\ Visiting(q)' /\ step'[q] = "saved"
        /\ target'[q] = e /\ original'[q] = provider
        /\ e \in todo[q] /\ todo'[q] = todo[q] \ {e}
    BY DEF SaveOriginal, TypeOK, Visiting
  <1>4. /\ e \notin clean[q] /\ readFrom[q][e] = NoExchange
        /\ \A p \in Requests : Undisturbed(p) /\ VisitedOnce(p) /\ ReadOwn(p)
    BY <1>3 DEF Walk, VisitedOnce
  <1>5. CASE NoVisit
    <2>1. /\ \A p \in Requests : p # q => ~Visiting(p)' /\ clean'[p] = clean[p]
          /\ clean'[q] \subseteq clean[q] \cup {e}
          /\ e \in clean'[q] => e \in keys
      BY <1>2, <1>4, <1>5 DEF SaveOriginal, NoVisit, Disturbed, TypeOK
    <2>2. Calm'
      BY <1>1, <1>2, <1>3, <1>5, <2>1
         DEF Walk, Calm, NoVisit, OneVisit, operatorVars
    <2>3. ASSUME NEW p \in Requests PROVE Undisturbed(p)'
      BY <1>1, <1>3, <2>1 DEF Undisturbed, OneVisit, operatorVars
    <2>4. ASSUME NEW p \in Requests PROVE VisitedOnce(p)' /\ ReadOwn(p)'
      BY <1>1, <1>2, <1>3, <1>4, <2>1, <1>5 DEF VisitedOnce, ReadOwn, NoVisit
    <2> QED
      BY <1>1, <2>2, <2>3, <2>4 DEF Walk
  <1>6. CASE ~NoVisit
    <2>1. clean' = Disturbed
      BY <1>6 DEF SaveOriginal
    <2>2. /\ \A p \in Requests : clean'[p] \subseteq clean[p]
          /\ \A p \in Requests : Visiting(p) => target[p] \notin clean'[p]
      BY <2>1, DisturbedOf
    <2>3. Calm'
      BY <1>1, <1>6 DEF Calm
    <2>4. ASSUME NEW p \in Requests PROVE Undisturbed(p)'
      BY <1>2, <1>3, <1>4, <2>2 DEF Undisturbed
    <2>5. ASSUME NEW p \in Requests PROVE VisitedOnce(p)' /\ ReadOwn(p)'
      <3>1. CASE p = q
        BY <1>1, <1>3, <1>4, <2>2, <3>1 DEF VisitedOnce, ReadOwn
      <3>2. CASE p # q
        BY <1>1, <1>2, <1>4, <2>2, <3>2 DEF VisitedOnce, ReadOwn
      <3> QED
        BY <3>1, <3>2
    <2> QED
      BY <1>1, <2>3, <2>4, <2>5 DEF Walk
  <1> QED
    BY <1>5, <1>6

LEMMA NextWalk == TypeOK /\ Walk /\ [Next]_vars => Walk'
  <1> SUFFICES ASSUME TypeOK, Walk, [Next]_vars PROVE Walk'
    OBVIOUS
  <1>1. CASE UNCHANGED vars
    BY <1>1 DEF vars, operatorVars, requestVars, historyVars, Walk,
                SelectedHasKey, Calm, OneVisit, Undisturbed, VisitedOnce,
                ReadOwn, Visiting, NoVisit
  <1>2. CASE Next
    BY <1>2, OperatorWalk, VisitStep, SaveOriginalWalk DEF Next, RequestStep
  <1> QED
    BY <1>1, <1>2

LEMMA WalkHolds == Spec => [](TypeOK /\ Walk)
  <1>1. Init => TypeOK /\ Walk
    BY InitType, InitWalk
  <1>2. TypeOK /\ Walk /\ [Next]_vars => (TypeOK /\ Walk)'
    BY NextType, NextWalk
  <1> QED
    BY <1>1, <1>2, PTL DEF Spec

\* Whenever no balance request is in the middle of a visit, orders go to the
\* exchange the operator selected, for any number of requests that take turns
\* and whatever keys come and go in between, unless since the last selection
\* visits overlapped or that selection fell into one (GetAllBalances).
THEOREM SwitchedBackHolds == Spec => []SwitchedBack
  <1>1. Walk => SwitchedBack
    BY DEF Walk, Calm, SwitchedBack
  <1> QED
    BY <1>1, WalkHolds, PTL

\* For any number of concurrent balance requests and whatever the operator
\* does, the balances a request reports for an exchange with a key were read
\* from that exchange if no other visit, selection or deletion came between
\* (GetAllBalances).
THEOREM OwnAccountReadHolds == Spec => []OwnAccountRead
  <1>1. Walk => OwnAccountRead
    BY DEF Walk, ReadOwn, OwnAccountRead
  <1> QED
    BY <1>1, WalkHolds, PTL
=============================================================================
