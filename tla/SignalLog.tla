----------------------------- MODULE SignalLog -----------------------------
(***************************************************************************)
(* The log of market signals the strategy service judges itself by: one    *)
(* Redis value that every logging and every evaluating task reads, changes *)
(* and writes back as a whole.                                             *)
(*                                                                         *)
(* A load and the save that follows are two steps with an await between    *)
(* them, so the tasks interleave.  Time is counted in days.                *)
(***************************************************************************)
EXTENDS Integers, FiniteSets, Functions

CONSTANTS
    LogTasks,      \* tasks that log or evaluate
    SignalIds,     \* 1 .. n, in the order they are logged
    LogPrices,     \* prices of the asset, 0 for none
    MaxSignals,    \* entries the saved log keeps (5000)
    SignalKinds,   \* bullish, bearish or neutral
    LogDays        \* bound: days

VARIABLES
    day,        \* now
    signalLog,  \* Redis: signal id -> [born, price, kind, day1, week1]
    loaded      \* per task, the log it read and is about to save, or Idle

logVars == <<day, signalLog, loaded>>

Idle == [what |-> "idle"]
Unjudged == [on |-> -1]

LogInit == day = 0 /\ signalLog = <<>> /\ loaded = [t \in LogTasks |-> Idle]

\* _load_log: a failed read answers with an empty log.
Loads == {signalLog, <<>>}

\* _save_log: only the newest MaxSignals entries, a failed write is dropped.
Trimmed(data) == {Restrict(data, newest) : newest \in
                    {s \in SUBSET DOMAIN data :
                        /\ Cardinality(s) = (IF Cardinality(DOMAIN data) > MaxSignals THEN MaxSignals
                                             ELSE Cardinality(DOMAIN data))
                        /\ \A a \in s, b \in DOMAIN data \ s : data[b].born <= data[a].born}}
SaveLog(data) == signalLog' \in {signalLog} \cup Trimmed(data)

Used == DOMAIN signalLog \cup UNION {DOMAIN loaded[t].data : t \in {u \in LogTasks : loaded[u] # Idle}}

\* log_signal up to its save.
LogSignal(t, id, price, kind) ==
    /\ loaded[t] = Idle
    /\ id \notin Used
    /\ \E data \in Loads :
          loaded' = [loaded EXCEPT ![t] =
            [what |-> "save",
             data |-> [x \in DOMAIN data \cup {id} |->
                         IF x = id THEN [born |-> day, price |-> price, kind |-> kind,
                                         day1 |-> Unjudged, week1 |-> Unjudged]
                         ELSE data[x]]]]
    /\ UNCHANGED <<day, signalLog>>

Change(signal, price) == ((price - signal.price) * 100) \div signal.price
Correct(signal, price) ==
    CASE signal.kind = "bullish" -> price > signal.price
      [] signal.kind = "bearish" -> price < signal.price
      [] OTHER -> 100 * (price - signal.price) > signal.price \/ 100 * (signal.price - price) > signal.price
\* Fault: a day too early.
RipeEarly(signal, days) == day - signal.born >= days - 1

Ripe(signal, days) == day - signal.born >= days
Verdict(signal, price) == [on |-> day, change |-> Change(signal, price), correct |-> Correct(signal, price)]

\* One entry of evaluate_signals: each verdict is given once, at the first
\* evaluation that finds the signal old enough and its asset priced.
Evaluated(signal, price) ==
    IF signal.price <= 0 \/ price <= 0 THEN signal
    ELSE [signal EXCEPT
            !.day1 = IF Ripe(signal, 1) /\ @ = Unjudged THEN Verdict(signal, price) ELSE @,
            !.week1 = IF Ripe(signal, 7) /\ @ = Unjudged THEN Verdict(signal, price) ELSE @]

EvaluateSignals(t, price) ==
    /\ loaded[t] = Idle
    /\ \E data \in Loads :
          LET judged == [id \in DOMAIN data |-> Evaluated(data[id], price)] IN
          loaded' = [loaded EXCEPT ![t] = IF judged = data THEN Idle
                                          ELSE [what |-> "save", data |-> judged]]
    /\ UNCHANGED <<day, signalLog>>

Save(t) == /\ loaded[t] # Idle
           /\ SaveLog(loaded[t].data)
           /\ loaded' = [loaded EXCEPT ![t] = Idle]
           /\ UNCHANGED day

\* get_performance_stats, per horizon.
Judged(field) == {id \in DOMAIN signalLog : signalLog[id][field] # Unjudged}
AccuracyRate(field) ==
    IF Judged(field) = {} THEN 0
    ELSE (100 * Cardinality({id \in Judged(field) : signalLog[id][field].correct}))
         \div Cardinality(Judged(field))

Tomorrow(n) == /\ day + n <= LogDays /\ day' = day + n
               /\ UNCHANGED <<signalLog, loaded>>

LogNext ==
    \/ \E t \in LogTasks :
          \/ \E id \in SignalIds, p \in LogPrices, k \in SignalKinds : LogSignal(t, id, p, k)
          \/ \E p \in LogPrices : EvaluateSignals(t, p)
          \/ Save(t)
    \/ \E n \in {1, 7} : Tomorrow(n)

LogSpec == LogInit /\ [][LogNext]_logVars

LogTypeOK ==
    /\ day \in 0..LogDays /\ DOMAIN signalLog \subseteq SignalIds
    /\ AccuracyRate("day1") \in 0..100 /\ AccuracyRate("week1") \in 0..100

-----------------------------------------------------------------------------
(* Tasks may overwrite each other's logs, but never into a verdict that was
   not earned: a weekly verdict exists only beside a daily one that is no
   younger, and neither came before its horizon had passed. *)
VerdictsAreEarned ==
    \A id \in DOMAIN signalLog : LET s == signalLog[id] IN
        /\ s.day1 # Unjudged => s.day1.on >= s.born + 1
        /\ s.week1 # Unjudged => /\ s.week1.on >= s.born + 7
                                 /\ s.day1 # Unjudged /\ s.day1.on <= s.week1.on

(* What log_signal has written down stays in the log until newer signals push
   it out.  (It does not: the later of two overlapping saves wins.) *)
SignalsAreKept ==
    [][\A id \in DOMAIN signalLog : id \in DOMAIN signalLog' \/ Cardinality(DOMAIN signalLog') >= MaxSignals]_signalLog
=============================================================================
