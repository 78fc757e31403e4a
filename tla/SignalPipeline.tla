---------------------------- MODULE SignalPipeline ----------------------------
(***************************************************************************)
(* From market data to orders in the strategy service: the Redis           *)
(* subscription feeds one strategy per symbol, a strategy emits a signal   *)
(* at most once in a cooldown, the signal is executed over gRPC where that *)
(* is enabled, with a client that reconnects, and then published on Redis. *)
(* The gRPC client blocks the event loop, so one signal is worked on at a  *)
(* time; the backend comes and goes meanwhile.  Two requests of the        *)
(* operator put a fresh strategy in the place of the running one: it knows *)
(* neither prices nor cooldowns, and it has no executor.                   *)
(***************************************************************************)
EXTENDS Integers, Sequences, FiniteSets

CONSTANTS
    FeedSymbols,        \* symbols on the channel
    Scores,             \* composite scores in percent
    SignalCooldown,
    StartConfig,        \* of the environment: [symbols, composite, strength, warmup]
    DefaultConfig,      \* of a StrategyConfig built with its defaults
    NewStrengths,       \* min_signal_strength in a request to change the config
    HistoryLimit, MaxAttempts, ExecutionModes, FeedEnd, Faults,
    Replacements        \* bound on the requests that replace the strategy

ASSUME PipeTimes == SignalCooldown \in Nat

VARIABLES
    strategy,       \* in force: [number, config, executor]
    history,        \* data points it keeps per symbol
    lastSignal,     \* its symbols -> time of the last signal, -1 for none
    signals,        \* emitted: [symbol, side, at, by]
    phase,          \* of the event loop: idle, asked, connecting, calling, publishing
    link,           \* gRPC client: [channel, stub, attempts]
    backendUp,
    orders,         \* executed by the backend: numbers of signals
    published,      \* numbers of signals on order_signals
    feed,           \* subscribed, retrying or ended
    execution,      \* SIGNAL_ORDER_EXECUTION_ENABLED
    now, faults

pipeVars == <<strategy, history, lastSignal, signals, phase, link, backendUp, orders, published, feed,
              execution, now, faults>>

\* connect_with_retry ran at startup, and Redis was there or the task ended at once.
PipeInit ==
    /\ strategy = [number |-> 0, config |-> StartConfig, executor |-> TRUE]
    /\ history = [s \in StartConfig.symbols |-> 0]
    /\ lastSignal = [s \in StartConfig.symbols |-> -1]
    /\ signals = <<>> /\ phase = "idle"
    /\ backendUp \in BOOLEAN
    /\ link = [channel |-> TRUE, stub |-> backendUp, attempts |-> IF backendUp THEN 0 ELSE MaxAttempts]
    /\ orders = <<>> /\ published = <<>>
    /\ feed \in {"subscribed", "ended"}
    /\ execution \in ExecutionModes
    /\ now = 0 /\ faults = 0

-----------------------------------------------------------------------------
(***************************************************************************)
(* TradingStrategy.                                                        *)
(***************************************************************************)
InCooldown(s) == lastSignal[s] # -1 /\ now - lastSignal[s] < SignalCooldown

Strength(score) == IF score < 0 THEN -score ELSE score

Side(score) ==
    IF score > strategy.config.composite THEN "BUY"
    ELSE IF score < -strategy.config.composite THEN "SELL" ELSE "none"

Emits(s, kept, score) ==
    /\ kept >= strategy.config.warmup
    /\ ~InCooldown(s)
    /\ Side(score) # "none" /\ Strength(score) >= strategy.config.strength

\* One message: process_market_data of its symbol, up to the call of the executor.
ProcessMarketData(s, score) ==
    /\ feed = "subscribed" /\ phase = "idle"
    /\ s \in strategy.config.symbols
    /\ LET kept == IF history[s] < HistoryLimit THEN history[s] + 1 ELSE HistoryLimit
       IN  /\ history' = [history EXCEPT ![s] = kept]
           /\ \/ /\ Emits(s, kept, score)
                 /\ lastSignal' = [lastSignal EXCEPT ![s] = now]
                 /\ signals' = Append(signals, [symbol |-> s, side |-> Side(score), at |-> now,
                                                by |-> strategy.number])
                 /\ phase' = IF execution /\ strategy.executor THEN "asked" ELSE "publishing"
              \/ ~Emits(s, kept, score) /\ UNCHANGED <<lastSignal, signals, phase>>
    /\ UNCHANGED <<strategy, link, backendUp, orders, published, feed, execution, now, faults>>

-----------------------------------------------------------------------------
(***************************************************************************)
(* GRPCClientManager.execute_order_with_retry.  The channel of grpc        *)
(* reconnects by itself; the stubs exist after one successful connect.     *)
(***************************************************************************)
IsConnected == link.channel /\ backendUp

Ask ==
    /\ phase = "asked"
    /\ phase' = IF IsConnected THEN "calling" ELSE "connecting"
    /\ UNCHANGED <<strategy, history, lastSignal, signals, link, backendUp, orders, published, feed, execution, now, faults>>
\* Fault: one attempt more than the maximum.
ConnectOnceMore ==
    /\ phase = "connecting"
    /\ IF link.attempts > MaxAttempts
       THEN phase' = "publishing" /\ UNCHANGED link
       ELSE IF backendUp
       THEN phase' = "calling" /\ link' = [channel |-> TRUE, stub |-> TRUE, attempts |-> 0]
       ELSE UNCHANGED phase /\ link' = [link EXCEPT !.channel = TRUE, !.attempts = @ + 1]
    /\ UNCHANGED <<strategy, history, lastSignal, signals, backendUp, orders, published, feed, execution, now, faults>>

\* One round of connect_with_retry; attempts are set back by a success only.
Connect ==
    /\ phase = "connecting"
    /\ IF link.attempts >= MaxAttempts
       THEN phase' = "publishing" /\ UNCHANGED link
       ELSE IF backendUp
       THEN phase' = "calling" /\ link' = [channel |-> TRUE, stub |-> TRUE, attempts |-> 0]
       ELSE UNCHANGED phase /\ link' = [link EXCEPT !.channel = TRUE, !.attempts = @ + 1]
    /\ UNCHANGED <<strategy, history, lastSignal, signals, backendUp, orders, published, feed, execution, now, faults>>
\* Fault: a call whose answer does not come is made again.
ExecuteOrderAgain ==
    /\ phase = "calling"
    /\ phase' \in {"publishing", "calling"}
    /\ orders' \in (IF link.stub /\ backendUp THEN {orders, Append(orders, Len(signals))} ELSE {orders})
    /\ orders' # orders \/ phase' # phase
    /\ UNCHANGED <<strategy, history, lastSignal, signals, link, backendUp, published, feed, execution, now, faults>>

\* The call of the stub: whether its answer comes or not, it is not repeated.
ExecuteOrder ==
    /\ phase = "calling"
    /\ phase' = "publishing"
    /\ orders' \in (IF link.stub /\ backendUp THEN {orders, Append(orders, Len(signals))} ELSE {orders})
    /\ UNCHANGED <<strategy, history, lastSignal, signals, link, backendUp, published, feed, execution, now, faults>>

\* publish_order_signal: an error is logged and the signal is not published.
PublishOrderSignal ==
    /\ phase = "publishing"
    /\ published' \in {published, Append(published, Len(signals))}
    /\ phase' = "idle"
    /\ UNCHANGED <<strategy, history, lastSignal, signals, link, backendUp, orders, feed, execution, now, faults>>

-----------------------------------------------------------------------------
\* subscribe_market_data raises; the task tries again until one attempt returns.
SubscriptionFails ==
    /\ feed = "subscribed" /\ phase = "idle" /\ faults < Faults
    /\ feed' = "retrying" /\ faults' = faults + 1
    /\ UNCHANGED <<strategy, history, lastSignal, signals, phase, link, backendUp, orders, published, execution, now>>

Resubscribe ==
    /\ feed = "retrying"
    /\ feed' = "subscribed"
    /\ UNCHANGED <<strategy, history, lastSignal, signals, phase, link, backendUp, orders, published, execution, now, faults>>

BackendChanges ==
    /\ faults < Faults
    /\ backendUp' = ~backendUp /\ faults' = faults + 1
    /\ UNCHANGED <<strategy, history, lastSignal, signals, phase, link, orders, published, feed, execution, now>>

PipeTime ==
    /\ now < FeedEnd
    /\ now' = now + 1
    /\ UNCHANGED <<strategy, history, lastSignal, signals, phase, link, backendUp, orders, published, feed, execution, faults>>

\* The endpoints run where the event loop is free: between two messages, and
\* while a publication is awaited; a call of the gRPC client keeps them waiting.
Replace(config) ==
    /\ phase \in {"idle", "publishing"} /\ strategy.number < Replacements
    /\ strategy' = [number |-> strategy.number + 1, config |-> config, executor |-> FALSE]
    /\ history' = [s \in config.symbols |-> 0]
    /\ lastSignal' = [s \in config.symbols |-> -1]
    /\ UNCHANGED <<signals, phase, link, backendUp, orders, published, feed, execution, now, faults>>

\* The request names no symbols: a new config has those of the defaults.
UpdateStrategyConfig(strength) == Replace([DefaultConfig EXCEPT !.strength = strength])

ResetStrategy == Replace(strategy.config)

PipeNext ==
    \/ \E s \in FeedSymbols, score \in Scores : ProcessMarketData(s, score)
    \/ ResetStrategy \/ \E strength \in NewStrengths : UpdateStrategyConfig(strength)
    \/ Ask \/ Connect \/ ExecuteOrder \/ PublishOrderSignal
    \/ SubscriptionFails \/ Resubscribe \/ BackendChanges \/ PipeTime

PipeSpec == PipeInit /\ [][PipeNext]_pipeVars

-----------------------------------------------------------------------------
PipeTypeOK ==
    /\ strategy.number \in 0 .. Replacements
    /\ phase \in {"idle", "asked", "connecting", "calling", "publishing"}
    /\ feed \in {"subscribed", "retrying", "ended"}
    /\ link.attempts \in 0 .. MaxAttempts
    /\ \A s \in strategy.config.symbols : history[s] \in 0 .. HistoryLimit /\ lastSignal[s] \in -1 .. now

Ascending(seq) == \A i, j \in DOMAIN seq : i < j => seq[i] < seq[j]

\* A signal is acted on at most once, in the order of the signals, however often
\* the backend goes away in the middle: an order whose answer is lost is not sent
\* again, none is sent while execution is off, and none for a signal of a strategy
\* that an operator's request put in place.  Two signals of a symbol less than a
\* cooldown apart come from two strategies: only such a request lies between them.
SignalsActOnce ==
    /\ Ascending(orders) /\ Ascending(published)
    /\ ~execution => orders = <<>>
    /\ \A i \in DOMAIN orders : signals[orders[i]].by = 0
    /\ \A i, j \in DOMAIN signals :
         i < j /\ signals[i].symbol = signals[j].symbol /\ signals[i].by = signals[j].by =>
           signals[j].at - signals[i].at >= SignalCooldown

\* "Execute order with automatic reconnection": while the backend is up, the
\* client does not give a signal up without having called it.
Reconnects == [][phase = "connecting" /\ phase' = "publishing" => ~backendUp]_pipeVars

\* "Track last signal time to avoid spam": two signals of a symbol are a cooldown apart.
SymbolCoolsDown ==
    \A i, j \in DOMAIN signals :
      i < j /\ signals[i].symbol = signals[j].symbol =>
        signals[j].at - signals[i].at >= SignalCooldown

\* "Reset strategy state (clear price history)": signals go on being executed.
ResetOnlyForgets ==
    [][strategy'.number # strategy.number => strategy'.executor = strategy.executor]_pipeVars
=============================================================================
