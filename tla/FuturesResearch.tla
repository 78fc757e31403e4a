--------------------------- MODULE FuturesResearch ---------------------------
(***************************************************************************)
(* The EMA/ADX research engine and its walk-forward report: a signal of    *)
(* the close of one bar is executed at the open of the next, funding is    *)
(* charged at crossed eight-hour boundaries, a futures position is         *)
(* liquidated at a close, and variants are chosen on a training slice and  *)
(* judged on the test slice after it.  Quantities are whole units, money   *)
(* and rates are scaled integers, and a bar lasts one unit of time.        *)
(***************************************************************************)
EXTENDS Integers, Sequences, FiniteSets, SequencesExt

CONSTANTS
    Bars,           \* [open, high, low, close]
    Grid,           \* sequence of variants [futures, short, leverage, fast, slow, threshold]
    AdxPeriod, FeeBps, SlipBps, FundingBps, MaintenanceBps, Equity,
    FundingSeries,  \* <<[at, bps]>> in time order
    FundingEvery,   \* bars between two funding times
    TrainBars, TestBars, StepBars, LastResearchBar,
    Gate            \* [drawdown, sharpe, profitable, beatSpot]

VARIABLES
    history,        \* the bars loaded
    results,        \* variant -> its result over the whole history
    report          \* [mode, windows, baseline, rows] of the last walk-forward

researchVars == <<history, results, report>>

NoReport == [mode |-> "none", windows |-> <<>>, baseline |-> <<>>, rows |-> <<>>]

Sum(s) == FoldLeft(LAMBDA a, b : a + b, 0, s)
Larger(a, b) == IF a > b THEN a ELSE b
Distance(a, b) == IF a > b THEN a - b ELSE b - a

-----------------------------------------------------------------------------
(***************************************************************************)
(* Indicators, scaled by 1000.  -1: not defined yet.                       *)
(***************************************************************************)
Ema(values, period) ==
    LET f[i \in period .. Len(values)] ==
          IF i = period THEN (1000 * Sum(SubSeq(values, 1, period))) \div period
          ELSE (2000 * values[i] + (period - 1) * f[i - 1]) \div (period + 1)
    IN  [i \in DOMAIN values |-> IF i < period THEN -1 ELSE f[i]]

\* Range and directional movement of bar i against the one before.
TrueRange(bars, i) == Larger(bars[i].high - bars[i].low,
                             Larger(Distance(bars[i].high, bars[i - 1].close),
                                    Distance(bars[i].low, bars[i - 1].close)))
PlusMove(bars, i) == LET up == bars[i].high - bars[i - 1].high
                         down == bars[i - 1].low - bars[i].low
                     IN  IF up > down /\ up > 0 THEN up ELSE 0
MinusMove(bars, i) == LET up == bars[i].high - bars[i - 1].high
                          down == bars[i - 1].low - bars[i].low
                      IN  IF down > up /\ down > 0 THEN down ELSE 0

\* Wilder's running sum of what is measured at the bars 2, 3, ...
Smoothed(raw, bars, period) ==
    LET f[i \in period + 1 .. Len(bars)] ==
          IF i = period + 1 THEN 1000 * Sum([k \in 1 .. period |-> raw[k + 1]])
          ELSE f[i - 1] - f[i - 1] \div period + 1000 * raw[i]
    IN  f

DxValue(range, plus, minus) ==
    IF range = 0 \/ plus + minus = 0 THEN 0 ELSE (100 * Distance(plus, minus)) \div (plus + minus)

Adx(bars, period) ==
    LET range == Smoothed([i \in 2 .. Len(bars) |-> TrueRange(bars, i)], bars, period)
        plus == Smoothed([i \in 2 .. Len(bars) |-> PlusMove(bars, i)], bars, period)
        minus == Smoothed([i \in 2 .. Len(bars) |-> MinusMove(bars, i)], bars, period)
        dx == [i \in period + 1 .. Len(bars) |-> DxValue(range[i], plus[i], minus[i])]
        f[i \in 2 * period .. Len(bars)] ==
          IF i = 2 * period THEN Sum([k \in 1 .. period |-> dx[period + k]]) \div period
          ELSE (f[i - 1] * (period - 1) + dx[i]) \div period
    IN  [i \in DOMAIN bars |-> IF i < 2 * period THEN -1 ELSE f[i]]

\* compute_signals: the side wanted after the close of every bar.
ComputeSignals(bars, cfg) ==
    LET closes == [i \in DOMAIN bars |-> bars[i].close]
        fast == Ema(closes, cfg.fast)
        slow == Ema(closes, cfg.slow)
        strength == Adx(bars, AdxPeriod)
    IN  [i \in DOMAIN bars |->
           IF fast[i] = -1 \/ slow[i] = -1 \/ strength[i] < cfg.threshold THEN 0
           ELSE IF fast[i] > slow[i] THEN 1
           ELSE IF fast[i] < slow[i] /\ cfg.short /\ cfg.futures THEN -1 ELSE 0]

-----------------------------------------------------------------------------
(***************************************************************************)
(* The engine.                                                             *)
(***************************************************************************)
NoPosition == [side |-> 0, qty |-> 0, entry |-> 0, at |-> 0, margin |-> 0, notional |-> 0, fee |-> 0, funding |-> 0]

BuyPrice(p) == (p * (10000 + SlipBps)) \div 10000
SellPrice(p) == (p * (10000 - SlipBps)) \div 10000
Fee(amount) == (amount * FeeBps) \div 10000

Unrealized(pos, mark) == pos.side * pos.qty * (mark - pos.entry)

\* close_position.
ClosePosition(acc, cfg, price, at, reason) ==
    LET pos == acc.pos
        fill == IF pos.side = 1 THEN SellPrice(price) ELSE BuyPrice(price)
        raw == Unrealized(pos, fill)
        pnl == IF reason = "liquidated" THEN Larger(raw, -pos.margin) ELSE raw
        fee == Fee(pos.qty * fill)
    IN  [acc EXCEPT !.cash = @ + (IF cfg.futures THEN pnl ELSE pos.qty * fill) - fee,
                    !.pos = NoPosition,
                    !.trades = Append(@, [from |-> pos.at, to |-> at, side |-> pos.side, pnl |-> pnl,
                                          fees |-> pos.fee + fee, funding |-> pos.funding,
                                          margin |-> pos.margin, reason |-> reason])]

\* open_position: all the cash, times the leverage.
OpenPosition(acc, cfg, side, price, at) ==
    LET fill == IF side = 1 THEN BuyPrice(price) ELSE SellPrice(price)
        qty == (IF cfg.futures THEN acc.cash * cfg.leverage ELSE acc.cash) \div fill
        notional == qty * fill
    IN  [acc EXCEPT !.cash = @ - (IF cfg.futures THEN 0 ELSE notional) - Fee(notional),
                    !.pos = [side |-> side, qty |-> qty, entry |-> fill, at |-> at,
                             margin |-> IF cfg.futures THEN notional \div cfg.leverage ELSE notional,
                             notional |-> notional, fee |-> Fee(notional), funding |-> 0]]

Executed(acc, cfg, target, bar, at) ==
    LET closed == IF acc.pos.side = 0 THEN acc
                  ELSE ClosePosition(acc, cfg, bar.open, at, IF target # 0 THEN "signal_flip" ELSE "signal_exit")
    IN  IF target = acc.pos.side THEN acc
        ELSE IF target = 0 THEN closed ELSE OpenPosition(closed, cfg, target, bar.open, at)

\* _rate_at: the last event of the series at or before the time, else the fallback.
RateAt(at) == LET known == SelectSeq(FundingSeries, LAMBDA e : e.at <= at)
              IN  IF known = <<>> THEN FundingBps ELSE Last(known).bps

Funded(acc, cfg, bar, at) ==
    LET crossed == at \div FundingEvery - (at - 1) \div FundingEvery
        amount == acc.pos.side * crossed * ((acc.pos.qty * bar.close * RateAt(at)) \div 10000)
    IN  IF acc.pos.side = 0 \/ ~cfg.futures THEN acc
        ELSE [acc EXCEPT !.cash = @ - amount, !.pos.funding = @ + amount]

Liquidated(acc, cfg, bar, at) ==
    IF /\ acc.pos.side # 0 /\ cfg.futures
       /\ -Unrealized(acc.pos, bar.close) >= acc.pos.margin - (MaintenanceBps * acc.pos.notional) \div 10000
    THEN ClosePosition(acc, cfg, bar.close, at, "liquidated") ELSE acc

MarkedEquity(acc, cfg, bar) ==
    acc.cash + (IF cfg.futures THEN Unrealized(acc.pos, bar.close) ELSE acc.pos.qty * bar.close)

\* run_backtest: what happens at a bar, in this order; a signal is executed at the
\* open of the bar after it, and the last bar ends with the flattening.
Phases == <<"execute", "fund", "liquidate", "mark", "flatten">>

Happened(acc, cfg, phase, e) ==
    CASE phase = "execute" -> Executed(acc, cfg, e.target, e.bar, e.at)
      [] phase = "fund" -> Funded(acc, cfg, e.bar, e.at)
      [] phase = "liquidate" -> Liquidated(acc, cfg, e.bar, e.at)
      [] phase = "mark" -> [acc EXCEPT !.curve = Append(@, MarkedEquity(acc, cfg, e.bar))]
      [] phase = "flatten" /\ e.last /\ acc.pos.side # 0 ->
           LET flat == ClosePosition(acc, cfg, e.bar.close, e.at, "end_of_data")
           IN  [flat EXCEPT !.curve = Append(@, flat.cash)]
      [] OTHER -> acc

\* The bars of a slice keep their times; first is the time of its first bar.
BarEvents(first, bars, signals) ==
    [i \in DOMAIN bars |-> [bar |-> bars[i], at |-> first + i - 1, last |-> i = Len(bars),
                            target |-> IF i = 1 THEN 0 ELSE signals[i - 1]]]

RunBacktest(first, bars, cfg) ==
    FoldLeft(LAMBDA acc, e : FoldLeft(LAMBDA a, phase : Happened(a, cfg, phase, e), acc, Phases),
             [cash |-> Equity, pos |-> NoPosition, trades |-> <<>>, curve |-> <<Equity>>],
             BarEvents(first, bars, ComputeSignals(bars, cfg)))

-----------------------------------------------------------------------------
(***************************************************************************)
(* Metrics, in percent; the Sharpe ratio by its square with its sign,      *)
(* which keeps its order.                                                  *)
(***************************************************************************)
CurveDrawdown(curve) ==
    FoldLeft(LAMBDA a, e :
               LET peak == Larger(a.peak, e)
               IN  [peak |-> peak, worst |-> IF peak > 0 THEN Larger(a.worst, (100 * (peak - e)) \div peak)
                                             ELSE a.worst],
             [peak |-> curve[1], worst |-> 0], curve).worst

SharpeRank(returns) ==
    LET n == Len(returns)
        sum == Sum(returns)
        spread == n * Sum([i \in DOMAIN returns |-> returns[i] * returns[i]]) - sum * sum
    IN  IF n < 2 \/ spread = 0 THEN 0
        ELSE (IF sum < 0 THEN -1 ELSE 1) * ((100 * sum * sum) \div spread)

TotalReturn(curve) == (100 * (curve[Len(curve)] - Equity)) \div Equity

Returns(curve) ==
    LET steps == SelectSeq([i \in 1 .. Len(curve) - 1 |-> i], LAMBDA i : curve[i] # 0)
    IN  [k \in DOMAIN steps |-> (100 * (curve[steps[k] + 1] - curve[steps[k]])) \div curve[steps[k]]]

ComputeMetrics(result) ==
    [return |-> TotalReturn(result.curve), drawdown |-> CurveDrawdown(result.curve),
     sharpe |-> SharpeRank(Returns(result.curve)),
     liquidations |-> Len(SelectSeq(result.trades, LAMBDA t : t.reason = "liquidated"))]

-----------------------------------------------------------------------------
(***************************************************************************)
(* Walk-forward.                                                           *)
(***************************************************************************)
MakeWindows(bars) ==
    LET room == bars - TrainBars - TestBars
    IN  [k \in 1 .. (IF room < 0 THEN 0 ELSE room \div StepBars + 1) |->
           [from |-> (k - 1) * StepBars + 1, trained |-> (k - 1) * StepBars + TrainBars,
            to |-> (k - 1) * StepBars + TrainBars + TestBars]]

TrainSlice(w) == SubSeq(history, w.from, w.trained)
TestSlice(w) == SubSeq(history, w.trained + 1, w.to)

\* The baseline marks its last bar at the close and pays its entry fee.
BuyAndHold(bars) ==
    LET entry == BuyPrice(bars[1].open)
        qty == Equity \div entry
        exit == SellPrice(bars[Len(bars)].close)
    IN  [curve |-> [i \in DOMAIN bars |-> Equity - qty * entry + qty * bars[i].close - Fee(Equity)],
         trades |-> <<[from |-> 1, to |-> Len(bars), side |-> 1, pnl |-> qty * (exit - entry),
                       fees |-> Fee(Equity) + Fee(qty * exit), funding |-> 0, margin |-> Equity,
                       reason |-> "end_of_data"]>>]

Median(values) ==
    LET sorted == SortSeq(values, <)
        n == Len(values)
    IN  IF n % 2 = 1 THEN sorted[(n + 1) \div 2] ELSE (sorted[n \div 2] + sorted[n \div 2 + 1]) \div 2

AggregateWindowRows(metrics) ==
    LET returns == [k \in DOMAIN metrics |-> metrics[k].return]
    IN  [median |-> Median(returns), sharpe |-> SharpeRank(returns),
         drawdown |-> FoldLeft(Larger, 0, [k \in DOMAIN metrics |-> metrics[k].drawdown]),
         profitable |-> (100 * Len(SelectSeq(returns, LAMBDA r : r > 0))) \div Len(returns)]

\* select_variant: Sharpe, then the smaller drawdown, then the order of the grid.
Better(a, b) == \/ a.m.sharpe > b.m.sharpe
                \/ a.m.sharpe = b.m.sharpe /\ a.m.drawdown < b.m.drawdown
                \/ a.m.sharpe = b.m.sharpe /\ a.m.drawdown = b.m.drawdown /\ a.v <= b.v

SelectVariant(w) ==
    LET trained == {[v |-> v, m |-> ComputeMetrics(RunBacktest(w.from, TrainSlice(w), Grid[v]))] : v \in DOMAIN Grid}
    IN  (CHOOSE a \in trained : \A b \in trained : Better(a, b)).v

EvaluateGate(row, baseline) ==
    /\ Gate.beatSpot => row.median > baseline.median
    /\ row.drawdown <= Gate.drawdown
    /\ row.sharpe >= Gate.sharpe
    /\ row.profitable >= Gate.profitable

\* The test slice of every window under the variant chosen for it.
WindowMetrics(windows, chosen) ==
    [k \in DOMAIN windows |-> ComputeMetrics(RunBacktest(windows[k].trained + 1, TestSlice(windows[k]),
                                                 Grid[chosen[k]]))]

Baseline(windows) ==
    AggregateWindowRows([k \in DOMAIN windows |-> ComputeMetrics(BuyAndHold(TestSlice(windows[k])))])

ResearchInit == history = <<>> /\ results = <<>> /\ report = NoReport

\* load_csv reads one more bar; the engine is run over what there is.
LoadBar ==
    /\ Len(history) < LastResearchBar
    /\ \E b \in Bars : history' = Append(history, b)
    /\ results' = [v \in DOMAIN Grid |-> RunBacktest(1, history', Grid[v])]
    /\ report' = NoReport

Reported(mode, windows, rows) ==
    [mode |-> mode, windows |-> windows, baseline |-> Baseline(windows),
     rows |-> [k \in DOMAIN rows |-> [row |-> rows[k], pass |-> EvaluateGate(rows[k], Baseline(windows))]]]

RunFixed ==
    LET windows == MakeWindows(Len(history))
    IN  /\ windows # <<>> /\ report = NoReport
        /\ report' = Reported("fixed", windows,
                       [v \in DOMAIN Grid |-> AggregateWindowRows(WindowMetrics(windows,
                                                                   [k \in DOMAIN windows |-> v]))])
        /\ UNCHANGED <<history, results>>

RunSelect ==
    LET windows == MakeWindows(Len(history))
    IN  /\ windows # <<>> /\ report = NoReport
        /\ report' = Reported("select", windows,
                       <<AggregateWindowRows(WindowMetrics(windows,
                           [k \in DOMAIN windows |-> SelectVariant(windows[k])]))>>)
        /\ UNCHANGED <<history, results>>

ResearchNext == LoadBar \/ RunFixed \/ RunSelect

-----------------------------------------------------------------------------
ResearchTypeOK ==
    /\ Len(history) <= LastResearchBar
    /\ \A v \in DOMAIN results : results[v].pos = NoPosition
    /\ \A k \in DOMAIN report.rows : report.rows[k].pass \in BOOLEAN

Spent(t) == t.fees + t.funding - t.pnl

\* What the engine reports is what happened: the final cash is the initial
\* equity plus the profits and minus the fees and the funding its trades list,
\* no two trades overlap, none is entered before a signal could exist, and only
\* a liquidation ends one in the bar that it began in.
TradesExplainCash ==
    \A v \in DOMAIN results :
      LET r == results[v]
      IN  /\ r.cash = Equity - Sum([k \in DOMAIN r.trades |-> Spent(r.trades[k])])
          /\ r.curve[Len(r.curve)] = r.cash
          /\ \A k \in DOMAIN r.trades :
               /\ r.trades[k].from > Grid[v].slow /\ r.trades[k].from > 2 * AdxPeriod
               /\ k > 1 => r.trades[k - 1].to <= r.trades[k].from
               /\ r.trades[k].from = r.trades[k].to => r.trades[k].reason \in {"liquidated", "end_of_data"}
               /\ r.trades[k].side = -1 => Grid[v].short /\ Grid[v].futures

\* A bar that is tested was trained on by no earlier or equal window, and no bar
\* is tested twice.
TestsAreUnseen ==
    \A j, k \in DOMAIN report.windows :
      /\ report.windows[j].to <= Len(history)
      /\ report.windows[k].trained - report.windows[k].from + 1 = TrainBars
      /\ j <= k => report.windows[j].trained < report.windows[k].trained + 1
      /\ j < k => report.windows[j].to <= report.windows[k].trained

\* "Buy at the first bar's open, sell at the last bar's close, paying taker fee
\* and slippage on both sides."
BaselinePaysBothSides ==
    \A k \in DOMAIN report.windows :
      LET b == BuyAndHold(TestSlice(report.windows[k]))
      IN  b.curve[Len(b.curve)] = Equity + b.trades[1].pnl - b.trades[1].fees
=============================================================================
