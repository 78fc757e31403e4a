------------------------------- MODULE Backtest -------------------------------
(***************************************************************************)
(* The grid backtester: bar after bar a grid that follows the price, buys  *)
(* gated by indicators of closed bars, fills inside the bar, first-in-     *)
(* first-out profit and the reinvestment of it; the parameter sweep and    *)
(* the walk-forward tuning that run it.  Money is in thousandths, so that  *)
(* the taker fee of 0.1 % is exact; quantities are whole units and what    *)
(* the code divides is rounded down to one.                                *)
(***************************************************************************)
EXTENDS Integers, Sequences, FiniteSets, SequencesExt

CONSTANTS
    Candles,        \* [high, low, close, calm]: calm, the indicators would allow a buy
    Setups,         \* [geometric, dgt, desperation, mtf, scoring]: the configurations
    Spacings,       \* spacings in percent the volatility mode may pick
    BtLevels, BtSize, BtCapital, Reinvest, DesperateAfter, DesperatePercent,
    WarmupTrades, LastBar,
    TunedValues,    \* sequence of the values tried for a parameter
    TunedResults,   \* what a run over the newest candles may earn
    Folds

VARIABLES
    setup,
    bar,        \* bars simulated
    before,     \* the candle before this one
    anchored,   \* bar at whose close the grid was built
    buys, sells,    \* pending price -> quantity
    book,       \* [capital, position, lots, profits, size]
    blocked,    \* consecutive blocks of the gate
    fills,      \* trades: [bar, side, price, qty, pnl, anchored]
    peak, drawdown,
    folds       \* tuning: [window, best, earned] of each fold

btVars == <<setup, bar, before, anchored, buys, sells, book, blocked, fills, peak, drawdown, folds>>
simVars == <<setup, bar, before, anchored, buys, sells, book, blocked, fills, peak, drawdown>>

NoCandle == [high |-> 0, low |-> 0, close |-> 0, calm |-> TRUE]

BtInit ==
    /\ setup \in Setups
    /\ bar = 0 /\ before = NoCandle /\ anchored = 0
    /\ buys = [p \in {} |-> 0] /\ sells = [p \in {} |-> 0]
    /\ book = [capital |-> BtCapital, position |-> 0, lots |-> <<>>, profits |-> 0, size |-> BtSize]
    /\ blocked = 0 /\ fills = <<>>
    /\ peak = BtCapital /\ drawdown = 0
    /\ folds = <<>>

-----------------------------------------------------------------------------
(***************************************************************************)
(* The grid: _build_grid in its two modes.                                 *)
(***************************************************************************)
ArithmeticBuy(center, spacing, level) == (100 * center - center * spacing * level) \div 100
ArithmeticSell(center, spacing, level) == (100 * center + center * spacing * level) \div 100
GeometricBuy(center, spacing, level) == (center * 100 ^ level) \div ((100 + spacing) ^ level)
GeometricSell(center, spacing, level) == (center * (100 + spacing) ^ level) \div (100 ^ level)

BuyAt(center, spacing, level) == IF setup.geometric THEN GeometricBuy(center, spacing, level)
                                 ELSE ArithmeticBuy(center, spacing, level)
SellAt(center, spacing, level) == IF setup.geometric THEN GeometricSell(center, spacing, level)
                                  ELSE ArithmeticSell(center, spacing, level)

GridBuys(center, spacing, size) ==
    [p \in {q \in {BuyAt(center, spacing, l) : l \in 1 .. BtLevels} : q > 0} |-> size]
GridSells(center, spacing, size) ==
    [p \in {SellAt(center, spacing, l) : l \in 1 .. BtLevels} |-> size]

\* The bar's extremes against the outermost pending orders.
Outside(c) == \/ \E p \in DOMAIN buys : (\A q \in DOMAIN buys : p <= q) /\ c.low < p
              \/ \E p \in DOMAIN sells : (\A q \in DOMAIN sells : p >= q) /\ c.high > p
              \/ DOMAIN buys = {} /\ c.low < c.close
              \/ DOMAIN sells = {} /\ c.high > c.close

Shifts(c) == bar = 0 \/ Outside(c)

\* Before a reset a part of the profits goes into the order size.
Reinvested(b, price) ==
    LET part == (b.profits * Reinvest) \div 100
    IN  IF setup.dgt /\ bar > 0 /\ part > 0
        THEN [b EXCEPT !.profits = @ - part, !.size = @ + part \div (10000 * price)]
        ELSE b

-----------------------------------------------------------------------------
(***************************************************************************)
(* The gate of the buys, asked about the bar before.                       *)
(***************************************************************************)
Confluence == bar = 0 \/ before.calm

Desperate == ~Confluence /\ setup.desperation /\ blocked + 1 >= DesperateAfter

Scored == Cardinality({i \in DOMAIN fills : fills[i].side = "SELL"}) >= WarmupTrades

\* The trend of the higher timeframe and the score of RSI, win rate, imbalance
\* and momentum are left open; each may still refuse the buy.
BuyVerdicts == IF ~Confluence /\ ~Desperate THEN {FALSE}
               ELSE IF setup.mtf \/ (setup.scoring /\ Scored) THEN {TRUE, FALSE} ELSE {TRUE}

BlockedNow == IF Confluence \/ Desperate THEN 0 ELSE blocked + 1

-----------------------------------------------------------------------------
(***************************************************************************)
(* Fills.                                                                  *)
(***************************************************************************)
Affordable(qty, price, capital) ==
    IF 1001 * price * qty > capital THEN capital \div (1001 * price) ELSE qty
\* Fault: a lot costs its price without the fee.
BuyFillFeeless(acc, price) ==
    LET wanted == IF acc.halved THEN (acc.pending[price] * DesperatePercent) \div 100
                  ELSE acc.pending[price]
        qty == Affordable(wanted, price, acc.book.capital)
    IN  IF qty <= 0 THEN acc
        ELSE [acc EXCEPT !.book.capital = @ - 1001 * price * qty,
                         !.book.position = @ + qty,
                         !.book.lots = Append(@, [qty |-> qty, unit |-> 1000 * price]),
                         !.fills = Append(@, [bar |-> bar + 1, side |-> "BUY", price |-> price,
                                              qty |-> qty, pnl |-> 0, anchored |-> acc.anchored])]

BuyFill(acc, price) ==
    LET wanted == IF acc.halved THEN (acc.pending[price] * DesperatePercent) \div 100
                  ELSE acc.pending[price]
        qty == Affordable(wanted, price, acc.book.capital)
    IN  IF qty <= 0 THEN acc
        ELSE [acc EXCEPT !.book.capital = @ - 1001 * price * qty,
                         !.book.position = @ + qty,
                         !.book.lots = Append(@, [qty |-> qty, unit |-> 1001 * price]),
                         !.fills = Append(@, [bar |-> bar + 1, side |-> "BUY", price |-> price,
                                              qty |-> qty, pnl |-> 0, anchored |-> acc.anchored])]

\* _consume_fifo: what each lot gives, the oldest first.
TakenBefore(lots, i) == FoldLeft(LAMBDA n, l : n + l.qty, 0, SubSeq(lots, 1, i - 1))

Taken(lots, i, qty) ==
    LET left == qty - TakenBefore(lots, i)
    IN  IF left <= 0 THEN 0 ELSE IF left < lots[i].qty THEN left ELSE lots[i].qty

RemainingLots(lots, qty) ==
    SelectSeq([i \in DOMAIN lots |-> [lots[i] EXCEPT !.qty = @ - Taken(lots, i, qty)]],
              LAMBDA l : l.qty > 0)

Total(lots) == TakenBefore(lots, Len(lots) + 1)

FifoCost(lots, qty, fallback) ==
    FoldLeft(LAMBDA sum, i : sum + Taken(lots, i, qty) * lots[i].unit, 0, [i \in DOMAIN lots |-> i])
      + (IF qty > Total(lots) THEN (qty - Total(lots)) * fallback ELSE 0)

SellFill(acc, price) ==
    LET b == acc.book
        qty == IF acc.pending[price] < b.position THEN acc.pending[price] ELSE b.position
        pnl == 999 * price * qty - FifoCost(b.lots, qty, 1000 * price)
    IN  IF qty <= 0 THEN acc
        ELSE [acc EXCEPT !.book = [b EXCEPT !.capital = @ + 999 * price * qty,
                                            !.position = @ - qty,
                                            !.lots = RemainingLots(b.lots, qty),
                                            !.profits = IF setup.dgt /\ pnl > 0 THEN @ + pnl ELSE @],
                         !.fills = Append(@, [bar |-> bar + 1, side |-> "SELL", price |-> price,
                                              qty |-> qty, pnl |-> pnl, anchored |-> acc.anchored])]

Without(pending, gone) == [p \in DOMAIN pending \ gone |-> pending[p]]

(***************************************************************************)
(* One bar: the grid moves to this bar's close, and then this bar's low    *)
(* and high are tried against it, the buys first.                          *)
(***************************************************************************)
Bar ==
    /\ bar < LastBar
    /\ \E c \in Candles, spacing \in Spacings, allowed \in BuyVerdicts :
         LET start == IF Shifts(c) THEN Reinvested(book, c.close) ELSE book
             newBuys == IF Shifts(c) THEN GridBuys(c.close, spacing, start.size) ELSE buys
             newSells == IF Shifts(c) THEN GridSells(c.close, spacing, start.size) ELSE sells
             built == IF Shifts(c) THEN bar + 1 ELSE anchored
             bought == IF allowed THEN {p \in DOMAIN newBuys : c.low <= p} ELSE {}
             sold == {p \in DOMAIN newSells : c.high >= p}
             afterBuys == FoldLeft(BuyFill,
                            [book |-> start, pending |-> newBuys, fills |-> fills,
                             halved |-> Desperate, anchored |-> built],
                            SetToSortSeq(bought, >))
             afterSells == FoldLeft(SellFill,
                            [afterBuys EXCEPT !.pending = newSells], SetToSortSeq(sold, <))
             value == afterSells.book.capital + 1000 * c.close * afterSells.book.position
             top == IF value > peak THEN value ELSE peak
         IN  /\ book' = afterSells.book /\ fills' = afterSells.fills
             /\ buys' = Without(newBuys, bought) /\ sells' = Without(newSells, sold)
             /\ anchored' = built
             /\ peak' = top
             /\ drawdown' = IF top - value > drawdown THEN top - value ELSE drawdown
             /\ before' = c
    /\ bar' = bar + 1
    /\ blocked' = BlockedNow
    /\ UNCHANGED <<setup, folds>>

\* The result's summary of the sells.
SellPnls == SelectSeq(fills, LAMBDA f : f.side = "SELL")
Winning == Cardinality({i \in DOMAIN SellPnls : SellPnls[i].pnl > 0})
Losing == Len(SellPnls) - Winning
RealizedPnl == FoldLeft(LAMBDA sum, f : sum + f.pnl, 0, SellPnls)
LotsCost == FoldLeft(LAMBDA sum, l : sum + l.qty * l.unit, 0, book.lots)

-----------------------------------------------------------------------------
(***************************************************************************)
(* run_parameter_sweep and run_walk_forward_tuning: a value that fails is  *)
(* left out, the first best one wins.                                      *)
(***************************************************************************)
NoResult == -999999

BestOf(table) ==
    CHOOSE i \in DOMAIN table :
      \A j \in DOMAIN table : table[j] < table[i] \/ (table[j] = table[i] /\ i <= j)

\* Every fold runs over the newest candles there are: run() takes a number of days.
Fold ==
    /\ bar = LastBar /\ Len(folds) < Folds
    /\ \E table \in [DOMAIN TunedValues -> TunedResults \cup {NoResult}] :
         folds' = Append(folds, [window |-> LastBar, best |-> BestOf(table), earned |-> table[BestOf(table)]])
    /\ UNCHANGED simVars

Votes(v) == Cardinality({n \in DOMAIN folds : folds[n].best = v})

\* The most frequent best value; stability is its share of the folds.
BestOverall == CHOOSE v \in {folds[n].best : n \in DOMAIN folds} :
                 \A n \in DOMAIN folds : Votes(folds[n].best) <= Votes(v)
Stability == (100 * Votes(BestOverall)) \div Len(folds)

BtNext == Bar \/ Fold

-----------------------------------------------------------------------------
BtTypeOK ==
    /\ bar \in 0 .. LastBar /\ anchored \in 0 .. LastBar /\ blocked \in 0 .. LastBar
    /\ book.size >= BtSize /\ drawdown >= 0
    /\ \A i \in DOMAIN fills : fills[i].qty > 0 /\ fills[i].side \in {"BUY", "SELL"}
    /\ Len(folds) <= Folds

\* No money or unit appears or is lost: the lots are the position, and the
\* capital is what it started with, plus what the sells realized, minus what
\* the lots still held have cost with their fees.
BacktestBalances ==
    /\ Total(book.lots) = book.position
    /\ book.capital >= 0
    /\ book.capital = BtCapital + RealizedPnl - LotsCost

\* "Fills on bar i can only be gated by information known when bar i opens."
NoLookAhead == \A i \in DOMAIN fills : fills[i].anchored < fills[i].bar
=============================================================================
