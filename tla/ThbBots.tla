------------------------------ MODULE ThbBots ------------------------------
(***************************************************************************)
(* The DCA bot and the trend bot on one symbol of one Binance TH account.  *)
(* Each reads the balances, decides, and sends a limit order at the price  *)
(* it saw; the other bot acts in between, the answer may get lost or tell  *)
(* of a part of the order only, and a crash forgets what was not saved.    *)
(* Quantities are steps, prices ticks, money their product.                *)
(***************************************************************************)
EXTENDS Integers, Sequences, SequencesExt

CONSTANTS
    ThbPrices,
    ThbCash,        \* the account's THB at the start
    BaseAmount,     \* base_amount_thb
    TrendAmount, TrendMax,         \* order_amount_thb, max_position_thb
    MinNotional,
    DipOne, DipTwo, Spike,         \* thresholds from the average, per cent
    SpikeSell,                     \* spike_sell_pct, hundredths of a per cent
    Interval,       \* interval_sec, in polls
    TrendStop, TrendTake,          \* stop_loss_pct, take_profit_pct
    Lookback,
    ThbOrders       \* bound: orders sent

VARIABLES
    thbAccount,   \* free balances
    dca, dcaSaved, dcaPlan,        \* DCAState, its saved copy, the order being sent
    dcaDone,      \* history: [bought, sold] at the exchange, and astray (see Records)
    trend, trendSaved, trendPlan   \* TrendState likewise

thbVars == <<thbAccount, dca, dcaSaved, dcaPlan, dcaDone, trend, trendSaved, trendPlan>>

NoTrade == [side |-> "none", qty |-> 0, price |-> 0]
FreshDca == [bought |-> 0, sold |-> 0, since |-> Interval, soldLast |-> TRUE]
FreshTrend == [position |-> 0, entry |-> 0]

\* Everything but the price history is saved, and loaded again.
Loaded(saved) == [history |-> <<>>, bought |-> saved.bought, sold |-> saved.sold,
                  since |-> saved.since, soldLast |-> saved.soldLast]
Savable(state) == [bought |-> state.bought, sold |-> state.sold,
                   since |-> state.since, soldLast |-> state.soldLast]

ThbTypeOK ==
    /\ thbAccount.thb \in Nat /\ thbAccount.coins \in Nat /\ thbAccount.orders \in 0 .. ThbOrders
    /\ dca.history \in Seq(ThbPrices) /\ Len(dca.history) <= Lookback
    /\ dca.since \in 0 .. Interval
    /\ {dcaPlan.side, trendPlan.side} \subseteq {"none", "BUY", "SELL", "save"}
    /\ trend.entry \in {0} \cup ThbPrices

ThbInit ==
    /\ thbAccount = [thb |-> ThbCash, coins |-> 0, orders |-> 0]
    /\ dca = Loaded(FreshDca)
    /\ dcaSaved = FreshDca
    /\ dcaDone = [bought |-> 0, sold |-> 0, astray |-> FALSE]
    /\ trend = FreshTrend /\ trendSaved = FreshTrend
    /\ dcaPlan = NoTrade /\ trendPlan = NoTrade

-----------------------------------------------------------------------------
(***************************************************************************)
(* Orders: rounding, the minimum notional, the balance.                    *)
(***************************************************************************)
\* A BUY is rounded to a step, and one step is added below the minimum.
BuyQty(amount, price) ==
    LET qty == (2 * amount + price) \div (2 * price)
    IN  IF amount < MinNotional \/ qty = 0 THEN 0
        ELSE IF qty * price < MinNotional THEN qty + 1 ELSE qty

Affordable(qty, price) == qty * price <= thbAccount.thb

\* A SELL beyond the free coins is cut to 95 % of them; too small, it is dropped.
SellQty(qty, price) ==
    LET cut == IF thbAccount.coins < qty THEN (95 * thbAccount.coins) \div 100 ELSE qty
    IN  IF qty * price < MinNotional \/ cut * price < MinNotional THEN 0 ELSE cut

\* What the exchange executes of an order, at once or by and by: at most what
\* the balance still covers.
Executions(plan) ==
    IF plan.side = "BUY"
    THEN {e \in 0 .. plan.qty : e * plan.price <= thbAccount.thb}
    ELSE {e \in 0 .. plan.qty : e <= thbAccount.coins}

Executed(plan, e) ==
    /\ thbAccount.orders < ThbOrders
    /\ thbAccount' =
         LET sign == IF plan.side = "BUY" THEN 1 ELSE -1
         IN  [thb |-> thbAccount.thb - sign * e * plan.price,
              coins |-> thbAccount.coins + sign * e, orders |-> thbAccount.orders + 1]

\* executedQty of the answer; an answer without it counts as the whole order.
Reported(plan, e) == 0 .. e \cup {plan.qty}

-----------------------------------------------------------------------------
(***************************************************************************)
(* The DCA bot.                                                            *)
(***************************************************************************)
History(price) ==
    LET h == Append(dca.history, price)
    IN  IF Len(h) > Lookback THEN Tail(h) ELSE h

\* The distance to the average of the history, compared with a threshold.
Below(h, price, pct) ==
    100 * (price * Len(h) - FoldLeft(+, 0, h)) <= -pct * FoldLeft(+, 0, h)
Above(h, price, pct) ==
    100 * (price * Len(h) - FoldLeft(+, 0, h)) >= pct * FoldLeft(+, 0, h)

Holdings == dca.bought - dca.sold

DcaWants(h, price) ==
    IF Above(h, price, Spike)
    THEN [side |-> "SELL", price |-> price,
          qty |-> IF Holdings > 0 /\ ~dca.soldLast
                  THEN SellQty((Holdings * SpikeSell) \div 10000, price) ELSE 0]
    ELSE LET times == IF Below(h, price, DipTwo) THEN 3
                      ELSE IF Below(h, price, DipOne) THEN 2 ELSE 1
             qty == BuyQty(times * BaseAmount, price)
         IN  [side |-> "BUY", price |-> price,
              qty |-> IF dca.since = Interval /\ Affordable(qty, price) THEN qty ELSE 0]

\* A failing price request skips the poll; a failing balance request is an
\* empty balance.
DcaPoll(price) ==
    /\ dcaPlan = NoTrade
    /\ LET h == History(price)
           plan == DcaWants(h, price)
       IN  /\ dca' = [dca EXCEPT !.history = h,
                                 !.since = IF @ < Interval THEN @ + 1 ELSE @]
           /\ dcaPlan' \in {[NoTrade EXCEPT !.side = "save"]} \cup
                           (IF plan.qty > 0 THEN {plan} ELSE {})
    /\ UNCHANGED <<thbAccount, dcaSaved, dcaDone, trend, trendSaved, trendPlan>>

DcaBooked(filled) ==
    IF dcaPlan.side = "BUY"
    THEN [dca EXCEPT !.bought = @ + filled, !.since = 0, !.soldLast = FALSE]
    ELSE [dca EXCEPT !.sold = @ + filled, !.soldLast = TRUE]

\* The book goes astray where it comes to claim coins that are not there: a BUY
\* booked for more than was executed, a SELL for less.
Records(e, booked) ==
    dcaDone' = IF dcaPlan.side = "BUY"
               THEN [dcaDone EXCEPT !.bought = @ + e, !.astray = @ \/ booked > e]
               ELSE [dcaDone EXCEPT !.sold = @ + e, !.astray = @ \/ booked < e]

\* Refused, or its answer lost: nothing is booked, not even the time.
DcaOrder ==
    /\ dcaPlan.side \in {"BUY", "SELL"}
    /\ \E e \in Executions(dcaPlan) :
          /\ Executed(dcaPlan, e)
          /\ \/ UNCHANGED dca /\ Records(e, 0)
             \/ \E r \in Reported(dcaPlan, e) : dca' = DcaBooked(r) /\ Records(e, r)
    /\ dcaPlan' = [NoTrade EXCEPT !.side = "save"]
    /\ UNCHANGED <<dcaSaved, trend, trendSaved, trendPlan>>

DcaSave ==
    /\ dcaPlan.side = "save"
    /\ dcaSaved' \in {dcaSaved, Savable(dca)}
    /\ dcaPlan' = NoTrade
    /\ UNCHANGED <<thbAccount, dca, dcaDone, trend, trendSaved, trendPlan>>

-----------------------------------------------------------------------------
(***************************************************************************)
(* The trend bot.                                                          *)
(***************************************************************************)
\* Stop loss, take profit or a reversal sell the position.
Exits(price, strong, direction) ==
    LET change == 100 * (price - trend.entry)
    IN  \/ change <= -TrendStop * trend.entry
        \/ change >= TrendTake * trend.entry
        \/ strong /\ direction = "DOWN"

TrendWants(price, strong, direction) ==
    IF trend.position > 0 /\ trend.entry > 0
    THEN [side |-> "SELL", price |-> price,
          qty |-> IF Exits(price, strong, direction)
                  THEN SellQty(trend.position, price) ELSE 0]
    ELSE LET qty == BuyQty(TrendAmount, price)
         IN  [side |-> "BUY", price |-> price,
              qty |-> IF /\ trend.position = 0 /\ strong /\ direction = "UP"
                         /\ (trend.position + qty) * price <= TrendMax
                         /\ Affordable(qty, price)
                      THEN qty ELSE 0]

\* Klines give the price, the averages' direction and whether ADX is strong.
TrendPoll(price) ==
    /\ trendPlan = NoTrade
    /\ \E strong \in BOOLEAN, direction \in {"UP", "DOWN", "NONE"} :
          LET plan == TrendWants(price, strong, direction)
          IN  trendPlan' \in {[NoTrade EXCEPT !.side = "save"]} \cup
                             (IF plan.qty > 0 THEN {plan} ELSE {})
    /\ UNCHANGED <<thbAccount, dca, dcaSaved, dcaPlan, dcaDone, trend, trendSaved>>

TrendBooked(filled) ==
    LET position == IF trendPlan.side = "BUY" THEN trend.position + filled
                    ELSE trend.position - filled
    IN  IF position <= 0 THEN FreshTrend
        ELSE [position |-> position,
              entry |-> IF trendPlan.side = "BUY" THEN trendPlan.price ELSE trend.entry]

TrendOrder ==
    /\ trendPlan.side \in {"BUY", "SELL"}
    /\ \E e \in Executions(trendPlan) :
          /\ Executed(trendPlan, e)
          /\ trend' \in {trend} \cup {TrendBooked(r) : r \in Reported(trendPlan, e)}
    /\ trendPlan' = [NoTrade EXCEPT !.side = "save"]
    /\ UNCHANGED <<dca, dcaSaved, dcaPlan, dcaDone, trendSaved>>

TrendSave ==
    /\ trendPlan.side = "save"
    /\ trendSaved' \in {trendSaved, trend}
    /\ trendPlan' = NoTrade
    /\ UNCHANGED <<thbAccount, dca, dcaSaved, dcaPlan, dcaDone, trend>>

\* The service goes down between any two steps and loads what was saved: the
\* DCA bot goes astray where that does not know of a sale it had booked.
ThbRestart ==
    /\ dca' = Loaded(dcaSaved)
    /\ dcaDone' = [dcaDone EXCEPT !.astray = @ \/ dcaSaved.sold < dca.sold]
    /\ trend' = trendSaved
    /\ dcaPlan' = NoTrade /\ trendPlan' = NoTrade
    /\ UNCHANGED <<thbAccount, dcaSaved, trendSaved>>

ThbNext ==
    \/ \E p \in ThbPrices : DcaPoll(p) \/ TrendPoll(p)
    \/ DcaOrder \/ DcaSave \/ TrendOrder \/ TrendSave \/ ThbRestart

ThbSpec == ThbInit /\ [][ThbNext]_thbVars

-----------------------------------------------------------------------------
\* The DCA bot sells only coins that it bought, whatever the trend bot holds on
\* the same account, over partial fills, late fills and restarts, until an answer
\* or a save fails in one of three ways: a BUY reported for more than was executed,
\* a SELL for less (or not at all), a booked SELL lost in a restart.  And neither
\* bot's book ever claims a negative position, in these cases either.
SoldFromBought ==
    /\ ~dcaDone.astray => dcaDone.sold <= dcaDone.bought
    /\ dca.sold <= dca.bought /\ dcaSaved.sold <= dcaSaved.bought
    /\ trend.position >= 0

\* "holdings = total_bought_base - total_sold_base": what it sells is its own.
OwnCoinsSold == dcaDone.sold <= dcaDone.bought
=============================================================================
