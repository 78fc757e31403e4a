------------------------------ MODULE RealGrid ------------------------------
(***************************************************************************)
(* The real grid bot of the strategy service for one symbol: its tick, the *)
(* risk manager it asks before every order, the operator's endpoints, the  *)
(* snapshot it keeps in Redis and the exchange behind the Go backend.      *)
(*                                                                         *)
(* The tick is one coroutine that other handlers run in between whenever   *)
(* it awaits; every action below ends at such a point.  Prices are whole   *)
(* ticks, percentages are per mille, profits are thousandths of a tick and *)
(* every order has the same quantity.                                      *)
(***************************************************************************)
EXTENDS Integers, Sequences, FiniteSets, Functions

CONSTANTS
    Prices,        \* what the market may cost
    MaxOrders,     \* bound: orders submitted
    MaxDays,       \* bound: how often a day ends for the bot
    MaxSpacing,    \* bound: no regime adjustment beyond this spacing
    Regimes,       \* what _detect_regime may answer
    Trends,        \* what _detect_trend may answer
    Restarts,      \* calls of /api/real-grid/restart in progress at once
    StatusFails,   \* may the order-status query fail
    SaveFails,     \* may writing the snapshot fail
    Endowment,     \* coins on the account before the first order
    Spacing, BaseLevels, MaxOpen,             \* the symbol's configuration
    Stale, StopLoss, Chase, FlashCrash,       \* thresholds in per mille
    Whole,         \* ticks in one unit of price: int() drops the rest
    MaxLoss,       \* max_daily_loss_usd
    RiskMaxOpen, RiskMaxLoss, RiskMaxStreak   \* the risk manager's limits

ASSUME Parameters ==
    /\ Prices \subseteq Nat
    /\ MaxOrders \in Nat /\ MaxDays \in Nat /\ MaxSpacing \in Nat /\ Endowment \in Nat
    /\ Regimes \subseteq {"low_vol", "normal", "high_vol", "extreme"}
    /\ "tick" \notin Restarts
    /\ {StatusFails, SaveFails} \subseteq BOOLEAN
    /\ {Spacing, BaseLevels, MaxOpen, Stale, StopLoss, Chase, FlashCrash} \subseteq Nat
    /\ Whole \in Nat \ {0}
    /\ {MaxLoss, RiskMaxOpen, RiskMaxLoss, RiskMaxStreak} \subseteq Nat

OrderIds == 1 .. MaxOrders
Workers == {"tick"} \cup Restarts
None == [price |-> -1]

VARIABLES
    market,     \* the price the public ticker shows
    orders,     \* the exchange's side of every submitted order
    mem,        \* RealGridState, the part _save_state writes
    saved,      \* the snapshot in Redis
    enabled,    \* RealGridBot._enabled
    risk,       \* RiskManager.state: halted, daily loss, losing streak
    pc,         \* where the tick is, and each forced restart
    work,       \* what the running phase of the tick has still to visit
    level,      \* the next grid level to place, and its side
    adjust,     \* grid_spacing_pct, min_spacing_pct, grid_levels
    snapshot,   \* the open orders a sync has been told
    missing,    \* tracked orders that were not among them
    dropping,   \* the entry a sync deletes when its journal call returns
    days        \* days ended for the bot

exchangeVars == <<market, orders>>
syncVars == <<snapshot, missing, dropping>>
tickVars == <<work, level, adjust>>
vars == <<exchangeVars, mem, saved, enabled, risk, pc, tickVars, syncVars, days>>

Entry(side, price, id) == [side |-> side, price |-> price, id |-> id]

OrderStates == {"none", "open", "filled", "canceled"}

Phases == {"idle", "cancelAll", "reconcile", "ask", "buys", "sells", "price",
           "stale", "regime", "trend", "bear", "stops", "grid", "save"}

TypeOK ==
    /\ market \in Prices
    /\ DOMAIN orders = OrderIds
    /\ \A i \in OrderIds : /\ orders[i].state \in OrderStates
                           /\ orders[i].side \in {"BUY", "SELL"}
                           /\ orders[i].price \in Int
    /\ {mem, saved} \subseteq
         [active : SUBSET [side : {"BUY", "SELL"}, price : Int, id : OrderIds],
          lots : Seq(Int), stops : SUBSET [lot : Int, at : Int],
          triggered : SUBSET Int, halted : BOOLEAN, lastPrice : {0} \cup Prices,
          pnl : Int, booked : [OrderIds -> Nat], assumed : SUBSET OrderIds]
    /\ enabled \in BOOLEAN
    /\ risk \in [halted : BOOLEAN, pnl : Int, streak : Nat]
    /\ DOMAIN pc = Workers
    /\ pc["tick"] \in Phases
    /\ \A w \in Restarts : pc[w] \in {"idle", "ask", "buys", "sells"}
    /\ snapshot \in [Workers -> SUBSET OrderIds]
    /\ \A p, q \in mem.active : p.side = q.side /\ p.price = q.price => p = q

Fresh == [active |-> {}, lots |-> <<>>, stops |-> {}, triggered |-> {},
          halted |-> FALSE, lastPrice |-> 0, pnl |-> 0,
          booked |-> [i \in OrderIds |-> 0], assumed |-> {}]

CalmRisk == [halted |-> FALSE, pnl |-> 0, streak |-> 0]

Defaults == [spacing |-> Spacing, floor |-> 10, levels |-> BaseLevels]

Init ==
    /\ market \in Prices
    /\ orders = [i \in OrderIds |-> [state |-> "none", side |-> "BUY", price |-> 0]]
    /\ mem = Fresh
    /\ saved = Fresh
    /\ enabled = TRUE
    /\ risk = CalmRisk
    /\ pc = [w \in Workers |-> "idle"]
    /\ work = {}
    /\ level = <<1, "BUY">>
    /\ adjust = Defaults
    /\ snapshot = [w \in Workers |-> {}]
    /\ missing = [w \in Workers |-> {}]
    /\ dropping = [w \in Workers |-> None]
    /\ days = 0

-----------------------------------------------------------------------------
(***************************************************************************)
(* The exchange, and cancelling an order there: _cancel_order swallows     *)
(* every failure, so its caller cannot tell whether the order is gone.     *)
(***************************************************************************)
OpenIds == {i \in OrderIds : orders[i].state = "open"}
UsedIds == {i \in OrderIds : orders[i].state # "none"}

Count(side, states) ==
    Cardinality({i \in OrderIds : orders[i].side = side /\ orders[i].state \in states})

FreeCoins == Endowment + Count("BUY", {"filled"}) - Count("SELL", {"filled", "open"})

EndsAs(i, state) == orders' = [orders EXCEPT ![i].state = state]

CancelOrder(i) ==
    \/ UNCHANGED orders
    \/ i \in OpenIds /\ EndsAs(i, "canceled")

Fill(i) ==
    /\ i \in OpenIds
    /\ EndsAs(i, "filled")
    /\ UNCHANGED <<market, mem, saved, enabled, risk, pc, tickVars, syncVars, days>>

\* The owner cancels in the exchange's app, or the exchange purges the order.
CancelOutside(i) ==
    /\ i \in OpenIds
    /\ EndsAs(i, "canceled")
    /\ UNCHANGED <<market, mem, saved, enabled, risk, pc, tickVars, syncVars, days>>

Move(p) ==
    /\ p # market
    /\ market' = p
    /\ UNCHANGED <<orders, mem, saved, enabled, risk, pc, tickVars, syncVars, days>>

-----------------------------------------------------------------------------
(***************************************************************************)
(* The operator, and the process.                                          *)
(***************************************************************************)
Kill ==
    /\ enabled
    /\ enabled' = FALSE
    /\ UNCHANGED <<exchangeVars, mem, saved, risk, pc, tickVars, syncVars, days>>

\* /api/real-grid/enable and /api/risk/reset call each other's reset.
Enable ==
    /\ enabled' = TRUE
    /\ mem' = [mem EXCEPT !.halted = FALSE]
    /\ risk' = [risk EXCEPT !.halted = FALSE, !.streak = 0]
    /\ <<enabled, mem, risk>>' # <<enabled, mem, risk>>
    /\ UNCHANGED <<exchangeVars, saved, pc, tickVars, syncVars, days>>

ForceRestart(w) ==
    /\ pc[w] = "idle"
    /\ pc' = [pc EXCEPT ![w] = "ask"]
    /\ UNCHANGED <<exchangeVars, mem, saved, enabled, risk, tickVars, syncVars, days>>

\* The process dies, or the service is shut down: the task is cancelled at the
\* await it stands at, and the bot's own stop() is not called.  start() then
\* loads the snapshot.
Crash ==
    /\ mem' = saved
    /\ enabled' = TRUE
    /\ risk' = CalmRisk
    /\ pc' = [w \in Workers |-> "idle"]
    /\ work' = {}
    /\ level' = <<1, "BUY">>
    /\ adjust' = Defaults
    /\ snapshot' = [w \in Workers |-> {}]
    /\ missing' = [w \in Workers |-> {}]
    /\ dropping' = [w \in Workers |-> None]
    /\ UNCHANGED <<exchangeVars, saved, days>>

-----------------------------------------------------------------------------
(***************************************************************************)
(* A tick begins: the day's rollover, the loss limit, the halt.            *)
(***************************************************************************)
Goto(phase) == pc' = [pc EXCEPT !["tick"] = phase]

At(phase) == pc["tick"] = phase
\* Fault: only the loss limit is looked at, not the halt that stands.
CheckLimitsOnlyLoss(m) ==
    IF m.pnl < -MaxLoss
    THEN mem' = [m EXCEPT !.halted = TRUE] /\ Goto("idle") /\ work' = {}
    ELSE mem' = m /\ Goto("ask") /\ work' = {}

\* The rest of _tick once the rollover is done, up to its next await.
CheckLimits(m) ==
    IF m.pnl < -MaxLoss
    THEN mem' = [m EXCEPT !.halted = TRUE] /\ Goto("idle") /\ work' = {}
    ELSE /\ mem' = m
         /\ IF m.halted THEN Goto("reconcile") /\ work' = m.active
            ELSE Goto("ask") /\ work' = {}

Begin ==
    /\ At("idle")
    /\ enabled
    /\ CheckLimits(mem)
    /\ UNCHANGED <<exchangeVars, saved, enabled, risk, level, adjust,
                   syncVars, days>>

\* Rollover: a halt stays, and the grid of a symbol that trades is cancelled.
BeginDay ==
    /\ At("idle")
    /\ enabled
    /\ days < MaxDays
    /\ days' = days + 1
    /\ LET m == [mem EXCEPT !.pnl = 0]
       IN  IF m.halted THEN CheckLimits(m)
           ELSE mem' = m /\ Goto("cancelAll") /\ work' = m.active
    /\ UNCHANGED <<exchangeVars, saved, enabled, risk, level, adjust, syncVars>>

\* The lots are known by the price of their BUY.
KeptByRebalance(e) == e.side = "SELL" /\ e.price \in Range(mem.lots)

RebalanceCancel(e) ==
    /\ At("cancelAll")
    /\ e \in work
    /\ ~KeptByRebalance(e)
    /\ work' = work \ {e}
    /\ CancelOrder(e.id)
    /\ UNCHANGED <<market, mem, saved, enabled, risk, pc, level, adjust,
                   syncVars, days>>

RebalanceDone ==
    /\ At("cancelAll")
    /\ \A e \in work : KeptByRebalance(e)
    /\ CheckLimits([mem EXCEPT !.active = {e \in @ : KeptByRebalance(e)}])
    /\ UNCHANGED <<exchangeVars, saved, enabled, risk, level, adjust,
                   syncVars, days>>
\* Fault: the entry of a booked order stays in the book.
UntrackNothing(m, e) == m

Untrack(m, e) == [m EXCEPT !.active =
                    {f \in @ : f.side # e.side \/ f.price # e.price}]

\* While halted only confirmed cancellations are taken over.
ReconcileHalted(e) ==
    /\ At("reconcile")
    /\ e \in work
    /\ work' = work \ {e}
    /\ \/ UNCHANGED mem
       \/ orders[e.id].state = "canceled" /\ mem' = Untrack(mem, e)
    /\ UNCHANGED <<exchangeVars, saved, enabled, risk, pc, level, adjust,
                   syncVars, days>>

\* The snapshot is written if something changed; writing it may fail.
ReconcileDone ==
    /\ At("reconcile")
    /\ work = {}
    /\ Goto("idle")
    /\ saved' \in IF SaveFails THEN {saved, mem} ELSE {mem}
    /\ UNCHANGED <<exchangeVars, mem, enabled, risk, tickVars, syncVars, days>>

-----------------------------------------------------------------------------
(***************************************************************************)
(* _sync_open_orders, run by the tick and by every forced restart.  It     *)
(* reads the open orders once and then asks about each tracked order that  *)
(* was not among them; whatever fails ends it, and its caller goes on.     *)
(***************************************************************************)
After(w, phase) ==
    pc' = [pc EXCEPT ![w] = IF w = "tick" THEN phase ELSE "idle"]

Tracked(side) == {e \in mem.active : e.side = side}

SyncAsk(w) ==
    /\ pc[w] = "ask"
    /\ \/ /\ After(w, "price")
          /\ UNCHANGED <<snapshot, missing>>
       \/ /\ pc' = [pc EXCEPT ![w] = "buys"]
          /\ snapshot' = [snapshot EXCEPT ![w] = OpenIds]
          /\ missing' = [missing EXCEPT
                ![w] = {e \in Tracked("BUY") : e.id \notin OpenIds}]
    /\ UNCHANGED <<exchangeVars, mem, saved, enabled, risk, tickVars, dropping, days>>

\* A dict keeps its order when a key is deleted; no price is in it twice.
Without(s, x) ==
    IF x \notin Range(s) THEN s
    ELSE LET at == CHOOSE i \in DOMAIN s : s[i] = x
         IN  [i \in 1 .. Len(s) - 1 |-> IF i < at THEN s[i] ELSE s[i + 1]]

Highest(S) == {l \in S : \A k \in S : k <= l}

\* _match_buy_for_sell: the lot a stop order exits, else the highest lot below
\* the sale, else the oldest; 0 when there is none.
Match(m, price) ==
    LET exits == {l \in Range(m.lots) : \E s \in m.stops : s.lot = l /\ s.at = price}
        below == Highest({l \in Range(m.lots) : l < price})
    IN  IF exits # {} THEN CHOOSE l \in exits : TRUE
        ELSE IF below # {} THEN CHOOSE l \in below : TRUE
        ELSE IF m.lots # <<>> THEN Head(m.lots)
        ELSE 0

\* A round trip's profit after one per mille on each side; without a lot the
\* grid spacing stands in for the gross profit.
Profit(lot, price) ==
    IF lot > 0 THEN 1000 * (price - lot) - (price + lot)
    ELSE price * adjust.spacing - 2 * price
\* Fault: a sale leaves the record of the stop order of its lot.
BookKeepsStop(e, assumed) ==
    LET m == [mem EXCEPT !.booked[e.id] = @ + 1,
                         !.assumed = IF assumed THEN @ \cup {e.id} ELSE @]
        lot == Match(mem, e.price)
        net == Profit(lot, e.price)
    IN  IF e.side = "BUY"
        THEN /\ mem' = [m EXCEPT !.lots = Append(Without(@, e.price), e.price)]
             /\ UNCHANGED risk
        ELSE /\ mem' = [m EXCEPT !.lots = Without(@, lot),
                                 !.triggered = @ \ {lot},
                                 !.pnl = @ + net]
             /\ risk' = [risk EXCEPT !.pnl = @ + net,
                                     !.streak = IF net > 0 THEN 0 ELSE @ + 1]

Book(e, assumed) ==
    LET m == [mem EXCEPT !.booked[e.id] = @ + 1,
                         !.assumed = IF assumed THEN @ \cup {e.id} ELSE @]
        lot == Match(mem, e.price)
        net == Profit(lot, e.price)
    IN  IF e.side = "BUY"
        THEN /\ mem' = [m EXCEPT !.lots = Append(Without(@, e.price), e.price)]
             /\ UNCHANGED risk
        ELSE /\ mem' = [m EXCEPT !.lots = Without(@, lot),
                                 !.stops = {s \in @ : s.lot # lot},
                                 !.triggered = @ \ {lot},
                                 !.pnl = @ + net]
             /\ risk' = [risk EXCEPT !.pnl = @ + net,
                                     !.streak = IF net > 0 THEN 0 ELSE @ + 1]
\* Fault: an order that is gone counts as filled.
SyncVerifyGoneIsFilled(w, e) ==
    /\ pc[w] \in {"buys", "sells"}
    /\ dropping[w] = None
    /\ e \in missing[w]
    /\ missing' = [missing EXCEPT ![w] = @ \ {e}]
    /\ IF orders[e.id].state = "open" THEN UNCHANGED <<mem, risk, dropping>>
       ELSE /\ Book(e, FALSE)
            /\ dropping' = [dropping EXCEPT ![w] = e]
    /\ UNCHANGED <<exchangeVars, saved, enabled, pc, tickVars, snapshot, days>>

\* _verify_fill, and what its verdict does before the next await: an order that
\* cannot be looked up counts as filled.
SyncVerify(w, e) ==
    /\ pc[w] \in {"buys", "sells"}
    /\ dropping[w] = None
    /\ e \in missing[w]
    /\ missing' = [missing EXCEPT ![w] = @ \ {e}]
    /\ \/ /\ orders[e.id].state = "open"
          /\ UNCHANGED <<mem, risk, dropping>>
       \/ /\ orders[e.id].state = "canceled"
          /\ dropping' = [dropping EXCEPT ![w] = e]
          /\ UNCHANGED <<mem, risk>>
       \/ /\ orders[e.id].state = "filled"
          /\ Book(e, FALSE)
          /\ dropping' = [dropping EXCEPT ![w] = e]
       \/ /\ StatusFails
          /\ Book(e, TRUE)
          /\ dropping' = [dropping EXCEPT ![w] = e]
    /\ UNCHANGED <<exchangeVars, saved, enabled, pc, tickVars, snapshot, days>>

\* del state.active_...[price] after the alert and the journal call: a key that
\* another handler deleted in between is a KeyError, which ends the sync.
SyncDrop(w) ==
    /\ pc[w] \in {"buys", "sells"}
    /\ dropping[w] # None
    /\ dropping' = [dropping EXCEPT ![w] = None]
    /\ mem' = Untrack(mem, dropping[w])
    /\ IF mem' = mem
       THEN After(w, "price") /\ missing' = [missing EXCEPT ![w] = {}]
       ELSE UNCHANGED <<pc, missing>>
    /\ UNCHANGED <<exchangeVars, saved, enabled, risk, tickVars, snapshot, days>>

SyncSells(w) ==
    /\ pc[w] = "buys"
    /\ missing[w] = {} /\ dropping[w] = None
    /\ pc' = [pc EXCEPT ![w] = "sells"]
    /\ missing' = [missing EXCEPT
          ![w] = {e \in Tracked("SELL") : e.id \notin snapshot[w]}]
    /\ UNCHANGED <<exchangeVars, mem, saved, enabled, risk, tickVars, snapshot,
                   dropping, days>>
\* Fault: an order is adopted at a price that is already taken.
UntakenAnyPrice(w) ==
    {e \in {Entry(orders[i].side, orders[i].price, i) : i \in snapshot[w]} : e.price > 0}

\* Orders of the snapshot whose price is free are adopted, one for each price.
Untaken(w) ==
    {e \in {Entry(orders[i].side, orders[i].price, i) : i \in snapshot[w]} :
        /\ e.price > 0
        /\ \A f \in mem.active : f.side # e.side \/ f.price # e.price}

SyncAdopt(w) ==
    /\ pc[w] = "sells"
    /\ missing[w] = {} /\ dropping[w] = None
    /\ \E new \in SUBSET Untaken(w) :
          /\ \A e \in Untaken(w) :
                Cardinality({f \in new : f.side = e.side /\ f.price = e.price}) = 1
          /\ mem' = [mem EXCEPT !.active = @ \cup new]
    /\ After(w, "price")
    /\ snapshot' = [snapshot EXCEPT ![w] = {}]
    /\ UNCHANGED <<exchangeVars, saved, enabled, risk, tickVars, missing,
                   dropping, days>>

-----------------------------------------------------------------------------
(***************************************************************************)
(* Price, stale orders, regime and trend.                                  *)
(***************************************************************************)
TickKeeps == UNCHANGED <<exchangeVars, saved, enabled, risk, level, adjust,
                         syncVars, days>>

\* A price that cannot be read, and a flash crash, end the tick unsaved.
PriceFails ==
    /\ At("price")
    /\ Goto("idle")
    /\ UNCHANGED <<mem, work>> /\ TickKeeps

Crashed == 1000 * (mem.lastPrice - market) > FlashCrash * mem.lastPrice

FetchPrice ==
    /\ At("price")
    /\ IF mem.lastPrice > 0 /\ Crashed
       THEN /\ mem' = [mem EXCEPT !.halted = TRUE, !.lastPrice = market]
            /\ Goto("idle")
       ELSE /\ mem' = [mem EXCEPT !.lastPrice = market]
            /\ Goto("stale")
    /\ UNCHANGED work /\ TickKeeps

\* int() of a bound in units of price.
Truncated(x) == (x \div (1000 * Whole)) * Whole

Drifted(e) ==
    IF e.side = "BUY" THEN e.price < Truncated(mem.lastPrice * (1000 - Stale))
    ELSE e.price > Truncated(mem.lastPrice * (1000 + Stale))

\* _cancel_stale_orders forgets the order whether or not the cancel succeeded;
\* any order may have become older than MAX_ORDER_AGE_SECONDS.
CancelStale(e) ==
    /\ At("stale")
    /\ e \in mem.active
    /\ CancelOrder(e.id)
    /\ mem' = Untrack(mem, e)
    /\ UNCHANGED <<market, saved, enabled, risk, pc, tickVars, syncVars, days>>

CancelStaleDone ==
    /\ At("stale")
    /\ \A e \in mem.active : ~Drifted(e)
    /\ Goto("regime")
    /\ UNCHANGED <<mem, work>> /\ TickKeeps

LowerOf(x, y) == IF x < y THEN x ELSE y
HigherOf(x, y) == IF x > y THEN x ELSE y

\* _apply_regime_adjustment: the high_vol factor has no ceiling in the code;
\* MaxSpacing bounds it here.
Adjusted(regime) ==
    CASE regime = "low_vol" ->
           [spacing |-> HigherOf(10, (adjust.spacing * 67) \div 100),
            floor |-> HigherOf(5, (adjust.floor * 4) \div 5),
            levels |-> LowerOf(BaseLevels + 1, 5)]
      [] regime = "high_vol" ->
           [adjust EXCEPT !.floor = (@ * 3) \div 2,
                          !.levels = HigherOf(BaseLevels - 1, 1)]
      [] regime = "normal" -> Defaults

Regime(regime) ==
    /\ At("regime")
    /\ IF regime = "extreme"
       THEN /\ mem' = [mem EXCEPT !.halted = TRUE]
            /\ Goto("save")
            /\ UNCHANGED adjust
       ELSE /\ Adjusted(regime).floor <= MaxSpacing
            /\ adjust' = Adjusted(regime)
            /\ Goto("trend")
            /\ UNCHANGED mem
    /\ UNCHANGED <<exchangeVars, saved, enabled, risk, work, level, syncVars, days>>

\* The lots _check_stop_loss visits; the trend decides whether it is reached.
Trend(trend) ==
    /\ At("trend")
    /\ IF trend = "bearish"
       THEN Goto("bear") /\ work' = Tracked("BUY")
       ELSE Goto("stops") /\ work' = Range(mem.lots)
    /\ UNCHANGED mem /\ TickKeeps

BearCancel(e) ==
    /\ At("bear")
    /\ e \in work
    /\ CancelOrder(e.id)
    /\ mem' = Untrack(mem, e)
    /\ IF mem' = mem THEN Goto("idle") /\ work' = {}
       ELSE work' = work \ {e} /\ UNCHANGED pc
    /\ UNCHANGED <<market, saved, enabled, risk, level, adjust, syncVars, days>>

BearDone ==
    /\ At("bear")
    /\ work = {}
    /\ Goto("save")
    /\ UNCHANGED <<mem, work>> /\ TickKeeps

-----------------------------------------------------------------------------
(***************************************************************************)
(* _place_grid_order and the risk gate it passes.                          *)
(***************************************************************************)
RiskTrips == ~risk.halted /\ (risk.pnl < -RiskMaxLoss \/ risk.streak >= RiskMaxStreak)

Allowed(side) ==
    /\ side = "BUY" => Cardinality(mem.active) < RiskMaxOpen
    /\ side = "SELL" => FreeCoins >= 1

NewOrder(side, price, tracked) ==
    LET id == Cardinality(UsedIds) + 1
    IN  /\ id \in OrderIds
        /\ orders' = [orders EXCEPT ![id] =
                        [state |-> "open", side |-> side, price |-> price]]
        /\ mem' = IF tracked THEN [mem EXCEPT !.active =
                         Untrack(mem, Entry(side, price, id)).active
                           \cup {Entry(side, price, id)}]
                  ELSE mem

\* The order exists and is tracked; placed is what else the caller records.
Accepted(side, price) ==
    /\ Allowed(side) /\ ~risk.halted /\ ~RiskTrips
    /\ NewOrder(side, price, TRUE)
    /\ UNCHANGED <<risk, enabled>>

\* False is returned: refused by a balance, the rate limit, the exchange or the
\* risk manager (whose _halt also disables the bot), or the answer is lost and
\* the order exists.
NotAccepted(side, price) ==
    \/ UNCHANGED <<orders, mem, risk, enabled>>
    \/ /\ Allowed(side) /\ RiskTrips
       /\ risk' = [risk EXCEPT !.halted = TRUE]
       /\ enabled' = FALSE
       /\ UNCHANGED <<orders, mem>>
    \/ /\ Allowed(side) /\ ~risk.halted /\ ~RiskTrips
       /\ NewOrder(side, price, FALSE)
       /\ UNCHANGED <<risk, enabled>>

\* The risk manager's own day ends.
RiskDay ==
    /\ days < MaxDays
    /\ risk.pnl # 0
    /\ days' = days + 1
    /\ risk' = [risk EXCEPT !.pnl = 0]
    /\ UNCHANGED <<exchangeVars, mem, saved, enabled, pc, tickVars, syncVars>>

-----------------------------------------------------------------------------
(***************************************************************************)
(* _check_stop_loss, one lot at a time.                                    *)
(***************************************************************************)
StopKeeps == UNCHANGED <<market, saved, pc, level, adjust, syncVars, days>>

RecordOf(lot) == {s \in mem.stops : s.lot = lot}
Stands(s) == \E e \in Tracked("SELL") : e.price = s.at
Fell(lot) == 1000 * (lot - mem.lastPrice) >= StopLoss * lot
Ran(s) == 1000 * mem.lastPrice < s.at * (1000 - Chase)

\* A placed stop: without a record, or with a record whose order has left the
\* book, the lot stays marked and is passed over.
StopPass(lot) ==
    /\ At("stops")
    /\ lot \in work
    /\ lot \in mem.triggered
    /\ \A s \in RecordOf(lot) : Stands(s) => ~Ran(s)
    /\ mem' = [mem EXCEPT !.stops = {s \in @ : s.lot = lot => Stands(s)}]
    /\ work' = work \ {lot}
    /\ UNCHANGED <<orders, risk, enabled>> /\ StopKeeps

\* The market ran away from the resting limit: cancel, then place afresh.
StopChase(lot) ==
    /\ At("stops")
    /\ lot \in work
    /\ lot \in mem.triggered
    /\ \E s \in RecordOf(lot) :
          /\ Stands(s) /\ Ran(s)
          /\ LET old == CHOOSE e \in Tracked("SELL") : e.price = s.at
             IN  /\ CancelOrder(old.id)
                 /\ mem' = [Untrack(mem, old) EXCEPT !.stops = @ \ {s},
                                                     !.triggered = @ \ {lot}]
    /\ UNCHANGED <<work, risk, enabled>> /\ StopKeeps

StopNotNeeded(lot) ==
    /\ At("stops")
    /\ lot \in work \ mem.triggered
    /\ ~Fell(lot)
    /\ work' = work \ {lot}
    /\ UNCHANGED <<orders, mem, risk, enabled>> /\ StopKeeps

StopPlaced(lot) ==
    LET at == (mem.lastPrice \div Whole) * Whole
        placed == Entry("SELL", at, Cardinality(UsedIds) + 1)
    IN  /\ At("stops")
        /\ lot \in work \ mem.triggered
        /\ Fell(lot)
        /\ Allowed("SELL") /\ ~risk.halted /\ ~RiskTrips
        /\ placed.id \in OrderIds
        /\ orders' = [orders EXCEPT ![placed.id] =
                        [state |-> "open", side |-> "SELL", price |-> at]]
        /\ mem' = [mem EXCEPT
              !.active = Untrack(mem, placed).active \cup {placed},
              !.triggered = @ \cup {lot},
              !.stops = {s \in @ : s.lot # lot} \cup {[lot |-> lot, at |-> at]}]
        /\ work' = work \ {lot}
        /\ UNCHANGED <<risk, enabled>> /\ StopKeeps

StopRefused(lot) ==
    /\ At("stops")
    /\ lot \in work \ mem.triggered
    /\ Fell(lot)
    /\ NotAccepted("SELL", (mem.lastPrice \div Whole) * Whole)
    /\ work' = work \ {lot}
    /\ StopKeeps

StopsDone ==
    /\ At("stops")
    /\ work = {}
    /\ Goto("grid")
    /\ UNCHANGED <<mem, work>> /\ TickKeeps

-----------------------------------------------------------------------------
(***************************************************************************)
(* The grid: BUY and SELL of each level, then the snapshot.                *)
(***************************************************************************)
\* The spacing of this tick, raised to the floor that covers the fees.
Gap == (mem.lastPrice * HigherOf(adjust.spacing, HigherOf(5, adjust.floor))) \div 1000

NextLevel == IF level[2] = "BUY" THEN <<level[1], "SELL">> ELSE <<level[1] + 1, "BUY">>

GridEnds ==
    level[2] = "BUY" /\ (level[1] > adjust.levels \/ Cardinality(mem.active) >= MaxOpen)

\* With nothing to buy and at most one sale standing the offset is 0.7 %.
GridPrice ==
    IF level[2] = "BUY" THEN mem.lastPrice - Gap * level[1]
    ELSE IF Tracked("BUY") = {} /\ Cardinality(Tracked("SELL")) <= 1
         THEN (mem.lastPrice * 1007 + 500) \div 1000
         ELSE mem.lastPrice + Gap * level[1]

GridKeeps == UNCHANGED <<market, saved, pc, work, adjust, syncVars, days>>

GridTaken == \E e \in Tracked(level[2]) : e.price = GridPrice

GridSkip ==
    /\ At("grid") /\ ~GridEnds
    /\ GridTaken
    /\ level' = NextLevel
    /\ UNCHANGED <<orders, mem, risk, enabled>> /\ GridKeeps

GridPlaced ==
    /\ At("grid") /\ ~GridEnds
    /\ ~GridTaken
    /\ Accepted(level[2], GridPrice)
    /\ level' = NextLevel
    /\ GridKeeps

GridRefused ==
    /\ At("grid") /\ ~GridEnds
    /\ ~GridTaken
    /\ NotAccepted(level[2], GridPrice)
    /\ level' = NextLevel
    /\ GridKeeps

GridDone ==
    /\ At("grid") /\ GridEnds
    /\ level' = <<1, "BUY">>
    /\ Goto("save")
    /\ UNCHANGED <<exchangeVars, mem, saved, enabled, risk, work, adjust, syncVars, days>>

Save ==
    /\ At("save")
    /\ saved' \in IF SaveFails THEN {saved, mem} ELSE {mem}
    /\ Goto("idle")
    /\ UNCHANGED <<exchangeVars, mem, enabled, risk, tickVars, syncVars, days>>

-----------------------------------------------------------------------------
Exchange == \/ \E i \in OrderIds : Fill(i) \/ CancelOutside(i)
            \/ \E p \in Prices : Move(p)

Sync == \E w \in Workers : \/ SyncAsk(w) \/ SyncDrop(w) \/ SyncSells(w) \/ SyncAdopt(w)
                           \/ \E e \in missing[w] : SyncVerify(w, e)

Next ==
    \/ Exchange
    \/ Kill \/ Enable \/ Crash \/ RiskDay
    \/ \E w \in Restarts : ForceRestart(w)
    \/ Begin \/ BeginDay \/ RebalanceDone \/ ReconcileDone
    \/ At("cancelAll") /\ \E e \in work : RebalanceCancel(e)
    \/ At("reconcile") /\ \E e \in work : ReconcileHalted(e)
    \/ \E e \in mem.active : CancelStale(e)
    \/ At("bear") /\ \E e \in work : BearCancel(e)
    \/ Sync
    \/ PriceFails \/ FetchPrice \/ CancelStaleDone
    \/ \E r \in Regimes : Regime(r)
    \/ \E t \in Trends : Trend(t)
    \/ BearDone
    \/ At("stops") /\ \E l \in work :
          \/ StopPass(l) \/ StopChase(l) \/ StopNotNeeded(l)
          \/ StopPlaced(l) \/ StopRefused(l)
    \/ StopsDone
    \/ GridSkip \/ GridPlaced \/ GridRefused \/ GridDone \/ Save

Spec == Init /\ [][Next]_vars

-----------------------------------------------------------------------------
(***************************************************************************)
(* What must hold.                                                         *)
(***************************************************************************)
\* No order is booked twice in the state the bot works with, whatever crash,
\* lost answer or refused save came between (the order_times and active_...
\* bookkeeping of _sync_open_orders), as long as no second sync runs beside it.
BookedOnce == \A i \in OrderIds : mem.booked[i] <= 1

\* A fill booked on the exchange's word is a fill, and an order that is still
\* open is never in the books of the bot (_verify_fill's verdicts).
FillsAreReal ==
    \A i \in OrderIds : mem.booked[i] > 0 /\ i \notin mem.assumed
                           => orders[i].state = "filled"

\* The marks of the stop-loss are keyed by the price of a lot: a mark and the record
\* of a stop order live no longer than the lot, in memory and in the snapshot a
\* restart loads, whatever sale, chase, canceled stop, refused save or crash came
\* between. A mark left behind would pass over the next lot bought at that price
\* (_match_buy_for_sell and the chase of _check_stop_loss; no second sync beside it).
StopsBelongToLots ==
    \A m \in {mem, saved} :
        /\ m.triggered \subseteq Range(m.lots)
        /\ \A s, t \in m.stops : /\ s.lot \in m.triggered
                                 /\ s.lot = t.lot => s = t

\* While the symbol is halted no new order reaches the exchange, whoever else
\* runs (the halt check at the head of _tick, and the returns after each halt).
HaltStopsOrders == [][mem.halted => UsedIds' = UsedIds]_vars

\* "A safety halt is persistent ... only the explicit enable/reset path may
\* clear state.halted" (the comment in _tick).
HaltPersists == [][mem.halted /\ ~mem'.halted => Enable]_vars

\* "Only marks the stop as triggered if the exchange ACCEPTED the order ... Do
\* NOT mark triggered - the position is still unprotected": past the stop check
\* a lot under its threshold that counts as triggered has its stop standing.
TriggeredIsProtected ==
    At("grid") => \A l \in mem.triggered \cap Range(mem.lots) :
                     Fell(l) => \E s \in RecordOf(l) : Stands(s)

\* "Cancels and re-places it at the new current price": the stop that a new one
\* replaces is gone, every SELL that is still open is in the book. (TLC refutes it:
\* the cancel of the chase may have failed, the answer of the last stop been lost.)
StopsAreReplaced ==
    [][(\E l \in work : StopPlaced(l)) =>
          \A i \in OpenIds : orders[i].side = "SELL" => \E e \in mem.active : e.id = i]_vars

\* The order a stop rests on serves one lot. (TLC refutes it: lots that fall below
\* their threshold in one tick get stops at one price, active_sells keeps the last
\* order of a price, and the other one is open and in no book.)
OneLotPerStop == \A s, t \in mem.stops : s.at = t.at => s = t
=============================================================================
