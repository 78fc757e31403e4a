-------------------------- MODULE PolymarketPaper --------------------------
(***************************************************************************)
(* The paper bot for prediction markets.  A scan fetches the active        *)
(* markets, scores their signals, closes positions and opens new ones; a   *)
(* kill switch stops scans.  From the answers of the fetches to the save a *)
(* scan runs without an await.  Prices are per cent, NO costs what YES     *)
(* leaves of 100; time is counted in days.                                 *)
(***************************************************************************)
EXTENDS Integers, FiniteSets, FiniteSetsExt

CONSTANTS
    PolyMarkets,
    PolyReadings,   \* what the feed may say of a market, see Signals
    PolySizes,      \* stakes Kelly may come to
    PolyBankroll, MinBankroll,
    MaxOpenPositions, MaxPerSignal,
    TakeProfit, StopLossAt, MinEdge,      \* per cent
    MaxHold, LossCooldown,                \* days
    DailyLoss, MaxDrawdown, MaxLosses, MaxFailures,
    PolyTrades, PolyDays                  \* bounds: positions opened, days

VARIABLES
    poly, polySaved,   \* the bot's state and its copy in Redis
    polyCooldown,      \* day of the last stop-loss of a market; not saved
    polyDay,
    polyScan           \* the scan: where it stands, the feed, positions to do

polyVars == <<poly, polySaved, polyCooldown, polyDay, polyScan>>

Never == -LossCooldown
NoScan == [at |-> "idle", feed |-> <<>>, todo |-> {}, counts |-> <<>>]

PolyInit ==
    /\ poly = [open |-> {}, realized |-> 0, trades |-> 0, cash |-> PolyBankroll,
               peak |-> PolyBankroll, killed |-> FALSE, dayPnl |-> 0, date |-> -1,
               losses |-> 0, failures |-> 0]
    /\ polySaved = poly
    /\ polyCooldown = [m \in PolyMarkets |-> Never]
    /\ polyDay = 0
    /\ polyScan = NoScan

PolyTypeOK ==
    /\ \A p \in poly.open :
          /\ p.market \in PolyMarkets /\ p.side \in {"YES", "NO"}
          /\ p.entry \in 1 .. 99 /\ p.size \in PolySizes /\ p.id \in 1 .. PolyTrades
    /\ poly.killed \in BOOLEAN /\ poly.losses \in Nat /\ poly.failures \in 0 .. MaxFailures
    /\ polyCooldown \in [PolyMarkets -> Never .. PolyDays]
    /\ polyScan.at \in {"idle", "fetching", "exits", "entries", "save"}

-----------------------------------------------------------------------------
(***************************************************************************)
(* _analyze_all_signals: which signals fire, and for which side.           *)
(***************************************************************************)
PriceOf(reading, side) == IF side = "YES" THEN reading.yes ELSE reading.no

Signals(r) ==
    LET both(type, cond(_)) == {<<type, s>> : s \in {t \in {"YES", "NO"} : cond(t)}}
        favoured == IF r.yes > 50 THEN "YES" ELSE "NO"
    IN  IF ~r.traded THEN {} ELSE
        both("mispricing", LAMBDA s : r.yes + r.no # 100
                                      /\ (s = "YES" <=> r.yes <= r.no))
        \cup both("time_decay", LAMBDA s : r.near /\ r.yes \notin 15 .. 85
                                           /\ (s = "YES" <=> r.yes > 85))
        \cup both("extreme_value", LAMBDA s : r.liquid /\ PriceOf(r, s) \in 4 .. 19)
        \cup both("volume_spike", LAMBDA s : r.spike /\ s = favoured)
        \cup both("cross_market", LAMBDA s : \/ r.crypto > 0 /\ s = "YES" /\ r.yes < 85
                                             \/ r.crypto < 0 /\ s = "NO" /\ r.yes > 15)
        \cup both("news_sentiment", LAMBDA s : r.news /\
                     IF r.yes > 40 THEN s = "YES" ELSE r.no > 40 /\ s = "NO")
        \cup both("liquidity_alpha", LAMBDA s : r.liquid /\ r.stale
                     /\ ((s = "NO" /\ r.yes > 70) \/ (s = "YES" /\ r.yes \in 6 .. 29)))

\* A signal for a side that costs nothing is left out: a position bought at zero
\* makes _resolve_position raise.
ASSUME PolyAmounts ==
    /\ PolySizes \subseteq Nat /\ PolyBankroll \in Nat
    /\ \A r \in PolyReadings :
          /\ r.yes \in Nat /\ r.no \in Nat
          /\ \A signal \in Signals(r) : PriceOf(r, signal[2]) > 0

\* An opportunity: the signals agreeing on a side of a market; any of them may be
\* the primary, listed first, and the confidence they add up to is left open.
Opportunities ==
    {[market |-> m, side |-> s, primary |-> t[1]] :
        m \in DOMAIN polyScan.feed, s \in {"YES", "NO"},
        t \in UNION {Signals(polyScan.feed[n]) : n \in DOMAIN polyScan.feed}}

IsOpportunity(o) == <<o.primary, o.side>> \in Signals(polyScan.feed[o.market])

Agreeing(o) == {t[1] : t \in {u \in Signals(polyScan.feed[o.market]) : u[2] = o.side}}

-----------------------------------------------------------------------------
(***************************************************************************)
(* Closing.                                                                *)
(***************************************************************************)
Pnl(p) == ((p.price - p.entry) * p.size) \div p.entry
PnlPct(p) == (100 * (p.price - p.entry)) \div p.entry
NoEdge(entry) == 100 * (100 - entry) < MinEdge * entry

ShouldExit(p) ==
    \/ PnlPct(p) >= TakeProfit
    \/ PnlPct(p) <= -StopLossAt
    \/ polyDay - p.day > MaxHold
    \/ NoEdge(p.entry)

\* _on_position_closed: the kill switch looks at the cash, stakes excluded.
Tripped(b) ==
    \/ b.dayPnl <= -DailyLoss
    \/ b.losses >= MaxLosses
    \/ 100 * (b.peak - b.cash) >= MaxDrawdown * b.peak

\* Fault: only the stake comes back.
ClosedForStake(b, p) ==
    LET c == [b EXCEPT !.cash = @ + p.size, !.realized = @ + Pnl(p)]
    IN  [c EXCEPT !.killed = @ \/ Tripped(c)]

Closed(b, p) ==
    LET cash == b.cash + p.size + Pnl(p)
        c == [b EXCEPT !.cash = cash, !.realized = @ + Pnl(p),
                       !.peak = IF cash > @ THEN cash ELSE @,
                       !.dayPnl = @ + Pnl(p),
                       !.losses = IF Pnl(p) < 0 THEN @ + 1 ELSE 0]
    IN  [c EXCEPT !.killed = @ \/ Tripped(c)]

-----------------------------------------------------------------------------
(***************************************************************************)
(* A scan.                                                                 *)
(***************************************************************************)
BeginScan ==
    /\ polyScan.at = "idle"
    /\ IF poly.killed
       THEN polyScan' = [NoScan EXCEPT !.at = "save"] /\ UNCHANGED poly
       ELSE /\ poly' = IF poly.date = polyDay THEN poly
                       ELSE [poly EXCEPT !.date = polyDay, !.dayPnl = 0]
            /\ polyScan' = [NoScan EXCEPT !.at = "fetching"]
    /\ UNCHANGED <<polySaved, polyCooldown, polyDay>>

FetchFails ==
    /\ polyScan.at = "fetching"
    /\ LET failures == IF poly.failures < MaxFailures THEN poly.failures + 1
                       ELSE MaxFailures
       IN  poly' = [poly EXCEPT !.failures = failures,
                                !.killed = @ \/ failures >= MaxFailures]
    /\ polyScan' = [NoScan EXCEPT !.at = "save"]
    /\ UNCHANGED <<polySaved, polyCooldown, polyDay>>

\* Every signal of every open position is counted, before any of them is closed;
\* what a scan itself enters is counted by its primary alone.
Counts == [t \in UNION {p.signals : p \in poly.open} |->
              Cardinality({p \in poly.open : t \in p.signals})]

\* A market that is closed, filtered out or beyond the third page is not in it.
FetchEvents ==
    /\ polyScan.at = "fetching"
    /\ \E listed \in SUBSET PolyMarkets : \E feed \in [listed -> PolyReadings] :
          polyScan' = [at |-> "exits", feed |-> feed, counts |-> Counts,
                       todo |-> {p.id : p \in {q \in poly.open : q.market \in listed}}]
    /\ poly' = [poly EXCEPT !.failures = 0]
    /\ UNCHANGED <<polySaved, polyCooldown, polyDay>>

\* Resolved markets first; only a close by _check_exit starts a cooldown.
UpdatePosition(p) ==
    LET reading == polyScan.feed[p.market]
        now == [p EXCEPT !.price = PriceOf(reading, p.side)]
        closes == reading.resolved \/ ShouldExit(now)
        rest == [poly EXCEPT !.open = @ \ {p}]
    IN  /\ polyScan.at = "exits"
        /\ p.id \in polyScan.todo
        /\ ~reading.resolved =>
             \A q \in poly.open : q.id \in polyScan.todo => ~polyScan.feed[q.market].resolved
        /\ polyScan' = [polyScan EXCEPT !.todo = @ \ {p.id}]
        /\ poly' = IF closes THEN Closed(rest, now) ELSE [rest EXCEPT !.open = @ \cup {now}]
        /\ polyCooldown' = IF closes /\ ~reading.resolved /\ Pnl(now) < 0
                           THEN [polyCooldown EXCEPT ![p.market] = polyDay]
                           ELSE polyCooldown
        /\ UNCHANGED <<polySaved, polyDay>>

PositionsDone ==
    /\ polyScan.at = "exits"
    /\ polyScan.todo = {}
    /\ polyScan' = [polyScan EXCEPT !.at = "entries"]
    /\ UNCHANGED <<poly, polySaved, polyCooldown, polyDay>>

CountOf(t) == IF t \in DOMAIN polyScan.counts THEN polyScan.counts[t] ELSE 0

\* _maybe_enter; the kill switch is not looked at again.
MayEnter(o, price) ==
    /\ CountOf(o.primary) < MaxPerSignal
    /\ poly.cash >= MinBankroll
    /\ \A p \in poly.open : p.market # o.market
    /\ polyDay - polyCooldown[o.market] >= LossCooldown
    /\ Cardinality(poly.open) < MaxOpenPositions
    /\ ~NoEdge(price)

\* Quarter Kelly, never more than a tenth of the bankroll.
Kelly == {s \in PolySizes : 10 * s <= poly.cash}

EnterPosition(o) ==
    /\ polyScan.at = "entries"
    /\ IsOpportunity(o)
    /\ LET price == PriceOf(polyScan.feed[o.market], o.side)
       IN  /\ MayEnter(o, price)
           /\ poly.trades < PolyTrades
           /\ \E size \in Kelly :
                 poly' = [poly EXCEPT !.cash = @ - size, !.trades = @ + 1,
                    !.open = @ \cup {[id |-> poly.trades + 1, market |-> o.market,
                       side |-> o.side, entry |-> price, price |-> price, size |-> size,
                       signals |-> Agreeing(o), day |-> polyDay]}]
    /\ polyScan' = [polyScan EXCEPT !.counts =
          [t \in DOMAIN @ \cup {o.primary} |-> CountOf(t) + (IF t = o.primary THEN 1 ELSE 0)]]
    /\ UNCHANGED <<polySaved, polyCooldown, polyDay>>

EndScan ==
    /\ polyScan.at = "entries"
    /\ polyScan' = [NoScan EXCEPT !.at = "save"]
    /\ UNCHANGED <<poly, polySaved, polyCooldown, polyDay>>

\* A failing Redis is only logged.
SavePoly ==
    /\ polyScan.at = "save"
    /\ polySaved' \in {polySaved, poly}
    /\ polyScan' = NoScan
    /\ UNCHANGED <<poly, polyCooldown, polyDay>>

\* reset_kill_switch may come while a scan awaits; it saves in the background.
ResetKill ==
    /\ polyScan.at \in {"idle", "fetching", "save"}
    /\ poly' = [poly EXCEPT !.killed = FALSE, !.losses = 0, !.dayPnl = 0,
                            !.failures = 0, !.peak = poly.cash]
    /\ polySaved' \in {polySaved, poly'}
    /\ UNCHANGED <<polyCooldown, polyDay, polyScan>>

RestartPoly ==
    /\ poly' = polySaved
    /\ polyCooldown' = [m \in PolyMarkets |-> Never]
    /\ polyScan' = NoScan
    /\ UNCHANGED <<polySaved, polyDay>>

NextDay ==
    /\ polyDay < PolyDays
    /\ polyDay' = polyDay + 1
    /\ UNCHANGED <<poly, polySaved, polyCooldown, polyScan>>

PolyNext ==
    \/ BeginScan \/ FetchFails \/ FetchEvents \/ PositionsDone \/ EndScan \/ SavePoly
    \/ \E p \in poly.open : UpdatePosition(p)
    \/ \E o \in Opportunities : EnterPosition(o)
    \/ ResetKill \/ RestartPoly \/ NextDay

PolySpec == PolyInit /\ [][PolyNext]_polyVars

-----------------------------------------------------------------------------
\* The bankroll and the open stakes are the initial bankroll plus the realized
\* profit, in memory and in what a restart would load: no close returns a stake
\* twice, whatever scans, resets, failed saves and restarts come between; and
\* a market is never bet on twice at once.
StakesConserved ==
    \A b \in {poly, polySaved} :
        /\ b.cash + MapThenSumSet(LAMBDA p : p.size, b.open) = PolyBankroll + b.realized
        /\ \A p, q \in b.open : p.market = q.market => p = q

\* "Activate kill switch - stop all trading": no position is opened while it is
\* active. (TLC refutes it: a close that trips the switch is followed by the
\* entries of the same scan, which do not look at it.)
KillStopsEntries ==
    [][poly.killed => {p.id : p \in poly'.open} \subseteq {p.id : p \in poly.open}
                      \/ polyScan'.at = "idle"]_polyVars
=============================================================================
