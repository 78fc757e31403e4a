--------------------------- MODULE ArbitragePaper ---------------------------
(***************************************************************************)
(* The paper bot for arbitrage between Binance Global (in USDT), Binance   *)
(* TH and Bitkub (in THB): a scan reads the exchange rate and, asset by    *)
(* asset, the prices, and trades on paper when the spread pays the fees.   *)
(* Rates and Bitkub prices are cached.  Prices are ticks of THB, the rate  *)
(* is in per cent of the usual one, money in THB.                          *)
(***************************************************************************)
EXTENDS Integers, FiniteSets

CONSTANTS
    ArbAssets,
    ArbPrices, ArbRates,
    ArbCapital,              \* PAPER_CAPITAL_THB
    RateCache, BitkubCache,  \* how long cached values serve, in scans
    ArbTrades                \* bound: trades

VARIABLES
    arb, arbSaved,   \* ArbitrageState, and its JSON in Redis
    arbRate,         \* cached USDT/THB rate and its age
    arbBitkub,       \* cached Bitkub prices and their age
    arbLeft          \* assets the scan has still to do; {} between two scans

arbVars == <<arb, arbSaved, arbRate, arbBitkub, arbLeft>>

FreshArb == [capital |-> ArbCapital, peak |-> ArbCapital, pnl |-> 0, trades |-> 0,
             wins |-> 0, losses |-> 0]

NoRate == [rate |-> 0, age |-> RateCache]
NoTickers == [prices |-> [a \in ArbAssets |-> 0], age |-> BitkubCache]
Silent == -1   \* an exchange that did not answer

ArbTypeOK ==
    /\ {arb, arbSaved} \subseteq
         [capital : Int, peak : Int, pnl : Int, trades : Nat, wins : Nat, losses : Nat]
    /\ arbRate.rate \in ArbRates \cup {0, 100} /\ arbRate.age \in 0 .. RateCache
    /\ arbBitkub.age \in 0 .. BitkubCache
    /\ arbLeft \subseteq ArbAssets

ArbInit ==
    /\ arb = FreshArb /\ arbSaved = FreshArb
    /\ arbRate = NoRate
    /\ arbBitkub = NoTickers
    /\ arbLeft = {}

-----------------------------------------------------------------------------
(***************************************************************************)
(* A scan.                                                                 *)
(***************************************************************************)
Aged(age, limit) == IF age < limit THEN age + 1 ELSE limit

\* _update_usdt_thb_rate: within the cache time nothing is asked; a transport
\* error falls back on a usual rate, but only when there never was one.
Rates ==
    IF arbRate.rate > 0 /\ arbRate.age < RateCache
    THEN {[arbRate EXCEPT !.age = @ + 1]}
    ELSE {[rate |-> r, age |-> 0] : r \in ArbRates}
         \cup {arbRate, [arbRate EXCEPT !.rate = IF @ = 0 THEN 100 ELSE @]}

StartScan ==
    /\ arbLeft = {}
    /\ arbRate' \in Rates
    /\ arbBitkub' = [arbBitkub EXCEPT !.age = Aged(@, BitkubCache)]
    /\ arbLeft' = ArbAssets
    /\ UNCHANGED <<arb, arbSaved>>

\* Bitkub's tickers: asked when the cache is old or empty; a ticker missing in
\* the answer keeps its old price, an answer other than 200 the whole cache.
Empty(cache) == \A a \in ArbAssets : cache.prices[a] = 0

Tickers ==
    IF arbBitkub.age = BitkubCache \/ Empty(arbBitkub)
    THEN {[prices |-> [a \in ArbAssets |-> IF q[a] = 0 THEN arbBitkub.prices[a] ELSE q[a]],
           age |-> 0] : q \in [ArbAssets -> ArbPrices \cup {0}]}
         \cup {arbBitkub}
    ELSE {arbBitkub}

\* _fetch_all_prices: an exchange that does not answer is left out.  Global
\* prices are converted, by a rate that may still be zero.
Quotes(global, th, bitkub) ==
    LET answers == [global |-> IF global = Silent THEN Silent
                               ELSE (global * arbRate.rate) \div 100,
                    th |-> th,
                    bitkub |-> IF bitkub = 0 THEN Silent ELSE bitkub]
    IN  [e \in {x \in DOMAIN answers : answers[x] # Silent} |-> answers[e]]

\* _find_arbitrage: the cheapest and the dearest.
IsBest(quotes, buy, sell) ==
    /\ buy # sell
    /\ \A e \in DOMAIN quotes : quotes[buy] <= quotes[e] /\ quotes[e] <= quotes[sell]

\* The spread in hundredths of a per cent, less the fee of both trades.
NetSpread(buy, sell) == (10000 * (sell - buy)) \div buy - 20

\* A tenth of the capital, 2000 THB at most, 100 at least.
Stake(s) == IF s.capital \div 10 > 2000 THEN 2000 ELSE s.capital \div 10

Profit(stake, buy, sell) ==
    LET proceeds == (stake * sell) \div buy
    IN  proceeds - stake - (stake + proceeds) \div 1000

\* _execute_paper_trade, which runs without an await.
Traded(s, buy, sell) ==
    LET gain == Profit(Stake(s), buy, sell)
        capital == s.capital + gain
    IN  [capital |-> capital, pnl |-> s.pnl + gain, trades |-> s.trades + 1,
         peak |-> IF capital > s.peak THEN capital ELSE s.peak,
         wins |-> s.wins + (IF gain > 0 THEN 1 ELSE 0),
         losses |-> s.losses + (IF gain > 0 THEN 0 ELSE 1)]

Pays(s, buy, sell) ==
    NetSpread(buy, sell) > 0 /\ Stake(s) >= 100 /\ s.trades < ArbTrades

\* A cheapest price of zero raises, which leaves the asset out.
ScanAsset(a) ==
    /\ a \in arbLeft
    /\ arbBitkub' \in Tickers
    /\ \E global, th \in ArbPrices \cup {Silent} :
          LET quotes == Quotes(global, th, arbBitkub'.prices[a])
          IN  \/ /\ \A b, d \in DOMAIN quotes :
                       IsBest(quotes, b, d) /\ quotes[b] > 0
                         => ~Pays(arb, quotes[b], quotes[d])
                 /\ UNCHANGED arb
              \/ \E b, d \in DOMAIN quotes :
                    /\ IsBest(quotes, b, d) /\ quotes[b] > 0
                    /\ Pays(arb, quotes[b], quotes[d])
                    /\ arb' = Traded(arb, quotes[b], quotes[d])
    /\ arbLeft' = arbLeft \ {a}
    /\ arbSaved' \in (IF arbLeft' = {} THEN {arb', arbSaved} ELSE {arbSaved})
    /\ UNCHANGED arbRate

\* reset replaces the state in the middle of a scan as well and deletes the key
\* in the background, possibly before the loop saves again.
ResetArb ==
    /\ arb' = FreshArb
    /\ arbSaved' \in {FreshArb, arbSaved}
    /\ UNCHANGED <<arbRate, arbBitkub, arbLeft>>

\* Stopped or crashed, and started again.
RestartArb ==
    /\ arb' = arbSaved
    /\ arbRate' = NoRate /\ arbBitkub' = NoTickers
    /\ arbLeft' = {}
    /\ UNCHANGED arbSaved

ArbNext ==
    \/ StartScan \/ ResetArb \/ RestartArb
    \/ \E a \in ArbAssets : ScanAsset(a)

ArbSpec == ArbInit /\ [][ArbNext]_arbVars

-----------------------------------------------------------------------------
\* The capital is explained by the trades: whatever resets, crashes and restarts
\* came between, it is the initial one plus the profits booked, every trade is
\* a win or a loss, and the drawdown is measured from the highest capital.
CapitalExplained ==
    \A s \in {arb, arbSaved} :
        /\ s.capital = ArbCapital + s.pnl
        /\ s.wins + s.losses = s.trades
        /\ s.peak >= s.capital /\ s.peak >= ArbCapital
=============================================================================
