------------------------------ MODULE MCEvidence ------------------------------
(***************************************************************************)
(* Instances for TLC of what the strategy service concludes from evidence  *)
(* and what it writes in its books: the risk gate up to the paper fill,    *)
(* EVM evidence, the sell monitor, the signal log, the trade journal, the  *)
(* portfolio ledger, the backtester, the futures research and the replay   *)
(* of world markets. They share no state here, so one behavior runs one of *)
(* them: this run is the disjoint union of their state graphs.             *)
(***************************************************************************)
EXTENDS SignalLog, RiskToFill, PortfolioLedger, Evidence

VARIABLES
    active,     \* the component of this behavior
    entries, mirrored,
    btSetup, btBar, btBefore, btAnchored, btBuys, btSells, btBook, btBlocked, btFills, btPeak,
    btDrawdown, btFolds

Sound ==
    [chain |-> "solana", identified |-> TRUE, decoder |-> "known", invalidated |-> FALSE, age |-> 1,
     authority |-> TRUE, holders |-> 40, clustered |-> 40, liquidity |-> 9000, depth |-> 9000,
     locked |-> 90, lockExpires |-> "late", lpLocked |-> "true", custody |-> "true",
     custodyRequired |-> FALSE, sellStatus |-> "passed", sellFlag |-> "true", conflict |-> FALSE,
     incomplete |-> FALSE, providers |-> 2, prices |-> {100, 140}, controls |-> [mint |-> "false"],
     fee |-> 100, event |-> FALSE, priced |-> TRUE, ready |-> TRUE, demand |-> TRUE,
     cluster |-> [alert |-> "false", severity |-> None, share |-> None, age |-> None, conflict |-> FALSE]]

Scans ==
    {Sound,
     [Sound EXCEPT !.ready = FALSE, !.sellFlag = "true", !.sellStatus = None],
     [Sound EXCEPT !.age = 3], [Sound EXCEPT !.age = -2],
     [Sound EXCEPT !.providers = 1], [Sound EXCEPT !.prices = {100, 160}],
     [Sound EXCEPT !.controls = [mint |-> "active"]],
     [Sound EXCEPT !.cluster.alert = "true", !.cluster.age = 3],
     [Sound EXCEPT !.cluster.severity = "high", !.cluster.age = 1],
     [Sound EXCEPT !.chain = "tron"], [Sound EXCEPT !.invalidated = TRUE],
     [Sound EXCEPT !.event = TRUE, !.priced = FALSE, !.liquidity = None, !.providers = 1, !.authority = FALSE],
     [Sound EXCEPT !.lockExpires = "soon"], [Sound EXCEPT !.clustered = 60],
     [Sound EXCEPT !.incomplete = TRUE]}

Offers == {[id |-> 1, sameContext |-> TRUE, expected |-> 333, simulated |-> 330, quotedAt |-> 0, expires |-> 3],
           [id |-> 2, sameContext |-> TRUE, expected |-> 333, simulated |-> 331, quotedAt |-> 1, expires |-> 2]}

EvmEndpoint(provider, adapter, required, chains, group, secret) ==
    [provider |-> provider, adapter |-> adapter, required |-> required, chains |-> chains,
     group |-> group, secret |-> secret]
EvmEndpoints == <<EvmEndpoint("goplus", "goplus", TRUE, {"base", "bsc"}, "none", "k"),
                  EvmEndpoint("honeypot", "honeypot", TRUE, {"base"}, "sim", "none"),
                  EvmEndpoint("simulator", "simulation", FALSE, {"base"}, "sim", "none"),
                  EvmEndpoint("locker", "lp_custody", FALSE, {"base"}, "none", "none")>>
EvmRegistry(enabled, approved, bound) == [enabled |-> enabled, approved |-> approved, bound |-> bound]
EvmRegistries == {EvmRegistry(FALSE, FALSE, {}), EvmRegistry(TRUE, FALSE, {"k"}),
                  EvmRegistry(TRUE, TRUE, {}), EvmRegistry(TRUE, TRUE, {"k"})}
HoneypotSays(honeypot, sold, simulated) ==
    [honeypot |-> honeypot, sold |-> sold, simulated |-> simulated, status |-> "unknown"]
EvmPayloads ==
    [goplus |-> {[honeypot |-> "0", mint |-> "1"], [honeypot |-> "1"]},
     honeypot |-> {HoneypotSays("0", "true", "true"), HoneypotSays("1", "true", "true"),
                   HoneypotSays("0", "none", "false")},
     simulation |-> {[sold |-> "true", simulated |-> "true", status |-> "passed"],
                     [sold |-> "none", simulated |-> "true", status |-> "reverted"]},
     lp_custody |-> {[locked |-> "90"], [locked |-> "unknown"]}]

SellLog(at, index, sell, wallet, amount, usd) ==
    [at |-> at, index |-> index, known |-> TRUE, sell |-> sell, wallet |-> wallet,
     amount |-> amount, usd |-> usd]
Sale(tx, chain, logs) ==
    [tx |-> tx, chain |-> chain, failed |-> FALSE, placed |-> TRUE, removed |-> FALSE, logs |-> logs]
SolanaSale == Sale("t1", "solana", <<SellLog(0, 0, TRUE, "a", 10, "none"),
                                     SellLog(1, 0, FALSE, "a", 10, "none")>>)
EvmSale == Sale("t2", "base", <<SellLog(0, 0, TRUE, "b", 10, "some"),
                                SellLog(1, 1, TRUE, "a", 20, "some")>>)

LedgerTrade(id, currency, status, exit, closed, direction) ==
    [id |-> id, scope |-> "acct", platform |-> "binance", currency |-> currency,
     direction |-> direction, quantity |-> 2, entry |-> 10, exit |-> exit, fee |-> 1,
     status |-> status, opened |-> 1, closed |-> closed]
LedgerTrades == {LedgerTrade(11, "USD", "open", -1, -1, 1), LedgerTrade(11, "USD", "closed", 14, 2, 1),
                 LedgerTrade(12, "THB", "closed", 7, 2, -1)}
LedgerAlpha == {[request |-> 13, action |-> action, price |-> 40, cost |-> 1, payout |-> 100,
                 units |-> 2, observed |-> 1, settled |-> 2] : action \in {"TRADE_PAPER", "WAIT"}}
LedgerRow(status, realized, created, updated) ==
    [status |-> status, estimated |-> 30, realized |-> realized, cost |-> 2,
     created |-> created, updated |-> updated]
LedgerAccounts == {[scope |-> "acct", platform |-> "binance", currency |-> "USD", starting |-> 100]}
LedgerRows == {LedgerRow("not_started", -1, -1, -1), LedgerRow("completed", -1, 0, 1),
               LedgerRow("claimed", 50, 0, 2), LedgerRow("claimed", -1, 0, 1)}

BtCandle(high, low, close, calm) == [high |-> high, low |-> low, close |-> close, calm |-> calm]
BtCandles == {BtCandle(101, 99, 100, TRUE), BtCandle(101, 93, 97, TRUE),
              BtCandle(112, 99, 108, FALSE), BtCandle(104, 90, 96, FALSE)}
BtSetup(simple, scoring) ==
    [geometric |-> simple, dgt |-> simple, desperation |-> simple, mtf |-> simple,
     scoring |-> scoring]
BtSetups == {BtSetup(TRUE, FALSE), BtSetup(FALSE, TRUE)}
Earnings == {-5, 5}

ResearchBar(open, high, low, close) == [open |-> open, high |-> high, low |-> low, close |-> close]
ResearchBars == {ResearchBar(100, 106, 99, 105), ResearchBar(104, 105, 80, 82), ResearchBar(85, 88, 84, 86)}
Variant(futures, short, leverage) ==
    [futures |-> futures, short |-> short, leverage |-> leverage, fast |-> 1, slow |-> 2, threshold |-> 20]
Variants == <<Variant(FALSE, FALSE, 1), Variant(TRUE, TRUE, 5)>>

Quote(ask, size, age) ==
    [yesBid |-> ask - 2, yesAsk |-> ask, noBid |-> 45, noAsk |-> 46, mid |-> 50, size |-> size,
     liquidity |-> 500, age |-> age, sound |-> TRUE, active |-> TRUE]
Quotes == {Quote(40, 1, 0), Quote(45, -1, -1), Quote(44, 2, 31), Quote(30, 2, 0)}

MCCallerLiquidity == [locked |-> "80"]
MCFeeds == {{SolanaSale}, {EvmSale}}
MCTies == {[from |-> "a", to |-> "b", kind |-> "same_owner", confidence |-> 95]}
MCHoldings == [w \in {"a", "b", "c"} |-> IF w = "c" THEN 12 ELSE 10]
MCFunding == <<[at |-> 4, bps |-> 0 - 3]>>
MCGate == [drawdown |-> 60, sharpe |-> 0, profitable |-> 50, beatSpot |-> TRUE]

Journal == INSTANCE TradeJournal WITH
    TradeIds <- {"o", "q"}, MaxEntries <- 3
Bt == INSTANCE Backtest WITH
    Candles <- BtCandles, Setups <- BtSetups, Spacings <- {5}, BtLevels <- 2, BtSize <- 1000,
    BtCapital <- 180000000, Reinvest <- 50, DesperateAfter <- 2, DesperatePercent <- 50,
    WarmupTrades <- 1, LastBar <- 5, TunedValues <- <<10, 20>>, TunedResults <- Earnings,
    Folds <- 2, setup <- btSetup, bar <- btBar, before <- btBefore, anchored <- btAnchored,
    buys <- btBuys, sells <- btSells, book <- btBook, blocked <- btBlocked, fills <- btFills,
    peak <- btPeak, drawdown <- btDrawdown, folds <- btFolds

-----------------------------------------------------------------------------
\* The variables of an instance that is not the active one stay what they are;
\* those whose modules are extended stay in an initial state.
Off == "off"
JournalVars == <<entries, mirrored>>
JournalOff == entries = Off /\ mirrored = Off
BtVars == <<btSetup, btBar, btBefore, btAnchored, btBuys, btSells, btBook, btBlocked, btFills,
             btPeak, btDrawdown, btFolds>>
BtOff ==
    /\ btSetup = Off /\ btBar = Off /\ btBefore = Off /\ btAnchored = Off
    /\ btBuys = Off /\ btSells = Off /\ btBook = Off /\ btBlocked = Off
    /\ btFills = Off /\ btPeak = Off /\ btDrawdown = Off /\ btFolds = Off

Init ==
    /\ active \in {"risk", "evm", "sell", "log", "journal", "ledger", "backtest", "research", "replay"}
    /\ RiskInit /\ LogInit /\ LedgerInit
    /\ EvidenceInit
    /\ active # "sell" => DOMAIN onChain = CHOOSE feed \in Feeds : TRUE
    /\ active # "evm" => registry = CHOOSE r \in Registries : TRUE
    /\ IF active = "journal" THEN Journal!TradeInit ELSE JournalOff
    /\ IF active = "backtest" THEN Bt!BtInit ELSE BtOff

Next ==
    /\ UNCHANGED active
    /\ \/ /\ active = "risk" /\ RiskNext
          /\ UNCHANGED <<evmVars, sellVars, logVars, JournalVars, ledgerVars, BtVars,
                          researchVars, replayVars>>
       \/ /\ active = "evm" /\ EvmNext
          /\ UNCHANGED <<riskVars, sellVars, logVars, JournalVars, ledgerVars, BtVars,
                          researchVars, replayVars>>
       \/ /\ active = "sell" /\ SellNext
          /\ UNCHANGED <<riskVars, evmVars, logVars, JournalVars, ledgerVars, BtVars,
                          researchVars, replayVars>>
       \/ /\ active = "log" /\ LogNext
          /\ UNCHANGED <<riskVars, evmVars, sellVars, JournalVars, ledgerVars, BtVars,
                          researchVars, replayVars>>
       \/ /\ active = "journal" /\ Journal!TradeNext
          /\ UNCHANGED <<riskVars, evmVars, sellVars, logVars, ledgerVars, BtVars,
                          researchVars, replayVars>>
       \/ /\ active = "ledger" /\ LedgerNext
          /\ UNCHANGED <<riskVars, evmVars, sellVars, logVars, JournalVars, BtVars,
                          researchVars, replayVars>>
       \/ /\ active = "backtest" /\ Bt!BtNext
          /\ UNCHANGED <<riskVars, evmVars, sellVars, logVars, JournalVars, ledgerVars,
                          researchVars, replayVars>>
       \/ /\ active = "research" /\ ResearchNext
          /\ UNCHANGED <<riskVars, evmVars, sellVars, logVars, JournalVars, ledgerVars, BtVars, replayVars>>
       \/ /\ active = "replay" /\ WReplayNext
          /\ UNCHANGED <<riskVars, evmVars, sellVars, logVars, JournalVars, ledgerVars, BtVars,
                          researchVars>>

vars == <<active, riskVars, evmVars, sellVars, logVars, JournalVars, ledgerVars, BtVars,
           researchVars, replayVars>>
Spec == Init /\ [][Next]_vars

-----------------------------------------------------------------------------
\* One type invariant for all components.
TypeOK ==
    /\ RiskTypeOK /\ LogTypeOK /\ LedgerTypeOK
    /\ EvmTypeOK /\ SellTypeOK /\ WReplayTypeOK /\ ResearchTypeOK
    /\ active = "journal" => Journal!TradeTypeOK
    /\ active = "backtest" => Bt!BtTypeOK

\* The reports balance: capital, position and lots of a backtest are what its
\* fills make them, and the trades of a futures run explain its cash.
ReportsBalance ==
    /\ active = "backtest" => Bt!BacktestBalances
    /\ TradesExplainCash
=============================================================================
