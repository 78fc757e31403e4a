# Formal models of the booktrading bots

TLA+ models of the parts of booktrading that decide about money, the TLC
configurations that check them on small instances, and theorems about them
that TLAPS checks for every instance. Every definition is a translation of the
source; `PROJECT.json` names the lines of each ("map"), the runs, the
deliberately wrong variants each property must catch ("mutants"), the
disagreements found ("findings") and the hazards the properties are aimed at.

    tlc -workers 2 -config MCGridRestart.cfg MCGridOrders.tla
    tlapm GridOrders_proofs.tla        (and the other seven *_proofs modules, section 5)

## 1. The system

booktrading is three programs: a Go backend (bots, exchanges, paper engine,
HTTP and gRPC), a Python strategy service (its own bots, research, journals)
and a web frontend. The parts, their state and how they meet:

| part | state it keeps | operations | meets |
|---|---|---|---|
| grid bot (`grid_orders.go`, `implementation.go`) | per run: book (position, held levels), one pending order; shared: running flag, trade counter | Start, Stop, tick = reconcile or decide and submit | exchange manager, HTTP handlers |
| signal/auto bot (`signal_orders.go`, `implementation.go`) | per run: pending order per symbol; shared: map of tracked positions | signal, stop-loss walk, Start, Stop | the same, plus the signal channel |
| exchange manager (`manager.go`, `exchange_handler.go`) | current provider, API keys, adapters | select, configure, delete, balances of all exchanges | every bot reads the provider on every call |
| adapters (`order_reconcile.go`, `bitkub_reconcile.go`, `orders_v3.go`, `binance*_adapter.go`) | none | place, look up and cancel by client order ID, with classified outcomes | exchanges over HTTP |
| paper engine (`paper_engine.go`) | balances, positions, open orders | place, price update, cancel | the paper bots of both programs |
| real grid bot and risk manager (`real_grid_bot.py`, `risk_manager.py`) | active orders by price, lots, stops, halt flag, snapshot in Redis; kill switch, streaks | tick: limits, sync, cancel stale, regime, stops, grid, save; enable, disable, force restart | backend API, Redis |
| simulated bots (`grid_bot.py`, `dca_bot.py`, `trend_bot.py`, `futures_bot.py`, `arbitrage_paper_bot.py`, `polymarket/paper_bot.py`) | orders, positions, capital, snapshot in Redis, kill switches | one coroutine each: read, judge, trade, save | paper engine, exchanges, brain |
| brain (`brain/`) | cached directive, circuit breaker | ask for a directive | the paper grid bot |
| signals and life cycle (`strategy.py`, `grpc_client.py`, `redis_adapter.py`, `app.py`, `webhook_notifier.py`) | cooldowns, connection, tasks, notifier queue, announced milestones | market data in, order out, publish; start, scan, announce, shut down | backend over gRPC, Redis, chat |
| on-chain lake (`onchain_landing.py`, `onchain_stream.py`, `onchain_compaction.py`) | immutable objects, checkpoint, pending transactions | land, restore, compact; notify, enrich, retry, backfill | object store, RPC node |
| world markets (`world/`) | immutable snapshots, replay book | fetch, import, land, restore, replay | object store, market API |
| gates and evidence (`risk_gate.py`, `evm_provider.py`, `evm_security.py`, sell adapters, `wallet_intelligence.py`, `signal_logger.py`) | windows of sells, seen events, signal log | decide, collect, merge, ingest, log, evaluate | providers, Redis |
| intents and books (`trade_intent.py`, `paper_execution.py`, `portfolio/`, `alpha/`, `trade_journal.py`) | receipts, trades, rewards, reserved exposure, journal | propose, simulate, record, review, settle, replay | SQLite, backend |
| research (`backtester.py`, `research/`) | capital, lots, trades of a run | replay bars, tune, walk forward, report | files |
| the rest | CRUD, numerics, notification, presentation | | listed in `PROJECT.json` with the reason each is not modelled |

What makes the modelled parts hard:

- *Unreliable delivery.* A submission may time out after, before or without
  being accepted; the bots tag each order with a client order ID and look an
  unknown one up before doing anything else.
- *Interleaving.* A call to an exchange is long; meanwhile the order fills or
  expires, the operator stops and restarts the bot, and a balance request moves
  the provider. Goroutines of stopped runs share fields with the new run.
- *Crash.* Pending orders and books of the Go bots are in memory only; the
  Python bots reload a snapshot of the last completed tick, or of an older one
  when a save was refused.
- *Shared values.* One Redis key holds a whole log, one lake has several
  writers, one paper account several bots, and a directive or a rate is cached
  while the world moves on.
- *Time.* Not-found is believed after a grace, an open order goes stale, a
  cancel is repeated after an interval.
- *Partial fills.* They reach the position, the held levels and the size of
  the exits.

## 2. Modules

| module | models | composed of |
|---|---|---|
| `GridBook` | the pure part of the grid: `gridAction`, `gridLevel`, `check`, `record` | |
| `GridOrders` | runs of the grid bot, exchange, clock | extends `GridBook` |
| `GridLedger` | abstract specification: one affordable working order per run | implemented by `GridOrders` |
| `GridOrders_proofs`, `GridUnderPolls_proofs`, `AutoOrders_proofs`, `RealGrid_proofs` | theorems about the Go bots and the real grid bot | extend the module they are named after; `GridUnderPolls_proofs` also `GridOrders_proofs` |
| `Landing_proofs` | theorems about what is landed and remembered | extends `Lakes`, `OnchainStream` |
| `Decisions_proofs` | theorems about who may decide and act: the exchange manager's provider, the Brain, the signal log, the gate, the pipeline | extends `ExchangeProvider`, `GridBrain`, `SignalLog`, `RiskToFill`, `SignalPipeline` |
| `Books_proofs` | theorems about budgets, stakes, ledgers and clusters, which are sums, and about what a decision is shown | extends `AlphaJournal`, `FuturesBot`, `PolymarketPaper`, `PortfolioLedger`, `Evidence` |
| `PaperBots`, `PaperBots_proofs` | the paper grid, the baht bots, the arbitrage bot and the service side by side, and what their books promise; the theorems about it | extends `PaperGrid`, `ThbBots`, `ArbitragePaper`, `StrategyService` |
| `ExchangeProvider` | `currentProvider`, the operator, balance requests | |
| `GridUnderPolls` | the grid and balance requests in one process | extends `GridOrders`, instantiates `ExchangeProvider` |
| `AutoOrders` | the auto bot: signals, stop-loss walk, orders per symbol, tracked positions | |
| `RealGrid` | the real grid bot, its risk manager, operator, snapshot and exchange | |
| `PaperGrid`, `GridBrain` | the simulated grid bot on the paper engine; the brain it asks | |
| `ThbBots` | the DCA and the trend bot on one baht account | |
| `FuturesBot` | the futures bot: entries, protection, reconciliation | |
| `ArbitragePaper`, `PolymarketPaper` | the two paper bots with their own capital | |
| `SignalPipeline` | market data to signal, order and publication | |
| `StrategyService` | start, scan, announcements, notifier, shutdown | |
| `ObjectStore` | create-if-absent objects | used by the lakes |
| `OnchainLake`, `OnchainStream` | landing and compaction; the stream before it | `OnchainLake` extends `ObjectStore` |
| `Lakes` | the two lakes side by side and what both promise | extends `OnchainLake`, `WorldLake` |
| `WorldLake`, `WorldReplay` | import and landing of world markets; their replay | `WorldLake` extends `ObjectStore` |
| `AlphaJournal` | evaluator, durable journal, forward replay | |
| `RiskToFill` | risk gate, intent, paper execution | |
| `EvmEvidence`, `SellMonitor` | EVM providers and their merge; sell events and windows | |
| `Evidence` | what is shown to a decision side by side and what it promises | extends `SellMonitor`, `EvmEvidence`, `WorldReplay`, `FuturesResearch` |
| `SignalLog`, `TradeJournal` | the log signals are judged by; the trade journal | |
| `PortfolioLedger` | trades, rewards, accounts, replay, projections | |
| `Backtest`, `FuturesResearch` | the grid backtester; the futures engine and its walk-forward gate | |
| `MCGridOrders`, `MCGridUnderPolls`, `MCRealGrid` | the instances TLC checks; `AutoOrders` and `ExchangeProvider` need none | extend the module they are named after |
| `MCPaperBots`, `MCStores`, `MCEvidence` | instances of several modules in one run | extend the components that have theorems, instantiate the others (section 3) |

### GridOrders against the code

A run is one call of `Start`; `pc[r]` is where its goroutine is: `idle` between
ticks, `decided` after `gridStep` has composed an order, `placing` while
`ex.place` is under way, `placed` or `looked` with an answer (`reply[r]`) it has
not applied, `cancelling` while `ex.cancel` is under way. `order[r]` is the
`gridPendingOrder`, `position[r]`, `held[r]` and `seq[r]` are the `gridBook`.
`orders` is the exchange's side of each client order ID and `inventory[r]` what
the account really holds because of that run; the code sees neither.

`Decide` is `executeGridTrading` and `gridStep` up to the call (ticker price,
last look at the context, `check`). Every request carries the run's context, so
`Submit` of a cancelled run reaches nobody and its outcome is unknown
(`PlaceUnknown`). `PlaceAnswered`, `PlaceRejected` and `PlaceUnknown` are the
three outcomes of `classifyOrderResponse`; Bitkub's accepted placement tells no
state, hence the additional "open". `Lookup` takes the exchange's answer and
`Apply*` apply it, one per branch of `applyGridReport`; `ApplyOpen` goes on to
`cancelStaleGridOrder` after a lookup only. Between two of these steps anything
else may happen. `Arrive`, `Execute` and `Expire` are the exchange, `Tick` is
the clock: it may not pass the age at which a submission in flight is dropped
(`MaxFlight`) or an answer has timed out (`MaxCall`).

Quantities and prices are integers, so the tolerance `positionEpsilon` of the
float comparisons has nothing to do. Tickers, broadcasts and logs are left out:
a tick without a usable price changes nothing.

### ExchangeProvider and GridUnderPolls against the code

A balance request walks the stored exchanges: `SaveOriginal`, `SwitchTo`,
`Fetch`, `SwitchBack` are the four statements of the loop in `GetAllBalances`,
each of which takes the manager's lock on its own. `Pointed` is
`SetCurrentProvider`, which refuses a provider without a key; the handler drops
its error. Several requests walk at once and the operator acts at any moment.
Two history variables say when a walk had the choice for itself: `crossed` once
two visits have overlapped or the operator has selected during one (selecting
anew between visits clears it), `clean[q]` the exchanges with a key that request
`q` visited while nobody else came in. The properties hold up to there;
`AlwaysSwitchedBack` and `AlwaysOwnAccount` say the same without the limit and
are refuted (section 6). `GridUnderPolls` lets those steps move the `provider` that every
placement, lookup and cancel of `GridOrders` reads: a lookup at an exchange
other than the order's (`venue`) says not found.

### AutoOrders against the code

`tracked` is `s.positions`, shared by all runs and replaced by Start and Stop.
`Signal` is `handleAutoSignal` up to the trade, `BeginWalk`, `VisitSells` and
`VisitPasses` are `checkStopLossTakeProfit`, whose copy of the positions is
`walk[r]`. `Ask` is `executeSignalTrade`; `asked` then either looks the symbol's
pending order up or composes a new one (`Size` is the clamp to the tracked
position). `Conclude` is what `signalTradeStep` does with a final order: report
success, or go on to place the order this call asked for. `ClosePosition` is the
caller's `delete(s.positions, symbol)`, a step of its own because it takes the
lock again and does not look at the context. Prices are abstracted to the choice
between a visit that sells and one that passes. A signal that is skipped
(`WAITING`, weak, no price) is not a step. The signal-only mode is not modelled.

### RealGrid against the code

`mem` is the bot's `GridState` and `saved` the snapshot in Redis; `orders` is
the exchange, `market` its price. A tick is one coroutine, and the event loop
runs other handlers whenever it awaits; each action ends at such an await.
`pc["tick"]` names the await: `Begin` and `BeginDay` are the head of `_tick`
(daily reset, `CheckLimits`), `ReconcileHalted` what a halted tick still does,
`RebalanceCancel` the cancels of a rebalance, `SyncAsk`, `SyncVerify`,
`SyncSells`, `SyncDrop` and `SyncAdopt` the parts of `_sync_open_orders`,
`FetchPrice` with `Crashed` the flash-crash breaker, `CancelStale`, `Regime`,
`Trend`, `BearCancel` the next steps, `Stop*` the stop-loss walk with its chase,
`Grid*` one placement each, and `Save` the snapshot. `Book` is what both
branches of the sync write when an order counts as filled; `mem.booked` counts
how often, as a history variable. `Crash` loads `saved`. `Kill` and `Enable`
are the operator's endpoints, `ForceRestart` starts a second worker in the sync.
The risk manager (`risk`) is asked before every order (`Allowed`) and told of
every sell (`RiskTrips`). Prices are whole ticks, percentages per mille, every
order has one quantity.

### The simulated bots and the service against the code

Every module has one action per stretch of code between two awaits.
`PaperGrid` moves the bot (`grid`), the engine (`engine`) and the market. The
engine's `UpdatePrice` and the bot's sync are loops over orders: each is one
step per order (`gridStep` is `"fill"` or `"book"`), in any order as the code
walks a map and a set, and no other step of engine or bot comes in between, as
the engine holds its mutex and the sync does not await. `OtherBotTrades` is
another bot on the same engine. `GridBrain` counts time in
calls; a call is one action, since the breaker, the cache and the merge run
under no await that another call of the symbol could use. `ThbBots` has both
baht bots on one account, whose answers get lost, tell of a part only or name no
quantity, so that the whole of an order is booked for executed; `dcaDone` counts
what was really executed and whether the book went astray from it. `PaperGrid`'s
`GridPlace` may lose the answer of an accepted order, too.
`FuturesBot` reads the position, judges, orders, protects and saves, and each
request may fail before or after it took effect. `ArbitragePaper` goes asset by
asset through a scan with cached rates. `PolymarketPaper` has the exits and the
entries of a scan; from the answers to the save nothing awaits, so only days,
restarts and resets come between scans. `SignalPipeline` works on one signal at
a time, as the gRPC client blocks the loop; `Replace` is what the two requests
`/api/strategy/config` and `/api/strategy/reset` do to the global strategy between
two messages: new history, no cooldowns, no executor. `StrategyService` has the
lifespan, the scanner, the notifier's bounded queue with waiting tasks, and a crash
at every step. `Offer` is the first line of every `send_...`: without a webhook it
returns, nothing waits, and the scan goes on to its save. `Scan` may skip gates and
milestones, as the code does when the statistics cannot be read.

### The stores and the evidence against the code

`ObjectStore` is the one primitive of both lakes: create if absent, compare the
checksum otherwise. `OnchainLake` puts checkpoint, frame, Bronze row and
manifest in the order of `write_raw`, by writers that stop anywhere and whose
answers get lost; compactors plan, write and commit beside each other, one that
finds another's manifest accepts it if it names the same parts and rows
(`CompactionAgrees`), and `Verifies` is the check of a committed compaction. `OnchainStream` has the connection, the
enrichment tasks, the retry of pending transactions, the backfill and the
checkpoint a restart loads. `WorldLake` is client, source, importer and
`write_snapshot`; `WorldReplay` plays frames. `AlphaJournal` makes a review
and a settlement one step each (`BEGIN IMMEDIATE`) and replays cases in the
order of time. In `RiskToFill` scans, proposals, evaluations and restarts of
the gateway interleave; a field no provider gave is `None`. `EvmEvidence` lets
each provider answer, fail or retry. `MergeSection` is `_merge_sections`: of the
claims of a section the one of the first endpoint stands, and another one is a
conflict (`Disputed`); `Told` is what a collection returns for the calls it made.
`SellMonitor` decodes, revises finality, admits and adds up windows; a cluster
(`ClusterOf`), which the code finds with a union-find, is the smallest group of
wallets with the given one that no relation of ownership leads out of.
`SignalLog` makes load and save two steps; `TradeJournal` mirrors entries
through calls that may fail. `PortfolioLedger` records in any order and
compares what it answers: the projection of the ledger per currency, the
balance an account has available, and the metrics of a snapshot. `Backtest` is one action per bar plus the sweep and
the folds; `FuturesResearch` runs the engine as a fold over bars inside the
actions that train, test and report.

## 3. Runs

| run | shows | bounds |
|---|---|---|
| `MCGridRestart` | `OneLiveOrder`, `SettledExactly`, `HeldCoversPosition`, `TradesCountFills`, `TypeOK` | 2 runs of 2 orders, one quantity each, a BUY and a SELL price |
| `MCGridLevels` | `InventoryWithinCap`, `BookIsInventory`, `ImplementsLedger` | 1 run, 4 orders of 2 units, cap 3, four prices over three levels |
| `MCGridLive` | `PendingResolved`, `StoppedRunEnds` | 2 runs of 1 order under `FairSpec` |
| `MCProviderAlone` | `SwitchedBack`, `OwnAccountRead`, `TypeOK` | 2 exchanges, 2 requests at once, operator acts at any moment |
| `MCGridPolled` | `FillsAreReal` | 2 exchanges, one request beside one run of 2 orders |
| `MCAutoBot` | `OneLiveOrderPerSymbol`, `NeverOversold`, `TrackedIsHeld`, `TypeOK` | 1 run, 2 symbols, 3 orders of 2 units |
| `MCRealGrid` | `BookedOnce`, `FillsAreReal`, `StopsBelongToLots`, `HaltStopsOrders`, `TypeOK` | 2 orders, 3 prices, 1 day end, crashes and refused saves anywhere |
| `MCPaperBots` | `BooksAreTrue`, `StakesConserved`, `CrashHaltsBuys`, `OnePositionPerSymbol`, `SignalsActOnce`, `TypeOK` | `PaperBots` (four modules), `GridBrain`, `FuturesBot`, `PolymarketPaper`, `SignalPipeline` (one replaced strategy) |
| `MCStores` | `ExposureBudgeted`, `NoHindsight`, `LakesKeepTheirWord`, `AlertOwed`, `TypeOK` | `AlphaJournal` (journal and replay), `Lakes` (two writers, two compactors), `OnchainStream` |
| `MCEvidence` | `FillsRestOnEvidence`, `BooksAgree`, `VerdictsAreEarned`, `EvidenceIsSound`, `ReportsBalance`, `TypeOK` | `SignalLog`, `RiskToFill`, `PortfolioLedger`, `Evidence`, `TradeJournal` and `Backtest` |
| `MCRealGridHalt` | fails: `HaltPersists` | as `MCRealGrid` |
| `MCStreamEvidence` | fails: `EvidenceFirst` | as `MCStores` |

Why the bounds are enough to be interesting. Two orders of one run are needed
for a double submission, two runs for a stale goroutine beside a new one; a
quantity of two is needed for a partial fill, three levels and a cap that is not
a multiple of the quantity for the cap and the release of levels to interact,
four orders for a level to be bought, sold and bought again. The delays keep the
order of the real ones (flight and call together below the grace, the grace not
above the stale age); their absolute values do not matter as ages are only
compared. A smaller grace is what breaks `OneLiveOrder`; the mutant of that
property does so.

`MCRealGrid`: two orders give a lot and its exit or its stop, three prices a
stop-loss, a chase and a flash crash. Bounded further, so that the run ends:
`Restarts` is empty (no sync beside the tick; section 6), status queries answer
(`StatusFails`; with them failing the same properties hold over 11.8 million
states), and the regime is `normal` (with `extreme`, which halts and saves, they
hold over 14.4 million states, too many for a run of five minutes). A crash may
come at every await and the save may be refused every time. Section 5 proves
the same properties without any of these bounds.

`MCProviderAlone`: two requests are the fewest that overlap, two exchanges the
fewest of which one is wrong. `MCGridPolled` has one request, which already turns
every lookup it can.

`MCPaperBots`, `MCStores` and `MCEvidence` put several components into one run.
These components share no state in the code either, or meet only through an
environment that each module already leaves open (the paper grid takes any
directive the brain can give, the ledger any settled alpha trade). So one
behavior runs one of them: the variable `active` picks it at the start, and
the others do not move. The components that have theorems are extended, so that
run and theorem speak of the same definitions; when they are not active they
stay in their initial state. The others are instantiated; their variables stay
`"off"` and their properties speak when they are active. The state graph is the
disjoint union of the components' graphs, and what is checked of a component is
what a run of its own would check. The instances are small on purpose in data (two symbols, markets,
tickers or wallets, a few prices) and large in events: each allows two of
whatever must not happen twice (two orders, positions, reviews of an instrument,
writers of a key, answers of a provider), a restart after each, and one more
step than the cap, queue or window holds. The exception is the list of pending
transactions of `OnchainStream`: it holds every signature of the instance, so
the truncation of a full list in a checkpoint is modelled and not reached. The
constants are in the `.cfg` and in the `INSTANCE` statements.

`CHECK_DEADLOCK FALSE` in all but the provider run: with the bounded number of
starts, orders, days or cases everything may have ended, which is a legal stop.

What the two failing runs show is in "findings": the halt of a price crash is
not saved and a crash of the process forgets it; the backfill after a reconnect
dispatches events the lake has no frame of.

`MCAutoBot` has one start. With two, `NeverOversold` fails by a rare
interleaving: the loop of the stopped run, about to drop the position it sold,
drops the position of the new run between that run's decision to sell and its
clamp to the tracked quantity. The hazard list names the line.

## 4. Fairness

`FairSpec` of `GridOrders` assumes that goroutines are scheduled (weak fairness
of `Submit`, `LoopExit`), that every HTTP call returns, as every client has a
timeout (weak fairness of `Answered`), that a submission arrives somewhere
(`Arrive`) and that time passes (strong fairness of `Tick`, as the timeouts
block it now and then). `Lookup` is strongly fair: each tick of the ticker tries
one while an order is pending, and lookups do not fail for ever. So is
`CancelAccepted`: it is requested again every minute, and needs an exchange that
does not refuse for ever. Nothing is assumed of Start, Stop, Crash or fills.

## 5. Proofs

Eight modules, one inductive invariant per component. Unless a hypothesis is
named, a theorem holds for all constants that satisfy the `ASSUME` of the
component's module (types and signs of parameters, which the constructors or
validators in the code enforce).

`GridOrders_proofs` proves for every number of runs, orders, levels, prices,
quantities and delays:

| theorem | statement |
|---|---|
| `TypeCorrect` | `Spec => []TypeOK` |
| `TruthHolds` | `Spec => []Truth` |
| `OneLiveOrderHolds` | `Spec => []OneLiveOrder` |
| `SettledExactlyHolds` | `Spec => []SettledExactly` |
| `InventoryWithinCapHolds` | `Spec => []InventoryWithinCap` |
| `BookIsInventoryHolds` | `Spec => []BookIsInventory` |
| `ImplementsLedgerHolds` | `Spec => ImplementsLedger` |

All but the first assume `GraceCoversDelays`: a submission in flight and a late
answer together take less than the grace. This is an assumption about the
exchange's receive window and the HTTP timeout (30 seconds each in the clients,
against `gridUnknownGrace`) that the code relies on; without it the mutant of
`OneLiveOrder` shows the double submission. The other assumptions are
`GridParams`, which `validateGridParams` enforces, and `Bounds`.

None of the invariants is inductive. The safety of an order depends on what the
run *believes*: an answer that was true when taken may be old when applied. The
inductive invariant has two layers.

- `TypeShape` = `TypeOK` and `Shape`: which variables are in use in which step
  of the goroutine (an answer exists exactly when one is to be applied; the
  pending order is the last one submitted). It is preserved on its own.
- `Truth`: an answer a run holds is still true in the sense that matters
  (`AnswerTrue`: "filled" and "done" never change any more; "not found" means
  that the order is gone for good, or that it is so young that the grace will
  not be over when the answer is applied); the account holds the book's position
  plus what the pending order has executed (`PendingOrder`); every earlier order
  is final and recorded exactly (`OldOrders`); a pending BUY still fits under the
  cap and a pending SELL is still covered.

Each action has a lemma that it preserves `Truth`; `OthersFrame` says once that
the other runs are not disturbed. The four invariants follow from `Truth` in a
few lines each. For the refinement, `WorkingOrder` maps a run's last live order
to the ledger's working order: `Submit` maps to `Submit` (to a stutter when the
context is cancelled and nothing is sent), `Execute` to `Execute`, the ends of an
order to `Withdraw`, everything else to a stutter.

`RealGrid_proofs` proves for every market, configuration, number of orders and
days, with lookups and saves that fail and every regime:

| theorem | statement |
|---|---|
| `TypeHolds` | `Spec => []TypeOK` |
| `FillsAreRealHolds` | `Spec => []FillsAreReal` |
| `HaltStopsOrdersHolds` | `Spec => HaltStopsOrders` |
| `StopsBelongToLotsHolds` | `Spec => []StopsBelongToLots`, if `Restarts = {}` |
| `BookedOnceHolds` | `Spec => []BookedOnce`, if `Restarts = {}` |

The first three hold for any number of forced restarts beside the tick.
`BookedOnce` is false with them (section 6). `StopsBelongToLots` rests on the stop
pass working on lots that nobody sells under it, which a second sync may do. So
both assume there are none. The only other
assumption is `Parameters`, the types of the constants. The invariant `Inv` adds
to the properties what makes them inductive: the exchange numbers its orders
without gaps, so a new order is never an old one (`Numbered`); both copies of the
state, `mem` and `saved`, are `Fine`, because a crash turns the second into the
first; and a halted symbol's tick rests outside `Running` (`HaltRests`). For
`BookedOnce`, `BookInv` says where the truth is while a sync is under way: what
is booked is over at the exchange and untracked, save for the entry whose
deletion is pending (`Once`); every order is in the sync's snapshot or over
(`SnapshotOpen`); what the sync misses is over and not booked (`MissingFinal`);
no sync leaves anything behind (`SyncRests`). For `StopsBelongToLots`, `HeldInv`
says of both copies of the state that a mark belongs to a lot (`Held`), and of a
stop pass under way that what it has still to look at are lots (`work`): every way
of losing a lot, a matched sale or a stop that filled, has to drop its mark in
the same step. `Inv` is preserved by a lemma for
each group of actions, `BookInv` likewise on top of it.

### The grid's ledgers, and balance requests

| theorem of `GridUnderPolls_proofs` | statement |
|---|---|
| `HeldCoversPositionHolds` | `Spec => []HeldCoversPosition` |
| `TradesCountFillsHolds` | `Spec => []TradesCountFills` |
| `LedgersUnderPolls` | `PollSpec => []Ledgers` |
| `FillsAreRealHolds` | `PollSpec => []FillsAreReal` |

These need no hypothesis on the delays: they do not rest on what the run
believes about an order but on what it writes down, so they also hold when a
balance request has turned the lookup to the wrong exchange. `Ledgers` is
`TypeShape` with two parts. `Books`: an order not yet settled is not recorded
(`Unrecorded`), so a fill is added once; the level of a pending BUY is free
(`LevelFree`), so recording it adds a level; and the position is at most one
quantity per held level (`Covered`). The last needs that a SELL releases at most
one level and only after it has taken a full quantity. `Real`: what was told or
recorded of an order is what the exchange executed.

### Provider and balance requests

`Decisions_proofs` proves `TypeHolds`, `SwitchedBackHolds`
(`Spec => []SwitchedBack`) and `OwnAccountReadHolds` (`Spec => []OwnAccountRead`)
for any exchanges, any number of requests at once and an operator who acts at any
moment, without a hypothesis. The invariant `Walk` has one part per property.
`Calm`: until two visits overlap or the operator selects during one, there is at
most one visit, and what it saved as `original` is what the operator selected, so
switching back restores it; between visits the choice is the operator's.
`Undisturbed`: a visit that is still clean is the only one, its target has a key,
and after the switch the choice is its target. `VisitedOnce` keeps what was read
of an exchange from being read again, so `ReadOwn` stays true once it is. What
the code does over an overlap is refuted in section 6, not assumed away.

### Auto bot

| theorem of `AutoOrders_proofs` | statement | hypothesis |
|---|---|---|
| `TypeHolds` | `Spec => []TypeOK` | |
| `OneLiveOrderHolds` | `Spec => []OneLiveOrderPerSymbol` | `GraceCoversDelays` |
| `NeverOversoldHolds` | `Spec => []NeverOversold` | the same, `MaxRuns = 1` |
| `TrackedIsHeldHolds` | `Spec => []TrackedIsHeld` | the same, `MaxRuns = 1` |

`Truth` is the argument of the grid once more, per symbol: a live order is the
pending order of its symbol, and an answer on its way is true or too young to
give up an order on. On top of it `Held` counts: what the account held before
the pending order traded (`Base`) covers the tracked position and a SELL that
may execute, and a visit of the walk or a SELL being asked for is about a
position that is still tracked. `Held` is false with a second run, whose
predecessor deletes its position (section 3), hence `MaxRuns = 1`.

### Lakes and stream

| theorem of `Landing_proofs` | statement |
|---|---|
| `LakesKeepTheirWordHolds` | `LakesSpec => []LakesKeepTheirWord` |
| `OwedWhileItFits` | `StreamSpec => [][Fits' => OwedStep]_streamVars` |
| `AlertOwedHolds` | `StreamSpec => AlertOwed`, if all signatures fit the checkpoint |

Both lakes only grow (`Grows`), so what was true of an object stays true. What
has to be invented is what a writer that stopped anywhere has already put
(`LandingSound`, `WriterSound`) and what an object vouches for (`ObjectSound`:
a manifest restores, a Bronze row lies in the partition that its event's only
checkpoint names, a compaction verifies). A manifest is written last, so its
soundness is the writer's soundness one step earlier.

A checkpoint holds at most `PendingLimit` pending transactions and drops the
rest (`onchain_stream.py`), so `AlertOwed` cannot hold for arbitrarily many.
`OwedWhileItFits` says exactly when nothing is forgotten: in every step after
which the pending transactions fit. `AlertOwedHolds` is the case in which they
always do, with the invariant `Pends`, by which only known signatures wait.

### Decisions

| theorem of `Decisions_proofs` | statement |
|---|---|
| `CrashHaltsBuysHolds` | `BrainSpec => []CrashHaltsBuys` |
| `CrashSeenHolds` | `BrainSpec => CrashSeen`: no crash between two calls is missed |
| `DirectivesBounded` | `BrainSpec => []BrainTypeOK` |
| `VerdictsAreEarnedHolds` | `LogSpec => []VerdictsAreEarned` |
| `FillsRestOnEvidenceHolds` | `RiskSpec => []FillsRestOnEvidence` |
| `SignalsActOnceHolds` | `PipeSpec => []SignalsActOnce` |

The Brain, for all prices, drop limits, cooldowns and refresh intervals
(`BrainConstants`): `BrainInv` joins the ranges of every field, the fact that
the breaker remembers the price of the last answer, and `CrashHaltsBuys`; the
bounds of a merged directive rest on `MeanBounds` (a weighted mean stays between
its least and largest value).

The signal log, for any number of tasks whose loads and saves interleave: the
invariant `Logs` holds of the log in Redis and of every copy a task has loaded,
as any of them may be saved next.

From gate to fill: `RiskInv` follows one piece of evidence through three
handlers. The scanned quote carries the decision of its own evidence
(`Annotated`), an intent was built from a decision that passed, no later than
now (`Founded`), and a fill has such an intent (`Filled`). `PassingIsSafe` is
the lemma about the gate: of its many rules, those that block make the evidence
safe by the plain definition `SafeEvidence`. `WithinSlippage` turns the code's
quotient into the inequality the user was promised.

The signal pipeline, if the cooldown is natural (`PipeTimes`): that the lists of
orders and publications ascend is not inductive. `PipeInv` adds `NotYet`, by
which the signal being worked on is on no list before the step that puts it
there, and `Counted`, by which a symbol's cooldown runs from the latest signal of
the strategy in force. Config and reset requests may come at any time between: a
signal belongs to the strategy that emitted it (`by`), and only the first one
has an executor. That two signals of a symbol are a cooldown apart whatever strategy
emitted them is false (`SymbolCoolsDown`, section 6).

### Budgets

| theorem of `Books_proofs` | statement |
|---|---|
| `ExposureBudgetedHolds` | `AlphaSpec => []ExposureBudgeted` |
| `NoHindsightHolds` | `AlphaSpec => []NoHindsight` |
| `OnePositionPerSymbolHolds` | `FutSpec => []OnePositionPerSymbol` |
| `StakesConservedHolds` | `PolySpec => []StakesConserved` |
| `BooksAgreeHolds` | `LedgerSpec => []BooksAgree` |

All five are about sums over sets of any size (`MapThenSumSet`). The induction
theorems of the library take an operator as a parameter, which the provers
cannot instantiate; so the first part of the module proves by smallest
counterexample (`LeastNat`, `NoneFails`) that the fold exists and that a sum is
natural, does not depend on the order, grows with the set and with one element
more (`RisksWith`, `RisksPart`, `TotalMap`), and that what weighs nothing may be
left out (`TotalSupport`). The rest needs no induction:

- `ExposureBudgeted` is inductive once every row is typed: a review adds a row
  only after comparing the sum (`BEGIN IMMEDIATE` makes both one step), a
  settlement takes one away.
- `NoHindsight` speaks of every earlier moment of the replay, while the code
  only compares its running list of active trades with the budget. `Tracked`
  relates the two: each active trade is a recorded one, and no recorded trade
  that is not due is missing. Cases come in the order of time, so a new trade
  is open at no moment that was decided before (`NewTradeFits`).
- `OnePositionPerSymbol`: the exchange's position of a symbol about to enter is
  zero (`Flat`), from the read at the head of the tick to the order, since only
  the symbol's own coroutine moves it; the entry is at most `FutSize` whatever
  the other symbols hold (`QuantityFits`).
- `StakesConserved` holds of the bot's book and of the one Redis has: `AddsUp` of
  both, with positions whose numbers and markets differ, so that a close takes
  out exactly one stake (`ClosingAddsUp`) and a new price none
  (`RepricingAddsUp`). `ScanSound` gives each position still to do a reading, as
  the feed a scan fetched stays while positions close. `PolyAmounts` asks for
  natural stakes and prices, and that no signal buys at a price of zero
  (section 7).
- `BooksAgree`: the projections, the available balance and the snapshot's metrics
  add up the same amounts over differently chosen records and by different
  rules of time (a trade closed after the snapshot is open to it). They agree
  because nothing is younger than the last event (`LatestCovers`), which
  `LedgerInv` makes inductive: no trade or reward is dated after today, none
  closes before it opens. A currency's or an account's records are then the
  support of both sums. `LedgerConstants` asks for whole amounts and dated rows.

### Evidence

`Books_proofs` also proves `EvidenceIsSoundHolds`, `EvidenceSpec => []EvidenceIsSound`,
for any feeds, wallets, relations, endpoints, payloads, quotes, bars and variants.
TLC checked its inductive invariant, `EvidenceInv`, on the instance of `MCEvidence`
first. It has one part for each module:

- `WindowsAreSound`: `SellInv`. An event held by the caller is eligible only where
  its transaction is final (`EventSound`), and final transactions do not move, so
  an event stays true after it was admitted. Each window is a sequence of such
  events with different keys (`WindowSound`). A transaction is final in one slot,
  so two events of one position have one key: a sale cannot be in a window twice,
  although the adapter forgets all positions when it is replaced (`NewAdapter`)
  and only the window's own keys remain. `UnexpiredIs` and `IngestIs` say what is left
  of a window after an event: some of its last ones and the new one, within
  `SellWindow` of each other unless the deque is full.
- `ClustersConcentrate` needs no invariant, it holds of every set of relations.
  Each wallet is in its own cluster (`OwnCluster`), so the clusters of the largest
  holders, at most as many, hold them all (`GroupsCover`), and a sum over groups is
  at least the sum over their union (`TotalUnion`); the largest of finitely many
  sums exists and is one of them (`GreatestNat`, `TopHas`).
- `EvidenceHidesNothing`: `EvmInv`, by which the evidence between two collections is
  what the calls of the last one told. What every section said is then the claim
  that stands, or the sections are disputed (`SaidStands`).
- `LookaheadSafe`: `WReplayInv`. A pair is open only while its ticker is not settled
  and closes with the frame that settles it.
- `TestsAreUnseen`: `ResearchInv` and `WindowsApart`: each window of `make_windows`
  trains on `TrainBars` bars before its test, and a test ends before the next one
  begins, so no bar is tested twice.

`EvidenceConstants` are the assumptions: finitely many wallets with natural
balances, natural `TopHolders` and `SellWindow`, a `MaxPerKey` of at least one (a
deque without room drops what it is given), a feed that names each transaction
once, finitely many endpoints, no chain named `"none"` (the model's word for no
collection under way), natural `TrainBars` and `TestBars`, and a step of the
walk-forward that is at least one bar and not shorter than a test. The code checks
neither of the last two; its defaults and tests use a step as long as a test. With
a step of zero `make_windows` does not end, with a shorter one a bar is tested in
two windows.

### Paper bots

`PaperBots_proofs` proves `BooksAreTrueHolds`, `BotsSpec => []BooksAreTrue`, for
any prices, number of levels, orders and retries (`BotsConstants`: amounts and
prices are natural, those of the baht bots not zero, and a spike sells at most
everything). Each part of `BooksAreTrue` has an invariant of its bot:

- `EngineSolvent` and `LevelOpenOnce`: `GridInv`. What rests in the engine was
  accepted with a positive price and quantity, and every fill is checked against
  cash and holdings again (`SoundEngine`); the bot has one active entry per side
  and price, and none to buy where it has bought (`SoundBook`); what a tick is about to
  place is at a level that is still free (`SoundPlan`), though the sync, the stale
  check and failed cancels came before.
- `SoldFromBought`: `ThbInv`. A SELL in flight is of coins the state still holds,
  in memory and in the saved copy a restart loads. `Kept` compares the state with
  what was executed: until a BUY is booked for more than was executed, a SELL for
  less or not at all, or a restart loses a booked SELL (`astray`), the state has
  bought no more and sold no less than the account has. After that only the
  book is consistent (it sells no more than it says it bought); that the coins
  are its own is `OwnCoinsSold`, refuted in section 6.
- `CapitalExplained`: `ArbInv`, of the state and its saved copy.
- `AnnouncementsAreSaved`: `SvcInv`. A milestone marked as notified was put in the queue or
  reached by a run without a webhook (`Told`), or it waits to be put
  (`waiting["scan"]`) as long as the scan lives, and nothing waits any more when the
  scan saves; what the shutdown has still to stop is on its
  list (`stopping`).

### Only model-checked

- Liveness (`PendingResolved`, `StoppedRunEnds`): fairness and ENABLED are out
  of reach of the prover.
- `ReportsBalance`: what a backtest and a futures run report is folded over
  sequences of bars, fills and lots, so that it is what the fills add up to is an
  induction over data.
- The type invariants of `MCPaperBots`, `MCStores` and `MCEvidence`. The proofs
  above contain the types they need for the components they are about.

## 6. Stated and refuted

These properties are in the modules, say what a comment or the evident purpose
of the code says, and TLC refutes them. They are not runs of the project apart
from the first two; each comes with the counterexample in words. Unless a row names
others, the bounds are those of the run that has the module.

| property | what happens |
|---|---|
| `RealGrid!HaltPersists` | run `MCRealGridHalt` |
| `OnchainStream!EvidenceFirst` | run `MCStreamEvidence` |
| `GridOrders!ExposureNeverExceeded` | the price rises after the BUY; the cap is compared at the BUY's price only |
| `GridOrders!FreedGridCanTrade` | a BUY that fills in part and is canceled holds its level with less than one quantity: neither BUY nor SELL is allowed |
| `ExchangeProvider!AlwaysSwitchedBack` | two visits overlap: one saves the provider the other had switched to, and goes back to it |
| `ExchangeProvider!AlwaysOwnAccount` | another walk switches, or switches back, between the switch and the read |
| `ExchangeProvider!SwitchBackRestores` | the current provider has no key, switching back is refused and the error dropped |
| `OneLiveOrder` in `GridUnderPolls` | a lookup at the wrong exchange says not found and the grid submits again |
| `AutoOrders!NothingHeldUntracked` | a partial entry is followed by a full one, then an exit deletes the whole position |
| `RealGrid!BookedOnce`, with `Restarts` not empty | the sync of `force_restart` and the one of the tick verify and book the same vanished order |
| `RealGrid!StopsAreReplaced` | the cancel of a chase fails and the new stop is placed beside the old one, which is in no book (3 orders, 1 coin in the account at the start, no day end, saves that succeed) |
| `RealGrid!OneLotPerStop` | two lots fall below their thresholds in one tick and get stops at one price; the book keeps the later order (4 orders and open positions, 2 base levels, stop-loss 20, prices 950 and 1000, nobody kills or cancels) |
| `RealGrid!TriggeredIsProtected` | the owner cancels a stop order; the lot counts as triggered and gets no other |
| `PaperGrid!OneOrderPerLevel` | the answer of an accepted order is lost, the next tick places it again; the engine has two at one price |
| `ThbBots!OwnCoinsSold` | a SELL whose answer is lost is sold again out of the shared account; a BUY without an executed quantity is booked in full |
| `FuturesBot!TotalCapKept` | two symbols compute their headroom from each other's last synchronised position |
| `PolymarketPaper!KillStopsEntries` | a close trips the kill switch and the entries of the same scan go on |
| `SignalPipeline!Reconnects` | the attempts of an outage are never reset, so a later signal is given up while the backend is up |
| `SignalPipeline!SymbolCoolsDown` | a config or reset request between two messages puts a strategy without cooldowns in place |
| `SignalPipeline!ResetOnlyForgets` | the strategy a reset puts in place has no executor: its signals are published and never executed |
| `StrategyService!MilestonesAreTold` | without a webhook the notifier returns at once, and the scan saves the milestone as announced |
| `SignalLog!SignalsAreKept` | a log and an evaluation overlap, and the later save wins |
| `Backtest!NoLookAhead` | the grid of a bar is anchored at that bar's close and filled inside the bar |
| `FuturesResearch!BaselinePaysBothSides` | buy and hold never pays for its exit |

## 7. Not modelled

- The path of the Go grid for exchanges without client order IDs
  (`grid_orders.go:358-363`), which takes a success as a fill.
- Rates: every execution is a quantity, so Bitkub's conversion of baht to base
  (`orders_v3.go:269`) has no property. Nor have the two reads of a Bitkub
  lookup (open orders, then history; `orders_v3.go:300`): a lookup is one step,
  apart from not finding an order that ended before it traded.
- The bot row in the database and the status view; the executors that keep the
  key of a deleted exchange (`manager.go:177`).
- `RealGrid`: compounding and the tuning of sizes (every order has the same
  quantity), the DCA ladder, indicator values (regime and trend are what
  `_detect_regime` and `_detect_trend` may answer).
- `RealGrid`, failing status queries: what is then booked on an assumption
  (`real_grid_bot.py:854`) is marked and left out of `FillsAreReal`. That every
  booked fill happened is false with them.
- Properties across runs of the Go bots. Restarts are modelled and the invariants
  hold of each run, but a stale run beside a new one may hold an order and a
  position more, and its late fill adds to the new run's trade counter
  (`grid_orders.go:335`); the code promises nothing about their sum.
- The age of a stored risk decision when a fill rests on it (`risk_gate.py:817`):
  the code does not look at it, and `FillsRestOnEvidence` speaks of the moment the
  gate judged.
- Indicator arithmetic of the live bots: readings are classes the code distinguishes.
- `PolymarketPaper`: a position bought at a price of zero. The code enters it
  with no shares, and `_resolve_position` (`paper_bot.py:1231`) then divides by
  its price after it has marked the position resolved, so its stake is lost;
  `PolyAmounts` leaves such readings out. A price may fall to zero later.
- The rounding of floats. `ceil(loss * 10_000 / expected)` (`paper_execution.py:103`)
  is exact in `RiskToFill`, and its theorem is about the exact quotient.
- File formats, hashes, compression and schemas: a checksum is the content.
- HTTP routes other than those named above, status pages, formatting of messages, the web frontend.
- Everything listed as not modelled under "components", with its reason.

## 8. Plan

Done: the Go grid, the provider, their composition and the auto bot, with all
their safety invariants as theorems; the real grid bot with its theorems; the
strategy service's bots, life cycle, lakes, journals, gates, books and research,
with theorems about the Brain, the signal log, the gate, the alpha journal, the
futures bot, the prediction market bot, the signal pipeline, the lakes, the
stream, the paper bots, the portfolio ledger and the evidence. Next, in this order:

1. `AutoOrders`: an instance with restarts and properties that hold across runs.
2. `BitkubLookup`: the two reads against an exchange that moves an order between
   them, implementing the one-step lookup `GridOrders` assumes.
3. The remaining Go services with state of their own (DCA, copy trading, the
   reload of the paper engine).
