----------------------------- MODULE PaperGrid -----------------------------
(***************************************************************************)
(* The simulated grid bot for one symbol and the paper engine it trades    *)
(* on.  Every bot of the service shares that engine, so its cash may       *)
(* change between two requests of one tick.                                *)
(*                                                                         *)
(* Prices are whole ticks; money is counted in thousandths of a tick times *)
(* a unit of quantity, so that the engine's fee of one per mille is exact. *)
(***************************************************************************)
EXTENDS Integers, FiniteSets

CONSTANTS
    GridPrices,   \* what the market may cost
    GridOrders,   \* bound: orders placed
    GridLevels, GridSpacing,   \* levels on each side, spacing in per cent
    FullSize, PartSize,        \* quantity of an order and of a desperation buy
    MaxPosition, MaxNotional,  \* the safety caps of the configuration
    Desperation,               \* blocks in a row that let a buy through
    GridCash,                  \* the engine's initial balance
    Directives                 \* what the Brain may answer

VARIABLES
    gridMarket,   \* market price
    engine,       \* PaperEngine: cash, position, orders
    grid,         \* GridState
    gridStep,     \* where the tick stands
    gridPlan      \* locals of the tick: SELLs to book, directive, confluence, next level

gridVars == <<gridMarket, engine, grid, gridStep, gridPlan>>

GridIds == 1 .. GridOrders
Rest(side, price, id) == [side |-> side, price |-> price, id |-> id]
NoOrder == [side |-> "BUY", price |-> 0, qty |-> 0, status |-> "NONE"]
Calm == [wide |-> 1, offset |-> 0, pauseBuys |-> FALSE, pauseSells |-> FALSE]
NoPlan == [directive |-> Calm, allowed |-> TRUE, desperate |-> FALSE,
           level |-> 1, side |-> "BUY", sells |-> {}]

GridTypeOK ==
    /\ gridMarket \in GridPrices
    /\ engine.cash \in Int /\ engine.held \in Int
    /\ engine.orders \in [GridIds ->
          [side : {"BUY", "SELL"}, price : Nat, qty : Nat,
           status : {"NONE", "PENDING", "FILLED", "CANCELLED"}]]
    /\ \A e \in grid.active : e.id \in GridIds
    /\ grid.anchor \in {0} \cup GridPrices
    /\ grid.blocks \in 0 .. Desperation
    /\ gridStep \in {"start", "idle", "fill", "sync", "book", "decide", "stale", "place",
                    "stopped"}

GridInit ==
    /\ gridMarket \in GridPrices
    /\ engine = [cash |-> GridCash, held |-> 0, orders |-> [i \in GridIds |-> NoOrder]]
    /\ grid = [active |-> {}, bought |-> {}, sold |-> {}, anchor |-> 0, last |-> 0,
               gains |-> 0, size |-> FullSize, blocks |-> 0]
    /\ gridStep = "start"
    /\ gridPlan = NoPlan

-----------------------------------------------------------------------------
(***************************************************************************)
(* The paper engine.  Resting orders reserve nothing: an order that is not *)
(* covered when it comes to be filled is cancelled instead.                *)
(***************************************************************************)
PaperCost(qty, price) == 1001 * qty * price
PaperRevenue(qty, price) == 999 * qty * price

Covered(e, side, qty, price) ==
    IF side = "BUY" THEN PaperCost(qty, price) <= e.cash ELSE qty <= e.held
\* Fault: the balance is only checked when the order is placed.
FillOrderUnchecked(e, i, price) ==
    LET o == e.orders[i]
    IN  IF o.side = "BUY"
        THEN [e EXCEPT !.orders[i].status = "FILLED", !.held = @ + o.qty,
                       !.cash = @ - PaperCost(o.qty, price)]
        ELSE [e EXCEPT !.orders[i].status = "FILLED", !.held = @ - o.qty,
                       !.cash = @ + PaperRevenue(o.qty, price)]

FillOrder(e, i, price) ==
    LET o == e.orders[i]
    IN  IF ~Covered(e, o.side, o.qty, price)
        THEN [e EXCEPT !.orders[i].status = "CANCELLED"]
        ELSE IF o.side = "BUY"
        THEN [e EXCEPT !.orders[i].status = "FILLED", !.held = @ + o.qty,
                       !.cash = @ - PaperCost(o.qty, price)]
        ELSE [e EXCEPT !.orders[i].status = "FILLED", !.held = @ - o.qty,
                       !.cash = @ + PaperRevenue(o.qty, price)]

Touched(o, price) ==
    /\ o.status = "PENDING"
    /\ IF o.side = "BUY" THEN price <= o.price ELSE price >= o.price

\* UpdatePrice holds the engine's lock and ranges over a map: the orders that
\* the price touches are filled one by one in any order, which matters when
\* they cannot all be covered.
UpdatePrice(i) ==
    /\ gridStep = "fill"
    /\ Touched(engine.orders[i], grid.last)
    /\ engine' = FillOrder(engine, i, engine.orders[i].price)
    /\ UNCHANGED <<gridMarket, grid, gridStep, gridPlan>>

PriceUpdated ==
    /\ gridStep = "fill"
    /\ \A i \in GridIds : ~Touched(engine.orders[i], grid.last)
    /\ gridStep' = "sync"
    /\ UNCHANGED <<gridMarket, engine, grid, gridPlan>>

PaperNextId == Cardinality({i \in GridIds : engine.orders[i].status # "NONE"}) + 1

\* A limit that is not positive makes a market order.
Positive == Nat \ {0}
CostPrice(limit, current) == IF limit \in Positive THEN limit ELSE current

Accepted(e, side, qty, limit, current) ==
    qty \in Positive /\ Covered(e, side, qty, CostPrice(limit, current))

\* An accepted order against the market price the bot saw: pending, or filled
\* or cancelled at once.
PlaceOrder(e, i, side, qty, limit, current) ==
    LET pending == [e EXCEPT !.orders[i] = [side |-> side, price |-> limit,
                                            qty |-> qty, status |-> "PENDING"]]
        marketable == \/ limit \notin Positive
                      \/ IF side = "BUY" THEN limit >= current ELSE limit <= current
    IN  IF marketable THEN FillOrder(pending, i, current) ELSE pending

\* Another bot of the service trades on the same balance, or sells the coins.
OtherBotTrades ==
    /\ gridStep # "fill"
    /\ \E spent \in {GridCash \div 2, -(GridCash \div 2)} :
          engine.cash - spent \in 0 .. GridCash
          /\ engine' = [engine EXCEPT !.cash = @ - spent]
    /\ UNCHANGED <<gridMarket, grid, gridStep, gridPlan>>

GridMove(p) ==
    /\ p # gridMarket
    /\ gridMarket' = p
    /\ UNCHANGED <<engine, grid, gridStep, gridPlan>>

-----------------------------------------------------------------------------
(***************************************************************************)
(* start: the engine is reset and seeded with the coins the SELLs need.    *)
(***************************************************************************)
GridStart ==
    /\ gridStep = "start"
    /\ gridStep' = "idle"
    /\ engine' = LET seed == FullSize * GridLevels IN
          IF 1000 * seed * gridMarket <= engine.cash
          THEN [engine EXCEPT !.held = seed, !.cash = @ - 1000 * seed * gridMarket]
          ELSE engine
    /\ UNCHANGED <<gridMarket, grid, gridPlan>>

\* No await, and no request of the bot, is open while the engine fills orders
\* or the bot books its SELLs.
GridStop ==
    /\ gridStep \notin {"fill", "book", "stopped"}
    /\ gridStep' = "stopped"
    /\ UNCHANGED <<gridMarket, engine, grid, gridPlan>>

\* validate_grid_config with the live price: the configured position, not the
\* one that is held, is measured against the cap.
ExposureAllowed(price) == MaxPosition * price <= MaxNotional

\* The price is read and passed to the engine; the request may fail, and the
\* tick goes on.
GridTick ==
    /\ gridStep = "idle"
    /\ ExposureAllowed(gridMarket)
    /\ grid' = [grid EXCEPT !.last = gridMarket]
    /\ gridStep' \in {"fill", "sync"}
    /\ UNCHANGED <<gridMarket, engine, gridPlan>>

-----------------------------------------------------------------------------
(***************************************************************************)
(* _sync_state: what is no longer pending counts as filled.                *)
(***************************************************************************)
Cheapest(lots) == CHOOSE l \in lots : \A k \in lots : l.price <= k.price

\* A sale takes the cheapest lot; without one it costs its own proceeds.
SaleOf(g, price, qty) ==
    LET lot == IF g.bought = {} THEN [price |-> price, qty |-> qty]
               ELSE Cheapest(g.bought)
        gain == PaperRevenue(qty, price) - 1000 * lot.price * lot.qty
    IN  [g EXCEPT !.bought = @ \ {lot},
                  !.sold = @ \cup {price},
                  !.gains = IF gain > 0 THEN @ + gain ELSE @]

BoughtAt(g) == {l.price : l \in g.bought}

\* Buys first; a lot is booked at the size of a full order.
TakeBuys(g, prices) ==
    [g EXCEPT !.bought = @ \cup
        {[price |-> p, qty |-> g.size] : p \in prices \ BoughtAt(g)}]

\* The BUYs that are gone are booked, then the SELLs one by one; without an
\* answer nothing is.
SyncState ==
    /\ gridStep = "sync"
    /\ LET gone == {e \in grid.active : engine.orders[e.id].status # "PENDING"}
           prices(side) == {e.price : e \in {f \in gone : f.side = side}}
       IN  \/ /\ grid' = TakeBuys([grid EXCEPT !.active = @ \ gone], prices("BUY"))
              /\ gridPlan' = [gridPlan EXCEPT !.sells = prices("SELL")]
              /\ gridStep' = "book"
           \/ gridStep' = "decide" /\ UNCHANGED <<grid, gridPlan>>
    /\ UNCHANGED <<gridMarket, engine>>

TakeSell(p) ==
    /\ gridStep = "book"
    /\ p \in gridPlan.sells
    /\ grid' = IF p \in grid.sold THEN grid ELSE SaleOf(grid, p, grid.size)
    /\ gridPlan' = [gridPlan EXCEPT !.sells = @ \ {p}]
    /\ UNCHANGED <<gridMarket, engine, gridStep>>

GridSynced ==
    /\ gridStep = "book"
    /\ gridPlan.sells = {}
    /\ gridStep' = "decide"
    /\ UNCHANGED <<gridMarket, engine, grid, gridPlan>>

-----------------------------------------------------------------------------
(***************************************************************************)
(* The Brain's directive, the rebuild of the grid, the confluence gate.    *)
(***************************************************************************)
Rounded(n, d) == (2 * n + d) \div (2 * d)

Center(d) == Rounded(grid.last * (100 + d.offset), 100)
Factor(d) == 100 + GridSpacing * d.wide

LevelPrice(d, side, n) ==
    IF side = "BUY" THEN Rounded(Center(d) * 100 ^ n, Factor(d) ^ n)
    ELSE Rounded(Center(d) * Factor(d) ^ n, 100 ^ n)

\* The grid range is the one around the current price, not around the anchor.
NeedsRebuild(d) ==
    \/ grid.anchor = 0
    \/ grid.last < LevelPrice(d, "BUY", GridLevels)
    \/ grid.last > LevelPrice(d, "SELL", GridLevels)

\* DGT: half of the gains is turned into order size.
Reinvested(g) ==
    LET half == g.gains \div 2
    IN  [g EXCEPT !.gains = @ - half,
                  !.size = @ + half \div (10000 * g.last),
                  !.anchor = g.last]

\* What the indicators say of a buy.
Readings == [warm : BOOLEAN, rsi : {"low", "borderline", "high"},
             pressure : BOOLEAN, momentum : BOOLEAN, volume : BOOLEAN]

Confluent(r) ==
    r.warm => /\ r.rsi = "low" \/ (r.rsi = "borderline" /\ r.pressure)
              /\ r.momentum /\ r.volume

Confluences == {Confluent(r) : r \in Readings}

\* Only whether the count has reached the threshold matters: it stops there.
Decide(d, confluent) ==
    /\ gridStep = "decide"
    /\ LET asked == ~d.pauseBuys
           blocks == IF ~asked THEN grid.blocks
                     ELSE IF confluent THEN 0
                     ELSE IF grid.blocks = Desperation THEN Desperation
                     ELSE grid.blocks + 1
           desperate == asked /\ ~confluent /\ blocks >= Desperation
           g == IF NeedsRebuild(d) THEN Reinvested(grid) ELSE grid
       IN  /\ grid' = [g EXCEPT !.blocks = blocks]
           /\ gridPlan' = [NoPlan EXCEPT !.directive = d,
                              !.allowed = ~asked \/ confluent \/ desperate,
                              !.desperate = desperate]
    /\ gridStep' = "stale"
    /\ UNCHANGED <<gridMarket, engine>>

OnGrid(e) == \E n \in 1 .. GridLevels : e.price = LevelPrice(gridPlan.directive, e.side, n)

\* The order is forgotten before the cancellation is asked for, and a failed
\* request leaves it pending in the engine.
GridCancelStale(e) ==
    /\ gridStep = "stale"
    /\ e \in grid.active
    /\ ~OnGrid(e)
    /\ grid' = [grid EXCEPT !.active = @ \ {e}]
    /\ \/ UNCHANGED engine
       \/ /\ engine.orders[e.id].status = "PENDING"
          /\ engine' = [engine EXCEPT !.orders[e.id].status = "CANCELLED"]
    /\ UNCHANGED <<gridMarket, gridStep, gridPlan>>

GridStaleDone ==
    /\ gridStep = "stale"
    /\ \A e \in grid.active : OnGrid(e)
    /\ gridStep' = "place"
    /\ UNCHANGED <<gridMarket, engine, grid, gridPlan>>

-----------------------------------------------------------------------------
(***************************************************************************)
(* Placing BUY and SELL of each level.                                     *)
(***************************************************************************)
Limit == LevelPrice(gridPlan.directive, gridPlan.side, gridPlan.level)

Wanted ==
    /\ \A e \in grid.active : e.side # gridPlan.side \/ e.price # Limit
    /\ IF gridPlan.side = "BUY"
       THEN /\ ~gridPlan.directive.pauseBuys /\ gridPlan.allowed
            /\ Limit \notin BoughtAt(grid)
       ELSE ~gridPlan.directive.pauseSells /\ Limit \notin grid.sold

NextSlot ==
    gridPlan' = IF gridPlan.side = "BUY" THEN [gridPlan EXCEPT !.side = "SELL"]
                ELSE [gridPlan EXCEPT !.side = "BUY", !.level = @ + 1]

GridSkipLevel ==
    /\ gridStep = "place"
    /\ gridPlan.level <= GridLevels
    /\ ~Wanted
    /\ NextSlot
    /\ UNCHANGED <<gridMarket, engine, grid, gridStep>>

\* The request fails or is refused, or the engine accepts the order: a filled
\* answer is booked at once, any other counts as resting, and when the answer is
\* lost the engine has the order and the bot's book does not.
GridPlace ==
    /\ gridStep = "place"
    /\ gridPlan.level <= GridLevels
    /\ Wanted
    /\ NextSlot
    /\ LET buy == gridPlan.side = "BUY"
           qty == IF buy /\ gridPlan.desperate THEN PartSize ELSE grid.size
           g == [grid EXCEPT !.blocks = IF buy /\ gridPlan.desperate THEN 0 ELSE @]
           id == PaperNextId
       IN  \/ /\ grid' = g
              /\ UNCHANGED engine
           \/ /\ id \in GridIds
              /\ Accepted(engine, gridPlan.side, qty, Limit, grid.last)
              /\ engine' = PlaceOrder(engine, id, gridPlan.side, qty, Limit, grid.last)
              /\ grid' \in {g, IF engine'.orders[id].status # "FILLED"
                         THEN [g EXCEPT !.active = @ \cup {Rest(gridPlan.side, Limit, id)}]
                         ELSE IF buy
                         THEN [g EXCEPT !.bought =
                                 @ \cup {[price |-> Limit, qty |-> qty]}]
                         ELSE SaleOf(g, Limit, qty)}
    /\ UNCHANGED <<gridMarket, gridStep>>

GridTickEnds ==
    /\ gridStep = "place"
    /\ gridPlan.level > GridLevels
    /\ gridStep' = "idle"
    /\ gridPlan' = NoPlan
    /\ UNCHANGED <<gridMarket, engine, grid>>

GridNext ==
    \/ OtherBotTrades
    \/ \E p \in GridPrices : GridMove(p)
    \/ GridStart \/ GridStop \/ GridTick
    \/ \E i \in GridIds : UpdatePrice(i)
    \/ PriceUpdated \/ SyncState
    \/ \E p \in gridPlan.sells : TakeSell(p)
    \/ GridSynced
    \/ \E d \in Directives, confluent \in Confluences : Decide(d, confluent)
    \/ \E e \in grid.active : GridCancelStale(e)
    \/ GridStaleDone \/ GridSkipLevel \/ GridPlace \/ GridTickEnds

-----------------------------------------------------------------------------
\* However many resting orders compete for one balance, and whoever else spends
\* it, no fill leaves the engine with negative cash or coins (fillShortfall).
EngineSolvent == engine.cash >= 0 /\ engine.held >= 0

\* In the bot's book a level is never open twice: no two resting orders share
\* side and price, and no BUY rests at a level whose lot still waits to be sold
\* (the double checks of _tick over active_buys and filled_buys, across syncs and
\* cancellations). The engine may hold a second order there, see below.
LevelOpenOnce ==
    /\ \A e, f \in grid.active : e.side = f.side /\ e.price = f.price => e = f
    /\ \A e \in grid.active : e.side = "BUY" => e.price \notin BoughtAt(grid)

\* "Place buy if not already active, not already filled at this price": the engine
\* too holds at most one resting order of a side at a price. (TLC refutes it: an
\* accepted order whose answer is lost is placed again by the next tick, and an
\* order whose cancellation failed rests beside its successor.)
OneOrderPerLevel ==
    \A i, j \in GridIds :
        LET a == engine.orders[i]
            b == engine.orders[j]
        IN  /\ a.status = "PENDING" /\ b.status = "PENDING"
            /\ a.side = b.side /\ a.price = b.price
            => i = j
=============================================================================
