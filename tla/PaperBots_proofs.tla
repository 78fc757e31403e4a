--------------------------- MODULE PaperBots_proofs ---------------------------
(***************************************************************************)
(* What the books of the simulated bots say holds for any prices, number   *)
(* of levels and orders, amounts, thresholds and bounds: each part of      *)
(* BooksAreTrue is an invariant of its bot, and the bots leave each        *)
(* other's books alone.                                                    *)
(***************************************************************************)
EXTENDS PaperBots, TLAPS

(***************************************************************************)
(* The grid bot and its engine.                                            *)
(***************************************************************************)
\* Market prices and the capital are numbers, and so is what the bot is seeded
\* with and what it may lose to other bots.
GridConstants ==
    /\ GridPrices \subseteq Nat
    /\ GridCash \in Nat
    /\ FullSize \in Nat /\ GridLevels \in Nat

\* The engine is solvent, and what still rests in it was accepted; the order in
\* hand may be another matter.
SoundFor(e, others) ==
    /\ DOMAIN e = {"cash", "held", "orders"}
    /\ e.cash \in Nat /\ e.held \in Nat
    /\ DOMAIN e.orders = GridIds
    /\ \A i \in GridIds : DOMAIN e.orders[i] = {"side", "price", "qty", "status"}
    /\ \A i \in others : e.orders[i].status = "PENDING" =>
          e.orders[i].qty \in Positive /\ e.orders[i].price \in Positive
SoundEngine(e) == SoundFor(e, GridIds)

\* The book of the bot, with the fields its steps change.
SoundBook(g) ==
    /\ DOMAIN g = {"active", "bought", "sold", "anchor", "last", "gains", "size", "blocks"}
    /\ g.last \in Nat
    /\ \A e, f \in g.active : e.side = f.side /\ e.price = f.price => e = f
    /\ \A e \in g.active : e.side = "BUY" => e.price \notin BoughtAt(g)

SoundPlan(p) ==
    /\ DOMAIN p = {"directive", "allowed", "desperate", "level", "side", "sells"}
    /\ p.side \in {"BUY", "SELL"}

GridInv ==
    SoundEngine(engine) /\ SoundBook(grid) /\ SoundPlan(gridPlan) /\ gridMarket \in GridPrices

\* A fill is either covered or turned into a cancellation.
LEMMA FillKeeps ==
    ASSUME NEW e, NEW i \in GridIds, SoundFor(e, GridIds \ {i}), NEW price \in Nat,
           e.orders[i].qty \in Positive
    PROVE  SoundEngine(FillOrder(e, i, price))
  <1> DEFINE o == e.orders[i]
             c == PaperCost(o.qty, price)
             r == PaperRevenue(o.qty, price)
             done(s) == [e.orders EXCEPT ![i].status = s]
  <1>1. o.qty \in Nat /\ DOMAIN o = {"side", "price", "qty", "status"}
    BY DEF Positive, SoundFor
  <1>2. c \in Nat /\ r \in Nat
    BY <1>1 DEF PaperCost, PaperRevenue
  <1>3. ASSUME NEW s \in {"FILLED", "CANCELLED"}
        PROVE  /\ DOMAIN done(s) = GridIds
               /\ \A j \in GridIds :
                    /\ DOMAIN done(s)[j] = {"side", "price", "qty", "status"}
                    /\ done(s)[j].status = "PENDING" =>
                          done(s)[j].qty \in Positive /\ done(s)[j].price \in Positive
    BY DEF SoundFor
  <1>4. ASSUME NEW s \in {"FILLED", "CANCELLED"}, NEW h \in Nat, NEW k \in Nat, NEW f,
               f = [e EXCEPT !.orders[i].status = s, !.held = h, !.cash = k]
        PROVE  SoundEngine(f)
    <2>1. DOMAIN f = {"cash", "held", "orders"} /\ f.cash = k /\ f.held = h /\ f.orders = done(s)
      BY <1>4 DEF SoundFor
    <2> QED BY <2>1, <1>3, <1>4 DEF SoundFor, SoundEngine
  <1>5. CASE ~Covered(e, o.side, o.qty, price)
    <2>1. FillOrder(e, i, price) = [e EXCEPT !.orders[i].status = "CANCELLED"]
      BY <1>5 DEF FillOrder
    <2> DEFINE f == FillOrder(e, i, price)
    <2>2. DOMAIN f = {"cash", "held", "orders"} /\ f.cash = e.cash /\ f.held = e.held
          /\ f.orders = done("CANCELLED")
      BY <2>1 DEF SoundFor
    <2> HIDE DEF f, done
    <2>3. SoundEngine(f)
      BY <2>2, <1>3 DEF SoundFor, SoundEngine
    <2> QED BY <2>3 DEF f
  <1>6. CASE Covered(e, o.side, o.qty, price) /\ o.side = "BUY"
    <2>1. FillOrder(e, i, price) = [e EXCEPT !.orders[i].status = "FILLED",
                                            !.held = e.held + o.qty, !.cash = e.cash - c]
      BY <1>6 DEF FillOrder, SoundFor
    <2>2. c <= e.cash
      BY <1>6 DEF Covered
    <2>3. e.held + o.qty \in Nat /\ e.cash - c \in Nat
      BY <2>2, <1>1, <1>2 DEF SoundFor
    <2> QED BY <1>4, <2>1, <2>3
  <1>7. CASE Covered(e, o.side, o.qty, price) /\ o.side # "BUY"
    <2>1. FillOrder(e, i, price) = [e EXCEPT !.orders[i].status = "FILLED",
                                            !.held = e.held - o.qty, !.cash = e.cash + r]
      BY <1>7 DEF FillOrder, SoundFor
    <2>2. o.qty <= e.held
      BY <1>7 DEF Covered
    <2>3. e.held - o.qty \in Nat /\ e.cash + r \in Nat
      BY <2>2, <1>1, <1>2 DEF SoundFor
    <2> QED BY <1>4, <2>1, <2>3
  <1> QED BY <1>5, <1>6, <1>7

LEMMA PlaceKeeps ==
    ASSUME NEW e, SoundEngine(e), NEW i \in GridIds, NEW side, NEW limit,
           NEW qty \in Positive, NEW current \in Nat
    PROVE  SoundEngine(PlaceOrder(e, i, side, qty, limit, current))
  <1> DEFINE o == [side |-> side, price |-> limit, qty |-> qty, status |-> "PENDING"]
             p == [e EXCEPT !.orders[i] = o]
  <1>1. DOMAIN p = {"cash", "held", "orders"} /\ p.cash = e.cash /\ p.held = e.held
        /\ p.orders = [e.orders EXCEPT ![i] = o]
    BY DEF SoundEngine, SoundFor
  <1>2. DOMAIN p.orders = GridIds /\ p.orders[i] = o
        /\ \A j \in GridIds \ {i} : p.orders[j] = e.orders[j]
    BY <1>1 DEF SoundEngine, SoundFor
  <1> HIDE DEF p
  <1>3. SoundFor(p, GridIds \ {i})
    BY <1>1, <1>2 DEF SoundEngine, SoundFor
  <1>4. ASSUME limit \in Positive PROVE SoundEngine(p)
    BY <1>1, <1>2, <1>4 DEF SoundEngine, SoundFor
  <1>5. SoundEngine(FillOrder(p, i, current))
    <2>1. p.orders[i].qty \in Positive
      BY <1>2
    <2> QED BY <2>1, <1>3, FillKeeps
  <1> DEFINE m == \/ limit \notin Positive
                  \/ IF side = "BUY" THEN limit >= current ELSE limit <= current
  <1>6. PlaceOrder(e, i, side, qty, limit, current) = IF m THEN FillOrder(p, i, current) ELSE p
    BY Zenon DEF PlaceOrder, p
  <1>7. CASE limit \in Positive
    BY <1>4, <1>5, <1>6, <1>7, Zenon
  <1>8. CASE limit \notin Positive
    BY <1>5, <1>6, <1>8, Zenon
  <1> QED BY <1>7, <1>8

-----------------------------------------------------------------------------
\* A lot that is sold leaves the book, and no resting order does.
LEMMA SaleKeeps ==
    ASSUME NEW g, SoundBook(g), NEW price, NEW qty
    PROVE  SoundBook(SaleOf(g, price, qty))
  <1> DEFINE lot == IF g.bought = {} THEN [price |-> price, qty |-> qty] ELSE Cheapest(g.bought)
             gain == PaperRevenue(qty, price) - 1000 * lot.price * lot.qty
             h == SaleOf(g, price, qty)
  <1>1. h = [g EXCEPT !.bought = @ \ {lot}, !.sold = @ \cup {price},
                      !.gains = IF gain > 0 THEN @ + gain ELSE @]
    BY DEF SaleOf
  <1> HIDE DEF gain, lot
  <1>2. /\ DOMAIN h = DOMAIN g /\ h.last = g.last /\ h.active = g.active
        /\ h.bought = g.bought \ {lot}
    BY <1>1 DEF SoundBook
  <1> HIDE DEF h
  <1>3. BoughtAt(h) \subseteq BoughtAt(g)
    BY <1>2 DEF BoughtAt
  <1>4. SoundBook(h)
    BY <1>2, <1>3 DEF SoundBook
  <1> QED BY <1>4 DEF h

\* A sync takes the orders that are gone off the book and books the BUYs among
\* them; none of those that still rest has the price of one of them.
LEMMA BuysKeep ==
    ASSUME NEW g, SoundBook(g), NEW gone \in SUBSET g.active,
           NEW prices, prices = {e.price : e \in {f \in gone : f.side = "BUY"}}
    PROVE  SoundBook(TakeBuys([g EXCEPT !.active = @ \ gone], prices))
  <1> DEFINE k == [g EXCEPT !.active = @ \ gone]
             h == TakeBuys(k, prices)
  <1>1. /\ DOMAIN k = DOMAIN g /\ k.last = g.last /\ k.active = g.active \ gone
        /\ k.bought = g.bought
    BY DEF SoundBook
  <1> HIDE DEF k
  <1> DEFINE lots == {[price |-> p, qty |-> k.size] : p \in prices \ BoughtAt(k)}
  <1>2. h = [k EXCEPT !.bought = @ \cup lots]
    BY DEF TakeBuys
  <1>3. \A l \in lots : l.price \in prices
    OBVIOUS
  <1> HIDE DEF lots
  <1>4. /\ DOMAIN h = DOMAIN g /\ h.last = g.last /\ h.active = g.active \ gone
        /\ h.bought = g.bought \cup lots
    BY <1>1, <1>2 DEF SoundBook
  <1> HIDE DEF h
  <1>5. BoughtAt(h) \subseteq BoughtAt(g) \cup prices
    BY <1>3, <1>4 DEF BoughtAt
  <1>6. ASSUME NEW e \in h.active, e.side = "BUY" PROVE e.price \notin prices
    <2>1. SUFFICES ASSUME NEW f \in gone, f.side = "BUY", f.price = e.price PROVE FALSE
      OBVIOUS
    <2>2. e = f
      BY <1>4, <1>6, <2>1 DEF SoundBook
    <2> QED BY <1>4, <2>2
  <1>7. SoundBook(h)
    BY <1>4, <1>5, <1>6 DEF SoundBook
  <1> QED BY <1>7 DEF h, k

LEMMA GridStarts == GridConstants /\ GridInit => GridInv
  <1> SUFFICES ASSUME GridConstants, GridInit PROVE GridInv
    OBVIOUS
  <1>1. SoundEngine(engine)
    BY DEF GridInit, GridConstants, SoundEngine, SoundFor, NoOrder
  <1>2. SoundBook(grid)
    BY DEF GridInit, SoundBook
  <1>3. SoundPlan(gridPlan)
    BY DEF GridInit, SoundPlan, NoPlan
  <1> QED BY <1>1, <1>2, <1>3 DEF GridInv, GridInit

\* The paper engine and the bot, step by step.
LEMMA EngineSteps ==
    ASSUME GridConstants, GridInv,
           \/ OtherBotTrades
           \/ \E p \in GridPrices : GridMove(p)
           \/ GridStart \/ GridStop \/ GridTick
           \/ \E i \in GridIds : UpdatePrice(i)
           \/ PriceUpdated
    PROVE  GridInv'
  <1>1. CASE OtherBotTrades
    <2>1. PICK spent \in {GridCash \div 2, -(GridCash \div 2)} :
             /\ engine.cash - spent \in 0 .. GridCash
             /\ engine' = [engine EXCEPT !.cash = @ - spent]
      BY <1>1 DEF OtherBotTrades
    <2>2. engine.cash - spent \in Nat
      BY <2>1 DEF GridConstants
    <2>3. /\ DOMAIN engine' = DOMAIN engine /\ engine'.cash = engine.cash - spent
          /\ engine'.held = engine.held /\ engine'.orders = engine.orders
      BY <2>1 DEF GridInv, SoundEngine, SoundFor
    <2>4. SoundEngine(engine')
      BY <2>2, <2>3 DEF GridInv, SoundEngine, SoundFor
    <2> QED BY <1>1, <2>4 DEF GridInv, OtherBotTrades
  <1>2. CASE \E p \in GridPrices : GridMove(p)
    BY <1>2 DEF GridInv, GridMove
  <1>3. CASE GridStart
    <2> DEFINE seed == FullSize * GridLevels
               left == engine.cash - 1000 * seed * gridMarket
    <2>1. seed \in Nat /\ gridMarket \in Nat
      BY DEF GridConstants, GridInv
    <2>2. CASE 1000 * seed * gridMarket <= engine.cash
      <3>1. engine' = [engine EXCEPT !.held = seed, !.cash = @ - 1000 * seed * gridMarket]
        BY <1>3, <2>2 DEF GridStart
      <3>2. left \in Nat
        <4>1. engine.cash \in Nat
          BY DEF GridInv, SoundEngine, SoundFor
        <4> HIDE DEF seed
        <4>2. 1000 * seed * gridMarket \in Int
          BY <2>1
        <4> QED BY <4>1, <4>2, <2>2
      <3>3. /\ DOMAIN engine' = DOMAIN engine /\ engine'.cash = left
            /\ engine'.held = seed /\ engine'.orders = engine.orders
        BY <3>1 DEF GridInv, SoundEngine, SoundFor
      <3> HIDE DEF seed, left
      <3>4. SoundEngine(engine')
        BY <3>2, <3>3, <2>1 DEF GridInv, SoundEngine, SoundFor
      <3> QED BY <1>3, <3>4 DEF GridInv, GridStart
    <2>3. CASE ~(1000 * seed * gridMarket <= engine.cash)
      BY <1>3, <2>3 DEF GridInv, GridStart
    <2> QED BY <2>2, <2>3
  <1>4. CASE GridStop
    BY <1>4 DEF GridInv, GridStop
  <1>5. CASE GridTick
    <2>1. DOMAIN grid' = DOMAIN grid /\ grid'.active = grid.active
          /\ grid'.bought = grid.bought /\ grid'.last = gridMarket
      BY <1>5 DEF GridTick, GridInv, SoundBook
    <2>2. SoundBook(grid')
      BY <2>1 DEF GridInv, SoundBook, BoughtAt, GridConstants
    <2> QED BY <1>5, <2>2 DEF GridInv, GridTick
  <1>6. CASE \E i \in GridIds : UpdatePrice(i)
    <2>1. PICK i \in GridIds : UpdatePrice(i)
      BY <1>6
    <2>2. engine.orders[i].qty \in Positive /\ engine.orders[i].price \in Nat
      BY <2>1 DEF GridInv, SoundEngine, SoundFor, UpdatePrice, Touched, Positive
    <2>3. SoundFor(engine, GridIds \ {i})
      BY DEF GridInv, SoundEngine, SoundFor
    <2>4. SoundEngine(engine')
      BY <2>1, <2>2, <2>3, FillKeeps DEF UpdatePrice
    <2> QED BY <2>1, <2>4 DEF GridInv, UpdatePrice
  <1>7. CASE PriceUpdated
    BY <1>7 DEF GridInv, PriceUpdated
  <1> QED BY <1>1, <1>2, <1>3, <1>4, <1>5, <1>6, <1>7

LEMMA SyncSteps ==
    ASSUME GridInv, SyncState \/ (\E p \in gridPlan.sells : TakeSell(p)) \/ GridSynced
    PROVE  GridInv'
  <1>1. CASE SyncState
    <2> DEFINE gone == {e \in grid.active : engine.orders[e.id].status # "PENDING"}
               prices(side) == {e.price : e \in {f \in gone : f.side = side}}
    <2>1. CASE UNCHANGED <<grid, gridPlan>>
      BY <1>1, <2>1 DEF GridInv, SyncState
    <2>2. CASE /\ grid' = TakeBuys([grid EXCEPT !.active = @ \ gone], prices("BUY"))
               /\ gridPlan' = [gridPlan EXCEPT !.sells = prices("SELL")]
      <3>1. SoundBook(grid')
        BY <2>2, BuysKeep DEF GridInv
      <3>2. SoundPlan(gridPlan')
        BY <2>2 DEF GridInv, SoundPlan
      <3> QED BY <1>1, <3>1, <3>2 DEF GridInv, SyncState
    <2> QED BY <1>1, <2>1, <2>2 DEF SyncState
  <1>2. CASE \E p \in gridPlan.sells : TakeSell(p)
    <2>1. PICK p \in gridPlan.sells : TakeSell(p)
      BY <1>2
    <2>2. SoundBook(grid')
      BY <2>1, SaleKeeps DEF GridInv, TakeSell
    <2>3. SoundPlan(gridPlan')
      BY <2>1 DEF GridInv, SoundPlan, TakeSell
    <2> QED BY <2>1, <2>2, <2>3 DEF GridInv, TakeSell
  <1>3. CASE GridSynced
    BY <1>3 DEF GridInv, GridSynced
  <1> QED BY <1>1, <1>2, <1>3

LEMMA DecideKeeps ==
    ASSUME GridInv, NEW d, NEW confluent, Decide(d, confluent)
    PROVE  GridInv'
  <1> DEFINE asked == ~d.pauseBuys
             b == IF ~asked THEN grid.blocks
                  ELSE IF confluent THEN 0
                  ELSE IF grid.blocks = Desperation THEN Desperation
                  ELSE grid.blocks + 1
             g == IF NeedsRebuild(d) THEN Reinvested(grid) ELSE grid
  <1>0. grid' = [g EXCEPT !.blocks = b]
    BY DEF Decide
  <1>1. g = grid \/ g = Reinvested(grid)
    BY Zenon
  <1> HIDE DEF b, g
  <1>2. /\ DOMAIN g = DOMAIN grid /\ g.active = grid.active
        /\ g.bought = grid.bought /\ g.last = grid.last
    <2>1. CASE g = grid
      BY <2>1
    <2>2. CASE g = Reinvested(grid)
      <3> DEFINE half == grid.gains \div 2
                 gains == grid.gains - half
                 size == grid.size + half \div (10000 * grid.last)
      <3>1. Reinvested(grid) = [grid EXCEPT !.gains = gains, !.size = size, !.anchor = grid.last]
        BY DEF Reinvested, GridInv, SoundBook
      <3> HIDE DEF gains, size
      <3> QED BY <2>2, <3>1 DEF GridInv, SoundBook
    <2> QED BY <1>1, <2>1, <2>2
  <1>3. /\ DOMAIN grid' = DOMAIN grid /\ grid'.active = grid.active
        /\ grid'.bought = grid.bought /\ grid'.last = grid.last
    BY <1>0, <1>2 DEF GridInv, SoundBook
  <1>4. SoundBook(grid')
    BY <1>3 DEF GridInv, SoundBook, BoughtAt
  <1>5. SoundPlan(gridPlan')
    BY DEF Decide, SoundPlan, NoPlan
  <1> QED BY <1>4, <1>5 DEF GridInv, Decide

LEMMA StaleSteps ==
    ASSUME GridInv, NEW e \in grid.active, GridCancelStale(e)
    PROVE  GridInv'
  <1>1. /\ DOMAIN grid' = DOMAIN grid /\ grid'.active = grid.active \ {e}
        /\ grid'.bought = grid.bought /\ grid'.last = grid.last
    BY DEF GridCancelStale, GridInv, SoundBook
  <1>2. SoundBook(grid')
    BY <1>1 DEF GridInv, SoundBook, BoughtAt
  <1>3. SoundEngine(engine')
    <2>1. CASE engine' = engine
      BY <2>1 DEF GridInv
    <2>2. CASE engine' = [engine EXCEPT !.orders[e.id].status = "CANCELLED"]
      <3>1. /\ DOMAIN engine' = DOMAIN engine /\ engine'.cash = engine.cash
            /\ engine'.held = engine.held
            /\ engine'.orders = [engine.orders EXCEPT ![e.id].status = "CANCELLED"]
        BY <2>2 DEF GridInv, SoundEngine, SoundFor
      <3> QED BY <3>1 DEF GridInv, SoundEngine, SoundFor
    <2> QED BY <2>1, <2>2 DEF GridCancelStale
  <1> QED BY <1>2, <1>3 DEF GridInv, GridCancelStale

\* A level is only placed when no order of its side rests at its price, and a
\* BUY only when no lot was bought there.
LEMMA PlaceStep ==
    ASSUME GridInv, GridPlace
    PROVE  GridInv'
  <1> DEFINE buy == gridPlan.side = "BUY"
             qty == IF buy /\ gridPlan.desperate THEN PartSize ELSE grid.size
             b == IF buy /\ gridPlan.desperate THEN 0 ELSE grid.blocks
             g == [grid EXCEPT !.blocks = b]
             id == PaperNextId
             order == Rest(gridPlan.side, Limit, id)
             lot == [price |-> Limit, qty |-> qty]
  <1>1. /\ DOMAIN g = DOMAIN grid /\ g.active = grid.active
        /\ g.bought = grid.bought /\ g.last = grid.last
    BY DEF GridInv, SoundBook
  <1>2. SoundBook(g)
    <2> HIDE DEF g
    <2> QED BY <1>1 DEF GridInv, SoundBook, BoughtAt
  <1>3. SoundPlan(gridPlan')
    BY DEF GridInv, SoundPlan, GridPlace, NextSlot
  <1>4. /\ \A e \in grid.active : e.side # gridPlan.side \/ e.price # Limit
        /\ gridPlan.side = "BUY" => Limit \notin BoughtAt(grid)
    BY DEF GridPlace, Wanted
  <1>5. order.side = gridPlan.side /\ order.price = Limit
    BY DEF Rest
  <1>6. \/ grid' = g /\ UNCHANGED engine
        \/ /\ id \in GridIds
           /\ Accepted(engine, gridPlan.side, qty, Limit, grid.last)
           /\ engine' = PlaceOrder(engine, id, gridPlan.side, qty, Limit, grid.last)
           /\ grid' \in {g, IF engine'.orders[id].status # "FILLED"
                      THEN [g EXCEPT !.active = @ \cup {order}]
                      ELSE IF buy THEN [g EXCEPT !.bought = @ \cup {lot}]
                      ELSE SaleOf(g, Limit, qty)}
    <2>1. g = [grid EXCEPT !.blocks = IF buy /\ gridPlan.desperate THEN 0 ELSE @]
      BY DEF GridInv, SoundBook
    <2> QED BY <2>1, Zenon DEF GridPlace
  <1> HIDE DEF qty, b, g, id, order
  <1>7. CASE grid' = g /\ UNCHANGED engine
    BY <1>2, <1>3, <1>7 DEF GridInv, GridPlace
  <1>8. CASE /\ id \in GridIds
             /\ Accepted(engine, gridPlan.side, qty, Limit, grid.last)
             /\ engine' = PlaceOrder(engine, id, gridPlan.side, qty, Limit, grid.last)
             /\ grid' \in {g, IF engine'.orders[id].status # "FILLED"
                        THEN [g EXCEPT !.active = @ \cup {order}]
                        ELSE IF buy THEN [g EXCEPT !.bought = @ \cup {lot}]
                        ELSE SaleOf(g, Limit, qty)}
    <2>1. SoundEngine(engine')
      <3>1. qty \in Positive /\ grid.last \in Nat
        BY <1>8 DEF Accepted, GridInv, SoundBook
      <3> QED BY <1>8, <3>1, PlaceKeeps DEF GridInv
    <2>2. SoundBook([g EXCEPT !.active = @ \cup {order}])
      <3> DEFINE h == [g EXCEPT !.active = @ \cup {order}]
      <3>1. /\ DOMAIN h = DOMAIN grid /\ h.active = grid.active \cup {order}
            /\ h.bought = grid.bought /\ h.last = grid.last
        BY <1>1 DEF GridInv, SoundBook
      <3> HIDE DEF h
      <3>2. BoughtAt(h) = BoughtAt(grid)
        BY <3>1 DEF BoughtAt
      <3>3. \A e \in h.active : e.side = "BUY" => e.price \notin BoughtAt(h)
        BY <3>1, <3>2, <1>4, <1>5 DEF GridInv, SoundBook
      <3>4. \A e, f \in h.active : e.side = f.side /\ e.price = f.price => e = f
        BY <3>1, <1>4, <1>5 DEF GridInv, SoundBook
      <3>5. SoundBook(h)
        BY <3>1, <3>3, <3>4 DEF GridInv, SoundBook
      <3> QED BY <3>5 DEF h
    <2>3. ASSUME buy PROVE SoundBook([g EXCEPT !.bought = @ \cup {lot}])
      <3> DEFINE h == [g EXCEPT !.bought = @ \cup {lot}]
      <3>1. /\ DOMAIN h = DOMAIN grid /\ h.active = grid.active
            /\ h.bought = grid.bought \cup {lot} /\ h.last = grid.last
        BY <1>1 DEF GridInv, SoundBook
      <3>2. lot.price = Limit
        OBVIOUS
      <3> HIDE DEF h, lot
      <3>3. BoughtAt(h) \subseteq BoughtAt(grid) \cup {Limit}
        BY <3>1, <3>2 DEF BoughtAt
      <3>4. SoundBook(h)
        BY <3>1, <3>3, <1>4, <2>3 DEF GridInv, SoundBook
      <3> QED BY <3>4 DEF h, lot
    <2>4. SoundBook(SaleOf(g, Limit, qty))
      BY <1>2, SaleKeeps
    <2>5. SoundBook(grid')
      <3>0. CASE grid' = g
        BY <1>2, <3>0
      <3>1. CASE grid' # g /\ engine'.orders[id].status # "FILLED"
        BY <1>8, <2>2, <3>1
      <3>2. CASE grid' # g /\ engine'.orders[id].status = "FILLED" /\ buy
        BY <1>8, <2>3, <3>2
      <3>3. CASE grid' # g /\ engine'.orders[id].status = "FILLED" /\ ~buy
        BY <1>8, <2>4, <3>3
      <3> HIDE DEF buy
      <3> QED BY <3>0, <3>1, <3>2, <3>3
    <2> QED BY <1>3, <2>1, <2>5 DEF GridInv, GridPlace
  <1> QED BY <1>6, <1>7, <1>8

LEMMA GridKeeps ==
    GridConstants /\ GridInv /\ (GridNext \/ UNCHANGED gridVars) => GridInv'
  <1> SUFFICES ASSUME GridConstants, GridInv, GridNext \/ UNCHANGED gridVars
               PROVE  GridInv'
    OBVIOUS
  <1>1. CASE GridStaleDone \/ GridSkipLevel \/ GridTickEnds
    <2>1. SoundPlan(gridPlan')
      <3>1. CASE GridStaleDone
        BY <3>1 DEF GridInv, GridStaleDone
      <3>2. CASE GridSkipLevel
        BY <3>2 DEF GridInv, SoundPlan, GridSkipLevel, NextSlot
      <3>3. CASE GridTickEnds
        BY <3>3 DEF SoundPlan, NoPlan, GridTickEnds
      <3> QED BY <1>1, <3>1, <3>2, <3>3
    <2> QED BY <1>1, <2>1 DEF GridInv, GridStaleDone, GridSkipLevel, GridTickEnds
  <1>2. CASE UNCHANGED gridVars
    BY <1>2 DEF GridInv, gridVars
  <1> QED BY <1>1, <1>2, EngineSteps, SyncSteps, DecideKeeps, StaleSteps, PlaceStep DEF GridNext

LEMMA GridBooks == GridInv => EngineSolvent /\ LevelOpenOnce
  BY DEF GridInv, SoundEngine, SoundFor, SoundBook, EngineSolvent, LevelOpenOnce
-----------------------------------------------------------------------------
(***************************************************************************)
(* The baht bots.                                                          *)
(***************************************************************************)
\* Prices are positive, amounts are not negative, and a spike sells at most
\* everything (a part of it, in hundredths of a per cent).
ThbConstants ==
    /\ ThbPrices \subseteq Nat \ {0}
    /\ ThbCash \in Nat /\ MinNotional \in Nat
    /\ BaseAmount \in Nat /\ TrendAmount \in Nat
    /\ SpikeSell \in Nat /\ SpikeSell <= 10000

\* A saved state of the DCA bot, and the order it is about to send: a SELL is
\* of coins that it still holds, and nothing it does in between sells others.
SoundDca(s) == s.bought \in Nat /\ s.sold \in Nat /\ s.sold <= s.bought

\* What the DCA bot did at the exchange: until its book goes astray, it has bought
\* at least what any state of it claims, and sold at most what its book says.
Kept ==
    /\ dcaDone \in [bought : Nat, sold : Nat, astray : BOOLEAN]
    /\ ~dcaDone.astray =>
          /\ dca.bought <= dcaDone.bought /\ dcaSaved.bought <= dcaDone.bought
          /\ dcaDone.sold <= dca.sold

ThbInv ==
    /\ Kept
    /\ thbAccount.coins \in Nat
    /\ DOMAIN dca = {"history", "bought", "sold", "since", "soldLast"}
    /\ SoundDca(dca) /\ SoundDca(dcaSaved)
    /\ trend.position \in Nat /\ trendSaved.position \in Nat
    /\ dcaPlan.qty \in Nat /\ trendPlan.qty \in Nat
    /\ dcaPlan.side = "SELL" => dcaPlan.qty <= dca.bought - dca.sold

LEMMA BuyQtyType ==
    ASSUME ThbConstants, NEW amount \in Nat, NEW price \in ThbPrices
    PROVE  BuyQty(amount, price) \in Nat
  <1> DEFINE qty == (2 * amount + price) \div (2 * price)
  <1>1. price \in Nat /\ price > 0
    BY DEF ThbConstants
  <1>2. qty \in Nat
    BY <1>1
  <1> HIDE DEF qty
  <1>3. qty + 1 \in Nat /\ 0 \in Nat
    BY <1>2
  <1>4. BuyQty(amount, price) \in {0, qty + 1, qty}
    BY DEF BuyQty, qty
  <1> QED BY <1>2, <1>3, <1>4

\* What is cut to the free coins is never more than was asked for.
LEMMA SellQtyFits ==
    ASSUME thbAccount.coins \in Nat, NEW qty \in Nat, NEW price
    PROVE  SellQty(qty, price) \in Nat /\ SellQty(qty, price) <= qty
  <1> DEFINE part == (95 * thbAccount.coins) \div 100
             cut == IF thbAccount.coins < qty THEN part ELSE qty
  <1>1. part \in Nat /\ part <= thbAccount.coins
    OBVIOUS
  <1> HIDE DEF part
  <1>2. cut \in Nat /\ cut <= qty
    BY <1>1
  <1> HIDE DEF cut
  <1>3. SellQty(qty, price) \in {0, cut}
    BY DEF SellQty, cut, part
  <1> QED BY <1>2, <1>3

LEMMA PartFits ==
    ASSUME ThbConstants, NEW h \in Nat
    PROVE  (h * SpikeSell) \div 10000 \in Nat /\ (h * SpikeSell) \div 10000 <= h
  <1>1. h * SpikeSell \in Nat /\ h * SpikeSell <= h * 10000
    BY DEF ThbConstants
  <1> DEFINE x == h * SpikeSell
  <1> HIDE DEF x
  <1>2. x \in Nat /\ x <= h * 10000 => x \div 10000 \in Nat /\ x \div 10000 <= h
    OBVIOUS
  <1> QED BY <1>1, <1>2 DEF x

\* What the DCA bot wants to sell it holds.
LEMMA DcaWantsFits ==
    ASSUME ThbConstants, ThbInv, NEW h, NEW price \in ThbPrices
    PROVE  /\ DcaWants(h, price).qty \in Nat
           /\ DcaWants(h, price).side = "SELL" => DcaWants(h, price).qty <= dca.bought - dca.sold
  <1> DEFINE part == (Holdings * SpikeSell) \div 10000
             sell == IF Holdings > 0 /\ ~dca.soldLast THEN SellQty(part, price) ELSE 0
             times == IF Below(h, price, DipTwo) THEN 3
                      ELSE IF Below(h, price, DipOne) THEN 2 ELSE 1
             q == BuyQty(times * BaseAmount, price)
             buy == IF dca.since = Interval /\ Affordable(q, price) THEN q ELSE 0
  <1>1. Holdings \in Nat /\ Holdings = dca.bought - dca.sold
    BY DEF Holdings, ThbInv, SoundDca
  <1>2. part \in Nat /\ part <= Holdings
    BY <1>1, PartFits
  <1> HIDE DEF part
  <1>3. SellQty(part, price) \in Nat /\ SellQty(part, price) <= part
    BY <1>2, SellQtyFits DEF ThbInv
  <1>4. sell \in Nat /\ sell <= Holdings
    BY <1>1, <1>2, <1>3
  <1>5. times \in Nat
    OBVIOUS
  <1> HIDE DEF times
  <1>6. times * BaseAmount \in Nat
    BY <1>5 DEF ThbConstants
  <1>7. q \in Nat
    BY <1>6, BuyQtyType
  <1> HIDE DEF q, sell
  <1>8. buy \in Nat
    BY <1>7
  <1> HIDE DEF buy
  <1>9. CASE Above(h, price, Spike)
    <2>1. DcaWants(h, price) = [side |-> "SELL", price |-> price, qty |-> sell]
      BY <1>9 DEF DcaWants, sell, part
    <2> QED BY <2>1, <1>1, <1>4
  <1>10. CASE ~Above(h, price, Spike)
    <2>1. DcaWants(h, price) = [side |-> "BUY", price |-> price, qty |-> buy]
      BY <1>10 DEF DcaWants, buy, q, times
    <2> QED BY <2>1, <1>8
  <1> QED BY <1>9, <1>10

LEMMA TrendWantsType ==
    ASSUME ThbConstants, ThbInv, NEW price \in ThbPrices, NEW strong, NEW direction
    PROVE  TrendWants(price, strong, direction).qty \in Nat
  <1> DEFINE sell == IF Exits(price, strong, direction) THEN SellQty(trend.position, price) ELSE 0
             q == BuyQty(TrendAmount, price)
             buy == IF /\ trend.position = 0 /\ strong /\ direction = "UP"
                       /\ (trend.position + q) * price <= TrendMax
                       /\ Affordable(q, price)
                    THEN q ELSE 0
  <1>1. sell \in Nat
    BY SellQtyFits DEF ThbInv
  <1>2. q \in Nat
    BY BuyQtyType DEF ThbConstants
  <1> HIDE DEF q, sell
  <1>3. buy \in Nat
    BY <1>2
  <1> HIDE DEF buy
  <1>4. TrendWants(price, strong, direction).qty \in {sell, buy}
    BY DEF TrendWants, sell, buy, q
  <1> QED BY <1>1, <1>3, <1>4

LEMMA ThbStarts == ThbConstants /\ ThbInit => ThbInv
  BY DEF ThbConstants, ThbInit, ThbInv, Kept, SoundDca, Loaded, FreshDca, FreshTrend, NoTrade

LEMMA PollsKeep ==
    ASSUME ThbConstants, ThbInv, NEW price \in ThbPrices, DcaPoll(price) \/ TrendPoll(price)
    PROVE  ThbInv'
  <1>1. CASE DcaPoll(price)
    <2> DEFINE plan == DcaWants(History(price), price)
    <2>1. dcaPlan' = [NoTrade EXCEPT !.side = "save"] \/ dcaPlan' = plan
      BY <1>1 DEF DcaPoll
    <2>2. plan.qty \in Nat /\ (plan.side = "SELL" => plan.qty <= dca.bought - dca.sold)
      BY DcaWantsFits
    <2> HIDE DEF plan
    <2>3. dcaPlan'.qty \in Nat /\ (dcaPlan'.side = "SELL" => dcaPlan'.qty <= dca.bought - dca.sold)
      BY <2>1, <2>2 DEF NoTrade
    <2>4. DOMAIN dca' = DOMAIN dca /\ dca'.bought = dca.bought /\ dca'.sold = dca.sold
      BY <1>1 DEF DcaPoll, ThbInv
    <2>5. Kept'
      BY <1>1, <2>4 DEF DcaPoll, ThbInv, Kept
    <2> QED BY <1>1, <2>3, <2>4, <2>5 DEF DcaPoll, ThbInv, SoundDca
  <1>2. CASE TrendPoll(price)
    <2>1. PICK strong \in BOOLEAN, direction \in {"UP", "DOWN", "NONE"} :
             \/ trendPlan' = [NoTrade EXCEPT !.side = "save"]
             \/ trendPlan' = TrendWants(price, strong, direction)
      BY <1>2 DEF TrendPoll
    <2>2. trendPlan'.qty \in Nat
      BY <2>1, TrendWantsType DEF NoTrade
    <2> QED BY <1>2, <2>2 DEF TrendPoll, ThbInv, Kept
  <1> QED BY <1>1, <1>2

\* The account keeps its coins countable, and an answer reports at most the order.
LEMMA ExecutionFits ==
    ASSUME thbAccount.coins \in Nat, NEW plan, plan.qty \in Nat, NEW e \in Executions(plan),
           Executed(plan, e)
    PROVE  /\ thbAccount'.coins \in Nat
           /\ e \in Nat /\ \A r \in Reported(plan, e) : r \in Nat /\ r <= plan.qty
  <1>1. e \in Nat /\ e <= plan.qty /\ (plan.side # "BUY" => e <= thbAccount.coins)
    BY DEF Executions
  <1>2. thbAccount'.coins = IF plan.side = "BUY" THEN thbAccount.coins + e
                            ELSE thbAccount.coins - e
    BY <1>1 DEF Executed
  <1>3. thbAccount'.coins \in Nat
    BY <1>1, <1>2
  <1> QED BY <1>1, <1>3 DEF Reported

\* However an order of the DCA bot ends: what its book says of it, and whether
\* that leads it astray.
LEMMA RecordsKeep ==
    ASSUME ThbInv, NEW e \in Nat, NEW r \in Nat, Records(e, r), UNCHANGED dcaSaved,
           dca'.bought = dca.bought + (IF dcaPlan.side = "BUY" THEN r ELSE 0),
           dca'.sold = dca.sold + (IF dcaPlan.side = "BUY" THEN 0 ELSE r)
    PROVE  Kept'
  <1>1. /\ dcaDone \in [bought : Nat, sold : Nat, astray : BOOLEAN]
        /\ SoundDca(dca) /\ SoundDca(dcaSaved)
        /\ ~dcaDone.astray =>
             /\ dca.bought <= dcaDone.bought /\ dcaSaved.bought <= dcaDone.bought
             /\ dcaDone.sold <= dca.sold
    BY DEF ThbInv, Kept
  <1>2. CASE dcaPlan.side = "BUY"
    <2>1. dcaDone' = [dcaDone EXCEPT !.bought = @ + e, !.astray = @ \/ r > e]
      BY <1>2 DEF Records
    <2>2. /\ dcaDone' \in [bought : Nat, sold : Nat, astray : BOOLEAN]
          /\ dcaDone'.bought = dcaDone.bought + e /\ dcaDone'.sold = dcaDone.sold
          /\ ~dcaDone'.astray => ~dcaDone.astray /\ r <= e
      <3> DEFINE lie == r > e
      <3>1. lie \in BOOLEAN /\ (~lie => r <= e) /\ dcaDone.bought + e \in Nat
        BY <1>1
      <3>2. dcaDone' = [dcaDone EXCEPT !.bought = @ + e, !.astray = @ \/ lie]
        BY <2>1
      <3> HIDE DEF lie
      <3>3. /\ dcaDone'.bought = dcaDone.bought + e /\ dcaDone'.sold = dcaDone.sold
            /\ dcaDone'.astray = (dcaDone.astray \/ lie)
            /\ dcaDone' \in [bought : Nat, sold : Nat, astray : BOOLEAN]
        BY <1>1, <3>1, <3>2
      <3> QED BY <3>1, <3>3
    <2> QED BY <1>1, <1>2, <2>2 DEF Kept, SoundDca
  <1>3. CASE dcaPlan.side # "BUY"
    <2>1. dcaDone' = [dcaDone EXCEPT !.sold = @ + e, !.astray = @ \/ r < e]
      BY <1>3 DEF Records
    <2>2. /\ dcaDone' \in [bought : Nat, sold : Nat, astray : BOOLEAN]
          /\ dcaDone'.bought = dcaDone.bought /\ dcaDone'.sold = dcaDone.sold + e
          /\ ~dcaDone'.astray => ~dcaDone.astray /\ r >= e
      <3> DEFINE lie == r < e
      <3>1. lie \in BOOLEAN /\ (~lie => r >= e) /\ dcaDone.sold + e \in Nat
        BY <1>1
      <3>2. dcaDone' = [dcaDone EXCEPT !.sold = @ + e, !.astray = @ \/ lie]
        BY <2>1
      <3> HIDE DEF lie
      <3>3. /\ dcaDone'.bought = dcaDone.bought /\ dcaDone'.sold = dcaDone.sold + e
            /\ dcaDone'.astray = (dcaDone.astray \/ lie)
            /\ dcaDone' \in [bought : Nat, sold : Nat, astray : BOOLEAN]
        BY <1>1, <3>1, <3>2
      <3> QED BY <3>1, <3>3
    <2> QED BY <1>1, <1>3, <2>2 DEF Kept, SoundDca
  <1> QED BY <1>2, <1>3

LEMMA OrdersKeep ==
    ASSUME ThbInv, DcaOrder \/ TrendOrder
    PROVE  ThbInv'
  <1>1. CASE DcaOrder
    <2>1. PICK e \in Executions(dcaPlan) :
             /\ Executed(dcaPlan, e)
             /\ \/ UNCHANGED dca /\ Records(e, 0)
                \/ \E r \in Reported(dcaPlan, e) : dca' = DcaBooked(r) /\ Records(e, r)
      BY <1>1 DEF DcaOrder
    <2>2. /\ thbAccount'.coins \in Nat /\ e \in Nat
          /\ \A r \in Reported(dcaPlan, e) : r \in Nat /\ r <= dcaPlan.qty
      BY <2>1, ExecutionFits DEF ThbInv
    <2>3. UNCHANGED dcaSaved
      BY <1>1 DEF DcaOrder
    <2>4. /\ SoundDca(dca') /\ Kept'
          /\ DOMAIN dca' = {"history", "bought", "sold", "since", "soldLast"}
      <3>1. CASE UNCHANGED dca /\ Records(e, 0)
        <4>1. /\ dca'.bought = dca.bought + (IF dcaPlan.side = "BUY" THEN 0 ELSE 0)
              /\ dca'.sold = dca.sold + (IF dcaPlan.side = "BUY" THEN 0 ELSE 0)
          BY <3>1 DEF ThbInv, SoundDca
        <4>2. Kept'
          BY <2>2, <2>3, <3>1, <4>1, RecordsKeep
        <4> QED BY <3>1, <4>2 DEF ThbInv, SoundDca
      <3>2. ASSUME NEW r \in Reported(dcaPlan, e), dca' = DcaBooked(r), Records(e, r)
            PROVE  /\ SoundDca(dca') /\ Kept'
                   /\ DOMAIN dca' = {"history", "bought", "sold", "since", "soldLast"}
        <4>1. r \in Nat /\ r <= dcaPlan.qty
          BY <2>2
        <4>2. /\ dca'.bought = dca.bought + (IF dcaPlan.side = "BUY" THEN r ELSE 0)
              /\ dca'.sold = dca.sold + (IF dcaPlan.side = "BUY" THEN 0 ELSE r)
              /\ DOMAIN dca' = {"history", "bought", "sold", "since", "soldLast"}
          <5>1. CASE dcaPlan.side = "BUY"
            BY <3>2, <4>1, <5>1 DEF DcaBooked, ThbInv, SoundDca
          <5>2. CASE dcaPlan.side # "BUY"
            BY <3>2, <4>1, <5>2 DEF DcaBooked, ThbInv, SoundDca
          <5> QED BY <5>1, <5>2
        <4>3. Kept'
          BY <2>2, <2>3, <3>2, <4>1, <4>2, RecordsKeep
        <4>4. dcaPlan.side = "BUY" \/ dcaPlan.side = "SELL"
          BY <1>1 DEF DcaOrder
        <4>5. SoundDca(dca')
          BY <4>1, <4>2, <4>4 DEF ThbInv, SoundDca
        <4> QED BY <4>2, <4>3, <4>5
      <3> QED BY <2>1, <3>1, <3>2
    <2>5. dcaPlan'.qty = 0 /\ dcaPlan'.side = "save"
      BY <1>1 DEF DcaOrder, NoTrade
    <2> QED BY <1>1, <2>2, <2>3, <2>4, <2>5 DEF DcaOrder, ThbInv
  <1>2. CASE TrendOrder
    <2>1. PICK e \in Executions(trendPlan) :
             /\ Executed(trendPlan, e)
             /\ trend' \in {trend} \cup {TrendBooked(r) : r \in Reported(trendPlan, e)}
      BY <1>2 DEF TrendOrder
    <2>2. /\ thbAccount'.coins \in Nat
          /\ \A r \in Reported(trendPlan, e) : r \in Nat /\ r <= trendPlan.qty
      BY <2>1, ExecutionFits DEF ThbInv
    <2>3. ASSUME NEW r \in Reported(trendPlan, e) PROVE TrendBooked(r).position \in Nat
      <3> DEFINE p == IF trendPlan.side = "BUY" THEN trend.position + r ELSE trend.position - r
      <3>1. p \in Int
        BY <2>2 DEF ThbInv
      <3>2. TrendBooked(r) = IF p <= 0 THEN FreshTrend
                             ELSE [position |-> p,
                                   entry |-> IF trendPlan.side = "BUY" THEN trendPlan.price
                                             ELSE trend.entry]
        BY DEF TrendBooked
      <3> HIDE DEF p
      <3> QED BY <3>1, <3>2 DEF FreshTrend
    <2>4. trend'.position \in Nat
      BY <2>1, <2>3 DEF ThbInv
    <2>5. trendPlan'.qty = 0
      BY <1>2 DEF TrendOrder, NoTrade
    <2> QED BY <1>2, <2>2, <2>4, <2>5 DEF TrendOrder, ThbInv, Kept
  <1> QED BY <1>1, <1>2

LEMMA SavesKeep ==
    ASSUME ThbInv, DcaSave \/ TrendSave \/ ThbRestart
    PROVE  ThbInv'
  <1>1. CASE DcaSave
    BY <1>1 DEF DcaSave, ThbInv, Kept, SoundDca, Savable, NoTrade
  <1>2. CASE TrendSave
    BY <1>2 DEF TrendSave, ThbInv, Kept, NoTrade
  <1>3. CASE ThbRestart
    <2>1. /\ dcaDone' \in [bought : Nat, sold : Nat, astray : BOOLEAN]
          /\ dcaDone'.bought = dcaDone.bought /\ dcaDone'.sold = dcaDone.sold
          /\ ~dcaDone'.astray => ~dcaDone.astray /\ ~(dcaSaved.sold < dca.sold)
      BY <1>3 DEF ThbRestart, ThbInv, Kept
    <2>2. Kept'
      BY <1>3, <2>1 DEF ThbRestart, ThbInv, Kept, SoundDca, Loaded
    <2> QED BY <1>3, <2>2 DEF ThbRestart, ThbInv, SoundDca, Loaded, NoTrade
  <1> QED BY <1>1, <1>2, <1>3

LEMMA ThbKeeps == ThbConstants /\ ThbInv /\ (ThbNext \/ UNCHANGED thbVars) => ThbInv'
  <1>1. ASSUME UNCHANGED thbVars, ThbInv PROVE ThbInv'
    BY <1>1 DEF thbVars, ThbInv, Kept
  <1> QED BY <1>1, PollsKeep, OrdersKeep, SavesKeep DEF ThbNext

LEMMA ThbBooks == ThbInv => SoldFromBought
  BY DEF ThbInv, Kept, SoundDca, SoldFromBought
-----------------------------------------------------------------------------
(***************************************************************************)
(* The arbitrage bot.                                                      *)
(***************************************************************************)
ArbConstants ==
    /\ ArbPrices \subseteq Nat /\ ArbRates \subseteq Nat
    /\ ArbCapital \in Nat

SoundArb(s) ==
    /\ s.capital \in Int /\ s.pnl \in Int /\ s.peak \in Int
    /\ s.trades \in Nat /\ s.wins \in Nat /\ s.losses \in Nat
    /\ s.capital = ArbCapital + s.pnl
    /\ s.wins + s.losses = s.trades
    /\ s.peak >= s.capital /\ s.peak >= ArbCapital

ArbInv ==
    /\ SoundArb(arb) /\ SoundArb(arbSaved)
    /\ arbRate.rate \in Nat
    /\ \A a \in ArbAssets : arbBitkub.prices[a] \in Nat

LEMMA FreshIsSound == ArbConstants => SoundArb(FreshArb)
  BY DEF ArbConstants, SoundArb, FreshArb

\* A trade changes the capital by what it books as profit, and is won or lost.
LEMMA TradedIsSound ==
    ASSUME ArbConstants, NEW s, SoundArb(s), NEW buy \in Nat \ {0}, NEW sell \in Int
    PROVE  SoundArb(Traded(s, buy, sell))
  <1> DEFINE stake == Stake(s)
             proceeds == (stake * sell) \div buy
             gain == Profit(stake, buy, sell)
             capital == s.capital + gain
             t == Traded(s, buy, sell)
  <1>1. stake \in Int
    BY DEF Stake, SoundArb
  <1> HIDE DEF stake
  <1>2. proceeds \in Int
    BY <1>1
  <1>3. gain = proceeds - stake - (stake + proceeds) \div 1000
    BY DEF Profit
  <1> HIDE DEF proceeds
  <1>4. gain \in Int
    BY <1>1, <1>2, <1>3
  <1>5. /\ t.capital = capital /\ t.pnl = s.pnl + gain /\ t.trades = s.trades + 1
        /\ t.peak = IF capital > s.peak THEN capital ELSE s.peak
        /\ t.wins = s.wins + (IF gain > 0 THEN 1 ELSE 0)
        /\ t.losses = s.losses + (IF gain > 0 THEN 0 ELSE 1)
    BY DEF Traded, stake
  <1> HIDE DEF gain, t
  <1>6. SoundArb(t)
    BY <1>4, <1>5 DEF SoundArb, ArbConstants
  <1> QED BY <1>6 DEF t

LEMMA ArbStarts == ArbConstants /\ ArbInit => ArbInv
  BY FreshIsSound DEF ArbInit, ArbInv, NoRate, NoTickers

\* A quoted price is a whole number.
LEMMA QuotesAreInt ==
    ASSUME ArbConstants, arbRate.rate \in Nat, NEW global \in ArbPrices \cup {Silent},
           NEW th \in ArbPrices \cup {Silent}, NEW bitkub \in Nat
    PROVE  \A e \in DOMAIN Quotes(global, th, bitkub) : Quotes(global, th, bitkub)[e] \in Int
  <1> DEFINE g == IF global = Silent THEN Silent ELSE (global * arbRate.rate) \div 100
             k == IF bitkub = 0 THEN Silent ELSE bitkub
             answers == [global |-> g, th |-> th, bitkub |-> k]
  <1>1. global \in Int /\ th \in Int /\ Silent \in Int
    BY DEF ArbConstants, Silent
  <1>2. g \in Int /\ k \in Int
    BY <1>1
  <1>3. Quotes(global, th, bitkub)
          = [e \in {x \in DOMAIN answers : answers[x] # Silent} |-> answers[e]]
    BY DEF Quotes
  <1> HIDE DEF g, k
  <1>4. \A e \in DOMAIN answers : answers[e] \in Int
    BY <1>1, <1>2
  <1> HIDE DEF answers
  <1> QED BY <1>3, <1>4

LEMMA TickersAreNat ==
    ASSUME ArbConstants, ArbInv, NEW b \in Tickers
    PROVE  \A a \in ArbAssets : b.prices[a] \in Nat
  <1>1. CASE b = arbBitkub
    BY <1>1 DEF ArbInv
  <1>2. CASE b # arbBitkub
    <2>1. PICK q \in [ArbAssets -> ArbPrices \cup {0}] :
             b = [prices |-> [a \in ArbAssets |-> IF q[a] = 0 THEN arbBitkub.prices[a] ELSE q[a]],
                  age |-> 0]
      BY <1>2 DEF Tickers
    <2>2. ASSUME NEW a \in ArbAssets PROVE b.prices[a] \in Nat
      <3>1. b.prices[a] = IF q[a] = 0 THEN arbBitkub.prices[a] ELSE q[a]
        BY <2>1
      <3>2. q[a] \in Nat /\ arbBitkub.prices[a] \in Nat
        <4>1. q[a] \in ArbPrices \cup {0}
          OBVIOUS
        <4>2. ASSUME NEW x \in ArbPrices \cup {0} PROVE x \in Nat
          BY DEF ArbConstants
        <4>3. arbBitkub.prices[a] \in Nat
          BY DEF ArbInv
        <4> QED BY <4>1, <4>2, <4>3
      <3>3. CASE q[a] = 0
        BY <3>1, <3>2, <3>3
      <3>4. CASE q[a] # 0
        BY <3>1, <3>2, <3>4
      <3> QED BY <3>3, <3>4
    <2> QED BY <2>2
  <1> QED BY <1>1, <1>2

LEMMA ScanKeeps ==
    ASSUME ArbConstants, ArbInv, NEW a \in ArbAssets, ScanAsset(a)
    PROVE  ArbInv'
  <1>1. \A x \in ArbAssets : arbBitkub'.prices[x] \in Nat
    BY TickersAreNat DEF ScanAsset
  <1>2. SoundArb(arb')
    <2>1. PICK global, th \in ArbPrices \cup {Silent} :
            LET quotes == Quotes(global, th, arbBitkub'.prices[a])
            IN  \/ UNCHANGED arb
                \/ \E b, d \in DOMAIN quotes :
                      quotes[b] > 0 /\ arb' = Traded(arb, quotes[b], quotes[d])
      BY DEF ScanAsset
    <2> DEFINE quotes == Quotes(global, th, arbBitkub'.prices[a])
    <2>2. CASE UNCHANGED arb
      BY <2>2 DEF ArbInv
    <2>3. CASE \E b, d \in DOMAIN quotes :
                  quotes[b] > 0 /\ arb' = Traded(arb, quotes[b], quotes[d])
      <3>1. PICK b, d \in DOMAIN quotes :
                quotes[b] > 0 /\ arb' = Traded(arb, quotes[b], quotes[d])
        BY <2>3
      <3>2. quotes[b] \in Int /\ quotes[d] \in Int
        BY <1>1, QuotesAreInt DEF ArbInv
      <3> HIDE DEF quotes
      <3>3. quotes[b] \in Nat \ {0}
        BY <3>1, <3>2
      <3> QED BY <3>1, <3>2, <3>3, TradedIsSound DEF ArbInv
    <2> QED BY <2>1, <2>2, <2>3
  <1>3. SoundArb(arbSaved')
    BY <1>2 DEF ScanAsset, ArbInv
  <1> QED BY <1>1, <1>2, <1>3 DEF ScanAsset, ArbInv

LEMMA StartScanKeeps ==
    ASSUME ArbConstants, ArbInv, StartScan
    PROVE  ArbInv'
  <1>1. arbRate'.rate \in Nat
    <2>1. CASE arbRate' = [arbRate EXCEPT !.age = @ + 1]
      BY <2>1 DEF ArbInv
    <2>2. CASE arbRate' \in {[rate |-> r, age |-> 0] : r \in ArbRates}
      BY <2>2 DEF ArbConstants
    <2>3. CASE arbRate' = arbRate
      BY <2>3 DEF ArbInv
    <2>4. CASE arbRate' = [arbRate EXCEPT !.rate = IF @ = 0 THEN 100 ELSE @]
      BY <2>4 DEF ArbInv
    <2> QED BY <2>1, <2>2, <2>3, <2>4 DEF StartScan, Rates
  <1>2. arbBitkub'.prices = arbBitkub.prices
    BY DEF StartScan
  <1> QED BY <1>1, <1>2 DEF StartScan, ArbInv

LEMMA ArbKeeps == ArbConstants /\ ArbInv /\ (ArbNext \/ UNCHANGED arbVars) => ArbInv'
  <1> SUFFICES ASSUME ArbConstants, ArbInv, ArbNext \/ UNCHANGED arbVars PROVE ArbInv'
    OBVIOUS
  <1>1. CASE ResetArb
    BY <1>1, FreshIsSound DEF ResetArb, ArbInv
  <1>2. CASE RestartArb
    BY <1>2 DEF RestartArb, ArbInv, NoRate, NoTickers
  <1>3. CASE UNCHANGED arbVars
    BY <1>3 DEF ArbInv, arbVars
  <1> QED BY <1>1, <1>2, <1>3, ScanKeeps, StartScanKeeps DEF ArbNext

LEMMA ArbBooks == ArbInv => CapitalExplained
  BY DEF ArbInv, SoundArb, CapitalExplained
-----------------------------------------------------------------------------
(***************************************************************************)
(* The announcements of the service.                                       *)
(***************************************************************************)
SvcConstants == Thresholds \in Seq(Nat) /\ AlertCounts \subseteq Nat /\ MaxSpam \in Nat

Messages == [kind : {"none", "milestone", "locked", "waiting", "passed", "evaluation", "alert",
                     "summary", "bot"}, n : Nat]

\* A milestone that was put in the queue, or that a run without a webhook reached.
Told(n) == Milestone(n) \in spoken \/ n \in muted

\* A milestone counts as notified from the moment its message waits to be put,
\* as long as the scan is there to put it; none waits any more when the scan
\* saves.  What the shutdown has still to stop is on its list.
SvcInv ==
    /\ todo \in Seq(Messages)
    /\ waiting \in [{"real", "scan"} -> Messages]
    /\ DOMAIN persisted = {"milestones", "gate"} /\ DOMAIN notified = {"milestones", "gate"}
    /\ \A n \in persisted.milestones : Told(n)
    /\ "scan" \in tasks =>
          \A n \in notified.milestones : Told(n) \/ waiting["scan"] = Milestone(n)
    /\ pc = "save" => waiting["scan"] = Silence
    /\ svcPhase = "starting" => notified.milestones = {} /\ "scan" \notin tasks
    /\ tasks \subseteq Background
    /\ stopping \in Seq(Background)
    /\ svcPhase = "stopping" =>
          \A t \in tasks \ {"paper"} : \E i \in 1 .. Len(stopping) : stopping[i] = t

LEMMA MessageKinds ==
    /\ {Silence, EvaluationNews, AlertNews, SummaryNews, BotNews} \subseteq Messages
    /\ \A n \in Nat : Milestone(n) \in Messages /\ Milestone(n) # Silence
    /\ \A s \in {"locked", "waiting", "passed"} : GateNews(s) \in Messages
    /\ \A m \in Messages : m.kind = "milestone" => m = Milestone(m.n)
  BY DEF Messages, Silence, EvaluationNews, AlertNews, SummaryNews, BotNews, Milestone, GateNews

LEMMA Joined ==
    ASSUME NEW s \in Seq(Messages), NEW u \in Seq(Messages)
    PROVE  s \o u \in Seq(Messages)
  OBVIOUS

\* Whatever is read of Redis or kept in it was announced; a lost message's
\* number is no milestone of a message at rest.
LEMMA NotSilent == \A n : Milestone(n) # Silence
  BY DEF Milestone, Silence

LEMMA SvcStarts == SvcInit => SvcInv
  BY MessageKinds DEF SvcInit, SvcInv, Nothing, Background

LEMMA LifeKeeps ==
    ASSUME SvcInv, Startup \/ StartTasks \/ Shutdown \/ StopTask \/ Ends
    PROVE  SvcInv'
  <1>1. CASE Startup
    BY <1>1, MessageKinds DEF Startup, SvcInv, Told, Nothing, Background
  <1>2. CASE StartTasks
    BY <1>2 DEF StartTasks, SvcInv, Told, Background
  <1>3. CASE Shutdown
    <2>1. /\ ShutdownOrder \in Seq(Background)
          /\ \A t \in Background \ {"paper"} :
                \E i \in 1 .. Len(ShutdownOrder) : ShutdownOrder[i] = t
      <3>1. Len(ShutdownOrder) = 4
        BY DEF ShutdownOrder
      <3> QED BY <3>1 DEF ShutdownOrder, Background
    <2> QED BY <1>3, <2>1 DEF Shutdown, SvcInv, Told
  <1>4. CASE StopTask
    <2>1. stopping \in Seq(Background) /\ stopping # <<>>
      BY <1>4 DEF StopTask, SvcInv, Told
    <2>2. /\ stopping' \in Seq(Background)
          /\ \A t \in tasks' \ {"paper"} : \E i \in 1 .. Len(stopping') : stopping'[i] = t
      <3>1. stopping' = Tail(stopping) /\ tasks' = tasks \ {stopping[1]}
        BY <1>4, <2>1 DEF StopTask
      <3>2. ASSUME NEW t \in tasks' \ {"paper"}
            PROVE  \E i \in 1 .. Len(stopping') : stopping'[i] = t
        <4>1. PICK i \in 1 .. Len(stopping) : stopping[i] = t
          BY <3>1, <1>4 DEF StopTask, SvcInv, Told
        <4>2. i # 1
          BY <4>1, <3>1
        <4>3. i - 1 \in 1 .. Len(stopping') /\ stopping'[i - 1] = t
          BY <4>1, <4>2, <3>1, <2>1
        <4> QED BY <4>3
      <3> QED BY <3>1, <3>2, <2>1
    <2>3. waiting' \in [{"real", "scan"} -> Messages]
      BY <1>4, MessageKinds DEF StopTask, SvcInv, Told
    <2>4. todo' \in Seq(Messages)
      BY <1>4 DEF StopTask, SvcInv, Told
    <2>5. "scan" \in tasks' => waiting'["scan"] = waiting["scan"]
      BY <1>4 DEF StopTask, SvcInv, Told
    <2>6. pc' = "save" => waiting'["scan"] = Silence
      BY <1>4 DEF StopTask, SvcInv, Told
    <2> QED BY <1>4, <2>2, <2>3, <2>4, <2>5, <2>6 DEF StopTask, SvcInv, Told
  <1>5. CASE Ends
    BY <1>5, MessageKinds DEF Ends, SvcInv, Told
  <1> QED BY <1>1, <1>2, <1>3, <1>4, <1>5

LEMMA ScanSteps ==
    ASSUME SvcConstants, SvcInv,
           LoadNotificationState \/ Scan \/ ScanFails \/ Announced \/ SaveNotificationState
    PROVE  SvcInv'
  <1>1. CASE LoadNotificationState
    BY <1>1 DEF LoadNotificationState, Scanning, SvcInv, Told, Nothing
  <1>2. CASE Scan
    <2>1. PICK evaluated \in {<<>>, <<EvaluationNews>>} :
             \/ todo' = evaluated
             \/ \E passes : todo' = evaluated \o GateMessages(GateStatus(total', passes))
                                         \o MilestoneMessages
      BY <1>2 DEF Scan
    <2>2. \A passes : GateMessages(GateStatus(total', passes)) \in Seq(Messages)
      BY MessageKinds DEF GateMessages, GateStatus
    <2>3. MilestoneMessages \in Seq(Messages)
      BY MessageKinds DEF MilestoneMessages, SvcConstants
    <2>4. todo' \in Seq(Messages)
      <3>0. EvaluationNews \in Messages
        BY MessageKinds
      <3>1. evaluated \in Seq(Messages)
        <4>1. <<>> \in Seq(Messages) /\ <<EvaluationNews>> \in Seq(Messages)
          BY <3>0
        <4>2. evaluated = <<>> \/ evaluated = <<EvaluationNews>>
          BY Zenon, <2>1
        <4> QED BY Zenon, <4>1, <4>2
      <3>2. CASE todo' = evaluated
        BY <3>1, <3>2
      <3>3. CASE todo' # evaluated
        <4>1. PICK passes : todo' = evaluated \o GateMessages(GateStatus(total', passes))
                                              \o MilestoneMessages
          BY <2>1, <3>3
        <4> DEFINE news == GateMessages(GateStatus(total', passes))
        <4>2. news \in Seq(Messages) /\ todo' = evaluated \o news \o MilestoneMessages
          BY <2>2, <4>1
        <4> HIDE DEF news
        <4>3. evaluated \o news \in Seq(Messages)
          BY <3>1, <4>2, Joined
        <4> DEFINE first == evaluated \o news
        <4>4. first \in Seq(Messages) /\ todo' = first \o MilestoneMessages
          BY <4>2, <4>3
        <4> HIDE DEF first
        <4> QED BY <2>3, <4>4, Joined
      <3> QED BY <3>2, <3>3
    <2>5. DOMAIN notified' = DOMAIN notified /\ notified'.milestones = notified.milestones
      BY <1>2 DEF Scan, SvcInv, Told
    <2> QED BY <1>2, <2>4, <2>5 DEF Scan, SvcInv, Told
  <1>3. CASE ScanFails
    BY <1>3 DEF ScanFails, SvcInv, Told
  <1>4. CASE Announced
    BY <1>4 DEF Announced, SvcInv, Told
  <1>5. CASE SaveNotificationState
    <2>1. \A n \in notified.milestones : Told(n)
      BY <1>5, NotSilent DEF SaveNotificationState, Scanning, SvcInv, Told
    <2>2. DOMAIN persisted' = {"milestones", "gate"}
          /\ persisted'.milestones \in {persisted.milestones, notified.milestones}
      BY <1>5 DEF SaveNotificationState, SvcInv, Told
    <2> QED BY <1>5, <2>1, <2>2 DEF SaveNotificationState, SvcInv, Told
  <1> QED BY <1>1, <1>2, <1>3, <1>4, <1>5

LEMMA AnnounceSteps ==
    ASSUME SvcConstants, SvcInv, Announce \/ PassOver \/ KeepAlerts \/ SendAlert
    PROVE  SvcInv'
  <1>1. ASSUME todo # <<>> PROVE Head(todo) \in Messages /\ Tail(todo) \in Seq(Messages)
    BY <1>1 DEF SvcInv, Told
  <1>2. CASE Announce
    <2>1. Head(todo) \in Messages /\ Tail(todo) \in Seq(Messages)
      BY <1>1, <1>2 DEF Announce
    <2>2. /\ waiting' \in [{"real", "scan"} -> Messages]
          /\ waiting'["scan"] = IF enabled THEN Head(todo) ELSE Silence
      BY <1>2, <2>1 DEF Announce, Offer, SvcInv
    <2>3. DOMAIN notified' = {"milestones", "gate"}
          /\ \A n \in notified'.milestones :
                n \in notified.milestones \/ (Head(todo) = Milestone(n) /\ Head(todo).kind = "milestone")
      <3>1. CASE Head(todo).kind = "milestone"
        <4>1. Head(todo) = Milestone(Head(todo).n)
          BY <2>1, <3>1, MessageKinds
        <4>2. notified' = [notified EXCEPT !.milestones = @ \cup {Head(todo).n}]
          BY <1>2, <3>1 DEF Announce, Noted
        <4> QED BY <3>1, <4>1, <4>2 DEF SvcInv
      <3>2. CASE Head(todo).kind # "milestone"
        <4>1. DOMAIN notified' = DOMAIN notified /\ notified'.milestones = notified.milestones
          BY <1>2, <3>2 DEF Announce, Noted, SvcInv
        <4> QED BY <4>1 DEF SvcInv
      <3> QED BY <3>1, <3>2
    <2>4. \A n : Told(n) => Told(n)'
      BY <1>2 DEF Announce, Told
    <2>5. \A n \in notified'.milestones : Told(n)' \/ waiting'["scan"] = Milestone(n)
      <3> SUFFICES ASSUME NEW n \in notified'.milestones
                   PROVE  Told(n)' \/ waiting'["scan"] = Milestone(n)
        OBVIOUS
      <3>1. CASE n \in notified.milestones
        BY <1>2, <2>4, <3>1, NotSilent DEF Announce, Scanning, SvcInv
      <3>2. CASE n \notin notified.milestones
        <4>1. Head(todo) = Milestone(n) /\ Head(todo).kind = "milestone" /\ Head(todo).n = n
          BY <2>3, <3>2 DEF Milestone
        <4>2. CASE enabled
          BY <2>2, <4>1, <4>2
        <4>3. CASE ~enabled
          BY <1>2, <4>1, <4>3 DEF Announce, Told
        <4> QED BY <4>2, <4>3
      <3> QED BY <3>1, <3>2
    <2>6. \A n \in persisted'.milestones : Told(n)'
      BY <1>2, <2>4 DEF Announce, SvcInv
    <2> QED BY <1>2, <2>1, <2>2, <2>3, <2>5, <2>6 DEF Announce, Scanning, SvcInv
  <1>3. CASE PassOver
    BY <1>1, <1>3 DEF PassOver, SvcInv, Told
  <1>4. CASE KeepAlerts
    <2>1. PICK n \in AlertCounts :
             todo' = IF n = 0 THEN <<>>
                     ELSE [k \in 1 .. (IF n > MaxSpam THEN MaxSpam ELSE n) |-> AlertNews]
                          \o <<SummaryNews>>
      BY <1>4 DEF KeepAlerts
    <2> DEFINE m == IF n > MaxSpam THEN MaxSpam ELSE n
    <2>2. m \in Nat
      BY DEF SvcConstants
    <2> HIDE DEF m
    <2>3. todo' \in Seq(Messages)
      <3>0. AlertNews \in Messages /\ SummaryNews \in Messages
        BY MessageKinds
      <3>1. [k \in 1 .. m |-> AlertNews] \in Seq(Messages) /\ <<SummaryNews>> \in Seq(Messages)
        BY <2>2, <3>0
      <3> DEFINE spam == [k \in 1 .. m |-> AlertNews]
                 last == <<SummaryNews>>
      <3>2. todo' = <<>> \/ todo' = spam \o last
        BY <2>1 DEF m
      <3>3. spam \in Seq(Messages) /\ last \in Seq(Messages)
        BY <3>1
      <3> HIDE DEF spam, last
      <3>4. <<>> \in Seq(Messages)
        OBVIOUS
      <3>5. spam \o last \in Seq(Messages)
        BY <3>3, Joined
      <3> QED BY Zenon, <3>2, <3>4, <3>5
    <2> QED BY <1>4, <2>3 DEF KeepAlerts, SvcInv, Told
  <1>5. CASE SendAlert
    <2>1. CASE todo = <<>>
      BY <1>5, <2>1 DEF SendAlert, SvcInv, Told
    <2>2. CASE todo # <<>>
      <3>1. Head(todo) \in Messages /\ Tail(todo) \in Seq(Messages)
        BY <1>1, <2>2
      <3>2. waiting' \in [{"real", "scan"} -> Messages]
        BY <1>5, <2>2, <3>1 DEF SendAlert, Offer, SvcInv
      <3> QED BY <1>5, <2>2, <3>1, <3>2, NotSilent DEF SendAlert, Scanning, SvcInv, Told
    <2> QED BY <2>1, <2>2
  <1> QED BY <1>2, <1>3, <1>4, <1>5

LEMMA QueueSteps ==
    ASSUME SvcInv, BotReports \/ (\E t \in {"real", "scan"} : Put(t)) \/ WorkerTakes \/ WorkerSends
    PROVE  SvcInv'
  <1>1. CASE BotReports
    <2>1. waiting' \in [{"real", "scan"} -> Messages] /\ waiting'["scan"] = waiting["scan"]
      BY <1>1, MessageKinds DEF BotReports, Offer, SvcInv, Told
    <2> QED BY <1>1, <2>1 DEF BotReports, SvcInv, Told
  <1>2. CASE \E t \in {"real", "scan"} : Put(t)
    <2>1. PICK t \in {"real", "scan"} : Put(t)
      BY <1>2
    <2>2. DOMAIN notified' = DOMAIN notified /\ notified'.milestones = notified.milestones
      BY <2>1 DEF Put, Noted, SvcInv
    <2>3. waiting' \in [{"real", "scan"} -> Messages]
      BY <2>1, MessageKinds DEF Put, SvcInv, Told
    <2>4. \/ waiting'["scan"] = waiting["scan"]
          \/ waiting'["scan"] = Silence /\ waiting["scan"] \in spoken'
      BY <2>1 DEF Put, SvcInv, Told
    <2>5. spoken \subseteq spoken'
      BY <2>1 DEF Put
    <2>6. \A n : (Told(n) => Told(n)') /\ (waiting[t] = Milestone(n) => Told(n)')
      BY <2>1 DEF Put, Told
    <2>7. /\ \A n \in persisted'.milestones : Told(n)'
          /\ "scan" \in tasks' =>
                \A n \in notified'.milestones : Told(n)' \/ waiting'["scan"] = Milestone(n)
      BY <2>1, <2>2, <2>4, <2>6 DEF Put, SvcInv
    <2> QED BY <2>1, <2>2, <2>3, <2>4, <2>7 DEF Put, SvcInv, Told
  <1>3. CASE WorkerTakes
    BY <1>3 DEF WorkerTakes, SvcInv, Told
  <1>4. CASE WorkerSends
    BY <1>4 DEF WorkerSends, SvcInv, Told
  <1> QED BY <1>1, <1>2, <1>3, <1>4

LEMMA SvcKeeps == SvcConstants /\ SvcInv /\ (SvcNext \/ UNCHANGED svcVars) => SvcInv'
  <1>1. ASSUME SvcInv, UNCHANGED svcVars PROVE SvcInv'
    BY <1>1 DEF SvcInv, Told, svcVars
  <1> QED BY <1>1, LifeKeeps, ScanSteps, AnnounceSteps, QueueSteps DEF SvcNext

LEMMA SvcBooks == SvcInv => AnnouncementsAreSaved
  BY DEF SvcInv, Told, AnnouncementsAreSaved

-----------------------------------------------------------------------------
(***************************************************************************)
(* All of them side by side.                                               *)
(***************************************************************************)
BotsConstants == GridConstants /\ ThbConstants /\ ArbConstants /\ SvcConstants

\* The books are true in every behavior of the bots and the service: the engine
\* stays solvent and the bot's book opens a grid level once, whatever answers get
\* lost; the arbitrage capital is explained by its trades; the DCA bot sells what it
\* bought until a failed answer or save leads it astray; and what Redis holds as
\* announced was put in the queue, or reached by a run that has no webhook.
THEOREM BooksAreTrueHolds == ASSUME BotsConstants PROVE BotsSpec => []BooksAreTrue
  <1> DEFINE Inv == GridInv /\ ThbInv /\ ArbInv /\ SvcInv
             all == <<gridVars, thbVars, arbVars, svcVars>>
  <1>1. BotsInit => Inv
    BY GridStarts, ThbStarts, ArbStarts, SvcStarts DEF BotsConstants, BotsInit
  <1>2. Inv /\ [BotsNext]_all => Inv'
    <2> SUFFICES ASSUME Inv, [BotsNext]_all PROVE Inv'
      OBVIOUS
    <2>1. /\ GridNext \/ UNCHANGED gridVars
          /\ ThbNext \/ UNCHANGED thbVars
          /\ ArbNext \/ UNCHANGED arbVars
          /\ SvcNext \/ UNCHANGED svcVars
      BY DEF BotsNext
    <2> QED BY <2>1, GridKeeps, ThbKeeps, ArbKeeps, SvcKeeps DEF BotsConstants
  <1>3. Inv => BooksAreTrue
    BY GridBooks, ThbBooks, ArbBooks, SvcBooks DEF BooksAreTrue
  <1> QED
    <2> HIDE DEF Inv
    <2> QED BY <1>1, <1>2, <1>3, PTL DEF BotsSpec
=============================================================================
