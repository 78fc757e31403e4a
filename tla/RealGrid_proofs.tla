-------------------------- MODULE RealGrid_proofs --------------------------
(***************************************************************************)
(* Proofs about the real grid bot, for every market, configuration, number *)
(* of orders, risk limit and, unless a theorem says otherwise, any number  *)
(* of forced restarts running beside the tick.                             *)
(***************************************************************************)
EXTENDS RealGrid, FiniteSetTheorems, TLAPS

Sides == {"BUY", "SELL"}
Entries == [side : Sides, price : Int, id : OrderIds]
Orders == [OrderIds -> [state : OrderStates, side : Sides, price : Int]]

Books ==
    [active : SUBSET Entries, lots : Seq(Int), stops : SUBSET [lot : Int, at : Int],
     triggered : SUBSET Int, halted : BOOLEAN, lastPrice : {0} \cup Prices,
     pnl : Int, booked : [OrderIds -> Nat], assumed : SUBSET OrderIds]

Risks == [halted : BOOLEAN, pnl : Int, streak : Nat]
Gaps == [spacing : Int, floor : Int, levels : Int]

(***************************************************************************)
(* The inductive invariant: the types, the exchange's numbering, what the  *)
(* two copies of the state promise, and where a halted tick may stand.     *)
(***************************************************************************)
Shape ==
    /\ market \in Prices
    /\ orders \in Orders
    /\ enabled \in BOOLEAN
    /\ risk \in Risks
    /\ pc \in [Workers -> Phases]
    /\ \A w \in Restarts : pc[w] \in {"idle", "ask", "buys", "sells"}
    /\ At("stops") => work \subseteq Int
    /\ level \in Int \X Sides
    /\ adjust \in Gaps
    /\ snapshot \in [Workers -> SUBSET OrderIds]
    /\ missing \in [Workers -> SUBSET Entries]
    /\ dropping \in [Workers -> Entries \cup {None}]

\* The exchange numbers its orders from one.
Numbered == \E n \in Nat : UsedIds = 1 .. n

OnePerPrice(m) ==
    \A p, q \in m.active : p.side = q.side /\ p.price = q.price => p = q

FillsTrue(m, o) ==
    \A i \in OrderIds : m.booked[i] > 0 /\ i \notin m.assumed => o[i].state = "filled"

StopsHeld(m) ==
    \A s, t \in m.stops : s.lot \in m.triggered /\ (s.lot = t.lot => s = t)

Fine(m, o) ==
    /\ m \in Books
    /\ OnePerPrice(m)
    /\ FillsTrue(m, o)
    /\ StopsHeld(m)

\* The phases a tick can only reach when it found no halt.
Running == {"ask", "buys", "sells", "price", "stale", "regime", "trend", "bear",
            "stops", "grid"}

HaltRests == mem.halted => pc["tick"] \notin Running

Inv ==
    /\ Shape
    /\ Numbered
    /\ Fine(mem, orders)
    /\ Fine(saved, orders)
    /\ HaltRests

(***************************************************************************)
(* What an operator returns has the type its callers expect.               *)
(***************************************************************************)
LEMMA UntrackType ==
  ASSUME NEW m \in Books, NEW e
  PROVE  /\ Untrack(m, e) \in Books
         /\ Untrack(m, e).active \subseteq m.active
         /\ Untrack(m, e) = [m EXCEPT !.active = Untrack(m, e).active]
  BY DEF Untrack, Books

LEMMA WithoutType ==
  ASSUME NEW s \in Seq(Int), NEW x
  PROVE  Without(s, x) \in Seq(Int)
  <1>1. CASE x \notin Range(s)
    BY <1>1 DEF Without
  <1>2. CASE x \in Range(s)
    <2> DEFINE at == CHOOSE i \in DOMAIN s : s[i] = x
               r == [i \in 1 .. Len(s) - 1 |-> IF i < at THEN s[i] ELSE s[i + 1]]
    <2>1. \E i \in DOMAIN s : s[i] = x
      BY <1>2 DEF Range
    <2>2. at \in DOMAIN s
      BY <2>1
    <2>3. DOMAIN s = 1 .. Len(s) /\ Len(s) \in Nat /\ \A i \in 1 .. Len(s) : s[i] \in Int
      OBVIOUS
    <2>4. Len(s) - 1 \in Nat
      BY <2>2, <2>3
    <2> HIDE DEF at
    <2>5. \A i \in 1 .. Len(s) - 1 : (IF i < at THEN s[i] ELSE s[i + 1]) \in Int
      BY <2>2, <2>3
    <2>6. r \in [1 .. Len(s) - 1 -> Int]
      BY <2>5
    <2>7. r \in Seq(Int)
      BY <2>4, <2>6
    <2> QED
      BY <1>2, <2>7 DEF Without, at
  <1> QED
    BY <1>1, <1>2

LEMMA MatchType ==
  ASSUME NEW m \in Books, NEW price
  PROVE  Match(m, price) \in Int
  <1> DEFINE exits == {l \in Range(m.lots) : \E s \in m.stops : s.lot = l /\ s.at = price}
             below == Highest({l \in Range(m.lots) : l < price})
  <1>1. Range(m.lots) \subseteq Int
    BY DEF Range, Books
  <1>2. exits \subseteq Int /\ below \subseteq Int
    BY <1>1 DEF Highest
  <1>3. m.lots # <<>> => Head(m.lots) \in Int
    BY DEF Books
  <1>4. exits # {} => (CHOOSE l \in exits : TRUE) \in exits
    OBVIOUS
  <1>5. below # {} => (CHOOSE l \in below : TRUE) \in below
    OBVIOUS
  <1>6. Match(m, price) = IF exits # {} THEN CHOOSE l \in exits : TRUE
                          ELSE IF below # {} THEN CHOOSE l \in below : TRUE
                          ELSE IF m.lots # <<>> THEN Head(m.lots)
                          ELSE 0
    BY DEF Match
  <1> HIDE DEF exits, below
  <1>7. CASE exits # {}
    BY <1>2, <1>4, <1>6, <1>7
  <1>8. CASE exits = {} /\ below # {}
    BY <1>2, <1>5, <1>6, <1>8
  <1>9. CASE exits = {} /\ below = {}
    BY <1>3, <1>6, <1>9
  <1> QED
    BY <1>7, <1>8, <1>9

LEMMA ProfitType ==
  ASSUME adjust \in Gaps, NEW lot \in Int, NEW price \in Int
  PROVE  Profit(lot, price) \in Int
  BY DEF Gaps, Profit

LEMMA LastPriceType ==
  ASSUME Fine(mem, orders)
  PROVE  mem.lastPrice \in Int
  <1>1. \A p \in Prices : p \in Int
    BY Parameters
  <1>2. mem.lastPrice = 0 \/ mem.lastPrice \in Prices
    BY DEF Fine, Books
  <1> QED
    BY <1>1, <1>2

LEMMA GridPriceType ==
  ASSUME Shape, Fine(mem, orders)
  PROVE  GridPrice \in Int
  <1>1. mem.lastPrice \in Int
    BY LastPriceType
  <1>2. Gap \in Int
    BY <1>1 DEF Gap, HigherOf, Shape, Gaps
  <1>3. level[1] \in Int
    BY DEF Shape
  <1>4. Gap * level[1] \in Int
    BY <1>2, <1>3
  <1> QED
    BY <1>1, <1>2, <1>3, <1>4 DEF GridPrice

LEMMA StopPriceType ==
  ASSUME Fine(mem, orders)
  PROVE  (mem.lastPrice \div Whole) * Whole \in Int
  <1>1. Whole \in Nat \ {0}
    BY Parameters
  <1> QED
    BY <1>1, LastPriceType

LEMMA AdjustedType ==
  ASSUME adjust \in Gaps, NEW regime \in Regimes, regime # "extreme"
  PROVE  Adjusted(regime) \in Gaps
  <1>1. BaseLevels \in Int /\ Spacing \in Int
    BY Parameters
  <1>2. regime \in {"low_vol", "normal", "high_vol"}
    BY Parameters
  <1>3. adjust.spacing \in Int /\ adjust.floor \in Int
    BY DEF Gaps
  <1>4. \A x, y \in Int : HigherOf(x, y) \in Int /\ LowerOf(x, y) \in Int
    BY DEF HigherOf, LowerOf
  <1>5. CASE regime = "low_vol"
    <2>1. (adjust.spacing * 67) \div 100 \in Int /\ (adjust.floor * 4) \div 5 \in Int
      BY <1>3
    <2>2. BaseLevels + 1 \in Int
      BY <1>1
    <2>3. /\ HigherOf(10, (adjust.spacing * 67) \div 100) \in Int
          /\ HigherOf(5, (adjust.floor * 4) \div 5) \in Int
          /\ LowerOf(BaseLevels + 1, 5) \in Int
      BY <1>4, <2>1, <2>2
    <2> QED
      BY <1>5, <2>3 DEF Adjusted, Gaps
  <1>6. CASE regime = "high_vol"
    <2>1. (adjust.floor * 3) \div 2 \in Int /\ BaseLevels - 1 \in Int
      BY <1>1, <1>3
    <2>2. HigherOf(BaseLevels - 1, 1) \in Int
      BY <1>4, <2>1
    <2> QED
      BY <1>6, <2>1, <2>2 DEF Adjusted, Gaps
  <1>7. CASE regime = "normal"
    BY <1>1, <1>7 DEF Adjusted, Defaults, Gaps
  <1> QED
    BY <1>2, <1>5, <1>6, <1>7

(***************************************************************************)
(* The exchange: what one step may do to the orders.                       *)
(***************************************************************************)
OrdersGo ==
    /\ orders' \in Orders
    /\ Numbered'
    /\ \A i \in UsedIds : /\ i \in UsedIds'
                          /\ orders'[i].side = orders[i].side
                          /\ orders'[i].price = orders[i].price
    /\ \A i \in OrderIds : orders[i].state \in {"filled", "canceled"}
                              => orders'[i] = orders[i]

LEMMA OrdersSame ==
  ASSUME orders \in Orders, Numbered, UNCHANGED orders
  PROVE  OrdersGo /\ UsedIds' = UsedIds
  BY DEF OrdersGo, Numbered, UsedIds

LEMMA OrdersEnd ==
  ASSUME orders \in Orders, Numbered, NEW i \in OpenIds,
         NEW state \in {"filled", "canceled"}, EndsAs(i, state)
  PROVE  OrdersGo /\ UsedIds' = UsedIds
  <1>1. i \in OrderIds /\ orders[i].state = "open"
    BY DEF OpenIds
  <1>2. orders' \in Orders /\ \A j \in OrderIds : j # i => orders'[j] = orders[j]
    BY <1>1 DEF EndsAs, Orders, OrderStates
  <1>3. /\ orders'[i].state = state /\ orders'[i].side = orders[i].side
        /\ orders'[i].price = orders[i].price
    BY <1>1 DEF EndsAs, Orders
  <1>4. UsedIds' = UsedIds
    BY <1>1, <1>2, <1>3 DEF UsedIds
  <1>5. Numbered'
    BY <1>4 DEF Numbered
  <1> QED
    BY <1>1, <1>2, <1>3, <1>4, <1>5 DEF OrdersGo, UsedIds

LEMMA OrdersNew ==
  ASSUME orders \in Orders, Numbered, NEW side \in Sides, NEW price \in Int,
         NEW id, id = Cardinality(UsedIds) + 1, id \in OrderIds,
         orders' = [orders EXCEPT ![id] =
                      [state |-> "open", side |-> side, price |-> price]]
  PROVE  OrdersGo /\ orders[id].state = "none"
  <1>1. PICK n \in Nat : UsedIds = 1 .. n
    BY DEF Numbered
  <1>2. Cardinality(UsedIds) = n
    BY <1>1, FS_Interval
  <1>3. id = n + 1 /\ id \notin UsedIds
    BY <1>1, <1>2
  <1>4. orders[id].state = "none"
    BY <1>3 DEF UsedIds
  <1>5. orders' \in Orders
    BY DEF Orders, OrderStates
  <1>6. /\ orders'[id].state = "open"
        /\ \A j \in OrderIds : j # id => orders'[j] = orders[j]
    BY DEF Orders
  <1>7. UsedIds' = UsedIds \cup {id}
    BY <1>4, <1>6 DEF UsedIds
  <1>8. UsedIds' = 1 .. n + 1
    BY <1>1, <1>3, <1>7
  <1>9. Numbered'
    BY <1>8 DEF Numbered
  <1> QED
    BY <1>3, <1>4, <1>5, <1>6, <1>7, <1>9 DEF OrdersGo, UsedIds

LEMMA OrdersCancel ==
  ASSUME orders \in Orders, Numbered, NEW i, CancelOrder(i)
  PROVE  OrdersGo /\ UsedIds' = UsedIds
  BY OrdersSame, OrdersEnd DEF CancelOrder

(***************************************************************************)
(* The state of the bot: what one step may do to it.                       *)
(***************************************************************************)
LEMMA FineStays ==
  ASSUME NEW m, Fine(m, orders), OrdersGo
  PROVE  Fine(m, orders')
  BY DEF Fine, FillsTrue, OrdersGo

\* Entries leave, and neither the fills nor the stops are touched.
LEMMA FineLess ==
  ASSUME NEW m, NEW n \in Books, Fine(m, orders), n.active \subseteq m.active,
         n.booked = m.booked, n.assumed = m.assumed,
         n.stops = m.stops, n.triggered = m.triggered
  PROVE  Fine(n, orders)
  BY DEF Fine, OnePerPrice, FillsTrue, StopsHeld

LEMMA FineUntrack ==
  ASSUME NEW m, Fine(m, orders), NEW e
  PROVE  Fine(Untrack(m, e), orders)
  <1> DEFINE n == Untrack(m, e)
  <1>1. m \in Books
    BY DEF Fine
  <1>2. n \in Books /\ n.active \subseteq m.active
    BY <1>1, UntrackType
  <1>3. /\ n.booked = m.booked /\ n.assumed = m.assumed
        /\ n.stops = m.stops /\ n.triggered = m.triggered
    BY <1>1 DEF Untrack, Books
  <1> HIDE DEF n
  <1>4. Fine(n, orders)
    BY <1>2, <1>3, FineLess
  <1> QED
    BY <1>4 DEF n

\* An entry is added at a price that is free, or made free.
LEMMA FineTrack ==
  ASSUME NEW m, Fine(m, orders), NEW e \in Entries
  PROVE  Fine([m EXCEPT !.active = Untrack(m, e).active \cup {e}], orders)
  <1> DEFINE n == [m EXCEPT !.active = Untrack(m, e).active \cup {e}]
  <1>1. m \in Books
    BY DEF Fine
  <1>2. Untrack(m, e).active = {f \in m.active : f.side # e.side \/ f.price # e.price}
    BY <1>1 DEF Untrack, Books
  <1>3. /\ n \in Books /\ n.active = Untrack(m, e).active \cup {e}
        /\ n.booked = m.booked /\ n.assumed = m.assumed
        /\ n.stops = m.stops /\ n.triggered = m.triggered
    BY <1>1, <1>2 DEF Books
  <1>4. OnePerPrice(n)
    BY <1>2, <1>3 DEF Fine, OnePerPrice
  <1> HIDE DEF n
  <1>5. Fine(n, orders)
    BY <1>3, <1>4 DEF Fine, FillsTrue, StopsHeld
  <1> QED
    BY <1>5 DEF n

\* A booked fill: a sale takes the stop of its lot along.
LEMMA FineBook ==
  ASSUME adjust \in Gaps, risk \in Risks, Fine(mem, orders), NEW e \in Entries,
         NEW assumed \in BOOLEAN, Book(e, assumed),
         assumed \/ orders[e.id].state = "filled"
  PROVE  /\ Fine(mem', orders) /\ risk' \in Risks
         /\ mem'.active = mem.active /\ mem'.halted = mem.halted
         /\ mem'.booked = [mem.booked EXCEPT ![e.id] = @ + 1]
  <1>1. mem \in Books /\ e.id \in OrderIds /\ e.price \in Int
    BY DEF Fine, Entries
  <1> DEFINE booked == [mem.booked EXCEPT ![e.id] = @ + 1]
             guessed == IF assumed THEN mem.assumed \cup {e.id} ELSE mem.assumed
             lot == Match(mem, e.price)
             net == Profit(lot, e.price)
             bought == Append(Without(mem.lots, e.price), e.price)
             sold == Without(mem.lots, lot)
             stops == {s \in mem.stops : s.lot # lot}
  <1>2. booked \in [OrderIds -> Nat] /\ guessed \in SUBSET OrderIds
    BY <1>1 DEF Books
  <1>3. \A i \in OrderIds : booked[i] > 0 /\ i \notin guessed => orders[i].state = "filled"
    BY <1>1 DEF Fine, FillsTrue, Books
  <1>4. lot \in Int /\ net \in Int
    BY <1>1, MatchType, ProfitType
  <1>5. mem.lots \in Seq(Int) /\ sold \in Seq(Int) /\ Without(mem.lots, e.price) \in Seq(Int)
    BY <1>1, WithoutType DEF Books
  <1>6. bought \in Seq(Int)
    BY <1>1, <1>5
  <1>7. CASE e.side = "BUY"
    <2>1. /\ mem' = [mem EXCEPT !.booked = booked, !.assumed = guessed, !.lots = bought]
          /\ risk' = risk
      BY <1>1, <1>7 DEF Book, Books
    <2> HIDE DEF booked, guessed, bought
    <2>2. /\ mem' \in Books /\ mem'.active = mem.active /\ mem'.halted = mem.halted
          /\ mem'.booked = booked /\ mem'.assumed = guessed
          /\ mem'.stops = mem.stops /\ mem'.triggered = mem.triggered
      BY <1>1, <1>2, <1>6, <2>1 DEF Books
    <2>3. Fine(mem', orders)
      BY <1>3, <2>2 DEF Fine, OnePerPrice, FillsTrue, StopsHeld
    <2> QED
      BY <2>1, <2>2, <2>3 DEF booked
  <1>8. CASE e.side # "BUY"
    <2>1. /\ mem' = [mem EXCEPT !.booked = booked, !.assumed = guessed, !.lots = sold,
                                !.stops = stops, !.triggered = @ \ {lot}, !.pnl = @ + net]
          /\ risk' = [risk EXCEPT !.pnl = @ + net, !.streak = IF net > 0 THEN 0 ELSE @ + 1]
      BY <1>1, <1>8 DEF Book, Books
    <2>2. risk' \in Risks
      <3> HIDE DEF net
      <3>1. net \in Int /\ risk.pnl + net \in Int
        BY <1>4 DEF Risks
      <3>2. (IF net > 0 THEN 0 ELSE risk.streak + 1) \in Nat
        BY <3>1 DEF Risks
      <3> QED
        BY <2>1, <3>1, <3>2 DEF Risks
    <2>3. stops \subseteq mem.stops /\ \A s \in stops : s.lot # lot
      OBVIOUS
    <2> HIDE DEF booked, guessed, sold, lot, net, stops
    <2>4. /\ mem' \in Books /\ mem'.active = mem.active /\ mem'.halted = mem.halted
          /\ mem'.booked = booked /\ mem'.assumed = guessed
          /\ mem'.stops = stops /\ mem'.triggered = mem.triggered \ {lot}
      <3>1. mem.pnl + net \in Int /\ mem.triggered \ {lot} \subseteq Int
        BY <1>1, <1>4 DEF Books
      <3>2. stops \subseteq [lot : Int, at : Int]
        BY <1>1, <2>3 DEF Books
      <3> QED
        BY <1>1, <1>2, <1>5, <2>1, <3>1, <3>2 DEF Books
    <2>5. StopsHeld(mem')
      BY <2>3, <2>4 DEF Fine, StopsHeld
    <2>6. Fine(mem', orders)
      BY <1>3, <2>4, <2>5 DEF Fine, OnePerPrice, FillsTrue
    <2> QED
      BY <2>2, <2>4, <2>6 DEF booked
  <1> QED
    BY <1>7, <1>8

(***************************************************************************)
(* One step of each kind.  The invariant follows from the types after the  *)
(* step, the new state of the bot and where its tick stands.               *)
(***************************************************************************)
LEMMA InvAfter ==
  ASSUME Inv, OrdersGo, Shape', Fine(mem', orders), saved' \in {saved, mem}, HaltRests'
  PROVE  Inv'
  <1>1. Fine(saved', orders)
    BY DEF Inv
  <1>2. Fine(mem', orders') /\ Fine(saved', orders')
    BY <1>1, FineStays
  <1> QED
    BY <1>2 DEF Inv, OrdersGo

LEMMA GotoType ==
  ASSUME pc \in [Workers -> Phases], NEW phase \in Phases, Goto(phase)
  PROVE  /\ pc' \in [Workers -> Phases] /\ pc'["tick"] = phase
         /\ \A w \in Restarts : pc'[w] = pc[w]
  BY Parameters DEF Goto, Workers

LEMMA AfterType ==
  ASSUME pc \in [Workers -> Phases], NEW w \in Workers, NEW phase \in Phases,
         After(w, phase)
  PROVE  /\ pc' \in [Workers -> Phases]
         /\ pc'["tick"] = IF w = "tick" THEN phase ELSE pc["tick"]
         /\ \A v \in Restarts : pc'[v] \in {"idle", pc[v]}
  BY Parameters DEF After, Workers, Phases

LEMMA OutsideStep ==
  ASSUME Inv, \/ \E i \in OrderIds : Fill(i) \/ CancelOutside(i)
              \/ \E p \in Prices : Move(p)
  PROVE  Inv'
  <1>1. OrdersGo
    BY OrdersSame, OrdersEnd DEF Inv, Shape, Fill, CancelOutside, Move
  <1>2. /\ UNCHANGED <<mem, saved, enabled, risk, pc, tickVars, syncVars>>
        /\ market' \in Prices
    BY DEF Inv, Shape, Fill, CancelOutside, Move
  <1>3. Shape' /\ HaltRests'
    BY <1>1, <1>2 DEF Inv, Shape, HaltRests, OrdersGo, At, tickVars, syncVars
  <1> QED
    BY <1>1, <1>2, <1>3, InvAfter DEF Inv

LEMMA OperatorStep ==
  ASSUME Inv, Kill \/ Enable \/ RiskDay \/ \E w \in Restarts : ForceRestart(w)
  PROVE  Inv'
  <1>1. orders' = orders
    BY DEF Kill, Enable, RiskDay, ForceRestart, exchangeVars
  <1>2. OrdersGo
    BY <1>1, OrdersSame DEF Inv, Shape
  <1>3. mem \in Books /\ Fine(mem, orders)
    BY DEF Inv, Fine
  <1>4. CASE Kill \/ RiskDay
    <2>1. risk' \in Risks /\ enabled' \in BOOLEAN
      <3>1. CASE Kill
        BY <3>1 DEF Kill, Inv, Shape
      <3>2. CASE RiskDay
        BY <3>2 DEF RiskDay, Inv, Shape, Risks
      <3> QED
        BY <1>4, <3>1, <3>2
    <2>2. UNCHANGED <<exchangeVars, mem, saved, pc, tickVars, syncVars>>
      BY <1>4 DEF Kill, RiskDay, exchangeVars, tickVars, syncVars
    <2>3. Shape' /\ HaltRests' /\ UNCHANGED <<mem, saved>>
      BY <2>1, <2>2 DEF Inv, Shape, HaltRests, At, exchangeVars, tickVars, syncVars
    <2> QED
      BY <1>2, <1>3, <2>3, InvAfter
  <1>5. CASE Enable
    <2>1. risk' \in Risks
      BY <1>5 DEF Enable, Inv, Shape, Risks
    <2>2. Shape' /\ UNCHANGED saved
      BY <1>5, <2>1 DEF Enable, Inv, Shape, At, exchangeVars, tickVars, syncVars
    <2>3. mem' = [mem EXCEPT !.halted = FALSE]
      BY <1>5 DEF Enable
    <2>4. /\ mem' \in Books /\ mem'.active \subseteq mem.active /\ ~mem'.halted
          /\ mem'.booked = mem.booked /\ mem'.assumed = mem.assumed
          /\ mem'.stops = mem.stops /\ mem'.triggered = mem.triggered
      BY <1>3, <2>3 DEF Books
    <2>5. Fine(mem', orders)
      BY <1>3, <2>4, FineLess
    <2> QED
      BY <1>2, <2>2, <2>4, <2>5, InvAfter DEF HaltRests
  <1>6. ASSUME NEW w \in Restarts, ForceRestart(w)
        PROVE  Inv'
    <2>1. /\ pc' \in [Workers -> Phases] /\ pc'["tick"] = pc["tick"]
          /\ \A v \in Restarts : pc'[v] \in {"ask", pc[v]}
      BY <1>6, Parameters DEF ForceRestart, Inv, Shape, Workers, Phases
    <2>2. Shape' /\ HaltRests' /\ UNCHANGED <<mem, saved>>
      BY <1>6, <2>1 DEF ForceRestart, Inv, Shape, HaltRests, At, exchangeVars, tickVars, syncVars
    <2> QED
      BY <1>2, <1>3, <2>2, InvAfter
  <1> QED
    BY <1>4, <1>5, <1>6

LEMMA DefaultsType == Defaults \in Gaps
  BY Parameters DEF Defaults, Gaps

LEMMA CrashStep ==
  ASSUME Inv, Crash
  PROVE  Inv'
  <1>1. OrdersGo
    BY OrdersSame DEF Inv, Shape, Crash, exchangeVars
  <1>2. pc'["tick"] = "idle" /\ \A w \in Restarts : pc'[w] = "idle"
    BY DEF Crash, Workers
  <1>3. Shape'
    BY <1>2, DefaultsType DEF Crash, Inv, Shape, At, Phases, Sides, Risks, CalmRisk, exchangeVars
  <1>4. Fine(mem', orders) /\ saved' = saved
    BY DEF Crash, Inv
  <1>5. HaltRests'
    BY <1>2 DEF HaltRests, Running
  <1> QED
    BY <1>1, <1>3, <1>4, <1>5, InvAfter

(***************************************************************************)
(* The tick begins.                                                        *)
(***************************************************************************)
\* A step of the tick that leaves orders, risk, level, adjust and sync alone.
TickLeaves == UNCHANGED <<orders, market, saved, enabled, risk, level, adjust, syncVars>>

LEMMA TickStep ==
  ASSUME Inv, NEW phase \in Phases, Goto(phase), TickLeaves, Fine(mem', orders),
         phase = "stops" => work' \subseteq Int,
         mem'.halted => phase \notin Running
  PROVE  Inv'
  <1>1. OrdersGo
    BY OrdersSame DEF Inv, Shape, TickLeaves
  <1>2. /\ pc' \in [Workers -> Phases] /\ pc'["tick"] = phase
        /\ \A w \in Restarts : pc'[w] = pc[w]
    BY GotoType DEF Inv, Shape
  <1>3. Shape'
    BY <1>2 DEF Inv, Shape, At, TickLeaves, syncVars
  <1> QED
    BY <1>1, <1>2, <1>3, InvAfter DEF HaltRests, TickLeaves

LEMMA LimitsFine ==
  ASSUME NEW m, Fine(m, orders), CheckLimits(m)
  PROVE  /\ Fine(mem', orders)
         /\ \/ Goto("idle")
            \/ Goto("reconcile")
            \/ Goto("ask") /\ ~mem'.halted
  <1>1. m \in Books
    BY DEF Fine
  <1>2. [m EXCEPT !.halted = TRUE] \in Books
    BY <1>1 DEF Books
  <1>3. Fine([m EXCEPT !.halted = TRUE], orders)
    BY <1>1, <1>2, FineLess DEF Books
  <1> QED
    BY <1>3 DEF CheckLimits

LEMMA LimitsStep ==
  ASSUME Inv, NEW m, Fine(m, orders), CheckLimits(m), TickLeaves
  PROVE  Inv'
  <1>1. CASE Goto("idle")
    BY <1>1, LimitsFine, TickStep DEF Phases, Running
  <1>2. CASE Goto("reconcile")
    BY <1>2, LimitsFine, TickStep DEF Phases, Running
  <1>3. CASE Goto("ask") /\ ~mem'.halted
    BY <1>3, LimitsFine, TickStep DEF Phases, Running
  <1> QED
    BY <1>1, <1>2, <1>3, LimitsFine

LEMMA BeginStep ==
  ASSUME Inv, Begin \/ RebalanceDone
  PROVE  Inv'
  <1>1. CASE Begin
    BY <1>1, LimitsStep DEF Begin, Inv, TickLeaves, exchangeVars
  <1>2. CASE RebalanceDone
    <2> DEFINE m == [mem EXCEPT !.active = {e \in @ : KeptByRebalance(e)}]
    <2>1. mem \in Books
      BY DEF Inv, Fine
    <2>2. /\ m \in Books /\ m.active \subseteq mem.active
          /\ m.booked = mem.booked /\ m.assumed = mem.assumed
          /\ m.stops = mem.stops /\ m.triggered = mem.triggered
      BY <2>1 DEF Books
    <2>3. CheckLimits(m) /\ TickLeaves
      BY <1>2 DEF RebalanceDone, TickLeaves, exchangeVars
    <2> HIDE DEF m
    <2>4. Fine(m, orders)
      BY <2>2, FineLess DEF Inv
    <2> QED
      BY <2>3, <2>4, LimitsStep
  <1> QED
    BY <1>1, <1>2

LEMMA BeginDayStep ==
  ASSUME Inv, BeginDay
  PROVE  Inv'
  <1> DEFINE m == [mem EXCEPT !.pnl = 0]
  <1>1. mem \in Books /\ \A x \in Int : [mem EXCEPT !.pnl = x] \in Books
    BY DEF Inv, Fine, Books
  <1>2. /\ m \in Books /\ m.active = mem.active /\ m.halted = mem.halted
        /\ m.booked = mem.booked /\ m.assumed = mem.assumed
        /\ m.stops = mem.stops /\ m.triggered = mem.triggered
    <2>1. m \in Books
      BY <1>1
    <2> QED
      BY <1>1, <2>1 DEF Books
  <1>3. TickLeaves
    <2>1. UNCHANGED <<exchangeVars, saved, enabled, risk, level, adjust, syncVars>>
      BY Zenon DEF BeginDay
    <2> QED
      BY <2>1 DEF TickLeaves, exchangeVars
  <1>4. CheckLimits(m) \/ (~m.halted /\ mem' = m /\ Goto("cancelAll"))
    BY Zenon DEF BeginDay
  <1> HIDE DEF m
  <1>5. Fine(m, orders)
    BY <1>2, FineLess DEF Inv
  <1>6. CASE CheckLimits(m)
    BY <1>3, <1>5, <1>6, LimitsStep
  <1>7. CASE ~m.halted /\ mem' = m /\ Goto("cancelAll")
    BY <1>3, <1>5, <1>7, TickStep DEF Phases
  <1> QED
    BY <1>4, <1>6, <1>7

\* The loops over work, and the two places where the snapshot is written.
LEMMA WorkStep ==
  ASSUME Inv, \/ At("cancelAll") /\ \E e \in work : RebalanceCancel(e)
              \/ At("reconcile") /\ \E e \in work : ReconcileHalted(e)
              \/ \E e \in mem.active : CancelStale(e)
  PROVE  Inv'
  <1>1. PICK e : RebalanceCancel(e) \/ ReconcileHalted(e) \/ CancelStale(e)
    OBVIOUS
  <1>2. OrdersGo
    BY <1>1, OrdersCancel, OrdersSame
    DEF Inv, Shape, RebalanceCancel, ReconcileHalted, CancelStale, exchangeVars
  <1>3. mem' = mem \/ mem' = Untrack(mem, e)
    BY <1>1 DEF RebalanceCancel, ReconcileHalted, CancelStale
  <1>4. Untrack(mem, e).halted = mem.halted
    BY DEF Untrack, Inv, Fine, Books
  <1>5. Fine(mem', orders) /\ mem'.halted = mem.halted
    BY <1>3, <1>4, FineUntrack DEF Inv
  <1>6. /\ UNCHANGED <<market, saved, enabled, risk, pc, level, adjust, syncVars>>
        /\ ~At("stops")
    BY <1>1 DEF RebalanceCancel, ReconcileHalted, CancelStale, At, exchangeVars, tickVars
  <1>7. Shape' /\ HaltRests'
    BY <1>2, <1>5, <1>6 DEF Inv, Shape, HaltRests, OrdersGo, At, syncVars
  <1> QED
    BY <1>2, <1>5, <1>6, <1>7, InvAfter

LEMMA BearCancelStep ==
  ASSUME Inv, NEW e, BearCancel(e)
  PROVE  Inv'
  <1>1. OrdersGo
    BY OrdersCancel DEF Inv, Shape, BearCancel
  <1>2. Untrack(mem, e).halted = mem.halted
    BY DEF Untrack, Inv, Fine, Books
  <1>3. Fine(mem', orders) /\ mem'.halted = mem.halted
    BY <1>2, FineUntrack DEF Inv, BearCancel
  <1>4. /\ pc' \in [Workers -> Phases]
        /\ pc'["tick"] \in {"idle", "bear"}
        /\ \A w \in Restarts : pc'[w] = pc[w]
    <2>1. CASE Goto("idle")
      BY <2>1, GotoType DEF Inv, Shape, Phases
    <2>2. CASE pc' = pc
      BY <2>2 DEF Inv, Shape, BearCancel, At
    <2> QED
      BY <2>1, <2>2 DEF BearCancel
  <1>5. Shape'
    BY <1>1, <1>4 DEF Inv, Shape, OrdersGo, At, BearCancel, syncVars
  <1>6. HaltRests'
    BY <1>3, <1>4 DEF Inv, HaltRests, BearCancel, At, Running
  <1> QED
    BY <1>1, <1>3, <1>5, <1>6, InvAfter DEF BearCancel

LEMMA SaveStep ==
  ASSUME Inv, ReconcileDone \/ Save
  PROVE  Inv'
  <1>1. /\ Goto("idle") /\ saved' \in {saved, mem}
        /\ UNCHANGED <<exchangeVars, mem, enabled, risk, tickVars, syncVars>>
    BY DEF ReconcileDone, Save
  <1>2. OrdersGo
    BY <1>1, OrdersSame DEF Inv, Shape, exchangeVars
  <1>3. /\ pc' \in [Workers -> Phases] /\ pc'["tick"] = "idle"
        /\ \A w \in Restarts : pc'[w] = pc[w]
    BY <1>1, GotoType DEF Inv, Shape, Phases
  <1>4. Shape' /\ HaltRests'
    BY <1>1, <1>3 DEF Inv, Shape, HaltRests, Running, At, exchangeVars, tickVars, syncVars
  <1> QED
    BY <1>1, <1>2, <1>4, InvAfter DEF Inv

(***************************************************************************)
(* The synchronisation with the exchange, in the tick or beside it.        *)
(***************************************************************************)
\* A step of a sync: the tick keeps its place, or goes on to the price.
LEMMA SyncStep ==
  ASSUME Inv, NEW w \in Workers,
         UNCHANGED <<orders, market, saved, enabled, tickVars>>,
         NEW phase \in {"buys", "sells"},
         pc' = pc \/ After(w, "price") \/ pc' = [pc EXCEPT ![w] = phase],
         Fine(mem', orders), mem'.halted => mem.halted,
         (w = "tick" /\ pc' # pc) => ~mem.halted,
         risk' \in Risks, snapshot' \in [Workers -> SUBSET OrderIds],
         missing' \in [Workers -> SUBSET Entries],
         dropping' \in [Workers -> Entries \cup {None}]
  PROVE  Inv'
  <1>1. OrdersGo
    BY OrdersSame DEF Inv, Shape
  <1>2. pc \in [Workers -> Phases]
    BY DEF Inv, Shape
  <1>3. /\ pc' \in [Workers -> Phases]
        /\ pc'["tick"] = pc["tick"] \/ (w = "tick" /\ pc' # pc /\ pc'["tick"] # "stops")
        /\ \A v \in Restarts : pc'[v] \in {"idle", "buys", "sells", pc[v]}
    <2>1. CASE pc' = pc
      BY <1>2, <2>1
    <2>2. CASE After(w, "price")
      BY <1>2, <2>2, AfterType DEF Phases
    <2>3. CASE pc' = [pc EXCEPT ![w] = phase]
      BY <1>2, <2>3, Parameters DEF Phases, Workers
    <2> QED
      BY <2>1, <2>2, <2>3
  <1>4. Shape'
    BY <1>3 DEF Inv, Shape, At, tickVars
  <1>5. HaltRests'
    BY <1>3 DEF Inv, HaltRests
  <1> QED
    BY <1>1, <1>4, <1>5, InvAfter

LEMMA SyncAskStep ==
  ASSUME Inv, NEW w \in Workers, SyncAsk(w)
  PROVE  Inv'
  <1>1. /\ snapshot' \in [Workers -> SUBSET OrderIds]
        /\ missing' \in [Workers -> SUBSET Entries]
    <2>1. OpenIds \in SUBSET OrderIds
      BY DEF OpenIds
    <2>2. {e \in Tracked("BUY") : e.id \notin OpenIds} \in SUBSET Entries
      BY DEF Tracked, Inv, Fine, Books
    <2> HIDE DEF OpenIds
    <2>3. CASE UNCHANGED <<snapshot, missing>>
      BY <2>3 DEF Inv, Shape
    <2>4. CASE /\ snapshot' = [snapshot EXCEPT ![w] = OpenIds]
               /\ missing' = [missing EXCEPT
                     ![w] = {e \in Tracked("BUY") : e.id \notin OpenIds}]
      BY <2>1, <2>2, <2>4 DEF Inv, Shape
    <2> QED
      BY <2>3, <2>4 DEF SyncAsk
  <1>2. pc[w] = "ask"
    BY DEF SyncAsk
  <1>3. w = "tick" => ~mem.halted
    BY <1>2 DEF Inv, HaltRests, Running
  <1>4. After(w, "price") \/ pc' = [pc EXCEPT ![w] = "buys"]
    BY DEF SyncAsk
  <1>5. UNCHANGED <<orders, market, mem, saved, enabled, risk, tickVars, dropping>>
    BY DEF SyncAsk, exchangeVars
  <1> QED
    BY <1>1, <1>3, <1>4, <1>5, SyncStep DEF Inv, Shape

LEMMA SyncVerifyStep ==
  ASSUME Inv, NEW w \in Workers, NEW e \in missing[w], SyncVerify(w, e)
  PROVE  Inv'
  <1>1. e \in Entries /\ missing' \in [Workers -> SUBSET Entries]
    BY DEF SyncVerify, Inv, Shape
  <1>2. UNCHANGED <<orders, market, saved, enabled, pc, tickVars, snapshot>>
    BY DEF SyncVerify, exchangeVars
  <1>3. dropping' \in [Workers -> Entries \cup {None}]
    BY <1>1 DEF SyncVerify, Inv, Shape
  <1>4. Fine(mem', orders) /\ risk' \in Risks /\ mem'.halted = mem.halted
    <2>1. CASE mem' = mem /\ risk' = risk
      BY <2>1 DEF Inv, Shape
    <2>2. CASE orders[e.id].state = "filled" /\ Book(e, FALSE)
      BY <1>1, <2>2, FineBook DEF Inv, Shape
    <2>3. CASE Book(e, TRUE)
      BY <1>1, <2>3, FineBook DEF Inv, Shape
    <2> QED
      BY <2>1, <2>2, <2>3 DEF SyncVerify
  <1> QED
    BY <1>1, <1>2, <1>3, <1>4, SyncStep DEF Inv, Shape

LEMMA SyncDropStep ==
  ASSUME Inv, NEW w \in Workers, SyncDrop(w)
  PROVE  Inv'
  <1>1. /\ missing' \in [Workers -> SUBSET Entries]
        /\ dropping' \in [Workers -> Entries \cup {None}]
    BY DEF SyncDrop, Inv, Shape
  <1>2. pc[w] \in {"buys", "sells"} /\ (pc' = pc \/ After(w, "price"))
    BY DEF SyncDrop
  <1>3. w = "tick" => ~mem.halted
    BY <1>2 DEF Inv, HaltRests, Running
  <1>4. Untrack(mem, dropping[w]).halted = mem.halted
    BY DEF Untrack, Inv, Fine, Books
  <1>5. Fine(mem', orders) /\ mem'.halted = mem.halted
    BY <1>4, FineUntrack DEF SyncDrop, Inv
  <1>6. UNCHANGED <<orders, market, saved, enabled, risk, tickVars, snapshot>>
    BY DEF SyncDrop, exchangeVars
  <1> QED
    BY <1>1, <1>2, <1>3, <1>5, <1>6, SyncStep DEF Inv, Shape

LEMMA SyncSellsStep ==
  ASSUME Inv, NEW w \in Workers, SyncSells(w)
  PROVE  Inv'
  <1>1. missing' \in [Workers -> SUBSET Entries]
    BY DEF SyncSells, Inv, Shape, Fine, Books, Tracked
  <1>2. pc[w] = "buys" /\ pc' = [pc EXCEPT ![w] = "sells"]
    BY DEF SyncSells
  <1>3. w = "tick" => ~mem.halted
    BY <1>2 DEF Inv, HaltRests, Running
  <1>4. UNCHANGED <<orders, market, mem, saved, enabled, risk, tickVars, snapshot, dropping>>
    BY DEF SyncSells, exchangeVars
  <1> QED
    BY <1>1, <1>2, <1>3, <1>4, SyncStep DEF Inv, Shape

\* What is adopted is an open order at a free price, one for each price.
LEMMA FineAdopt ==
  ASSUME Shape, Fine(mem, orders), NEW w \in Workers, NEW new \in SUBSET Untaken(w),
         \A e \in Untaken(w) :
           Cardinality({f \in new : f.side = e.side /\ f.price = e.price}) = 1,
         mem' = [mem EXCEPT !.active = @ \cup new]
  PROVE  Fine(mem', orders) /\ mem'.halted = mem.halted
  <1>1. mem \in Books
    BY DEF Fine
  <1>2. new \subseteq Entries
    BY DEF Untaken, Entry, Entries, Shape, Orders, Sides
  <1>3. /\ mem' \in Books /\ mem'.halted = mem.halted
        /\ mem'.active = mem.active \cup new
        /\ mem'.booked = mem.booked /\ mem'.assumed = mem.assumed
        /\ mem'.stops = mem.stops /\ mem'.triggered = mem.triggered
    BY <1>1, <1>2 DEF Books
  <1>4. ASSUME NEW p \in new, NEW q \in new, p.side = q.side, p.price = q.price
        PROVE  p = q
    <2> DEFINE S == {f \in new : f.side = p.side /\ f.price = p.price}
             ident == [f \in S |-> f.id]
    <2>1. \A f \in S : f.id \in OrderIds /\ f = Entry(orders[f.id].side, orders[f.id].price, f.id)
      BY DEF Untaken, Entry, Shape
    <2> HIDE DEF S
    <2>2. ident \in [S -> OrderIds] /\ \A f, g \in S : ident[f] = ident[g] => f = g
      BY <2>1
    <2> HIDE DEF ident
    <2>3. ident \in Injection(S, OrderIds)
      BY <2>2 DEF Injection, IsInjective
    <2>4. IsFiniteSet(OrderIds)
      <3>1. MaxOrders \in Int
        BY Parameters
      <3>2. \A a, b \in Int : IsFiniteSet(a .. b)
        BY FS_Interval
      <3> QED
        BY <3>1, <3>2 DEF OrderIds
    <2>5. IsFiniteSet(S)
      BY <2>3, <2>4, FS_Injection
    <2>6. Cardinality(S) = 1
      BY <1>4 DEF S
    <2>7. PICK x : S = {x}
      BY <2>5, <2>6, FS_Singleton
    <2>8. p \in S /\ q \in S
      BY <1>4 DEF S
    <2> QED
      BY <2>7, <2>8
  <1>5. ASSUME NEW p \in new, NEW q \in mem.active
        PROVE  p.side # q.side \/ p.price # q.price
    BY DEF Untaken
  <1>6. OnePerPrice(mem')
    BY <1>3, <1>4, <1>5 DEF OnePerPrice, Fine
  <1> QED
    BY <1>3, <1>6 DEF Fine, FillsTrue, StopsHeld

LEMMA SyncAdoptStep ==
  ASSUME Inv, NEW w \in Workers, SyncAdopt(w)
  PROVE  Inv'
  <1>1. Fine(mem', orders) /\ mem'.halted = mem.halted
    BY FineAdopt DEF SyncAdopt, Inv
  <1>2. snapshot' \in [Workers -> SUBSET OrderIds]
    BY DEF SyncAdopt, Inv, Shape
  <1>3. pc[w] = "sells" /\ After(w, "price")
    BY DEF SyncAdopt
  <1>4. w = "tick" => ~mem.halted
    BY <1>3 DEF Inv, HaltRests, Running
  <1>5. UNCHANGED <<orders, market, saved, enabled, risk, tickVars, missing, dropping>>
    BY DEF SyncAdopt, exchangeVars
  <1> QED
    BY <1>1, <1>2, <1>3, <1>4, <1>5, SyncStep DEF Inv, Shape

(***************************************************************************)
(* Price, stale orders, regime and trend.                                  *)
(***************************************************************************)
LEMMA PriceStep ==
  ASSUME Inv, FetchPrice \/ PriceFails
  PROVE  Inv'
  <1>1. mem \in Books /\ Fine(mem, orders) /\ market \in {0} \cup Prices
    BY DEF Inv, Fine, Shape
  <1>2. TickLeaves
    BY DEF FetchPrice, PriceFails, TickKeeps, TickLeaves, exchangeVars
  <1>3. CASE PriceFails
    BY <1>1, <1>2, <1>3, TickStep DEF PriceFails, Phases, Running
  <1>4. ASSUME NEW halted \in BOOLEAN, NEW phase \in {"idle", "stale"}, Goto(phase),
               mem' = [mem EXCEPT !.halted = halted, !.lastPrice = market],
               halted => phase = "idle"
        PROVE  Inv'
    <2>1. /\ mem' \in Books /\ mem'.halted = halted /\ mem'.active = mem.active
          /\ mem'.booked = mem.booked /\ mem'.assumed = mem.assumed
          /\ mem'.stops = mem.stops /\ mem'.triggered = mem.triggered
      BY <1>1, <1>4 DEF Books
    <2>2. Fine(mem', orders)
      BY <1>1, <2>1, FineLess
    <2> QED
      BY <1>2, <1>4, <2>1, <2>2, TickStep DEF Phases, Running
  <1>5. CASE FetchPrice
    <2>1. ~mem.halted
      BY <1>5 DEF FetchPrice, At, Inv, HaltRests, Running
    <2>2. mem.halted \in BOOLEAN /\ mem = [mem EXCEPT !.halted = FALSE]
      BY <1>1, <2>1 DEF Books
    <2>3. CASE mem' = [mem EXCEPT !.halted = TRUE, !.lastPrice = market] /\ Goto("idle")
      BY <1>4, <2>3
    <2>4. CASE mem' = [mem EXCEPT !.lastPrice = market] /\ Goto("stale")
      <3>1. mem' = [mem EXCEPT !.halted = FALSE, !.lastPrice = market]
        BY <1>1, <2>1, <2>4 DEF Books
      <3> QED
        BY <1>4, <2>4, <3>1
    <2> QED
      BY <1>5, <2>3, <2>4 DEF FetchPrice
  <1> QED
    BY <1>3, <1>5

LEMMA PassOnStep ==
  ASSUME Inv, CancelStaleDone \/ BearDone \/ StopsDone \/ \E t \in Trends : Trend(t)
  PROVE  Inv'
  <1>1. Fine(mem, orders) /\ mem' = mem /\ TickLeaves /\ ~mem.halted
    BY DEF Inv, HaltRests, Running, At, CancelStaleDone, BearDone, StopsDone, Trend,
           TickKeeps, TickLeaves, exchangeVars
  <1>2. CASE CancelStaleDone
    BY <1>1, <1>2, TickStep DEF CancelStaleDone, Phases
  <1>3. CASE BearDone
    BY <1>1, <1>3, TickStep DEF BearDone, Phases
  <1>4. CASE StopsDone
    BY <1>1, <1>4, TickStep DEF StopsDone, Phases
  <1>5. CASE \E t \in Trends : Trend(t)
    <2>1. Range(mem.lots) \subseteq Int
      BY <1>1 DEF Range, Fine, Books
    <2> QED
      BY <1>1, <1>5, <2>1, TickStep DEF Trend, Phases
  <1> QED
    BY <1>2, <1>3, <1>4, <1>5

LEMMA RegimeStep ==
  ASSUME Inv, NEW regime \in Regimes, Regime(regime)
  PROVE  Inv'
  <1>1. mem \in Books /\ Fine(mem, orders) /\ ~mem.halted
    BY DEF Inv, Fine, HaltRests, Running, Regime, At
  <1>2. UNCHANGED <<orders, market, saved, enabled, risk, work, level, syncVars>>
    BY DEF Regime, exchangeVars
  <1>3. OrdersGo
    BY <1>2, OrdersSame DEF Inv, Shape
  <1>4. CASE regime = "extreme"
    <2>1. mem' = [mem EXCEPT !.halted = TRUE] /\ Goto("save") /\ adjust' = adjust
      BY <1>4 DEF Regime
    <2>2. /\ mem' \in Books /\ mem'.active = mem.active
          /\ mem'.booked = mem.booked /\ mem'.assumed = mem.assumed
          /\ mem'.stops = mem.stops /\ mem'.triggered = mem.triggered
      BY <1>1, <2>1 DEF Books
    <2>3. Fine(mem', orders)
      BY <1>1, <2>2, FineLess
    <2>4. TickLeaves
      BY <1>2, <2>1 DEF TickLeaves
    <2> QED
      BY <2>1, <2>3, <2>4, TickStep DEF Phases, Running
  <1>5. CASE regime # "extreme"
    <2>1. adjust' \in Gaps /\ Goto("trend") /\ mem' = mem
      BY <1>5, AdjustedType DEF Regime, Inv, Shape
    <2>2. /\ pc' \in [Workers -> Phases] /\ pc'["tick"] = "trend"
          /\ \A w \in Restarts : pc'[w] = pc[w]
      BY <2>1, GotoType DEF Inv, Shape, Phases
    <2>3. Shape'
      BY <1>2, <2>1, <2>2 DEF Inv, Shape, At, syncVars
    <2> QED
      BY <1>1, <1>2, <1>3, <2>1, <2>3, InvAfter DEF HaltRests
  <1> QED
    BY <1>4, <1>5

(***************************************************************************)
(* Orders are placed: by the stop check and by the grid.                   *)
(***************************************************************************)
\* A step of the running stop check or grid keeps its place.
LEMMA PlaceStep ==
  ASSUME Inv, OrdersGo, Fine(mem', orders), mem'.halted = mem.halted,
         UNCHANGED <<market, saved, pc, adjust, syncVars>>,
         work' \subseteq work, level' \in Int \X Sides,
         risk' \in Risks, enabled' \in BOOLEAN
  PROVE  Inv'
  <1>1. Shape'
    BY DEF Inv, Shape, OrdersGo, At, syncVars
  <1>2. HaltRests'
    BY DEF Inv, HaltRests
  <1> QED
    BY <1>1, <1>2, InvAfter

LEMMA NewOrderFine ==
  ASSUME orders \in Orders, Numbered, Fine(mem, orders), NEW side \in Sides,
         NEW price \in Int, NEW tracked \in BOOLEAN, NewOrder(side, price, tracked)
  PROVE  OrdersGo /\ Fine(mem', orders) /\ mem'.halted = mem.halted
  <1> DEFINE id == Cardinality(UsedIds) + 1
             e == Entry(side, price, id)
  <1>1. /\ id \in OrderIds
        /\ orders' = [orders EXCEPT ![id] =
                        [state |-> "open", side |-> side, price |-> price]]
        /\ mem' = IF tracked THEN [mem EXCEPT !.active = Untrack(mem, e).active \cup {e}]
                  ELSE mem
    BY DEF NewOrder
  <1>2. e \in Entries
    BY <1>1 DEF Entry, Entries
  <1>3. [mem EXCEPT !.active = Untrack(mem, e).active \cup {e}].halted = mem.halted
    BY DEF Fine, Books
  <1> HIDE DEF id, e
  <1>4. Fine(mem', orders) /\ mem'.halted = mem.halted
    BY <1>1, <1>2, <1>3, FineTrack
  <1>5. OrdersGo
    BY <1>1, OrdersNew DEF id
  <1> QED
    BY <1>4, <1>5

LEMMA NotAcceptedFine ==
  ASSUME Inv, NEW side \in Sides, NEW price \in Int, NotAccepted(side, price)
  PROVE  /\ OrdersGo /\ Fine(mem', orders) /\ mem'.halted = mem.halted
         /\ risk' \in Risks /\ enabled' \in BOOLEAN
  <1>1. orders \in Orders /\ Numbered /\ Fine(mem, orders)
    BY DEF Inv, Shape
  <1>2. CASE UNCHANGED <<orders, mem, risk, enabled>>
    BY <1>1, <1>2, OrdersSame DEF Inv, Shape
  <1>3. CASE /\ UNCHANGED <<orders, mem>>
             /\ risk' = [risk EXCEPT !.halted = TRUE] /\ enabled' = FALSE
    BY <1>1, <1>3, OrdersSame DEF Inv, Shape, Risks
  <1>4. CASE NewOrder(side, price, FALSE) /\ UNCHANGED <<risk, enabled>>
    BY <1>1, <1>4, NewOrderFine DEF Inv, Shape
  <1> QED
    BY <1>2, <1>3, <1>4 DEF NotAccepted

LEMMA StopKeptStep ==
  ASSUME Inv, NEW lot \in work, StopPass(lot) \/ StopChase(lot) \/ StopNotNeeded(lot)
  PROVE  Inv'
  <1>1. mem \in Books /\ Fine(mem, orders)
    BY DEF Inv, Fine
  <1>2. /\ UNCHANGED <<market, saved, pc, adjust, level, syncVars, risk, enabled>>
        /\ work' \subseteq work
    BY DEF StopPass, StopChase, StopNotNeeded, StopKeeps
  <1>3. level' \in Int \X Sides /\ risk' \in Risks /\ enabled' \in BOOLEAN
    BY <1>2 DEF Inv, Shape
  <1>4. CASE StopNotNeeded(lot)
    <2>1. UNCHANGED <<orders, mem>>
      BY <1>4 DEF StopNotNeeded
    <2> QED
      BY <1>1, <1>2, <1>3, <2>1, OrdersSame, PlaceStep DEF Inv, Shape
  <1>5. CASE StopPass(lot)
    <2> DEFINE kept == {s \in mem.stops : s.lot = lot => Stands(s)}
    <2>1. UNCHANGED orders /\ mem' = [mem EXCEPT !.stops = kept]
      BY <1>5 DEF StopPass
    <2>2. kept \subseteq mem.stops
      OBVIOUS
    <2> HIDE DEF kept
    <2>3. /\ mem' \in Books /\ mem'.halted = mem.halted /\ mem'.active = mem.active
          /\ mem'.booked = mem.booked /\ mem'.assumed = mem.assumed
          /\ mem'.stops = kept /\ mem'.triggered = mem.triggered
      BY <1>1, <2>1, <2>2 DEF Books
    <2>4. Fine(mem', orders)
      BY <1>1, <2>2, <2>3 DEF Fine, OnePerPrice, FillsTrue, StopsHeld
    <2> QED
      BY <1>2, <1>3, <2>1, <2>3, <2>4, OrdersSame, PlaceStep DEF Inv, Shape
  <1>6. CASE StopChase(lot)
    <2>1. PICK s, old :
            /\ s \in RecordOf(lot)
            /\ CancelOrder(old.id)
            /\ mem' = [Untrack(mem, old) EXCEPT !.stops = @ \ {s}, !.triggered = @ \ {lot}]
      BY <1>6 DEF StopChase
    <2>2. s \in mem.stops /\ s.lot = lot
      BY <2>1 DEF RecordOf
    <2>3. Untrack(mem, old) \in Books /\ Fine(Untrack(mem, old), orders)
      BY <1>1, UntrackType, FineUntrack
    <2>4. /\ Untrack(mem, old).stops = mem.stops /\ Untrack(mem, old).halted = mem.halted
          /\ Untrack(mem, old).triggered = mem.triggered
      BY <1>1 DEF Untrack, Books
    <2> DEFINE n == Untrack(mem, old)
    <2> HIDE DEF n
    <2>5. /\ mem' \in Books /\ mem'.halted = n.halted /\ mem'.active = n.active
          /\ mem'.booked = n.booked /\ mem'.assumed = n.assumed
          /\ mem'.stops = n.stops \ {s} /\ mem'.triggered = n.triggered \ {lot}
      BY <2>1, <2>3 DEF Books, n
    <2>6. StopsHeld(mem')
      BY <1>1, <2>2, <2>4, <2>5 DEF Fine, StopsHeld, n
    <2>7. Fine(mem', orders)
      BY <2>3, <2>5, <2>6 DEF Fine, OnePerPrice, FillsTrue, n
    <2>8. OrdersGo
      BY <2>1, OrdersCancel DEF Inv, Shape
    <2>9. mem'.halted = mem.halted
      BY <2>4, <2>5 DEF n
    <2> QED
      BY <1>2, <1>3, <2>7, <2>8, <2>9, PlaceStep
  <1> QED
    BY <1>4, <1>5, <1>6

LEMMA StopPlacedStep ==
  ASSUME Inv, NEW lot \in work, StopPlaced(lot)
  PROVE  Inv'
  <1> DEFINE at == (mem.lastPrice \div Whole) * Whole
             id == Cardinality(UsedIds) + 1
             placed == Entry("SELL", at, id)
             n == [mem EXCEPT !.active = Untrack(mem, placed).active \cup {placed}]
             stops == {s \in mem.stops : s.lot # lot} \cup {[lot |-> lot, at |-> at]}
  <1>1. mem \in Books /\ Fine(mem, orders) /\ orders \in Orders /\ Numbered
    BY DEF Inv, Fine, Shape
  <1>2. at \in Int /\ lot \in Int
    BY <1>1, StopPriceType DEF StopPlaced, Inv, Shape
  <1>3. /\ id \in OrderIds
        /\ orders' = [orders EXCEPT ![id] =
                        [state |-> "open", side |-> "SELL", price |-> at]]
        /\ mem' = [mem EXCEPT !.active = Untrack(mem, placed).active \cup {placed},
                              !.triggered = @ \cup {lot}, !.stops = stops]
        /\ work' = work \ {lot}
        /\ UNCHANGED <<market, saved, pc, adjust, level, syncVars, risk, enabled>>
    BY DEF StopPlaced, StopKeeps, Entry
  <1> HIDE DEF at
  <1>4. OrdersGo
    BY <1>1, <1>2, <1>3, OrdersNew DEF Sides
  <1>5. placed \in Entries
    BY <1>2, <1>3 DEF Entry, Entries, Sides
  <1>6. stops \subseteq [lot : Int, at : Int]
    BY <1>1, <1>2 DEF Books
  <1>7. \A s \in stops : (s \in mem.stops /\ s.lot # lot) \/ s = [lot |-> lot, at |-> at]
    OBVIOUS
  <1> HIDE DEF id, placed, stops
  <1>8. n \in Books /\ Fine(n, orders)
    BY <1>1, <1>5, FineTrack DEF Fine
  <1>9. /\ n.triggered = mem.triggered /\ n.stops = mem.stops /\ n.halted = mem.halted
        /\ mem' = [n EXCEPT !.triggered = mem.triggered \cup {lot}, !.stops = stops]
    BY <1>1, <1>3 DEF Books
  <1> HIDE DEF n
  <1>10. /\ mem' \in Books /\ mem'.halted = mem.halted /\ mem'.active = n.active
         /\ mem'.booked = n.booked /\ mem'.assumed = n.assumed
         /\ mem'.stops = stops /\ mem'.triggered = mem.triggered \cup {lot}
    BY <1>1, <1>2, <1>6, <1>8, <1>9 DEF Books
  <1>11. StopsHeld(mem')
    BY <1>1, <1>7, <1>10 DEF Fine, StopsHeld
  <1>12. Fine(mem', orders)
    BY <1>8, <1>10, <1>11 DEF Fine, OnePerPrice, FillsTrue
  <1> QED
    BY <1>3, <1>4, <1>10, <1>12, PlaceStep DEF Inv, Shape

LEMMA StopRefusedStep ==
  ASSUME Inv, NEW lot \in work, StopRefused(lot)
  PROVE  Inv'
  <1>1. (mem.lastPrice \div Whole) * Whole \in Int /\ "SELL" \in Sides
    BY StopPriceType DEF Inv, Sides
  <1>2. NotAccepted("SELL", (mem.lastPrice \div Whole) * Whole)
    BY DEF StopRefused
  <1>3. /\ OrdersGo /\ Fine(mem', orders) /\ mem'.halted = mem.halted
        /\ risk' \in Risks /\ enabled' \in BOOLEAN
    BY <1>1, <1>2, NotAcceptedFine
  <1>4. /\ UNCHANGED <<market, saved, pc, adjust, syncVars>> /\ work' \subseteq work
        /\ level' \in Int \X Sides
    BY DEF StopRefused, StopKeeps, Inv, Shape
  <1> QED
    BY <1>3, <1>4, PlaceStep

LEMMA NextLevelType ==
  ASSUME level \in Int \X Sides
  PROVE  NextLevel \in Int \X Sides /\ level[2] \in Sides
  BY DEF NextLevel, Sides

LEMMA GridStep ==
  ASSUME Inv, GridSkip \/ GridPlaced \/ GridRefused
  PROVE  Inv'
  <1>1. GridPrice \in Int /\ NextLevel \in Int \X Sides /\ level[2] \in Sides
    BY GridPriceType, NextLevelType DEF Inv, Shape
  <1>2. /\ UNCHANGED <<market, saved, pc, work, adjust, syncVars>>
        /\ level' \in Int \X Sides
    BY <1>1 DEF GridSkip, GridPlaced, GridRefused, GridKeeps
  <1>3. CASE GridSkip
    <2>1. UNCHANGED <<orders, mem, risk, enabled>>
      BY <1>3 DEF GridSkip
    <2> QED
      BY <1>2, <2>1, OrdersSame, PlaceStep DEF Inv, Shape
  <1>4. CASE GridPlaced
    <2>1. NewOrder(level[2], GridPrice, TRUE) /\ UNCHANGED <<risk, enabled>>
      BY <1>4 DEF GridPlaced, Accepted
    <2>2. OrdersGo /\ Fine(mem', orders) /\ mem'.halted = mem.halted
      BY <1>1, <2>1, NewOrderFine DEF Inv, Shape
    <2> QED
      BY <1>2, <2>1, <2>2, PlaceStep DEF Inv, Shape
  <1>5. CASE GridRefused
    <2>1. NotAccepted(level[2], GridPrice)
      BY <1>5 DEF GridRefused
    <2>2. /\ OrdersGo /\ Fine(mem', orders) /\ mem'.halted = mem.halted
          /\ risk' \in Risks /\ enabled' \in BOOLEAN
      BY <1>1, <2>1, NotAcceptedFine
    <2> QED
      BY <1>2, <2>2, PlaceStep
  <1> QED
    BY <1>3, <1>4, <1>5

LEMMA GridDoneStep ==
  ASSUME Inv, GridDone
  PROVE  Inv'
  <1>1. Fine(mem, orders) /\ ~mem.halted
    BY DEF Inv, HaltRests, Running, GridDone, At
  <1>2. /\ Goto("save") /\ level' = <<1, "BUY">>
        /\ UNCHANGED <<exchangeVars, mem, saved, enabled, risk, work, adjust, syncVars>>
    BY DEF GridDone
  <1>3. OrdersGo
    BY <1>2, OrdersSame DEF Inv, Shape, exchangeVars
  <1>4. /\ pc' \in [Workers -> Phases] /\ pc'["tick"] = "save"
        /\ \A w \in Restarts : pc'[w] = pc[w]
    BY <1>2, GotoType DEF Inv, Shape, Phases
  <1>5. level' \in Int \X Sides
    BY <1>2 DEF Sides
  <1>6. Shape' /\ HaltRests'
    BY <1>2, <1>4, <1>5 DEF Inv, Shape, HaltRests, Running, At, exchangeVars, syncVars
  <1> QED
    BY <1>1, <1>2, <1>3, <1>6, InvAfter

(***************************************************************************)
(* The theorems.                                                           *)
(***************************************************************************)
LEMMA InitInv ==
  ASSUME Init
  PROVE  Inv
  <1>1. Numbered
    <2>1. UsedIds = 1 .. 0
      BY DEF Init, UsedIds
    <2> QED
      BY <2>1 DEF Numbered
  <1>2. Fresh \in Books
    <2>1. <<>> \in Seq(Int) /\ [i \in OrderIds |-> 0] \in [OrderIds -> Nat]
      OBVIOUS
    <2>2. /\ {} \in SUBSET Entries /\ {} \in SUBSET [lot : Int, at : Int]
          /\ {} \in SUBSET Int /\ {} \in SUBSET OrderIds
          /\ 0 \in Int /\ 0 \in {0} \cup Prices /\ FALSE \in BOOLEAN
      OBVIOUS
    <2> QED
      BY <2>1, <2>2, SMTT(30) DEF Fresh, Books
  <1>3. /\ Fresh.active = {} /\ Fresh.stops = {} /\ Fresh.halted = FALSE
        /\ \A i \in OrderIds : Fresh.booked[i] = 0
    BY DEF Fresh
  <1>4. Fine(mem, orders) /\ Fine(saved, orders)
    BY <1>2, <1>3 DEF Init, Fine, OnePerPrice, FillsTrue, StopsHeld
  <1>5. HaltRests
    BY <1>3 DEF Init, HaltRests
  <1>6. orders \in Orders
    BY DEF Init, Orders, OrderStates, Sides
  <1>7. /\ pc \in [Workers -> Phases] /\ pc["tick"] = "idle"
        /\ \A w \in Restarts : pc[w] = "idle"
    BY DEF Init, Workers, Phases
  <1>8. risk \in Risks /\ level \in Int \X Sides /\ adjust \in Gaps
    BY DefaultsType DEF Init, CalmRisk, Risks, Sides
  <1>9. Shape
    BY <1>6, <1>7, <1>8 DEF Init, Shape, At
  <1> QED
    BY <1>1, <1>4, <1>5, <1>9 DEF Inv

LEMMA InvStep ==
  ASSUME Inv, [Next]_vars
  PROVE  Inv'
  <1>1. CASE UNCHANGED vars
    BY <1>1 DEF vars, exchangeVars, tickVars, syncVars, Inv, Shape, Numbered, UsedIds,
                HaltRests, At
  <1>2. CASE Exchange
    BY <1>2, OutsideStep DEF Exchange
  <1>3. CASE Kill \/ Enable \/ RiskDay \/ \E w \in Restarts : ForceRestart(w)
    BY <1>3, OperatorStep
  <1>4. CASE Crash
    BY <1>4, CrashStep
  <1>5. CASE Begin \/ RebalanceDone \/ BeginDay
    BY <1>5, BeginStep, BeginDayStep
  <1>6. CASE \/ At("cancelAll") /\ \E e \in work : RebalanceCancel(e)
             \/ At("reconcile") /\ \E e \in work : ReconcileHalted(e)
             \/ \E e \in mem.active : CancelStale(e)
    BY <1>6, WorkStep
  <1>7. CASE At("bear") /\ \E e \in work : BearCancel(e)
    BY <1>7, BearCancelStep
  <1>8. CASE Sync
    BY <1>8, SyncAskStep, SyncVerifyStep, SyncDropStep, SyncSellsStep, SyncAdoptStep DEF Sync
  <1>9. CASE PriceFails \/ FetchPrice
    BY <1>9, PriceStep
  <1>10. CASE CancelStaleDone \/ BearDone \/ StopsDone \/ \E t \in Trends : Trend(t)
    BY <1>10, PassOnStep
  <1>11. CASE \E r \in Regimes : Regime(r)
    BY <1>11, RegimeStep
  <1>12. CASE At("stops") /\ \E l \in work : \/ StopPass(l) \/ StopChase(l)
                                             \/ StopNotNeeded(l)
                                             \/ StopPlaced(l) \/ StopRefused(l)
    BY <1>12, StopKeptStep, StopPlacedStep, StopRefusedStep
  <1>13. CASE GridSkip \/ GridPlaced \/ GridRefused \/ GridDone
    BY <1>13, GridStep, GridDoneStep
  <1>14. CASE ReconcileDone \/ Save
    BY <1>14, SaveStep
  <1> QED
    BY <1>1, <1>2, <1>3, <1>4, <1>5, <1>6, <1>7, <1>8, <1>9, <1>10, <1>11, <1>12,
       <1>13, <1>14 DEF Next

LEMMA InvHolds == Spec => []Inv
  BY InitInv, InvStep, PTL DEF Spec

\* RealGridState and RiskState keep their types through every tick, operator
\* call, crash and reload, and no price of a side is tracked twice.
THEOREM TypeHolds == Spec => []TypeOK
  <1>1. Inv => TypeOK
    <2> SUFFICES ASSUME Inv PROVE TypeOK
      OBVIOUS
    <2>1. DOMAIN orders = OrderIds /\ \A i \in OrderIds :
            /\ orders[i].state \in OrderStates
            /\ orders[i].side \in {"BUY", "SELL"} /\ orders[i].price \in Int
      BY DEF Inv, Shape, Orders, Sides
    <2>2. {mem, saved} \subseteq Books
      BY DEF Inv, Fine
    <2>3. \A p, q \in mem.active : p.side = q.side /\ p.price = q.price => p = q
      BY DEF Inv, Fine, OnePerPrice
    <2>4. DOMAIN pc = Workers /\ pc["tick"] \in Phases
      BY DEF Inv, Shape, Workers
    <2>5. /\ market \in Prices /\ enabled \in BOOLEAN /\ risk \in Risks
          /\ \A w \in Restarts : pc[w] \in {"idle", "ask", "buys", "sells"}
          /\ snapshot \in [Workers -> SUBSET OrderIds]
      BY DEF Inv, Shape
    <2> QED
      BY <2>1, <2>2, <2>3, <2>4, <2>5 DEF TypeOK, Books, Entries, Sides, Risks
  <1> QED
    BY <1>1, InvHolds, PTL

\* _verify_fill: an order the bot books as a fill, other than one it could not
\* look up, has filled, also after a reload and with syncs side by side.
THEOREM FillsAreRealHolds == Spec => []FillsAreReal
  <1>1. Inv => FillsAreReal
    BY DEF Inv, Fine, FillsTrue, FillsAreReal
  <1> QED
    BY <1>1, InvHolds, PTL

LEMMA HaltStep ==
  ASSUME Inv, Next, mem.halted
  PROVE  UsedIds' = UsedIds
  <1>1. ~At("stops") /\ ~At("grid")
    BY DEF Inv, HaltRests, Running, At
  <1>2. orders \in Orders /\ Numbered
    BY DEF Inv, Shape
  <1>3. CASE UNCHANGED orders
    BY <1>2, <1>3, OrdersSame
  <1>4. CASE \E i : CancelOrder(i)
    BY <1>2, <1>4, OrdersCancel
  <1>5. CASE Exchange
    BY <1>2, <1>3, <1>5, OrdersEnd DEF Exchange, Fill, CancelOutside, Move
  <1>6. CASE Kill \/ Enable \/ Crash \/ RiskDay \/ \E w \in Restarts : ForceRestart(w)
    BY <1>3, <1>6 DEF Kill, Enable, Crash, RiskDay, ForceRestart, exchangeVars
  <1>7. CASE Begin \/ BeginDay \/ RebalanceDone \/ ReconcileDone \/ Save
    <2>1. UNCHANGED exchangeVars
      BY <1>7, Zenon DEF Begin, BeginDay, RebalanceDone, ReconcileDone, Save
    <2> QED
      BY <1>3, <2>1 DEF exchangeVars
  <1>8. CASE \/ At("cancelAll") /\ \E e \in work : RebalanceCancel(e)
             \/ At("reconcile") /\ \E e \in work : ReconcileHalted(e)
             \/ \E e \in mem.active : CancelStale(e)
             \/ At("bear") /\ \E e \in work : BearCancel(e)
    BY <1>3, <1>4, <1>8 DEF RebalanceCancel, ReconcileHalted, CancelStale, BearCancel, exchangeVars
  <1>9. CASE Sync
    BY <1>3, <1>9 DEF Sync, SyncAsk, SyncVerify, SyncDrop, SyncSells, SyncAdopt, exchangeVars
  <1>10. CASE \/ PriceFails \/ FetchPrice \/ CancelStaleDone \/ BearDone \/ StopsDone
              \/ \E t \in Trends : Trend(t)
    BY <1>3, <1>10 DEF PriceFails, FetchPrice, CancelStaleDone, BearDone, StopsDone, Trend,
                       TickKeeps, exchangeVars
  <1>11. CASE GridDone \/ \E r \in Regimes : Regime(r)
    BY <1>3, <1>11 DEF GridDone, Regime, exchangeVars
  <1>12. CASE \/ At("stops") /\ \E l \in work : \/ StopPass(l) \/ StopChase(l)
                                                \/ StopNotNeeded(l)
                                                \/ StopPlaced(l) \/ StopRefused(l)
              \/ GridSkip \/ GridPlaced \/ GridRefused
    BY <1>1, <1>12 DEF GridSkip, GridPlaced, GridRefused
  <1> QED
    BY <1>5, <1>6, <1>7, <1>8, <1>9, <1>10, <1>11, <1>12 DEF Next

\* _tick: while the symbol is halted no order is submitted, by the tick or by
\* anything that runs between its awaits.
THEOREM HaltStopsOrdersHolds == Spec => HaltStopsOrders
  <1>1. Inv /\ [Next]_vars => [mem.halted => UsedIds' = UsedIds]_vars
    BY HaltStep
  <1> QED
    BY <1>1, InvHolds, PTL DEF Spec, HaltStopsOrders

(***************************************************************************)
(* No order is booked twice, as long as only the tick synchronises.        *)
(***************************************************************************)
Final == {"filled", "canceled"}
Syncing == {"buys", "sells"}

\* An entry names an order that was submitted, with its side and its price.
Names(e, o) ==
    o[e.id].state # "none" /\ e.side = o[e.id].side /\ e.price = o[e.id].price

\* What is booked is over and, but for the entry d being dropped, untracked.
Once(m, o, d) ==
    /\ \A e \in m.active : Names(e, o) /\ (m.booked[e.id] > 0 => d # None /\ e = d)
    /\ \A i \in OrderIds : m.booked[i] <= 1 /\ (m.booked[i] > 0 => o[i].state \in Final)

\* A sync books only what its snapshot did not show as open.
MissingFinal ==
    \A e \in missing["tick"] :
        /\ Names(e, orders) /\ orders[e.id].state \in Final
        /\ mem.booked[e.id] = 0 /\ e.id \notin snapshot["tick"]

SnapshotOpen ==
    pc["tick"] \in Syncing =>
        /\ \A i \in UsedIds : i \in snapshot["tick"] \/ orders[i].state \in Final
        /\ \A i \in snapshot["tick"] : i \in UsedIds /\ mem.booked[i] = 0

SyncRests == pc["tick"] \notin Syncing => missing["tick"] = {} /\ dropping["tick"] = None

BookInv ==
    /\ Once(mem, orders, dropping["tick"])
    /\ Once(saved, orders, None)
    /\ MissingFinal
    /\ SnapshotOpen
    /\ SyncRests

LEMMA OnceStays ==
  ASSUME NEW m, Fine(m, orders), NEW d, Once(m, orders, d), OrdersGo, orders \in Orders
  PROVE  Once(m, orders', d)
  <1>1. \A e \in m.active : e.id \in OrderIds
    BY DEF Fine, Books, Entries
  <1>2. \A i \in OrderIds : orders[i].state # "none" =>
          /\ orders'[i].state # "none"
          /\ orders'[i].side = orders[i].side /\ orders'[i].price = orders[i].price
    BY DEF OrdersGo, UsedIds
  <1> QED
    BY <1>1, <1>2 DEF Once, Names, OrdersGo, Final

LEMMA OnceLess ==
  ASSUME NEW m, NEW n, NEW o, NEW d, Once(m, o, d),
         n.active \subseteq m.active, n.booked = m.booked
  PROVE  Once(n, o, d)
  BY DEF Once

\* A step beside the sync, of the tick or of another.
LEMMA BookAfter ==
  ASSUME Inv, BookInv, OrdersGo, Once(mem', orders', dropping["tick"]),
         mem'.booked = mem.booked, UNCHANGED syncVars,
         \/ saved' = saved
         \/ saved' = mem /\ pc["tick"] \notin Syncing,
         \/ pc'["tick"] = pc["tick"] /\ UsedIds' = UsedIds
         \/ pc["tick"] \notin Syncing /\ pc'["tick"] \notin Syncing
  PROVE  BookInv'
  <1>1. Once(mem', orders', dropping'["tick"])
    BY DEF syncVars
  <1>2. Once(saved', orders', None)
    <2>1. Once(saved, orders', None)
      BY OnceStays DEF Inv, Shape, BookInv
    <2>2. pc["tick"] \notin Syncing => Once(mem, orders, None)
      BY DEF BookInv, SyncRests
    <2>3. pc["tick"] \notin Syncing => Once(mem, orders', None)
      BY <2>2, OnceStays DEF Inv, Shape
    <2> QED
      BY <2>1, <2>3
  <1>3. SyncRests'
    BY DEF BookInv, SyncRests, syncVars
  <1>4. MissingFinal'
    <2>1. CASE pc["tick"] \notin Syncing
      BY <2>1 DEF BookInv, SyncRests, MissingFinal, syncVars
    <2>2. \A e \in missing["tick"] : e.id \in OrderIds
      BY DEF Inv, Shape, Entries, Workers
    <2>3. \A i \in OrderIds : orders[i].state \in Final => orders'[i] = orders[i]
      BY DEF OrdersGo, Final
    <2> QED
      BY <2>2, <2>3 DEF BookInv, MissingFinal, Names, syncVars
  <1>5. SnapshotOpen'
    <2>1. CASE pc'["tick"] \notin Syncing
      BY <2>1 DEF SnapshotOpen
    <2>2. CASE pc'["tick"] = pc["tick"] /\ UsedIds' = UsedIds
      BY <2>2 DEF BookInv, SnapshotOpen, OrdersGo, UsedIds, Final, syncVars
    <2> QED
      BY <2>1, <2>2
  <1> QED
    BY <1>1, <1>2, <1>3, <1>4, <1>5 DEF BookInv

\* A step in which entries may leave.
LEMMA BookKept ==
  ASSUME Inv, BookInv, OrdersGo, UNCHANGED syncVars,
         mem'.active \subseteq mem.active, mem'.booked = mem.booked,
         \/ saved' = saved
         \/ saved' = mem /\ pc["tick"] \notin Syncing,
         \/ pc'["tick"] = pc["tick"] /\ UsedIds' = UsedIds
         \/ pc["tick"] \notin Syncing /\ pc'["tick"] \notin Syncing
  PROVE  BookInv'
  <1>1. Once(mem, orders', dropping["tick"])
    BY OnceStays DEF Inv, Shape, BookInv
  <1>2. Once(mem', orders', dropping["tick"])
    BY <1>1, OnceLess
  <1> QED
    BY <1>2, BookAfter

LEMMA UntrackLess ==
  ASSUME Inv, NEW e
  PROVE  Untrack(mem, e).active \subseteq mem.active /\ Untrack(mem, e).booked = mem.booked
  BY DEF Untrack, Inv, Fine, Books

LEMMA BookOutside ==
  ASSUME Inv, BookInv, \/ Exchange \/ Kill \/ Enable \/ RiskDay
                       \/ \E w \in Restarts : ForceRestart(w)
  PROVE  BookInv'
  <1>1. OrdersGo /\ UsedIds' = UsedIds
    <2>1. CASE Exchange
      BY <2>1, OrdersSame, OrdersEnd DEF Exchange, Fill, CancelOutside, Move, Inv, Shape
    <2>2. CASE ~Exchange
      BY <2>2, OrdersSame DEF Kill, Enable, RiskDay, ForceRestart, exchangeVars, Inv, Shape
    <2> QED
      BY <2>1, <2>2
  <1>2. mem'.active = mem.active /\ mem'.booked = mem.booked
    <2>1. [mem EXCEPT !.halted = FALSE].active = mem.active
          /\ [mem EXCEPT !.halted = FALSE].booked = mem.booked
      BY DEF Inv, Fine, Books
    <2>2. mem' = mem \/ mem' = [mem EXCEPT !.halted = FALSE]
      BY DEF Exchange, Fill, CancelOutside, Move, Kill, Enable, RiskDay, ForceRestart
    <2> QED
      BY <2>1, <2>2
  <1>3. UNCHANGED <<saved, syncVars>> /\ pc'["tick"] = pc["tick"]
    <2>1. UNCHANGED <<saved, syncVars>>
      BY DEF Exchange, Fill, CancelOutside, Move, Kill, Enable, RiskDay, ForceRestart
    <2>2. pc' = pc \/ \E w \in Restarts : pc' = [pc EXCEPT ![w] = "ask"]
      BY DEF Exchange, Fill, CancelOutside, Move, Kill, Enable, RiskDay, ForceRestart
    <2> QED
      BY <2>1, <2>2, Parameters DEF Inv, Shape, Workers
  <1> QED
    BY <1>1, <1>2, <1>3, BookKept

LEMMA BookCrash ==
  ASSUME Inv, BookInv, Crash
  PROVE  BookInv'
  <1>1. OrdersGo /\ UsedIds' = UsedIds /\ UNCHANGED orders
    BY OrdersSame DEF Inv, Shape, Crash, exchangeVars
  <1>2. mem' = saved /\ saved' = saved
    BY DEF Crash
  <1>3. /\ pc'["tick"] = "idle" /\ missing'["tick"] = {} /\ dropping'["tick"] = None
    BY DEF Crash, Workers
  <1>4. Once(mem', orders', dropping'["tick"]) /\ Once(saved', orders', None)
    BY <1>1, <1>2, <1>3 DEF BookInv
  <1>5. MissingFinal' /\ SnapshotOpen' /\ SyncRests'
    BY <1>3 DEF MissingFinal, SnapshotOpen, SyncRests, Syncing
  <1> QED
    BY <1>4, <1>5 DEF BookInv

LEMMA LimitsKeep ==
  ASSUME Inv, NEW m \in Books, CheckLimits(m)
  PROVE  mem'.active = m.active /\ mem'.booked = m.booked /\ pc'["tick"] \notin Syncing
  <1>1. [m EXCEPT !.halted = TRUE].active = m.active
        /\ [m EXCEPT !.halted = TRUE].booked = m.booked
    BY DEF Books
  <1>2. mem' = m \/ mem' = [m EXCEPT !.halted = TRUE]
    BY DEF CheckLimits
  <1>3. \E phase \in {"idle", "reconcile", "ask"} : Goto(phase)
    BY DEF CheckLimits
  <1>4. pc'["tick"] \in {"idle", "reconcile", "ask"}
    BY <1>3, GotoType DEF Inv, Shape, Phases
  <1> QED
    BY <1>1, <1>2, <1>4 DEF Syncing

LEMMA BookBegin ==
  ASSUME Inv, BookInv, Begin \/ RebalanceDone \/ BeginDay
  PROVE  BookInv'
  <1>1. UNCHANGED <<exchangeVars, saved, syncVars>> /\ pc["tick"] \notin Syncing
    <2>1. UNCHANGED <<exchangeVars, saved, syncVars>>
      <3>1. CASE Begin \/ RebalanceDone
        BY <3>1 DEF Begin, RebalanceDone, exchangeVars, syncVars
      <3>2. CASE BeginDay
        <4>1. UNCHANGED <<exchangeVars, saved, enabled, risk, level, adjust, syncVars>>
          BY <3>2, Zenon DEF BeginDay
        <4> QED
          BY <4>1
      <3> QED
        BY <3>1, <3>2
    <2>2. At("idle") \/ At("cancelAll")
      BY Zenon DEF Begin, RebalanceDone, BeginDay
    <2> QED
      BY <2>1, <2>2 DEF At, Syncing
  <1>2. OrdersGo
    BY <1>1, OrdersSame DEF Inv, Shape, exchangeVars
  <1>3. mem \in Books
    BY DEF Inv, Fine
  <1>4. mem'.active \subseteq mem.active /\ mem'.booked = mem.booked /\ pc'["tick"] \notin Syncing
    <2>1. CASE Begin
      BY <1>3, <2>1, LimitsKeep DEF Begin
    <2>2. CASE RebalanceDone
      <3> DEFINE m == [mem EXCEPT !.active = {e \in @ : KeptByRebalance(e)}]
      <3>1. m \in Books /\ m.active \subseteq mem.active /\ m.booked = mem.booked
        BY <1>3 DEF Books
      <3>2. CheckLimits(m)
        BY <2>2 DEF RebalanceDone
      <3> HIDE DEF m
      <3> QED
        BY <3>1, <3>2, LimitsKeep
    <2>3. CASE BeginDay
      <3> DEFINE m == [mem EXCEPT !.pnl = 0]
      <3>1. \A x \in Int : [mem EXCEPT !.pnl = x] \in Books
        BY <1>3 DEF Books
      <3>2. m \in Books
        BY <3>1
      <3>3. m.active = mem.active /\ m.booked = mem.booked
        BY <1>3 DEF Books
      <3>4. CheckLimits(m) \/ (mem' = m /\ Goto("cancelAll"))
        BY <2>3, Zenon DEF BeginDay
      <3> HIDE DEF m
      <3>5. Goto("cancelAll") => pc'["tick"] \notin Syncing
        BY GotoType DEF Inv, Shape, Phases, Syncing
      <3> QED
        BY <3>2, <3>3, <3>4, <3>5, LimitsKeep
    <2> QED
      BY <2>1, <2>2, <2>3
  <1> QED
    BY <1>1, <1>2, <1>4, BookKept

LEMMA BookWork ==
  ASSUME Inv, BookInv,
         \/ At("cancelAll") /\ \E e \in work : RebalanceCancel(e)
         \/ At("reconcile") /\ \E e \in work : ReconcileHalted(e)
         \/ \E e \in mem.active : CancelStale(e)
         \/ At("bear") /\ \E e \in work : BearCancel(e)
  PROVE  BookInv'
  <1>1. PICK e : RebalanceCancel(e) \/ ReconcileHalted(e) \/ CancelStale(e) \/ BearCancel(e)
    OBVIOUS
  <1>2. OrdersGo
    BY <1>1, OrdersCancel, OrdersSame
    DEF Inv, Shape, RebalanceCancel, ReconcileHalted, CancelStale, BearCancel, exchangeVars
  <1>3. mem' = mem \/ mem' = Untrack(mem, e)
    BY <1>1 DEF RebalanceCancel, ReconcileHalted, CancelStale, BearCancel
  <1>4. UNCHANGED <<saved, syncVars>> /\ pc["tick"] \notin Syncing
    BY <1>1 DEF RebalanceCancel, ReconcileHalted, CancelStale, BearCancel, At, Syncing
  <1>5. pc' = pc \/ Goto("idle")
    BY <1>1 DEF RebalanceCancel, ReconcileHalted, CancelStale, BearCancel
  <1>6. pc'["tick"] \notin Syncing
    BY <1>4, <1>5, GotoType DEF Inv, Shape, Phases, Syncing
  <1> QED
    BY <1>2, <1>3, <1>4, <1>6, UntrackLess, BookKept

LEMMA BookOnward ==
  ASSUME Inv, BookInv,
         \/ PriceFails \/ FetchPrice \/ CancelStaleDone \/ BearDone \/ StopsDone
         \/ GridDone \/ ReconcileDone \/ Save
         \/ \E t \in Trends : Trend(t)
         \/ \E r \in Regimes : Regime(r)
  PROVE  BookInv'
  <1>1. UNCHANGED <<orders, syncVars>> /\ saved' \in {saved, mem}
    BY DEF PriceFails, FetchPrice, CancelStaleDone, BearDone, StopsDone, GridDone,
           ReconcileDone, Save, Trend, Regime, TickKeeps, exchangeVars
  <1>2. OrdersGo
    BY <1>1, OrdersSame DEF Inv, Shape
  <1>3. pc["tick"] \notin Syncing
    BY DEF PriceFails, FetchPrice, CancelStaleDone, BearDone, StopsDone, GridDone,
           ReconcileDone, Save, Trend, Regime, At, Syncing
  <1>4. \E phase \in Phases \ Syncing : Goto(phase)
    BY DEF PriceFails, FetchPrice, CancelStaleDone, BearDone, StopsDone, GridDone,
           ReconcileDone, Save, Trend, Regime, Phases, Syncing
  <1>5. pc'["tick"] \notin Syncing
    BY <1>4, GotoType DEF Inv, Shape
  <1>6. mem'.active = mem.active /\ mem'.booked = mem.booked
    <2>1. \A p, h : /\ [mem EXCEPT !.halted = h, !.lastPrice = p].active = mem.active
                    /\ [mem EXCEPT !.halted = h, !.lastPrice = p].booked = mem.booked
                    /\ [mem EXCEPT !.lastPrice = p].active = mem.active
                    /\ [mem EXCEPT !.lastPrice = p].booked = mem.booked
                    /\ [mem EXCEPT !.halted = h].active = mem.active
                    /\ [mem EXCEPT !.halted = h].booked = mem.booked
      BY DEF Inv, Fine, Books
    <2>2. \/ mem' = mem
          \/ mem' = [mem EXCEPT !.halted = TRUE]
          \/ mem' = [mem EXCEPT !.lastPrice = market]
          \/ mem' = [mem EXCEPT !.halted = TRUE, !.lastPrice = market]
      BY DEF PriceFails, FetchPrice, CancelStaleDone, BearDone, StopsDone, GridDone,
             ReconcileDone, Save, Trend, Regime
    <2> QED
      BY <2>1, <2>2
  <1> QED
    BY <1>1, <1>2, <1>3, <1>5, <1>6, BookKept

\* An order that is submitted has not been booked, and its entry names it.
LEMMA OnceNew ==
  ASSUME Inv, BookInv, NEW side \in Sides, NEW price \in Int, NEW id \in OrderIds,
         id = Cardinality(UsedIds) + 1,
         orders' = [orders EXCEPT ![id] =
                      [state |-> "open", side |-> side, price |-> price]],
         mem'.active \subseteq mem.active \cup {Entry(side, price, id)},
         mem'.booked = mem.booked
  PROVE  OrdersGo /\ Once(mem', orders', dropping["tick"])
  <1>1. OrdersGo /\ orders[id].state = "none"
    BY OrdersNew DEF Inv, Shape
  <1>2. Once(mem, orders', dropping["tick"])
    BY <1>1, OnceStays DEF Inv, Shape, BookInv
  <1>3. mem.booked[id] = 0
    <2>1. mem.booked[id] \in Nat
      BY DEF Inv, Fine, Books
    <2> QED
      BY <1>1, <2>1 DEF BookInv, Once, Final
  <1>4. Names(Entry(side, price, id), orders') /\ Entry(side, price, id).id = id
    <2>1. orders'[id] = [state |-> "open", side |-> side, price |-> price]
      BY DEF Inv, Shape, Orders
    <2> QED
      BY <2>1 DEF Names, Entry
  <1>5. \A f \in mem'.active : f \in mem.active \/ f = Entry(side, price, id)
    OBVIOUS
  <1>6. \A f \in mem'.active : /\ Names(f, orders')
                               /\ mem'.booked[f.id] > 0 => /\ dropping["tick"] # None
                                                           /\ f = dropping["tick"]
    <2>1. ASSUME NEW f \in mem.active
          PROVE  /\ Names(f, orders')
                 /\ mem'.booked[f.id] > 0 => /\ dropping["tick"] # None
                                             /\ f = dropping["tick"]
      BY <1>2 DEF Once
    <2>2. Names(Entry(side, price, id), orders') /\ ~(mem'.booked[Entry(side, price, id).id] > 0)
      BY <1>3, <1>4
    <2> QED
      BY <1>5, <2>1, <2>2
  <1>7. \A i \in OrderIds : /\ mem'.booked[i] <= 1
                            /\ mem'.booked[i] > 0 => orders'[i].state \in Final
    BY <1>2 DEF Once
  <1>8. Once(mem', orders', dropping["tick"])
    BY <1>6, <1>7 DEF Once
  <1> QED
    BY <1>1, <1>8

LEMMA OnceNewOrder ==
  ASSUME Inv, BookInv, NEW side \in Sides, NEW price \in Int, NEW tracked \in BOOLEAN,
         NewOrder(side, price, tracked)
  PROVE  /\ OrdersGo /\ Once(mem', orders', dropping["tick"]) /\ mem'.booked = mem.booked
  <1> DEFINE id == Cardinality(UsedIds) + 1
             e == Entry(side, price, id)
  <1>1. /\ id \in OrderIds
        /\ orders' = [orders EXCEPT ![id] =
                        [state |-> "open", side |-> side, price |-> price]]
        /\ mem' = mem \/ mem' = [mem EXCEPT !.active = Untrack(mem, e).active \cup {e}]
    BY DEF NewOrder
  <1>2. Untrack(mem, e).active \subseteq mem.active
    BY UntrackLess
  <1>3. \A es : /\ [mem EXCEPT !.active = es].active = es
                /\ [mem EXCEPT !.active = es].booked = mem.booked
    BY DEF Inv, Fine, Books
  <1>4. mem'.active \subseteq mem.active \cup {e} /\ mem'.booked = mem.booked
    BY <1>1, <1>2, <1>3
  <1> HIDE DEF id
  <1> QED
    BY <1>1, <1>4, OnceNew DEF id

LEMMA OnceRefused ==
  ASSUME Inv, BookInv, NEW side \in Sides, NEW price \in Int, NotAccepted(side, price)
  PROVE  OrdersGo /\ Once(mem', orders', dropping["tick"]) /\ mem'.booked = mem.booked
  <1>1. CASE UNCHANGED <<orders, mem>>
    <2>1. OrdersGo
      BY <1>1, OrdersSame DEF Inv, Shape
    <2> QED
      BY <1>1, <2>1 DEF BookInv
  <1>2. CASE NewOrder(side, price, FALSE)
    BY <1>2, OnceNewOrder
  <1> QED
    BY <1>1, <1>2 DEF NotAccepted

LEMMA BookStops ==
  ASSUME Inv, BookInv, NEW lot \in work,
         \/ StopPass(lot) \/ StopChase(lot) \/ StopNotNeeded(lot)
         \/ StopPlaced(lot) \/ StopRefused(lot)
  PROVE  BookInv'
  <1>1. /\ UNCHANGED <<saved, pc, syncVars>>
        /\ pc["tick"] \notin Syncing
    BY DEF StopPass, StopChase, StopNotNeeded, StopPlaced, StopRefused, StopKeeps, At, Syncing
  <1>2. pc'["tick"] \notin Syncing
    BY <1>1
  <1>3. CASE StopPass(lot) \/ StopNotNeeded(lot)
    <2>1. OrdersGo
      BY <1>3, OrdersSame DEF StopPass, StopNotNeeded, Inv, Shape
    <2>2. \A stops : /\ [mem EXCEPT !.stops = stops].active = mem.active
                     /\ [mem EXCEPT !.stops = stops].booked = mem.booked
      BY DEF Inv, Fine, Books
    <2>3. mem'.active = mem.active /\ mem'.booked = mem.booked
      BY <1>3, <2>2 DEF StopPass, StopNotNeeded
    <2> QED
      BY <1>1, <1>2, <2>1, <2>3, BookKept
  <1>4. CASE StopChase(lot)
    <2>1. PICK s, old :
            /\ CancelOrder(old.id)
            /\ mem' = [Untrack(mem, old) EXCEPT !.stops = @ \ {s}, !.triggered = @ \ {lot}]
      BY <1>4 DEF StopChase
    <2>2. OrdersGo
      BY <2>1, OrdersCancel DEF Inv, Shape
    <2>3. Untrack(mem, old) \in Books
      BY UntrackType DEF Inv, Fine
    <2>4. mem'.active = Untrack(mem, old).active /\ mem'.booked = Untrack(mem, old).booked
      BY <2>1, <2>3 DEF Books
    <2>5. mem'.active \subseteq mem.active /\ mem'.booked = mem.booked
      BY <2>4, UntrackLess
    <2> QED
      BY <1>1, <1>2, <2>2, <2>5, BookKept
  <1>5. CASE StopRefused(lot)
    <2>1. (mem.lastPrice \div Whole) * Whole \in Int /\ "SELL" \in Sides
      BY StopPriceType DEF Inv, Sides
    <2>2. OrdersGo /\ Once(mem', orders', dropping["tick"]) /\ mem'.booked = mem.booked
      BY <1>5, <2>1, OnceRefused DEF StopRefused
    <2> QED
      BY <1>1, <1>2, <2>2, BookAfter
  <1>6. CASE StopPlaced(lot)
    <2> DEFINE at == (mem.lastPrice \div Whole) * Whole
               id == Cardinality(UsedIds) + 1
               e == Entry("SELL", at, id)
    <2>1. at \in Int /\ "SELL" \in Sides
      BY StopPriceType DEF Inv, Sides
    <2>2. /\ id \in OrderIds
          /\ orders' = [orders EXCEPT ![id] =
                          [state |-> "open", side |-> "SELL", price |-> at]]
          /\ \E triggered, stops :
                mem' = [mem EXCEPT !.active = Untrack(mem, e).active \cup {e},
                                   !.triggered = triggered, !.stops = stops]
      <3>1. id \in OrderIds
        BY <1>6 DEF StopPlaced, Entry
      <3>2. orders' = [orders EXCEPT ![id] =
                          [state |-> "open", side |-> "SELL", price |-> at]]
        BY <1>6 DEF StopPlaced, Entry
      <3>3. mem' = [mem EXCEPT !.active = Untrack(mem, e).active \cup {e},
                              !.triggered = @ \cup {lot},
                              !.stops = {s \in @ : s.lot # lot} \cup {[lot |-> lot, at |-> at]}]
        BY <1>6 DEF StopPlaced
      <3> HIDE DEF at, id, e
      <3> QED
        BY <3>1, <3>2, <3>3
    <2> HIDE DEF at, id
    <2>3. \A es, triggered, stops :
            /\ [mem EXCEPT !.active = es, !.triggered = triggered, !.stops = stops].active = es
            /\ [mem EXCEPT !.active = es, !.triggered = triggered, !.stops = stops].booked
                 = mem.booked
      BY DEF Inv, Fine, Books
    <2>4. mem'.active \subseteq mem.active \cup {e} /\ mem'.booked = mem.booked
      BY <2>2, <2>3, UntrackLess
    <2>5. OrdersGo /\ Once(mem', orders', dropping["tick"])
      BY <2>1, <2>2, <2>4, OnceNew DEF id
    <2> QED
      BY <1>1, <1>2, <2>4, <2>5, BookAfter
  <1> QED
    BY <1>3, <1>4, <1>5, <1>6

LEMMA BookGrid ==
  ASSUME Inv, BookInv, GridSkip \/ GridPlaced \/ GridRefused
  PROVE  BookInv'
  <1>1. GridPrice \in Int /\ level[2] \in Sides
    BY GridPriceType, NextLevelType DEF Inv, Shape
  <1>2. /\ UNCHANGED <<saved, pc, syncVars>>
        /\ pc["tick"] \notin Syncing
    BY DEF GridSkip, GridPlaced, GridRefused, GridKeeps, At, Syncing
  <1>3. OrdersGo /\ Once(mem', orders', dropping["tick"]) /\ mem'.booked = mem.booked
    <2>1. CASE GridSkip
      <3>1. UNCHANGED <<orders, mem>>
        BY <2>1 DEF GridSkip
      <3>2. OrdersGo
        BY <3>1, OrdersSame DEF Inv, Shape
      <3> QED
        BY <3>1, <3>2 DEF BookInv
    <2>2. CASE GridPlaced
      BY <1>1, <2>2, OnceNewOrder DEF GridPlaced, Accepted
    <2>3. CASE GridRefused
      BY <1>1, <2>3, OnceRefused DEF GridRefused
    <2> QED
      BY <2>1, <2>2, <2>3
  <1> QED
    BY <1>2, <1>3, BookAfter

(***************************************************************************)
(* The steps of the tick's own sync.                                       *)
(***************************************************************************)
LEMMA BookSyncAsk ==
  ASSUME Inv, BookInv, SyncAsk("tick")
  PROVE  BookInv'
  <1>1. UNCHANGED <<orders, mem, saved, dropping>> /\ pc["tick"] = "ask" /\ UsedIds' = UsedIds
    BY DEF SyncAsk, exchangeVars, UsedIds
  <1>2. dropping["tick"] = None /\ missing["tick"] = {}
    BY <1>1 DEF BookInv, SyncRests, Syncing
  <1>3. Once(mem', orders', dropping'["tick"]) /\ Once(saved', orders', None)
    BY <1>1 DEF BookInv
  <1>4. CASE After("tick", "price") /\ UNCHANGED <<snapshot, missing>>
    <2>1. pc'["tick"] = "price"
      BY <1>4, AfterType DEF Inv, Shape, Workers, Phases
    <2>2. MissingFinal' /\ SnapshotOpen' /\ SyncRests'
      BY <1>1, <1>2, <1>4, <2>1 DEF MissingFinal, SnapshotOpen, SyncRests, Syncing
    <2> QED
      BY <1>3, <2>2 DEF BookInv
  <1>5. CASE /\ pc' = [pc EXCEPT !["tick"] = "buys"]
             /\ snapshot' = [snapshot EXCEPT !["tick"] = OpenIds]
             /\ missing' = [missing EXCEPT
                   !["tick"] = {e \in Tracked("BUY") : e.id \notin OpenIds}]
    <2>1. /\ pc'["tick"] = "buys" /\ snapshot'["tick"] = OpenIds
          /\ missing'["tick"] = {e \in Tracked("BUY") : e.id \notin OpenIds}
      BY <1>5 DEF Inv, Shape, Workers
    <2>2. \A i \in OrderIds : /\ mem.booked[i] \in Nat
                              /\ orders[i].state \in {"none", "open", "filled", "canceled"}
      BY DEF Inv, Shape, Fine, Books, Orders, OrderStates
    <2>3. \A i \in UsedIds : i \in OpenIds \/ orders[i].state \in Final
      BY <2>2 DEF UsedIds, OpenIds, Final
    <2>4. \A i \in OpenIds : i \in UsedIds /\ mem.booked[i] = 0
      BY <2>2 DEF BookInv, Once, UsedIds, OpenIds, Final
    <2>5. \A e \in Tracked("BUY") :
            e.id \in OrderIds /\ Names(e, orders) /\ mem.booked[e.id] = 0
      <3>1. \A e \in mem.active : e.id \in OrderIds
        BY DEF Inv, Fine, Books, Entries
      <3> QED
        BY <1>2, <2>2, <3>1 DEF BookInv, Once, Tracked
    <2>6. \A e \in Tracked("BUY") : e.id \notin OpenIds => orders[e.id].state \in Final
      BY <2>3, <2>5 DEF Names, UsedIds
    <2>7. MissingFinal'
      BY <1>1, <2>1, <2>5, <2>6 DEF MissingFinal
    <2>8. SnapshotOpen'
      BY <1>1, <2>1, <2>3, <2>4 DEF SnapshotOpen
    <2>9. SyncRests'
      BY <2>1 DEF SyncRests, Syncing
    <2> QED
      BY <1>3, <2>7, <2>8, <2>9 DEF BookInv
  <1> QED
    BY <1>4, <1>5 DEF SyncAsk

\* Two entries that name the same order are the same entry.
LEMMA SameName ==
  ASSUME NEW e \in Entries, NEW f \in Entries, Names(e, orders), Names(f, orders),
         e.id = f.id
  PROVE  e = f
  BY DEF Entries, Names

LEMMA BookSyncVerify ==
  ASSUME Inv, BookInv, NEW e \in missing["tick"], SyncVerify("tick", e)
  PROVE  BookInv'
  <1>1. /\ UNCHANGED <<orders, saved, pc, snapshot>> /\ UsedIds' = UsedIds
        /\ pc["tick"] \in Syncing /\ dropping["tick"] = None
        /\ missing' = [missing EXCEPT !["tick"] = @ \ {e}]
    BY DEF SyncVerify, exchangeVars, Syncing, UsedIds
  <1>2. /\ e \in Entries /\ e.id \in OrderIds /\ Names(e, orders)
        /\ orders[e.id].state \in Final
        /\ mem.booked[e.id] = 0 /\ e.id \notin snapshot["tick"]
    BY DEF Inv, Shape, Workers, BookInv, MissingFinal, Entries
  <1>3. missing'["tick"] = missing["tick"] \ {e} /\ missing["tick"] \subseteq Entries
    BY <1>1 DEF Inv, Shape, Workers
  <1>4. \/ mem' = mem /\ dropping' = dropping
        \/ dropping' = [dropping EXCEPT !["tick"] = e] /\ mem' = mem
        \/ dropping' = [dropping EXCEPT !["tick"] = e]
           /\ mem'.active = mem.active /\ mem'.booked = [mem.booked EXCEPT ![e.id] = @ + 1]
    <2>1. CASE UNCHANGED <<mem, dropping>>
      BY <2>1
    <2>2. CASE dropping' = [dropping EXCEPT !["tick"] = e] /\ mem' = mem
      BY <2>2
    <2>3. CASE /\ dropping' = [dropping EXCEPT !["tick"] = e]
               /\ orders[e.id].state = "filled" /\ Book(e, FALSE)
      BY <1>2, <2>3, FineBook DEF Inv, Shape
    <2>4. CASE dropping' = [dropping EXCEPT !["tick"] = e] /\ Book(e, TRUE)
      BY <1>2, <2>4, FineBook DEF Inv, Shape
    <2> QED
      BY <2>1, <2>2, <2>3, <2>4 DEF SyncVerify
  <1>5. dropping["tick"] = None /\ dropping \in [Workers -> Entries \cup {None}]
        /\ "tick" \in Workers
    BY <1>1 DEF Inv, Shape, Workers
  <1>6. e # None
    BY <1>2 DEF Entries, None
  <1>7. \A i \in OrderIds : /\ mem.booked[i] \in Nat
                            /\ i # e.id => mem'.booked[i] = mem.booked[i]
    BY <1>2, <1>4 DEF Inv, Fine, Books
  <1>8. \A f \in mem.active : /\ f \in Entries /\ f.id \in OrderIds /\ Names(f, orders)
                              /\ ~(mem.booked[f.id] > 0)
    BY <1>1 DEF Inv, Fine, Books, Entries, BookInv, Once
  <1>9. Once(mem', orders', dropping'["tick"])
    <2>1. CASE mem' = mem
      BY <1>1, <1>8, <2>1 DEF BookInv, Once
    <2>2. CASE /\ dropping' = [dropping EXCEPT !["tick"] = e]
               /\ mem'.active = mem.active
               /\ mem'.booked = [mem.booked EXCEPT ![e.id] = @ + 1]
      <3>1. dropping'["tick"] = e
        BY <1>5, <2>2
      <3>2. mem'.booked[e.id] = 1
        BY <1>2, <2>2 DEF Inv, Fine, Books
      <3>3. \A f \in mem'.active : Names(f, orders) /\ (mem'.booked[f.id] > 0 => f = e)
        BY <1>2, <1>7, <1>8, <2>2, SameName
      <3>4. \A i \in OrderIds :
              mem'.booked[i] <= 1 /\ (mem'.booked[i] > 0 => orders[i].state \in Final)
        BY <1>2, <1>7, <3>2 DEF BookInv, Once
      <3> QED
        BY <1>1, <1>6, <3>1, <3>3, <3>4 DEF Once
    <2> QED
      BY <1>4, <2>1, <2>2
  <1>10. MissingFinal'
    <2>1. \A f \in missing["tick"] \ {e} : f.id # e.id
      BY <1>2, <1>3, SameName DEF BookInv, MissingFinal
    <2>2. \A f \in missing["tick"] \ {e} : f.id \in OrderIds
      BY <1>3 DEF Entries
    <2>3. \A f \in missing["tick"] \ {e} : mem'.booked[f.id] = mem.booked[f.id]
      BY <1>7, <2>1, <2>2
    <2> QED
      BY <1>1, <1>3, <2>3 DEF BookInv, MissingFinal
  <1>11. SnapshotOpen'
    <2>1. \A i \in snapshot["tick"] : i \in OrderIds /\ i # e.id
      BY <1>2 DEF Inv, Shape, Workers
    <2>2. \A i \in snapshot["tick"] : mem'.booked[i] = mem.booked[i]
      BY <1>7, <2>1
    <2> QED
      BY <1>1, <2>2 DEF BookInv, SnapshotOpen
  <1>12. SyncRests' /\ Once(saved', orders', None)
    BY <1>1 DEF SyncRests, BookInv
  <1> QED
    BY <1>9, <1>10, <1>11, <1>12 DEF BookInv

LEMMA BookSyncDrop ==
  ASSUME Inv, BookInv, SyncDrop("tick")
  PROVE  BookInv'
  <1>1. /\ UNCHANGED <<orders, saved, snapshot>> /\ UsedIds' = UsedIds
        /\ pc["tick"] \in Syncing /\ dropping["tick"] # None
        /\ mem' = Untrack(mem, dropping["tick"])
    BY DEF SyncDrop, exchangeVars, Syncing, UsedIds
  <1>2. dropping'["tick"] = None
    BY DEF SyncDrop, Inv, Shape, Workers
  <1>3. /\ mem'.booked = mem.booked
        /\ mem'.active = {f \in mem.active : \/ f.side # dropping["tick"].side
                                             \/ f.price # dropping["tick"].price}
    BY <1>1 DEF Untrack, Inv, Fine, Books
  <1>4. \A f \in mem'.active : Names(f, orders) /\ f # dropping["tick"]
    BY <1>3 DEF BookInv, Once
  <1>5. Once(mem', orders', dropping'["tick"])
    BY <1>1, <1>3, <1>4 DEF BookInv, Once
  <1>6. \/ pc' = pc /\ missing' = missing
        \/ pc'["tick"] = "price" /\ missing'["tick"] = {}
    <2>1. CASE After("tick", "price") /\ missing' = [missing EXCEPT !["tick"] = {}]
      BY <2>1, AfterType DEF Inv, Shape, Workers, Phases
    <2> QED
      BY <2>1 DEF SyncDrop
  <1>7. MissingFinal' /\ SnapshotOpen' /\ SyncRests'
    BY <1>1, <1>2, <1>3, <1>6 DEF BookInv, MissingFinal, SnapshotOpen, SyncRests, Syncing
  <1> QED
    BY <1>1, <1>5, <1>7 DEF BookInv

LEMMA BookSyncSells ==
  ASSUME Inv, BookInv, SyncSells("tick")
  PROVE  BookInv'
  <1>1. /\ UNCHANGED <<orders, mem, saved, snapshot, dropping>> /\ UsedIds' = UsedIds
        /\ pc["tick"] = "buys" /\ dropping["tick"] = None
    BY DEF SyncSells, exchangeVars, UsedIds
  <1>2. /\ pc'["tick"] = "sells"
        /\ missing'["tick"] = {e \in Tracked("SELL") : e.id \notin snapshot["tick"]}
    BY DEF SyncSells, Inv, Shape, Workers
  <1>3. \A e \in Tracked("SELL") :
          e.id \in OrderIds /\ Names(e, orders) /\ mem.booked[e.id] = 0
    <2>1. \A e \in mem.active : e.id \in OrderIds /\ mem.booked[e.id] \in Nat
      BY DEF Inv, Fine, Books, Entries
    <2> QED
      BY <1>1, <2>1 DEF BookInv, Once, Tracked
  <1>4. \A i \in UsedIds : i \in snapshot["tick"] \/ orders[i].state \in Final
    BY <1>1 DEF BookInv, SnapshotOpen, Syncing
  <1>5. MissingFinal'
    BY <1>1, <1>2, <1>3, <1>4 DEF MissingFinal, Names, UsedIds
  <1>6. SnapshotOpen' /\ SyncRests'
    BY <1>1, <1>2 DEF BookInv, SnapshotOpen, SyncRests, Syncing
  <1> QED
    BY <1>1, <1>5, <1>6 DEF BookInv

LEMMA BookSyncAdopt ==
  ASSUME Inv, BookInv, SyncAdopt("tick")
  PROVE  BookInv'
  <1>1. /\ UNCHANGED <<orders, saved, missing, dropping>> /\ pc["tick"] = "sells"
        /\ missing["tick"] = {} /\ dropping["tick"] = None /\ After("tick", "price")
    BY DEF SyncAdopt, exchangeVars
  <1>2. pc'["tick"] = "price"
    BY <1>1, AfterType DEF Inv, Shape, Workers, Phases
  <1>3. PICK new \in SUBSET Untaken("tick") : mem' = [mem EXCEPT !.active = @ \cup new]
    BY DEF SyncAdopt
  <1>4. mem'.active = mem.active \cup new /\ mem'.booked = mem.booked
    BY <1>3 DEF Inv, Fine, Books
  <1>5. \A i \in snapshot["tick"] : i \in UsedIds /\ mem.booked[i] = 0
    BY <1>1 DEF BookInv, SnapshotOpen, Syncing
  <1>6. \A e \in new : Names(e, orders) /\ mem.booked[e.id] = 0
    BY <1>5 DEF Untaken, Entry, Names, UsedIds
  <1>7. Once(mem', orders', dropping'["tick"])
    BY <1>1, <1>4, <1>6 DEF BookInv, Once
  <1>8. MissingFinal' /\ SnapshotOpen' /\ SyncRests'
    BY <1>1, <1>2 DEF MissingFinal, SnapshotOpen, SyncRests, Syncing
  <1> QED
    BY <1>1, <1>7, <1>8 DEF BookInv

LEMMA InitBook ==
  ASSUME Init
  PROVE  BookInv
  <1>1. /\ Fresh.active = {} /\ \A i \in OrderIds : Fresh.booked[i] = 0
    BY DEF Fresh
  <1>2. /\ pc["tick"] = "idle" /\ missing["tick"] = {} /\ dropping["tick"] = None
    BY DEF Init, Workers
  <1>3. Once(mem, orders, None) /\ Once(saved, orders, None)
    BY <1>1 DEF Init, Once
  <1> QED
    BY <1>2, <1>3 DEF BookInv, MissingFinal, SnapshotOpen, SyncRests, Syncing

LEMMA BookStep ==
  ASSUME Restarts = {}, Inv, BookInv, [Next]_vars
  PROVE  BookInv'
  <1>1. CASE UNCHANGED vars
    BY <1>1 DEF vars, exchangeVars, tickVars, syncVars, BookInv, MissingFinal,
                SnapshotOpen, SyncRests, UsedIds
  <1>2. CASE Exchange \/ Kill \/ Enable \/ RiskDay \/ \E w \in Restarts : ForceRestart(w)
    BY <1>2, BookOutside
  <1>3. CASE Crash
    BY <1>3, BookCrash
  <1>4. CASE Begin \/ RebalanceDone \/ BeginDay
    BY <1>4, BookBegin
  <1>5. CASE \/ At("cancelAll") /\ \E e \in work : RebalanceCancel(e)
             \/ At("reconcile") /\ \E e \in work : ReconcileHalted(e)
             \/ \E e \in mem.active : CancelStale(e)
             \/ At("bear") /\ \E e \in work : BearCancel(e)
    BY <1>5, BookWork
  <1>6. CASE Sync
    <2>1. Workers = {"tick"}
      BY DEF Workers
    <2> QED
      BY <1>6, <2>1, BookSyncAsk, BookSyncVerify, BookSyncDrop, BookSyncSells, BookSyncAdopt
      DEF Sync
  <1>7. CASE \/ PriceFails \/ FetchPrice \/ CancelStaleDone \/ BearDone \/ StopsDone
             \/ GridDone \/ ReconcileDone \/ Save
             \/ \E t \in Trends : Trend(t)
             \/ \E r \in Regimes : Regime(r)
    BY <1>7, BookOnward
  <1>8. CASE At("stops") /\ \E l \in work : \/ StopPass(l) \/ StopChase(l)
                                            \/ StopNotNeeded(l)
                                            \/ StopPlaced(l) \/ StopRefused(l)
    BY <1>8, BookStops
  <1>9. CASE GridSkip \/ GridPlaced \/ GridRefused
    BY <1>9, BookGrid
  <1> QED
    BY <1>1, <1>2, <1>3, <1>4, <1>5, <1>6, <1>7, <1>8, <1>9 DEF Next

\* _sync_open_orders: as long as no forced restart synchronises beside the
\* tick, no order is booked twice, whichever crash, reload, lost answer, failed
\* lookup or refused save comes between the booking and the untracking.
THEOREM BookedOnceHolds == ASSUME Restarts = {} PROVE Spec => []BookedOnce
  <1>1. Init => BookInv
    BY InitBook
  <1>2. Inv /\ Inv' /\ BookInv /\ [Next]_vars => BookInv'
    BY BookStep
  <1>3. BookInv => BookedOnce
    BY DEF BookInv, Once, BookedOnce
  <1> QED
    BY <1>1, <1>2, <1>3, InvHolds, PTL DEF Spec

(***************************************************************************)
(* A mark of the stop-loss lives no longer than its lot, as long as only   *)
(* the tick synchronises: while it checks the stops no lot is sold.        *)
(***************************************************************************)
Held(m) == m.triggered \subseteq Range(m.lots)

HeldInv ==
    /\ Held(mem)
    /\ Held(saved)
    /\ At("stops") => work \subseteq Range(mem.lots)

\* Without takes nothing but its second argument out of a sequence.
LEMMA WithoutKeeps ==
  ASSUME NEW s \in Seq(Int), NEW x
  PROVE  Range(s) \ {x} \subseteq Range(Without(s, x))
  <1>1. CASE x \notin Range(s)
    BY <1>1 DEF Without
  <1>2. CASE x \in Range(s)
    <2> DEFINE at == CHOOSE i \in DOMAIN s : s[i] = x
               r == [i \in 1 .. Len(s) - 1 |-> IF i < at THEN s[i] ELSE s[i + 1]]
    <2>1. \E i \in DOMAIN s : s[i] = x
      BY <1>2 DEF Range
    <2>2. at \in DOMAIN s /\ s[at] = x
      BY <2>1
    <2>3. DOMAIN s = 1 .. Len(s) /\ Len(s) \in Nat
      OBVIOUS
    <2> HIDE DEF at
    <2>4. ASSUME NEW y \in Range(s) \ {x}
          PROVE  \E i \in 1 .. Len(s) - 1 : (IF i < at THEN s[i] ELSE s[i + 1]) = y
      <3>1. PICK j \in DOMAIN s : s[j] = y
        BY DEF Range
      <3>2. j # at /\ j \in 1 .. Len(s) /\ at \in 1 .. Len(s)
        BY <2>2, <2>3, <3>1
      <3>3. CASE j < at
        BY <2>3, <3>1, <3>2, <3>3
      <3>4. CASE j > at
        <4>1. j - 1 \in 1 .. Len(s) - 1 /\ ~(j - 1 < at) /\ s[(j - 1) + 1] = y
          BY <2>3, <3>1, <3>2, <3>4
        <4> QED
          BY <4>1
      <3> QED
        BY <3>2, <3>3, <3>4
    <2>5. Range(s) \ {x} \subseteq Range(r)
      BY <2>4 DEF Range
    <2> QED
      BY <1>2, <2>5 DEF Without, at
  <1> QED
    BY <1>1, <1>2

\* A step that sells no lot, and marks only one that the tick visits.
LEMMA HeldAfter ==
  ASSUME HeldInv, mem'.lots = mem.lots, saved' \in {saved, mem},
         \/ mem'.triggered \subseteq mem.triggered
         \/ mem'.triggered \subseteq mem.triggered \cup work /\ At("stops"),
         \/ pc'["tick"] # "stops"
         \/ At("stops") /\ work' \subseteq work
         \/ work' \subseteq Range(mem.lots)
  PROVE  HeldInv'
  BY DEF HeldInv, Held, At

LEMMA HeldFields ==
  ASSUME Inv
  PROVE  /\ mem \in Books
         /\ \A e : /\ Untrack(mem, e).lots = mem.lots
                   /\ Untrack(mem, e).triggered = mem.triggered
         /\ \A es : /\ [mem EXCEPT !.active = es].lots = mem.lots
                    /\ [mem EXCEPT !.active = es].triggered = mem.triggered
  BY DEF Inv, Fine, Books, Untrack

LEMMA HeldOutside ==
  ASSUME Restarts = {}, Inv, HeldInv,
         Exchange \/ Kill \/ Enable \/ RiskDay \/ \E w \in Restarts : ForceRestart(w)
  PROVE  HeldInv'
  <1>1. UNCHANGED <<saved, pc, work>>
    BY DEF Exchange, Fill, CancelOutside, Move, Kill, Enable, RiskDay, tickVars
  <1>2. mem' = mem \/ mem' = [mem EXCEPT !.halted = FALSE]
    BY DEF Exchange, Fill, CancelOutside, Move, Kill, Enable, RiskDay
  <1>3. mem'.lots = mem.lots /\ mem'.triggered = mem.triggered
    BY <1>2 DEF Inv, Fine, Books
  <1> QED
    BY <1>1, <1>3, HeldAfter DEF At

LEMMA HeldCrash ==
  ASSUME HeldInv, Crash
  PROVE  HeldInv'
  <1>1. mem' = saved /\ saved' = saved /\ pc'["tick"] = "idle"
    BY DEF Crash, Workers
  <1> QED
    BY <1>1 DEF HeldInv, Held, At

LEMMA LimitsHeld ==
  ASSUME Inv, NEW m \in Books, CheckLimits(m)
  PROVE  mem'.lots = m.lots /\ mem'.triggered = m.triggered /\ pc'["tick"] # "stops"
  <1>1. [m EXCEPT !.halted = TRUE].lots = m.lots
        /\ [m EXCEPT !.halted = TRUE].triggered = m.triggered
    BY DEF Books
  <1>2. mem' = m \/ mem' = [m EXCEPT !.halted = TRUE]
    BY DEF CheckLimits
  <1>3. \E phase \in {"idle", "reconcile", "ask"} : Goto(phase)
    BY DEF CheckLimits
  <1>4. pc'["tick"] \in {"idle", "reconcile", "ask"}
    BY <1>3, GotoType DEF Inv, Shape, Phases
  <1> QED
    BY <1>1, <1>2, <1>4

LEMMA HeldBegin ==
  ASSUME Inv, HeldInv, Begin \/ RebalanceDone \/ BeginDay
  PROVE  HeldInv'
  <1>1. saved' = saved
    BY Zenon DEF Begin, RebalanceDone, BeginDay
  <1>2. mem'.lots = mem.lots /\ mem'.triggered = mem.triggered /\ pc'["tick"] # "stops"
    <2>1. CASE Begin
      BY <2>1, HeldFields, LimitsHeld DEF Begin
    <2>2. CASE RebalanceDone
      <3> DEFINE m == [mem EXCEPT !.active = {e \in @ : KeptByRebalance(e)}]
      <3>1. m \in Books /\ m.lots = mem.lots /\ m.triggered = mem.triggered
        BY HeldFields DEF Books
      <3>2. CheckLimits(m)
        BY <2>2 DEF RebalanceDone
      <3> HIDE DEF m
      <3> QED
        BY <3>1, <3>2, LimitsHeld
    <2>3. CASE BeginDay
      <3> DEFINE m == [mem EXCEPT !.pnl = 0]
      <3>1. \A x \in Int : [mem EXCEPT !.pnl = x] \in Books
        BY HeldFields DEF Books
      <3>2. m \in Books
        BY <3>1
      <3>3. m.lots = mem.lots /\ m.triggered = mem.triggered
        BY HeldFields DEF Books
      <3>4. CheckLimits(m) \/ (mem' = m /\ Goto("cancelAll"))
        BY <2>3, Zenon DEF BeginDay
      <3> HIDE DEF m
      <3>5. Goto("cancelAll") => pc'["tick"] # "stops"
        BY GotoType DEF Inv, Shape, Phases
      <3> QED
        BY <3>2, <3>3, <3>4, <3>5, LimitsHeld
    <2> QED
      BY <2>1, <2>2, <2>3
  <1> QED
    BY <1>1, <1>2, HeldAfter

LEMMA HeldWork ==
  ASSUME Inv, HeldInv,
         \/ At("cancelAll") /\ \E e \in work : RebalanceCancel(e)
         \/ At("reconcile") /\ \E e \in work : ReconcileHalted(e)
         \/ \E e \in mem.active : CancelStale(e)
         \/ At("bear") /\ \E e \in work : BearCancel(e)
  PROVE  HeldInv'
  <1>1. PICK e : RebalanceCancel(e) \/ ReconcileHalted(e) \/ CancelStale(e) \/ BearCancel(e)
    OBVIOUS
  <1>2. mem' = mem \/ mem' = Untrack(mem, e)
    BY <1>1 DEF RebalanceCancel, ReconcileHalted, CancelStale, BearCancel
  <1>3. saved' = saved
    BY <1>1 DEF RebalanceCancel, ReconcileHalted, CancelStale, BearCancel
  <1>4. pc' = pc \/ Goto("idle")
    BY <1>1 DEF RebalanceCancel, ReconcileHalted, CancelStale, BearCancel
  <1>5. pc'["tick"] # "stops" \/ (At("stops") /\ work' \subseteq work)
    <2>1. CASE Goto("idle")
      BY <2>1, GotoType DEF Inv, Shape, Phases
    <2>2. CASE pc' = pc /\ ~At("stops")
      BY <2>2 DEF At
    <2>3. CASE At("stops")
      BY <1>1, <2>3 DEF RebalanceCancel, ReconcileHalted, CancelStale, BearCancel, At, tickVars
    <2> QED
      BY <1>4, <2>1, <2>2, <2>3
  <1> QED
    BY <1>2, <1>3, <1>5, HeldFields, HeldAfter

\* Booking a fill adds a lot, or sells one together with its mark.
LEMMA HeldBook ==
  ASSUME Inv, Held(mem), NEW e, NEW assumed, Book(e, assumed)
  PROVE  Held(mem')
  <1> DEFINE booked == [mem.booked EXCEPT ![e.id] = @ + 1]
             guessed == IF assumed THEN mem.assumed \cup {e.id} ELSE mem.assumed
             lot == Match(mem, e.price)
             bought == Append(Without(mem.lots, e.price), e.price)
             sold == Without(mem.lots, lot)
  <1>1. mem \in Books /\ mem.lots \in Seq(Int)
    BY DEF Inv, Fine, Books
  <1>2. CASE e.side = "BUY"
    <2>1. mem'.lots = bought /\ mem'.triggered = mem.triggered
      BY <1>1, <1>2 DEF Book, Books
    <2>2. Range(Without(mem.lots, e.price)) \cup {e.price} \subseteq Range(bought)
      <3> DEFINE r == Without(mem.lots, e.price)
      <3>1. r \in Seq(Int)
        BY <1>1, WithoutType
      <3> HIDE DEF r
      <3>2. ASSUME NEW i \in DOMAIN r
            PROVE  i \in DOMAIN Append(r, e.price) /\ Append(r, e.price)[i] = r[i]
        BY <3>1
      <3>3. Len(r) + 1 \in DOMAIN Append(r, e.price)
            /\ Append(r, e.price)[Len(r) + 1] = e.price
        BY <3>1
      <3>4. Range(r) \cup {e.price} \subseteq Range(Append(r, e.price))
        BY <3>2, <3>3 DEF Range
      <3> QED
        BY <3>4 DEF r
    <2>3. Range(mem.lots) \ {e.price} \subseteq Range(Without(mem.lots, e.price))
      BY <1>1, WithoutKeeps
    <2> QED
      BY <2>1, <2>2, <2>3 DEF Held
  <1>3. CASE e.side # "BUY"
    <2>1. mem'.lots = sold /\ mem'.triggered = mem.triggered \ {lot}
      BY <1>1, <1>3 DEF Book, Books
    <2>2. Range(mem.lots) \ {lot} \subseteq Range(sold)
      BY <1>1, WithoutKeeps
    <2> QED
      BY <2>1, <2>2 DEF Held
  <1> QED
    BY <1>2, <1>3

LEMMA HeldSync ==
  ASSUME Restarts = {}, Inv, HeldInv, Sync
  PROVE  HeldInv'
  <1>1. Workers = {"tick"}
    BY DEF Workers
  <1>2. ~At("stops") /\ saved' = saved
    BY <1>1 DEF Sync, SyncAsk, SyncDrop, SyncSells, SyncAdopt, SyncVerify, At
  <1>3. pc'["tick"] # "stops"
    <2>1. pc' = pc \/ After("tick", "price") \/ \E p \in {"buys", "sells"} : Goto(p)
      BY <1>1 DEF Sync, SyncAsk, SyncDrop, SyncSells, SyncAdopt, SyncVerify, Goto
    <2>2. After("tick", "price") => pc'["tick"] = "price"
      BY <1>1, AfterType DEF Inv, Shape, Phases
    <2>3. \A p \in {"buys", "sells"} : Goto(p) => pc'["tick"] = p
      BY GotoType DEF Inv, Shape, Phases
    <2> QED
      BY <1>2, <2>1, <2>2, <2>3 DEF At
  <1>4. Held(mem')
    <2>1. CASE \E e \in missing["tick"] : SyncVerify("tick", e)
      <3>1. PICK e : mem' = mem \/ \E assumed : Book(e, assumed)
        BY <2>1 DEF SyncVerify
      <3> QED
        BY <3>1, HeldBook DEF HeldInv
    <2>2. CASE SyncDrop("tick")
      BY <2>2, HeldFields DEF SyncDrop, HeldInv, Held
    <2>3. CASE SyncAdopt("tick")
      BY <2>3, HeldFields DEF SyncAdopt, HeldInv, Held
    <2>4. CASE SyncAsk("tick") \/ SyncSells("tick")
      BY <2>4 DEF SyncAsk, SyncSells, HeldInv
    <2> QED
      BY <1>1, <2>1, <2>2, <2>3, <2>4 DEF Sync
  <1> QED
    BY <1>2, <1>3, <1>4 DEF HeldInv, At

LEMMA HeldOnward ==
  ASSUME Inv, HeldInv,
         \/ PriceFails \/ FetchPrice \/ CancelStaleDone \/ BearDone \/ StopsDone
         \/ GridDone \/ ReconcileDone \/ Save
         \/ \E t \in Trends : Trend(t)
         \/ \E r \in Regimes : Regime(r)
  PROVE  HeldInv'
  <1>1. saved' \in {saved, mem}
    BY DEF PriceFails, FetchPrice, CancelStaleDone, BearDone, StopsDone, GridDone,
           ReconcileDone, Save, Trend, Regime, TickKeeps
  <1>2. (\E phase \in Phases \ {"stops"} : Goto(phase)) \/ work' = Range(mem.lots)
    BY DEF PriceFails, FetchPrice, CancelStaleDone, BearDone, StopsDone, GridDone,
           ReconcileDone, Save, Trend, Regime, Phases
  <1>3. pc'["tick"] # "stops" \/ work' = Range(mem.lots)
    BY <1>2, GotoType DEF Inv, Shape
  <1>4. mem'.lots = mem.lots /\ mem'.triggered = mem.triggered
    <2>1. \A p, h : /\ [mem EXCEPT !.halted = h, !.lastPrice = p].lots = mem.lots
                    /\ [mem EXCEPT !.halted = h, !.lastPrice = p].triggered = mem.triggered
                    /\ [mem EXCEPT !.lastPrice = p].lots = mem.lots
                    /\ [mem EXCEPT !.lastPrice = p].triggered = mem.triggered
                    /\ [mem EXCEPT !.halted = h].lots = mem.lots
                    /\ [mem EXCEPT !.halted = h].triggered = mem.triggered
      BY DEF Inv, Fine, Books
    <2>2. \/ mem' = mem
          \/ mem' = [mem EXCEPT !.halted = TRUE]
          \/ mem' = [mem EXCEPT !.lastPrice = market]
          \/ mem' = [mem EXCEPT !.halted = TRUE, !.lastPrice = market]
      BY DEF PriceFails, FetchPrice, CancelStaleDone, BearDone, StopsDone, GridDone,
             ReconcileDone, Save, Trend, Regime
    <2> QED
      BY <2>1, <2>2
  <1> QED
    BY <1>1, <1>3, <1>4, HeldAfter

LEMMA HeldNewOrder ==
  ASSUME Inv, NEW side, NEW price, NEW tracked, NewOrder(side, price, tracked)
  PROVE  mem'.lots = mem.lots /\ mem'.triggered = mem.triggered
  BY HeldFields DEF NewOrder

LEMMA HeldRefused ==
  ASSUME Inv, NEW side, NEW price, NotAccepted(side, price)
  PROVE  mem'.lots = mem.lots /\ mem'.triggered = mem.triggered
  <1>1. mem' = mem \/ NewOrder(side, price, FALSE)
    BY DEF NotAccepted
  <1> QED
    BY <1>1, HeldNewOrder

LEMMA HeldStops ==
  ASSUME Inv, HeldInv, At("stops"), NEW lot \in work,
         \/ StopPass(lot) \/ StopChase(lot) \/ StopNotNeeded(lot)
         \/ StopPlaced(lot) \/ StopRefused(lot)
  PROVE  HeldInv'
  <1>1. saved' = saved /\ work' \subseteq work
    BY DEF StopPass, StopChase, StopNotNeeded, StopPlaced, StopRefused, StopKeeps
  <1>2. CASE StopPass(lot) \/ StopNotNeeded(lot)
    <2>1. \A stops : /\ [mem EXCEPT !.stops = stops].lots = mem.lots
                     /\ [mem EXCEPT !.stops = stops].triggered = mem.triggered
      BY DEF Inv, Fine, Books
    <2>2. mem'.lots = mem.lots /\ mem'.triggered = mem.triggered
      BY <1>2, <2>1 DEF StopPass, StopNotNeeded
    <2> QED
      BY <1>1, <2>2, HeldAfter
  <1>3. CASE StopChase(lot)
    <2>1. PICK s, old :
            mem' = [Untrack(mem, old) EXCEPT !.stops = @ \ {s}, !.triggered = @ \ {lot}]
      BY <1>3 DEF StopChase
    <2>2. Untrack(mem, old) \in Books
      BY HeldFields, UntrackType
    <2>3. /\ mem'.lots = Untrack(mem, old).lots
          /\ mem'.triggered = Untrack(mem, old).triggered \ {lot}
      BY <2>1, <2>2 DEF Books
    <2> QED
      BY <1>1, <2>3, HeldFields, HeldAfter
  <1>4. CASE StopRefused(lot)
    BY <1>1, <1>4, HeldRefused, HeldAfter DEF StopRefused
  <1>5. CASE StopPlaced(lot)
    <2>1. PICK es, stops : mem' = [mem EXCEPT !.active = es, !.triggered = @ \cup {lot},
                                              !.stops = stops]
      BY <1>5 DEF StopPlaced
    <2>2. mem'.lots = mem.lots /\ mem'.triggered = mem.triggered \cup {lot}
      BY <2>1, HeldFields DEF Books
    <2> QED
      BY <1>1, <2>2, HeldAfter
  <1> QED
    BY <1>2, <1>3, <1>4, <1>5

LEMMA HeldGrid ==
  ASSUME Inv, HeldInv, GridSkip \/ GridPlaced \/ GridRefused
  PROVE  HeldInv'
  <1>1. saved' = saved /\ pc' = pc /\ ~At("stops")
    BY DEF GridSkip, GridPlaced, GridRefused, GridKeeps, At
  <1>2. mem'.lots = mem.lots /\ mem'.triggered = mem.triggered
    BY HeldNewOrder, HeldRefused DEF GridSkip, GridPlaced, GridRefused, Accepted
  <1> QED
    BY <1>1, <1>2, HeldAfter DEF At

LEMMA HeldStep ==
  ASSUME Restarts = {}, Inv, HeldInv, [Next]_vars
  PROVE  HeldInv'
  <1>1. CASE UNCHANGED vars
    BY <1>1 DEF vars, tickVars, HeldInv, Held, At
  <1>2. CASE Exchange \/ Kill \/ Enable \/ RiskDay \/ \E w \in Restarts : ForceRestart(w)
    BY <1>2, HeldOutside
  <1>3. CASE Crash
    BY <1>3, HeldCrash
  <1>4. CASE Begin \/ RebalanceDone \/ BeginDay
    BY <1>4, HeldBegin
  <1>5. CASE \/ At("cancelAll") /\ \E e \in work : RebalanceCancel(e)
             \/ At("reconcile") /\ \E e \in work : ReconcileHalted(e)
             \/ \E e \in mem.active : CancelStale(e)
             \/ At("bear") /\ \E e \in work : BearCancel(e)
    BY <1>5, HeldWork
  <1>6. CASE Sync
    BY <1>6, HeldSync
  <1>7. CASE \/ PriceFails \/ FetchPrice \/ CancelStaleDone \/ BearDone \/ StopsDone
             \/ GridDone \/ ReconcileDone \/ Save
             \/ \E t \in Trends : Trend(t)
             \/ \E r \in Regimes : Regime(r)
    BY <1>7, HeldOnward
  <1>8. CASE At("stops") /\ \E l \in work : \/ StopPass(l) \/ StopChase(l)
                                            \/ StopNotNeeded(l)
                                            \/ StopPlaced(l) \/ StopRefused(l)
    BY <1>8, HeldStops
  <1>9. CASE GridSkip \/ GridPlaced \/ GridRefused
    BY <1>9, HeldGrid
  <1> QED
    BY <1>1, <1>2, <1>3, <1>4, <1>5, <1>6, <1>7, <1>8, <1>9 DEF Next

\* _match_buy_for_sell and _check_stop_loss: as long as no forced restart
\* synchronises beside the tick, no mark and no record of a stop order outlives
\* its lot, in memory or in the snapshot, whichever chase, canceled stop, refused
\* save or reload comes between.
THEOREM StopsBelongToLotsHolds == ASSUME Restarts = {} PROVE Spec => []StopsBelongToLots
  <1>1. Init => HeldInv
    BY DEF Init, Fresh, HeldInv, Held, At, Workers
  <1>2. Inv /\ Inv' /\ HeldInv /\ [Next]_vars => HeldInv'
    BY HeldStep
  <1>3. Inv /\ HeldInv => StopsBelongToLots
    BY DEF Inv, Fine, StopsHeld, HeldInv, Held, StopsBelongToLots
  <1> QED
    BY <1>1, <1>2, <1>3, InvHolds, PTL DEF Spec
=============================================================================
