-------------------------- MODULE GridOrders_proofs --------------------------
(***************************************************************************)
(* Proofs about GridOrders, for every grid, every number of runs and       *)
(* orders and every delay.                                                 *)
(***************************************************************************)
EXTENDS GridOrders, TLAPS

(***************************************************************************)
(* Facts about the constants and the helpers.                              *)
(***************************************************************************)

\* The position cap is a natural number, whether given or derived
\* (newGridBook).
LEMMA MaxPositionType == MaxPosition \in Nat
  <1>1. Quantity * Levels \in Nat
    BY GridParams, SMT
  <1> QED
    BY <1>1, GridParams DEF MaxPosition

\* gridLevel clamps every price to a level of the grid.
LEMMA GridLevelType == \A price \in Prices : GridLevel(price) \in LevelIds
  <1> SUFFICES ASSUME NEW price \in Prices
               PROVE  GridLevel(price) \in LevelIds
    OBVIOUS
  <1> DEFINE band == ((price - Lower) * Levels) \div (Upper - Lower)
  <1>1. price \in Int /\ Lower \in Int /\ Levels \in Nat \ {0}
    BY GridParams
  <1>2. (price - Lower) * Levels \in Int
    BY <1>1, SMT
  <1>3. Upper - Lower \in Nat \ {0}
    BY GridParams, SMT
  <1>4. band \in Int
    BY <1>2, <1>3, SMT
  <1> HIDE DEF band
  <1>5. (IF band < 0 THEN 0 ELSE IF band >= Levels THEN Levels - 1 ELSE band)
            \in 0 .. Levels - 1
    BY <1>1, <1>4, SMT
  <1> QED
    BY <1>5 DEF GridLevel, LevelIds, band

\* gridAction answers one of the two sides or asks to wait.
LEMMA CheckedSide ==
  ASSUME NEW side, NEW p, NEW h, NEW l, NEW price, Check(side, p, h, l, price)
  PROVE  side \in Sides
  BY DEF Check, Sides

\* Ages stay below their cap, and the cap covers the three durations.
LEMMA AgeCapType ==
  AgeCap \in Nat /\ MaxAge <= AgeCap /\ Grace <= AgeCap /\ MaxFlight <= AgeCap
  BY Bounds, SMT DEF AgeCap

\* What the exchange may answer about an order has the type of an answer.
LEMMA ReportsType ==
  ASSUME TypeOK, NEW o \in OrderIds, NEW rep \in PlaceReports(o)
  PROVE  /\ rep \in Replies
         /\ rep.waited = 0
  <1>1. orders[o].executed \in 0 .. Quantity
    BY DEF TypeOK
  <1>2. 0 \in 0 .. Quantity /\ 0 \in 0 .. MaxCall
    BY GridParams, Bounds
  <1> QED
    BY <1>1, <1>2 DEF PlaceReports, Reports, Reply, Replies

-----------------------------------------------------------------------------
(***************************************************************************)
(* Types and Shape.  They hold whatever the delays are.                    *)
(***************************************************************************)
TypeShape == TypeOK /\ Shape

USE DEF Runs, NoRun

LEMMA InitTypeShape == Init => TypeShape
  <1> SUFFICES ASSUME Init PROVE TypeShape
    OBVIOUS
  <1>1. 0 \in 0 .. Quantity /\ 0 \in 0 .. MaxOrders /\ 0 \in 0 .. MaxRuns
    BY GridParams, Bounds
  <1>2. TypeOK
    BY <1>1 DEF Init, TypeOK, PCs, OrderStates, Sides
  <1>3. Shape
    BY Bounds DEF Init, Shape, Handling, Answering
  <1> QED
    BY <1>2, <1>3 DEF TypeShape

\* Start, Stop and a crash touch no order.
LEMMA ControlTypeShape ==
  TypeShape /\ (Start \/ Stop \/ Crash) => TypeShape'
  <1> SUFFICES ASSUME TypeShape, Start \/ Stop \/ Crash PROVE TypeShape'
    OBVIOUS
  <1> USE Bounds DEF TypeShape, TypeOK, Shape, PCs, Handling, Answering,
                     LastOrder, controlVars, bookVars, marketVars
  <1>1. CASE Start
    <2>1. started + 1 \in 1 .. MaxRuns
      BY <1>1 DEF Start
    <2>2. TypeOK'
      BY <1>1, <2>1 DEF Start
    <2>3. Shape'
      BY <1>1, <2>1 DEF Start
    <2> QED
      BY <2>2, <2>3
  <1>2. CASE Stop
    BY <1>2 DEF Stop
  <1>3. CASE Crash
    BY <1>3 DEF Crash
  <1> QED
    BY <1>1, <1>2, <1>3

\* An order is only ever NoOrder or a record of a real pending order.
LEMMA PendingIsNoOrder ==
  ASSUME NEW x \in PendingOrders PROVE x # NoOrder
  BY DEF PendingOrders, NoOrder, Sides

LEMMA ReplyIsNoReply ==
  ASSUME NEW x \in Replies PROVE x # NoReply
  BY DEF Replies, NoReply

\* Deciding, submitting and hearing the outcome keep the types: the level is
\* clamped to the grid and a sequence number stays in its bound.
LEMMA PlaceTypeShape ==
  ASSUME TypeShape, NEW r \in Runs,
         \/ LoopExit(r) \/ \E price \in Prices : Decide(r, price)
         \/ Submit(r) \/ PlaceAnswered(r) \/ PlaceRejected(r)
         \/ PlaceUnknown(r)
  PROVE  TypeShape'
  <1> USE Bounds DEF TypeShape, TypeOK, Shape, PCs, Handling, Answering,
                     LastOrder, controlVars, bookVars, marketVars
  <1>1. CASE LoopExit(r)
    BY <1>1 DEF LoopExit
  <1>2. ASSUME NEW price \in Prices, Decide(r, price)
        PROVE  TypeShape'
    <2> DEFINE new == NewOrder(r, GridAction(price), GridLevel(price))
    <2>1. GridLevel(price) \in LevelIds
      BY GridLevelType
    <2>2. GridAction(price) \in Sides
      BY <1>2, CheckedSide DEF Decide
    <2>3. seq[r] + 1 \in 1 .. MaxOrders
      BY <1>2 DEF Decide
    <2>4. new \in PendingOrders
      BY <2>1, <2>2, <2>3, AgeCapType
         DEF NewOrder, NeverCancelled, PendingOrders, OrderIds
    <2>5. new.id = <<r, seq[r] + 1>>
      BY DEF NewOrder
    <2> HIDE DEF new
    <2>6. /\ order' = [order EXCEPT ![r] = new]
          /\ seq' = [seq EXCEPT ![r] = @ + 1]
          /\ pc' = [pc EXCEPT ![r] = "decided"]
          /\ pc[r] = "idle"
          /\ UNCHANGED <<running, started, reply, provider, position, held,
                         fills, trades, orders, inventory>>
      BY <1>2 DEF Decide, new
    <2>7. TypeOK'
      BY <2>3, <2>4, <2>6
    <2>8. Shape'
      BY <2>3, <2>4, <2>5, <2>6, PendingIsNoOrder
    <2> QED
      BY <2>7, <2>8
  <1>3. CASE Submit(r)
    <2>1. order[r] \in PendingOrders
      BY <1>3 DEF Submit
    <2>2. [state |-> Sent(r), side |-> order[r].side, executed |-> 0,
           venue |-> provider]
             \in [state : OrderStates, side : Sides,
                  executed : 0 .. Quantity, venue : Exchanges]
      BY <2>1, GridParams DEF PendingOrders, OrderStates, Sent
    <2>3. TypeOK'
      BY <1>3, <2>2 DEF Submit
    <2>4. Shape'
      BY <1>3 DEF Submit
    <2> QED
      BY <2>3, <2>4
  <1>4. CASE PlaceAnswered(r)
    <2>1. order[r] \in PendingOrders /\ order[r].id \in OrderIds
      BY <1>4 DEF PlaceAnswered, PendingOrders
    <2>2. PICK rep \in PlaceReports(order[r].id) :
              reply' = [reply EXCEPT ![r] = rep]
      BY <1>4 DEF PlaceAnswered
    <2>3. rep \in Replies /\ rep # NoReply
      BY <2>1, <2>2, ReportsType, ReplyIsNoReply
    <2>4. TypeOK'
      BY <1>4, <2>2, <2>3 DEF PlaceAnswered
    <2>5. Shape'
      BY <1>4, <2>2, <2>3 DEF PlaceAnswered
    <2> QED
      BY <2>4, <2>5
  <1>5. CASE PlaceRejected(r)
    BY <1>5 DEF PlaceRejected
  <1>6. CASE PlaceUnknown(r)
    <2>1. order[r] \in PendingOrders
      BY <1>6 DEF PlaceUnknown
    <2>2. /\ [order[r] EXCEPT !.unknown = TRUE] \in PendingOrders
          /\ [order[r] EXCEPT !.unknown = TRUE].id = order[r].id
      BY <2>1 DEF PendingOrders
    <2>3. order' = [order EXCEPT ![r] = [order[r] EXCEPT !.unknown = TRUE]]
      BY <1>6 DEF PlaceUnknown
    <2>4. TypeOK'
      BY <1>6, <2>2, <2>3 DEF PlaceUnknown
    <2>5. Shape'
      BY <1>6, <2>1, <2>2, <2>3, PendingIsNoOrder DEF PlaceUnknown
    <2> QED
      BY <2>4, <2>5
  <1> QED
    BY <1>1, <1>2, <1>3, <1>4, <1>5, <1>6

\* Looking an order up, applying the answer and cancelling keep the types: a
\* position never goes negative and only levels of the grid are held.
LEMMA RecordFillType ==
  ASSUME TypeShape, NEW r \in Runs, order[r] # NoOrder,
         NEW qty \in Nat, RecordFill(r, qty)
  PROVE  /\ position' \in [Runs -> Nat]
         /\ held' \in [Runs -> SUBSET LevelIds]
         /\ trades' \in Nat
         /\ fills' \in [OrderIds -> Nat]
  <1>1. order[r] \in PendingOrders
    BY DEF TypeShape, TypeOK
  <1>2. order[r].level \in LevelIds /\ order[r].id \in OrderIds
    BY <1>1 DEF PendingOrders
  <1>3. RecordPosition(order[r].side, position[r], qty) \in Nat
    BY DEF TypeShape, TypeOK, RecordPosition
  <1>4. RecordHeld(order[r].side, held[r], order[r].level, qty)
            \subseteq LevelIds
    BY <1>2 DEF TypeShape, TypeOK, RecordHeld
  <1> QED
    BY <1>2, <1>3, <1>4 DEF RecordFill, TypeShape, TypeOK

LEMMA LookupTypeShape ==
  ASSUME TypeShape, NEW r \in Runs,
         \/ Lookup(r) \/ ApplyFilled(r) \/ ApplyDone(r) \/ ApplyNotFound(r)
         \/ ApplyOpen(r) \/ CancelAccepted(r) \/ CancelFailed(r)
  PROVE  TypeShape'
  <1> USE Bounds DEF TypeShape, TypeOK, Shape, PCs, Handling, Answering,
                     LastOrder, controlVars, bookVars, marketVars
  <1>1. CASE Lookup(r)
    <2>1. order[r] \in PendingOrders /\ order[r].id \in OrderIds
      BY <1>1 DEF Lookup, PendingOrders
    <2>2. PICK rep \in VisibleReports(order[r].id) :
              reply' = [reply EXCEPT ![r] = rep]
      BY <1>1 DEF Lookup
    <2>3. Reply("notFound", 0) \in Replies
      BY GridParams DEF Reply, Replies
    <2>4. rep \in Replies /\ rep # NoReply
      BY <2>1, <2>2, <2>3, ReportsType, ReplyIsNoReply
         DEF VisibleReports, PlaceReports
    <2>5. TypeOK'
      BY <1>1, <2>2, <2>4 DEF Lookup
    <2>6. Shape'
      BY <1>1, <2>2, <2>4 DEF Lookup
    <2> QED
      BY <2>5, <2>6
  <1>2. ASSUME pc[r] \in Answering
        PROVE  /\ order[r] \in PendingOrders
               /\ reply[r] \in Replies
               /\ reply[r].executed \in 0 .. Quantity
    BY <1>2 DEF Replies
  <1>3. CASE ApplyFilled(r)
    <2>1. FilledQuantity(reply[r]) \in Nat
      BY <1>2, <1>3, GridParams DEF ApplyFilled, FilledQuantity
    <2>2. /\ position' \in [Runs -> Nat]
          /\ held' \in [Runs -> SUBSET LevelIds]
          /\ trades' \in Nat
          /\ fills' \in [OrderIds -> Nat]
      BY <1>2, <1>3, <2>1, RecordFillType, PendingIsNoOrder DEF ApplyFilled
    <2>3. TypeOK'
      BY <1>3, <2>2 DEF ApplyFilled, Settle
    <2>4. Shape'
      BY <1>3 DEF ApplyFilled, Settle
    <2> QED
      BY <2>3, <2>4
  <1>4. CASE ApplyDone(r)
    <2>1. /\ position' \in [Runs -> Nat]
          /\ held' \in [Runs -> SUBSET LevelIds]
          /\ trades' \in Nat
          /\ fills' \in [OrderIds -> Nat]
      <3>1. CASE reply[r].executed > 0
        <4>1. pc[r] \in Answering /\ RecordFill(r, reply[r].executed)
          BY <1>4, <3>1 DEF ApplyDone
        <4>2. order[r] # NoOrder /\ reply[r].executed \in Nat
          BY <1>2, <4>1, PendingIsNoOrder, GridParams
        <4> QED
          BY <4>1, <4>2, RecordFillType
      <3>2. CASE ~(reply[r].executed > 0)
        BY <1>4, <3>2 DEF ApplyDone
      <3> QED
        BY <3>1, <3>2
    <2>2. TypeOK'
      BY <1>4, <2>1 DEF ApplyDone, Settle
    <2>3. Shape'
      BY <1>4 DEF ApplyDone, Settle
    <2> QED
      BY <2>2, <2>3
  <1>5. CASE ApplyNotFound(r)
    BY <1>5 DEF ApplyNotFound, Settle
  <1>6. CASE ApplyOpen(r)
    <2> DEFINE stale == pc[r] = "looked" /\ CancelDue(order[r])
               new == [order[r] EXCEPT
                         !.unknown = FALSE,
                         !.sinceCancel = IF stale THEN 0 ELSE @]
    <2>1. new \in PendingOrders /\ new.id = order[r].id
      <3>1. order[r] \in PendingOrders
        BY <1>2, <1>6 DEF ApplyOpen
      <3>2. (IF stale THEN 0 ELSE order[r].sinceCancel) \in 0 .. CancelRetry
        BY <3>1 DEF PendingOrders
      <3> HIDE DEF stale
      <3> QED
        BY <3>1, <3>2 DEF PendingOrders
    <2>2. order' = [order EXCEPT ![r] = new]
      BY <1>6 DEF ApplyOpen
    <2>3. /\ reply' = [reply EXCEPT ![r] = NoReply]
          /\ pc[r] \in Answering
          /\ pc' = [pc EXCEPT ![r] = IF stale THEN "cancelling" ELSE "idle"]
          /\ UNCHANGED <<running, started, seq, provider, position, held,
                         fills, trades, orders, inventory>>
      BY <1>6 DEF ApplyOpen
    <2> HIDE DEF stale, new
    <2>4. TypeOK'
      BY <2>1, <2>2, <2>3
    <2>5. Shape'
      BY <1>2, <2>1, <2>2, <2>3, PendingIsNoOrder
    <2> QED
      BY <2>4, <2>5
  <1>7. CASE CancelAccepted(r)
    <2>1. order[r].id \in OrderIds
      BY <1>7 DEF CancelAccepted, CancelReturns, PendingOrders
    <2> QED
      BY <1>7, <2>1 DEF CancelAccepted, CancelReturns, OrderStates
  <1>8. CASE CancelFailed(r)
    BY <1>8 DEF CancelFailed, CancelReturns
  <1> QED
    BY <1>1, <1>3, <1>4, <1>5, <1>6, <1>7, <1>8

\* The exchange and the clock.
LEMMA MarketTypeShape ==
  ASSUME TypeShape, \/ \E o \in OrderIds : ExchangeStep(o)
                    \/ Tick
  PROVE  TypeShape'
  <1> USE Bounds DEF TypeShape, TypeOK, Shape, Handling, Answering,
                     LastOrder, controlVars, bookVars, marketVars
  <1>1. ASSUME NEW o \in OrderIds, Arrive(o) \/ Expire(o)
        PROVE  TypeShape'
    BY <1>1 DEF Arrive, Expire, OrderStates
  <1>2. ASSUME NEW o \in OrderIds, NEW qty \in 1 .. Quantity, Execute(o, qty)
        PROVE  TypeShape'
    <2>1. orders[o].executed + qty \in 0 .. Quantity
      <3>1. orders[o].executed \in 0 .. Quantity
        OBVIOUS
      <3>2. orders[o].executed + qty <= Quantity
        BY <1>2 DEF Execute
      <3> QED
        BY <3>1, <3>2, GridParams
    <2>2. o[1] \in Runs
      BY DEF OrderIds
    <2>3. orders' \in [OrderIds -> [state : OrderStates, side : Sides,
                                    executed : 0 .. Quantity,
                                    venue : Exchanges]]
      BY <1>2, <2>1 DEF Execute, OrderStates
    <2>4. inventory' \in [Runs -> Int]
      <3>1. qty \in Int /\ inventory[o[1]] \in Int
        BY <2>2, GridParams
      <3>2. /\ inventory[o[1]] + qty \in Int
            /\ inventory[o[1]] - qty \in Int
        BY <3>1
      <3>3. inventory' = [inventory EXCEPT
                            ![o[1]] = IF orders[o].side = "BUY"
                                      THEN inventory[o[1]] + qty
                                      ELSE inventory[o[1]] - qty]
        BY <1>2 DEF Execute
      <3> QED
        BY <2>2, <3>2, <3>3
    <2> QED
      BY <1>2, <2>3, <2>4 DEF Execute
  <1>3. CASE Tick
    <2>1. \A r \in Runs :
             /\ order[r] = NoOrder => Older(order[r]) = NoOrder
             /\ order[r] # NoOrder =>
                   /\ Older(order[r]) \in PendingOrders
                   /\ Older(order[r]).id = order[r].id
      <3> SUFFICES ASSUME NEW r \in Runs, order[r] # NoOrder
                   PROVE  /\ Older(order[r]) \in PendingOrders
                          /\ Older(order[r]).id = order[r].id
        BY DEF Older
      <3> DEFINE age == IF order[r].age < AgeCap THEN order[r].age + 1
                        ELSE order[r].age
                 since == IF order[r].sinceCancel < CancelRetry
                          THEN order[r].sinceCancel + 1
                          ELSE order[r].sinceCancel
      <3>1. order[r] \in PendingOrders
        OBVIOUS
      <3>2. age \in 0 .. AgeCap
        BY <3>1, AgeCapType DEF PendingOrders
      <3>3. since \in 0 .. CancelRetry
        BY <3>1 DEF PendingOrders
      <3>4. Older(order[r]) = [order[r] EXCEPT !.age = age,
                                               !.sinceCancel = since]
        BY DEF Older
      <3> QED
        BY <3>1, <3>2, <3>3, <3>4 DEF PendingOrders
    <2>2. \A r \in Runs :
             reply[r] # NoReply =>
                 [reply[r] EXCEPT !.waited = @ + 1] \in Replies
      <3> SUFFICES ASSUME NEW r \in Runs, reply[r] # NoReply
                   PROVE  [reply[r] EXCEPT !.waited = @ + 1] \in Replies
        OBVIOUS
      <3>1. reply[r] \in Replies
        OBVIOUS
      <3>2. reply[r].waited + 1 \in 0 .. MaxCall
        <4>1. reply[r].waited \in 0 .. MaxCall
          BY <3>1 DEF Replies
        <4>2. ~(reply[r].waited >= MaxCall)
          BY <1>3 DEF Tick, AnswerOverdue
        <4> QED
          BY <4>1, <4>2
      <3> QED
        BY <3>1, <3>2 DEF Replies
    <2>3. TypeOK'
      BY <1>3, <2>1, <2>2 DEF Tick
    <2>4. Shape'
      BY <1>3, <2>1, <2>2, PendingIsNoOrder, ReplyIsNoReply DEF Tick
    <2> QED
      BY <2>3, <2>4
  <1> QED
    BY <1>1, <1>2, <1>3 DEF ExchangeStep

LEMMA NextTypeShape == TypeShape /\ [Next]_vars => TypeShape'
  <1> SUFFICES ASSUME TypeShape, [Next]_vars PROVE TypeShape'
    OBVIOUS
  <1>1. CASE Start \/ Stop \/ Crash
    BY <1>1, ControlTypeShape
  <1>2. ASSUME NEW r \in Runs, RunStep(r) PROVE TypeShape'
    BY <1>2, PlaceTypeShape, LookupTypeShape DEF RunStep
  <1>3. CASE (\E o \in OrderIds : ExchangeStep(o)) \/ Tick
    BY <1>3, MarketTypeShape
  <1>4. CASE UNCHANGED vars
    BY <1>4 DEF vars, TypeShape, TypeOK, Shape, LastOrder
  <1> QED
    BY <1>1, <1>2, <1>3, <1>4 DEF Next

\* Every variable keeps its type, for every grid and every delay.
THEOREM TypeCorrect == Spec => []TypeOK
  <1>1. TypeShape => TypeOK
    BY DEF TypeShape
  <1> QED
    BY <1>1, InitTypeShape, NextTypeShape, PTL DEF Spec

-----------------------------------------------------------------------------
(***************************************************************************)
(* Truth: what a run believes is what happened on the exchange, provided   *)
(* the grace period outlasts the delays.                                   *)
(***************************************************************************)
Inv == TypeShape /\ Truth

LEMMA InitTruth == Init => Truth
  <1> SUFFICES ASSUME Init PROVE Truth
    OBVIOUS
  <1>1. \A o \in OrderIds : OrderTruth(o)
    BY GridParams DEF Init, OrderTruth, ExecutedByState
  <1>2. ASSUME NEW r \in Runs PROVE RunTruth(r)
    <2>1. OldOrders(r)
      BY DEF Init, OldOrders, OrderIds, Live
    <2>2. position[r] <= MaxPosition
      BY MaxPositionType DEF Init
    <2>3. order[r] = NoOrder /\ reply[r] = NoReply /\ inventory[r] = position[r]
      BY DEF Init
    <2> QED
      BY <2>1, <2>2, <2>3 DEF RunTruth, PendingOrder
  <1> QED
    BY <1>1, <1>2 DEF Truth

\* A step that leaves a run and its orders alone leaves its truth alone.
LEMMA RunFrame ==
  ASSUME NEW s \in Runs, RunTruth(s),
         /\ pc'[s] = pc[s]             /\ position'[s] = position[s]
         /\ seq'[s] = seq[s]           /\ order'[s] = order[s]
         /\ reply'[s] = reply[s]       /\ inventory'[s] = inventory[s],
         \A n \in 1 .. MaxOrders : /\ orders'[<<s, n>>] = orders[<<s, n>>]
                                   /\ fills'[<<s, n>>] = fills[<<s, n>>],
         TypeShape
  PROVE  RunTruth(s)'
  <1>1. order[s] # NoOrder =>
            /\ seq[s] \in 1 .. MaxOrders
            /\ orders'[LastOrder(s)] = orders[LastOrder(s)]
            /\ fills'[LastOrder(s)] = fills[LastOrder(s)]
            /\ LastOrder(s)' = LastOrder(s)
    BY DEF TypeShape, Shape, LastOrder
  <1>2. reply[s] # NoReply => order[s] # NoOrder
    BY DEF TypeShape, Shape, Handling, Answering
  <1>3. OldOrders(s)'
    BY DEF RunTruth, OldOrders
  <1>4. PendingOrder(s)'
    BY <1>1 DEF RunTruth, PendingOrder
  <1>5. reply[s] # NoReply => AnswerTrue(s)'
    BY <1>1, <1>2 DEF RunTruth, AnswerTrue, LeftNoTrace
  <1> QED
    BY <1>3, <1>4, <1>5 DEF RunTruth

\* Start, Stop and a crash: a crash loses the answers on their way, nothing
\* else changes what a run knows or what the exchange did.
LEMMA ControlTruth ==
  ASSUME Inv, Start \/ Stop \/ Crash
  PROVE  Truth'
  <1>1. UNCHANGED <<position, held, seq, order, provider, orders, inventory,
                    fills>>
    BY DEF Start, Stop, Crash, bookVars, marketVars
  <1>2. \A o \in OrderIds : OrderTruth(o)'
    BY <1>1 DEF Inv, Truth, OrderTruth, ExecutedByState
  <1>3. ASSUME NEW s \in Runs PROVE RunTruth(s)'
    <2>1. RunTruth(s)
      BY DEF Inv, Truth
    <2>2. LastOrder(s)' = LastOrder(s)
      BY <1>1 DEF LastOrder
    <2>3. OldOrders(s)'
      BY <1>1, <2>1 DEF RunTruth, OldOrders
    <2>4. CASE Start
      <3>1. CASE s = started + 1
        <4>1. pc[s] = "off" /\ reply[s] = NoReply
          BY <3>1 DEF Inv, TypeShape, TypeOK, Shape, Answering
        <4>2. pc'[s] = "idle" /\ reply'[s] = NoReply
          BY <2>4, <3>1, <4>1 DEF Start, Inv, TypeShape, TypeOK
        <4>3. PendingOrder(s)'
          BY <1>1, <2>1, <2>2, <4>1, <4>2 DEF RunTruth, PendingOrder
        <4> QED
          BY <1>1, <2>1, <2>3, <4>2, <4>3 DEF RunTruth
      <3>2. CASE s # started + 1
        <4>1. pc'[s] = pc[s] /\ reply'[s] = reply[s]
          BY <2>4, <3>2 DEF Start, Inv, TypeShape, TypeOK
        <4> QED
          BY <1>1, <2>1, <4>1, RunFrame DEF Inv
      <3> QED
        BY <3>1, <3>2
    <2>5. CASE Stop
      BY <1>1, <2>1, <2>5, RunFrame DEF Stop, Inv
    <2>6. CASE Crash
      <3>1. reply'[s] = NoReply
        BY <2>6 DEF Crash
      <3>2. pc'[s] # "ended" => pc'[s] = pc[s]
        BY <2>6 DEF Crash
      <3>3. pc'[s] # "decided"
        BY <2>6 DEF Crash
      <3>4. PendingOrder(s)'
        BY <1>1, <2>1, <2>2, <3>2, <3>3 DEF RunTruth, PendingOrder
      <3> QED
        BY <1>1, <2>1, <2>3, <3>1, <3>4 DEF RunTruth
    <2> QED
      BY <2>4, <2>5, <2>6
  <1> QED
    BY <1>2, <1>3 DEF Truth

\* An answer is true when the exchange gives it: what PlaceReports may say of
\* an order in each of its states.
LEMMA ReportsTruth ==
  ASSUME TypeOK, NEW o \in OrderIds, OrderTruth(o), NEW rep \in PlaceReports(o)
  PROVE  /\ rep.waited = 0
         /\ rep.state = "filled" => /\ orders[o].state = "filled"
                                    /\ rep.executed \in {0, Quantity}
         /\ rep.state = "done" => /\ orders[o].state = "canceled"
                                  /\ rep.executed = orders[o].executed
         /\ rep.state = "notFound" =>
                orders[o].state \in {"absent", "flight", "refused", "lost"}
  <1>1. orders[o].state \in OrderStates
    BY DEF TypeOK
  <1>2. orders[o].state = "filled" => orders[o].executed = Quantity
    BY DEF OrderTruth, ExecutedByState
  <1> QED
    BY <1>1, <1>2 DEF PlaceReports, Reports, Reply, OrderStates

\* What a step of run r leaves of the other runs.
LEMMA OthersFrame ==
  ASSUME Inv, NEW r \in Runs, NEW s \in Runs, s # r,
         /\ pc'[s] = pc[s]             /\ position'[s] = position[s]
         /\ seq'[s] = seq[s]           /\ order'[s] = order[s]
         /\ reply'[s] = reply[s]       /\ inventory'[s] = inventory[s],
         \A o \in OrderIds : o # LastOrder(r) => /\ orders'[o] = orders[o]
                                                 /\ fills'[o] = fills[o]
  PROVE  RunTruth(s)'
  <1>1. \A n \in 1 .. MaxOrders : <<s, n>> \in OrderIds /\ <<s, n>> # LastOrder(r)
    BY DEF OrderIds, LastOrder
  <1> QED
    BY <1>1, RunFrame DEF Inv, Truth

\* Deciding picks the next order: everything before it is settled, the book
\* allows it and the exchange has not heard of it.
LEMMA DecideTruth ==
  ASSUME Inv, NEW r \in Runs, NEW price \in Prices, Decide(r, price)
  PROVE  Truth'
  <1> DEFINE side == GridAction(price)
             new  == NewOrder(r, side, GridLevel(price))
             n    == seq[r] + 1
  <1>1. /\ order[r] = NoOrder /\ pc[r] = "idle"
        /\ Check(side, position[r], held[r], GridLevel(price), price)
        /\ seq[r] < MaxOrders
        /\ order' = [order EXCEPT ![r] = new]
        /\ seq' = [seq EXCEPT ![r] = n]
        /\ pc' = [pc EXCEPT ![r] = "decided"]
        /\ UNCHANGED <<reply, provider, position, held, fills, orders,
                       inventory>>
    BY DEF Decide, bookVars, marketVars
  <1>2. n \in 1 .. MaxOrders /\ n > seq[r] /\ <<r, n>> \in OrderIds
    <2>1. seq[r] \in 0 .. MaxOrders
      BY DEF Inv, TypeShape, TypeOK
    <2> QED
      BY <1>1, <2>1, Bounds DEF OrderIds
  <1>3. RunTruth(r) /\ OrderTruth(<<r, n>>)
    BY <1>2 DEF Inv, Truth
  <1>4. \A o \in OrderIds : OrderTruth(o)'
    BY <1>1 DEF Inv, Truth, OrderTruth, ExecutedByState
  <1>5. /\ order'[r] = new /\ LastOrder(r)' = <<r, n>> /\ pc'[r] = "decided"
        /\ seq'[r] = n
    BY <1>1 DEF LastOrder, Inv, TypeShape, TypeOK
  <1>6. orders[<<r, n>>].state = "absent" /\ fills[<<r, n>>] = 0
    BY <1>2, <1>3 DEF RunTruth, OldOrders
  <1>7. orders[<<r, n>>].executed = 0
    BY <1>3, <1>6 DEF OrderTruth, ExecutedByState
  <1>8. OldOrders(r)'
    <2> SUFFICES ASSUME NEW m \in 1 .. MaxOrders
                 PROVE  /\ m > n => /\ orders[<<r, m>>].state = "absent"
                                    /\ fills[<<r, m>>] = 0
                        /\ m < n => /\ orders[<<r, m>>].state \notin Live
                                    /\ fills[<<r, m>>] = orders[<<r, m>>].executed
                        /\ order'[r] # NoOrder
      BY <1>1, <1>5 DEF OldOrders
    <2>1. order'[r] # NoOrder
      BY <1>1, <1>5, CheckedSide DEF NewOrder, NoOrder, Sides
    <2>2. seq[r] \in Nat /\ m \in Nat
      BY DEF Inv, TypeShape, TypeOK
    <2> QED
      BY <1>1, <1>3, <2>1, <2>2 DEF RunTruth, OldOrders
  <1>9. PendingOrder(r)'
    <2>1. new.side = side /\ new.age = 0
      BY DEF NewOrder
    <2>2. inventory[r] = position[r] /\ position[r] \in Nat
      BY <1>1, <1>3 DEF RunTruth, Inv, TypeShape, TypeOK
    <2>3. position[r] + Signed(side, 0) = position[r]
      BY <2>2 DEF Signed
    <2>4. /\ side = "BUY" => position[r] + Quantity <= MaxPosition
          /\ side = "SELL" => position[r] >= Quantity
      BY <1>1 DEF Check, CheckBuy, CheckSell
    <2> HIDE DEF new, side, n
    <2> QED
      BY <1>1, <1>5, <1>6, <1>7, <2>1, <2>2, <2>3, <2>4, Bounds
         DEF PendingOrder
  <1>10. reply'[r] = NoReply
    BY <1>1 DEF Inv, TypeShape, Shape, Answering
  <1>11. RunTruth(r)'
    <2>1. order'[r] # NoOrder
      BY <1>1, <1>5, CheckedSide DEF NewOrder, NoOrder, Sides
    <2> QED
      BY <1>1, <1>3, <1>8, <1>9, <1>10, <2>1 DEF RunTruth
  <1>12. ASSUME NEW s \in Runs, s # r PROVE RunTruth(s)'
    BY <1>1, <1>12, OthersFrame DEF Inv, TypeShape, TypeOK
  <1> QED
    BY <1>4, <1>11, <1>12 DEF Truth

-----------------------------------------------------------------------------
(***************************************************************************)
(* Steps of a run that has an order pending.                               *)
(***************************************************************************)

\* The types of everything a step of such a run reads.
LEMMA PendingTypes ==
  ASSUME TypeShape, NEW r \in Runs, order[r] # NoOrder
  PROVE  /\ LastOrder(r) \in OrderIds /\ order[r].id = LastOrder(r)
         /\ order[r].side \in Sides /\ order[r].age \in Nat
         /\ orders[LastOrder(r)].state \in OrderStates
         /\ orders[LastOrder(r)].executed \in 0 .. Quantity
         /\ position[r] \in Nat /\ inventory[r] \in Int
         /\ reply[r] # NoReply => reply[r] \in Replies
         /\ order[r] \in PendingOrders
  <1>1. order[r] \in PendingOrders
    BY DEF TypeShape, TypeOK
  <1>2. order[r].side \in Sides /\ order[r].age \in Nat
    BY <1>1, AgeCapType DEF PendingOrders
  <1>3. LastOrder(r) \in OrderIds /\ order[r].id = LastOrder(r)
    BY DEF TypeShape, Shape, LastOrder, OrderIds
  <1> QED
    BY <1>1, <1>2, <1>3 DEF TypeShape, TypeOK

\* Whatever becomes of the order a run is working on, its older orders stay
\* settled.
LEMMA OwnOldOrders ==
  ASSUME Inv, NEW r \in Runs, order[r] # NoOrder, seq' = seq,
         \A o \in OrderIds : o # LastOrder(r) => /\ orders'[o] = orders[o]
                                                 /\ fills'[o] = fills[o],
         \/ order'[r] # NoOrder
         \/ /\ orders'[LastOrder(r)].state \notin Live
            /\ fills'[LastOrder(r)] = orders'[LastOrder(r)].executed
  PROVE  OldOrders(r)'
  <1>1. OldOrders(r)
    BY DEF Inv, Truth, RunTruth
  <1>2. \A n \in 1 .. MaxOrders :
           n # seq[r] => /\ <<r, n>> \in OrderIds
                         /\ <<r, n>> # LastOrder(r)
    BY DEF OrderIds, LastOrder
  <1>3. seq[r] \in Nat
    BY DEF Inv, TypeShape, TypeOK
  <1> QED
    BY <1>1, <1>2, <1>3 DEF OldOrders, LastOrder

\* A step that only moves the run on, or looks at the exchange, keeps Truth
\* when the answer it brings is true.
LEMMA KeepPending ==
  ASSUME Inv, NEW r \in Runs, order[r] # NoOrder,
         UNCHANGED <<seq, provider, position, fills, orders, inventory>>,
         pc[r] \notin {"decided", "ended"}, pc'[r] \notin {"decided", "ended"},
         \A s \in Runs : s # r => /\ pc'[s] = pc[s] /\ order'[s] = order[s]
                                  /\ reply'[s] = reply[s],
         order'[r] # NoOrder, order'[r].side = order[r].side,
         order'[r].age = order[r].age,
         reply'[r] # NoReply => AnswerTrue(r)'
  PROVE  Truth'
  <1>1. \A o \in OrderIds : OrderTruth(o)'
    BY DEF Inv, Truth, OrderTruth, ExecutedByState
  <1>2. ASSUME NEW s \in Runs, s # r PROVE RunTruth(s)'
    BY <1>2, OthersFrame
  <1>3. RunTruth(r)
    BY DEF Inv, Truth
  <1>4. OldOrders(r)'
    BY OwnOldOrders
  <1>5. LastOrder(r)' = LastOrder(r)
    BY DEF LastOrder
  <1>6. PendingOrder(r)'
    BY <1>3, <1>5 DEF RunTruth, PendingOrder
  <1>7. RunTruth(r)'
    BY <1>3, <1>4, <1>6 DEF RunTruth
  <1> QED
    BY <1>1, <1>2, <1>7 DEF Truth

\* Letting go of an order keeps Truth when the order is final and the book
\* agrees with the account.
LEMMA SettleTruth ==
  ASSUME Inv, NEW r \in Runs, order[r] # NoOrder,
         UNCHANGED <<seq, provider, orders, inventory>>,
         \A s \in Runs : s # r => /\ pc'[s] = pc[s] /\ order'[s] = order[s]
                                  /\ reply'[s] = reply[s]
                                  /\ position'[s] = position[s],
         \A o \in OrderIds : o # LastOrder(r) => fills'[o] = fills[o],
         order'[r] = NoOrder, reply'[r] = NoReply,
         orders[LastOrder(r)].state \notin Live,
         fills'[LastOrder(r)] = orders[LastOrder(r)].executed,
         position'[r] = inventory[r], inventory[r] <= MaxPosition
  PROVE  Truth'
  <1>1. \A o \in OrderIds : OrderTruth(o)'
    BY DEF Inv, Truth, OrderTruth, ExecutedByState
  <1>2. ASSUME NEW s \in Runs, s # r PROVE RunTruth(s)'
    BY <1>2, OthersFrame
  <1>3. OldOrders(r)'
    BY OwnOldOrders
  <1>4. PendingOrder(r)'
    BY DEF PendingOrder
  <1>5. RunTruth(r)'
    BY <1>3, <1>4 DEF RunTruth
  <1> QED
    BY <1>1, <1>2, <1>5 DEF Truth

\* Hearing the outcome of a submission, looking an order up, finding it open
\* and a refused cancel: the run learns what the exchange has, or nothing.
LEMMA LearnTruth ==
  ASSUME Inv, NEW r \in Runs,
         \/ PlaceAnswered(r) \/ PlaceUnknown(r) \/ Lookup(r) \/ ApplyOpen(r)
         \/ CancelFailed(r)
  PROVE  Truth'
  <1> DEFINE o == LastOrder(r)
  <1>1. TypeShape /\ TypeOK /\ Shape /\ RunTruth(r)
    BY DEF Inv, TypeShape, Truth
  <1>2. order[r] # NoOrder
    BY <1>1 DEF PlaceAnswered, PlaceUnknown, Lookup, ApplyOpen, CancelFailed,
                CancelReturns, Shape, Handling
  <1>3. /\ o \in OrderIds /\ order[r].id = o /\ order[r] \in PendingOrders
        /\ order[r].age \in Nat
    BY <1>1, <1>2, PendingTypes
  <1>4. OrderTruth(o)
    BY <1>3 DEF Inv, Truth
  <1>5. LastOrder(r)' = o /\ UNCHANGED <<seq, provider, position, fills, orders,
                                         inventory>>
    BY DEF PlaceAnswered, PlaceUnknown, Lookup, ApplyOpen, CancelFailed,
           CancelReturns, LastOrder, bookVars, marketVars
  <1>6. pc[r] \in PCs /\ reply \in [Runs -> Replies \cup {NoReply}]
    BY <1>1 DEF TypeOK
  <1> HIDE DEF o
  <1>7. CASE PlaceAnswered(r) \/ Lookup(r)
    <2>1. PICK rep \in VisibleReports(o) \cup PlaceReports(o) :
              /\ reply' = [reply EXCEPT ![r] = rep]
              /\ PlaceAnswered(r) => rep \in PlaceReports(o)
      <3>1. CASE PlaceAnswered(r)
        BY <1>3, <3>1 DEF PlaceAnswered
      <3>2. CASE Lookup(r)
        <4>1. ~PlaceAnswered(r)
          BY <3>2 DEF Lookup, PlaceAnswered
        <4> QED
          BY <1>3, <3>2, <4>1 DEF Lookup
      <3> QED
        BY <1>7, <3>1, <3>2
    <2>2. \/ rep \in PlaceReports(o)
          \/ LeftNoTrace(o) /\ rep = Reply("notFound", 0)
      BY <1>4, <2>1 DEF VisibleReports, PlaceReports, OrderTruth
    <2>3. CASE rep.state = "notFound"
      <3>1. /\ rep.waited = 0
            /\ \/ orders[o].state \in {"absent", "flight", "refused", "lost"}
               \/ LeftNoTrace(o)
        BY <1>1, <1>3, <1>4, <2>2, <2>3, ReportsTruth DEF Reply
      <3>2. Lookup(r) /\ pc[r] = "idle"
        <4>1. ASSUME PlaceAnswered(r) PROVE FALSE
          <5>1. orders[o].state \in {"open", "filled", "canceled"}
            BY <1>3, <4>1 DEF PlaceAnswered
          <5> QED
            BY <1>1, <1>3, <1>4, <2>1, <2>3, <4>1, <5>1
               DEF PlaceReports, Reports, Reply
        <4> QED
          BY <1>7, <4>1 DEF Lookup
      <3>3. orders[o].state \in {"absent", "flight"} => order[r].age <= MaxFlight
        BY <1>1, <1>2, <3>2 DEF RunTruth, PendingOrder, o
      <3>4. order[r].age <= MaxFlight =>
                order[r].age <= MaxFlight + rep.waited
        BY <1>3, <3>1, Bounds
      <3>5. order'[r] = order[r] /\ reply'[r] = rep
        BY <1>6, <2>1, <3>2 DEF Lookup
      <3> QED
        BY <1>1, <1>2, <1>5, <2>1, <2>3, <3>1, <3>2, <3>3, <3>4, <3>5,
           KeepPending DEF AnswerTrue, Lookup, TypeOK, LeftNoTrace
    <2>4. CASE rep.state # "notFound"
      <3>1. reply'[r] = rep
        BY <1>6, <2>1
      <3>2. AnswerTrue(r)'
        BY <1>1, <1>3, <1>4, <1>5, <2>2, <2>4, <3>1, ReportsTruth
           DEF AnswerTrue, Reply
      <3> QED
        BY <1>1, <1>2, <1>5, <1>7, <2>1, <3>2, KeepPending
           DEF PlaceAnswered, Lookup, TypeOK
    <2> QED
      BY <2>3, <2>4
  <1>8. CASE PlaceUnknown(r) \/ CancelFailed(r)
    <2>1. reply'[r] = NoReply
      BY <1>1, <1>8
         DEF PlaceUnknown, CancelFailed, CancelReturns, Shape, Answering
    <2>2. /\ order'[r] # NoOrder /\ order'[r].side = order[r].side
          /\ order'[r].age = order[r].age
          /\ \A s \in Runs : s # r => order'[s] = order[s]
      <3>1. CASE PlaceUnknown(r)
        <4>1. order' = [order EXCEPT ![r] = [order[r] EXCEPT !.unknown = TRUE]]
          BY <3>1 DEF PlaceUnknown
        <4>2. [order[r] EXCEPT !.unknown = TRUE] \in PendingOrders
          BY <1>3 DEF PendingOrders
        <4> QED
          BY <1>1, <1>3, <4>1, <4>2, PendingIsNoOrder DEF TypeOK, PendingOrders
      <3>2. CASE CancelFailed(r)
        BY <1>2, <3>2 DEF CancelFailed, CancelReturns
      <3> QED
        BY <1>8, <3>1, <3>2
    <2> QED
      BY <1>1, <1>2, <1>5, <1>8, <2>1, <2>2, KeepPending
         DEF PlaceUnknown, CancelFailed, CancelReturns, TypeOK
  <1>9. CASE ApplyOpen(r)
    <2> DEFINE new == order'[r]
               since == IF pc[r] = "looked" /\ CancelDue(order[r]) THEN 0
                        ELSE order[r].sinceCancel
    <2>0. since \in 0 .. CancelRetry
      BY <1>3, Bounds DEF PendingOrders
    <2>1. /\ new = [order[r] EXCEPT !.unknown = FALSE, !.sinceCancel = since]
          /\ \A s \in Runs : s # r => order'[s] = order[s]
      BY <1>1, <1>9 DEF ApplyOpen, TypeOK
    <2> HIDE DEF since
    <2>2. new \in PendingOrders /\ new.side = order[r].side
          /\ new.age = order[r].age
      <3> HIDE DEF new
      <3> QED
        BY <1>3, <2>0, <2>1 DEF PendingOrders
    <2> HIDE DEF new
    <2>3. new # NoOrder
      BY <2>2, PendingIsNoOrder
    <2>4. reply'[r] = NoReply
      BY <1>1, <1>9 DEF ApplyOpen, TypeOK
    <2> QED
      BY <1>1, <1>2, <1>5, <1>9, <2>1, <2>2, <2>3, <2>4, KeepPending
         DEF ApplyOpen, TypeOK, new
  <1> QED
    BY <1>7, <1>8, <1>9

\* Recording exactly what was executed brings the position back to the
\* account's inventory, inside the cap: a BUY left room for its quantity and a
\* SELL had it (check, record).
LEMMA RecordedPosition ==
  ASSUME Inv, NEW r \in Runs, order[r] # NoOrder
  PROVE  /\ RecordPosition(order[r].side, position[r],
                           orders[LastOrder(r)].executed) = inventory[r]
         /\ inventory[r] <= MaxPosition
         /\ fills[LastOrder(r)] = 0
         /\ orders[LastOrder(r)].executed = 0 => inventory[r] = position[r]
  <1> DEFINE x == orders[LastOrder(r)].executed
             p == position[r]
             side == order[r].side
  <1>1. TypeShape /\ PendingOrder(r) /\ position[r] <= MaxPosition
    BY DEF Inv, Truth, RunTruth
  <1>2. x \in 0 .. Quantity /\ p \in Nat /\ side \in Sides
    BY <1>1, PendingTypes
  <1>3. /\ inventory[r] = p + Signed(side, x)
        /\ side = "BUY" => p + Quantity <= MaxPosition
        /\ side = "SELL" => p >= Quantity
        /\ fills[LastOrder(r)] = 0
    BY <1>1 DEF PendingOrder
  <1>4. x \in Nat /\ x <= Quantity /\ Quantity \in Nat
    BY <1>2, GridParams
  <1> HIDE DEF x, p, side
  <1>5. MaxPosition \in Nat
    BY MaxPositionType
  <1>6. CASE side = "BUY"
    <2>1. inventory[r] = p + x
      BY <1>3, <1>6 DEF Signed
    <2>2. p + x <= MaxPosition
      BY <1>2, <1>3, <1>4, <1>5, <1>6
    <2>3. x = 0 => p + x = p
      BY <1>2
    <2> QED
      BY <1>3, <1>6, <2>1, <2>2, <2>3 DEF RecordPosition, x, p, side
  <1>7. CASE side = "SELL"
    <2>1. inventory[r] = p + (0 - x)
      BY <1>3, <1>7 DEF Signed
    <2>2. /\ p + (0 - x) = IF p > x THEN p - x ELSE 0
          /\ p + (0 - x) <= p
          /\ x = 0 => p + (0 - x) = p
      BY <1>2, <1>3, <1>4, <1>7
    <2>3. p <= MaxPosition
      BY <1>1 DEF p
    <2>4. p + (0 - x) <= MaxPosition
      BY <1>2, <1>4, <1>5, <2>2, <2>3
    <2>5. RecordPosition(side, p, x) = p + (0 - x)
      BY <1>7, <2>2 DEF RecordPosition
    <2> QED
      BY <1>3, <2>1, <2>2, <2>4, <2>5 DEF x, p, side
  <1> QED
    BY <1>2, <1>6, <1>7 DEF Sides

\* A rejected submission, a reported fill, a reported end and an order given
\* up as never placed: what the run lets go of is final, and nothing it
\* executed is forgotten.  Giving up is the step that needs the grace period.
LEMMA LetGoTruth ==
  ASSUME GraceCoversDelays, Inv, NEW r \in Runs,
         \/ PlaceRejected(r) \/ ApplyFilled(r) \/ ApplyDone(r)
         \/ ApplyNotFound(r)
  PROVE  Truth'
  <1> DEFINE o == LastOrder(r)
  <1>1. TypeShape /\ TypeOK /\ Shape /\ RunTruth(r)
    BY DEF Inv, TypeShape, Truth
  <1>2. order[r] # NoOrder /\ pc[r] \notin {"decided", "ended"}
    BY <1>1 DEF PlaceRejected, ApplyFilled, ApplyDone, ApplyNotFound, Shape,
                Handling
  <1>3. /\ o \in OrderIds /\ order[r].id = o /\ order[r].age \in Nat
        /\ orders[o].executed \in 0 .. Quantity
        /\ reply[r] # NoReply => reply[r] \in Replies
    BY <1>1, <1>2, PendingTypes
  <1>4. OrderTruth(o)
    BY <1>3 DEF Inv, Truth
  <1>5. UNCHANGED <<seq, provider, orders, inventory>>
    BY DEF PlaceRejected, ApplyFilled, ApplyDone, ApplyNotFound, marketVars,
           bookVars
  <1>6. /\ RecordPosition(order[r].side, position[r], orders[o].executed)
               = inventory[r]
        /\ inventory[r] <= MaxPosition /\ fills[o] = 0
        /\ orders[o].executed = 0 => inventory[r] = position[r]
    BY <1>2, RecordedPosition
  <1>7. \A s \in Runs : s # r => /\ pc'[s] = pc[s] /\ order'[s] = order[s]
                                 /\ reply'[s] = reply[s]
                                 /\ position'[s] = position[s]
    BY <1>1 DEF PlaceRejected, ApplyFilled, ApplyDone, ApplyNotFound, Settle,
                RecordFill, bookVars, TypeOK
  <1>8. pc[r] \in Answering => reply[r] # NoReply /\ AnswerTrue(r)
    BY <1>1 DEF Shape, RunTruth
  <1> HIDE DEF o
  <1>9. CASE PlaceRejected(r)
    <2>1. orders[o].state = "refused"
      BY <1>3, <1>9 DEF PlaceRejected
    <2>2. orders[o].executed = 0
      BY <1>4, <2>1 DEF OrderTruth, ExecutedByState
    <2>3. order'[r] = NoOrder /\ reply'[r] = NoReply
      BY <1>1, <1>9 DEF PlaceRejected, TypeOK, Shape, Answering
    <2>4. UNCHANGED <<position, fills>>
      BY <1>9 DEF PlaceRejected, bookVars
    <2> QED
      BY <1>2, <1>5, <1>6, <1>7, <2>1, <2>2, <2>3, <2>4, SettleTruth
         DEF o, Live
  <1>10. ASSUME RecordFill(r, orders[o].executed), Settle(r),
                orders[o].state \notin Live
         PROVE  Truth'
    <2>1. position'[r] = inventory[r]
      BY <1>1, <1>6, <1>10 DEF RecordFill, TypeOK
    <2>2. fills'[o] = 0 + orders[o].executed
      BY <1>1, <1>3, <1>6, <1>10 DEF RecordFill, TypeOK
    <2>3. 0 + orders[o].executed = orders[o].executed
      BY <1>3
    <2>4. \A q \in OrderIds : q # o => fills'[q] = fills[q]
      BY <1>1, <1>3, <1>10 DEF RecordFill, TypeOK
    <2>5. order'[r] = NoOrder /\ reply'[r] = NoReply
      BY <1>1, <1>10 DEF Settle, TypeOK
    <2> QED
      BY <1>2, <1>5, <1>6, <1>7, <1>10, <2>1, <2>2, <2>3, <2>4, <2>5,
         SettleTruth DEF o
  <1>11. CASE ApplyFilled(r)
    <2>1. orders[o].state = "filled" /\ reply[r].executed \in {0, Quantity}
      BY <1>8, <1>11 DEF ApplyFilled, Answering, AnswerTrue, o
    <2>2. orders[o].executed = Quantity
      BY <1>4, <2>1 DEF OrderTruth, ExecutedByState
    <2>3. FilledQuantity(reply[r]) = orders[o].executed
      BY <2>1, <2>2, GridParams DEF FilledQuantity
    <2> QED
      BY <1>10, <1>11, <2>1, <2>3 DEF ApplyFilled, Live
  <1>12. CASE ApplyDone(r)
    <2>1. /\ orders[o].state = "canceled"
          /\ reply[r].executed = orders[o].executed
      BY <1>8, <1>12 DEF ApplyDone, Answering, AnswerTrue, o
    <2>2. CASE orders[o].executed > 0
      BY <1>10, <1>12, <2>1, <2>2 DEF ApplyDone, Live
    <2>3. CASE ~(orders[o].executed > 0)
      <3>1. orders[o].executed = 0
        BY <1>3, <2>3, GridParams
      <3>2. UNCHANGED <<position, fills>>
        BY <1>12, <2>1, <2>3 DEF ApplyDone, bookVars
      <3>3. order'[r] = NoOrder /\ reply'[r] = NoReply
        BY <1>1, <1>12 DEF ApplyDone, Settle, TypeOK
      <3> QED
        BY <1>2, <1>5, <1>6, <1>7, <2>1, <3>1, <3>2, <3>3, SettleTruth
           DEF o, Live
    <2> QED
      BY <2>2, <2>3
  <1>13. CASE ApplyNotFound(r)
    <2>1. reply[r] \in Replies /\ reply[r].state = "notFound"
      BY <1>3, <1>8, <1>13 DEF ApplyNotFound, Answering
    <2>2. UNCHANGED <<position, fills>>
      BY <1>13 DEF ApplyNotFound, bookVars
    <2>3. CASE GraceOver(order[r])
      <3>1. reply[r].waited \in 0 .. MaxCall
        BY <2>1 DEF Replies
      <3>2. ~(order[r].age <= MaxFlight + reply[r].waited)
        BY <1>3, <2>3, <3>1, Bounds DEF GraceOver, GraceCoversDelays
      <3>3. orders[o].state \in {"refused", "lost"} \/ LeftNoTrace(o)
        BY <1>8, <1>13, <2>1, <3>2
           DEF ApplyNotFound, Answering, AnswerTrue, o
      <3>4. orders[o].executed = 0
        BY <1>4, <3>3 DEF OrderTruth, ExecutedByState, LeftNoTrace
      <3>5. order'[r] = NoOrder /\ reply'[r] = NoReply
        BY <1>1, <1>13, <2>3 DEF ApplyNotFound, Settle, TypeOK
      <3> QED
        BY <1>2, <1>5, <1>6, <1>7, <2>2, <3>3, <3>4, <3>5, SettleTruth
           DEF o, Live, LeftNoTrace
    <2>4. CASE ~GraceOver(order[r])
      <3>1. reply'[r] = NoReply /\ order' = order /\ pc'[r] = "idle"
        BY <1>1, <1>13, <2>4 DEF ApplyNotFound, TypeOK
      <3> QED
        BY <1>2, <1>5, <1>7, <2>2, <3>1, KeepPending
    <2> QED
      BY <2>3, <2>4
  <1> QED
    BY <1>9, <1>11, <1>12, <1>13

\* Submitting puts the pending order on the exchange, with nothing executed
\* and still young enough to be accepted.
LEMMA SubmitTruth ==
  ASSUME Inv, NEW r \in Runs, Submit(r)
  PROVE  Truth'
  <1> DEFINE o == LastOrder(r)
             sent == [state |-> Sent(r), side |-> order[r].side,
                      executed |-> 0, venue |-> provider]
  <1>0. Sent(r) \in {"flight", "lost"}
    BY DEF Sent
  <1>1. TypeShape /\ TypeOK /\ Shape /\ RunTruth(r) /\ pc[r] = "decided"
    BY DEF Inv, TypeShape, Truth, Submit
  <1>2. order[r] # NoOrder /\ reply[r] = NoReply
    BY <1>1 DEF Shape, Handling, Answering
  <1>3. o \in OrderIds /\ order[r].id = o
    BY <1>1, <1>2, PendingTypes
  <1>4. /\ orders' = [orders EXCEPT ![o] = sent]
        /\ UNCHANGED <<seq, order, reply, provider, position, fills, inventory>>
        /\ pc' = [pc EXCEPT ![r] = "placing"]
    BY <1>3 DEF Submit, bookVars
  <1>5. /\ orders'[o] = sent
        /\ \A q \in OrderIds : q # o => orders'[q] = orders[q]
        /\ LastOrder(r)' = o
    BY <1>1, <1>3, <1>4 DEF TypeOK, LastOrder
  <1>6. PendingOrder(r) /\ OrderTruth(o)
    BY <1>1, <1>3 DEF RunTruth, Inv, Truth
  <1>7. orders[o].state = "absent"
    BY <1>1, <1>2, <1>6 DEF PendingOrder
  <1>8. orders[o].executed = 0
    BY <1>6, <1>7 DEF OrderTruth, ExecutedByState
  <1> HIDE DEF o
  <1>9. \A q \in OrderIds : OrderTruth(q)'
    <2> SUFFICES ASSUME NEW q \in OrderIds PROVE OrderTruth(q)'
      OBVIOUS
    <2>1. OrderTruth(q)
      BY DEF Inv, Truth
    <2> QED
      BY <1>0, <1>4, <1>5, <2>1 DEF OrderTruth, ExecutedByState
  <1>10. PendingOrder(r)'
    <2>1. pc'[r] = "placing"
      BY <1>1, <1>4 DEF TypeOK
    <2> QED
      BY <1>0, <1>1, <1>2, <1>4, <1>5, <1>6, <1>7, <1>8, <2>1
         DEF PendingOrder, o
  <1>11. OldOrders(r)'
    BY <1>2, <1>4, <1>5, OwnOldOrders DEF o
  <1>12. RunTruth(r)'
    BY <1>1, <1>2, <1>4, <1>10, <1>11 DEF RunTruth
  <1>13. ASSUME NEW s \in Runs, s # r PROVE RunTruth(s)'
    BY <1>1, <1>4, <1>5, <1>13, OthersFrame DEF TypeOK, o
  <1> QED
    BY <1>9, <1>12, <1>13 DEF Truth

\* A goroutine that ends changes nothing but its own step.
LEMMA ExitTruth ==
  ASSUME Inv, NEW r \in Runs, LoopExit(r)
  PROVE  Truth'
  <1>1. /\ UNCHANGED <<seq, order, reply, provider, position, fills, orders,
                       inventory>>
        /\ pc' = [pc EXCEPT ![r] = "ended"] /\ pc[r] = "idle"
    BY DEF LoopExit, bookVars, marketVars
  <1>2. \A o \in OrderIds : OrderTruth(o)'
    BY <1>1 DEF Inv, Truth, OrderTruth, ExecutedByState
  <1>3. ASSUME NEW s \in Runs, s # r PROVE RunTruth(s)'
    BY <1>1, <1>3, OthersFrame DEF Inv, TypeShape, TypeOK
  <1>4. RunTruth(r) /\ pc'[r] = "ended" /\ reply[r] = NoReply
    BY <1>1 DEF Inv, Truth, TypeShape, TypeOK, Shape, Answering
  <1>5. OldOrders(r)'
    BY <1>1, <1>4 DEF RunTruth, OldOrders
  <1>6. PendingOrder(r)'
    BY <1>1, <1>4 DEF RunTruth, PendingOrder, LastOrder
  <1>7. RunTruth(r)'
    BY <1>1, <1>4, <1>5, <1>6 DEF RunTruth
  <1> QED
    BY <1>2, <1>3, <1>7 DEF Truth

-----------------------------------------------------------------------------
(***************************************************************************)
(* Steps of the exchange.                                                  *)
(***************************************************************************)

\* Only the order a run is working on is still alive on the exchange.
LEMMA LiveIsLast ==
  ASSUME Inv, NEW o \in OrderIds, orders[o].state \in Live
  PROVE  /\ o[1] \in Runs /\ o = LastOrder(o[1])
         /\ order[o[1]] # NoOrder
  <1>1. PICK r \in Runs, n \in 1 .. MaxOrders : o = <<r, n>>
    BY DEF OrderIds
  <1>2. OldOrders(r) /\ seq[r] \in Nat /\ n \in Nat
    BY DEF Inv, Truth, RunTruth, TypeShape, TypeOK
  <1>3. n = seq[r] /\ order[r] # NoOrder
    BY <1>1, <1>2 DEF OldOrders, Live
  <1> QED
    BY <1>1, <1>3 DEF LastOrder

\* What the exchange may do to a live order: decide its fate, execute a part
\* of it, cancel it.  The inventory moves with the executed quantity, so the
\* run's account stays right whatever its goroutine is doing.
LEMMA ChangedOrder ==
  ASSUME Inv, NEW o \in OrderIds, NEW new,
         orders[o].state \in Live,
         orders' = [orders EXCEPT ![o] = new],
         UNCHANGED <<seq, order, reply, provider, position, fills>>,
         new.side = orders[o].side, new.venue = orders[o].venue,
         new.executed \in 0 .. Quantity,
         \/ orders[o].state = "flight" /\ new.executed = 0
                /\ new.state \in {"open", "refused", "lost"}
         \/ orders[o].state = "open" /\ new.executed < Quantity
                /\ new.state \in {"open", "canceled"}
         \/ orders[o].state = "open" /\ new.executed = Quantity
                /\ new.state = "filled",
         inventory' = [inventory EXCEPT
             ![o[1]] = @ + (Signed(new.side, new.executed)
                              - Signed(new.side, orders[o].executed))],
         \A s \in Runs : pc'[s] = pc[s] \/ /\ pc[s] \notin {"decided", "ended"}
                                           /\ pc'[s] = "idle" /\ s = o[1]
  PROVE  Truth'
  <1> DEFINE r == o[1]
  <1>1. r \in Runs /\ o = LastOrder(r) /\ order[r] # NoOrder
    BY LiveIsLast
  <1>2. TypeShape /\ TypeOK /\ Shape /\ RunTruth(r) /\ OrderTruth(o)
    BY <1>1 DEF Inv, TypeShape, Truth
  <1>3. /\ orders'[o] = new /\ LastOrder(r)' = o
        /\ \A q \in OrderIds : q # o => orders'[q] = orders[q]
    BY <1>1, <1>2 DEF TypeOK, LastOrder
  <1>4. inventory'[r] = inventory[r] + (Signed(new.side, new.executed)
                              - Signed(new.side, orders[o].executed))
    BY <1>1, <1>2 DEF TypeOK
  <1> HIDE DEF r
  <1>5. /\ order[r].side \in Sides /\ position[r] \in Nat /\ inventory[r] \in Int
        /\ orders[o].executed \in 0 .. Quantity
        /\ reply[r] # NoReply => reply[r] \in Replies
    BY <1>1, <1>2, PendingTypes
  <1>6. \A q \in OrderIds : OrderTruth(q)'
    <2> SUFFICES ASSUME NEW q \in OrderIds PROVE OrderTruth(q)'
      OBVIOUS
    <2>1. OrderTruth(q)
      BY DEF Inv, Truth
    <2>2. CASE q # o
      BY <1>3, <2>1, <2>2 DEF OrderTruth, ExecutedByState
    <2>3. CASE q = o
      <3>1. new.venue = provider
        BY <1>2 DEF OrderTruth
      <3>2. ExecutedByState(o)'
        BY <1>3, GridParams DEF ExecutedByState
      <3> QED
        BY <1>3, <2>3, <3>1, <3>2 DEF OrderTruth
    <2> QED
      BY <2>2, <2>3
  <1>7. PendingOrder(r)'
    <2>1. PendingOrder(r)
      BY <1>2 DEF RunTruth
    <2>2. /\ orders[o].side = order[r].side
          /\ inventory[r] = position[r] + Signed(order[r].side, orders[o].executed)
      BY <1>1, <2>1 DEF PendingOrder, Live
    <2>3. inventory'[r] = position[r] + Signed(order[r].side, new.executed)
      <3>1. /\ Signed(order[r].side, orders[o].executed) \in Int
            /\ Signed(order[r].side, new.executed) \in Int
        BY <1>5, GridParams DEF Signed, Sides
      <3> QED
        BY <1>4, <1>5, <2>2, <3>1
    <2>4. new.state # "absent" /\ orders[o].state # "absent"
      BY DEF Live
    <2>5. /\ pc'[r] # "decided" \/ pc'[r] = pc[r]
          /\ pc'[r] # "ended" => pc[r] # "ended"
      BY <1>1
    <2>6. pc[r] # "ended" => pc[r] # "decided"
      BY <1>1, <2>1, <2>4 DEF PendingOrder
    <2>7. new.state = "flight" => orders[o].state = "flight"
      OBVIOUS
    <2>8. pc'[r] # "ended" => pc'[r] # "decided"
      BY <2>5, <2>6
    <2> QED
      BY <1>1, <1>3, <2>1, <2>2, <2>3, <2>4, <2>5, <2>7, <2>8
         DEF PendingOrder
  <1>8. reply[r] # NoReply => AnswerTrue(r)'
    BY <1>1, <1>2, <1>3 DEF RunTruth, AnswerTrue, LeftNoTrace, Live
  <1>9. OldOrders(r)'
    BY <1>1, <1>3, OwnOldOrders
  <1>10. RunTruth(r)'
    BY <1>1, <1>2, <1>7, <1>8, <1>9 DEF RunTruth
  <1>11. ASSUME NEW s \in Runs, s # r PROVE RunTruth(s)'
    <2>1. inventory'[s] = inventory[s] /\ pc'[s] = pc[s]
      BY <1>11, <1>2 DEF TypeOK, r
    <2> QED
      BY <1>1, <1>3, <1>11, <2>1, OthersFrame
  <1> QED
    BY <1>6, <1>10, <1>11 DEF Truth

\* A submission arriving or lost, an execution, an expiry and an accepted
\* cancel are such changes.
LEMMA ExchangeTruth ==
  ASSUME Inv,
         \/ \E o \in OrderIds : ExchangeStep(o)
         \/ \E r \in Runs : CancelAccepted(r)
  PROVE  Truth'
  <1>1. TypeShape /\ TypeOK
    BY DEF Inv, TypeShape
  <1>2. ASSUME NEW o \in OrderIds, NEW fate,
               orders[o].state \in Live,
               \/ orders[o].state = "flight" /\ fate \in {"open", "refused", "lost"}
               \/ orders[o].state = "open" /\ fate = "canceled",
               orders' = [orders EXCEPT ![o].state = fate],
               UNCHANGED <<seq, order, reply, provider, position, fills,
                           inventory>>,
               \A s \in Runs : pc'[s] = pc[s] \/ /\ pc[s] \notin {"decided", "ended"}
                                                 /\ pc'[s] = "idle" /\ s = o[1]
        PROVE  Truth'
    <2> DEFINE new == [orders[o] EXCEPT !.state = fate]
    <2>1. orders[o] \in [state : OrderStates, side : Sides,
                         executed : 0 .. Quantity, venue : Exchanges]
      BY <1>1 DEF TypeOK
    <2>2. /\ new.side = orders[o].side /\ new.venue = orders[o].venue
          /\ new.executed = orders[o].executed /\ new.state = fate
      BY <2>1
    <2>3. orders' = [orders EXCEPT ![o] = new]
      BY <1>2
    <2> HIDE DEF new
    <2>4. ExecutedByState(o) /\ o[1] \in Runs
      BY <1>2, LiveIsLast DEF Inv, Truth, OrderTruth
    <2>5. orders[o].executed \in 0 .. Quantity /\ new.executed \in 0 .. Quantity
      BY <2>1, <2>2
    <2>6. /\ orders[o].state = "flight" => new.executed = 0
          /\ orders[o].state = "open" => new.executed < Quantity
      BY <2>2, <2>4 DEF ExecutedByState
    <2>7. inventory' = [inventory EXCEPT
             ![o[1]] = @ + (Signed(new.side, new.executed)
                              - Signed(new.side, orders[o].executed))]
      <3>1. Signed(new.side, orders[o].executed) \in Int
        BY <2>5, GridParams DEF Signed
      <3>2. inventory[o[1]] \in Int /\ inventory \in [Runs -> Int]
        BY <1>1, <2>4 DEF TypeOK
      <3>3. inventory[o[1]] + (Signed(new.side, orders[o].executed)
                               - Signed(new.side, orders[o].executed))
                = inventory[o[1]]
        BY <3>1, <3>2
      <3> QED
        BY <1>2, <2>2, <3>2, <3>3
    <2> QED
      BY <1>2, <2>2, <2>3, <2>5, <2>6, <2>7, ChangedOrder
  <1>3. ASSUME NEW o \in OrderIds, Arrive(o) \/ Expire(o)
        PROVE  Truth'
    BY <1>2, <1>3 DEF Arrive, Expire, controlVars, bookVars, Live
  <1>4. ASSUME NEW r \in Runs, CancelAccepted(r)
        PROVE  Truth'
    <2> DEFINE o == LastOrder(r)
    <2>1. pc[r] = "cancelling" /\ order[r] # NoOrder
      BY <1>1, <1>4
         DEF CancelAccepted, CancelReturns, TypeShape, Shape, Handling
    <2>2. o \in OrderIds /\ order[r].id = o
      BY <1>1, <2>1, PendingTypes
    <2>3. o[1] = r
      BY DEF LastOrder
    <2>4. \A s \in Runs : pc'[s] = pc[s] \/ /\ pc[s] \notin {"decided", "ended"}
                                            /\ pc'[s] = "idle" /\ s = o[1]
      BY <1>1, <1>4, <2>1, <2>3 DEF CancelAccepted, CancelReturns, TypeOK
    <2> HIDE DEF o
    <2>5. PICK fate : fate = "canceled"
      OBVIOUS
    <2>6. /\ orders[o].state = "open"
          /\ orders' = [orders EXCEPT ![o].state = fate]
          /\ UNCHANGED <<seq, order, reply, provider, position, fills, inventory>>
      BY <1>4, <2>2, <2>5 DEF CancelAccepted, CancelReturns, bookVars
    <2>7. orders[o].state \in Live
      BY <2>6 DEF Live
    <2> QED
      BY <1>2, <2>2, <2>4, <2>5, <2>6, <2>7
  <1>5. ASSUME NEW o \in OrderIds, NEW qty \in 1 .. Quantity, Execute(o, qty)
        PROVE  Truth'
    <2> DEFINE total == orders[o].executed + qty
               new == [orders[o] EXCEPT
                         !.executed = total,
                         !.state = IF total = Quantity THEN "filled" ELSE "open"]
    <2>1. orders[o] \in [state : OrderStates, side : Sides,
                         executed : 0 .. Quantity, venue : Exchanges]
      BY <1>1 DEF TypeOK
    <2>2. /\ orders[o].state = "open" /\ total <= Quantity
          /\ UNCHANGED <<pc, seq, order, reply, provider, position, fills>>
      BY <1>5 DEF Execute, bookVars
    <2>3. orders' = [orders EXCEPT ![o] = new]
      BY <1>5 DEF Execute
    <2>4. orders[o].executed \in Nat /\ qty \in Nat \ {0}
      BY <2>1, GridParams
    <2>5. total \in 0 .. Quantity
      BY <2>2, <2>4, GridParams
    <2>6. o[1] \in Runs
      BY <2>2, LiveIsLast DEF Live
    <2>7. inventory' = [inventory EXCEPT
             ![o[1]] = @ + (Signed(orders[o].side, total)
                              - Signed(orders[o].side, orders[o].executed))]
      <3> DEFINE x == orders[o].executed
                 i == inventory[o[1]]
      <3>1. i \in Int /\ inventory \in [Runs -> Int]
        BY <1>1, <2>6 DEF TypeOK
      <3>2. inventory' = [inventory EXCEPT
                            ![o[1]] = IF orders[o].side = "BUY" THEN i + qty
                                      ELSE i - qty]
        BY <1>5 DEF Execute
      <3> HIDE DEF i
      <3>3. orders[o].side = "BUY" =>
                i + qty = i + (Signed(orders[o].side, total)
                                 - Signed(orders[o].side, x))
        BY <2>4, <3>1 DEF Signed
      <3>4. orders[o].side # "BUY" =>
                i - qty = i + (Signed(orders[o].side, total)
                                 - Signed(orders[o].side, x))
        BY <2>4, <3>1 DEF Signed
      <3> QED
        BY <3>2, <3>3, <3>4 DEF i
    <2> HIDE DEF total
    <2>8. /\ new.side = orders[o].side /\ new.venue = orders[o].venue
          /\ new.executed = total
          /\ new.state = IF total = Quantity THEN "filled" ELSE "open"
      BY <2>1
    <2> HIDE DEF new
    <2>9. \/ new.executed = Quantity /\ new.state = "filled"
          \/ new.executed < Quantity /\ new.state = "open"
      BY <2>5, <2>8, GridParams
    <2>10. inventory' = [inventory EXCEPT
             ![o[1]] = @ + (Signed(new.side, new.executed)
                              - Signed(new.side, orders[o].executed))]
      BY <2>7, <2>8
    <2>11. new.executed \in 0 .. Quantity /\ orders[o].state \in Live
      BY <2>2, <2>5, <2>8 DEF Live
    <2>12. \A s \in Runs : pc'[s] = pc[s]
      BY <2>2
    <2> QED
      BY <2>2, <2>3, <2>8, <2>9, <2>10, <2>11, <2>12, ChangedOrder
  <1> QED
    BY <1>3, <1>4, <1>5 DEF ExchangeStep

\* Time passing: a submission in flight is still young enough, and an answer
\* ages together with the order it is about.
LEMMA TickTruth ==
  ASSUME Inv, Tick
  PROVE  Truth'
  <1>1. UNCHANGED <<pc, seq, provider, position, fills, orders, inventory>>
    BY DEF Tick, bookVars, marketVars
  <1>2. \A o \in OrderIds : OrderTruth(o)'
    BY <1>1 DEF Inv, Truth, OrderTruth, ExecutedByState
  <1>3. ASSUME NEW r \in Runs PROVE RunTruth(r)'
    <2> DEFINE o == LastOrder(r)
    <2>1. TypeShape /\ TypeOK /\ Shape /\ RunTruth(r)
      BY DEF Inv, TypeShape, Truth
    <2>2. /\ order'[r] = IF pc[r] = "ended" THEN order[r] ELSE Older(order[r])
          /\ reply'[r] = IF reply[r] = NoReply THEN NoReply
                         ELSE [reply[r] EXCEPT !.waited = @ + 1]
          /\ ~FlightOverdue(r)
      BY DEF Tick
    <2>3. CASE order[r] = NoOrder
      <3>1. order'[r] = NoOrder
        BY <2>2, <2>3 DEF Older
      <3>2. reply[r] = NoReply /\ reply'[r] = NoReply
        BY <2>1, <2>2, <2>3 DEF Shape, Answering, Handling
      <3> QED
        BY <1>1, <2>1, <2>3, <3>1, <3>2, RunFrame
    <2>4. CASE order[r] # NoOrder
      <3>1. /\ o \in OrderIds /\ order[r].id = o /\ order[r] \in PendingOrders
            /\ order[r].age \in Nat
            /\ reply[r] # NoReply => reply[r] \in Replies
        BY <2>1, <2>4, PendingTypes
      <3>2. /\ order'[r] # NoOrder /\ order'[r].side = order[r].side
            /\ pc[r] # "ended" => /\ order'[r].age \in Nat
                                  /\ order'[r].age <= order[r].age + 1
        <4>1. CASE pc[r] = "ended"
          BY <2>2, <2>4, <4>1
        <4>2. CASE pc[r] # "ended"
          <5> DEFINE age == IF order[r].age < AgeCap THEN order[r].age + 1
                            ELSE order[r].age
                     since == IF order[r].sinceCancel < CancelRetry
                              THEN order[r].sinceCancel + 1
                              ELSE order[r].sinceCancel
          <5>1. order'[r] = [order[r] EXCEPT !.age = age,
                                             !.sinceCancel = since]
            BY <2>2, <2>4, <4>2 DEF Older
          <5>2. age \in Nat /\ age <= order[r].age + 1
            BY <3>1, AgeCapType
          <5> HIDE DEF age, since
          <5>3. order'[r].side = order[r].side /\ order'[r].age = age
            BY <3>1, <5>1 DEF PendingOrders
          <5>4. order'[r] # NoOrder
            BY <3>1, <5>3 DEF PendingOrders, NoOrder, Sides
          <5> QED
            BY <5>2, <5>3, <5>4
        <4> QED
          BY <4>1, <4>2
      <3>3. LastOrder(r)' = o
        BY <1>1 DEF LastOrder
      <3> HIDE DEF o
      <3>4. PendingOrder(r)'
        <4>1. PendingOrder(r)
          BY <2>1 DEF RunTruth
        <4>2. ASSUME pc[r] # "ended", orders[o].state \in {"absent", "flight"}
              PROVE  order'[r].age <= MaxFlight
          <5>1. ~(order[r].age >= MaxFlight)
            BY <2>2, <2>4, <3>1, <4>1, <4>2 DEF FlightOverdue, PendingOrder, o
          <5> QED
            BY <3>1, <3>2, <4>2, <5>1, Bounds
        <4> QED
          BY <1>1, <2>4, <3>2, <3>3, <4>1, <4>2 DEF PendingOrder, o
      <3>5. OldOrders(r)'
        BY <1>1, <2>4, <3>2, OwnOldOrders DEF Inv
      <3>6. ASSUME reply'[r] # NoReply PROVE AnswerTrue(r)'
        <4>1. reply[r] \in Replies /\ reply[r] # NoReply
          BY <2>2, <3>1, <3>6
        <4>2. /\ reply'[r].state = reply[r].state
              /\ reply'[r].executed = reply[r].executed
              /\ reply'[r].waited = reply[r].waited + 1
              /\ reply[r].waited \in Nat
          BY <2>2, <4>1, Bounds DEF Replies
        <4>3. pc[r] # "ended" /\ AnswerTrue(r)
          BY <2>1, <4>1 DEF Shape, Answering, RunTruth
        <4>4. order[r].age <= MaxFlight + reply[r].waited =>
                  order'[r].age <= MaxFlight + reply'[r].waited
          BY <3>1, <3>2, <4>2, <4>3, Bounds
        <4> QED
          BY <1>1, <3>3, <4>2, <4>3, <4>4 DEF AnswerTrue, LeftNoTrace, o
      <3> QED
        BY <1>1, <2>1, <3>2, <3>4, <3>5, <3>6 DEF RunTruth
    <2> QED
      BY <2>3, <2>4
  <1> QED
    BY <1>2, <1>3 DEF Truth

LEMMA NextTruth == GraceCoversDelays /\ Inv /\ [Next]_vars => Inv'
  <1> SUFFICES ASSUME GraceCoversDelays, Inv, [Next]_vars PROVE Inv'
    OBVIOUS
  <1>1. TypeShape'
    BY NextTypeShape DEF Inv
  <1>2. CASE Start \/ Stop \/ Crash
    BY <1>1, <1>2, ControlTruth DEF Inv
  <1>3. ASSUME NEW r \in Runs, RunStep(r) PROVE Truth'
    <2>1. CASE LoopExit(r)
      BY <2>1, ExitTruth
    <2>2. CASE \E price \in Prices : Decide(r, price)
      BY <2>2, DecideTruth
    <2>3. CASE Submit(r)
      BY <2>3, SubmitTruth
    <2>4. CASE \/ PlaceAnswered(r) \/ PlaceUnknown(r) \/ Lookup(r)
               \/ ApplyOpen(r) \/ CancelFailed(r)
      BY <2>4, LearnTruth
    <2>5. CASE \/ PlaceRejected(r) \/ ApplyFilled(r) \/ ApplyDone(r)
               \/ ApplyNotFound(r)
      BY <2>5, LetGoTruth
    <2>6. CASE CancelAccepted(r)
      BY <2>6, ExchangeTruth
    <2> QED
      BY <1>3, <2>1, <2>2, <2>3, <2>4, <2>5, <2>6 DEF RunStep
  <1>4. CASE \E o \in OrderIds : ExchangeStep(o)
    BY <1>1, <1>4, ExchangeTruth DEF Inv
  <1>5. CASE Tick
    BY <1>1, <1>5, TickTruth DEF Inv
  <1>6. CASE UNCHANGED vars
    <2>1. \A o \in OrderIds : OrderTruth(o)'
      BY <1>6 DEF vars, Inv, Truth, OrderTruth, ExecutedByState
    <2>2. \A r \in Runs : RunTruth(r)'
      BY <1>6, RunFrame DEF vars, Inv, Truth
    <2> QED
      BY <1>1, <2>1, <2>2 DEF Inv, Truth
  <1> QED
    BY <1>1, <1>2, <1>3, <1>4, <1>5, <1>6 DEF Next, Inv

\* The inductive invariant holds in every reachable state.
THEOREM TruthHolds ==
  ASSUME GraceCoversDelays
  PROVE  Spec => []Inv
  <1>1. Init => Inv
    BY InitTypeShape, InitTruth DEF Inv
  <1>2. Inv /\ [Next]_vars => Inv'
    BY NextTruth
  <1> QED
    BY <1>1, <1>2, PTL DEF Spec

-----------------------------------------------------------------------------
(***************************************************************************)
(* What follows for the grid.                                              *)
(***************************************************************************)

\* What a run has let go of is one of the settled orders of OldOrders.
LEMMA LetGoIsOld ==
  ASSUME Inv, NEW r \in Runs, NEW o \in Submitted(r), ~Working(r, o)
  PROVE  /\ orders[o].state \notin Live
         /\ fills[o] = orders[o].executed
  <1>1. PICK n \in 1 .. seq[r] : o = <<r, n>>
    BY DEF Submitted
  <1>2. seq[r] \in 0 .. MaxOrders /\ OldOrders(r)
    BY DEF Inv, Truth, RunTruth, TypeShape, TypeOK
  <1>3. n \in 1 .. MaxOrders /\ n <= seq[r]
    BY <1>2, Bounds
  <1>4. n = seq[r] => order[r] = NoOrder
    BY <1>1 DEF Working, Inv, TypeShape, Shape, LastOrder
  <1>5. n < seq[r] \/ (n = seq[r] /\ order[r] = NoOrder)
    BY <1>2, <1>3, <1>4
  <1> QED
    BY <1>1, <1>2, <1>3, <1>5 DEF OldOrders

\* However the clock, the exchange, crashes and restarts interleave, a run
\* never has two orders alive on the exchange (gridStep, applyGridReport),
\* when the grace period outlasts a submission in flight and an answer on its
\* way.
THEOREM OneLiveOrderHolds ==
  ASSUME GraceCoversDelays
  PROVE  Spec => []OneLiveOrder
  <1>1. Inv => OneLiveOrder
    <2> SUFFICES ASSUME Inv, NEW r \in Runs,
                        NEW o \in Submitted(r), NEW p \in Submitted(r),
                        orders[o].state \in Live, orders[p].state \in Live
                 PROVE  o = p
      BY DEF OneLiveOrder
    <2>1. Working(r, o) /\ Working(r, p)
      BY LetGoIsOld
    <2> QED
      BY <2>1 DEF Working
  <1> QED
    BY <1>1, TruthHolds, PTL

\* Every order a run has let go of is final on the exchange and recorded in
\* the book exactly as it was executed (applyGridReport, recordGridFill).
THEOREM SettledExactlyHolds ==
  ASSUME GraceCoversDelays
  PROVE  Spec => []SettledExactly
  <1>1. Inv => SettledExactly
    BY LetGoIsOld DEF SettledExactly
  <1> QED
    BY <1>1, TruthHolds, PTL

\* The account never sells what a run did not buy and never buys past the cap
\* for it, half-executed orders included (gridBook.check).
THEOREM InventoryWithinCapHolds ==
  ASSUME GraceCoversDelays
  PROVE  Spec => []InventoryWithinCap
  <1>1. Inv => InventoryWithinCap
    <2> SUFFICES ASSUME Inv, NEW r \in Runs
                 PROVE  inventory[r] \in 0 .. MaxPosition
      BY DEF InventoryWithinCap
    <2>1. /\ inventory[r] \in Int /\ MaxPosition \in Nat
          /\ position[r] \in Nat /\ position[r] <= MaxPosition
      BY MaxPositionType DEF Inv, Truth, RunTruth, TypeShape, TypeOK
    <2>2. CASE order[r] = NoOrder
      <3>1. inventory[r] = position[r]
        BY <2>2 DEF Inv, Truth, RunTruth
      <3> QED
        BY <2>1, <3>1
    <2>3. CASE order[r] # NoOrder
      <3>1. inventory[r] <= MaxPosition
        BY <2>3, RecordedPosition
      <3>2. RecordPosition(order[r].side, position[r],
                           orders[LastOrder(r)].executed) = inventory[r]
        BY <2>3, RecordedPosition
      <3>3. orders[LastOrder(r)].executed \in Nat
        BY <2>3, PendingTypes, GridParams DEF Inv
      <3>4. inventory[r] >= 0
        BY <2>1, <3>2, <3>3 DEF RecordPosition
      <3> QED
        BY <2>1, <3>1, <3>4
    <2> QED
      BY <2>2, <2>3
  <1> QED
    BY <1>1, TruthHolds, PTL

\* With no order pending, the book's position is what the account holds
\* because of the run (gridBook.record).
THEOREM BookIsInventoryHolds ==
  ASSUME GraceCoversDelays
  PROVE  Spec => []BookIsInventory
  <1>1. Inv => BookIsInventory
    BY DEF Inv, Truth, RunTruth, BookIsInventory
  <1> QED
    BY <1>1, TruthHolds, PTL

-----------------------------------------------------------------------------
(***************************************************************************)
(* The grid implements GridLedger.                                         *)
(***************************************************************************)
LedgerStep == [Ledger!Next]_(Ledger!ledger)

\* A step that leaves every run's last order and the account alone is a
\* stutter of the ledger.
LEMMA LedgerStutter ==
  ASSUME UNCHANGED inventory, \A s \in Runs : WorkingOrder(s)' = WorkingOrder(s)
  PROVE  LedgerStep
  <1>1. [s \in Runs |-> WorkingOrder(s)]' = [s \in Runs |-> WorkingOrder(s)]
    OBVIOUS
  <1> QED
    BY <1>1 DEF LedgerStep, Ledger!ledger

\* The working order of a run changes only with the order it is about.
LEMMA WorkingFrame ==
  ASSUME NEW s \in Runs, seq'[s] = seq[s],
         orders'[LastOrder(s)] = orders[LastOrder(s)]
  PROVE  WorkingOrder(s)' = WorkingOrder(s)
  BY DEF WorkingOrder, LastOrder

\* What a live order shows of itself in the ledger.
LEMMA LiveWorks ==
  ASSUME Inv, NEW o \in OrderIds, orders[o].state \in Live
  PROVE  /\ o[1] \in Runs /\ o = LastOrder(o[1])
         /\ WorkingOrder(o[1]) = [side |-> orders[o].side,
                                  left |-> Quantity - orders[o].executed]
         /\ orders[o].side \in Sides /\ orders[o].executed \in 0 .. Quantity
         /\ WorkingOrder(o[1]) # Ledger!Nothing
  <1>1. o[1] \in Runs /\ o = LastOrder(o[1]) /\ order[o[1]] # NoOrder
    BY LiveIsLast
  <1>2. seq[o[1]] > 0
    BY <1>1 DEF Inv, TypeShape, Shape
  <1>3. orders[o].side \in Sides /\ orders[o].executed \in 0 .. Quantity
    BY DEF Inv, TypeShape, TypeOK
  <1>4. WorkingOrder(o[1]) = [side |-> orders[o].side,
                              left |-> Quantity - orders[o].executed]
    BY <1>1, <1>2 DEF WorkingOrder
  <1> QED
    BY <1>1, <1>3, <1>4 DEF Ledger!Nothing, Sides

\* An order that stops being live without executing is withdrawn.
LEMMA EndedIsWithdrawn ==
  ASSUME Inv, NEW o \in OrderIds, orders[o].state \in Live,
         orders'[o].state \notin Live,
         \A p \in OrderIds : p # o => orders'[p] = orders[p],
         UNCHANGED <<seq, inventory>>
  PROVE  LedgerStep
  <1> DEFINE r == o[1]
             w == [s \in Runs |-> WorkingOrder(s)]
  <1>1. r \in Runs /\ o = LastOrder(r) /\ WorkingOrder(r) # Ledger!Nothing
    BY LiveWorks
  <1>2. WorkingOrder(r)' = Ledger!Nothing
    BY <1>1 DEF WorkingOrder, LastOrder, Ledger!Nothing
  <1>3. \A s \in Runs : s # r => WorkingOrder(s)' = WorkingOrder(s)
    <2> SUFFICES ASSUME NEW s \in Runs, s # r
                 PROVE  WorkingOrder(s)' = WorkingOrder(s)
      OBVIOUS
    <2>1. CASE seq[s] > 0
      <3>1. seq[s] \in 1 .. MaxOrders
        BY <2>1 DEF Inv, TypeShape, TypeOK
      <3>2. LastOrder(s) \in OrderIds /\ LastOrder(s) # o
        BY <3>1, <1>1 DEF LastOrder, OrderIds
      <3> QED
        BY <3>2, WorkingFrame
    <2>2. CASE ~(seq[s] > 0)
      BY <2>2 DEF WorkingOrder
    <2> QED
      BY <2>1, <2>2
  <1>4. w' = [w EXCEPT ![r] = Ledger!Nothing] /\ w[r] # Ledger!Nothing
    BY <1>1, <1>2, <1>3
  <1>5. Ledger!Withdraw(r)
    BY <1>4 DEF Ledger!Withdraw
  <1> QED
    BY <1>1, <1>5 DEF LedgerStep, Ledger!Next

\* Submitting starts a working order that the account can afford to the end.
LEMMA SubmitImplements ==
  ASSUME Inv, NEW r \in Runs, Submit(r)
  PROVE  LedgerStep
  <1> DEFINE o == LastOrder(r)
             w == [s \in Runs |-> WorkingOrder(s)]
             side == order[r].side
             full == [side |-> side, left |-> Quantity]
  <1>1. TypeShape /\ TypeOK /\ Shape /\ pc[r] = "decided" /\ order[r] # NoOrder
    BY DEF Inv, TypeShape, Submit, Shape, Handling
  <1>2. o \in OrderIds /\ order[r].id = o /\ side \in Sides /\ position[r] \in Nat
    BY <1>1, PendingTypes
  <1>3. PendingOrder(r) /\ OrderTruth(o)
    BY <1>2 DEF Inv, Truth, RunTruth
  <1>4. orders[o].state = "absent" /\ orders[o].executed = 0
    BY <1>1, <1>3 DEF PendingOrder, OrderTruth, ExecutedByState
  <1>5. inventory[r] = position[r]
    BY <1>1, <1>2, <1>4, RecordedPosition
  <1>6. Ledger!Affordable(r, side)
    BY <1>1, <1>2, <1>3, <1>5 DEF Ledger!Affordable, PendingOrder, Sides
  <1>7. /\ orders' = [orders EXCEPT ![o] =
                        [state |-> Sent(r), side |-> side,
                         executed |-> 0, venue |-> provider]]
        /\ UNCHANGED <<seq, inventory>>
    BY <1>2 DEF Submit
  <1>8. orders'[o].state = Sent(r) /\ orders'[o].side = side
        /\ orders'[o].executed = 0
    BY <1>1, <1>2, <1>7 DEF TypeOK
  <1>9. WorkingOrder(r) = Ledger!Nothing
    BY <1>4 DEF WorkingOrder, Live, Ledger!Nothing
  <1>10. WorkingOrder(r)' = IF ContextLive(r) THEN full ELSE Ledger!Nothing
    <2>1. seq[r] > 0 /\ seq'[r] = seq[r] /\ LastOrder(r)' = o
      BY <1>1, <1>7 DEF Shape, LastOrder
    <2>2. Quantity - 0 = Quantity
      BY GridParams
    <2> HIDE DEF o, side
    <2> QED
      BY <1>8, <2>1, <2>2 DEF WorkingOrder, Live, Sent, Ledger!Nothing
  <1>11. \A s \in Runs : s # r => WorkingOrder(s)' = WorkingOrder(s)
    <2> SUFFICES ASSUME NEW s \in Runs, s # r
                 PROVE  WorkingOrder(s)' = WorkingOrder(s)
      OBVIOUS
    <2>1. CASE seq[s] > 0
      <3>1. seq[s] \in 1 .. MaxOrders
        BY <1>1, <2>1 DEF TypeOK
      <3>2. LastOrder(s) \in OrderIds /\ LastOrder(s) # o
        BY <3>1 DEF LastOrder, OrderIds
      <3> QED
        BY <1>1, <1>7, <3>2, WorkingFrame DEF TypeOK
    <2>2. CASE ~(seq[s] > 0)
      BY <1>7, <2>2 DEF WorkingOrder
    <2> QED
      BY <2>1, <2>2
  <1> HIDE DEF o, side
  <1>12. w[r] = Ledger!Nothing /\ side \in {"BUY", "SELL"}
    BY <1>2, <1>9 DEF Sides
  <1>13. CASE ContextLive(r)
    <2>1. w' = [w EXCEPT ![r] = full]
      BY <1>10, <1>11, <1>13
    <2>2. Ledger!Submit(r, side)
      BY <1>6, <1>7, <1>12, <2>1 DEF Ledger!Submit
    <2> QED
      BY <1>12, <2>2 DEF LedgerStep, Ledger!Next
  <1>14. CASE ~ContextLive(r)
    <2>1. w' = w
      BY <1>9, <1>10, <1>11, <1>14
    <2> QED
      BY <1>7, <2>1 DEF LedgerStep, Ledger!ledger
  <1> QED
    BY <1>13, <1>14

\* An execution takes its quantity off the working order and moves the
\* account by as much.
LEMMA ExecuteImplements ==
  ASSUME Inv, NEW o \in OrderIds, NEW qty \in 1 .. Quantity, Execute(o, qty)
  PROVE  LedgerStep
  <1> DEFINE r == o[1]
             w == [s \in Runs |-> WorkingOrder(s)]
             x == orders[o].executed
             side == orders[o].side
             after == IF qty = Quantity - x THEN Ledger!Nothing
                      ELSE [side |-> side, left |-> Quantity - x - qty]
  <1>1. TypeOK /\ orders[o].state \in Live
    BY DEF Inv, TypeShape, Execute, Live
  <1>2. /\ r \in Runs /\ o = LastOrder(r)
        /\ WorkingOrder(r) = [side |-> side, left |-> Quantity - x]
        /\ side \in Sides /\ x \in 0 .. Quantity
        /\ WorkingOrder(r) # Ledger!Nothing
    BY <1>1, LiveWorks
  <1>3. /\ x + qty <= Quantity
        /\ orders' = [orders EXCEPT
                        ![o].executed = x + qty,
                        ![o].state = IF x + qty = Quantity THEN "filled"
                                     ELSE "open"]
        /\ inventory' = [inventory EXCEPT
                           ![r] = IF side = "BUY" THEN @ + qty ELSE @ - qty]
        /\ UNCHANGED seq
    BY DEF Execute
  <1>4. /\ orders'[o].executed = x + qty /\ orders'[o].side = side
        /\ orders'[o].state = IF x + qty = Quantity THEN "filled" ELSE "open"
        /\ \A p \in OrderIds : p # o => orders'[p] = orders[p]
    BY <1>1, <1>3 DEF TypeOK
  <1>5. x \in Nat /\ qty \in Nat /\ Quantity \in Nat
    BY <1>2, GridParams
  <1> HIDE DEF x, side, r
  <1>6. /\ qty = Quantity - x <=> x + qty = Quantity
        /\ qty <= Quantity - x
        /\ Quantity - (x + qty) = Quantity - x - qty
    BY <1>3, <1>5
  <1>7. WorkingOrder(r)' = after
    <2>1. seq[r] > 0 /\ seq'[r] = seq[r]
      <3>1. order[r] # NoOrder
        BY <1>1, LiveIsLast DEF r
      <3> QED
        BY <1>2, <1>3, <3>1 DEF Inv, TypeShape, Shape
    <2>2. LastOrder(r)' = o
      BY <1>2, <1>3 DEF LastOrder
    <2> QED
      BY <1>4, <1>6, <2>1, <2>2 DEF WorkingOrder, Live, Ledger!Nothing
  <1>8. \A s \in Runs : s # r => WorkingOrder(s)' = WorkingOrder(s)
    <2> SUFFICES ASSUME NEW s \in Runs, s # r
                 PROVE  WorkingOrder(s)' = WorkingOrder(s)
      OBVIOUS
    <2>1. CASE seq[s] > 0
      <3>1. seq[s] \in 1 .. MaxOrders
        <4>1. seq[s] \in 0 .. MaxOrders
          BY <1>1 DEF TypeOK
        <4> QED
          BY <2>1, <4>1, Bounds
      <3>2. LastOrder(s) \in OrderIds /\ LastOrder(s) # o
        BY <3>1, <1>2 DEF LastOrder, OrderIds
      <3> QED
        BY <1>3, <1>4, <3>2, WorkingFrame
    <2>2. CASE ~(seq[s] > 0)
      BY <1>3, <2>2 DEF WorkingOrder
    <2> QED
      BY <2>1, <2>2
  <1>9. /\ w[r] = [side |-> side, left |-> Quantity - x]
        /\ w' = [w EXCEPT ![r] = after]
    BY <1>2, <1>7, <1>8
  <1>10. w' = [w EXCEPT ![r] = IF qty = @.left THEN Ledger!Nothing
                               ELSE [side |-> @.side, left |-> @.left - qty]]
    <2>1. after = IF qty = w[r].left THEN Ledger!Nothing
                  ELSE [side |-> w[r].side, left |-> w[r].left - qty]
      BY <1>9
    <2> HIDE DEF after, w
    <2> QED
      BY <1>9, <2>1
  <1>11. w[r].side = side /\ qty <= w[r].left /\ w[r] # Ledger!Nothing
    BY <1>2, <1>6, <1>9
  <1>12. Ledger!Execute(r, qty)
    BY <1>3, <1>10, <1>11 DEF Ledger!Execute
  <1> QED
    BY <1>2, <1>12 DEF LedgerStep, Ledger!Next

\* An order that arrives open, and everything a goroutine, an operator or the
\* clock does besides submitting and cancelling, the ledger does not see.
LEMMA UnseenSteps ==
  ASSUME Inv, UNCHANGED <<seq, inventory>>,
         \A o \in OrderIds :
             \/ orders'[o] = orders[o]
             \/ /\ orders[o].state \in Live /\ orders'[o].state \in Live
                /\ orders'[o].side = orders[o].side
                /\ orders'[o].executed = orders[o].executed
  PROVE  LedgerStep
  <1>1. ASSUME NEW s \in Runs PROVE WorkingOrder(s)' = WorkingOrder(s)
    <2>1. CASE seq[s] > 0
      <3>1. seq[s] \in 1 .. MaxOrders
        <4>1. seq[s] \in 0 .. MaxOrders
          BY DEF Inv, TypeShape, TypeOK
        <4> QED
          BY <2>1, <4>1, Bounds
      <3>2. LastOrder(s) \in OrderIds /\ LastOrder(s)' = LastOrder(s)
        BY <3>1 DEF LastOrder, OrderIds
      <3> QED
        BY <3>2 DEF WorkingOrder
    <2>2. CASE ~(seq[s] > 0)
      BY <2>2 DEF WorkingOrder
    <2> QED
      BY <2>1, <2>2
  <1> QED
    BY <1>1, LedgerStutter

\* Deciding on an order is not seen either: the order before it is settled and
\* the new one not submitted yet.
LEMMA DecideUnseen ==
  ASSUME Inv, NEW r \in Runs, NEW price \in Prices, Decide(r, price)
  PROVE  LedgerStep
  <1>1. /\ order[r] = NoOrder /\ seq[r] < MaxOrders
        /\ seq' = [seq EXCEPT ![r] = @ + 1]
        /\ UNCHANGED <<orders, inventory>>
    BY DEF Decide, marketVars
  <1>2. seq \in [Runs -> 0 .. MaxOrders] /\ OldOrders(r)
    BY DEF Inv, Truth, RunTruth, TypeShape, TypeOK
  <1>3. WorkingOrder(r) = Ledger!Nothing
    <2>1. seq[r] > 0 => orders[LastOrder(r)].state \notin Live
      <3> SUFFICES ASSUME seq[r] > 0 PROVE orders[LastOrder(r)].state \notin Live
        OBVIOUS
      <3>1. seq[r] \in 1 .. MaxOrders
        BY <1>2, Bounds
      <3> QED
        BY <1>1, <1>2, <3>1 DEF OldOrders, LastOrder
    <2> QED
      BY <2>1 DEF WorkingOrder, Ledger!Nothing
  <1>4. WorkingOrder(r)' = Ledger!Nothing
    <2>1. seq'[r] = seq[r] + 1 /\ seq[r] \in 0 .. MaxOrders
      BY <1>1, <1>2
    <2>2. seq[r] + 1 \in 1 .. MaxOrders /\ seq[r] + 1 > seq[r]
      BY <1>1, <2>1, Bounds
    <2>3. orders'[LastOrder(r)'].state = "absent"
      BY <1>1, <1>2, <2>1, <2>2 DEF OldOrders, LastOrder
    <2> QED
      BY <2>3 DEF WorkingOrder, Live, Ledger!Nothing
  <1>5. ASSUME NEW s \in Runs, s # r PROVE WorkingOrder(s)' = WorkingOrder(s)
    BY <1>1, <1>2, <1>5, WorkingFrame
  <1>6. \A s \in Runs : WorkingOrder(s)' = WorkingOrder(s)
    BY <1>3, <1>4, <1>5
  <1> QED
    BY <1>1, <1>6, LedgerStutter

\* A step of the exchange: an order arrives, executes, expires or is cancelled.
LEMMA ExchangeImplements ==
  ASSUME Inv,
         \/ \E o \in OrderIds : ExchangeStep(o)
         \/ \E r \in Runs : CancelAccepted(r)
  PROVE  LedgerStep
  <1>1. TypeOK /\ TypeShape
    BY DEF Inv, TypeShape
  <1>2. ASSUME NEW o \in OrderIds, Arrive(o) PROVE LedgerStep
    <2>1. PICK fate \in {"open", "refused", "lost"} :
              orders' = [orders EXCEPT ![o].state = fate]
      BY <1>2 DEF Arrive
    <2>2. /\ orders[o].state \in Live /\ UNCHANGED <<seq, inventory>>
          /\ \A p \in OrderIds : p # o => orders'[p] = orders[p]
          /\ orders'[o].state = fate /\ orders'[o].side = orders[o].side
          /\ orders'[o].executed = orders[o].executed
      BY <1>1, <1>2, <2>1 DEF Arrive, Live, TypeOK
    <2>3. CASE fate = "open"
      BY <2>2, <2>3, UnseenSteps DEF Live
    <2>4. CASE fate # "open"
      BY <2>2, <2>4, EndedIsWithdrawn DEF Live
    <2> QED
      BY <2>3, <2>4
  <1>3. ASSUME NEW o \in OrderIds, orders[o].state = "open",
               orders' = [orders EXCEPT ![o].state = "canceled"],
               UNCHANGED <<seq, inventory>>
        PROVE  LedgerStep
    <2>1. /\ orders[o].state \in Live /\ orders'[o].state \notin Live
          /\ \A p \in OrderIds : p # o => orders'[p] = orders[p]
      BY <1>1, <1>3 DEF Live, TypeOK
    <2> QED
      BY <1>3, <2>1, EndedIsWithdrawn
  <1>4. ASSUME NEW o \in OrderIds, Expire(o) PROVE LedgerStep
    BY <1>3, <1>4 DEF Expire
  <1>5. ASSUME NEW r \in Runs, CancelAccepted(r) PROVE LedgerStep
    <2>1. order[r] # NoOrder
      BY <1>1, <1>5
         DEF CancelAccepted, CancelReturns, TypeShape, Shape, Handling
    <2>2. order[r].id \in OrderIds
      BY <1>1, <2>1, PendingTypes
    <2> QED
      BY <1>3, <1>5, <2>2 DEF CancelAccepted, CancelReturns
  <1> QED
    BY <1>2, <1>4, <1>5, ExecuteImplements DEF ExchangeStep

LEMMA NextImplements == Inv /\ [Next]_vars => LedgerStep
  <1> SUFFICES ASSUME Inv, [Next]_vars PROVE LedgerStep
    OBVIOUS
  <1>1. ASSUME UNCHANGED <<seq, orders, inventory>> PROVE LedgerStep
    BY <1>1, UnseenSteps
  <1>2. CASE Start \/ Stop \/ Crash \/ Tick \/ UNCHANGED vars
    BY <1>1, <1>2 DEF Start, Stop, Crash, Tick, marketVars, vars
  <1>3. ASSUME NEW r \in Runs, RunStep(r) PROVE LedgerStep
    <2>1. CASE \E price \in Prices : Decide(r, price)
      BY <2>1, DecideUnseen
    <2>2. CASE Submit(r)
      BY <2>2, SubmitImplements
    <2>3. CASE CancelAccepted(r)
      BY <2>3, ExchangeImplements
    <2>4. CASE \/ LoopExit(r) \/ PlaceAnswered(r) \/ PlaceRejected(r)
               \/ PlaceUnknown(r) \/ Lookup(r) \/ ApplyFilled(r)
               \/ ApplyDone(r) \/ ApplyNotFound(r) \/ ApplyOpen(r)
               \/ CancelFailed(r)
      BY <1>1, <2>4 DEF LoopExit, PlaceAnswered, PlaceRejected, PlaceUnknown,
         Lookup, ApplyFilled, ApplyDone, ApplyNotFound, ApplyOpen,
         CancelFailed, CancelReturns, marketVars
    <2> QED
      BY <1>3, <2>1, <2>2, <2>3, <2>4 DEF RunStep
  <1>4. CASE \E o \in OrderIds : ExchangeStep(o)
    BY <1>4, ExchangeImplements
  <1> QED
    BY <1>2, <1>3, <1>4 DEF Next

\* Seen from the account, the grid is a ledger of one affordable order at a
\* time per run (gridBook.check, gridStep).
THEOREM ImplementsLedgerHolds ==
  ASSUME GraceCoversDelays
  PROVE  Spec => ImplementsLedger
  <1>1. Init => Ledger!Init
    BY DEF Init, Ledger!Init, WorkingOrder, Ledger!Nothing
  <1>2. Inv /\ [Next]_vars => [Ledger!Next]_(Ledger!ledger)
    BY NextImplements DEF LedgerStep
  <1>3. Spec => []Inv
    BY TruthHolds
  <1> QED
    BY <1>1, <1>2, <1>3, PTL DEF Spec, ImplementsLedger, Ledger!Spec
=============================================================================
