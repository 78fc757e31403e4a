------------------------ MODULE GridUnderPolls_proofs ------------------------
(***************************************************************************)
(* Proofs about what a book of the grid records.  They need neither that   *)
(* the grace period outlasts the delays nor that every lookup asks the     *)
(* exchange the order went to, so they also hold beside balance requests   *)
(* that move the provider under the grid.                                  *)
(***************************************************************************)
EXTENDS GridUnderPolls, GridOrders_proofs, FiniteSetTheorems

USE DEF Runs, NoRun

-----------------------------------------------------------------------------
(***************************************************************************)
(* Books: the level of a pending BUY is still free, the held levels answer *)
(* for the position, and an order is recorded once, when it is settled.    *)
(***************************************************************************)
Traded == {o \in OrderIds : fills[o] > 0}

Unrecorded(r) ==
    /\ \A n \in 1 .. MaxOrders : n > seq[r] => fills[<<r, n>>] = 0
    /\ order[r] # NoOrder => fills[LastOrder(r)] = 0

LevelFree(r) ==
    order[r] # NoOrder /\ order[r].side = "BUY" => order[r].level \notin held[r]

Covered(r) == position[r] <= Quantity * Cardinality(held[r])

Books ==
    /\ \A r \in Runs : Unrecorded(r) /\ LevelFree(r) /\ Covered(r)
    /\ trades <= Cardinality(Traded)

LEMMA HeldFinite ==
  ASSUME TypeOK, NEW r \in Runs
  PROVE  /\ IsFiniteSet(held[r]) /\ Cardinality(held[r]) \in Nat
         /\ Quantity * Cardinality(held[r]) \in Nat
  <1>1. IsFiniteSet(LevelIds)
    BY GridParams, FS_Interval DEF LevelIds
  <1>2. IsFiniteSet(held[r])
    BY <1>1, FS_Subset DEF TypeOK
  <1>3. Cardinality(held[r]) \in Nat
    BY <1>2, FS_CardinalityType
  <1> QED
    BY <1>2, <1>3, GridParams

LEMMA OrderIdsFinite == IsFiniteSet(OrderIds)
  <1>1. IsFiniteSet(Runs) /\ IsFiniteSet(1 .. MaxOrders)
    BY Bounds, FS_Interval
  <1> QED
    BY <1>1, FS_Product DEF OrderIds

LEMMA TradedFinite == IsFiniteSet(Traded) /\ Cardinality(Traded) \in Nat
  <1>1. Traded \in SUBSET OrderIds
    BY DEF Traded
  <1>2. IsFiniteSet(Traded)
    BY <1>1, OrderIdsFinite, FS_Subset
  <1> QED
    BY <1>2, FS_CardinalityType

\* The lowest held level, if any, is one level: a SELL releases at most one.
LEMMA ReleaseOne ==
  ASSUME NEW H \in SUBSET Nat, IsFiniteSet(H)
  PROVE  /\ IsFiniteSet(H \ Lowest(H))
         /\ Cardinality(H \ Lowest(H)) \in {Cardinality(H), Cardinality(H) - 1}
  <1>1. CASE Lowest(H) = {}
    <2>1. H \ Lowest(H) = H
      BY <1>1
    <2> QED
      BY <2>1
  <1>2. CASE Lowest(H) # {}
    <2>1. PICK l \in H : l \in Lowest(H)
      BY <1>2 DEF Lowest
    <2>2. \A m \in Lowest(H) : m = l
      BY <2>1 DEF Lowest
    <2>3. H \ Lowest(H) = H \ {l}
      BY <2>1, <2>2
    <2> QED
      BY <2>1, <2>3, FS_RemoveElement
  <1> QED
    BY <1>1, <1>2

LEMMA InitBooks == Init => Books
  <1> SUFFICES ASSUME Init PROVE Books
    OBVIOUS
  <1>1. Cardinality({}) = 0
    BY FS_EmptySet
  <1>2. trades <= Cardinality(Traded)
    <2>1. Traded = {}
      BY DEF Init, Traded
    <2> QED
      BY <1>1, <2>1 DEF Init
  <1>3. ASSUME NEW r \in Runs PROVE Unrecorded(r) /\ LevelFree(r) /\ Covered(r)
    <2>1. \A n \in 1 .. MaxOrders : <<r, n>> \in OrderIds
      BY DEF OrderIds
    <2>2. Quantity * 0 = 0
      BY GridParams
    <2> QED
      BY <1>1, <2>1, <2>2 DEF Init, Unrecorded, LevelFree, Covered
  <1> QED
    BY <1>2, <1>3 DEF Books

\* A step that records nothing and decides on no new order.
LEMMA BooksFrame ==
  ASSUME TypeShape, Books, UNCHANGED <<position, held, fills, seq>>,
         trades' \in {0, trades},
         \A r \in Runs : \/ order'[r] = NoOrder
                         \/ /\ order[r] # NoOrder
                            /\ order'[r].side = order[r].side
                            /\ order'[r].level = order[r].level
  PROVE  Books'
  <1>1. \A r \in Runs : Unrecorded(r)' /\ LevelFree(r)' /\ Covered(r)'
    BY DEF Books, Unrecorded, LevelFree, Covered, LastOrder
  <1>2. trades' <= Cardinality(Traded)'
    BY TradedFinite DEF Books, Traded
  <1> QED
    BY <1>1, <1>2 DEF Books

\* Deciding on an order leaves the book as it is; a BUY asks for a free level.
LEMMA BooksDecide ==
  ASSUME TypeShape, Books, NEW r \in Runs, NEW price \in Prices, Decide(r, price)
  PROVE  Books'
  <1>1. /\ TypeOK /\ seq[r] \in Nat /\ seq[r] + 1 \in 1 .. MaxOrders
        /\ UNCHANGED <<position, held, fills, trades>>
    BY Bounds DEF TypeShape, TypeOK, Decide, bookVars
  <1>2. /\ order'[r] = NewOrder(r, GridAction(price), GridLevel(price))
        /\ seq'[r] = seq[r] + 1
        /\ \A q \in Runs : q # r => order'[q] = order[q] /\ seq'[q] = seq[q]
    BY <1>1 DEF Decide, TypeOK
  <1>3. Unrecorded(r)'
    <2>1. \A n \in 1 .. MaxOrders : n > seq[r] => fills[<<r, n>>] = 0
      BY DEF Books, Unrecorded
    <2>2. \A n \in 1 .. MaxOrders : n > seq[r] + 1 => n > seq[r]
      BY <1>1
    <2>3. seq[r] + 1 > seq[r]
      BY <1>1
    <2> QED
      BY <1>1, <1>2, <2>1, <2>2, <2>3 DEF Unrecorded, LastOrder
  <1>4. LevelFree(r)'
    BY <1>1, <1>2 DEF Decide, Check, CheckBuy, NewOrder, LevelFree
  <1>5. \A q \in Runs : q # r => Unrecorded(q)' /\ LevelFree(q)'
    BY <1>1, <1>2 DEF Books, Unrecorded, LevelFree, LastOrder
  <1>6. (\A q \in Runs : Covered(q)') /\ trades' <= Cardinality(Traded)'
    BY <1>1 DEF Books, Covered, Traded
  <1> QED
    BY <1>3, <1>4, <1>5, <1>6 DEF Books

\* The book of the run whose order traded: a BUY adds its free level, a SELL
\* of a whole quantity takes its level and its quantity away.
LEMMA CoveredRecord ==
  ASSUME TypeShape, Books, NEW r \in Runs, order[r] # NoOrder,
         NEW qty \in 1 .. Quantity, RecordFill(r, qty)
  PROVE  Covered(r)'
  <1> DEFINE p == position[r]
             H == held[r]
             side == order[r].side
             c == Cardinality(H)
  <1>1. /\ TypeOK /\ side \in Sides /\ p \in Nat /\ order[r].level \in LevelIds
        /\ qty \in Nat /\ qty > 0 /\ qty <= Quantity
        /\ Quantity \in Nat /\ Quantity > 0
    <2>1. \A x \in PendingOrders : x.level \in LevelIds
      BY DEF PendingOrders
    <2> QED
      BY <2>1, PendingTypes, GridParams DEF TypeShape
  <1>2. /\ position'[r] = RecordPosition(side, p, qty)
        /\ held'[r] = RecordHeld(side, H, order[r].level, qty)
    BY <1>1 DEF RecordFill, TypeOK
  <1>3. IsFiniteSet(H) /\ c \in Nat /\ H \in SUBSET Nat
    <2>1. IsFiniteSet(H) /\ c \in Nat
      BY <1>1, HeldFinite
    <2>2. H \in SUBSET LevelIds
      BY <1>1 DEF TypeOK
    <2>3. LevelIds \subseteq Nat
      BY GridParams DEF LevelIds
    <2> QED
      BY <2>1, <2>2, <2>3
  <1>4. p <= Quantity * c
    BY DEF Books, Covered
  <1>5. CASE side = "BUY"
    <2>1. order[r].level \notin H
      BY <1>5 DEF Books, LevelFree
    <2>2. Cardinality(H \cup {order[r].level}) = c + 1
      BY <1>3, <2>1, FS_AddElement
    <2>3. Quantity * (c + 1) = Quantity * c + Quantity
      BY <1>1, <1>3
    <2>4. p + qty <= Quantity * (c + 1)
      <3> HIDE DEF p, c
      <3>1. Quantity * c \in Nat
        BY <1>1, <1>3
      <3> QED
        BY <1>1, <1>4, <2>3, <3>1
    <2> QED
      BY <1>2, <1>5, <2>2, <2>4 DEF Covered, RecordPosition, RecordHeld
  <1>6. CASE side # "BUY" /\ qty < Quantity
    <2>1. RecordPosition(side, p, qty) <= p /\ RecordPosition(side, p, qty) \in Nat
      BY <1>1, <1>6 DEF RecordPosition
    <2>2. Quantity * c \in Nat
      BY <1>1, <1>3
    <2> QED
      BY <1>1, <1>2, <1>4, <1>6, <2>1, <2>2 DEF Covered, RecordHeld
  <1>7. CASE side # "BUY" /\ qty = Quantity
    <2> DEFINE d == Cardinality(H \ Lowest(H))
               n == RecordPosition(side, p, qty)
    <2>1. d \in {c, c - 1} /\ d \in Nat
      BY <1>3, ReleaseOne, FS_CardinalityType
    <2>2. n = IF p > Quantity THEN p - Quantity ELSE 0
      BY <1>7 DEF RecordPosition
    <2>3. Quantity * (c - 1) = Quantity * c - Quantity /\ Quantity * c \in Nat
          /\ Quantity * d \in Nat
      BY <1>1, <1>3, <2>1
    <2>4. n <= Quantity * d
      <3> HIDE DEF n, d, p, c
      <3>1. CASE d = c
        BY <1>1, <1>4, <2>2, <2>3, <3>1
      <3>2. CASE d = c - 1
        BY <1>1, <1>4, <2>2, <2>3, <3>2
      <3> QED
        BY <2>1, <3>1, <3>2
    <2>5. held'[r] = H \ Lowest(H)
      BY <1>1, <1>2, <1>7 DEF RecordHeld
    <2> QED
      BY <1>2, <2>4, <2>5 DEF Covered
  <1> QED
    BY <1>1, <1>5, <1>6, <1>7

\* Recording a trade: the order is counted now, as it was not before.
LEMMA BooksRecord ==
  ASSUME TypeShape, Books, NEW r \in Runs, order[r] # NoOrder,
         NEW qty \in 1 .. Quantity, RecordFill(r, qty),
         order' = [order EXCEPT ![r] = NoOrder], seq' = seq
  PROVE  Books'
  <1> DEFINE o == LastOrder(r)
  <1>1. /\ TypeOK /\ o \in OrderIds /\ order[r].id = o
        /\ seq[r] \in 1 .. MaxOrders /\ qty \in Nat /\ qty > 0
    BY PendingTypes, GridParams DEF TypeShape, Shape
  <1>2. fills[o] = 0
    BY DEF Books, Unrecorded
  <1>3. fills' = [fills EXCEPT ![o] = qty] /\ trades' = trades + 1
    BY <1>1, <1>2 DEF RecordFill, TypeOK
  <1>4. /\ order'[r] = NoOrder
        /\ \A q \in Runs : q # r => /\ order'[q] = order[q]
                                    /\ position'[q] = position[q]
                                    /\ held'[q] = held[q]
    BY <1>1 DEF RecordFill, TypeOK
  <1>5. trades' <= Cardinality(Traded)'
    <2>1. Traded' = Traded \cup {o}
      BY <1>1, <1>3 DEF Traded, TypeOK
    <2>2. o \notin Traded
      BY <1>2 DEF Traded
    <2>3. Cardinality(Traded \cup {o}) = Cardinality(Traded) + 1
      BY <2>2, TradedFinite, FS_AddElement
    <2> QED
      BY <1>1, <1>3, <2>1, <2>3, TradedFinite DEF Books, TypeOK
  <1>6. Unrecorded(r)' /\ LevelFree(r)' /\ Covered(r)'
    <2>1. \A n \in 1 .. MaxOrders :
             n > seq[r] => <<r, n>> \in OrderIds /\ <<r, n>> # o
      BY <1>1 DEF OrderIds, LastOrder
    <2>2. \A n \in 1 .. MaxOrders : n > seq[r] => fills'[<<r, n>>] = 0
      BY <1>1, <1>3, <2>1 DEF Books, Unrecorded, TypeOK
    <2>3. Unrecorded(r)' /\ LevelFree(r)'
      BY <1>4, <2>2 DEF Unrecorded, LevelFree
    <2> QED
      BY <2>3, CoveredRecord
  <1>7. ASSUME NEW q \in Runs, q # r
        PROVE  Unrecorded(q)' /\ LevelFree(q)' /\ Covered(q)'
    <2>1. \A n \in 1 .. MaxOrders : <<q, n>> # o
      BY <1>7 DEF LastOrder
    <2>2. \A n \in 1 .. MaxOrders : fills'[<<q, n>>] = fills[<<q, n>>]
      BY <1>1, <1>3, <2>1 DEF OrderIds, TypeOK
    <2>3. order[q] # NoOrder => seq[q] \in 1 .. MaxOrders
      BY DEF TypeShape, Shape
    <2> QED
      BY <1>4, <1>7, <2>2, <2>3 DEF Books, Unrecorded, LevelFree, Covered,
                                    LastOrder
  <1> QED
    BY <1>5, <1>6, <1>7 DEF Books

\* Every step keeps the books.
LEMMA BooksNext == TypeShape /\ Books /\ [Next]_vars => Books'
  <1> SUFFICES ASSUME TypeShape, Books, [Next]_vars PROVE Books'
    OBVIOUS
  <1> DEFINE Kept(q) == \/ order'[q] = NoOrder
                        \/ /\ order[q] # NoOrder
                           /\ order'[q].side = order[q].side
                           /\ order'[q].level = order[q].level
  <1>1. TypeOK /\ Shape /\ trades \in Nat
    BY DEF TypeShape, TypeOK
  <1>2. ASSUME UNCHANGED <<position, held, fills, seq>>, UNCHANGED order,
               trades' \in {0, trades}
        PROVE  Books'
    <2>1. \A q \in Runs : Kept(q)
      BY <1>2
    <2> QED
      BY <1>2, <2>1, BooksFrame
  <1>3. CASE Start \/ Stop \/ Crash \/ (\E o \in OrderIds : ExchangeStep(o))
             \/ UNCHANGED vars
    <2>1. UNCHANGED <<position, held, fills, seq, order>>
          /\ trades' \in {0, trades}
      BY <1>3 DEF Start, Stop, Crash, ExchangeStep, Arrive, Execute, Expire,
                  vars, bookVars, marketVars, controlVars
    <2> QED
      BY <1>2, <2>1
  <1>4. ASSUME NEW r \in Runs, RunStep(r) PROVE Books'
    <2>1. CASE \/ LoopExit(r) \/ Submit(r) \/ PlaceAnswered(r) \/ Lookup(r)
               \/ CancelAccepted(r) \/ CancelFailed(r)
      <3>1. UNCHANGED <<position, held, fills, seq, order, trades>>
        BY <2>1 DEF LoopExit, Submit, PlaceAnswered, Lookup, CancelAccepted,
                    CancelFailed, CancelReturns, bookVars, marketVars
      <3> QED
        BY <1>2, <3>1
    <2>2. ASSUME NEW price \in Prices, Decide(r, price) PROVE Books'
      BY <2>2, BooksDecide
    <2>3. CASE PlaceRejected(r) \/ PlaceUnknown(r) \/ ApplyNotFound(r)
               \/ ApplyOpen(r)
      <3>1. order[r] # NoOrder /\ order[r] \in PendingOrders
        <4>1. pc[r] \in Handling
          BY <2>3 DEF PlaceRejected, PlaceUnknown, ApplyNotFound, ApplyOpen,
                      Handling
        <4> QED
          BY <1>1, <4>1, PendingTypes DEF Shape
      <3>2. UNCHANGED <<position, held, fills, seq, trades>>
        BY <2>3 DEF PlaceRejected, PlaceUnknown, ApplyNotFound, ApplyOpen,
                    bookVars, marketVars
      <3>3. \/ UNCHANGED order
            \/ order' = [order EXCEPT ![r] = NoOrder]
            \/ \E u \in BOOLEAN, k \in 0 .. CancelRetry :
                  order' = [order EXCEPT ![r] =
                              [@ EXCEPT !.unknown = u, !.sinceCancel = k]]
        <4>1. CASE PlaceRejected(r) \/ ApplyNotFound(r)
          BY <4>1 DEF PlaceRejected, ApplyNotFound, Settle
        <4>2. CASE PlaceUnknown(r)
          <5>1. order' = [order EXCEPT ![r] =
                   [order[r] EXCEPT !.unknown = TRUE,
                                    !.sinceCancel = order[r].sinceCancel]]
            BY <3>1, <4>2 DEF PlaceUnknown, PendingOrders
          <5>2. order[r].sinceCancel \in 0 .. CancelRetry
            BY <3>1 DEF PendingOrders
          <5> QED
            BY <5>1, <5>2
        <4>3. CASE ApplyOpen(r)
          <5>1. order[r].sinceCancel \in 0 .. CancelRetry
                /\ 0 \in 0 .. CancelRetry
            BY <3>1, Bounds DEF PendingOrders
          <5> QED
            BY <4>3, <5>1 DEF ApplyOpen
        <4> QED
          BY <2>3, <4>1, <4>2, <4>3
      <3>4. order \in [Runs -> PendingOrders \cup {NoOrder}]
        BY <1>1 DEF TypeOK
      <3>5. \A x \in PendingOrders : \A u, k :
               LET y == [x EXCEPT !.unknown = u, !.sinceCancel = k]
               IN  y.side = x.side /\ y.level = x.level
        BY DEF PendingOrders
      <3>6. ASSUME NEW q \in Runs PROVE Kept(q)
        <4>1. CASE UNCHANGED order
          BY <4>1
        <4>2. CASE order' = [order EXCEPT ![r] = NoOrder]
          BY <3>4, <4>2
        <4>3. ASSUME NEW u, NEW k,
                     order' = [order EXCEPT ![r] =
                              [@ EXCEPT !.unknown = u, !.sinceCancel = k]]
              PROVE  Kept(q)
          <5>1. CASE q = r
            <6>1. order'[q] = [order[q] EXCEPT !.unknown = u, !.sinceCancel = k]
              BY <3>4, <4>3, <5>1
            <6> QED
              BY <3>1, <3>5, <5>1, <6>1
          <5>2. CASE q # r
            BY <3>4, <4>3, <5>2
          <5> QED
            BY <5>1, <5>2
        <4> QED
          BY <3>3, <4>1, <4>2, <4>3
      <3> QED
        BY <3>2, <3>6, BooksFrame
    <2>4. CASE ApplyFilled(r) \/ ApplyDone(r)
      <3>1. /\ order[r] # NoOrder /\ reply[r] \in Replies
            /\ seq' = seq /\ order' = [order EXCEPT ![r] = NoOrder]
        <4>1. pc[r] \in Handling /\ pc[r] \in Answering
          BY <2>4 DEF ApplyFilled, ApplyDone, Handling, Answering
        <4> QED
          BY <1>1, <2>4, <4>1, PendingTypes DEF Shape, ApplyFilled, ApplyDone,
                                                Settle
      <3>2. reply[r].executed \in 0 .. Quantity /\ Quantity \in Nat \ {0}
        BY <3>1, GridParams DEF Replies
      <3>3. CASE ApplyFilled(r)
        <4>1. FilledQuantity(reply[r]) \in 1 .. Quantity
          BY <3>2 DEF FilledQuantity
        <4> QED
          BY <3>1, <3>3, <4>1, BooksRecord DEF ApplyFilled
      <3>4. CASE ApplyDone(r) /\ reply[r].executed > 0
        <4>1. reply[r].executed \in 1 .. Quantity
          BY <3>2, <3>4
        <4> QED
          BY <3>1, <3>4, <4>1, BooksRecord DEF ApplyDone
      <3>5. CASE ApplyDone(r) /\ ~(reply[r].executed > 0)
        <4>1. UNCHANGED <<position, held, fills, trades>>
          BY <3>5 DEF ApplyDone, bookVars
        <4>2. \A q \in Runs : Kept(q)
          BY <1>1, <3>1 DEF TypeOK, PendingOrders
        <4> QED
          BY <3>1, <4>1, <4>2, BooksFrame
      <3> QED
        BY <2>4, <3>3, <3>4, <3>5
    <2> QED
      BY <1>4, <2>1, <2>2, <2>3, <2>4 DEF RunStep
  <1>5. CASE Tick
    <2>1. UNCHANGED <<position, held, fills, seq, trades>>
      BY <1>5 DEF Tick, bookVars
    <2>2. \A x \in PendingOrders :
             /\ x # NoOrder
             /\ Older(x).side = x.side /\ Older(x).level = x.level
      BY PendingIsNoOrder DEF Older, PendingOrders
    <2>3. ASSUME NEW q \in Runs PROVE Kept(q)
      <3>1. order'[q] = order[q] \/ order'[q] = Older(order[q])
        BY <1>5 DEF Tick
      <3>2. order[q] \in PendingOrders \/ order[q] = NoOrder
        BY <1>1 DEF TypeOK
      <3> QED
        BY <2>2, <3>1, <3>2 DEF Older
    <2> QED
      BY <2>1, <2>3, BooksFrame
  <1> QED
    BY <1>3, <1>4, <1>5 DEF Next

-----------------------------------------------------------------------------
(***************************************************************************)
(* Real: no order is recorded beyond what was executed of it, because an   *)
(* answer the run still holds is the last word on the order it is about:   *)
(* a fill or a cancel is final, and a full fill is a whole quantity.       *)
(***************************************************************************)
Told(r) ==
    LET o == LastOrder(r)
    IN  reply[r] # NoReply =>
            /\ reply[r].state = "filled" =>
                   /\ orders[o].state = "filled"
                   /\ reply[r].executed \in {0, Quantity}
            /\ reply[r].state = "done" =>
                   /\ orders[o].state = "canceled"
                   /\ reply[r].executed = orders[o].executed

Executed(o) == ExecutedByState(o) /\ fills[o] <= orders[o].executed

Real == (\A o \in OrderIds : Executed(o)) /\ (\A r \in Runs : Told(r))

LEMMA InitReal == Init => Real
  BY GridParams DEF Init, Real, Executed, ExecutedByState, Told

\* A step that leaves the exchange and the records alone, and takes no answer.
LEMMA RealFrame ==
  ASSUME Real, UNCHANGED <<orders, fills>>,
         \A r \in Runs : \/ reply'[r] = NoReply
                         \/ /\ reply[r] # NoReply /\ seq'[r] = seq[r]
                            /\ reply'[r].state = reply[r].state
                            /\ reply'[r].executed = reply[r].executed
  PROVE  Real'
  BY DEF Real, Executed, ExecutedByState, Told, LastOrder

\* What any exchange says of an order is true of it, if it knows the order.
LEMMA ReportsReal ==
  ASSUME TypeOK, NEW o \in OrderIds, ExecutedByState(o),
         NEW rep \in PlaceReports(o) \cup VisibleReports(o)
  PROVE  /\ rep.state = "filled" => /\ orders[o].state = "filled"
                                    /\ rep.executed \in {0, Quantity}
         /\ rep.state = "done" => /\ orders[o].state = "canceled"
                                  /\ rep.executed = orders[o].executed
  <1>1. orders[o].state \in OrderStates
    BY DEF TypeOK
  <1>2. rep \in Reports(o) \cup {Reply("open", 0), Reply("notFound", 0)}
    BY DEF PlaceReports, VisibleReports
  <1> QED
    BY <1>1, <1>2 DEF Reports, Reply, OrderStates, ExecutedByState

\* Taking an answer.
LEMMA RealAsk ==
  ASSUME TypeShape, Real, NEW r \in Runs, PlaceAnswered(r) \/ Lookup(r)
  PROVE  Real'
  <1> DEFINE o == LastOrder(r)
  <1>1. TypeOK /\ order[r] # NoOrder
    BY DEF TypeShape, Shape, PlaceAnswered, Lookup, Handling
  <1>2. o \in OrderIds /\ order[r].id = o
    BY <1>1, PendingTypes
  <1>3. UNCHANGED <<orders, fills, seq>>
    BY DEF PlaceAnswered, Lookup, bookVars, marketVars
  <1>4. PICK rep \in PlaceReports(o) \cup VisibleReports(o) :
           reply' = [reply EXCEPT ![r] = rep]
    BY <1>2 DEF PlaceAnswered, Lookup
  <1>5. Told(r)'
    <2>1. ExecutedByState(o)
      BY <1>2 DEF Real, Executed
    <2>2. reply'[r] = rep
      BY <1>1, <1>4 DEF TypeOK
    <2> QED
      BY <1>1, <1>2, <1>3, <2>1, <2>2, ReportsReal DEF Told, LastOrder
  <1>6. \A q \in Runs : q # r => Told(q)'
    BY <1>1, <1>3, <1>4 DEF TypeOK, Real, Told, LastOrder
  <1>7. \A p \in OrderIds : Executed(p)'
    BY <1>3 DEF Real, Executed, ExecutedByState
  <1> QED
    BY <1>5, <1>6, <1>7 DEF Real

\* Submitting starts the order's execution at nothing, as the book has it.
LEMMA RealSubmit ==
  ASSUME TypeShape, Books, Real, NEW r \in Runs, Submit(r)
  PROVE  Real'
  <1> DEFINE o == LastOrder(r)
             new == [state |-> Sent(r), side |-> order[r].side,
                     executed |-> 0, venue |-> provider]
  <1>1. TypeOK /\ order[r] # NoOrder /\ reply[r] = NoReply
    BY DEF TypeShape, Shape, Submit, Handling, Answering
  <1>2. o \in OrderIds /\ order[r].id = o /\ fills[o] = 0
    BY <1>1, PendingTypes DEF Books, Unrecorded
  <1>3. /\ orders' = [orders EXCEPT ![o] = new]
        /\ new.state \in {"flight", "lost"} /\ new.executed = 0
    BY <1>2 DEF Submit, Sent
  <1> HIDE DEF new
  <1>4. UNCHANGED <<fills, reply, seq>>
    BY DEF Submit, bookVars
  <1>5. \A p \in OrderIds : Executed(p)'
    BY <1>1, <1>2, <1>3, <1>4, GridParams
       DEF TypeOK, Real, Executed, ExecutedByState
  <1>6. ASSUME NEW q \in Runs PROVE Told(q)'
    <2>1. CASE q = r
      BY <1>1, <1>4, <2>1 DEF Told
    <2>2. CASE q # r
      <3>1. orders'[LastOrder(q)] = orders[LastOrder(q)]
        BY <1>1, <1>3, <2>2 DEF TypeOK, LastOrder
      <3> QED
        BY <1>4, <3>1 DEF Real, Told, LastOrder
    <2> QED
      BY <2>1, <2>2
  <1> QED
    BY <1>5, <1>6 DEF Real

\* An order that is live moves on; nothing it executed is taken back.
LEMMA RealMoves ==
  ASSUME TypeOK, Real, NEW o \in OrderIds, orders[o].state \in Live,
         NEW new, orders' = [orders EXCEPT ![o] = new],
         UNCHANGED <<fills, reply, seq>>,
         new.executed \in Nat, new.executed >= orders[o].executed,
         new.state \in {"absent", "flight", "refused", "lost"}
             => new.executed = 0,
         new.state = "open" => new.executed < Quantity,
         new.state = "filled" => new.executed = Quantity
  PROVE  Real'
  <1>1. ASSUME NEW p \in OrderIds PROVE Executed(p)'
    <2>1. CASE p = o
      <3>1. orders'[p] = new /\ fills'[p] = fills[o] /\ fills[o] \in Nat
            /\ orders[o].executed \in Nat
        BY <2>1, GridParams DEF TypeOK
      <3>2. fills[o] <= orders[o].executed
        BY DEF Real, Executed
      <3> QED
        BY <3>1, <3>2 DEF Executed, ExecutedByState
    <2>2. CASE p # o
      BY <2>2 DEF TypeOK, Real, Executed, ExecutedByState
    <2> QED
      BY <2>1, <2>2
  <1>2. ASSUME NEW q \in Runs PROVE Told(q)'
    <2>1. CASE LastOrder(q) = o
      BY <2>1 DEF Real, Told, Live, LastOrder
    <2>2. CASE LastOrder(q) # o
      BY <2>2 DEF TypeOK, Real, Told, LastOrder
    <2> QED
      BY <2>1, <2>2
  <1> QED
    BY <1>1, <1>2 DEF Real

\* Recording what the answer says books exactly what was executed.
LEMMA RealRecord ==
  ASSUME TypeShape, Books, Real, NEW r \in Runs, ApplyFilled(r) \/ ApplyDone(r)
  PROVE  Real'
  <1> DEFINE o == LastOrder(r)
             x == orders[o].executed
  <1>1. TypeOK /\ order[r] # NoOrder /\ reply[r] # NoReply
    BY DEF TypeShape, Shape, ApplyFilled, ApplyDone, Handling, Answering
  <1>2. /\ o \in OrderIds /\ order[r].id = o /\ fills[o] = 0
        /\ x \in Nat /\ Quantity \in Nat \ {0}
    BY <1>1, PendingTypes, GridParams DEF Books, Unrecorded
  <1>3. Told(r) /\ Executed(o)
    BY <1>2 DEF Real
  <1>4. UNCHANGED <<orders, seq>> /\ reply' = [reply EXCEPT ![r] = NoReply]
    BY DEF ApplyFilled, ApplyDone, Settle, marketVars
  <1>5. \A p \in OrderIds : \/ fills'[p] = fills[p]
                            \/ p = o /\ fills'[p] = x
    <2>0. fills[o] + x = x /\ fills \in [OrderIds -> Nat]
      BY <1>1, <1>2 DEF TypeOK
    <2>1. CASE ApplyFilled(r)
      <3>1. FilledQuantity(reply[r]) = x
        BY <1>1, <1>2, <1>3, <2>1
           DEF ApplyFilled, FilledQuantity, Told, Executed, ExecutedByState
      <3>2. fills' = [fills EXCEPT ![o] = fills[o] + x]
        BY <1>1, <1>2, <2>1, <3>1 DEF ApplyFilled, RecordFill
      <3> QED
        BY <2>0, <3>2
    <2>2. CASE ApplyDone(r)
      <3>1. reply[r].executed = x
        BY <1>1, <1>3, <2>2 DEF ApplyDone, Told
      <3>2. CASE x > 0
        <4>1. fills' = [fills EXCEPT ![o] = fills[o] + x]
          BY <1>2, <2>2, <3>1, <3>2 DEF ApplyDone, RecordFill
        <4> QED
          BY <2>0, <4>1
      <3>3. CASE ~(x > 0)
        BY <2>2, <3>1, <3>3 DEF ApplyDone, bookVars
      <3> QED
        BY <3>2, <3>3
    <2> QED
      BY <2>1, <2>2
  <1>6. ASSUME NEW p \in OrderIds PROVE Executed(p)'
    <2>1. ExecutedByState(p) /\ fills[p] <= orders[p].executed
      BY DEF Real, Executed
    <2>2. ExecutedByState(p)' /\ orders'[p] = orders[p]
      BY <1>4, <2>1 DEF ExecutedByState
    <2>3. fills'[p] <= orders[p].executed
      BY <1>2, <1>5, <2>1
    <2> QED
      BY <2>2, <2>3 DEF Executed
  <1>7. \A q \in Runs : Told(q)'
    BY <1>1, <1>4 DEF TypeOK, Real, Told, LastOrder
  <1> QED
    BY <1>6, <1>7 DEF Real

\* The exchange's own steps, and the cancel it accepts, move a live order on.
LEMMA RealExchange ==
  ASSUME TypeShape, Real,
         \/ \E o \in OrderIds : ExchangeStep(o)
         \/ \E r \in Runs : CancelAccepted(r)
  PROVE  Real'
  <1>1. TypeOK /\ Quantity \in Nat
    BY GridParams DEF TypeShape
  <1>2. \A o \in OrderIds :
           /\ orders[o] \in [state : OrderStates, side : Sides,
                             executed : 0 .. Quantity, venue : Exchanges]
           /\ orders[o].executed \in Nat /\ ExecutedByState(o)
    BY <1>1 DEF TypeOK, Real, Executed
  <1>3. 0 < Quantity
    BY GridParams
  <1>4. ASSUME NEW o \in OrderIds, Arrive(o) PROVE Real'
    <2>1. PICK fate \in {"open", "refused", "lost"} :
             orders' = [orders EXCEPT ![o].state = fate]
      BY <1>4 DEF Arrive
    <2> DEFINE new == [orders[o] EXCEPT !.state = fate]
    <2>2. /\ orders' = [orders EXCEPT ![o] = new]
          /\ new.state = fate /\ new.executed = orders[o].executed
      BY <1>2, <2>1
    <2>3. orders[o].state = "flight" /\ UNCHANGED <<fills, reply, seq>>
      BY <1>4 DEF Arrive, bookVars
    <2>4. new.executed = 0 /\ new.executed \in Nat
          /\ new.executed >= orders[o].executed
      BY <1>2, <2>2, <2>3 DEF ExecutedByState
    <2> HIDE DEF new
    <2> QED
      BY <1>1, <1>3, <2>1, <2>2, <2>3, <2>4, RealMoves DEF Live
  <1>5. ASSUME NEW o \in OrderIds, orders[o].state = "open",
               UNCHANGED <<fills, reply, seq>>,
               orders' = [orders EXCEPT ![o].state = "canceled"]
        PROVE  Real'
    <2> DEFINE new == [orders[o] EXCEPT !.state = "canceled"]
    <2>1. /\ orders' = [orders EXCEPT ![o] = new]
          /\ new.state = "canceled" /\ new.executed = orders[o].executed
      BY <1>2, <1>5
    <2>2. new.executed \in Nat /\ new.executed >= orders[o].executed
      BY <1>2, <2>1
    <2> HIDE DEF new
    <2> QED
      BY <1>1, <1>5, <2>1, <2>2, RealMoves DEF Live
  <1>6. ASSUME \/ \E o \in OrderIds : Expire(o)
               \/ \E r \in Runs : CancelAccepted(r)
        PROVE  Real'
    <2>1. UNCHANGED <<fills, reply, seq>>
      BY <1>6 DEF Expire, CancelAccepted, CancelReturns, bookVars
    <2>2. PICK o \in OrderIds :
             /\ orders[o].state = "open"
             /\ orders' = [orders EXCEPT ![o].state = "canceled"]
      <3>1. ASSUME NEW r \in Runs, CancelAccepted(r)
            PROVE  order[r].id \in OrderIds
        BY <3>1, PendingTypes
           DEF TypeShape, Shape, CancelAccepted, CancelReturns, Handling
      <3> QED
        BY <1>6, <3>1 DEF Expire, CancelAccepted
    <2> QED
      BY <1>5, <2>1, <2>2
  <1>7. ASSUME NEW o \in OrderIds, NEW qty \in 1 .. Quantity, Execute(o, qty)
        PROVE  Real'
    <2> DEFINE total == orders[o].executed + qty
               done == IF total = Quantity THEN "filled" ELSE "open"
               new == [orders[o] EXCEPT !.executed = total, !.state = done]
    <2>1. orders' = [orders EXCEPT ![o] = new] /\ UNCHANGED <<fills, reply, seq>>
      BY <1>7 DEF Execute, bookVars
    <2>2. orders[o].state = "open" /\ total <= Quantity
      BY <1>7 DEF Execute
    <2>3. total \in Nat /\ total >= orders[o].executed
      BY <1>1, <1>2
    <2>4. new.executed = total /\ new.state = done
      BY <1>2
    <2>5. /\ done \in {"open", "filled"}
          /\ done = "open" => total < Quantity
          /\ done = "filled" => total = Quantity
      BY <1>1, <2>2, <2>3
    <2> HIDE DEF new, done, total
    <2> QED
      BY <1>1, <2>1, <2>2, <2>3, <2>4, <2>5, RealMoves DEF Live
  <1> QED
    BY <1>4, <1>6, <1>7 DEF ExchangeStep

\* Every step of the grid keeps the records real.
LEMMA RealNext == TypeShape /\ Books /\ Real /\ [Next]_vars => Real'
  <1> SUFFICES ASSUME TypeShape, Books, Real, [Next]_vars PROVE Real'
    OBVIOUS
  <1> DEFINE Kept(q) == \/ reply'[q] = NoReply
                        \/ /\ reply[q] # NoReply /\ seq'[q] = seq[q]
                           /\ reply'[q].state = reply[q].state
                           /\ reply'[q].executed = reply[q].executed
  <1>1. TypeOK /\ Shape
    BY DEF TypeShape
  <1>2. ASSUME UNCHANGED <<orders, fills, seq>>,
               \/ UNCHANGED reply
               \/ reply' = [q \in Runs |-> NoReply]
               \/ \E r \in Runs : reply' = [reply EXCEPT ![r] = NoReply]
        PROVE  Real'
    <2>1. \A q \in Runs : Kept(q)
      BY <1>1, <1>2 DEF TypeOK
    <2> QED
      BY <1>2, <2>1, RealFrame
  <1>3. CASE Start \/ Stop \/ Crash \/ UNCHANGED vars
    BY <1>2, <1>3 DEF Start, Stop, Crash, vars, marketVars, bookVars
  <1>4. CASE \E o \in OrderIds : ExchangeStep(o)
    BY <1>4, RealExchange
  <1>5. ASSUME NEW r \in Runs, RunStep(r) PROVE Real'
    <2>1. CASE \/ LoopExit(r) \/ PlaceRejected(r) \/ PlaceUnknown(r)
               \/ ApplyNotFound(r) \/ ApplyOpen(r) \/ CancelFailed(r)
      <3>1. UNCHANGED <<orders, fills, seq>>
        BY <2>1 DEF LoopExit, PlaceRejected, PlaceUnknown, ApplyNotFound,
                    ApplyOpen, CancelFailed, CancelReturns, bookVars, marketVars
      <3>2. UNCHANGED reply \/ reply' = [reply EXCEPT ![r] = NoReply]
        BY <2>1 DEF LoopExit, PlaceRejected, PlaceUnknown, ApplyNotFound,
                    ApplyOpen, CancelFailed, CancelReturns, Settle
      <3> QED
        BY <1>2, <3>1, <3>2
    <2>2. ASSUME NEW price \in Prices, Decide(r, price) PROVE Real'
      <3>1. UNCHANGED <<orders, fills, reply>> /\ seq' = [seq EXCEPT ![r] = @ + 1]
        BY <2>2 DEF Decide, bookVars, marketVars
      <3>2. reply[r] = NoReply
        BY <1>1, <2>2 DEF Decide, Shape, Answering
      <3>3. \A q \in Runs : Kept(q)
        BY <1>1, <3>1, <3>2 DEF TypeOK
      <3> QED
        BY <3>1, <3>3, RealFrame
    <2>3. CASE PlaceAnswered(r) \/ Lookup(r)
      BY <2>3, RealAsk
    <2>4. CASE Submit(r)
      BY <2>4, RealSubmit
    <2>5. CASE ApplyFilled(r) \/ ApplyDone(r)
      BY <2>5, RealRecord
    <2>6. CASE CancelAccepted(r)
      BY <2>6, RealExchange
    <2> QED
      BY <1>5, <2>1, <2>2, <2>3, <2>4, <2>5, <2>6 DEF RunStep
  <1>6. CASE Tick
    <2>1. UNCHANGED <<orders, fills, seq>>
      BY <1>6 DEF Tick, bookVars, marketVars
    <2>2. \A x \in Replies : \A w : LET y == [x EXCEPT !.waited = w]
                                    IN  /\ y.state = x.state
                                        /\ y.executed = x.executed
      BY DEF Replies
    <2>3. ASSUME NEW q \in Runs PROVE Kept(q)
      <3>1. \/ reply'[q] = NoReply
            \/ /\ reply[q] # NoReply
               /\ reply'[q] = [reply[q] EXCEPT !.waited = reply[q].waited + 1]
        BY <1>6 DEF Tick
      <3>2. reply[q] \in Replies \/ reply[q] = NoReply
        BY <1>1 DEF TypeOK
      <3> QED
        BY <2>1, <2>2, <3>1, <3>2
    <2> QED
      BY <2>1, <2>3, RealFrame
  <1> QED
    BY <1>3, <1>4, <1>5, <1>6 DEF Next

-----------------------------------------------------------------------------
(***************************************************************************)
(* The theorems.  Ledgers is inductive for the grid alone and beside the   *)
(* balance requests: they move the provider among the exchanges that have  *)
(* a key and touch nothing else of the grid.                               *)
(***************************************************************************)
Ledgers == TypeShape /\ Books /\ Real

LEMMA InitLedgers == Init => Ledgers
  BY InitTypeShape, InitBooks, InitReal DEF Ledgers

LEMMA NextLedgers == Ledgers /\ [Next]_vars => Ledgers'
  BY NextTypeShape, BooksNext, RealNext DEF Ledgers

LEMMA PollLedgers ==
  ASSUME Ledgers, keys \subseteq Exchanges, PollStep
  PROVE  Ledgers' /\ keys' \subseteq Exchanges
  <1>1. UNCHANGED gridVars /\ provider' \in Exchanges /\ keys' = keys
    <2>1. provider \in Exchanges
      BY DEF Ledgers, TypeShape, TypeOK
    <2>2. PICK q \in Requests : Balances!RequestStep(q) /\ UNCHANGED gridVars
      BY DEF PollStep
    <2>3. provider' \in keys \cup {provider} /\ keys' = keys
      BY <2>2 DEF Balances!RequestStep, Balances!Begin, Balances!SaveOriginal,
                  Balances!SwitchTo, Balances!Fetch, Balances!SwitchBack,
                  Balances!Finish, Balances!Pointed, Balances!operatorVars
    <2> QED
      BY <2>1, <2>2, <2>3
  <1>2. TypeShape'
    BY <1>1 DEF Ledgers, TypeShape, TypeOK, Shape, LastOrder, gridVars
  <1>3. Books'
    BY <1>1 DEF Ledgers, Books, Unrecorded, LevelFree, Covered, Traded,
                LastOrder, gridVars
  <1>4. Real'
    BY <1>1 DEF Ledgers, Real, Executed, ExecutedByState, Told, LastOrder,
                gridVars
  <1> QED
    BY <1>1, <1>2, <1>3, <1>4 DEF Ledgers

\* Every held level answers for at most one order's quantity, so no level is
\* bought twice before a SELL released one (record).
THEOREM HeldCoversPositionHolds == Spec => []HeldCoversPosition
  <1>1. Ledgers => HeldCoversPosition
    BY DEF Ledgers, Books, Covered, HeldCoversPosition
  <1> QED
    BY <1>1, InitLedgers, NextLedgers, PTL DEF Spec

\* The trade counter, which the goroutines of all runs share, never counts an
\* order twice nor one that traded nothing (recordGridFill).
THEOREM TradesCountFillsHolds == Spec => []TradesCountFills
  <1>1. Ledgers => TradesCountFills
    BY DEF Ledgers, Books, Traded, TradesCountFills
  <1> QED
    BY <1>1, InitLedgers, NextLedgers, PTL DEF Spec

\* Both still hold, and no fill is invented, while balance requests move the
\* provider, so that lookups ask exchanges the order was never sent to
\* (reconcileGridOrder, GetAllBalances).
THEOREM LedgersUnderPolls == PollSpec => []Ledgers
  <1> DEFINE PollInv == Ledgers /\ keys \subseteq Exchanges
  <1>1. PollInit => PollInv
    BY InitLedgers DEF PollInit
  <1>2. PollInv /\ [PollNext]_<<vars, pollVars>> => PollInv'
    <2> SUFFICES ASSUME PollInv, [PollNext]_<<vars, pollVars>>
                 PROVE  PollInv'
      OBVIOUS
    <2>1. CASE GridStep \/ UNCHANGED <<vars, pollVars>>
      BY <2>1, NextLedgers DEF GridStep, pollVars
    <2>2. CASE PollStep
      BY <2>2, PollLedgers
    <2> QED
      BY <2>1, <2>2 DEF PollNext
  <1> QED
    BY <1>1, <1>2, PTL DEF PollSpec

\* Whichever exchange a lookup happens to ask, the book never records more of
\* an order than was executed (reconcileGridOrder, recordGridFill).
THEOREM FillsAreRealHolds == PollSpec => []FillsAreReal
  <1>1. Ledgers => FillsAreReal
    BY DEF Ledgers, Real, Executed, FillsAreReal
  <1> QED
    BY <1>1, LedgersUnderPolls, PTL

=============================================================================
