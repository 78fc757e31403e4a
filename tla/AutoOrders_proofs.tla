-------------------------- MODULE AutoOrders_proofs --------------------------
(***************************************************************************)
(* Proofs about the auto bot, for every set of symbols, every quantity and *)
(* every delay.  Types and the one-live-order rule hold for any number of  *)
(* runs; what relates the tracked positions to the account holds for the   *)
(* first run, because a later run shares its map of positions with the     *)
(* loop of an earlier one.                                                 *)
(***************************************************************************)
EXTENDS AutoOrders, TLAPS

\* gridUnknownGrace outlasts a submission in flight and an answer on its way.
GraceCoversDelays == MaxFlight + MaxCall < Grace

Tasks == [symbol : Symbols, side : Sides]
Slots == [Symbols -> PendingOrders \cup {NoOrder}]
ExchangeOrders ==
    [state : OrderStates, symbol : Symbols, side : Sides, size : 0 .. Quantity,
     executed : 0 .. Quantity]

\* The steps at which a loop has a symbol, a pending order, an answer.
Handling == {"asked", "composed", "placing", "placed", "looked", "cancelling",
             "closing"}
Ordering == {"composed", "placing", "placed", "looked", "cancelling"}
Answering == {"placed", "looked"}

\* What the step of a loop tells of its variables.
RunShape(r) ==
    /\ r > started => pc[r] = "off"
    /\ pc[r] = "off" => walk[r] = {} /\ \A s \in Symbols : pending[r][s] = NoOrder
    /\ pc[r] \in Handling => task[r] \in Tasks /\ task[r].symbol \notin walk[r]
    /\ pc[r] \in Ordering => Mine(r) # NoOrder
    /\ pc[r] = "closing" => Mine(r) = NoOrder
    /\ reply[r] # NoReply <=> pc[r] \in Answering
    /\ \A s \in Symbols :
          pending[r][s] # NoOrder =>
              /\ pending[r][s].id[1] = r
              /\ pending[r][s].id[2] \in 1 .. seq[r]

TypeShape == TypeOK /\ \A r \in Runs : RunShape(r)

-----------------------------------------------------------------------------
(***************************************************************************)
(* Facts about the helpers.                                                *)
(***************************************************************************)
LEMMA Put ==
  ASSUME NEW S, NEW T, NEW V, NEW f \in [S -> [T -> V]],
         NEW a \in S, NEW b \in T, NEW v \in V
  PROVE  /\ [f EXCEPT ![a][b] = v] \in [S -> [T -> V]]
         /\ \A p \in S : \A q \in T :
               [f EXCEPT ![a][b] = v][p][q] = IF p = a /\ q = b THEN v ELSE f[p][q]
  <1>1. [f[a] EXCEPT ![b] = v] \in [T -> V]
    OBVIOUS
  <1>2. [f EXCEPT ![a][b] = v] = [f EXCEPT ![a] = [f[a] EXCEPT ![b] = v]]
    OBVIOUS
  <1> QED
    BY <1>1, <1>2

LEMMA PendingIsNoOrder ==
  ASSUME NEW x \in PendingOrders PROVE x # NoOrder
  BY DEF PendingOrders, NoOrder, Sides

LEMMA ReplyIsNoReply ==
  ASSUME NEW x \in Replies PROVE x # NoReply
  BY DEF Replies, NoReply

LEMMA AgeCapType ==
  AgeCap \in Nat /\ MaxAge <= AgeCap /\ Grace <= AgeCap /\ MaxFlight <= AgeCap
  BY AutoBounds, SMT DEF AgeCap

LEMMA SlotType ==
  ASSUME TypeOK, NEW q \in Runs, NEW t \in Symbols, pending[q][t] # NoOrder
  PROVE  pending[q][t] \in PendingOrders /\ pending[q][t].id \in OrderIds
  <1>1. pending[q][t] \in PendingOrders
    BY DEF TypeOK
  <1>2. \A p \in PendingOrders : p.id \in OrderIds
    BY DEF PendingOrders
  <1> QED
    BY <1>1, <1>2

LEMMA SizeType ==
  ASSUME TypeOK, NEW s \in Symbols, NEW side \in Sides
  PROVE  /\ Size(s, side) \in 1 .. Quantity
         /\ side = "SELL" /\ tracked[s] > 0 => Size(s, side) <= tracked[s]
  <1>1. Quantity \in 1 .. Quantity /\ tracked[s] \in Nat /\ Quantity \in Nat
    BY AutoBounds DEF TypeOK
  <1> QED
    BY <1>1 DEF Size

LEMMA ReportsType ==
  ASSUME TypeOK, NEW o \in OrderIds, NEW rep \in Reports(o) \cup {Reply("open", 0)}
  PROVE  rep \in Replies /\ rep.waited = 0
  <1>1. orders[o].executed \in 0 .. Quantity
    BY DEF TypeOK
  <1>2. 0 \in 0 .. Quantity /\ 0 \in 0 .. MaxCall
    BY AutoBounds
  <1> QED
    BY <1>1, <1>2 DEF Reports, Reply, Replies

\* The types of everything a loop with a task reads of its order.
LEMMA MineTypes ==
  ASSUME TypeShape, NEW r \in Runs, pc[r] \in Handling
  PROVE  /\ task[r].symbol \in Symbols /\ task[r].side \in Sides
         /\ Mine(r) = pending[r][task[r].symbol]
         /\ Mine(r) # NoOrder =>
               /\ Mine(r) \in PendingOrders /\ Mine(r).id \in OrderIds
               /\ Mine(r).side \in Sides /\ Mine(r).size \in 1 .. Quantity
               /\ Mine(r).age \in Nat
               /\ Mine(r).id[1] = r /\ Mine(r).id[2] \in 1 .. seq[r]
  <1>1. task[r].symbol \in Symbols /\ task[r].side \in Sides
    BY DEF TypeShape, RunShape, Tasks
  <1>2. Mine(r) \in PendingOrders \cup {NoOrder}
    BY <1>1 DEF TypeShape, TypeOK, Mine
  <1>3. \A x \in PendingOrders : /\ x.id \in OrderIds /\ x.side \in Sides
                                 /\ x.size \in 1 .. Quantity /\ x.age \in Nat
    BY AgeCapType DEF PendingOrders
  <1> QED
    BY <1>1, <1>2, <1>3 DEF TypeShape, RunShape, Mine

-----------------------------------------------------------------------------
(***************************************************************************)
(* Types.                                                                  *)
(***************************************************************************)
USE DEF Runs, NoRun

LEMMA InitTypeShape == Init => TypeShape
  <1> SUFFICES ASSUME Init PROVE TypeShape
    OBVIOUS
  <1>1. 0 \in 0 .. Quantity /\ 0 \in 0 .. MaxOrders /\ 0 \in 0 .. MaxRuns
    BY AutoBounds
  <1>2. (CHOOSE s \in Symbols : TRUE) \in Symbols
    BY AutoBounds
  <1>3. orders \in [OrderIds -> ExchangeOrders]
    BY <1>1, <1>2 DEF Init, ExchangeOrders, OrderStates, Sides
  <1>4. TypeOK
    BY <1>1, <1>3 DEF Init, TypeOK, PCs, Nothing, ExchangeOrders
  <1>5. \A r \in Runs : RunShape(r)
    BY AutoBounds DEF Init, RunShape, Handling, Ordering, Answering
  <1> QED
    BY <1>4, <1>5 DEF TypeShape

\* A step of one loop leaves the shape of the others alone.
LEMMA OtherShape ==
  ASSUME NEW q \in Runs, RunShape(q),
         /\ pc'[q] = pc[q]           /\ task'[q] = task[q]
         /\ walk'[q] = walk[q]       /\ pending'[q] = pending[q]
         /\ reply'[q] = reply[q]     /\ seq'[q] = seq[q],
         started' = started
  PROVE  RunShape(q)'
  BY DEF RunShape, Mine

LEMMA ControlTypeShape ==
  ASSUME TypeShape, Start \/ Stop \/ Crash
  PROVE  TypeShape'
  <1> USE AutoBounds DEF TypeShape, TypeOK, Nothing
  <1>1. CASE Start
    <2>1. started + 1 \in 1 .. MaxRuns /\ started \in Nat
      BY <1>1 DEF Start
    <2>2. TypeOK'
      BY <1>1, <2>1 DEF Start, PCs, marketVars
    <2>3. ASSUME NEW r \in Runs PROVE RunShape(r)'
      <3>1. RunShape(r)
        OBVIOUS
      <3>2. CASE r = started + 1
        <4>1. pc[r] = "off"
          BY <2>1, <3>1, <3>2 DEF RunShape
        <4>2. pc'[r] = "idle" /\ ~(r > started')
          BY <1>1, <2>1, <3>2 DEF Start
        <4> QED
          BY <1>1, <3>1, <4>1, <4>2 DEF Start, RunShape, Handling, Ordering, Answering
      <3>3. CASE r # started + 1
        <4>1. pc'[r] = pc[r] /\ (r > started' => r > started)
          BY <1>1, <2>1, <3>3 DEF Start
        <4> QED
          BY <1>1, <3>1, <4>1 DEF Start, RunShape, Mine
      <3> QED
        BY <3>2, <3>3
    <2> QED
      BY <2>2, <2>3
  <1>2. CASE Stop
    <2>1. TypeOK'
      BY <1>2 DEF Stop, marketVars
    <2>2. \A r \in Runs : RunShape(r)'
      BY <1>2, OtherShape DEF Stop
    <2> QED
      BY <2>1, <2>2
  <1>3. CASE Crash
    <2>1. TypeOK'
      BY <1>3 DEF Crash, marketVars, PCs
    <2>2. ASSUME NEW r \in Runs PROVE RunShape(r)'
      BY <1>3 DEF Crash, RunShape, Handling, Ordering, Answering, Mine
    <2> QED
      BY <2>1, <2>2
  <1> QED
    BY <1>1, <1>2, <1>3

\* What a loop does by itself: it leaves, takes up a task or walks on.
LEMMA IdleTypeShape ==
  ASSUME TypeShape, NEW r \in Runs,
         \/ LoopExit(r) \/ BeginWalk(r)
         \/ \E s \in Symbols : \/ \E side \in Sides : Signal(r, s, side)
                               \/ VisitSells(r, s) \/ VisitPasses(r, s)
  PROVE  TypeShape'
  <1>1. TypeOK /\ RunShape(r) /\ pc[r] = "idle"
    BY DEF TypeShape, LoopExit, BeginWalk, Signal, VisitSells, VisitPasses
  <1>2. UNCHANGED <<serviceVars, tracked, pending, reply, seq, marketVars>>
    BY DEF LoopExit, BeginWalk, Signal, VisitSells, VisitPasses, Ask
  <1>3. \A q \in Runs : q # r =>
            /\ pc'[q] = pc[q] /\ task'[q] = task[q] /\ walk'[q] = walk[q]
    BY <1>1 DEF LoopExit, BeginWalk, Signal, VisitSells, VisitPasses, Ask, TypeOK
  <1> DEFINE Moved ==
        /\ pc' \in [Runs -> PCs] /\ walk' \in [Runs -> SUBSET Symbols]
        /\ task' \in [Runs -> Tasks \cup {NoTask}]
        /\ pc'[r] \in {"idle", "ended", "asked"}
        /\ pc'[r] = "asked" => task'[r] \in Tasks /\ task'[r].symbol \notin walk'[r]
  <1>4. Moved
    <2>1. CASE LoopExit(r) \/ BeginWalk(r)
      BY <1>1, <2>1 DEF LoopExit, BeginWalk, TypeOK, PCs, Tasks
    <2>2. ASSUME NEW s \in Symbols, NEW side \in Sides, Signal(r, s, side)
          PROVE  Moved
      BY <1>1, <2>2 DEF Signal, Ask, TypeOK, PCs, Tasks
    <2>3. ASSUME NEW s \in Symbols, VisitSells(r, s)
          PROVE  Moved
      BY <1>1, <2>3 DEF VisitSells, Ask, TypeOK, PCs, Tasks, Sides
    <2>4. ASSUME NEW s \in Symbols, VisitPasses(r, s)
          PROVE  Moved
      BY <1>1, <2>4 DEF VisitPasses, TypeOK, PCs, Tasks
    <2> QED
      BY <2>1, <2>2, <2>3, <2>4
  <1>5. TypeOK'
    BY <1>1, <1>2, <1>4 DEF TypeOK, Tasks, serviceVars, marketVars
  <1>6. \A q \in Runs : q # r => RunShape(q)'
    BY <1>2, <1>3, OtherShape DEF TypeShape, serviceVars
  <1>7. RunShape(r)'
    BY <1>1, <1>2, <1>4 DEF RunShape, serviceVars, Handling, Ordering, Answering
  <1> QED
    BY <1>5, <1>6, <1>7 DEF TypeShape

LEMMA ComposeTypeShape ==
  ASSUME TypeShape, NEW r \in Runs, Compose(r)
  PROVE  TypeShape'
  <1> DEFINE s == task[r].symbol
             n == seq[r] + 1
             new == [id |-> <<r, n>>, side |-> task[r].side,
                     size |-> Size(s, task[r].side), age |-> 0,
                     sinceCancel |-> CancelRetry]
  <1>1. /\ TypeOK /\ RunShape(r) /\ pc[r] = "asked"
        /\ seq[r] \in 0 .. MaxOrders /\ seq[r] < MaxOrders
    BY DEF TypeShape, TypeOK, Compose
  <1>2. s \in Symbols /\ task[r].side \in Sides
    BY <1>1, MineTypes DEF Handling
  <1>3. n \in 1 .. MaxOrders /\ <<r, n>> \in OrderIds
    BY <1>1, AutoBounds DEF OrderIds
  <1>4. new \in PendingOrders
    <2>1. 0 \in 0 .. AgeCap /\ CancelRetry \in 0 .. CancelRetry
      BY AgeCapType, AutoBounds
    <2>2. Size(s, task[r].side) \in 1 .. Quantity
      BY <1>1, <1>2, SizeType
    <2> HIDE DEF s, n
    <2> QED
      BY <1>2, <1>3, <2>1, <2>2 DEF PendingOrders
  <1>5. /\ seq' = [seq EXCEPT ![r] = n]
        /\ pc' = [pc EXCEPT ![r] = "composed"]
        /\ UNCHANGED <<serviceVars, tracked, task, walk, reply, marketVars>>
    BY DEF Compose
  <1>6. seq'[r] = n /\ seq' \in [Runs -> 0 .. MaxOrders]
    BY <1>1, <1>3, <1>5 DEF TypeOK
  <1>7. pending' = [pending EXCEPT ![r][s] = new]
    BY <1>6 DEF Compose
  <1>8. new.id[1] = r /\ new.id[2] = n
    OBVIOUS
  <1> HIDE DEF s, n, new
  <1>9. /\ pending' \in [Runs -> Slots]
        /\ \A q \in Runs : \A t \in Symbols :
              pending'[q][t] = IF q = r /\ t = s THEN new ELSE pending[q][t]
    <2>1. pending \in [Runs -> [Symbols -> PendingOrders \cup {NoOrder}]]
      BY <1>1 DEF TypeOK
    <2>2. new \in PendingOrders \cup {NoOrder}
      BY <1>4
    <2>3. r \in Runs
      OBVIOUS
    <2> HIDE DEF Runs
    <2> QED
      BY <1>2, <1>7, <2>1, <2>2, <2>3, Put DEF Slots
  <1>10. TypeOK'
    BY <1>1, <1>5, <1>6, <1>9 DEF TypeOK, Slots, PCs, serviceVars, marketVars
  <1>11. RunShape(r)'
    <2>1. pc'[r] = "composed" /\ task' = task /\ s = task'[r].symbol
      BY <1>1, <1>5 DEF TypeOK, s
    <2>2. Mine(r)' # NoOrder
      BY <1>2, <1>4, <1>9, <2>1, PendingIsNoOrder DEF Mine
    <2>3. ASSUME NEW t \in Symbols, pending'[r][t] # NoOrder
          PROVE  pending'[r][t].id[1] = r /\ pending'[r][t].id[2] \in 1 .. seq'[r]
      <3>1. CASE t = s
        BY <1>3, <1>6, <1>8, <1>9, <3>1
      <3>2. CASE t # s
        BY <1>1, <1>6, <1>9, <2>3, <3>2 DEF RunShape, n
      <3> QED
        BY <3>1, <3>2
    <2> QED
      BY <1>1, <1>5, <2>1, <2>2, <2>3
         DEF RunShape, Handling, Ordering, Answering, serviceVars
  <1>12. \A q \in Runs : q # r => RunShape(q)'
    <2> SUFFICES ASSUME NEW q \in Runs, q # r PROVE RunShape(q)'
      OBVIOUS
    <2>1. \A t \in Symbols : pending'[q][t] = pending[q][t]
      BY <1>9
    <2>2. pc'[q] = pc[q] /\ seq'[q] = seq[q]
      BY <1>1, <1>5 DEF TypeOK
    <2>3. pending'[q] = pending[q]
      BY <1>1, <1>9, <2>1 DEF TypeOK, Slots
    <2> QED
      BY <1>5, <2>2, <2>3, OtherShape DEF TypeShape, serviceVars
  <1> QED
    BY <1>10, <1>11, <1>12 DEF TypeShape


-----------------------------------------------------------------------------
(***************************************************************************)
(* The steps of a loop that has taken up a task all have the same frame:   *)
(* only its own variables move, and of the pending orders only the one of  *)
(* its symbol, which is forgotten or keeps its identity.                   *)
(***************************************************************************)
Moved(r) ==
    /\ pc' \in [Runs -> PCs]
    /\ task' \in [Runs -> Tasks \cup {NoTask}]
    /\ \A q \in Runs : q # r => pc'[q] = pc[q] /\ task'[q] = task[q]
    /\ \/ pc'[r] = "idle"
       \/ pc'[r] \in Handling \ {"composed"} /\ task'[r] = task[r]

SameOrder(p, q) ==
    p # NoOrder /\ p.id = q.id /\ p.side = q.side /\ p.size = q.size /\ p.age = q.age

Kept(r) ==
    LET s == task[r].symbol
    IN  /\ pending' \in [Runs -> Slots]
        /\ \A q \in Runs : q # r => pending'[q] = pending[q]
        /\ \A t \in Symbols : t # s => pending'[r][t] = pending[r][t]
        /\ \/ pending'[r][s] = NoOrder
           \/ pending[r][s] # NoOrder /\ SameOrder(pending'[r][s], pending[r][s])
        /\ pc'[r] \in Ordering => pending'[r][s] # NoOrder
        /\ pc'[r] = "closing" => pending'[r][s] = NoOrder

Heard(r) ==
    /\ reply' \in [Runs -> Replies \cup {NoReply}]
    /\ \A q \in Runs : q # r => reply'[q] = reply[q]
    /\ reply'[r] # NoReply <=> pc'[r] \in Answering

Worked(r) ==
    /\ pc[r] \in Handling
    /\ UNCHANGED <<serviceVars, walk, seq, inventory>>
    /\ Moved(r) /\ Kept(r) /\ Heard(r)
    /\ tracked' \in [Symbols -> Nat]
    /\ orders' \in [OrderIds -> ExchangeOrders]

LEMMA WorkedTypeShape ==
  ASSUME TypeShape, NEW r \in Runs, Worked(r)
  PROVE  TypeShape'
  <1>1. TypeOK /\ RunShape(r) /\ task[r].symbol \in Symbols
    BY MineTypes DEF TypeShape, Worked
  <1>2. TypeOK'
    BY <1>1 DEF Worked, Moved, Kept, Heard, TypeOK, Slots, ExchangeOrders, Tasks,
                serviceVars
  <1>3. \A q \in Runs : q # r => RunShape(q)'
    BY OtherShape DEF TypeShape, Worked, Moved, Kept, Heard, serviceVars
  <1>4. RunShape(r)'
    <2>1. ASSUME NEW t \in Symbols, pending'[r][t] # NoOrder
          PROVE  pending'[r][t].id[1] = r /\ pending'[r][t].id[2] \in 1 .. seq'[r]
      BY <1>1, <2>1 DEF Worked, Kept, SameOrder, RunShape
    <2>2. pc'[r] \in Handling => task'[r] = task[r] /\ walk' = walk
      BY DEF Worked, Moved, Handling
    <2>3. pc'[r] # "off" /\ ~(r > started')
      BY <1>1 DEF Worked, Moved, Handling, RunShape, serviceVars
    <2>4. pc'[r] \in Ordering \cup {"closing"} => pc'[r] \in Handling
      BY DEF Ordering, Handling
    <2>5. reply'[r] # NoReply <=> pc'[r] \in Answering
      BY DEF Worked, Heard
    <2>6. /\ pc'[r] \in Ordering => pending'[r][task[r].symbol] # NoOrder
          /\ pc'[r] = "closing" => pending'[r][task[r].symbol] = NoOrder
      BY DEF Worked, Kept
    <2>7. pc[r] \in Handling => task[r] \in Tasks /\ task[r].symbol \notin walk[r]
      BY <1>1 DEF RunShape
    <2>8. pc[r] \in Handling
      BY DEF Worked
    <2> QED
      BY <2>1, <2>2, <2>3, <2>4, <2>5, <2>6, <2>7, <2>8 DEF RunShape, Mine
  <1> QED
    BY <1>2, <1>3, <1>4 DEF TypeShape

LEMMA ReturnMoves ==
  ASSUME TypeOK, NEW r \in Runs, Return(r)
  PROVE  Moved(r) /\ pc'[r] = "idle"
  BY DEF Return, Moved, TypeOK, PCs, Tasks

\* Putting an order of the same identity, or none, into the loop's own slot.
LEMMA SlotKept ==
  ASSUME TypeShape, NEW r \in Runs, pc[r] \in Handling,
         NEW new \in PendingOrders \cup {NoOrder},
         pending' = [pending EXCEPT ![r][task[r].symbol] = new],
         new # NoOrder => Mine(r) # NoOrder /\ SameOrder(new, Mine(r)),
         pc'[r] \in Ordering => new # NoOrder,
         pc'[r] = "closing" => new = NoOrder
  PROVE  Kept(r) /\ pending'[r][task[r].symbol] = new
  <1> DEFINE s == task[r].symbol
  <1>1. /\ s \in Symbols /\ r \in Runs
        /\ pending \in [Runs -> [Symbols -> PendingOrders \cup {NoOrder}]]
    BY MineTypes DEF TypeShape, TypeOK
  <1>2. Mine(r) = pending[r][s]
    BY DEF Mine
  <1> HIDE DEF s, Runs
  <1>3. /\ pending' \in [Runs -> [Symbols -> PendingOrders \cup {NoOrder}]]
        /\ \A q \in Runs : \A t \in Symbols :
              pending'[q][t] = IF q = r /\ t = s THEN new ELSE pending[q][t]
    BY <1>1, Put DEF s
  <1>4. \A q \in Runs : q # r => pending'[q] = pending[q]
    BY <1>1, <1>3
  <1> QED
    BY <1>1, <1>2, <1>3, <1>4 DEF Kept, Slots, s

LEMMA ForgetKept ==
  ASSUME TypeShape, NEW r \in Runs, pc[r] \in Handling, Forget(r),
         pc'[r] \notin Ordering
  PROVE  Kept(r) /\ pending'[r][task[r].symbol] = NoOrder
  BY SlotKept DEF Forget

LEMMA UnchangedKept ==
  ASSUME TypeShape, NEW r \in Runs, pc[r] \in Handling, UNCHANGED pending,
         pc'[r] \in Ordering => Mine(r) # NoOrder,
         pc'[r] = "closing" => Mine(r) = NoOrder
  PROVE  Kept(r)
  BY DEF TypeShape, TypeOK, Kept, Slots, SameOrder, Mine

\* Conclude forgets the order and goes on to the next step of its task.
LEMMA ConcludeMoves ==
  ASSUME TypeShape, NEW r \in Runs, NEW filled, Conclude(r, filled),
         pc[r] \in Answering
  PROVE  /\ Moved(r) /\ Kept(r) /\ Heard(r)
         /\ pending'[r][task[r].symbol] = NoOrder /\ reply'[r] = NoReply
         /\ pc'[r] \in {"idle", "asked", "closing"}
         /\ pc'[r] = "asked" =>
               /\ pc[r] = "looked" /\ ContextLive(r)
               /\ ~(filled /\ Mine(r).side = task[r].side)
  <1>1. TypeOK /\ pc[r] \in Handling
    BY DEF TypeShape, Answering, Handling
  <1>2. /\ Moved(r)
        /\ pc'[r] \in {"idle", "asked", "closing"}
        /\ pc'[r] = "asked" =>
              /\ pc[r] = "looked" /\ ContextLive(r)
              /\ ~(filled /\ Mine(r).side = task[r].side)
    <2>1. CASE Return(r)
      BY <1>1, <2>1, ReturnMoves
    <2>2. CASE ~Return(r)
      <3>1. /\ UNCHANGED task
            /\ \/ pc' = [pc EXCEPT ![r] = "closing"]
               \/ /\ pc' = [pc EXCEPT ![r] = "asked"]
                  /\ pc[r] = "looked" /\ ContextLive(r)
                  /\ ~(filled /\ Mine(r).side = task[r].side)
        BY <2>2 DEF Conclude
      <3> QED
        BY <1>1, <3>1 DEF Moved, TypeOK, PCs, Handling, Tasks
    <2> QED
      BY <2>1, <2>2
  <1>3. Kept(r) /\ pending'[r][task[r].symbol] = NoOrder
    BY <1>1, <1>2, ForgetKept DEF Conclude, Ordering
  <1>4. Heard(r) /\ reply'[r] = NoReply
    BY <1>1, <1>2 DEF Conclude, Heard, TypeOK, Answering
  <1> QED
    BY <1>2, <1>3, <1>4

\* The steps that leave the pending order and the exchange alone.
LEMMA QuietWorked ==
  ASSUME TypeShape, NEW r \in Runs,
         \/ PlaceAnswered(r) \/ PlaceUnknown(r) \/ Lookup(r) \/ LookupFailed(r)
         \/ CancelFailed(r) \/ ClosePosition(r)
  PROVE  Worked(r) /\ UNCHANGED <<pending, orders>>
  <1>1. TypeOK /\ RunShape(r)
    BY DEF TypeShape
  <1>2. /\ pc[r] \in Handling
        /\ UNCHANGED <<serviceVars, walk, seq, inventory, pending, orders>>
    BY DEF PlaceAnswered, PlaceUnknown, Lookup, LookupFailed, CancelFailed,
           CancelReturns, ClosePosition, Handling, marketVars
  <1>3. task[r].symbol \in Symbols /\ task[r] \in Tasks
    BY <1>1, <1>2, MineTypes DEF RunShape
  <1>4. orders' \in [OrderIds -> ExchangeOrders] /\ tracked' \in [Symbols -> Nat]
    <2>1. \/ UNCHANGED tracked
          \/ tracked' = [tracked EXCEPT ![task[r].symbol] = 0]
      BY DEF PlaceAnswered, PlaceUnknown, Lookup, LookupFailed, CancelFailed,
             CancelReturns, ClosePosition
    <2>2. tracked \in [Symbols -> Nat] /\ orders \in [OrderIds -> ExchangeOrders]
      BY <1>1 DEF TypeOK, ExchangeOrders
    <2>3. tracked' \in [Symbols -> Nat]
      BY <1>3, <2>1, <2>2
    <2>4. orders' = orders
      BY <1>2
    <2> QED
      BY <2>2, <2>3, <2>4
  <1>5. CASE PlaceAnswered(r) \/ Lookup(r)
    <2>1. Mine(r) # NoOrder
      BY <1>1, <1>5 DEF PlaceAnswered, Lookup, RunShape, Ordering
    <2>2. Mine(r).id \in OrderIds
      BY <1>2, <2>1, MineTypes
    <2>3. PICK rep \in Reports(Mine(r).id) \cup {Reply("open", 0)} :
             reply' = [reply EXCEPT ![r] = rep]
      <3>1. CASE PlaceAnswered(r)
        BY <3>1 DEF PlaceAnswered
      <3>2. CASE Lookup(r)
        BY <3>2 DEF Lookup
      <3> QED
        BY <1>5, <3>1, <3>2
    <2>4. rep \in Replies /\ rep # NoReply
      BY <1>1, <2>2, ReportsType, ReplyIsNoReply
    <2>5. UNCHANGED task /\ \E to \in {"placed", "looked"} : pc' = [pc EXCEPT ![r] = to]
      BY <1>5 DEF PlaceAnswered, Lookup
    <2>6. pc'[r] \in {"placed", "looked"} /\ Moved(r)
      BY <1>1, <2>5 DEF Moved, TypeOK, PCs, Handling, Tasks
    <2>7. Kept(r)
      BY <1>2, <2>1, <2>6, UnchangedKept
    <2>8. Heard(r)
      BY <1>1, <2>3, <2>4, <2>6 DEF Heard, TypeOK, Answering
    <2> QED
      BY <1>2, <1>4, <2>6, <2>7, <2>8 DEF Worked
  <1>6. CASE \/ PlaceUnknown(r) \/ LookupFailed(r) \/ CancelFailed(r)
             \/ ClosePosition(r)
    <2>1. Return(r) /\ UNCHANGED reply /\ pc[r] \notin Answering
      BY <1>6 DEF PlaceUnknown, LookupFailed, CancelFailed, CancelReturns,
                  ClosePosition, Answering
    <2>2. Moved(r) /\ pc'[r] = "idle"
      BY <1>1, <2>1, ReturnMoves
    <2>3. Kept(r)
      BY <1>2, <2>2, UnchangedKept DEF Ordering
    <2>4. Heard(r)
      BY <1>1, <2>1, <2>2 DEF Heard, TypeOK, RunShape, Answering
    <2> QED
      BY <1>2, <1>4, <2>2, <2>3, <2>4 DEF Worked
  <1> QED
    BY <1>5, <1>6

LEMMA RecordType ==
  ASSUME TypeShape, NEW r \in Runs, pc[r] \in Answering, NEW qty \in Nat,
         Record(r, qty)
  PROVE  tracked' \in [Symbols -> Nat]
  <1>1. task[r].symbol \in Symbols /\ tracked \in [Symbols -> Nat]
    BY MineTypes DEF TypeShape, TypeOK, Answering, Handling
  <1> QED
    BY <1>1 DEF Record

\* The steps that apply an answer, or the rejection of a submission.
LEMMA ApplyWorked ==
  ASSUME TypeShape, NEW r \in Runs,
         \/ PlaceRejected(r) \/ ApplyFilled(r) \/ ApplyDone(r)
         \/ ApplyNotFound(r) \/ ApplyOpen(r)
  PROVE  Worked(r) /\ UNCHANGED orders
  <1>1. TypeOK /\ RunShape(r)
    BY DEF TypeShape
  <1>2. /\ pc[r] \in Handling /\ pc[r] \in Ordering
        /\ PlaceRejected(r) \/ pc[r] \in Answering
        /\ UNCHANGED <<serviceVars, walk, seq, inventory, orders>>
    BY DEF PlaceRejected, ApplyFilled, ApplyDone, ApplyNotFound, ApplyOpen,
           Answered, Handling, Ordering, Answering, marketVars
  <1>3. Mine(r) # NoOrder /\ Mine(r) \in PendingOrders /\ Mine(r).size \in 1 .. Quantity
    BY <1>1, <1>2, MineTypes DEF RunShape
  <1>4. orders' \in [OrderIds -> ExchangeOrders] /\ tracked \in [Symbols -> Nat]
    BY <1>1, <1>2 DEF TypeOK, ExchangeOrders
  <1>5. pc[r] \in Answering => reply[r] \in Replies /\ reply[r].executed \in Nat
    BY <1>1, AutoBounds DEF RunShape, TypeOK, Replies
  <1>6. CASE PlaceRejected(r)
    <2>1. Moved(r) /\ pc'[r] = "idle" /\ UNCHANGED <<reply, tracked>>
      BY <1>1, <1>6, ReturnMoves DEF PlaceRejected
    <2>2. Kept(r)
      BY <1>2, <1>6, <2>1, ForgetKept DEF PlaceRejected, Ordering
    <2>3. Heard(r)
      BY <1>1, <1>6, <2>1 DEF Heard, TypeOK, RunShape, Answering, PlaceRejected
    <2> QED
      BY <1>2, <1>4, <2>1, <2>2, <2>3 DEF Worked
  <1>7. CASE ApplyFilled(r)
    <2>1. pc[r] \in Answering /\ Conclude(r, TRUE)
      BY <1>7 DEF ApplyFilled, Answered, Answering
    <2>2. tracked' \in [Symbols -> Nat]
      BY <1>3, <1>5, <1>7, <2>1, RecordType, AutoBounds DEF ApplyFilled
    <2> QED
      BY <1>2, <1>4, <2>1, <2>2, ConcludeMoves DEF Worked
  <1>8. CASE ApplyDone(r)
    <2>1. pc[r] \in Answering /\ Conclude(r, reply[r].executed >= Mine(r).size)
      BY <1>8 DEF ApplyDone, Answered, Answering
    <2>2. tracked' \in [Symbols -> Nat]
      BY <1>4, <1>5, <1>8, <2>1, RecordType DEF ApplyDone
    <2> QED
      BY <1>2, <1>4, <2>1, <2>2, ConcludeMoves DEF Worked
  <1>9. CASE ApplyNotFound(r) \/ ApplyOpen(r)
    <2>1. pc[r] \in Answering /\ UNCHANGED tracked
      BY <1>9 DEF ApplyNotFound, ApplyOpen, Answered, Answering
    <2>2. CASE Conclude(r, FALSE)
      BY <1>2, <1>4, <2>1, <2>2, ConcludeMoves DEF Worked
    <2>3. CASE Dismiss(r) /\ UNCHANGED pending
      <3>1. Moved(r) /\ pc'[r] = "idle"
        BY <1>1, <2>3, ReturnMoves DEF Dismiss
      <3>2. Kept(r)
        BY <1>2, <2>3, <3>1, UnchangedKept DEF Ordering
      <3>3. Heard(r)
        BY <1>1, <2>3, <3>1 DEF Heard, TypeOK, Answering, Dismiss
      <3> QED
        BY <1>2, <1>4, <2>1, <3>1, <3>2, <3>3 DEF Worked
    <2>4. CASE ~Conclude(r, FALSE) /\ ~(Dismiss(r) /\ UNCHANGED pending)
      <3> DEFINE new == [Mine(r) EXCEPT !.sinceCancel = 0]
      <3>1. /\ pending' = [pending EXCEPT ![r][task[r].symbol].sinceCancel = 0]
            /\ pc' = [pc EXCEPT ![r] = "cancelling"]
            /\ reply' = [reply EXCEPT ![r] = NoReply]
            /\ UNCHANGED task
        BY <1>9, <2>4 DEF ApplyNotFound, ApplyOpen
      <3>2. pending' = [pending EXCEPT ![r][task[r].symbol] = new]
        BY <3>1 DEF Mine
      <3>3. new \in PendingOrders /\ new # NoOrder /\ SameOrder(new, Mine(r))
        <4>1. 0 \in 0 .. CancelRetry
          BY AutoBounds
        <4>2. \A x \in 0 .. CancelRetry : \A p \in PendingOrders :
                 LET q == [p EXCEPT !.sinceCancel = x]
                 IN  /\ q \in PendingOrders /\ q.id = p.id /\ q.side = p.side
                     /\ q.size = p.size /\ q.age = p.age
          BY DEF PendingOrders
        <4> QED
          BY <1>3, <4>1, <4>2, PendingIsNoOrder DEF SameOrder
      <3> HIDE DEF new
      <3>4. Moved(r) /\ pc'[r] = "cancelling"
        BY <1>1, <3>1 DEF Moved, TypeOK, PCs, Handling, Tasks
      <3>5. Kept(r)
        BY <1>2, <1>3, <3>2, <3>3, <3>4, SlotKept
      <3>6. Heard(r)
        BY <1>1, <3>1, <3>4 DEF Heard, TypeOK, Answering
      <3> QED
        BY <1>2, <1>4, <2>1, <3>4, <3>5, <3>6 DEF Worked
    <2> QED
      BY <2>2, <2>3, <2>4
  <1> QED
    BY <1>6, <1>7, <1>8, <1>9

\* The steps that reach the exchange.
LEMMA ReachWorked ==
  ASSUME TypeShape, NEW r \in Runs, Submit(r) \/ CancelAccepted(r)
  PROVE  /\ Worked(r) /\ UNCHANGED <<pending, reply, tracked>>
         /\ Mine(r) # NoOrder /\ Mine(r).id \in OrderIds
  <1>1. TypeOK /\ RunShape(r)
    BY DEF TypeShape
  <1>2. /\ pc[r] \in Handling /\ pc[r] \in Ordering /\ pc[r] \notin Answering
        /\ UNCHANGED <<serviceVars, walk, seq, inventory, pending, reply, tracked>>
    BY DEF Submit, CancelAccepted, CancelReturns, Handling, Ordering, Answering
  <1>3. /\ Mine(r) # NoOrder /\ Mine(r).id \in OrderIds /\ Mine(r).side \in Sides
        /\ Mine(r).size \in 1 .. Quantity /\ task[r].symbol \in Symbols
    BY <1>1, <1>2, MineTypes DEF RunShape
  <1>4. tracked' \in [Symbols -> Nat] /\ orders \in [OrderIds -> ExchangeOrders]
    BY <1>1, <1>2 DEF TypeOK, ExchangeOrders
  <1>5. orders' \in [OrderIds -> ExchangeOrders]
    <2>1. CASE Submit(r)
      <3> DEFINE new == [state |-> IF ContextLive(r) THEN "flight" ELSE "lost",
                         symbol |-> task[r].symbol, side |-> Mine(r).side,
                         size |-> Mine(r).size, executed |-> 0]
      <3>1. 0 \in 0 .. Quantity /\ Mine(r).size \in 0 .. Quantity
        BY <1>3, AutoBounds
      <3>2. new \in ExchangeOrders
        BY <1>3, <3>1 DEF ExchangeOrders, OrderStates
      <3>3. orders' = [orders EXCEPT ![Mine(r).id] = new]
        BY <2>1 DEF Submit
      <3> HIDE DEF new
      <3> QED
        BY <1>3, <1>4, <3>2, <3>3
    <2>2. CASE CancelAccepted(r)
      BY <1>3, <1>4, <2>2 DEF CancelAccepted, ExchangeOrders, OrderStates
    <2> QED
      BY <2>1, <2>2
  <1>6. Moved(r) /\ pc'[r] \in {"placing", "idle"}
    <2>1. CASE Submit(r)
      BY <1>1, <2>1 DEF Submit, Moved, TypeOK, PCs, Handling, Tasks
    <2>2. CASE CancelAccepted(r)
      BY <1>1, <2>2, ReturnMoves DEF CancelAccepted, CancelReturns
    <2> QED
      BY <2>1, <2>2
  <1>7. Kept(r)
    BY <1>2, <1>3, <1>6, UnchangedKept
  <1>8. Heard(r)
    BY <1>1, <1>2, <1>6 DEF Heard, TypeOK, RunShape, Answering
  <1> QED
    BY <1>2, <1>3, <1>4, <1>5, <1>6, <1>7, <1>8 DEF Worked

-----------------------------------------------------------------------------
(***************************************************************************)
(* The exchange and the clock.                                             *)
(***************************************************************************)
LEMMA ExecuteType ==
  ASSUME TypeShape, NEW o \in OrderIds, NEW qty \in 1 .. Quantity, Execute(o, qty)
  PROVE  /\ orders' \in [OrderIds -> ExchangeOrders]
         /\ inventory' \in [Runs -> [Symbols -> Int]]
         /\ \A r \in Runs : \A s \in Symbols :
               inventory'[r][s] =
                   IF r = o[1] /\ s = orders[o].symbol
                   THEN IF orders[o].side = "BUY" THEN inventory[r][s] + qty
                        ELSE inventory[r][s] - qty
                   ELSE inventory[r][s]
  <1> DEFINE total == orders[o].executed + qty
             s == orders[o].symbol
             i == inventory[o[1]][s]
             now == IF orders[o].side = "BUY" THEN i + qty ELSE i - qty
  <1>1. /\ o[1] \in Runs /\ orders \in [OrderIds -> ExchangeOrders]
        /\ inventory \in [Runs -> [Symbols -> Int]]
    BY DEF TypeShape, TypeOK, ExchangeOrders, OrderIds
  <1>2. /\ orders[o].executed \in Nat /\ orders[o].size \in Nat
        /\ orders[o].size <= Quantity /\ s \in Symbols /\ orders[o] \in ExchangeOrders
    BY <1>1, AutoBounds DEF ExchangeOrders
  <1>3. qty \in Nat /\ total \in 0 .. Quantity
    BY <1>2, AutoBounds DEF Execute
  <1>4. orders' \in [OrderIds -> ExchangeOrders]
    <2> DEFINE state == IF total = orders[o].size THEN "filled" ELSE "open"
               new == [orders[o] EXCEPT !.executed = total, !.state = state]
    <2>1. orders' = [orders EXCEPT ![o] = new]
      BY DEF Execute
    <2>2. state \in OrderStates
      BY DEF OrderStates
    <2> HIDE DEF total, state
    <2>3. new \in ExchangeOrders
      BY <1>2, <1>3, <2>2 DEF ExchangeOrders
    <2> HIDE DEF new
    <2> QED
      BY <1>1, <2>1, <2>3
  <1>5. now \in Int /\ inventory' = [inventory EXCEPT ![o[1]][s] = now]
    <2>1. i \in Int
      BY <1>1, <1>2
    <2> QED
      BY <1>3, <2>1 DEF Execute
  <1> DEFINE account == o[1]
  <1>6. account \in Runs
    BY <1>1
  <1>7. /\ inventory' \in [Runs -> [Symbols -> Int]]
        /\ \A q \in Runs : \A t \in Symbols :
              inventory'[q][t] = IF q = o[1] /\ t = s THEN now ELSE inventory[q][t]
    <2> HIDE DEF Runs, now, s
    <2> QED
      BY <1>1, <1>2, <1>5, Put
  <1> QED
    BY <1>4, <1>7

LEMMA ExchangeTypeShape ==
  ASSUME TypeShape, NEW o \in OrderIds, ExchangeStep(o)
  PROVE  TypeShape'
  <1>1. TypeOK /\ orders \in [OrderIds -> ExchangeOrders]
    BY DEF TypeShape, TypeOK, ExchangeOrders
  <1>2. UNCHANGED <<serviceVars, tracked, pc, task, walk, seq, pending, reply>>
    BY DEF ExchangeStep, Arrive, Execute, Expire, loopVars
  <1>3. \A r \in Runs : RunShape(r)'
    BY <1>2, OtherShape DEF TypeShape, serviceVars
  <1>4. orders' \in [OrderIds -> ExchangeOrders] /\ inventory' \in [Runs -> [Symbols -> Int]]
    <2>1. CASE Arrive(o) \/ Expire(o)
      BY <1>1, <2>1 DEF Arrive, Expire, ExchangeOrders, OrderStates, TypeOK
    <2>2. CASE \E qty \in 1 .. Quantity : Execute(o, qty)
      BY <2>2, ExecuteType
    <2> QED
      BY <2>1, <2>2 DEF ExchangeStep
  <1> QED
    BY <1>1, <1>2, <1>3, <1>4 DEF TypeShape, TypeOK, ExchangeOrders, serviceVars

\* An order one tick older is the same order.
LEMMA OlderType ==
  ASSUME NEW p \in PendingOrders
  PROVE  /\ Older(p) \in PendingOrders /\ Older(p) # NoOrder
         /\ Older(p).id = p.id /\ Older(p).side = p.side /\ Older(p).size = p.size
         /\ Older(p).age \in Nat /\ p.age \in Nat /\ Older(p).age <= p.age + 1
  <1> DEFINE age == IF p.age < AgeCap THEN p.age + 1 ELSE p.age
             since == IF p.sinceCancel < CancelRetry THEN p.sinceCancel + 1
                      ELSE p.sinceCancel
  <1>1. /\ age \in 0 .. AgeCap /\ age \in Nat /\ p.age \in Nat
        /\ age <= p.age + 1
    BY AgeCapType DEF PendingOrders
  <1>2. since \in 0 .. CancelRetry
    BY AutoBounds DEF PendingOrders
  <1>3. Older(p) = [p EXCEPT !.age = age, !.sinceCancel = since]
    BY PendingIsNoOrder DEF Older
  <1> HIDE DEF age, since
  <1>4. /\ Older(p) \in PendingOrders
        /\ Older(p).id = p.id /\ Older(p).side = p.side /\ Older(p).size = p.size
        /\ Older(p).age = age
    BY <1>1, <1>2, <1>3 DEF PendingOrders
  <1> QED
    BY <1>1, <1>4, PendingIsNoOrder

\* What a tick makes of every pending order and every answer.
LEMMA TickFrame ==
  ASSUME TypeShape, Tick
  PROVE  /\ UNCHANGED <<serviceVars, tracked, pc, task, walk, seq, marketVars>>
         /\ pending' \in [Runs -> Slots]
         /\ reply' \in [Runs -> Replies \cup {NoReply}]
         /\ \A r \in Runs : \A s \in Symbols :
               /\ pending[r][s] = NoOrder => pending'[r][s] = NoOrder
               /\ pending[r][s] # NoOrder =>
                     /\ pending'[r][s] # NoOrder
                     /\ pending'[r][s].id = pending[r][s].id
                     /\ pending'[r][s].side = pending[r][s].side
                     /\ pending'[r][s].size = pending[r][s].size
                     /\ pending'[r][s].age <= pending[r][s].age + 1
                     /\ pending'[r][s].age \in Nat
                     /\ pending[r][s].age \in Nat
         /\ \A r \in Runs :
               /\ reply[r] = NoReply => reply'[r] = NoReply
               /\ reply[r] # NoReply =>
                     /\ reply'[r] # NoReply
                     /\ reply'[r].state = reply[r].state
                     /\ reply'[r].executed = reply[r].executed
                     /\ reply'[r].waited = reply[r].waited + 1
  <1>1. /\ UNCHANGED <<serviceVars, tracked, pc, task, walk, seq, marketVars>>
        /\ pending' = [r \in Runs |->
                          IF pc[r] = "ended" THEN pending[r]
                          ELSE [s \in Symbols |-> Older(pending[r][s])]]
        /\ reply' = [r \in Runs |-> IF reply[r] = NoReply THEN NoReply
                                    ELSE [reply[r] EXCEPT !.waited = @ + 1]]
        /\ \A r \in Runs : ~AnswerOverdue(r)
    BY DEF Tick, loopVars
  <1>2. /\ pending \in [Runs -> [Symbols -> PendingOrders \cup {NoOrder}]]
        /\ reply \in [Runs -> Replies \cup {NoReply}]
    BY DEF TypeShape, TypeOK
  <1>3. ASSUME NEW p \in PendingOrders
        PROVE  p.age \in Nat /\ p.age <= p.age + 1
    BY <1>3, AgeCapType DEF PendingOrders
  <1>4. ASSUME NEW r \in Runs, NEW s \in Symbols
        PROVE  /\ pending'[r][s] \in PendingOrders \cup {NoOrder}
               /\ pending[r][s] = NoOrder => pending'[r][s] = NoOrder
               /\ pending[r][s] # NoOrder =>
                     /\ pending'[r][s] # NoOrder
                     /\ pending'[r][s].id = pending[r][s].id
                     /\ pending'[r][s].side = pending[r][s].side
                     /\ pending'[r][s].size = pending[r][s].size
                     /\ pending'[r][s].age <= pending[r][s].age + 1
                     /\ pending'[r][s].age \in Nat
                     /\ pending[r][s].age \in Nat
    <2>1. CASE pc[r] = "ended"
      BY <1>1, <1>2, <1>3, <2>1
    <2>2. CASE pc[r] # "ended"
      <3>1. pending'[r][s] = Older(pending[r][s])
        BY <1>1, <2>2
      <3>2. Older(NoOrder) = NoOrder
        BY DEF Older
      <3> QED
        BY <1>2, <3>1, <3>2, OlderType
    <2> QED
      BY <2>1, <2>2
  <1>5. pending' \in [Runs -> Slots]
    <2>1. \A r \in Runs : pending'[r] = [s \in Symbols |-> pending'[r][s]]
      BY <1>1, <1>2
    <2>2. \A r \in Runs : pending'[r] \in Slots
      BY <1>4, <2>1 DEF Slots
    <2> QED
      BY <1>1, <2>2
  <1>6. ASSUME NEW r \in Runs, reply[r] # NoReply
        PROVE  /\ reply'[r] \in Replies /\ reply'[r] # NoReply
               /\ reply'[r].state = reply[r].state
               /\ reply'[r].executed = reply[r].executed
               /\ reply'[r].waited = reply[r].waited + 1
    <2> DEFINE rep == reply[r]
               later == rep.waited + 1
    <2>1. rep \in Replies
      BY <1>2, <1>6
    <2>2. rep.waited \in 0 .. MaxCall
      BY <2>1 DEF Replies
    <2>3. later \in 0 .. MaxCall
      BY <1>1, <1>6, <2>2, AutoBounds DEF AnswerOverdue
    <2>4. reply'[r] = [rep EXCEPT !.waited = later]
      BY <1>1, <1>6
    <2> HIDE DEF rep, later
    <2>5. /\ reply'[r] \in Replies /\ reply'[r].state = rep.state
          /\ reply'[r].executed = rep.executed /\ reply'[r].waited = later
      BY <2>1, <2>3, <2>4 DEF Replies
    <2> QED
      BY <2>5, ReplyIsNoReply DEF rep, later
  <1>7. \A r \in Runs : reply[r] = NoReply => reply'[r] = NoReply
    BY <1>1
  <1>8. reply' \in [Runs -> Replies \cup {NoReply}]
    BY <1>1, <1>6, <1>7
  <1> QED
    BY <1>1, <1>4, <1>5, <1>6, <1>7, <1>8

LEMMA TickTypeShape ==
  ASSUME TypeShape, Tick
  PROVE  TypeShape'
  <1>1. TypeOK'
    BY TickFrame DEF TypeShape, TypeOK, Slots, serviceVars, marketVars
  <1>2. ASSUME NEW r \in Runs PROVE RunShape(r)'
    <2>1. RunShape(r) /\ (pc[r] \in Handling => task[r].symbol \in Symbols)
      BY MineTypes DEF TypeShape
    <2>2. pc[r] \in Ordering \cup {"closing"} => pc[r] \in Handling
      BY DEF Ordering, Handling
    <2> QED
      BY <2>1, <2>2, TickFrame DEF RunShape, Mine, serviceVars
  <1> QED
    BY <1>1, <1>2 DEF TypeShape

LEMMA NextTypeShape == TypeShape /\ [Next]_vars => TypeShape'
  <1> SUFFICES ASSUME TypeShape, [Next]_vars PROVE TypeShape'
    OBVIOUS
  <1>1. CASE Start \/ Stop \/ Crash
    BY <1>1, ControlTypeShape
  <1>2. ASSUME NEW r \in Runs, RunStep(r) PROVE TypeShape'
    BY <1>2, IdleTypeShape, ComposeTypeShape, QuietWorked, ApplyWorked,
       ReachWorked, WorkedTypeShape DEF RunStep
  <1>3. CASE \E o \in OrderIds : ExchangeStep(o)
    BY <1>3, ExchangeTypeShape
  <1>4. CASE Tick
    BY <1>4, TickTypeShape
  <1>5. CASE UNCHANGED vars
    BY <1>5, OtherShape
       DEF vars, TypeShape, TypeOK, serviceVars, marketVars
  <1> QED
    BY <1>1, <1>2, <1>3, <1>4, <1>5 DEF Next

\* Every variable keeps its type, for any number of runs and every delay.
THEOREM TypeHolds == Spec => []TypeOK
  <1>1. TypeShape => TypeOK
    BY DEF TypeShape
  <1> QED
    BY <1>1, InitTypeShape, NextTypeShape, PTL DEF Spec

-----------------------------------------------------------------------------
(***************************************************************************)
(* Truth: every live order is the pending order of its symbol, a pending   *)
(* order is what the exchange has of it, an order the exchange has not     *)
(* seen is young, and an answer on its way is true or too young to give up *)
(* an order on.                                                            *)
(***************************************************************************)
Untraded == {"absent", "flight", "refused", "lost"}

OrderTruth(o) ==
    /\ orders[o].executed <= orders[o].size
    /\ orders[o].state \in Untraded => orders[o].executed = 0
    /\ orders[o].state = "filled" => orders[o].executed = orders[o].size
    /\ orders[o].state \in Live =>
          /\ pending[o[1]][orders[o].symbol] # NoOrder
          /\ pending[o[1]][orders[o].symbol].id = o
    /\ o[2] > seq[o[1]] => orders[o].state = "absent"

SlotTruth(r, s) ==
    LET p == pending[r][s]
        o == orders[p.id]
    IN  p # NoOrder =>
          /\ o.state # "absent" => o.symbol = s /\ o.side = p.side /\ o.size = p.size
          /\ pc[r] # "ended" =>
                /\ o.state \in {"absent", "flight"} => p.age <= MaxFlight
                /\ o.state = "absent" => pc[r] = "composed" /\ task[r].symbol = s

AnswerTrue(r) ==
    LET o   == orders[Mine(r).id]
        rep == reply[r]
    IN  /\ rep.state = "filled" => o.state = "filled" /\ rep.executed \in {0, o.executed}
        /\ rep.state = "done" => o.state = "canceled" /\ rep.executed = o.executed
        /\ rep.state = "notFound" =>
              \/ o.state \in {"refused", "lost", "canceled"} /\ o.executed = 0
              \/ Mine(r).age <= MaxFlight + rep.waited

RunTruth(r) ==
    /\ pc[r] = "composed" => orders[Mine(r).id].state = "absent"
    /\ reply[r] # NoReply => AnswerTrue(r)

Truth ==
    /\ \A o \in OrderIds : OrderTruth(o)
    /\ \A r \in Runs : RunTruth(r) /\ \A s \in Symbols : SlotTruth(r, s)

Inv == TypeShape /\ Truth

LEMMA InitTruth == Init => Truth
  <1> SUFFICES ASSUME Init PROVE Truth
    OBVIOUS
  <1>1. \A o \in OrderIds : OrderTruth(o)
    BY DEF Init, OrderTruth, Untraded, Live
  <1>2. \A r \in Runs : RunTruth(r) /\ \A s \in Symbols : SlotTruth(r, s)
    BY DEF Init, RunTruth, SlotTruth
  <1> QED
    BY <1>1, <1>2 DEF Truth

\* A loop whose step, task, orders and answer stay keeps its truth.
LEMMA RunFrame ==
  ASSUME Inv, NEW q \in Runs,
         /\ pc'[q] = pc[q]             /\ task'[q] = task[q]
         /\ pending'[q] = pending[q]   /\ reply'[q] = reply[q],
         \A n \in 1 .. MaxOrders : orders'[<<q, n>>] = orders[<<q, n>>]
  PROVE  RunTruth(q)' /\ \A s \in Symbols : SlotTruth(q, s)'
  <1>1. \A s \in Symbols : pending[q][s] # NoOrder =>
            orders'[pending[q][s].id] = orders[pending[q][s].id]
    <2> SUFFICES ASSUME NEW s \in Symbols, pending[q][s] # NoOrder
                 PROVE  orders'[pending[q][s].id] = orders[pending[q][s].id]
      OBVIOUS
    <2>1. /\ pending[q][s] \in PendingOrders
          /\ pending[q][s].id[1] = q /\ pending[q][s].id \in OrderIds
      BY DEF Inv, TypeShape, TypeOK, RunShape, PendingOrders
    <2> QED
      BY <2>1 DEF OrderIds
  <1>2. \A s \in Symbols : SlotTruth(q, s)'
    BY <1>1 DEF Inv, Truth, SlotTruth
  <1>3. pc[q] = "composed" \/ reply[q] # NoReply =>
            task[q].symbol \in Symbols /\ Mine(q) # NoOrder
    BY MineTypes DEF Inv, TypeShape, RunShape, Handling, Ordering, Answering
  <1>4. RunTruth(q)'
    BY <1>1, <1>3 DEF Inv, Truth, RunTruth, AnswerTrue, Mine
  <1> QED
    BY <1>2, <1>4

\* The operator's steps, and those of a loop without a task: no order and no
\* pending order changes, and a loop whose step changes is between two orders
\* or has ended.
LEMMA FreeTruth ==
  ASSUME Inv, UNCHANGED <<pending, seq, orders>>,
         \A r \in Runs :
            \/ pc'[r] = pc[r] /\ task'[r] = task[r] /\ reply'[r] = reply[r]
            \/ /\ reply'[r] = NoReply /\ pc'[r] # "composed"
               /\ pc'[r] = "ended" \/ pc[r] \notin {"composed", "ended"}
  PROVE  Truth'
  <1>1. \A o \in OrderIds : OrderTruth(o)'
    BY DEF Inv, Truth, OrderTruth
  <1>2. ASSUME NEW r \in Runs PROVE RunTruth(r)' /\ \A s \in Symbols : SlotTruth(r, s)'
    <2>1. CASE pc'[r] = pc[r] /\ task'[r] = task[r] /\ reply'[r] = reply[r]
      BY <2>1, RunFrame
    <2>2. CASE /\ reply'[r] = NoReply /\ pc'[r] # "composed"
               /\ pc'[r] = "ended" \/ pc[r] \notin {"composed", "ended"}
      BY <2>2 DEF Inv, Truth, RunTruth, SlotTruth
    <2> QED
      BY <2>1, <2>2
  <1> QED
    BY <1>1, <1>2 DEF Truth

LEMMA ControlTruth ==
  ASSUME Inv, Start \/ Stop \/ Crash
  PROVE  Truth'
  <1>1. UNCHANGED <<pending, seq, orders>>
    BY DEF Start, Stop, Crash, marketVars
  <1>2. TypeOK /\ \A r \in Runs : RunShape(r)
    BY DEF Inv, TypeShape
  <1>3. CASE Start
    <2>1. started + 1 \in Runs /\ pc[started + 1] = "off" /\ reply[started + 1] = NoReply
      <3>1. started \in Nat /\ started + 1 \in 1 .. MaxRuns
        BY <1>2, <1>3, AutoBounds DEF Start, TypeOK
      <3>2. PICK r \in Runs : r = started + 1
        BY <3>1
      <3>3. r > started /\ RunShape(r)
        BY <1>2, <3>1, <3>2
      <3> QED
        BY <3>2, <3>3 DEF RunShape, Answering
    <2>2. /\ pc' = [pc EXCEPT ![started + 1] = "idle"] /\ UNCHANGED <<task, reply>>
      BY <1>3 DEF Start
    <2> QED
      BY <1>1, <1>2, <2>1, <2>2, FreeTruth DEF TypeOK
  <1>4. CASE Stop
    BY <1>1, <1>4, FreeTruth DEF Stop
  <1>5. CASE Crash
    BY <1>1, <1>5, FreeTruth DEF Crash
  <1> QED
    BY <1>3, <1>4, <1>5

LEMMA IdleTruth ==
  ASSUME Inv, NEW r \in Runs,
         \/ LoopExit(r) \/ BeginWalk(r)
         \/ \E s \in Symbols : \/ \E side \in Sides : Signal(r, s, side)
                               \/ VisitSells(r, s) \/ VisitPasses(r, s)
  PROVE  Truth'
  <1>1. /\ UNCHANGED <<pending, seq, orders, reply>> /\ pc[r] = "idle"
        /\ \E to \in {"idle", "asked", "ended"} : pc' = [pc EXCEPT ![r] = to]
        /\ \E t : task' = [task EXCEPT ![r] = t]
    <2>1. TypeOK
      BY DEF Inv, TypeShape
    <2>2. pc = [pc EXCEPT ![r] = pc[r]] /\ task = [task EXCEPT ![r] = task[r]]
      BY <2>1 DEF TypeOK
    <2>3. CASE LoopExit(r) \/ BeginWalk(r) \/ \E s \in Symbols : VisitPasses(r, s)
      <3>1. /\ UNCHANGED <<pending, seq, orders, reply, task>> /\ pc[r] = "idle"
            /\ pc' = [pc EXCEPT ![r] = "ended"] \/ pc' = pc
        BY <2>3 DEF LoopExit, BeginWalk, VisitPasses, marketVars
      <3> QED
        BY <2>2, <3>1
    <2>4. CASE \E s \in Symbols : VisitSells(r, s) \/ \E side \in Sides : Signal(r, s, side)
      <3>1. PICK s, side : Ask(r, s, side) /\ pc[r] = "idle"
        BY <2>4 DEF Signal, VisitSells
      <3>2. /\ UNCHANGED <<pending, seq, orders, reply>>
            /\ pc' = [pc EXCEPT ![r] = "asked"]
            /\ task' = [task EXCEPT ![r] = [symbol |-> s, side |-> side]]
        BY <3>1 DEF Ask, marketVars
      <3> QED
        BY <3>1, <3>2
    <2> QED
      BY <2>3, <2>4
  <1>2. pc'[r] \in {"idle", "asked", "ended"} /\ reply[r] = NoReply
    <2>1. pc \in [Runs -> PCs] /\ RunShape(r)
      BY DEF Inv, TypeShape, TypeOK
    <2>2. pc'[r] \in {"idle", "asked", "ended"}
      BY <1>1, <2>1
    <2> QED
      BY <1>1, <2>1, <2>2 DEF RunShape, Answering
  <1>3. \A q \in Runs : q # r => pc'[q] = pc[q] /\ task'[q] = task[q]
    BY <1>1 DEF Inv, TypeShape, TypeOK
  <1> QED
    BY <1>1, <1>2, <1>3, FreeTruth

LEMMA ComposeTruth ==
  ASSUME Inv, NEW r \in Runs, Compose(r)
  PROVE  Truth'
  <1> DEFINE s == task[r].symbol
             n == seq[r] + 1
             new == pending'[r][s]
  <1>1. TypeOK /\ RunShape(r) /\ pc[r] = "asked" /\ Mine(r) = NoOrder
    BY DEF Inv, TypeShape, Compose
  <1>2. s \in Symbols /\ seq[r] \in 0 .. MaxOrders /\ seq[r] < MaxOrders
    BY <1>1, MineTypes DEF Inv, Handling, TypeOK, Compose
  <1>3. n \in 1 .. MaxOrders /\ <<r, n>> \in OrderIds /\ n > seq[r]
    BY <1>2, AutoBounds DEF OrderIds
  <1>4. /\ UNCHANGED <<task, reply, orders>>
        /\ seq' = [seq EXCEPT ![r] = n]
        /\ pc' = [pc EXCEPT ![r] = "composed"]
    BY DEF Compose, marketVars
  <1>5. /\ \A q \in Runs : q # r => pending'[q] = pending[q]
        /\ \A t \in Symbols : t # s => pending'[r][t] = pending[r][t]
        /\ new.id = <<r, n>> /\ new.age = 0
    <2>1. seq'[r] = n
      BY <1>1, <1>4 DEF TypeOK
    <2> DEFINE put == [id |-> <<r, n>>, side |-> task[r].side,
                       size |-> Size(s, task[r].side), age |-> 0,
                       sinceCancel |-> CancelRetry]
    <2>2. pending' = [pending EXCEPT ![r][s] = put]
      BY <2>1 DEF Compose
    <2>3. put.id = <<r, n>> /\ put.age = 0
      OBVIOUS
    <2>4. pending \in [Runs -> [Symbols -> PendingOrders \cup {NoOrder}]]
      BY <1>1 DEF TypeOK
    <2> HIDE DEF put, s, n
    <2>5. new = put
      BY <1>2, <2>2, <2>4
    <2> QED
      BY <1>2, <2>2, <2>3, <2>4, <2>5
  <1>6. pc'[r] = "composed" /\ \A q \in Runs : q # r => pc'[q] = pc[q]
    BY <1>1, <1>4 DEF TypeOK
  <1>7. \A o \in OrderIds : OrderTruth(o)'
    <2> SUFFICES ASSUME NEW o \in OrderIds PROVE OrderTruth(o)'
      OBVIOUS
    <2>1. OrderTruth(o) /\ o[1] \in Runs
      BY DEF Inv, Truth, OrderIds
    <2>2. o[2] > seq'[o[1]] => o[2] > seq[o[1]]
      <3>1. seq'[o[1]] >= seq[o[1]] /\ seq[o[1]] \in Int /\ seq'[o[1]] \in Int /\ o[2] \in Int
        BY <1>1, <1>3, <1>4, <2>1 DEF TypeOK, OrderIds
      <3> QED
        BY <3>1
    <2>3. /\ orders[o].symbol \in Symbols
          /\ o[1] = r /\ orders[o].symbol = s => orders[o].state \notin Live
      BY <1>1, <2>1 DEF TypeOK, OrderTruth, Mine
    <2>4. orders[o].state \in Live =>
             pending'[o[1]][orders[o].symbol] = pending[o[1]][orders[o].symbol]
      BY <1>5, <2>1, <2>3
    <2> QED
      BY <1>4, <2>1, <2>2, <2>4 DEF OrderTruth
  <1>8. orders[<<r, n>>].state = "absent"
    BY <1>3 DEF Inv, Truth, OrderTruth
  <1>9. RunTruth(r)'
    <2>1. Mine(r)' = new
      BY <1>4 DEF Mine
    <2>2. reply[r] = NoReply
      BY <1>1 DEF RunShape, Answering
    <2> QED
      BY <1>4, <1>5, <1>8, <2>1, <2>2 DEF RunTruth
  <1>10. ASSUME NEW t \in Symbols PROVE SlotTruth(r, t)'
    <2>1. CASE t = s
      BY <1>4, <1>5, <1>6, <1>8, <2>1, AutoBounds DEF SlotTruth
    <2>2. CASE t # s
      <3>1. SlotTruth(r, t)
        BY DEF Inv, Truth
      <3> QED
        BY <1>1, <1>4, <1>5, <2>2, <3>1 DEF SlotTruth
    <2> QED
      BY <2>1, <2>2
  <1>11. ASSUME NEW q \in Runs, q # r
         PROVE  RunTruth(q)' /\ \A t \in Symbols : SlotTruth(q, t)'
    BY <1>4, <1>5, <1>6, <1>11, RunFrame
  <1> QED
    BY <1>7, <1>9, <1>10, <1>11 DEF Truth

\* A step on a task that does not reach the exchange: an order is forgotten
\* only when it is final, and an answer taken up is true.
LEMMA WorkedTruth ==
  ASSUME Inv, NEW r \in Runs, Worked(r), UNCHANGED orders, pc[r] # "composed",
         Mine(r) # NoOrder /\ pending'[r][task[r].symbol] = NoOrder =>
             orders[Mine(r).id].state \notin Live,
         reply'[r] # NoReply => AnswerTrue(r)'
  PROVE  Truth'
  <1> DEFINE s == task[r].symbol
  <1>1. /\ TypeOK /\ s \in Symbols /\ Mine(r) = pending[r][s]
        /\ pc[r] \notin {"composed", "ended"} /\ pc'[r] \notin {"composed", "ended"}
        /\ UNCHANGED seq
    BY MineTypes DEF Inv, TypeShape, Worked, Moved, Handling
  <1>2. /\ \A q \in Runs : q # r => pending'[q] = pending[q]
        /\ \A t \in Symbols : t # s => pending'[r][t] = pending[r][t]
        /\ \/ pending'[r][s] = NoOrder
           \/ pending[r][s] # NoOrder /\ SameOrder(pending'[r][s], pending[r][s])
    BY DEF Worked, Kept
  <1> HIDE DEF s
  <1>3. ASSUME NEW o \in OrderIds PROVE OrderTruth(o)'
    <2>1. OrderTruth(o) /\ o[1] \in Runs /\ orders[o].symbol \in Symbols
      BY <1>1 DEF Inv, Truth, OrderIds, TypeOK
    <2>2. orders[o].state \in Live =>
             /\ pending'[o[1]][orders[o].symbol] # NoOrder
             /\ pending'[o[1]][orders[o].symbol].id = o
      BY <1>1, <1>2, <2>1 DEF OrderTruth, SameOrder, s
    <2> QED
      BY <1>1, <2>1, <2>2 DEF OrderTruth
  <1>4. ASSUME NEW t \in Symbols PROVE SlotTruth(r, t)'
    <2>1. SlotTruth(r, t)
      BY DEF Inv, Truth
    <2>2. pending'[r][t] # NoOrder =>
             /\ pending[r][t] # NoOrder
             /\ SameOrder(pending'[r][t], pending[r][t])
      BY <1>2 DEF SameOrder
    <2> QED
      BY <1>1, <2>1, <2>2 DEF SlotTruth, SameOrder
  <1>5. RunTruth(r)'
    BY <1>1 DEF RunTruth
  <1>6. ASSUME NEW q \in Runs, q # r
        PROVE  RunTruth(q)' /\ \A t \in Symbols : SlotTruth(q, t)'
    BY <1>2, <1>6, RunFrame DEF Worked, Moved, Heard
  <1> QED
    BY <1>3, <1>4, <1>5, <1>6 DEF Truth

\* What Reports may say of an order in each of its states.
LEMMA ReportsTruth ==
  ASSUME TypeOK, NEW o \in OrderIds, NEW rep \in Reports(o) \cup {Reply("open", 0)}
  PROVE  /\ rep.waited = 0
         /\ rep.state = "filled" => /\ orders[o].state = "filled"
                                    /\ rep.executed \in {0, orders[o].executed}
         /\ rep.state = "done" => /\ orders[o].state = "canceled"
                                  /\ rep.executed = orders[o].executed
         /\ rep.state = "notFound" =>
                \/ orders[o].state \in {"absent", "flight", "refused", "lost"}
                \/ orders[o].state = "canceled" /\ orders[o].executed = 0
  <1>1. orders[o].state \in OrderStates
    BY DEF TypeOK
  <1> QED
    BY <1>1 DEF Reports, Reply, OrderStates

\* Hearing of an order, or nothing, and passing on.
LEMMA QuietTruth ==
  ASSUME Inv, NEW r \in Runs,
         \/ PlaceAnswered(r) \/ PlaceUnknown(r) \/ Lookup(r) \/ LookupFailed(r)
         \/ CancelFailed(r) \/ ClosePosition(r)
  PROVE  Truth'
  <1>1. TypeShape /\ TypeOK /\ RunShape(r)
    BY DEF Inv, TypeShape
  <1>2. Worked(r) /\ UNCHANGED <<pending, orders>> /\ pc[r] # "composed"
    BY <1>1, QuietWorked
       DEF PlaceAnswered, PlaceUnknown, Lookup, LookupFailed, CancelFailed,
           CancelReturns, ClosePosition
  <1>3. task[r].symbol \in Symbols /\ Mine(r) = pending[r][task[r].symbol]
    BY <1>1, <1>2, MineTypes DEF Worked
  <1>4. CASE PlaceAnswered(r) \/ Lookup(r)
    <2>1. Mine(r) # NoOrder
      BY <1>1, <1>4 DEF PlaceAnswered, Lookup, RunShape, Ordering
    <2>2. /\ Mine(r).id \in OrderIds /\ Mine(r).age \in Nat
          /\ OrderTruth(Mine(r).id) /\ SlotTruth(r, task[r].symbol)
      BY <1>1, <1>2, <1>3, <2>1, MineTypes DEF Inv, Truth, Worked
    <2>3. PICK rep \in Reports(Mine(r).id) \cup {Reply("open", 0)} :
             reply' = [reply EXCEPT ![r] = rep]
      <3>1. CASE PlaceAnswered(r)
        BY <3>1 DEF PlaceAnswered
      <3>2. CASE Lookup(r)
        BY <3>2 DEF Lookup
      <3> QED
        BY <1>4, <3>1, <3>2
    <2>4. reply'[r] = rep /\ Mine(r)' = Mine(r) /\ pc[r] # "ended"
      BY <1>1, <1>2, <1>4, <2>3 DEF TypeOK, PlaceAnswered, Lookup, Mine
    <2>5. orders[Mine(r).id].state \in {"absent", "flight"} => Mine(r).age <= MaxFlight
      BY <1>3, <2>1, <2>2, <2>4 DEF SlotTruth
    <2>6. Mine(r).age <= MaxFlight => Mine(r).age <= MaxFlight + 0
      BY <2>2, AutoBounds
    <2>7. orders[Mine(r).id].state \in {"refused", "lost"} =>
             orders[Mine(r).id].executed = 0
      BY <2>2 DEF OrderTruth, Untraded
    <2>8. AnswerTrue(r)'
      BY <1>1, <1>2, <2>2, <2>4, <2>5, <2>6, <2>7, ReportsTruth DEF AnswerTrue
    <2> QED
      BY <1>2, <1>3, <2>8, WorkedTruth
  <1>5. CASE \/ PlaceUnknown(r) \/ LookupFailed(r) \/ CancelFailed(r)
             \/ ClosePosition(r)
    <2>1. reply'[r] = NoReply
      BY <1>1, <1>5
         DEF PlaceUnknown, LookupFailed, CancelFailed, CancelReturns,
             ClosePosition, RunShape, Answering
    <2> QED
      BY <1>2, <1>3, <2>1, WorkedTruth
  <1> QED
    BY <1>4, <1>5

\* An order that a true answer calls filled or ended is final, and so is one
\* that is not found once the grace period is over.
LEMMA LetGoIsFinal ==
  ASSUME GraceCoversDelays, Inv, NEW r \in Runs,
         \/ PlaceRejected(r) \/ ApplyFilled(r) \/ ApplyDone(r)
         \/ ApplyNotFound(r) /\ GraceOver(Mine(r))
  PROVE  /\ orders[Mine(r).id].state \in {"filled", "canceled", "refused", "lost"}
         /\ PlaceRejected(r) \/ ApplyNotFound(r) => orders[Mine(r).id].executed = 0
         /\ ApplyFilled(r) =>
               /\ orders[Mine(r).id].state = "filled"
               /\ reply[r].executed \in {0, orders[Mine(r).id].executed}
         /\ ApplyDone(r) => reply[r].executed = orders[Mine(r).id].executed
         /\ Mine(r) # NoOrder /\ pc[r] # "ended"
  <1>1. /\ pc[r] \in Handling /\ pc[r] \in Ordering /\ pc[r] # "ended"
        /\ PlaceRejected(r) \/ pc[r] \in Answering
    BY DEF PlaceRejected, ApplyFilled, ApplyDone, ApplyNotFound, Answered,
           Handling, Ordering, Answering
  <1>2. TypeShape /\ RunShape(r) /\ Mine(r) # NoOrder
    BY <1>1 DEF Inv, TypeShape, RunShape
  <1>3. Mine(r).id \in OrderIds /\ Mine(r).age \in Nat /\ OrderTruth(Mine(r).id)
    BY <1>1, <1>2, MineTypes DEF Inv, Truth
  <1>4. CASE PlaceRejected(r)
    <2>1. orders[Mine(r).id].state = "refused"
      BY <1>4 DEF PlaceRejected
    <2>2. ~ApplyFilled(r) /\ ~ApplyDone(r)
      BY <1>4 DEF PlaceRejected, ApplyFilled, ApplyDone, Answered
    <2> QED
      BY <1>1, <1>2, <1>3, <2>1, <2>2 DEF OrderTruth, Untraded
  <1>5. CASE ~PlaceRejected(r)
    <2>1. AnswerTrue(r) /\ reply[r] # NoReply
      BY <1>1, <1>2, <1>5 DEF Inv, Truth, RunTruth, RunShape
    <2>2. CASE ApplyNotFound(r) /\ GraceOver(Mine(r))
      <3>1. reply[r].waited \in 0 .. MaxCall
        BY <2>1 DEF Inv, TypeShape, TypeOK, Replies
      <3>2. ~(Mine(r).age <= MaxFlight + reply[r].waited)
        BY <1>3, <2>2, <3>1, AutoBounds DEF GraceOver, GraceCoversDelays
      <3>3. reply[r].state = "notFound"
        BY <2>2 DEF ApplyNotFound, Answered
      <3>4. ~ApplyFilled(r) /\ ~ApplyDone(r)
        BY <3>3 DEF ApplyFilled, ApplyDone, Answered
      <3> QED
        BY <1>1, <1>2, <2>1, <3>2, <3>3, <3>4 DEF AnswerTrue
    <2>3. CASE ApplyFilled(r) \/ ApplyDone(r)
      BY <1>1, <1>2, <1>5, <2>1, <2>3
         DEF ApplyFilled, ApplyDone, ApplyNotFound, Answered, AnswerTrue
    <2> QED
      BY <1>5, <2>2, <2>3
  <1> QED
    BY <1>4, <1>5

\* Only a final order is forgotten: a rejected one, one that filled or ended,
\* or one given up after the grace period.  This is the step that needs it.
LEMMA ApplyTruth ==
  ASSUME GraceCoversDelays, Inv, NEW r \in Runs,
         \/ PlaceRejected(r) \/ ApplyFilled(r) \/ ApplyDone(r)
         \/ ApplyNotFound(r) \/ ApplyOpen(r)
  PROVE  Truth'
  <1>1. TypeShape /\ TypeOK /\ RunShape(r) /\ Worked(r) /\ UNCHANGED orders
    BY ApplyWorked DEF Inv, TypeShape
  <1>2. pc[r] # "composed" /\ pc[r] \in Ordering
    BY DEF PlaceRejected, ApplyFilled, ApplyDone, ApplyNotFound, ApplyOpen,
           Answered, Ordering
  <1>3. /\ Mine(r) # NoOrder /\ Mine(r) = pending[r][task[r].symbol]
        /\ task[r].symbol \in Symbols
    BY <1>1, <1>2, MineTypes DEF RunShape, Worked
  <1>4. reply'[r] = NoReply
    BY <1>1 DEF PlaceRejected, ApplyFilled, ApplyDone, ApplyNotFound, ApplyOpen,
                Conclude, Dismiss, TypeOK, RunShape, Answering
  <1>5. CASE \/ PlaceRejected(r) \/ ApplyFilled(r) \/ ApplyDone(r)
             \/ ApplyNotFound(r) /\ GraceOver(Mine(r))
    BY <1>1, <1>2, <1>4, <1>5, LetGoIsFinal, WorkedTruth DEF Live
  <1>6. CASE ApplyNotFound(r) /\ ~GraceOver(Mine(r))
    BY <1>1, <1>2, <1>3, <1>4, <1>6, WorkedTruth DEF ApplyNotFound
  <1>7. CASE ApplyOpen(r)
    <2>1. pending'[r][task[r].symbol] # NoOrder
      <3>1. CASE UNCHANGED pending
        BY <1>3, <3>1
      <3>2. CASE pc' = [pc EXCEPT ![r] = "cancelling"]
        BY <1>1, <3>2 DEF Worked, Kept, Ordering, TypeOK
      <3> QED
        BY <1>7, <3>1, <3>2 DEF ApplyOpen
    <2> QED
      BY <1>1, <1>2, <1>4, <2>1, WorkedTruth
  <1> QED
    BY <1>5, <1>6, <1>7

LEMMA SubmitTruth ==
  ASSUME Inv, NEW r \in Runs, Submit(r)
  PROVE  Truth'
  <1> DEFINE s == task[r].symbol
             o == Mine(r).id
             new == [state |-> IF ContextLive(r) THEN "flight" ELSE "lost",
                     symbol |-> s, side |-> Mine(r).side,
                     size |-> Mine(r).size, executed |-> 0]
  <1>1. /\ TypeShape /\ TypeOK /\ RunShape(r) /\ pc[r] = "composed"
        /\ orders[o].state = "absent"
    BY DEF Inv, TypeShape, Truth, RunTruth, Submit
  <1>2. /\ Worked(r) /\ UNCHANGED <<pending, reply, task, seq>>
        /\ Mine(r) # NoOrder /\ o \in OrderIds
        /\ pc' = [pc EXCEPT ![r] = "placing"]
    BY <1>1, ReachWorked DEF Submit
  <1>3. /\ s \in Symbols /\ Mine(r) = pending[r][s] /\ Mine(r).size \in Nat
        /\ o[1] = r /\ o[2] \in 1 .. seq[r]
    BY <1>1, <1>2, MineTypes, AutoBounds DEF Worked
  <1>4. orders' = [orders EXCEPT ![o] = new]
    BY DEF Submit
  <1>5. /\ new.state \in {"flight", "lost"} /\ new.symbol = s /\ new.executed = 0
        /\ new.side = Mine(r).side /\ new.size = Mine(r).size
    OBVIOUS
  <1> HIDE DEF new, o, s
  <1>6. orders'[o] = new /\ \A p \in OrderIds : p # o => orders'[p] = orders[p]
    BY <1>1, <1>2, <1>4 DEF TypeOK
  <1>7. pc'[r] = "placing" /\ \A q \in Runs : q # r => pc'[q] = pc[q]
    BY <1>1, <1>2 DEF TypeOK
  <1>8. ASSUME NEW p \in OrderIds PROVE OrderTruth(p)'
    <2>1. OrderTruth(p)
      BY DEF Inv, Truth
    <2>2. CASE p = o
      <3>1. 0 <= Mine(r).size /\ ~(o[2] > seq[r])
        BY <1>1, <1>3 DEF TypeOK
      <3> QED
        BY <1>2, <1>3, <1>5, <1>6, <2>2, <3>1 DEF OrderTruth, Live, Untraded, o
    <2>3. CASE p # o
      BY <1>2, <1>6, <2>1, <2>3 DEF OrderTruth
    <2> QED
      BY <2>2, <2>3
  <1>9. ASSUME NEW t \in Symbols PROVE SlotTruth(r, t)'
    <2>1. SlotTruth(r, t) /\ SlotTruth(r, s)
      BY <1>3 DEF Inv, Truth
    <2>2. CASE t = s
      <3>1. pending[r][s].age <= MaxFlight
        BY <1>1, <1>2, <1>3, <2>1 DEF SlotTruth, o
      <3> QED
        BY <1>2, <1>3, <1>5, <1>6, <1>7, <2>2, <3>1 DEF SlotTruth, o
    <2>3. CASE t # s /\ pending[r][t] # NoOrder
      <3>1. pending[r][t].id # o
        BY <1>1, <2>1, <2>3 DEF SlotTruth, s
      <3>2. pending[r][t].id \in OrderIds
        BY <1>1, <2>3, SlotType
      <3>3. orders[pending[r][t].id].state # "absent"
        BY <1>1, <2>1, <2>3 DEF SlotTruth, s
      <3> QED
        BY <1>1, <1>2, <1>6, <1>7, <2>1, <3>1, <3>2, <3>3 DEF SlotTruth
    <2>4. CASE pending[r][t] = NoOrder
      BY <1>2, <2>4 DEF SlotTruth
    <2> QED
      BY <2>2, <2>3, <2>4
  <1>10. RunTruth(r)'
    BY <1>1, <1>2, <1>7 DEF RunTruth, RunShape, Answering
  <1>11. ASSUME NEW q \in Runs, q # r
         PROVE  RunTruth(q)' /\ \A t \in Symbols : SlotTruth(q, t)'
    <2>1. \A n \in 1 .. MaxOrders : <<q, n>> \in OrderIds /\ <<q, n>> # o
      BY <1>3, <1>11 DEF OrderIds
    <2> QED
      BY <1>2, <1>6, <1>7, <1>11, <2>1, RunFrame
  <1> QED
    BY <1>8, <1>9, <1>10, <1>11 DEF Truth

\* A live order that arrives, executes or ends stays the same order.
LEMMA ChangedOrder ==
  ASSUME Inv, NEW o \in OrderIds, orders[o].state \in Live,
         NEW new \in ExchangeOrders, orders' = [orders EXCEPT ![o] = new],
         new.symbol = orders[o].symbol, new.side = orders[o].side,
         new.size = orders[o].size, new.executed <= new.size,
         new.state \in {"open", "refused", "lost", "filled", "canceled"},
         new.state \in {"refused", "lost"} => new.executed = 0,
         new.state = "filled" => new.executed = new.size,
         UNCHANGED <<pending, reply, seq>>,
         \A q \in Runs : \/ pc'[q] = pc[q] /\ task'[q] = task[q]
                         \/ pc[q] = "cancelling" /\ pc'[q] = "idle"
  PROVE  Truth'
  <1>1. /\ orders'[o] = new /\ \A p \in OrderIds : p # o => orders'[p] = orders[p]
        /\ TypeShape /\ orders[o].state \notin {"absent", "filled", "canceled", "refused", "lost"}
    BY DEF Inv, TypeShape, TypeOK, Live
  <1>2. ASSUME NEW p \in OrderIds PROVE OrderTruth(p)'
    <2>1. OrderTruth(p)
      BY DEF Inv, Truth
    <2>2. CASE p = o
      BY <1>1, <2>1, <2>2 DEF OrderTruth, Live, Untraded
    <2>3. CASE p # o
      BY <1>1, <2>1, <2>3 DEF OrderTruth
    <2> QED
      BY <2>2, <2>3
  <1>3. ASSUME NEW q \in Runs, NEW t \in Symbols PROVE SlotTruth(q, t)'
    <2>1. SlotTruth(q, t) /\ (pending[q][t] # NoOrder => pending[q][t].id \in OrderIds)
      BY <1>1, SlotType DEF Inv, Truth, TypeShape
    <2>2. CASE pending[q][t] = NoOrder
      BY <2>2 DEF SlotTruth
    <2>3. CASE pending[q][t] # NoOrder /\ pending[q][t].id = o
      BY <1>1, <2>1, <2>3 DEF SlotTruth
    <2>4. CASE pending[q][t] # NoOrder /\ pending[q][t].id # o
      <3>1. orders'[pending[q][t].id] = orders[pending[q][t].id]
        BY <1>1, <2>1, <2>4
      <3> QED
        BY <2>1, <2>4, <3>1 DEF SlotTruth
    <2> QED
      BY <2>2, <2>3, <2>4
  <1>4. ASSUME NEW q \in Runs PROVE RunTruth(q)'
    <2>1. RunTruth(q) /\ RunShape(q)
      BY <1>1 DEF Inv, Truth, TypeShape
    <2>2. CASE pc[q] = "cancelling" /\ pc'[q] = "idle"
      BY <2>1, <2>2 DEF RunTruth, RunShape, Answering
    <2>3. CASE pc'[q] = pc[q] /\ task'[q] = task[q] /\ pc[q] \in Ordering
      <3>1. Mine(q)' = Mine(q) /\ Mine(q).id \in OrderIds
        BY <1>1, <2>1, <2>3, MineTypes DEF Mine, RunShape, Ordering, Handling
      <3>2. CASE Mine(q).id # o
        BY <1>1, <2>1, <2>3, <3>1, <3>2 DEF RunTruth, AnswerTrue
      <3>3. CASE Mine(q).id = o
        <4>1. pc[q] # "composed"
          BY <1>1, <2>1, <3>3 DEF RunTruth
        <4> QED
          BY <1>1, <2>1, <2>3, <3>1, <3>3, <4>1 DEF RunTruth, AnswerTrue
      <3> QED
        BY <3>2, <3>3
    <2>4. CASE pc'[q] = pc[q] /\ pc[q] \notin Ordering
      BY <2>1, <2>4 DEF RunTruth, RunShape, Ordering, Answering
    <2> QED
      BY <2>2, <2>3, <2>4
  <1> QED
    BY <1>2, <1>3, <1>4 DEF Truth

LEMMA ExchangeTruth ==
  ASSUME Inv, \/ \E o \in OrderIds : ExchangeStep(o)
              \/ \E r \in Runs : CancelAccepted(r)
  PROVE  Truth'
  <1>1. TypeShape /\ orders \in [OrderIds -> ExchangeOrders]
    BY DEF Inv, TypeShape, TypeOK, ExchangeOrders
  <1>2. ASSUME NEW o \in OrderIds, orders[o].state \in Live,
               NEW fate \in {"open", "refused", "lost", "canceled"},
               orders' = [orders EXCEPT ![o].state = fate],
               fate \in {"refused", "lost"} => orders[o].state = "flight",
               UNCHANGED <<pending, reply, seq>>,
               \A q \in Runs : \/ pc'[q] = pc[q] /\ task'[q] = task[q]
                               \/ pc[q] = "cancelling" /\ pc'[q] = "idle"
        PROVE  Truth'
    <2> DEFINE new == [orders[o] EXCEPT !.state = fate]
    <2>1. /\ new \in ExchangeOrders /\ new.state = fate
          /\ new.symbol = orders[o].symbol /\ new.side = orders[o].side
          /\ new.size = orders[o].size /\ new.executed = orders[o].executed
      BY <1>1 DEF ExchangeOrders, OrderStates
    <2>2. orders' = [orders EXCEPT ![o] = new]
      BY <1>2
    <2> HIDE DEF new
    <2>3. /\ orders[o].executed <= orders[o].size
          /\ orders[o].state = "flight" => orders[o].executed = 0
      BY DEF Inv, Truth, OrderTruth, Untraded
    <2>4. /\ new.executed <= new.size
          /\ new.state \in {"open", "refused", "lost", "filled", "canceled"}
          /\ new.state \in {"refused", "lost"} => new.executed = 0
          /\ new.state # "filled"
      BY <1>2, <2>1, <2>3
    <2> QED
      BY <1>2, <2>1, <2>2, <2>4, ChangedOrder
  <1>3. ASSUME NEW o \in OrderIds, Arrive(o) \/ Expire(o) PROVE Truth'
    BY <1>2, <1>3 DEF Arrive, Expire, loopVars, Live
  <1>4. ASSUME NEW r \in Runs, CancelAccepted(r) PROVE Truth'
    <2>1. /\ Worked(r) /\ UNCHANGED <<pending, reply, seq>> /\ pc[r] = "cancelling"
          /\ Mine(r).id \in OrderIds /\ pc'[r] = "idle"
          /\ orders[Mine(r).id].state = "open"
          /\ orders' = [orders EXCEPT ![Mine(r).id].state = "canceled"]
      BY <1>1, <1>4, ReachWorked, ReturnMoves
         DEF CancelAccepted, CancelReturns, TypeShape
    <2>2. \A q \in Runs : \/ pc'[q] = pc[q] /\ task'[q] = task[q]
                          \/ pc[q] = "cancelling" /\ pc'[q] = "idle"
      BY <2>1 DEF Worked, Moved
    <2> QED
      BY <1>2, <2>1, <2>2 DEF Live
  <1>5. ASSUME NEW o \in OrderIds, NEW qty \in 1 .. Quantity, Execute(o, qty)
        PROVE  Truth'
    <2> DEFINE total == orders[o].executed + qty
               state == IF total = orders[o].size THEN "filled" ELSE "open"
               new == [orders[o] EXCEPT !.executed = total, !.state = state]
    <2>1. /\ orders[o].state = "open" /\ total <= orders[o].size
          /\ UNCHANGED <<pending, reply, seq, pc, task>>
          /\ orders' = [orders EXCEPT ![o] = new]
      BY <1>5 DEF Execute, loopVars
    <2>2. /\ orders[o] \in ExchangeOrders /\ orders[o].executed \in Nat
          /\ orders[o].size \in Nat /\ orders[o].size <= Quantity /\ qty \in Nat
      BY <1>1, AutoBounds DEF ExchangeOrders
    <2>3. total \in 0 .. Quantity
      BY <2>1, <2>2, AutoBounds
    <2>4. state \in {"filled", "open"} /\ (state = "filled" => total = orders[o].size)
      OBVIOUS
    <2> HIDE DEF total, state
    <2>5. /\ new \in ExchangeOrders /\ new.state = state /\ new.executed = total
          /\ new.symbol = orders[o].symbol /\ new.side = orders[o].side
          /\ new.size = orders[o].size
      BY <2>2, <2>3, <2>4 DEF ExchangeOrders, OrderStates
    <2> HIDE DEF new
    <2> QED
      BY <2>1, <2>4, <2>5, ChangedOrder DEF Live
  <1> QED
    BY <1>3, <1>4, <1>5 DEF ExchangeStep

\* Time passing: a submission not yet accepted is still young enough, and an
\* answer ages together with the order it is about.
LEMMA TickTruth ==
  ASSUME Inv, Tick
  PROVE  Truth'
  <1>1. TypeShape /\ UNCHANGED <<pc, task, seq, orders>>
    BY TickFrame DEF Inv, marketVars
  <1>2. ASSUME NEW o \in OrderIds PROVE OrderTruth(o)'
    <2>1. OrderTruth(o) /\ o[1] \in Runs /\ orders[o].symbol \in Symbols
      BY <1>1 DEF Inv, Truth, OrderIds, TypeShape, TypeOK
    <2> QED
      BY <1>1, <2>1, TickFrame DEF OrderTruth
  <1>3. ASSUME NEW r \in Runs, NEW s \in Symbols PROVE SlotTruth(r, s)'
    <2>1. SlotTruth(r, s) /\ ~FlightOverdue(r, s)
      BY DEF Inv, Truth, Tick
    <2>2. CASE pending[r][s] = NoOrder
      BY <1>1, <2>2, TickFrame DEF SlotTruth
    <2>3. CASE pending[r][s] # NoOrder
      <3> DEFINE p == pending[r][s]
                 q == pending'[r][s]
      <3>1. /\ q # NoOrder /\ q.id = p.id /\ q.side = p.side /\ q.size = p.size
            /\ q.age \in Nat /\ p.age \in Nat /\ q.age <= p.age + 1
        BY <1>1, <2>3, TickFrame
      <3>2. pc[r] # "ended" /\ orders[p.id].state \in {"absent", "flight"} =>
                q.age <= MaxFlight
        BY <2>1, <2>3, <3>1, AutoBounds DEF FlightOverdue
      <3> QED
        BY <1>1, <2>1, <2>3, <3>1, <3>2 DEF SlotTruth
    <2> QED
      BY <2>2, <2>3
  <1>4. ASSUME NEW r \in Runs PROVE RunTruth(r)'
    <2>1. RunTruth(r) /\ RunShape(r)
      BY <1>1 DEF Inv, Truth, TypeShape
    <2>2. CASE pc[r] \in Ordering
      <3>1. /\ task[r].symbol \in Symbols /\ Mine(r) # NoOrder
            /\ Mine(r) = pending[r][task[r].symbol]
            /\ Mine(r)' = pending'[r][task[r].symbol]
        BY <1>1, <2>1, <2>2, MineTypes DEF Mine, RunShape, Ordering, Handling
      <3>2. /\ Mine(r)'.id = Mine(r).id
            /\ Mine(r)'.age \in Nat /\ Mine(r).age \in Nat
            /\ Mine(r)'.age <= Mine(r).age + 1
        BY <1>1, <3>1, TickFrame
      <3>3. ASSUME reply'[r] # NoReply PROVE AnswerTrue(r)'
        <4>1. /\ reply[r] # NoReply
              /\ reply'[r].state = reply[r].state
              /\ reply'[r].executed = reply[r].executed
              /\ reply'[r].waited = reply[r].waited + 1
          BY <1>1, <3>3, TickFrame
        <4>2. reply[r].waited \in Nat
          BY <1>1, <4>1, AutoBounds DEF TypeShape, TypeOK, Replies
        <4>3. Mine(r).age <= MaxFlight + reply[r].waited =>
                  Mine(r)'.age <= MaxFlight + reply'[r].waited
          BY <3>2, <4>1, <4>2, AutoBounds
        <4> QED
          BY <1>1, <2>1, <3>2, <4>1, <4>3 DEF RunTruth, AnswerTrue
      <3> QED
        BY <1>1, <2>1, <3>2, <3>3 DEF RunTruth
    <2>3. CASE pc[r] \notin Ordering
      <3>1. reply[r] = NoReply
        BY <2>1, <2>3 DEF RunShape, Ordering, Answering
      <3>2. reply'[r] = NoReply
        BY <1>1, <3>1, TickFrame
      <3> QED
        BY <1>1, <2>3, <3>2 DEF RunTruth, Ordering
    <2> QED
      BY <2>2, <2>3
  <1> QED
    BY <1>2, <1>3, <1>4 DEF Truth

LEMMA NextTruth == GraceCoversDelays /\ Inv /\ [Next]_vars => Inv'
  <1> SUFFICES ASSUME GraceCoversDelays, Inv, [Next]_vars PROVE Truth'
    BY NextTypeShape DEF Inv
  <1>1. CASE Start \/ Stop \/ Crash
    BY <1>1, ControlTruth
  <1>2. ASSUME NEW r \in Runs, RunStep(r) PROVE Truth'
    BY <1>2, IdleTruth, ComposeTruth, SubmitTruth, QuietTruth, ApplyTruth,
       ExchangeTruth DEF RunStep
  <1>3. CASE \E o \in OrderIds : ExchangeStep(o)
    BY <1>3, ExchangeTruth
  <1>4. CASE Tick
    BY <1>4, TickTruth
  <1>5. CASE UNCHANGED vars
    BY <1>5, FreeTruth DEF vars, marketVars
  <1> QED
    BY <1>1, <1>2, <1>3, <1>4, <1>5 DEF Next

\* The inductive invariant holds in every reachable state, for any number of
\* runs.
THEOREM TruthHolds ==
  ASSUME GraceCoversDelays
  PROVE  Spec => []Inv
  <1>1. Init => Inv
    BY InitTypeShape, InitTruth DEF Inv
  <1>2. Inv /\ [Next]_vars => Inv'
    BY NextTruth
  <1> QED
    BY <1>1, <1>2, PTL DEF Spec

\* However signals, stop-losses, crashes and restarts interleave with the
\* exchange, no run ever has two live orders for one symbol, when the grace
\* period outlasts a submission in flight and an answer on its way
\* (signalTradeStep).
THEOREM OneLiveOrderHolds ==
  ASSUME GraceCoversDelays
  PROVE  Spec => []OneLiveOrderPerSymbol
  <1>1. Inv => OneLiveOrderPerSymbol
    <2> SUFFICES ASSUME Inv, NEW r \in Runs, NEW s \in Symbols,
                        NEW o \in Submitted(r, s), NEW p \in Submitted(r, s),
                        orders[o].state \in Live, orders[p].state \in Live
                 PROVE  o = p
      BY DEF OneLiveOrderPerSymbol
    <2>1. /\ o \in OrderIds /\ p \in OrderIds /\ o[1] = r /\ p[1] = r
          /\ orders[o].symbol = s /\ orders[p].symbol = s
      <3>1. seq[r] \in 0 .. MaxOrders
        BY DEF Inv, TypeShape, TypeOK
      <3>2. \A n \in 1 .. seq[r] : <<r, n>> \in OrderIds
        BY <3>1, AutoBounds DEF OrderIds
      <3> QED
        BY <3>2 DEF Submitted
    <2>2. pending[r][s].id = o /\ pending[r][s].id = p
      BY <2>1 DEF Inv, Truth, OrderTruth
    <2> QED
      BY <2>2
  <1> QED
    BY <1>1, TruthHolds, PTL

-----------------------------------------------------------------------------
(***************************************************************************)
(* Positions, for the first run.  Base is what the account held before the *)
(* pending order of a symbol traded; the tracked position never exceeds    *)
(* it, and a SELL the exchange may execute never exceeds either.  A visit  *)
(* of the stop-loss walk, and a SELL being asked for, is about a position  *)
(* that is still tracked.                                                  *)
(***************************************************************************)
Selling(r, s) == pending[r][s] # NoOrder /\ pending[r][s].side = "SELL"

Executed(r, s) == orders[pending[r][s].id].executed

Base(r, s) ==
    IF pending[r][s] = NoOrder THEN inventory[r][s]
    ELSE IF Selling(r, s) THEN inventory[r][s] + Executed(r, s)
    ELSE inventory[r][s] - Executed(r, s)

SlotHeld(r, s) ==
    /\ Base(r, s) >= 0
    /\ Selling(r, s)
       /\ orders[pending[r][s].id].state \in {"flight", "open", "filled", "canceled"}
          => pending[r][s].size <= Base(r, s)
    /\ running = r =>
          /\ tracked[s] <= Base(r, s)
          /\ Selling(r, s) => pending[r][s].size <= tracked[s]

RunHeld(r) ==
    running = r =>
        /\ \A s \in walk[r] : tracked[s] > 0
        /\ pc[r] \in {"asked", "looked"} /\ task[r].side = "SELL" =>
              tracked[task[r].symbol] > 0

Held == \A r \in Runs : RunHeld(r) /\ \A s \in Symbols : SlotHeld(r, s)

LEMMA InitHeld == Init => Held
  BY DEF Init, Held, RunHeld, SlotHeld, Base, Selling, Nothing

\* Nothing of a slot that its truth depends on changes.
LEMMA SlotFrame ==
  ASSUME Inv, NEW r \in Runs, NEW s \in Symbols, SlotHeld(r, s),
         inventory'[r][s] = inventory[r][s],
         pending'[r][s] = NoOrder <=> pending[r][s] = NoOrder,
         pending[r][s] # NoOrder =>
            /\ pending'[r][s].id = pending[r][s].id
            /\ pending'[r][s].side = pending[r][s].side
            /\ pending'[r][s].size = pending[r][s].size
            /\ Executed(r, s)' = Executed(r, s)
            /\ orders'[pending[r][s].id].state
                 \in {"flight", "open", "filled", "canceled"} =>
               orders[pending[r][s].id].state
                 \in {"flight", "open", "filled", "canceled"},
         running' = r => running = r /\ tracked'[s] = tracked[s]
  PROVE  SlotHeld(r, s)'
  <1>1. Base(r, s)' = Base(r, s) /\ (Selling(r, s)' <=> Selling(r, s))
    BY DEF Base, Selling
  <1> QED
    BY <1>1 DEF SlotHeld, Selling

\* The operator: a fresh map of positions comes with a run that has not
\* traded yet, and none is tracked while no run is active.
LEMMA ControlHeld ==
  ASSUME MaxRuns = 1, Inv, Held, Start \/ Stop \/ Crash
  PROVE  Held'
  <1>1. UNCHANGED <<pending, orders, inventory, walk, task>>
    BY DEF Start, Stop, Crash, marketVars
  <1>2. CASE Start
    <2> SUFFICES ASSUME NEW r \in Runs
                 PROVE  RunHeld(r)' /\ \A s \in Symbols : SlotHeld(r, s)'
      BY DEF Held
    <2>1. r = 1 /\ started = 0 /\ TypeOK /\ RunShape(r)
      BY <1>2 DEF Start, Inv, TypeShape, TypeOK
    <2>2. pc[r] = "off" /\ pc'[r] = "idle"
      BY <1>2, <2>1 DEF Start, RunShape, TypeOK
    <2>3. walk[r] = {} /\ \A s \in Symbols : pending[r][s] = NoOrder
      BY <2>1, <2>2 DEF RunShape
    <2>4. RunHeld(r)'
      BY <1>1, <2>2, <2>3 DEF RunHeld
    <2>5. ASSUME NEW s \in Symbols PROVE SlotHeld(r, s)'
      <3>1. Base(r, s)' = inventory[r][s] /\ inventory[r][s] >= 0 /\ ~Selling(r, s)'
        BY <1>1, <2>3 DEF Base, Selling, Held, SlotHeld
      <3>2. tracked'[s] = 0
        BY <1>2 DEF Start, Nothing
      <3> QED
        BY <3>1, <3>2 DEF SlotHeld, Selling
    <2> QED
      BY <2>4, <2>5
  <1>3. CASE Stop \/ Crash
    <2>1. running' = 0
      BY <1>3 DEF Stop, Crash
    <2>2. \A r \in Runs : RunHeld(r)'
      BY <2>1 DEF RunHeld
    <2>3. \A r \in Runs : \A s \in Symbols : SlotHeld(r, s)'
      BY <1>1, <2>1, SlotFrame DEF Held, Executed
    <2> QED
      BY <2>2, <2>3 DEF Held
  <1> QED
    BY <1>2, <1>3

\* The loop takes up a task: what it visits is tracked when it is visited.
LEMMA IdleHeld ==
  ASSUME MaxRuns = 1, Inv, Held, NEW r \in Runs,
         \/ LoopExit(r) \/ BeginWalk(r)
         \/ \E s \in Symbols : \/ \E side \in Sides : Signal(r, s, side)
                               \/ VisitSells(r, s) \/ VisitPasses(r, s)
  PROVE  Held'
  <1>1. /\ UNCHANGED <<running, tracked, pending, orders, inventory>>
    BY DEF LoopExit, BeginWalk, Signal, VisitSells, VisitPasses, Ask, serviceVars,
           marketVars
  <1>2. \A q \in Runs : \A s \in Symbols : SlotHeld(q, s)'
    BY <1>1, SlotFrame DEF Held, Executed
  <1>3. TypeOK /\ RunHeld(r) /\ RunShape(r) /\ \A q \in Runs : q = r
    BY DEF Inv, TypeShape, Held
  <1>4. RunHeld(r)'
    <2>1. CASE LoopExit(r)
      BY <1>1, <1>3, <2>1 DEF LoopExit, RunHeld, TypeOK
    <2>2. CASE BeginWalk(r)
      <3>1. walk'[r] = {s \in Symbols : HasPosition(s)} /\ pc'[r] = "idle"
        BY <1>3, <2>2 DEF BeginWalk, TypeOK
      <3> QED
        BY <1>1, <3>1 DEF RunHeld, HasPosition
    <2>3. ASSUME NEW s \in Symbols, NEW side \in Sides, Signal(r, s, side)
          PROVE  RunHeld(r)'
      <3>1. /\ task'[r] = [symbol |-> s, side |-> side] /\ walk' = walk
            /\ side = "SELL" => tracked[s] > 0
        BY <1>3, <2>3 DEF Signal, Ask, TypeOK, HasPosition, Sides
      <3> QED
        BY <1>1, <1>3, <3>1 DEF RunHeld
    <2>4. ASSUME NEW s \in Symbols, VisitSells(r, s)
          PROVE  RunHeld(r)'
      <3>1. /\ task'[r] = [symbol |-> s, side |-> "SELL"]
            /\ walk'[r] = walk[r] \ {s} /\ s \in walk[r]
        BY <1>3, <2>4 DEF VisitSells, Ask, TypeOK
      <3> QED
        BY <1>1, <1>3, <3>1 DEF RunHeld
    <2>5. ASSUME NEW s \in Symbols, VisitPasses(r, s)
          PROVE  RunHeld(r)'
      <3>1. walk'[r] = walk[r] \ {s} /\ pc'[r] = "idle"
        BY <1>3, <2>5 DEF VisitPasses, TypeOK
      <3> QED
        BY <1>1, <1>3, <3>1 DEF RunHeld
    <2> QED
      BY <2>1, <2>2, <2>3, <2>4, <2>5
  <1> QED
    BY <1>2, <1>3, <1>4 DEF Held

\* An exit sells no more than is tracked.
LEMMA ComposeHeld ==
  ASSUME MaxRuns = 1, Inv, Held, NEW r \in Runs, Compose(r)
  PROVE  Held'
  <1> DEFINE s == task[r].symbol
             n == seq[r] + 1
             new == pending'[r][s]
  <1>1. /\ TypeOK /\ RunShape(r) /\ pc[r] = "asked" /\ Mine(r) = NoOrder
        /\ \A q \in Runs : q = r
    BY DEF Inv, TypeShape, Compose
  <1>2. /\ s \in Symbols /\ seq[r] \in 0 .. MaxOrders /\ seq[r] < MaxOrders
        /\ task[r].side \in Sides
    BY <1>1, MineTypes DEF Inv, Handling, TypeOK, Compose
  <1>3. <<r, n>> \in OrderIds /\ n > seq[r]
    BY <1>2, AutoBounds DEF OrderIds
  <1>4. orders[<<r, n>>].executed = 0 /\ orders[<<r, n>>].state = "absent"
    BY <1>3 DEF Inv, Truth, OrderTruth, Untraded
  <1>5. /\ UNCHANGED <<running, tracked, task, walk, orders, inventory>>
        /\ pc'[r] = "composed"
    BY <1>1 DEF Compose, serviceVars, marketVars, TypeOK
  <1>6. /\ \A t \in Symbols : t # s => pending'[r][t] = pending[r][t]
        /\ new.id = <<r, n>> /\ new.side = task[r].side
        /\ new.size = Size(s, task[r].side)
    <2>1. seq'[r] = n
      BY <1>1 DEF Compose, TypeOK
    <2> DEFINE put == [id |-> <<r, n>>, side |-> task[r].side,
                       size |-> Size(s, task[r].side), age |-> 0,
                       sinceCancel |-> CancelRetry]
    <2>2. pending' = [pending EXCEPT ![r][s] = put]
      BY <2>1 DEF Compose
    <2>3. /\ put.id = <<r, n>> /\ put.side = task[r].side
          /\ put.size = Size(s, task[r].side)
      OBVIOUS
    <2>4. pending \in [Runs -> [Symbols -> PendingOrders \cup {NoOrder}]]
      BY <1>1 DEF TypeOK
    <2> HIDE DEF put, s, n
    <2>5. new = put
      BY <1>2, <2>2, <2>4
    <2> QED
      BY <1>2, <2>2, <2>3, <2>4, <2>5
  <1>7. RunHeld(r) /\ SlotHeld(r, s)
    BY <1>2 DEF Held
  <1>8. RunHeld(r)'
    BY <1>5, <1>7 DEF RunHeld
  <1>9. ASSUME NEW t \in Symbols, t = s PROVE SlotHeld(r, t)'
    <2>1. Base(r, t) = inventory[r][t] /\ inventory[r][t] \in Int
      BY <1>1, <1>2, <1>9 DEF Base, Mine, TypeOK
    <2>2. /\ pending'[r][t].id = <<r, n>> /\ pending'[r][t].side = task[r].side
          /\ pending'[r][t].size = Size(t, task[r].side)
      BY <1>6, <1>9
    <2>3. Base(r, t)' = inventory[r][t]
      <3>1. Executed(r, t)' = 0 /\ inventory'[r][t] \in Int
        BY <1>4, <1>5, <2>1, <2>2 DEF Executed
      <3> QED
        BY <1>5, <2>1, <3>1 DEF Base
    <2>4. running = r /\ task[r].side = "SELL" => pending'[r][t].size <= tracked[t]
      BY <1>1, <1>2, <1>7, <1>9, <2>2, SizeType DEF RunHeld
    <2>5. SlotHeld(r, t) /\ orders'[pending'[r][t].id].state = "absent"
      BY <1>4, <1>5, <1>7, <1>9, <2>2
    <2> HIDE DEF s, n
    <2> QED
      BY <1>5, <2>1, <2>2, <2>3, <2>4, <2>5 DEF SlotHeld, Selling
  <1>10. ASSUME NEW t \in Symbols, t # s PROVE SlotHeld(r, t)'
    BY <1>5, <1>6, <1>10, SlotFrame DEF Held, Executed
  <1>11. \A t \in Symbols : SlotHeld(r, t)'
    BY <1>9, <1>10
  <1> QED
    BY <1>1, <1>8, <1>11 DEF Held

\* Hearing of an order, or nothing, moves no position; dropping the position
\* that was sold leaves the walk's other symbols alone.
LEMMA QuietHeld ==
  ASSUME MaxRuns = 1, Inv, Held, NEW r \in Runs,
         \/ PlaceAnswered(r) \/ PlaceUnknown(r) \/ Lookup(r) \/ LookupFailed(r)
         \/ CancelFailed(r) \/ ClosePosition(r)
  PROVE  Held'
  <1>1. /\ TypeShape /\ TypeOK /\ RunShape(r) /\ Worked(r)
        /\ UNCHANGED <<pending, orders>>
    BY QuietWorked DEF Inv, TypeShape
  <1>2. UNCHANGED <<running, walk, inventory>> /\ \A q \in Runs : q = r
    BY <1>1 DEF Worked, serviceVars
  <1>3. RunHeld(r) /\ \A s \in Symbols : SlotHeld(r, s)
    BY DEF Held
  <1>4. CASE ~ClosePosition(r)
    <2>1. UNCHANGED tracked
      BY <1>4 DEF PlaceAnswered, PlaceUnknown, Lookup, LookupFailed, CancelFailed,
                  CancelReturns
    <2>2. \A s \in Symbols : SlotHeld(r, s)'
      BY <1>1, <1>2, <1>3, <2>1, SlotFrame DEF Executed
    <2>3. pc'[r] \in {"asked", "looked"} => pc[r] \in {"asked", "looked"} /\ task' = task
      BY <1>1, <1>4 DEF PlaceAnswered, PlaceUnknown, Lookup, LookupFailed,
                        CancelFailed, CancelReturns, Return, TypeOK
    <2>4. RunHeld(r)'
      BY <1>2, <1>3, <2>1, <2>3 DEF RunHeld
    <2> QED
      BY <1>2, <2>2, <2>4 DEF Held
  <1>5. CASE ClosePosition(r)
    <2>1. /\ task[r].symbol \in Symbols /\ pending[r][task[r].symbol] = NoOrder
          /\ task[r].symbol \notin walk[r] /\ pc'[r] = "idle"
      BY <1>1, <1>5, MineTypes
         DEF ClosePosition, RunShape, Handling, Return, TypeOK, Mine
    <2>2. \A s \in Symbols : tracked'[s] = IF s = task[r].symbol THEN 0 ELSE tracked[s]
      BY <1>1, <1>5 DEF ClosePosition, TypeOK
    <2>3. ASSUME NEW s \in Symbols PROVE SlotHeld(r, s)'
      <3>1. CASE s = task[r].symbol
        BY <1>1, <1>2, <1>3, <2>1, <2>2, <3>1 DEF SlotHeld, Base, Selling
      <3>2. CASE s # task[r].symbol
        BY <1>1, <1>2, <1>3, <2>2, <3>2, SlotFrame DEF Executed
      <3> QED
        BY <3>1, <3>2
    <2>4. RunHeld(r)'
      <3>1. \A s \in walk[r] : s \in Symbols /\ s # task[r].symbol
        BY <1>1, <2>1 DEF TypeOK
      <3> QED
        BY <1>2, <1>3, <2>1, <2>2, <3>1 DEF RunHeld
    <2> QED
      BY <1>2, <2>3, <2>4 DEF Held
  <1> QED
    BY <1>4, <1>5

\* An exit reaches the exchange only while its run is active: what it sells is
\* still tracked.
LEMMA SubmitHeld ==
  ASSUME MaxRuns = 1, Inv, Held, NEW r \in Runs, Submit(r)
  PROVE  Held'
  <1> DEFINE s == task[r].symbol
             o == Mine(r).id
  <1>1. /\ TypeShape /\ TypeOK /\ RunShape(r) /\ pc[r] = "composed"
        /\ orders[o].state = "absent"
    BY DEF Inv, TypeShape, Truth, RunTruth, Submit
  <1>2. /\ Worked(r) /\ UNCHANGED <<pending, reply, tracked, task>>
        /\ Mine(r) # NoOrder /\ o \in OrderIds /\ pc'[r] = "placing"
    BY <1>1, ReachWorked DEF Submit, TypeOK
  <1>3. /\ s \in Symbols /\ Mine(r) = pending[r][s] /\ orders[o].executed = 0
        /\ UNCHANGED <<running, walk, inventory>> /\ \A q \in Runs : q = r
    BY <1>1, <1>2, MineTypes DEF Worked, serviceVars, Inv, Truth, OrderTruth, Untraded
  <1>4. /\ orders'[o].executed = 0
        /\ orders'[o].state = IF running = r THEN "flight" ELSE "lost"
        /\ \A p \in OrderIds : p # o => orders'[p] = orders[p]
    BY <1>1, <1>2 DEF Submit, TypeOK, ContextLive
  <1>5. RunHeld(r) /\ RunHeld(r)'
    BY <1>2, <1>3 DEF Held, RunHeld
  <1> HIDE DEF s, o
  <1>6. ASSUME NEW t \in Symbols PROVE SlotHeld(r, t)'
    <2>1. SlotHeld(r, t) /\ SlotTruth(r, t)
      BY DEF Held, Inv, Truth
    <2>2. CASE t = s
      <3>1. pending[r][t].id = o /\ pending[r][t] # NoOrder
        BY <1>2, <1>3, <2>2 DEF o
      <3>2. Executed(r, t)' = 0 /\ Executed(r, t) = 0
        BY <1>2, <1>3, <1>4, <3>1 DEF Executed
      <3>3. Base(r, t)' = Base(r, t) /\ (Selling(r, t)' <=> Selling(r, t))
        BY <1>2, <1>3, <3>1, <3>2 DEF Base, Selling
      <3>4. /\ inventory[r][t] \in Int /\ tracked[t] \in Nat
            /\ pending[r][t].size \in Nat
        <4>1. pending[r][t].size \in 1 .. Quantity
          BY <1>1, <1>2, <1>3, <2>2, MineTypes DEF Handling
        <4> QED
          BY <1>1, <4>1, AutoBounds DEF TypeOK
      <3>5. Base(r, t) \in Int
        BY <3>1, <3>2, <3>4 DEF Base
      <3>6. running = r /\ Selling(r, t) => pending[r][t].size <= Base(r, t)
        BY <2>1, <3>4, <3>5 DEF SlotHeld
      <3> QED
        BY <1>2, <1>3, <1>4, <2>1, <3>1, <3>3, <3>6 DEF SlotHeld
    <2>3. CASE t # s /\ pending[r][t] # NoOrder
      <3>1. pending[r][t].id \in OrderIds
        BY <1>1, <2>3, SlotType
      <3>2. pending[r][t].id # o
        BY <1>1, <2>1, <2>3 DEF SlotTruth, s
      <3> QED
        BY <1>2, <1>3, <1>4, <2>1, <2>3, <3>1, <3>2, SlotFrame DEF Executed
    <2>4. CASE pending[r][t] = NoOrder
      BY <1>2, <1>3, <2>1, <2>4, SlotFrame
    <2> QED
      BY <2>2, <2>3, <2>4
  <1> QED
    BY <1>3, <1>5, <1>6 DEF Held

\* What the loop books when it lets an order go is what the order executed.
LEMMA LetGoRecords ==
  ASSUME GraceCoversDelays, Inv, NEW r \in Runs,
         \/ PlaceRejected(r) \/ ApplyFilled(r) \/ ApplyDone(r)
         \/ ApplyNotFound(r) /\ GraceOver(Mine(r))
  PROVE  LET s == task[r].symbol
             p == pending[r][s]
             x == orders[p.id].executed
         IN  /\ p # NoOrder /\ p.id \in OrderIds /\ p.side \in Sides
             /\ p.size \in 1 .. Quantity /\ x \in 0 .. Quantity
             /\ s \in Symbols /\ s \notin walk[r]
             /\ orders[p.id].state \in {"filled", "canceled", "refused", "lost"}
             /\ orders[p.id].state \in {"refused", "lost"} => x = 0
             /\ x <= p.size
             /\ pending'[r][s] = NoOrder
             /\ \A t \in Symbols : t # s => tracked'[t] = tracked[t]
             /\ running = r =>
                   tracked'[s] = IF p.side = "BUY" THEN tracked[s] + x
                                 ELSE IF tracked[s] > x THEN tracked[s] - x ELSE 0
             /\ pc'[r] \in {"idle", "asked", "closing"}
             /\ pc'[r] = "asked" =>
                   /\ pc[r] = "looked" /\ task'[r] = task[r]
                   /\ p.side = task[r].side => x < p.size
  <1> DEFINE s == task[r].symbol
             p == pending[r][s]
             x == orders[p.id].executed
  <1>1. /\ TypeShape /\ TypeOK /\ RunShape(r) /\ Worked(r) /\ pc[r] \in Handling
    BY ApplyWorked DEF Inv, TypeShape, Worked
  <1>2. /\ s \in Symbols /\ s \notin walk[r] /\ Mine(r) = p /\ p # NoOrder
        /\ p.id \in OrderIds /\ p.side \in Sides /\ p.size \in 1 .. Quantity
        /\ Mine(r) # NoOrder
    BY <1>1, LetGoIsFinal, MineTypes DEF RunShape
  <1>3. /\ orders[p.id].state \in {"filled", "canceled", "refused", "lost"}
        /\ PlaceRejected(r) \/ ApplyNotFound(r) => x = 0
        /\ ApplyFilled(r) => /\ orders[p.id].state = "filled"
                             /\ reply[r].executed \in {0, x}
        /\ ApplyDone(r) => reply[r].executed = x
    BY <1>2, LetGoIsFinal
  <1> HIDE DEF p
  <1>4. /\ OrderTruth(p.id) /\ SlotTruth(r, s) /\ orders[p.id].size = p.size
        /\ orders[p.id].executed \in 0 .. Quantity
    BY <1>1, <1>2, <1>3 DEF Inv, Truth, SlotTruth, TypeOK, p
  <1>5. /\ x \in 0 .. Quantity /\ x <= p.size
        /\ orders[p.id].state \in {"refused", "lost"} => x = 0
        /\ orders[p.id].state = "filled" => x = p.size
    BY <1>4 DEF OrderTruth, Untraded
  <1> HIDE DEF x, s
  <1>6. x \in Nat /\ p.size \in Nat /\ p.size > 0 /\ tracked \in [Symbols -> Nat]
    <2>1. tracked \in [Symbols -> Nat]
      BY <1>1 DEF TypeOK
    <2>2. p.size \in 1 .. Quantity /\ x \in 0 .. Quantity
      BY <1>2, <1>5
    <2> QED
      BY <2>1, <2>2, AutoBounds
  <1> DEFINE Booked ==
        /\ \A t \in Symbols : t # s => tracked'[t] = tracked[t]
        /\ running = r =>
              tracked'[s] = IF p.side = "BUY" THEN tracked[s] + x
                            ELSE IF tracked[s] > x THEN tracked[s] - x ELSE 0
  <1>7. ASSUME Record(r, x) PROVE Booked
    BY <1>2, <1>6, <1>7 DEF Record, ContextLive, s
  <1>8. ASSUME UNCHANGED tracked, x = 0 PROVE Booked
    <2>1. tracked[s] \in Nat
      BY <1>2, <1>6
    <2> QED
      BY <1>8, <2>1
  <1> DEFINE Went(filled) ==
        /\ pending'[r][s] = NoOrder /\ pc'[r] \in {"idle", "asked", "closing"}
        /\ pc'[r] = "asked" =>
              /\ pc[r] = "looked" /\ task'[r] = task[r]
              /\ ~(filled /\ p.side = task[r].side)
  <1>9. ASSUME NEW filled, Conclude(r, filled), pc[r] \in Answering
        PROVE  Went(filled)
    <2>1. /\ Moved(r) /\ pending'[r][s] = NoOrder
          /\ pc'[r] \in {"idle", "asked", "closing"}
          /\ pc'[r] = "asked" => /\ pc[r] = "looked"
                                 /\ ~(filled /\ Mine(r).side = task[r].side)
      BY <1>1, <1>9, ConcludeMoves DEF s
    <2> QED
      BY <1>2, <2>1 DEF Moved
  <1>10. CASE PlaceRejected(r)
    <2>1. UNCHANGED tracked /\ x = 0 /\ pc'[r] = "idle"
      BY <1>1, <1>3, <1>10 DEF PlaceRejected, Return, TypeOK, x
    <2>2. pending'[r][s] = NoOrder
      BY <1>1, <1>10, <2>1, ForgetKept DEF PlaceRejected, Ordering, s
    <2> QED
      BY <1>2, <1>3, <1>5, <1>8, <2>1, <2>2 DEF s, p, x
  <1>11. CASE ApplyFilled(r)
    <2>1. pc[r] \in Answering /\ Conclude(r, TRUE)
      BY <1>11 DEF ApplyFilled, Answered, Answering
    <2>2. Record(r, IF reply[r].executed > 0 THEN reply[r].executed ELSE p.size)
      BY <1>2, <1>11 DEF ApplyFilled
    <2>3. reply[r].executed \in {0, x} /\ x = p.size
      BY <1>3, <1>5, <1>11 DEF x
    <2>4. Record(r, x)
      <3>1. (IF reply[r].executed > 0 THEN reply[r].executed ELSE p.size) = x
        BY <1>6, <2>3
      <3> QED
        BY <2>2, <3>1
    <2> QED
      BY <1>2, <1>3, <1>5, <1>7, <1>9, <2>1, <2>4 DEF s, p, x
  <1>12. CASE ApplyDone(r)
    <2>1. /\ pc[r] \in Answering /\ reply[r].executed = x
          /\ Conclude(r, reply[r].executed >= p.size)
      BY <1>2, <1>3, <1>12 DEF ApplyDone, Answered, Answering, x
    <2>2. Conclude(r, x >= p.size)
      BY <2>1
    <2>3. Booked
      <3>1. CASE x > 0
        BY <1>7, <1>12, <2>1, <3>1 DEF ApplyDone
      <3>2. CASE x = 0
        BY <1>8, <1>12, <2>1, <3>2 DEF ApplyDone
      <3> QED
        BY <1>6, <3>1, <3>2
    <2>4. Went(x >= p.size)
      BY <1>9, <2>1, <2>2
    <2>5. ~(x >= p.size) => x < p.size
      BY <1>6
    <2> QED
      BY <1>2, <1>3, <1>5, <2>3, <2>4, <2>5 DEF s, p, x
  <1>13. CASE ApplyNotFound(r) /\ GraceOver(Mine(r))
    <2>1. pc[r] \in Answering /\ Conclude(r, FALSE) /\ UNCHANGED tracked /\ x = 0
      BY <1>3, <1>13 DEF ApplyNotFound, Answered, Answering, x
    <2>2. Booked /\ Went(FALSE) /\ x < p.size
      BY <1>6, <1>8, <1>9, <2>1
    <2> QED
      BY <1>2, <1>3, <1>5, <2>2 DEF s, p, x
  <1> QED
    BY <1>10, <1>11, <1>12, <1>13

\* An order let go of has been booked: what is tracked stays within what the
\* account holds, and a call that goes on to sell still has something to sell.
LEMMA LetGoHeld ==
  ASSUME GraceCoversDelays, MaxRuns = 1, Inv, Held, NEW r \in Runs,
         \/ PlaceRejected(r) \/ ApplyFilled(r) \/ ApplyDone(r)
         \/ ApplyNotFound(r) /\ GraceOver(Mine(r))
  PROVE  Held'
  <1> DEFINE s == task[r].symbol
             p == pending[r][s]
             x == orders[p.id].executed
  <1>1. /\ TypeOK /\ Worked(r) /\ UNCHANGED orders
    BY ApplyWorked DEF Inv, TypeShape
  <1>2. UNCHANGED <<running, walk, inventory>> /\ \A q \in Runs : q = r
    BY <1>1 DEF Worked, serviceVars
  <1>3. \A t \in Symbols : t # s => pending'[r][t] = pending[r][t]
    BY <1>1 DEF Worked, Kept
  <1>4. RunHeld(r) /\ \A t \in Symbols : SlotHeld(r, t)
    BY DEF Held
  <1>5. /\ p # NoOrder /\ p.id \in OrderIds /\ p.side \in Sides
        /\ p.size \in 1 .. Quantity /\ x \in 0 .. Quantity
        /\ s \in Symbols /\ s \notin walk[r]
        /\ orders[p.id].state \in {"filled", "canceled", "refused", "lost"}
        /\ orders[p.id].state \in {"refused", "lost"} => x = 0
        /\ x <= p.size
        /\ pending'[r][s] = NoOrder
        /\ \A t \in Symbols : t # s => tracked'[t] = tracked[t]
        /\ running = r =>
              tracked'[s] = IF p.side = "BUY" THEN tracked[s] + x
                            ELSE IF tracked[s] > x THEN tracked[s] - x ELSE 0
        /\ pc'[r] \in {"idle", "asked", "closing"}
        /\ pc'[r] = "asked" =>
              /\ pc[r] = "looked" /\ task'[r] = task[r]
              /\ p.side = task[r].side => x < p.size
    BY LetGoRecords
  <1>6. /\ x \in Nat /\ p.size \in Nat /\ tracked[s] \in Nat
        /\ inventory[r][s] \in Int
    <2>1. tracked[s] \in Nat /\ inventory[r][s] \in Int
      BY <1>1, <1>5 DEF TypeOK
    <2> QED
      BY <1>5, <2>1, AutoBounds
  <1>7. SlotHeld(r, s)
    BY <1>4, <1>5
  <1>8. /\ p.side = "BUY" => /\ inventory[r][s] - x >= 0
                             /\ running = r => tracked[s] <= inventory[r][s] - x
        /\ p.side # "BUY" => /\ p.side = "SELL"
                             /\ inventory[r][s] + x >= 0
                             /\ x > 0 => p.size <= inventory[r][s] + x
                             /\ running = r => /\ tracked[s] <= inventory[r][s] + x
                                               /\ p.size <= tracked[s]
    <2>1. CASE p.side = "SELL"
      <3>1. Selling(r, s) /\ Base(r, s) = inventory[r][s] + x
        BY <1>5, <2>1 DEF Selling, Base, Executed
      <3>2. x > 0 => orders[p.id].state \in {"flight", "open", "filled", "canceled"}
        BY <1>5, <1>6
      <3> QED
        BY <1>7, <2>1, <3>1, <3>2 DEF SlotHeld
    <2>2. CASE p.side = "BUY"
      <3>1. ~Selling(r, s) /\ Base(r, s) = inventory[r][s] - x
        BY <1>5, <2>2 DEF Selling, Base, Executed
      <3> QED
        BY <1>7, <2>2, <3>1 DEF SlotHeld
    <2> QED
      BY <1>5, <2>1, <2>2 DEF Sides
  <1> HIDE DEF s, p, x
  <1>9. /\ inventory[r][s] >= 0
        /\ running = r => tracked'[s] <= inventory[r][s]
    BY <1>5, <1>6, <1>8
  <1>10. ASSUME NEW t \in Symbols PROVE SlotHeld(r, t)'
    <2>1. CASE t = s
      BY <1>2, <1>5, <1>9, <2>1 DEF SlotHeld, Base, Selling
    <2>2. CASE t # s
      BY <1>1, <1>2, <1>3, <1>4, <1>5, <2>2, SlotFrame DEF Executed
    <2> QED
      BY <2>1, <2>2
  <1>11. RunHeld(r)'
    <2>1. ASSUME running = r, NEW t \in walk[r] PROVE tracked'[t] > 0
      <3>1. t \in Symbols /\ t # s
        BY <1>1, <1>5 DEF TypeOK
      <3> QED
        BY <1>4, <1>5, <2>1, <3>1 DEF RunHeld
    <2>2. ASSUME running = r, pc'[r] = "asked", task[r].side = "SELL"
          PROVE  tracked'[s] > 0
      <3>1. pc[r] = "looked" /\ tracked[s] > 0
        BY <1>4, <1>5, <2>2 DEF RunHeld, s
      <3> QED
        BY <1>5, <1>6, <1>8, <2>2, <3>1
    <2>3. /\ pc'[r] \in {"asked", "looked"} => pc'[r] = "asked"
          /\ pc'[r] = "asked" => task'[r] = task[r]
      BY <1>5
    <2> QED
      BY <1>2, <2>1, <2>2, <2>3 DEF RunHeld, s
  <1> QED
    BY <1>2, <1>10, <1>11 DEF Held

LEMMA ApplyHeld ==
  ASSUME GraceCoversDelays, MaxRuns = 1, Inv, Held, NEW r \in Runs,
         \/ PlaceRejected(r) \/ ApplyFilled(r) \/ ApplyDone(r)
         \/ ApplyNotFound(r) \/ ApplyOpen(r)
  PROVE  Held'
  <1>1. CASE \/ PlaceRejected(r) \/ ApplyFilled(r) \/ ApplyDone(r)
             \/ ApplyNotFound(r) /\ GraceOver(Mine(r))
    BY <1>1, LetGoHeld
  <1>2. CASE \/ ApplyOpen(r)
             \/ ApplyNotFound(r) /\ ~GraceOver(Mine(r))
    <2>1. /\ TypeOK /\ RunShape(r) /\ Worked(r) /\ UNCHANGED <<orders, tracked>>
          /\ pc[r] \in Ordering
      BY <1>2, ApplyWorked
         DEF Inv, TypeShape, ApplyOpen, ApplyNotFound, Answered, Ordering
    <2>2. /\ UNCHANGED <<running, walk, inventory>> /\ \A q \in Runs : q = r
          /\ RunHeld(r) /\ \A t \in Symbols : SlotHeld(r, t)
      BY <2>1 DEF Worked, serviceVars, Held
    <2>3. pc'[r] \in {"idle", "cancelling"}
      BY <1>2, <2>1 DEF ApplyOpen, ApplyNotFound, Dismiss, Return, TypeOK
    <2>4. pending'[r][task[r].symbol] # NoOrder
      <3>1. CASE UNCHANGED pending
        BY <2>1, <3>1 DEF RunShape, Mine
      <3>2. CASE pc' = [pc EXCEPT ![r] = "cancelling"]
        BY <2>1, <3>2 DEF Worked, Kept, Ordering, TypeOK
      <3> QED
        BY <1>2, <3>1, <3>2 DEF ApplyOpen, ApplyNotFound
    <2>5. \A t \in Symbols :
             \/ pending'[r][t] = pending[r][t]
             \/ /\ pending[r][t] # NoOrder
                /\ SameOrder(pending'[r][t], pending[r][t])
      BY <2>1, <2>4 DEF Worked, Kept
    <2>6. ASSUME NEW t \in Symbols PROVE SlotHeld(r, t)'
      <3>1. /\ pending'[r][t] = NoOrder <=> pending[r][t] = NoOrder
            /\ pending[r][t] # NoOrder =>
                  /\ pending'[r][t].id = pending[r][t].id
                  /\ pending'[r][t].side = pending[r][t].side
                  /\ pending'[r][t].size = pending[r][t].size
        BY <2>5 DEF SameOrder
      <3> QED
        BY <2>1, <2>2, <3>1, SlotFrame DEF Executed
    <2>7. RunHeld(r)'
      BY <2>1, <2>2, <2>3 DEF RunHeld
    <2> QED
      BY <2>2, <2>6, <2>7 DEF Held
  <1> QED
    BY <1>1, <1>2

\* The exchange: what an order executes moves the account and the order alike,
\* so what the account held before it stays what it was.
LEMMA ExecuteHeld ==
  ASSUME MaxRuns = 1, Inv, Held, NEW o \in OrderIds, NEW qty \in 1 .. Quantity,
         Execute(o, qty)
  PROVE  Held'
  <1> DEFINE s == orders[o].symbol
             x == orders[o].executed
             total == x + qty
             r == o[1]
  <1>1. /\ TypeShape /\ TypeOK /\ orders[o].state = "open"
        /\ UNCHANGED <<running, tracked, pc, task, walk, pending>>
    BY DEF Inv, TypeShape, Execute, loopVars, serviceVars
  <1>2. r \in Runs /\ s \in Symbols /\ (\A q \in Runs : q = r) /\ x \in Nat /\ qty \in Nat
    BY <1>1, AutoBounds DEF OrderIds, TypeOK
  <1>3. /\ RunHeld(r) /\ \A t \in Symbols : SlotHeld(r, t) /\ SlotTruth(r, t)
        /\ pending[r][s] # NoOrder /\ pending[r][s].id = o
    BY <1>1, <1>2 DEF Held, Inv, Truth, OrderTruth, Live
  <1>4. /\ orders'[o].executed = total
        /\ orders'[o].state \in {"open", "filled"}
        /\ \A p \in OrderIds : p # o => orders'[p] = orders[p]
    BY <1>1 DEF Execute, TypeOK
  <1>5. orders[o].side = pending[r][s].side /\ orders[o].side \in Sides
    BY <1>1, <1>2, <1>3 DEF SlotTruth, TypeOK
  <1>6. \A t \in Symbols :
           inventory'[r][t] = IF t = s
                              THEN IF orders[o].side = "BUY" THEN inventory[r][t] + qty
                                   ELSE inventory[r][t] - qty
                              ELSE inventory[r][t]
    BY <1>1, <1>2, ExecuteType
  <1>7. total \in Nat /\ total = x + qty
    BY <1>2
  <1> HIDE DEF s, x, total, r
  <1>8. ASSUME NEW t \in Symbols, t = s PROVE SlotHeld(r, t)'
    <2>1. /\ pending[r][t] # NoOrder /\ pending[r][t].id = o
          /\ Executed(r, t) = x /\ Executed(r, t)' = total
          /\ inventory[r][t] \in Int
      BY <1>1, <1>2, <1>3, <1>4, <1>8 DEF Executed, TypeOK, x
    <2>2. Selling(r, t) <=> orders[o].side = "SELL"
      BY <1>3, <1>5, <1>8 DEF Selling
    <2>3. Selling(r, t)' <=> Selling(r, t)
      BY <1>1 DEF Selling
    <2>4. Base(r, t)' = IF Selling(r, t) THEN inventory'[r][t] + total
                        ELSE inventory'[r][t] - total
      BY <1>1, <2>1, <2>3 DEF Base
    <2>5. Base(r, t) = IF Selling(r, t) THEN inventory[r][t] + x
                       ELSE inventory[r][t] - x
      BY <2>1 DEF Base
    <2>6. inventory'[r][t] = IF Selling(r, t) THEN inventory[r][t] - qty
                             ELSE inventory[r][t] + qty
      BY <1>5, <1>6, <1>8, <2>2 DEF Sides
    <2>7. Base(r, t)' = Base(r, t)
      BY <1>2, <1>7, <2>1, <2>4, <2>5, <2>6
    <2>8. SlotHeld(r, t) /\ orders[pending[r][t].id].state = "open"
      BY <1>1, <1>3, <2>1
    <2> QED
      BY <1>1, <2>3, <2>7, <2>8 DEF SlotHeld
  <1>9. ASSUME NEW t \in Symbols, t # s PROVE SlotHeld(r, t)'
    <2>1. pending[r][t] # NoOrder =>
             /\ pending[r][t].id \in OrderIds /\ pending[r][t].id # o
      BY <1>1, <1>2, <1>3, <1>9, SlotType DEF SlotTruth, s
    <2>2. pending[r][t] # NoOrder => orders'[pending[r][t].id] = orders[pending[r][t].id]
      BY <1>4, <2>1
    <2>3. inventory'[r][t] = inventory[r][t] /\ SlotHeld(r, t)
      BY <1>3, <1>6, <1>9
    <2> QED
      BY <1>1, <1>2, <2>2, <2>3, SlotFrame DEF Executed
  <1>10. \A t \in Symbols : SlotHeld(r, t)'
    BY <1>8, <1>9
  <1>11. RunHeld(r)'
    BY <1>1, <1>3 DEF RunHeld
  <1> QED
    BY <1>2, <1>10, <1>11 DEF Held

\* An order that arrives or ends executes nothing by that.
LEMMA ExchangeHeld ==
  ASSUME MaxRuns = 1, Inv, Held, \/ \E o \in OrderIds : ExchangeStep(o)
                                 \/ \E r \in Runs : CancelAccepted(r)
  PROVE  Held'
  <1>1. TypeShape /\ TypeOK
    BY DEF Inv, TypeShape
  <1>2. ASSUME NEW o \in OrderIds, orders[o].state \in Live, NEW fate,
               orders' = [orders EXCEPT ![o].state = fate],
               UNCHANGED <<running, tracked, pending, inventory, walk>>,
               \A q \in Runs : \/ pc'[q] = pc[q] /\ task'[q] = task[q]
                               \/ pc'[q] = "idle"
        PROVE  Held'
    <2>1. /\ \A p \in OrderIds : orders'[p].executed = orders[p].executed
          /\ \A p \in OrderIds : p # o => orders'[p] = orders[p]
      BY <1>1, <1>2 DEF TypeOK
    <2>2. ASSUME NEW r \in Runs, NEW s \in Symbols PROVE SlotHeld(r, s)'
      <3>1. SlotHeld(r, s) /\ (pending[r][s] # NoOrder => pending[r][s].id \in OrderIds)
        BY <1>1, SlotType DEF Held
      <3>2. pending[r][s] # NoOrder =>
               /\ Executed(r, s)' = Executed(r, s)
               /\ orders'[pending[r][s].id].state
                    \in {"flight", "open", "filled", "canceled"} =>
                  orders[pending[r][s].id].state
                    \in {"flight", "open", "filled", "canceled"}
        BY <1>2, <2>1, <3>1 DEF Executed, Live
      <3> QED
        BY <1>2, <3>1, <3>2, SlotFrame
    <2>3. ASSUME NEW r \in Runs PROVE RunHeld(r)'
      BY <1>2 DEF Held, RunHeld
    <2> QED
      BY <2>2, <2>3 DEF Held
  <1>3. ASSUME NEW o \in OrderIds, Arrive(o) \/ Expire(o) PROVE Held'
    BY <1>2, <1>3 DEF Arrive, Expire, loopVars, serviceVars, Live
  <1>4. ASSUME NEW r \in Runs, CancelAccepted(r) PROVE Held'
    <2>1. /\ Worked(r) /\ UNCHANGED <<pending, tracked>>
          /\ Mine(r).id \in OrderIds /\ pc'[r] = "idle"
          /\ orders[Mine(r).id].state = "open"
          /\ orders' = [orders EXCEPT ![Mine(r).id].state = "canceled"]
      BY <1>1, <1>4, ReachWorked, ReturnMoves DEF CancelAccepted, CancelReturns
    <2>2. /\ UNCHANGED <<running, walk, inventory>>
          /\ \A q \in Runs : \/ pc'[q] = pc[q] /\ task'[q] = task[q]
                             \/ pc'[q] = "idle"
      BY <2>1 DEF Worked, Moved, serviceVars
    <2> QED
      BY <1>2, <2>1, <2>2 DEF Live
  <1> QED
    BY <1>3, <1>4, ExecuteHeld DEF ExchangeStep

LEMMA NextHeld ==
  GraceCoversDelays /\ MaxRuns = 1 /\ Inv /\ Held /\ [Next]_vars => Held'
  <1> SUFFICES ASSUME GraceCoversDelays, MaxRuns = 1, Inv, Held, [Next]_vars
               PROVE  Held'
    OBVIOUS
  <1>1. CASE Start \/ Stop \/ Crash
    BY <1>1, ControlHeld
  <1>2. ASSUME NEW r \in Runs, RunStep(r) PROVE Held'
    BY <1>2, IdleHeld, ComposeHeld, SubmitHeld, QuietHeld, ApplyHeld, ExchangeHeld
       DEF RunStep
  <1>3. CASE \E o \in OrderIds : ExchangeStep(o)
    BY <1>3, ExchangeHeld
  <1>4. CASE Tick \/ UNCHANGED vars
    <2>1. UNCHANGED <<running, tracked, pc, task, walk, orders, inventory>>
      BY <1>4 DEF Tick, vars, loopVars, serviceVars, marketVars
    <2>2. ASSUME NEW r \in Runs, NEW s \in Symbols PROVE SlotHeld(r, s)'
      <3>1. /\ pending'[r][s] = NoOrder <=> pending[r][s] = NoOrder
            /\ pending[r][s] # NoOrder =>
                  /\ pending'[r][s].id = pending[r][s].id
                  /\ pending'[r][s].side = pending[r][s].side
                  /\ pending'[r][s].size = pending[r][s].size
        BY <1>4, TickFrame DEF Inv, vars
      <3> QED
        BY <2>1, <3>1, SlotFrame DEF Held, Executed
    <2> QED
      BY <2>1, <2>2 DEF Held, RunHeld
  <1> QED
    BY <1>1, <1>2, <1>3, <1>4 DEF Next

\* Between its orders a run tracks no more than the account holds, counting
\* what the pending order executed, and never asks the exchange to sell more.
THEOREM HeldHolds ==
  ASSUME GraceCoversDelays, MaxRuns = 1
  PROVE  Spec => [](Inv /\ Held)
  <1>1. Init => Inv /\ Held
    BY InitTypeShape, InitTruth, InitHeld DEF Inv
  <1>2. Inv /\ Held /\ [Next]_vars => (Inv /\ Held)'
    BY NextTruth, NextHeld
  <1> QED
    BY <1>1, <1>2, PTL DEF Spec

\* The first run never sells more of a symbol than it bought, whatever exits
\* time out, are rejected, expire or execute in part (signalTradeStep).
THEOREM NeverOversoldHolds ==
  ASSUME GraceCoversDelays, MaxRuns = 1
  PROVE  Spec => []NeverOversold
  <1>1. Inv /\ Held => NeverOversold
    <2> SUFFICES ASSUME Inv, Held, NEW r \in Runs, NEW s \in Symbols
                 PROVE  inventory[r][s] >= 0
      BY DEF NeverOversold
    <2>1. TypeOK /\ SlotHeld(r, s) /\ SlotTruth(r, s) /\ inventory[r][s] \in Int
      BY DEF Inv, TypeShape, TypeOK, Truth, Held
    <2>2. CASE pending[r][s] = NoOrder
      BY <2>1, <2>2 DEF SlotHeld, Base
    <2>3. CASE pending[r][s] # NoOrder
      <3> DEFINE p == pending[r][s]
                 x == orders[p.id].executed
      <3>1. /\ p \in PendingOrders /\ p.id \in OrderIds /\ OrderTruth(p.id)
            /\ orders[p.id].state \in OrderStates
        BY <2>1, <2>3, SlotType DEF Inv, Truth, TypeOK
      <3>2. p.size \in Nat /\ x \in Nat
        <4>1. p.size \in 1 .. Quantity /\ x \in 0 .. Quantity
          BY <2>1, <3>1 DEF PendingOrders, TypeOK
        <4> QED
          BY <4>1, AutoBounds
      <3>3. CASE x = 0
        BY <2>1, <2>3, <3>3 DEF SlotHeld, Base, Executed
      <3>4. CASE x > 0
        <4>1. /\ orders[p.id].state \in {"flight", "open", "filled", "canceled"}
              /\ orders[p.id].state # "absent"
          BY <3>1, <3>2, <3>4 DEF OrderTruth, Untraded, OrderStates
        <4>2. x <= p.size
          BY <2>1, <2>3, <3>1, <4>1 DEF SlotTruth, OrderTruth
        <4> QED
          BY <2>1, <2>3, <3>2, <4>1, <4>2 DEF SlotHeld, Base, Selling, Executed
      <3> QED
        BY <3>2, <3>3, <3>4
    <2> QED
      BY <2>2, <2>3
  <1> QED
    BY <1>1, HeldHolds, PTL

\* Between two orders of the first run, what is tracked of a symbol is really
\* held: the stop-loss never guards what the account does not have
\* (recordSignalFill).
THEOREM TrackedIsHeldHolds ==
  ASSUME GraceCoversDelays, MaxRuns = 1
  PROVE  Spec => []TrackedIsHeld
  <1>1. Inv /\ Held => TrackedIsHeld
    BY DEF Inv, TypeShape, TypeOK, Held, SlotHeld, Base, TrackedIsHeld
  <1> QED
    BY <1>1, HeldHolds, PTL

=============================================================================
