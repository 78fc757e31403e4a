----------------------------- MODULE AutoOrders -----------------------------
(***************************************************************************)
(* The auto bot: signals open and close one position per symbol, and a     *)
(* walk over the tracked positions closes those at their stop-loss or      *)
(* take-profit.  Each run keeps a pending order per symbol by the rules of *)
(* the grid (GridOrders); the map of tracked positions belongs to the      *)
(* service, so the loop of a stopped run still reaches it.                 *)
(*                                                                         *)
(* A call that would change nothing (a WAITING signal, a price that is not *)
(* available, a cancelled context) is not a step.                          *)
(***************************************************************************)
EXTENDS Integers, FiniteSets

CONSTANTS
    Symbols,       \* what the signals are about
    Quantity,      \* cfg.Quantity
    MaxRuns,       \* bound: how often the bot is started
    MaxOrders,     \* bound: orders one run submits
    Grace,         \* gridUnknownGrace
    MaxAge,        \* gridOrderMaxAge
    CancelRetry,   \* gridCancelRetry
    MaxFlight,     \* how long a submission may travel before it is dropped
    MaxCall        \* how long an answer may travel (the HTTP timeout)

ASSUME AutoBounds ==
    /\ Symbols # {}
    /\ Quantity \in Nat \ {0}
    /\ MaxRuns \in Nat \ {0} /\ MaxOrders \in Nat
    /\ Grace \in Nat /\ MaxAge \in Nat /\ CancelRetry \in Nat
    /\ MaxFlight \in Nat /\ MaxCall \in Nat

Runs == 1 .. MaxRuns
OrderIds == Runs \X (1 .. MaxOrders)
Sides == {"BUY", "SELL"}

NoRun == 0
NoOrder == [side |-> "NONE"]
NoReply == [state |-> "NONE"]
NoTask == [side |-> "NONE"]

AgeCap == LET higher(a, b) == IF a > b THEN a ELSE b
          IN  higher(MaxAge, higher(Grace, MaxFlight))

VARIABLES
    running,    \* the run the service calls active, or NoRun
    started,    \* how many runs were started
    tracked,    \* positions: the quantity tracked per symbol, 0 if no entry
    pc,         \* where the loop of each run is
    task,       \* the symbol and side the loop is trading on
    walk,       \* the symbols its stop-loss walk has still to visit
    pending,    \* signalOrderBook.pending
    reply,      \* the exchange's answer that the loop has not applied yet
    seq,        \* signalOrderBook.seq
    orders,     \* the exchange's side of every submission
    inventory   \* what the account holds of each symbol because of each run

serviceVars == <<running, started>>
marketVars == <<orders, inventory>>
vars == <<serviceVars, tracked, pc, task, walk, pending, reply, seq,
          marketVars>>

OrderStates == {"absent", "flight", "open", "filled", "canceled",
                "refused", "lost"}
Live == {"flight", "open"}

PendingOrders ==
    [id : OrderIds, side : Sides, size : 1 .. Quantity, age : 0 .. AgeCap,
     sinceCancel : 0 .. CancelRetry]

Replies ==
    [state : {"filled", "done", "notFound", "open"}, executed : 0 .. Quantity,
     waited : 0 .. MaxCall]

PCs == {"off", "idle", "asked", "composed", "placing", "placed", "looked",
        "cancelling", "closing", "ended"}

TypeOK ==
    /\ running \in Runs \cup {NoRun}
    /\ started \in 0 .. MaxRuns
    /\ tracked \in [Symbols -> Nat]
    /\ pc \in [Runs -> PCs]
    /\ task \in [Runs -> [symbol : Symbols, side : Sides] \cup {NoTask}]
    /\ walk \in [Runs -> SUBSET Symbols]
    /\ pending \in [Runs -> [Symbols -> PendingOrders \cup {NoOrder}]]
    /\ reply \in [Runs -> Replies \cup {NoReply}]
    /\ seq \in [Runs -> 0 .. MaxOrders]
    /\ orders \in [OrderIds -> [state : OrderStates, symbol : Symbols,
                                side : Sides, size : 0 .. Quantity,
                                executed : 0 .. Quantity]]
    /\ inventory \in [Runs -> [Symbols -> Int]]

Nothing == [s \in Symbols |-> 0]

Init ==
    /\ running = NoRun
    /\ started = 0
    /\ tracked = Nothing
    /\ pc = [r \in Runs |-> "off"]
    /\ task = [r \in Runs |-> NoTask]
    /\ walk = [r \in Runs |-> {}]
    /\ pending = [r \in Runs |-> [s \in Symbols |-> NoOrder]]
    /\ reply = [r \in Runs |-> NoReply]
    /\ seq = [r \in Runs |-> 0]
    /\ orders = [o \in OrderIds |->
                    [state |-> "absent", symbol |-> CHOOSE s \in Symbols : TRUE,
                     side |-> "BUY", size |-> 0, executed |-> 0]]
    /\ inventory = [r \in Runs |-> Nothing]

-----------------------------------------------------------------------------
(***************************************************************************)
(* The operator.  Start and Stop replace the map of positions; a loop that *)
(* is in the middle of a call notices its cancelled context later.         *)
(***************************************************************************)
ContextLive(r) == running = r

Start ==
    /\ running = NoRun
    /\ started < MaxRuns
    /\ started' = started + 1
    /\ running' = started'
    /\ tracked' = Nothing
    /\ pc' = [pc EXCEPT ![started'] = "idle"]
    /\ UNCHANGED <<task, walk, pending, reply, seq, marketVars>>

Stop ==
    /\ running # NoRun
    /\ running' = NoRun
    /\ tracked' = Nothing
    /\ UNCHANGED <<started, pc, task, walk, pending, reply, seq, marketVars>>

Crash ==
    /\ \E r \in Runs : pc[r] \notin {"off", "ended"}
    /\ running' = NoRun
    /\ tracked' = Nothing
    /\ pc' = [r \in Runs |-> IF pc[r] = "off" THEN "off" ELSE "ended"]
    /\ reply' = [r \in Runs |-> NoReply]
    /\ UNCHANGED <<started, task, walk, pending, seq, marketVars>>

LoopExit(r) ==
    /\ pc[r] = "idle"
    /\ walk[r] = {}
    /\ ~ContextLive(r)
    /\ pc' = [pc EXCEPT ![r] = "ended"]
    /\ UNCHANGED <<serviceVars, tracked, task, walk, pending, reply, seq,
                   marketVars>>

-----------------------------------------------------------------------------
(***************************************************************************)
(* What makes the loop trade: a signal, or a visit of its stop-loss walk.  *)
(***************************************************************************)
HasPosition(s) == tracked[s] > 0

\* The loop hands the call over; its context is looked at for the last time
\* before an order is looked up or placed.
Ask(r, s, side) ==
    /\ ContextLive(r)
    /\ task' = [task EXCEPT ![r] = [symbol |-> s, side |-> side]]
    /\ pc' = [pc EXCEPT ![r] = "asked"]
    /\ UNCHANGED <<serviceVars, tracked, pending, reply, seq, marketVars>>

Signal(r, s, side) ==
    /\ pc[r] = "idle"
    /\ walk[r] = {}
    /\ IF side = "BUY" THEN ~HasPosition(s) ELSE HasPosition(s)
    /\ Ask(r, s, side)
    /\ UNCHANGED walk

\* checkStopLossTakeProfit copies the positions of whatever run is active.
BeginWalk(r) ==
    /\ pc[r] = "idle"
    /\ walk[r] = {}
    /\ running # NoRun
    /\ walk' = [walk EXCEPT ![r] = {s \in Symbols : HasPosition(s)}]
    /\ walk'[r] # {}
    /\ UNCHANGED <<serviceVars, tracked, pc, task, pending, reply, seq,
                   marketVars>>

\* The price of the copied position is at a limit: sell, without another look
\* at the map.
VisitSells(r, s) ==
    /\ pc[r] = "idle"
    /\ s \in walk[r]
    /\ Ask(r, s, "SELL")
    /\ walk' = [walk EXCEPT ![r] = @ \ {s}]

VisitPasses(r, s) ==
    /\ pc[r] = "idle"
    /\ s \in walk[r]
    /\ walk' = [walk EXCEPT ![r] = @ \ {s}]
    /\ UNCHANGED <<serviceVars, tracked, pc, task, pending, reply, seq,
                   marketVars>>

-----------------------------------------------------------------------------
(***************************************************************************)
(* One order: compose it, submit it, hear the outcome.                     *)
(***************************************************************************)
Mine(r) == pending[r][task[r].symbol]

\* Fault: an exit sells the configured quantity whatever is tracked.
SizeUnclamped(s, side) == Quantity

\* Fault: the size is the tracked quantity, on entries too.
SizeTracked(s, side) == tracked[s]

Size(s, side) ==
    IF side = "SELL" /\ tracked[s] \in 1 .. Quantity THEN tracked[s]
    ELSE Quantity

\* Fault: an exit does not wait for the pending order.
ComposeBlindly(r) ==
    LET s == task[r].symbol
    IN  /\ pc[r] = "asked"
        /\ task[r].side = "SELL" \/ Mine(r) = NoOrder
        /\ seq[r] < MaxOrders
        /\ seq' = [seq EXCEPT ![r] = @ + 1]
        /\ pending' = [pending EXCEPT ![r][s] =
                         [id |-> <<r, seq'[r]>>, side |-> task[r].side,
                          size |-> Size(s, task[r].side), age |-> 0,
                          sinceCancel |-> CancelRetry]]
        /\ pc' = [pc EXCEPT ![r] = "composed"]
        /\ UNCHANGED <<serviceVars, tracked, task, walk, reply, marketVars>>

Compose(r) ==
    LET s == task[r].symbol
    IN  /\ pc[r] = "asked"
        /\ Mine(r) = NoOrder
        /\ seq[r] < MaxOrders
        /\ seq' = [seq EXCEPT ![r] = @ + 1]
        /\ pending' = [pending EXCEPT ![r][s] =
                         [id |-> <<r, seq'[r]>>, side |-> task[r].side,
                          size |-> Size(s, task[r].side), age |-> 0,
                          sinceCancel |-> CancelRetry]]
        /\ pc' = [pc EXCEPT ![r] = "composed"]
        /\ UNCHANGED <<serviceVars, tracked, task, walk, reply, marketVars>>

\* Every request carries the run's context: cancelled, it is never sent.
Submit(r) ==
    /\ pc[r] = "composed"
    /\ orders' = [orders EXCEPT ![Mine(r).id] =
                    [state |-> IF ContextLive(r) THEN "flight" ELSE "lost", symbol |-> task[r].symbol,
                     side |-> Mine(r).side, size |-> Mine(r).size,
                     executed |-> 0]]
    /\ pc' = [pc EXCEPT ![r] = "placing"]
    /\ UNCHANGED <<serviceVars, tracked, task, walk, pending, reply, seq,
                   inventory>>

Reply(state, executed) == [state |-> state, executed |-> executed, waited |-> 0]

\* What the exchange says of an order, asked by client order ID.
Reports(o) ==
    LET x == orders[o].executed
    IN  CASE orders[o].state = "open"     -> {Reply("open", x)}
          [] orders[o].state = "filled"   -> {Reply("filled", x),
                                              Reply("filled", 0)}
          [] orders[o].state = "canceled" ->
                {Reply("done", x)}
                \cup (IF x = 0 THEN {Reply("notFound", 0)} ELSE {})
          [] OTHER                        -> {Reply("notFound", 0)}

\* The answer to a submission may say no more than that it was accepted.
PlaceAnswered(r) ==
    /\ pc[r] = "placing"
    /\ ContextLive(r)
    /\ orders[Mine(r).id].state \in {"open", "filled", "canceled"}
    /\ reply' \in {[reply EXCEPT ![r] = rep] :
                      rep \in {rep \in Reports(Mine(r).id) :
                                  rep.state # "notFound"}
                              \cup {Reply("open", 0)}}
    /\ pc' = [pc EXCEPT ![r] = "placed"]
    /\ UNCHANGED <<serviceVars, tracked, task, walk, pending, seq, marketVars>>

Return(r) ==
    /\ pc' = [pc EXCEPT ![r] = "idle"]
    /\ task' = [task EXCEPT ![r] = NoTask]

Forget(r) == pending' = [pending EXCEPT ![r][task[r].symbol] = NoOrder]

PlaceRejected(r) ==
    /\ pc[r] = "placing"
    /\ ContextLive(r)
    /\ orders[Mine(r).id].state = "refused"
    /\ Forget(r)
    /\ Return(r)
    /\ UNCHANGED <<serviceVars, tracked, walk, reply, seq, marketVars>>

\* No answer, or one that does not tell: the order becomes the symbol's
\* pending order.
PlaceUnknown(r) ==
    /\ pc[r] = "placing"
    /\ Return(r)
    /\ UNCHANGED <<serviceVars, tracked, walk, pending, reply, seq, marketVars>>

-----------------------------------------------------------------------------
(***************************************************************************)
(* A call for a symbol whose order is pending looks that order up first.   *)
(***************************************************************************)
Lookup(r) ==
    /\ pc[r] = "asked"
    /\ ContextLive(r)
    /\ Mine(r) # NoOrder
    /\ reply' \in {[reply EXCEPT ![r] = rep] : rep \in Reports(Mine(r).id)}
    /\ pc' = [pc EXCEPT ![r] = "looked"]
    /\ UNCHANGED <<serviceVars, tracked, task, walk, pending, seq, marketVars>>

LookupFailed(r) ==
    /\ pc[r] = "asked"
    /\ Mine(r) # NoOrder
    /\ Return(r)
    /\ UNCHANGED <<serviceVars, tracked, walk, pending, reply, seq, marketVars>>

\* recordSignalFill: a run whose context is cancelled no longer touches the
\* positions.
Record(r, qty) ==
    LET s == task[r].symbol
    IN  IF ~ContextLive(r) THEN UNCHANGED tracked
        ELSE IF Mine(r).side = "BUY"
        THEN tracked' = [tracked EXCEPT ![s] = @ + qty]
        ELSE tracked' = [tracked EXCEPT ![s] = IF @ > qty THEN @ - qty ELSE 0]

\* The order is final.  If it filled on the side the call asks for, the call
\* has succeeded and an exit goes on to drop the position; otherwise a call
\* that only reconciled an earlier order now places its own.
Conclude(r, filled) ==
    /\ Forget(r)
    /\ reply' = [reply EXCEPT ![r] = NoReply]
    /\ IF filled /\ Mine(r).side = task[r].side
       THEN IF task[r].side = "SELL"
            THEN pc' = [pc EXCEPT ![r] = "closing"] /\ UNCHANGED task
            ELSE Return(r)
       ELSE IF pc[r] = "looked" /\ ContextLive(r)
            THEN pc' = [pc EXCEPT ![r] = "asked"] /\ UNCHANGED task
            ELSE Return(r)

Answered(r, state) == pc[r] \in {"placed", "looked"} /\ reply[r].state = state

ApplyFilled(r) ==
    /\ Answered(r, "filled")
    /\ Record(r, IF reply[r].executed > 0 THEN reply[r].executed
                 ELSE Mine(r).size)
    /\ Conclude(r, TRUE)
    /\ UNCHANGED <<serviceVars, walk, seq, marketVars>>

\* Fault: whatever an ended order executed, its whole size is booked.
ApplyDoneAsFilled(r) ==
    /\ Answered(r, "done")
    /\ IF reply[r].executed > 0 THEN Record(r, Mine(r).size)
       ELSE UNCHANGED tracked
    /\ Conclude(r, reply[r].executed >= Mine(r).size)
    /\ UNCHANGED <<serviceVars, walk, seq, marketVars>>

ApplyDone(r) ==
    /\ Answered(r, "done")
    /\ IF reply[r].executed > 0 THEN Record(r, reply[r].executed)
       ELSE UNCHANGED tracked
    /\ Conclude(r, reply[r].executed >= Mine(r).size)
    /\ UNCHANGED <<serviceVars, walk, seq, marketVars>>

Dismiss(r) == Return(r) /\ reply' = [reply EXCEPT ![r] = NoReply]

GraceOver(order) == order.age >= Grace

ApplyNotFound(r) ==
    /\ Answered(r, "notFound")
    /\ IF GraceOver(Mine(r)) THEN Conclude(r, FALSE)
       ELSE Dismiss(r) /\ UNCHANGED pending
    /\ UNCHANGED <<serviceVars, tracked, walk, seq, marketVars>>

CancelDue(order) == order.age >= MaxAge /\ order.sinceCancel >= CancelRetry

\* Only a lookup goes on to cancelStaleSignalOrder, a fresh placement does not.
ApplyOpen(r) ==
    /\ Answered(r, "open")
    /\ IF pc[r] = "looked" /\ CancelDue(Mine(r))
       THEN /\ pending' = [pending EXCEPT
                              ![r][task[r].symbol].sinceCancel = 0]
            /\ pc' = [pc EXCEPT ![r] = "cancelling"]
            /\ reply' = [reply EXCEPT ![r] = NoReply]
            /\ UNCHANGED task
       ELSE Dismiss(r) /\ UNCHANGED pending
    /\ UNCHANGED <<serviceVars, tracked, walk, seq, marketVars>>

CancelReturns(r) ==
    /\ pc[r] = "cancelling"
    /\ Return(r)
    /\ UNCHANGED <<serviceVars, tracked, walk, pending, reply, seq, inventory>>

CancelAccepted(r) ==
    /\ CancelReturns(r)
    /\ ContextLive(r)
    /\ orders[Mine(r).id].state = "open"
    /\ orders' = [orders EXCEPT ![Mine(r).id].state = "canceled"]

CancelFailed(r) == CancelReturns(r) /\ UNCHANGED orders

\* The caller drops the whole position, in whatever run's map it is by now.
ClosePosition(r) ==
    /\ pc[r] = "closing"
    /\ tracked' = [tracked EXCEPT ![task[r].symbol] = 0]
    /\ Return(r)
    /\ UNCHANGED <<serviceVars, walk, pending, reply, seq, marketVars>>

-----------------------------------------------------------------------------
(***************************************************************************)
(* The exchange and the clock, as in GridOrders.                           *)
(***************************************************************************)
loopVars == <<serviceVars, tracked, pc, task, walk, seq>>

Arrive(o) ==
    /\ orders[o].state = "flight"
    /\ \E fate \in {"open", "refused", "lost"} :
          orders' = [orders EXCEPT ![o].state = fate]
    /\ UNCHANGED <<loopVars, pending, reply, inventory>>

Execute(o, qty) ==
    LET total == orders[o].executed + qty
    IN  /\ orders[o].state = "open"
        /\ total <= orders[o].size
        /\ orders' = [orders EXCEPT
                        ![o].executed = total,
                        ![o].state = IF total = orders[o].size THEN "filled"
                                     ELSE "open"]
        /\ inventory' = [inventory EXCEPT
                           ![o[1]][orders[o].symbol] =
                               IF orders[o].side = "BUY" THEN @ + qty
                               ELSE @ - qty]
        /\ UNCHANGED <<loopVars, pending, reply>>

Expire(o) ==
    /\ orders[o].state = "open"
    /\ orders' = [orders EXCEPT ![o].state = "canceled"]
    /\ UNCHANGED <<loopVars, pending, reply, inventory>>

Older(order) ==
    IF order = NoOrder THEN NoOrder
    ELSE [order EXCEPT
            !.age = IF @ < AgeCap THEN @ + 1 ELSE @,
            !.sinceCancel = IF @ < CancelRetry THEN @ + 1 ELSE @]

FlightOverdue(r, s) ==
    LET order == pending[r][s]
    IN  /\ pc[r] # "ended"
        /\ order # NoOrder
        /\ order.age >= MaxFlight
        /\ orders[order.id].state \in {"absent", "flight"}

AnswerOverdue(r) == reply[r] # NoReply /\ reply[r].waited >= MaxCall

Tick ==
    /\ \A r \in Runs : ~AnswerOverdue(r) /\ \A s \in Symbols : ~FlightOverdue(r, s)
    /\ pending' = [r \in Runs |-> IF pc[r] = "ended" THEN pending[r]
                                  ELSE [s \in Symbols |-> Older(pending[r][s])]]
    /\ reply' = [r \in Runs |-> IF reply[r] = NoReply THEN NoReply
                                ELSE [reply[r] EXCEPT !.waited = @ + 1]]
    /\ <<pending, reply>>' # <<pending, reply>>
    /\ UNCHANGED <<loopVars, marketVars>>

-----------------------------------------------------------------------------
RunStep(r) ==
    \/ LoopExit(r)
    \/ \E s \in Symbols : \E side \in Sides : Signal(r, s, side)
    \/ BeginWalk(r)
    \/ \E s \in Symbols : VisitSells(r, s) \/ VisitPasses(r, s)
    \/ Compose(r) \/ Submit(r)
    \/ PlaceAnswered(r) \/ PlaceRejected(r) \/ PlaceUnknown(r)
    \/ Lookup(r) \/ LookupFailed(r)
    \/ ApplyFilled(r) \/ ApplyDone(r) \/ ApplyNotFound(r) \/ ApplyOpen(r)
    \/ CancelAccepted(r) \/ CancelFailed(r)
    \/ ClosePosition(r)

ExchangeStep(o) ==
    \/ Arrive(o)
    \/ \E qty \in 1 .. Quantity : Execute(o, qty)
    \/ Expire(o)

Next ==
    \/ Start \/ Stop \/ Crash
    \/ \E r \in Runs : RunStep(r)
    \/ \E o \in OrderIds : ExchangeStep(o)
    \/ Tick

Spec == Init /\ [][Next]_vars

-----------------------------------------------------------------------------
Submitted(r, s) ==
    {o \in {<<r, n>> : n \in 1 .. seq[r]} : orders[o].symbol = s}

\* While a symbol has a pending order no other order is placed for it: a run
\* never has two live orders for one symbol, whatever signals and stop-losses
\* arrive while an outcome is unknown (signalTradeStep).
OneLiveOrderPerSymbol ==
    \A r \in Runs : \A s \in Symbols : \A o, p \in Submitted(r, s) :
        orders[o].state \in Live /\ orders[p].state \in Live => o = p

\* A run never sells more of a symbol than it bought: a timed-out exit is not
\* sent again before it is reconciled, and an exit is clamped to the tracked
\* position (signalTradeStep, "a position cannot be sold twice").
NeverOversold == \A r \in Runs : \A s \in Symbols : inventory[r][s] >= 0

\* Between two orders the tracked position is really held: the stop-loss never
\* guards, and an exit never sells, what the account does not have
\* (recordSignalFill).
TrackedIsHeld ==
    running # NoRun =>
        \A s \in Symbols :
            pending[running][s] = NoOrder => tracked[s] <= inventory[running][s]

\* Between two orders nothing the run holds is untracked, so the stop-loss
\* guards all of it: a position is dropped only when it was sold
\* (handleAutoSignal, "Position closed").
NothingHeldUntracked ==
    running # NoRun /\ pc[running] = "idle" =>
        \A s \in Symbols :
            pending[running][s] = NoOrder => inventory[running][s] <= tracked[s]
=============================================================================
