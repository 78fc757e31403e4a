----------------------------- MODULE GridOrders -----------------------------
(***************************************************************************)
(* The grid bot's order handling: every run of the bot is a goroutine that *)
(* owns a book, submits at most one order at a time and reconciles it      *)
(* before it submits the next; Start and Stop come from HTTP handlers; the *)
(* exchange accepts, refuses, loses, fills and cancels orders on its own.  *)
(*                                                                         *)
(* A call to the exchange is two steps: one where the exchange is reached  *)
(* (and its answer taken) and one where the answer is applied, so that the *)
(* exchange, the operator and the clock may move in between.               *)
(***************************************************************************)
EXTENDS GridBook

CONSTANTS
    MaxRuns,       \* bound: how often the bot is started
    MaxOrders,     \* bound: orders one run submits
    Grace,         \* gridUnknownGrace
    MaxAge,        \* gridOrderMaxAge
    CancelRetry,   \* gridCancelRetry
    MaxFlight,     \* how long a submission may travel before it is dropped
    MaxCall,       \* how long an answer may travel (the HTTP timeout)
    Exchanges      \* the configured providers

ASSUME Bounds ==
    /\ MaxRuns \in Nat \ {0} /\ MaxOrders \in Nat
    /\ Grace \in Nat /\ MaxAge \in Nat /\ CancelRetry \in Nat
    /\ MaxFlight \in Nat /\ MaxCall \in Nat
    /\ Exchanges # {}

\* gridUnknownGrace is measured when the answer of a lookup is applied, so it
\* has to outlast a submission in flight and a lookup that just missed it.
GraceCoversDelays == MaxFlight + MaxCall < Grace

Runs == 1 .. MaxRuns
OrderIds == Runs \X (1 .. MaxOrders)

NoRun == 0
NoOrder == [side |-> "NONE"]
NoReply == [state |-> "NONE"]
Reply(state, executed) == [state |-> state, executed |-> executed, waited |-> 0]

\* Ages are only compared with these three, so they need not grow past them.
AgeCap == LET higher(a, b) == IF a > b THEN a ELSE b
          IN  higher(MaxAge, higher(Grace, MaxFlight))
NeverCancelled == CancelRetry

VARIABLES
    running,    \* the run the service calls active, or NoRun
    started,    \* how many runs were started
    pc,         \* where the goroutine of each run is
    position,   \* gridBook.position
    held,       \* gridBook.heldLevels
    seq,        \* gridBook.seq
    order,      \* the gridPendingOrder the run is working on, or NoOrder
    reply,      \* the exchange's answer that the run has not applied yet
    trades,     \* tradesCount, shared by all runs
    provider,   \* ExchangeManager.currentProvider
    orders,     \* the exchange's side of every submission
    inventory,  \* base asset the account holds because of each run's orders
    fills       \* history: the quantity the book recorded for each order

controlVars == <<running, started>>
bookVars    == <<position, held, fills, trades>>
marketVars  == <<orders, inventory>>
vars == <<running, started, pc, position, held, seq, order, reply, trades,
          provider, orders, inventory, fills>>

-----------------------------------------------------------------------------
OrderStates == {"absent", "flight", "open", "filled", "canceled",
                "refused", "lost"}
Live == {"flight", "open"}

PendingOrders ==
    [id : OrderIds, side : Sides, level : LevelIds, age : 0 .. AgeCap,
     unknown : BOOLEAN, sinceCancel : 0 .. CancelRetry]

Replies ==
    [state : {"filled", "done", "notFound", "open"}, executed : 0 .. Quantity,
     waited : 0 .. MaxCall]

PCs == {"off", "idle", "decided", "placing", "placed", "looked", "cancelling",
        "ended"}

TypeOK ==
    /\ running \in Runs \cup {NoRun}
    /\ started \in 0 .. MaxRuns
    /\ pc \in [Runs -> PCs]
    /\ position \in [Runs -> Nat]
    /\ held \in [Runs -> SUBSET LevelIds]
    /\ seq \in [Runs -> 0 .. MaxOrders]
    /\ order \in [Runs -> PendingOrders \cup {NoOrder}]
    /\ reply \in [Runs -> Replies \cup {NoReply}]
    /\ trades \in Nat
    /\ provider \in Exchanges
    /\ orders \in [OrderIds -> [state : OrderStates, side : Sides,
                                executed : 0 .. Quantity, venue : Exchanges]]
    /\ inventory \in [Runs -> Int]
    /\ fills \in [OrderIds -> Nat]

Init ==
    /\ running = NoRun
    /\ started = 0
    /\ pc = [r \in Runs |-> "off"]
    /\ position = [r \in Runs |-> 0]
    /\ held = [r \in Runs |-> {}]
    /\ seq = [r \in Runs |-> 0]
    /\ order = [r \in Runs |-> NoOrder]
    /\ reply = [r \in Runs |-> NoReply]
    /\ trades = 0
    /\ provider \in Exchanges
    /\ orders = [o \in OrderIds |-> [state |-> "absent", side |-> "BUY",
                                     executed |-> 0, venue |-> provider]]
    /\ inventory = [r \in Runs |-> 0]
    /\ fills = [o \in OrderIds |-> 0]

-----------------------------------------------------------------------------
(***************************************************************************)
(* The operator: Start and Stop, and the process dying.  Start makes a     *)
(* fresh book and leaves earlier goroutines to notice their own cancelled  *)
(* context; nothing cancels the orders they left on the exchange.          *)
(***************************************************************************)
\* Fault: a loop asks whether the bot runs, not whether its own context lives.
ContextOfAnyRun(r) == running # NoRun

ContextLive(r) == running = r

Start ==
    /\ running = NoRun
    /\ started < MaxRuns
    /\ started' = started + 1
    /\ running' = started'
    /\ pc' = [pc EXCEPT ![started'] = "idle"]
    /\ trades' = 0
    /\ UNCHANGED <<position, held, seq, order, reply, provider, marketVars,
                   fills>>

Stop ==
    /\ running # NoRun
    /\ running' = NoRun
    /\ UNCHANGED <<started, pc, seq, order, reply, provider, bookVars,
                   marketVars>>

Crash ==
    /\ \E r \in Runs : pc[r] \notin {"off", "ended"}
    /\ running' = NoRun
    /\ pc' = [r \in Runs |-> IF pc[r] = "off" THEN "off" ELSE "ended"]
    /\ reply' = [r \in Runs |-> NoReply]
    /\ UNCHANGED <<started, seq, order, provider, bookVars, marketVars>>

LoopExit(r) ==
    /\ pc[r] = "idle"
    /\ ~ContextLive(r)
    /\ pc' = [pc EXCEPT ![r] = "ended"]
    /\ UNCHANGED <<controlVars, seq, order, reply, provider, bookVars,
                   marketVars>>

-----------------------------------------------------------------------------
(***************************************************************************)
(* One tick with nothing pending: decide, submit, hear the outcome.        *)
(***************************************************************************)
NewOrder(r, side, level) ==
    [id |-> <<r, seq[r] + 1>>, side |-> side, level |-> level, age |-> 0,
     unknown |-> FALSE, sinceCancel |-> NeverCancelled]

\* The last look of gridStep at the context; Stop may still come before Submit.
Decide(r, price) ==
    LET side  == GridAction(price)
        level == GridLevel(price)
    IN  /\ pc[r] = "idle"
        /\ ContextLive(r)
        /\ order[r] = NoOrder
        /\ seq[r] < MaxOrders
        /\ Check(side, position[r], held[r], level, price)
        /\ order' = [order EXCEPT ![r] = NewOrder(r, side, level)]
        /\ seq' = [seq EXCEPT ![r] = @ + 1]
        /\ pc' = [pc EXCEPT ![r] = "decided"]
        /\ UNCHANGED <<controlVars, reply, provider, bookVars, marketVars>>

\* Every request carries the run's context: cancelled, it is never sent.
Sent(r) == IF ContextLive(r) THEN "flight" ELSE "lost"

Submit(r) ==
    /\ pc[r] = "decided"
    /\ orders' = [orders EXCEPT ![order[r].id] =
                    [state |-> Sent(r), side |-> order[r].side,
                     executed |-> 0, venue |-> provider]]
    /\ pc' = [pc EXCEPT ![r] = "placing"]
    /\ UNCHANGED <<controlVars, seq, order, reply, provider, bookVars,
                   inventory>>

\* What the exchange says of an order, asked by client order ID.  A full
\* fill may come without its executed quantity.
Reports(o) ==
    LET x == orders[o].executed
    IN  CASE orders[o].state = "open"     -> {Reply("open", x)}
          [] orders[o].state = "filled"   -> {Reply("filled", x),
                                              Reply("filled", 0)}
          [] orders[o].state = "canceled" -> {Reply("done", x)}
          [] OTHER                        -> {Reply("notFound", 0)}

\* The answer to a submission may say no more than that it was accepted:
\* Bitkub's gives an id and no state.
PlaceReports(o) == Reports(o) \cup {Reply("open", 0)}

PlaceAnswered(r) ==
    /\ pc[r] = "placing"
    /\ ContextLive(r)
    /\ orders[order[r].id].state \in {"open", "filled", "canceled"}
    /\ reply' \in {[reply EXCEPT ![r] = rep] :
                      rep \in PlaceReports(order[r].id)}
    /\ pc' = [pc EXCEPT ![r] = "placed"]
    /\ UNCHANGED <<controlVars, seq, order, provider, bookVars, marketVars>>

\* A client error from the exchange, or no request ever built: not a trade.
PlaceRejected(r) ==
    /\ pc[r] = "placing"
    /\ ContextLive(r)
    /\ orders[order[r].id].state = "refused"
    /\ order' = [order EXCEPT ![r] = NoOrder]
    /\ pc' = [pc EXCEPT ![r] = "idle"]
    /\ UNCHANGED <<controlVars, seq, reply, provider, bookVars, marketVars>>

\* Timeout, cancelled context, transport error, 5xx or an unparsable answer:
\* whatever became of the submission, the order is pending until a lookup
\* decides.
PlaceUnknown(r) ==
    /\ pc[r] = "placing"
    /\ order' = [order EXCEPT ![r].unknown = TRUE]
    /\ pc' = [pc EXCEPT ![r] = "idle"]
    /\ UNCHANGED <<controlVars, seq, reply, provider, bookVars, marketVars>>

-----------------------------------------------------------------------------
(***************************************************************************)
(* One tick with an order pending: look it up and apply the answer.  A     *)
(* lookup that fails changes nothing and is retried on the next tick.      *)
(***************************************************************************)
\* An exchange without a query by client order ID (Bitkub) is searched for
\* open orders and fills, so an order that ended before it traded is not found.
LeftNoTrace(o) == orders[o].state = "canceled" /\ orders[o].executed = 0

VisibleReports(o) ==
    IF orders[o].venue # provider THEN {Reply("notFound", 0)}
    ELSE IF LeftNoTrace(o) THEN Reports(o) \cup {Reply("notFound", 0)}
    ELSE Reports(o)

\* Fault: only an order of unknown outcome is looked up again.
LookupUnknownOnly(r) ==
    /\ pc[r] = "idle"
    /\ ContextLive(r)
    /\ order[r] # NoOrder
    /\ order[r].unknown
    /\ reply' \in {[reply EXCEPT ![r] = rep] :
                      rep \in VisibleReports(order[r].id)}
    /\ pc' = [pc EXCEPT ![r] = "looked"]
    /\ UNCHANGED <<controlVars, seq, order, provider, bookVars, marketVars>>

Lookup(r) ==
    /\ pc[r] = "idle"
    /\ ContextLive(r)
    /\ order[r] # NoOrder
    /\ reply' \in {[reply EXCEPT ![r] = rep] :
                      rep \in VisibleReports(order[r].id)}
    /\ pc' = [pc EXCEPT ![r] = "looked"]
    /\ UNCHANGED <<controlVars, seq, order, provider, bookVars, marketVars>>

\* gridBook.record and the trade counter, which belongs to the whole service.
RecordFill(r, qty) ==
    LET side == order[r].side
    IN  /\ position' = [position EXCEPT ![r] = RecordPosition(side, @, qty)]
        /\ held' = [held EXCEPT ![r] =
                        RecordHeld(side, @, order[r].level, qty)]
        /\ trades' = trades + 1
        /\ fills' = [fills EXCEPT ![order[r].id] = @ + qty]

Settle(r) ==
    /\ order' = [order EXCEPT ![r] = NoOrder]
    /\ reply' = [reply EXCEPT ![r] = NoReply]
    /\ pc' = [pc EXCEPT ![r] = "idle"]

\* Fault: a full fill reported without its quantity is recorded as nothing.
FilledAsReported(rep) == rep.executed

FilledQuantity(rep) == IF rep.executed > 0 THEN rep.executed ELSE Quantity

ApplyFilled(r) ==
    /\ pc[r] \in {"placed", "looked"}
    /\ reply[r].state = "filled"
    /\ RecordFill(r, FilledQuantity(reply[r]))
    /\ Settle(r)
    /\ UNCHANGED <<controlVars, seq, provider, marketVars>>

\* Fault: an ended order counts as a trade even when it traded nothing.
ApplyDoneAlwaysTrade(r) ==
    /\ pc[r] \in {"placed", "looked"}
    /\ reply[r].state = "done"
    /\ RecordFill(r, reply[r].executed)
    /\ Settle(r)
    /\ UNCHANGED <<controlVars, seq, provider, marketVars>>

\* Fault: the partial fill of a canceled order is forgotten.
ApplyDoneForgetful(r) ==
    /\ pc[r] \in {"placed", "looked"}
    /\ reply[r].state = "done"
    /\ Settle(r)
    /\ UNCHANGED <<controlVars, seq, provider, bookVars, marketVars>>

\* Fault: an ended order is recorded as if it had filled.
ApplyDoneAsFilled(r) ==
    /\ pc[r] \in {"placed", "looked"}
    /\ reply[r].state = "done"
    /\ IF reply[r].executed > 0 THEN RecordFill(r, Quantity)
       ELSE UNCHANGED bookVars
    /\ Settle(r)
    /\ UNCHANGED <<controlVars, seq, provider, marketVars>>

ApplyDone(r) ==
    /\ pc[r] \in {"placed", "looked"}
    /\ reply[r].state = "done"
    /\ IF reply[r].executed > 0 THEN RecordFill(r, reply[r].executed)
       ELSE UNCHANGED bookVars
    /\ Settle(r)
    /\ UNCHANGED <<controlVars, seq, provider, marketVars>>

\* Fault: an order that is not found is given up at once.
GraceSkipped(pending) == TRUE

GraceOver(pending) == pending.age >= Grace

ApplyNotFound(r) ==
    /\ pc[r] \in {"placed", "looked"}
    /\ reply[r].state = "notFound"
    /\ IF GraceOver(order[r]) THEN Settle(r)
       ELSE /\ reply' = [reply EXCEPT ![r] = NoReply]
            /\ pc' = [pc EXCEPT ![r] = "idle"]
            /\ UNCHANGED order
    /\ UNCHANGED <<controlVars, seq, provider, bookVars, marketVars>>

CancelDue(pending) ==
    /\ pending.age >= MaxAge
    /\ pending.sinceCancel >= CancelRetry

\* Only a lookup goes on to cancelStaleGridOrder, a fresh placement does not.
ApplyOpen(r) ==
    LET stale == pc[r] = "looked" /\ CancelDue(order[r])
    IN  /\ pc[r] \in {"placed", "looked"}
        /\ reply[r].state = "open"
        /\ order' = [order EXCEPT
                       ![r].unknown = FALSE,
                       ![r].sinceCancel = IF stale THEN 0 ELSE @]
        /\ reply' = [reply EXCEPT ![r] = NoReply]
        /\ pc' = [pc EXCEPT ![r] = IF stale THEN "cancelling" ELSE "idle"]
        /\ UNCHANGED <<controlVars, seq, provider, bookVars, marketVars>>

\* The cancel is only a request: the order stays pending either way.
CancelReturns(r) ==
    /\ pc[r] = "cancelling"
    /\ pc' = [pc EXCEPT ![r] = "idle"]
    /\ UNCHANGED <<controlVars, seq, order, reply, provider, bookVars,
                   inventory>>

CancelAccepted(r) ==
    LET o == order[r].id
    IN  /\ CancelReturns(r)
        /\ ContextLive(r)
        /\ orders[o].state = "open"
        /\ orders[o].venue = provider
        /\ orders' = [orders EXCEPT ![o].state = "canceled"]

CancelFailed(r) == CancelReturns(r) /\ UNCHANGED orders

-----------------------------------------------------------------------------
(***************************************************************************)
(* The exchange and the clock.                                             *)
(***************************************************************************)
Arrive(o) ==
    /\ orders[o].state = "flight"
    /\ \E fate \in {"open", "refused", "lost"} :
          orders' = [orders EXCEPT ![o].state = fate]
    /\ UNCHANGED <<controlVars, pc, seq, order, reply, provider, bookVars,
                   inventory>>

Execute(o, qty) ==
    LET total == orders[o].executed + qty
    IN  /\ orders[o].state = "open"
        /\ total <= Quantity
        /\ orders' = [orders EXCEPT
                        ![o].executed = total,
                        ![o].state = IF total = Quantity THEN "filled"
                                     ELSE "open"]
        /\ inventory' = [inventory EXCEPT
                           ![o[1]] = IF orders[o].side = "BUY" THEN @ + qty
                                     ELSE @ - qty]
        /\ UNCHANGED <<controlVars, pc, seq, order, reply, provider, bookVars>>

\* Expiry, or a cancel by hand, or a cancel request whose answer was lost.
Expire(o) ==
    /\ orders[o].state = "open"
    /\ orders' = [orders EXCEPT ![o].state = "canceled"]
    /\ UNCHANGED <<controlVars, pc, seq, order, reply, provider, bookVars,
                   inventory>>

Older(pending) ==
    IF pending = NoOrder THEN NoOrder
    ELSE [pending EXCEPT
            !.age = IF @ < AgeCap THEN @ + 1 ELSE @,
            !.sinceCancel = IF @ < CancelRetry THEN @ + 1 ELSE @]

\* A submission older than MaxFlight is not accepted any more (the receive
\* window of the exchange, the timeout of the HTTP client).  What an ended run
\* left behind has no clock here: it may still arrive at any time.
FlightOverdue(r) ==
    /\ pc[r] # "ended"
    /\ order[r] # NoOrder
    /\ order[r].age >= MaxFlight
    /\ pc[r] = "decided" \/ orders[order[r].id].state = "flight"

AnswerOverdue(r) == reply[r] # NoReply /\ reply[r].waited >= MaxCall

Tick ==
    /\ \A r \in Runs : ~FlightOverdue(r) /\ ~AnswerOverdue(r)
    /\ order' = [r \in Runs |-> IF pc[r] = "ended" THEN order[r]
                                ELSE Older(order[r])]
    /\ reply' = [r \in Runs |-> IF reply[r] = NoReply THEN NoReply
                                ELSE [reply[r] EXCEPT !.waited = @ + 1]]
    /\ <<order, reply>>' # <<order, reply>>
    /\ UNCHANGED <<controlVars, pc, seq, provider, bookVars, marketVars>>

-----------------------------------------------------------------------------
RunStep(r) ==
    \/ LoopExit(r)
    \/ \E price \in Prices : Decide(r, price)
    \/ Submit(r)
    \/ PlaceAnswered(r) \/ PlaceRejected(r) \/ PlaceUnknown(r)
    \/ Lookup(r)
    \/ ApplyFilled(r) \/ ApplyDone(r) \/ ApplyNotFound(r) \/ ApplyOpen(r)
    \/ CancelAccepted(r) \/ CancelFailed(r)

ExchangeStep(o) ==
    \/ Arrive(o)
    \/ \E qty \in 1 .. Quantity : Execute(o, qty)
    \/ Expire(o)

Next ==
    \/ Start \/ Stop \/ Crash
    \/ \E r \in Runs : RunStep(r)
    \/ \E o \in OrderIds : ExchangeStep(o)
    \/ Tick

Spec == Init /\ [][Next]_vars

(***************************************************************************)
(* Fairness.  Goroutines are scheduled, every HTTP call returns (the       *)
(* clients have timeouts), time passes and a submission arrives somewhere. *)
(* A pending order is looked up on every tick, and neither every lookup    *)
(* nor every cancel request fails for ever.                                *)
(***************************************************************************)
Answered(r) ==
    \/ PlaceAnswered(r) \/ PlaceRejected(r) \/ PlaceUnknown(r)
    \/ ApplyFilled(r) \/ ApplyDone(r) \/ ApplyNotFound(r) \/ ApplyOpen(r)
    \/ CancelAccepted(r) \/ CancelFailed(r)

Fairness ==
    /\ \A r \in Runs :
          /\ WF_vars(Submit(r))
          /\ WF_vars(Answered(r))
          /\ WF_vars(LoopExit(r))
          /\ SF_vars(Lookup(r))
          /\ SF_vars(CancelAccepted(r))
    /\ \A o \in OrderIds : WF_vars(Arrive(o))
    /\ SF_vars(Tick)

FairSpec == Spec /\ Fairness

-----------------------------------------------------------------------------
(***************************************************************************)
(* Properties.                                                             *)
(***************************************************************************)
Submitted(r) == {<<r, n>> : n \in 1 .. seq[r]}

\* The run has not finished with this order yet.
Working(r, o) == order[r] # NoOrder /\ order[r].id = o

\* However the clock, the exchange and the operator interleave, a run never
\* has two orders alive on the exchange: an unknown outcome is never answered
\* with a second submission (gridStep, applyGridReport).
OneLiveOrder ==
    \A r \in Runs : \A o, p \in Submitted(r) :
        orders[o].state \in Live /\ orders[p].state \in Live => o = p

\* Once a run has let go of an order, the order is final on the exchange and
\* the book holds exactly what the exchange executed: no fill is missed,
\* invented or recorded twice (applyGridReport).
SettledExactly ==
    \A r \in Runs : \A o \in Submitted(r) :
        ~Working(r, o) => /\ orders[o].state \notin Live
                          /\ fills[o] = orders[o].executed

\* What the account really bought for a run is never sold short and never
\* passes the position cap, also while an order is half executed (check).
InventoryWithinCap ==
    \A r \in Runs : inventory[r] \in 0 .. MaxPosition

\* Between two orders the book's position is the account's inventory.
BookIsInventory ==
    \A r \in Runs : order[r] = NoOrder => position[r] = inventory[r]

\* Each held level answers for at most one order's quantity, so a level is
\* never bought twice before a SELL released one (record).
HeldCoversPosition ==
    \A r \in Runs : position[r] <= Quantity * Cardinality(held[r])

\* The trade counter never counts an order that traded nothing, nor one order
\* twice, although goroutines of stopped runs share it (recordGridFill).
TradesCountFills ==
    trades <= Cardinality({o \in OrderIds : fills[o] > 0})

\* A pending order never blocks the grid for good: it fills, or it goes stale
\* and is cancelled, or it is given up as never placed (cancelStaleGridOrder).
PendingResolved ==
    \A r \in Runs :
        order[r] # NoOrder /\ running = r ~> order[r] = NoOrder \/ running # r

\* The goroutine of a stopped run ends, also when the bot was started again in
\* the meantime: no stale loop trades on beside the new one (gridTradingLoop).
StoppedRunEnds ==
    \A r \in Runs : pc[r] # "off" /\ running # r ~> pc[r] = "ended"

\* The quote value of the inventory never exceeds Investment, whatever price
\* the ticker shows next (gridBook, "Exposure cap").
ExposureNeverExceeded ==
    Investment > 0 =>
        \A r \in Runs : \A price \in Prices : position[r] * price <= Investment

\* A grid that an ended order has freed can trade again, at some price of its
\* range (cancelStaleGridOrder, "frees the grid").
FreedGridCanTrade ==
    \A r \in Runs :
        pc[r] = "idle" /\ order[r] = NoOrder =>
            \E price \in Prices :
                Check(GridAction(price), position[r], held[r],
                      GridLevel(price), price)

(***************************************************************************)
(* Refinement: the order a run submitted last is its only working order,   *)
(* whatever the book, the clock and the other runs do.                     *)
(***************************************************************************)
LastOrder(r) == <<r, seq[r]>>

WorkingOrder(r) ==
    IF seq[r] > 0 /\ orders[LastOrder(r)].state \in Live
    THEN [side |-> orders[LastOrder(r)].side,
          left |-> Quantity - orders[LastOrder(r)].executed]
    ELSE [side |-> "NONE", left |-> 0]

Ledger == INSTANCE GridLedger WITH working <- [r \in Runs |-> WorkingOrder(r)]

\* Seen from the account, the grid does what GridLedger promises: one order at
\* a time, each one affordable, every execution accounted to it.
ImplementsLedger == Ledger!Spec

-----------------------------------------------------------------------------
(***************************************************************************)
(* The inductive invariant the proofs rest on.  Shape relates the steps of *)
(* a goroutine to the variables they use; Truth relates what a run         *)
(* believes to what happened on the exchange.                              *)
(***************************************************************************)
Handling == {"decided", "placing", "placed", "looked", "cancelling"}
Answering == {"placed", "looked"}

Shape ==
    \A r \in Runs :
        /\ r > started => pc[r] = "off"
        /\ pc[r] \in Handling => order[r] # NoOrder
        /\ order[r] # NoOrder => /\ order[r].id = LastOrder(r)
                                 /\ seq[r] \in 1 .. MaxOrders
        /\ reply[r] # NoReply <=> pc[r] \in Answering

Signed(side, qty) == IF side = "BUY" THEN qty ELSE 0 - qty

\* What the exchange may have done with an order in each of its states.
ExecutedByState(o) ==
    /\ orders[o].state \in {"absent", "flight", "refused", "lost"}
           => orders[o].executed = 0
    /\ orders[o].state = "open" => orders[o].executed < Quantity
    /\ orders[o].state = "filled" => orders[o].executed = Quantity

OldOrders(r) ==
    \A n \in 1 .. MaxOrders :
        /\ n > seq[r] => /\ orders[<<r, n>>].state = "absent"
                         /\ fills[<<r, n>>] = 0
        /\ n < seq[r] \/ (n = seq[r] /\ order[r] = NoOrder)
               => /\ orders[<<r, n>>].state \notin Live
                  /\ fills[<<r, n>>] = orders[<<r, n>>].executed

PendingOrder(r) ==
    LET o == LastOrder(r)
    IN  order[r] # NoOrder =>
            /\ fills[o] = 0
            /\ pc[r] # "ended" =>
                   (pc[r] = "decided" <=> orders[o].state = "absent")
            /\ orders[o].state # "absent" => orders[o].side = order[r].side
            /\ inventory[r] =
                   position[r] + Signed(order[r].side, orders[o].executed)
            /\ order[r].side = "BUY" => position[r] + Quantity <= MaxPosition
            /\ order[r].side = "SELL" => position[r] >= Quantity
            /\ pc[r] # "ended" /\ orders[o].state \in {"absent", "flight"}
                   => order[r].age <= MaxFlight

AnswerTrue(r) ==
    LET o == LastOrder(r)
    IN  /\ reply[r].state = "filled" =>
               /\ orders[o].state = "filled"
               /\ reply[r].executed \in {0, Quantity}
        /\ reply[r].state = "done" =>
               /\ orders[o].state = "canceled"
               /\ reply[r].executed = orders[o].executed
        /\ reply[r].state = "notFound" =>
               \/ orders[o].state \in {"refused", "lost"}
               \/ LeftNoTrace(o)
               \/ order[r].age <= MaxFlight + reply[r].waited

RunTruth(r) ==
    /\ position[r] <= MaxPosition
    /\ order[r] = NoOrder => inventory[r] = position[r]
    /\ OldOrders(r)
    /\ PendingOrder(r)
    /\ reply[r] # NoReply => AnswerTrue(r)

OrderTruth(o) == ExecutedByState(o) /\ orders[o].venue = provider

Truth == (\A o \in OrderIds : OrderTruth(o)) /\ (\A r \in Runs : RunTruth(r))
=============================================================================
