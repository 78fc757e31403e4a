----------------------------- MODULE FuturesBot -----------------------------
(***************************************************************************)
(* The futures bot on the testnet account: one coroutine per symbol, each  *)
(* running cycles of synchronise, judge, open or close; every request may  *)
(* fail, and may fail after it took effect.  Amounts are signed notionals. *)
(***************************************************************************)
EXTENDS Integers, FiniteSets, Folds

CONSTANTS
    FutSymbols,
    FutSize,     \* what calculate_notional gives each symbol
    FutTotal,    \* max_total_notional_usdt
    FutIds,      \* bound: algo orders created
    FutCrashes   \* bound: crashes

\* The notionals are whole amounts, the symbols those of the configuration.
ASSUME FutAmounts == FutSize \in Nat /\ FutTotal \in Nat /\ IsFiniteSet(FutSymbols)

VARIABLES
    futExchange,  \* per symbol: position and live algo orders
    futState,     \* per symbol: FuturesState
    futSaved,     \* per symbol: what Redis holds of it
    futStep,      \* per symbol: where its coroutine stands
    futUsed       \* algo ids handed out, crashes

futVars == <<futExchange, futState, futSaved, futStep, futUsed>>

Magnitude(n) == IF n < 0 THEN -n ELSE n
FreshState == [amt |-> 0, stop |-> 0, take |-> 0, halted |-> FALSE]
Resting == [at |-> "idle", amt |-> 0, stop |-> 0, halts |-> FALSE]

FutTypeOK ==
    /\ futUsed.ids \in 0 .. FutIds /\ futUsed.crashes \in 0 .. FutCrashes
    /\ \A s \in FutSymbols :
        /\ futExchange[s].amt \in Int
        /\ futExchange[s].algos \subseteq 1 .. futUsed.ids
        /\ {futState[s], futSaved[s]} \subseteq
             [amt : Int, stop : 0 .. FutIds, take : 0 .. FutIds, halted : BOOLEAN]
        /\ futStep[s].at \in {"idle", "judge", "order", "reconcile", "stop", "take",
                              "emergency", "close", "cancel", "save"}

FutInit ==
    /\ futExchange = [s \in FutSymbols |-> [amt |-> 0, algos |-> {}]]
    /\ futState = [s \in FutSymbols |-> FreshState]
    /\ futSaved = [s \in FutSymbols |-> FreshState]
    /\ futStep = [s \in FutSymbols |-> Resting]
    /\ futUsed = [ids |-> 0, crashes |-> 0]

-----------------------------------------------------------------------------
(***************************************************************************)
(* Pieces of a step.                                                       *)
(***************************************************************************)
Goto(s, step) == futStep' = [futStep EXCEPT ![s] = step]
At(s, step) == futStep[s].at = step

\* _run_symbol: whatever a cycle raises halts the symbol; it is saved next.
Raise(s, state) ==
    /\ futState' = [futState EXCEPT ![s] = [state EXCEPT !.halted = TRUE]]
    /\ Goto(s, [Resting EXCEPT !.at = "save"])
\* Fault: the position last known is taken for the exchange's.
SyncedLocally(s) == futState[s]

\* _sync_state: the exchange's position, with the local algo ids kept.
Synced(s) == [futState[s] EXCEPT !.amt = futExchange[s].amt]

Unprotected(state) == state.amt # 0 /\ (state.stop = 0 \/ state.take = 0)

\* What the account-wide cap leaves, by the other symbols' local states.
Headroom(s) ==
    LET others == {t \in FutSymbols \ {s} : futState[t].amt # 0}
        open == MapThenFoldSet(+, 0, LAMBDA t : Magnitude(futState[t].amt),
                               LAMBDA T : CHOOSE t \in T : TRUE, others)
    IN  IF FutTotal > open THEN FutTotal - open ELSE 0

Quantity(s) == IF Headroom(s) < FutSize THEN Headroom(s) ELSE FutSize

\* The exchange took the order, or not.
Positioned(s, amt) == futExchange' = [futExchange EXCEPT ![s].amt = amt]

-----------------------------------------------------------------------------
(***************************************************************************)
(* A cycle.                                                                *)
(***************************************************************************)
ReadPosition(s) ==
    /\ At(s, "idle")
    /\ \/ Raise(s, futState[s])
       \/ /\ futState' = [futState EXCEPT ![s] = Synced(s)]
          /\ Goto(s, IF Unprotected(Synced(s))
                     THEN [Resting EXCEPT !.at = "close", !.halts = TRUE]
                     ELSE [Resting EXCEPT !.at = "judge"])
    /\ UNCHANGED <<futExchange, futSaved, futUsed>>

\* Funding, price and klines are read; EMA and ADX give the signal.  Any of
\* the watchdogs, or a reversal, closes; a signal opens when flat.
Judge(s) ==
    /\ At(s, "judge")
    /\ \/ Raise(s, futState[s])
       \/ /\ Goto(s, [Resting EXCEPT !.at = "save"])
          /\ UNCHANGED futState
       \/ /\ futState[s].amt # 0
          /\ \E breached \in BOOLEAN :
                Goto(s, [Resting EXCEPT !.at = "close", !.halts = breached])
          /\ UNCHANGED futState
       \/ /\ futState[s].amt = 0
          /\ ~futState[s].halted
          /\ IF Quantity(s) = 0 THEN Raise(s, futState[s])
             ELSE /\ \E side \in {-1, 1} :
                        Goto(s, [Resting EXCEPT !.at = "order", !.amt = side * Quantity(s)])
                  /\ UNCHANGED futState
    /\ UNCHANGED <<futExchange, futSaved, futUsed>>

\* Margin type, leverage and the market order.
OrderEntry(s) ==
    /\ At(s, "order")
    /\ \/ Raise(s, futState[s]) /\ UNCHANGED futExchange
       \/ Raise(s, futState[s]) /\ Positioned(s, futExchange[s].amt + futStep[s].amt)
       \/ /\ Positioned(s, futExchange[s].amt + futStep[s].amt)
          /\ Goto(s, [futStep[s] EXCEPT !.at = "reconcile"])
          /\ UNCHANGED futState
    /\ UNCHANGED <<futSaved, futUsed>>

Reconcile(s) ==
    /\ At(s, "reconcile")
    /\ \/ Raise(s, futState[s])
       \/ /\ futExchange[s].amt * futStep[s].amt > 0
          /\ futState' = [futState EXCEPT ![s] = Synced(s)]
          /\ Goto(s, [futStep[s] EXCEPT !.at = "stop"])
    /\ UNCHANGED <<futExchange, futSaved, futUsed>>

\* An algo order is created, with an id, when the request takes effect.
Created(s) ==
    /\ futUsed.ids < FutIds
    /\ futUsed' = [futUsed EXCEPT !.ids = @ + 1]
    /\ futExchange' = [futExchange EXCEPT ![s].algos = @ \cup {futUsed.ids + 1}]

PlaceStop(s) ==
    /\ At(s, "stop")
    /\ \/ Goto(s, [futStep[s] EXCEPT !.at = "emergency"]) /\ UNCHANGED <<futExchange, futUsed>>
       \/ Goto(s, [futStep[s] EXCEPT !.at = "emergency"]) /\ Created(s)
       \/ Created(s) /\ Goto(s, [futStep[s] EXCEPT !.at = "take", !.stop = futUsed'.ids])
    /\ UNCHANGED <<futState, futSaved>>

\* Without a take-profit the stop is deleted again, if that works.
PlaceTakeFails(s) ==
    /\ At(s, "take")
    /\ Goto(s, [futStep[s] EXCEPT !.at = "emergency"])
    /\ \/ UNCHANGED futExchange
       \/ futExchange' = [futExchange EXCEPT ![s].algos = @ \ {futStep[s].stop}]
    /\ UNCHANGED <<futState, futSaved, futUsed>>

PlaceTake(s) ==
    /\ At(s, "take")
    /\ Created(s)
    /\ futState' = [futState EXCEPT ![s].stop = futStep[s].stop, ![s].take = futUsed'.ids]
    /\ Goto(s, [Resting EXCEPT !.at = "save"])
    /\ UNCHANGED futSaved

\* Protection failed: a reduce-only order back, reconciled, and the error
\* raised all the same.
EmergencyClose(s) ==
    /\ At(s, "emergency")
    /\ \/ Raise(s, futState[s]) /\ UNCHANGED futExchange
       \/ Raise(s, futState[s]) /\ Positioned(s, 0)
       \/ Raise(s, [futState[s] EXCEPT !.amt = 0]) /\ Positioned(s, 0)
    /\ UNCHANGED <<futSaved, futUsed>>

\* _close_position: a reduce-only order never turns the position round.
CloseOrder(s) ==
    /\ At(s, "close")
    /\ \/ Raise(s, futState[s]) /\ UNCHANGED futExchange
       \/ Raise(s, futState[s]) /\ Positioned(s, 0)
       \/ /\ futExchange[s].amt # 0
          /\ Positioned(s, 0)
          /\ Goto(s, [futStep[s] EXCEPT !.at = "cancel"])
          /\ UNCHANGED futState
    /\ UNCHANGED <<futSaved, futUsed>>

\* A failed cancellation is only logged; the ids are forgotten either way.
CancelProtection(s) ==
    /\ At(s, "cancel")
    /\ \E gone \in SUBSET ({futState[s].stop, futState[s].take} \cap futExchange[s].algos) :
          futExchange' = [futExchange EXCEPT ![s].algos = @ \ gone]
    /\ futState' = [futState EXCEPT ![s] =
          [FreshState EXCEPT !.halted = futState[s].halted \/ futStep[s].halts]]
    /\ Goto(s, [Resting EXCEPT !.at = "save"])
    /\ UNCHANGED <<futSaved, futUsed>>

\* Saving may fail, which is logged.
SaveState(s) ==
    /\ At(s, "save")
    /\ futSaved' \in {futSaved, [futSaved EXCEPT ![s] = futState[s]]}
    /\ Goto(s, Resting)
    /\ UNCHANGED <<futExchange, futState, futUsed>>

\* The exchange closes a position by one of its algo orders; the other one may
\* stay.
AlgoTriggers(s) ==
    /\ futExchange[s].amt # 0
    /\ \E id \in futExchange[s].algos :
          \E left \in {futExchange[s].algos \ {id}, {}} :
             futExchange' = [futExchange EXCEPT ![s] = [amt |-> 0, algos |-> left]]
    /\ UNCHANGED <<futState, futSaved, futStep, futUsed>>

\* stop saves every state, a crash none; start loads what was saved.
FutRestart ==
    /\ futUsed.crashes < FutCrashes
    /\ futUsed' = [futUsed EXCEPT !.crashes = @ + 1]
    /\ futSaved' \in {futSaved, futState}
    /\ futState' = futSaved'
    /\ futStep' = [s \in FutSymbols |-> Resting]
    /\ UNCHANGED futExchange

FutNext ==
    \/ \E s \in FutSymbols :
          \/ ReadPosition(s) \/ Judge(s) \/ OrderEntry(s) \/ Reconcile(s)
          \/ PlaceStop(s) \/ PlaceTake(s) \/ PlaceTakeFails(s) \/ EmergencyClose(s)
          \/ CloseOrder(s) \/ CancelProtection(s) \/ SaveState(s) \/ AlgoTriggers(s)
    \/ FutRestart

FutSpec == FutInit /\ [][FutNext]_futVars

-----------------------------------------------------------------------------
\* Whatever answers get lost, saves fail and crashes hit between an order and
\* its save, a symbol never holds more than one position of its configured
\* size: the position is read before every decision, and what cannot be
\* reconciled stops the entries.
OnePositionPerSymbol == \A s \in FutSymbols : Magnitude(futExchange[s].amt) <= FutSize

\* The positions of all symbols together stay under max_total_notional_usdt
\* ("Account-wide futures notional cap").
TotalCapKept ==
    MapThenFoldSet(+, 0, LAMBDA t : Magnitude(futExchange[t].amt),
                   LAMBDA T : CHOOSE t \in T : TRUE, FutSymbols) <= FutTotal
=============================================================================
