--------------------------- MODULE GridUnderPolls ---------------------------
(***************************************************************************)
(* The grid bot and the balance requests of the dashboard in one process:  *)
(* they share ExchangeManager.currentProvider, which every submission,     *)
(* lookup and cancel of the grid reads and every balance request moves.    *)
(***************************************************************************)
EXTENDS GridOrders

CONSTANT Requests    \* the balance requests in progress at once

VARIABLES keys, stored, selected, step, todo, target, original, readFrom, crossed, clean

Balances == INSTANCE ExchangeProvider

pollVars == <<keys, stored, selected, step, todo, target, original, readFrom, crossed, clean>>

\* Everything but the provider, which a balance request moves.
gridVars == <<running, started, pc, position, held, seq, order, reply, trades,
              orders, inventory, fills>>

\* The operator has configured every exchange and selected one of them.
PollInit ==
    /\ Init
    /\ keys = Exchanges
    /\ stored = Exchanges
    /\ selected = provider
    /\ Balances!InitRequests

GridStep == Next /\ UNCHANGED pollVars

PollStep == \E q \in Requests : Balances!RequestStep(q) /\ UNCHANGED gridVars

PollNext == GridStep \/ PollStep

PollSpec == PollInit /\ [][PollNext]_<<vars, pollVars>>

-----------------------------------------------------------------------------
\* Whichever exchange a lookup happens to ask, the book never records more of
\* an order than was executed (reconcileGridOrder, recordGridFill).
FillsAreReal == \A o \in OrderIds : fills[o] <= orders[o].executed
=============================================================================
