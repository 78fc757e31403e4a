----------------------------- MODULE GridLedger -----------------------------
(***************************************************************************)
(* What the grid promises about the account, with no book, no messages and *)
(* no clock: each run has an inventory and at most one working order; an   *)
(* order is submitted only when the inventory allows it to execute in full *)
(* and then executes piece by piece until it is complete or withdrawn.     *)
(***************************************************************************)
EXTENDS Integers

CONSTANTS Runs, Quantity, MaxPosition

VARIABLES
    inventory,   \* what the account holds because of each run
    working      \* the part of each run's order that may still execute

ledger == <<inventory, working>>

Nothing == [side |-> "NONE", left |-> 0]

Init ==
    /\ inventory = [r \in Runs |-> 0]
    /\ working = [r \in Runs |-> Nothing]

Affordable(r, side) ==
    \/ side = "BUY"  /\ inventory[r] + Quantity <= MaxPosition
    \/ side = "SELL" /\ inventory[r] >= Quantity

Submit(r, side) ==
    /\ working[r] = Nothing
    /\ Affordable(r, side)
    /\ working' = [working EXCEPT ![r] = [side |-> side, left |-> Quantity]]
    /\ UNCHANGED inventory

Execute(r, qty) ==
    /\ working[r] # Nothing
    /\ qty <= working[r].left
    /\ inventory' = [inventory EXCEPT
                       ![r] = IF working[r].side = "BUY" THEN @ + qty
                              ELSE @ - qty]
    /\ working' = [working EXCEPT
                     ![r] = IF qty = @.left THEN Nothing
                            ELSE [side |-> @.side, left |-> @.left - qty]]

Withdraw(r) ==
    /\ working[r] # Nothing
    /\ working' = [working EXCEPT ![r] = Nothing]
    /\ UNCHANGED inventory

Next ==
    \E r \in Runs :
        \/ \E side \in {"BUY", "SELL"} : Submit(r, side)
        \/ \E qty \in 1 .. Quantity : Execute(r, qty)
        \/ Withdraw(r)

Spec == Init /\ [][Next]_ledger
=============================================================================
