----------------------------- MODULE TradeJournal -----------------------------
(***************************************************************************)
(* The trade journal of the strategy service: a list in memory, each entry *)
(* and exit mirrored to the backend by a call that may fail.               *)
(***************************************************************************)
EXTENDS Integers, FiniteSets, Sequences, TLC

CONSTANTS
    TradeIds,      \* exchange order ids
    MaxEntries     \* bound: journal entries

VARIABLES
    entries,    \* the list of [order, status, pnl]
    mirrored    \* what the backend holds of it: order -> status

journalVars == <<entries, mirrored>>

TradeInit == entries = <<>> /\ mirrored = <<>>

\* record_entry: kept here whatever the backend answers.
RecordEntry(order) ==
    /\ Len(entries) < MaxEntries
    /\ entries' = Append(entries, [order |-> order, status |-> "OPEN", pnl |-> 0])
    /\ mirrored' \in {mirrored, (order :> "OPEN") @@ mirrored}

ExitStatus(reason) == CASE reason = "CANCELLED" -> "CANCELLED"
                        [] reason = "FILLED_BUY" -> "FILLED"
                        [] OTHER -> "CLOSED"

Latest(order) == {i \in DOMAIN entries : /\ entries[i].order = order
                                         /\ \A j \in DOMAIN entries : entries[j].order = order => j <= i}

\* record_exit: the last entry of the order, whatever state it is in.
RecordExit(order, reason, pnl) ==
    /\ entries' = [i \in DOMAIN entries |->
                     IF i \in Latest(order)
                     THEN [entries[i] EXCEPT !.status = ExitStatus(reason), !.pnl = pnl] ELSE entries[i]]
    /\ mirrored' \in {mirrored, IF order \in DOMAIN mirrored
                                THEN [mirrored EXCEPT ![order] = ExitStatus(reason)] ELSE mirrored}

\* get_stats: only CLOSED entries won or lost.
ClosedTrades == {i \in DOMAIN entries : entries[i].status = "CLOSED"}
Wins == {i \in ClosedTrades : entries[i].pnl > 0}
Losses == ClosedTrades \ Wins

Exits == {<<"CANCELLED", 0>>, <<"FILLED_BUY", 0>>, <<"FILLED_SELL", 5>>, <<"STOP_LOSS", -5>>}

TradeNext == \E o \in TradeIds : RecordEntry(o) \/ \E x \in Exits : RecordExit(o, x[1], x[2])

TradeTypeOK == /\ \A i \in DOMAIN entries : entries[i].status \in {"OPEN", "CLOSED", "FILLED", "CANCELLED"}
               /\ DOMAIN mirrored \subseteq {entries[i].order : i \in DOMAIN entries}
=============================================================================
