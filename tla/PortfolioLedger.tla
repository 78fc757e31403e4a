--------------------------- MODULE PortfolioLedger ---------------------------
(***************************************************************************)
(* The paper portfolio: an in-memory ledger of paper trades, rewards and   *)
(* capital accounts whose records are written once, the airdrop tracker    *)
(* that is synchronized into it, settled alpha results that become trades, *)
(* and what the ledger answers: a split snapshot at any time and the       *)
(* non-cash projections for the finance boundary.                          *)
(*                                                                         *)
(* Money is a small integer and a payout is 0 or 100.  NoValue is a field  *)
(* that is absent.                                                         *)
(***************************************************************************)
EXTENDS Integers, Sequences, Functions, FiniteSetsExt

CONSTANTS
    Trades,        \* paper trades a service may record
    Accounts,      \* capital accounts it may register
    AlphaResults,  \* settled results of the alpha journal
    Tasks,         \* number of tracker tasks
    TaskStates,    \* what a tracker row may say
    LedgerDays     \* bound: days

VARIABLES
    today,      \* now
    tracker,    \* the tracker's rows, in the order it lists them
    trades,     \* trade id -> trade
    rewards,    \* task -> reward
    accounts    \* account scope -> account

ledgerVars == <<today, tracker, trades, rewards, accounts>>

NoValue == -1

-----------------------------------------------------------------------------
Cost(t) == t.fee
GrossPnl(t) == (t.exit - t.entry) * t.quantity * t.direction
NetPnl(t) == GrossPnl(t) - Cost(t)
MarkPnl(t, mark) == (mark - t.entry) * t.quantity * t.direction - Cost(t)
Notional(t) == t.quantity * t.entry

ValidTrade(t) ==
    /\ t.quantity > 0 /\ t.entry > 0 /\ t.fee >= 0
    /\ IF t.status = "closed" THEN t.exit # NoValue /\ t.closed # NoValue /\ t.closed >= t.opened
                              ELSE t.exit = NoValue /\ t.closed = NoValue

\* alpha_settlement_to_paper_trade: a bought binary that paid out.
AlphaTrade(r) ==
    [id |-> r.request, scope |-> "paper-default", platform |-> "world", currency |-> "USD",
     direction |-> 1, quantity |-> r.units, entry |-> r.price, exit |-> r.payout,
     fee |-> r.cost * r.units, status |-> "closed", opened |-> r.observed, closed |-> r.settled]
AlphaPermits(r) == r.action = "TRADE_PAPER" /\ r.payout \in {0, 100} /\ r.settled >= r.observed

\* _status of the tracker's words.
RewardStatus(word) == CASE word = "not_started" -> "candidate"
                        [] word = "completed" -> "eligible"
                        [] OTHER -> word

IsPending(r) == r.status \in {"candidate", "in_progress", "eligible"}
RealizedNet(r) == r.realized - r.cost

\* _task_to_reward: rows without timestamps are dated by the conversion, a
\* claim without its value is quarantined.
Converts(row) == RewardStatus(row.status) = "claimed" => row.realized # NoValue
TaskToReward(row) ==
    LET created == IF row.created = NoValue THEN today ELSE row.created IN
    [status |-> RewardStatus(row.status), estimated |-> row.estimated, realized |-> row.realized,
     cost |-> row.cost, currency |-> "USD", platform |-> "airdrop_rewards", scope |-> "rewards",
     created |-> created, updated |-> IF row.updated = NoValue THEN created ELSE row.updated]
Quarantined(row) == ~Converts(row) \/ TaskToReward(row).updated < TaskToReward(row).created

-----------------------------------------------------------------------------
\* A tracker's row says nothing of days to come.
Dated(row) == row.created <= today /\ row.updated <= today

LedgerInit == /\ today = 0
              /\ tracker \in [1..Tasks -> TaskStates] /\ \A i \in 1..Tasks : Dated(tracker[i])
              /\ trades = <<>> /\ rewards = <<>> /\ accounts = <<>>

\* A record added under its key.
With(records, key, new) ==
    [k \in DOMAIN records \cup {key} |-> IF k = key THEN new ELSE records[k]]

MatchesAccount(t) ==
    t.scope \in DOMAIN accounts => /\ accounts[t.scope].platform = t.platform
                                   /\ accounts[t.scope].currency = t.currency

\* record_trade: a known id raises or changes nothing.
RecordTrade(t) ==
    /\ ValidTrade(t) /\ t.opened <= today /\ t.closed <= today
    /\ MatchesAccount(t) /\ t.id \notin DOMAIN trades
    /\ trades' = With(trades, t.id, t)
    /\ UNCHANGED <<today, tracker, rewards, accounts>>

RecordAlpha(r) == AlphaPermits(r) /\ RecordTrade(AlphaTrade(r))

\* register_account does not look at the trades already there.
RegisterAccount(a) ==
    /\ a.scope \notin DOMAIN accounts
    /\ accounts' = With(accounts, a.scope, a)
    /\ UNCHANGED <<today, tracker, trades, rewards>>

\* sync_airdrop_tracker_to_ledger: in the tracker's order, up to the first
\* reward that is in the ledger with other data.
Conflicting(i) == /\ ~Quarantined(tracker[i])
                  /\ i \in DOMAIN rewards /\ rewards[i] # TaskToReward(tracker[i])
InSync == {i \in 1..Tasks : ~Quarantined(tracker[i]) /\ \A j \in 1..i : ~Conflicting(j)}

SyncTracker ==
    /\ rewards' = [i \in InSync \cup DOMAIN rewards |->
                      IF i \in InSync THEN TaskToReward(tracker[i]) ELSE rewards[i]]
    /\ UNCHANGED <<today, tracker, trades, accounts>>

\* The tracker's row is edited.
TaskMoves(i, row) == /\ Dated(row)
                     /\ tracker' = [tracker EXCEPT ![i] = row]
                     /\ UNCHANGED <<today, trades, rewards, accounts>>

\* export_events: trades and rewards are events, accounts are not.
Exported == {[type |-> "paper_trade", id |-> i, record |-> trades[i]] : i \in DOMAIN trades}
            \cup {[type |-> "reward", id |-> i, record |-> rewards[i]] : i \in DOMAIN rewards}
Parsed(type) == LET events == {e \in Exported : e.type = type} IN
                [i \in {e.id : e \in events} |-> (CHOOSE e \in events : e.id = i).record]

\* The exported events are replayed into a new ledger.
Replay == /\ trades' = Parsed("paper_trade") /\ rewards' = Parsed("reward")
          /\ accounts' = <<>>
          /\ UNCHANGED <<today, tracker>>

LedgerDay == today < LedgerDays /\ today' = today + 1 /\ UNCHANGED <<tracker, trades, rewards, accounts>>

LedgerNext ==
    \/ \E t \in Trades : RecordTrade(t)
    \/ \E r \in AlphaResults : RecordAlpha(r)
    \/ \E a \in Accounts : RegisterAccount(a)
    \/ \E i \in 1..Tasks, row \in TaskStates : TaskMoves(i, row)
    \/ SyncTracker \/ Replay \/ LedgerDay

LedgerSpec == LedgerInit /\ [][LedgerNext]_ledgerVars

-----------------------------------------------------------------------------
AllTrades == Range(trades)
AllRewards == Range(rewards)
SumOf(amount) == MapThenSumSet(LAMBDA i : amount[i], DOMAIN amount)

\* Fault: a trade closed at the moment of the snapshot is not yet closed.
IsClosedBefore(t, asOf) == t.status = "closed" /\ t.closed < asOf

\* snapshot at a time, for the records of one group.
IsClosed(t, asOf) == t.status = "closed" /\ t.closed <= asOf
IsOpen(t, asOf) == t.opened <= asOf /\ (t.status = "open" \/ (t.status = "closed" /\ t.closed > asOf))
IsRealized(r) == r.status = "claimed" /\ r.realized # NoValue
IsEstimated(r) == IsPending(r) /\ r.estimated # NoValue

Metrics(asOf, mark, group) ==
    LET seen == {i \in DOMAIN trades : trades[i] \in group /\ trades[i].opened <= asOf}
        gained == {i \in DOMAIN rewards : rewards[i] \in group /\ rewards[i].updated <= asOf}
        closed == {i \in seen : IsClosed(trades[i], asOf)}
        open == {i \in seen : IsOpen(trades[i], asOf)}
        realized == {i \in gained : IsRealized(rewards[i])}
        estimated == {i \in gained : IsEstimated(rewards[i])} IN
    [realized |-> SumOf([i \in closed |-> NetPnl(trades[i])]),
     unrealized |-> SumOf([i \in open |-> MarkPnl(trades[i], mark)]),
     rewardsNet |-> SumOf([i \in realized |-> RealizedNet(rewards[i])]),
     pending |-> SumOf([i \in estimated |-> rewards[i].estimated]),
     costs |-> SumOf([i \in seen |-> Cost(trades[i])]) + SumOf([i \in gained |-> rewards[i].cost])]

\* _snapshot_time without an as_of.
EventDays == {IF t.closed = NoValue THEN t.opened ELSE t.closed : t \in AllTrades}
             \cup {r.updated : r \in AllRewards}
LatestEvent == Max({0} \cup EventDays)

\* capital_snapshot of an account.
Reserve(t) == Notional(t) + Cost(t)
Capital(a, asOf) ==
    LET scoped == {i \in DOMAIN trades : /\ trades[i].scope = a.scope
                                         /\ trades[i].currency = a.currency
                                         /\ trades[i].opened <= asOf}
        closed == {i \in scoped : IsClosed(trades[i], asOf)}
        open == {i \in scoped : IsOpen(trades[i], asOf)} IN
    [realized |-> SumOf([i \in closed |-> NetPnl(trades[i])]),
     reserved |-> SumOf([i \in open |-> Reserve(trades[i])])]
Available(a, asOf) == a.starting + Capital(a, asOf).realized - Capital(a, asOf).reserved

\* portfolio_finance_projections.
TradeProjection(t) == [currency |-> t.currency, valuation |-> "realized", amount |-> NetPnl(t)]
RewardProjection(r) ==
    IF IsRealized(r)
    THEN [currency |-> r.currency, valuation |-> "realized", amount |-> RealizedNet(r)]
    ELSE IF IsEstimated(r)
    THEN [currency |-> r.currency, valuation |-> "pending", amount |-> r.estimated]
    ELSE [currency |-> r.currency, valuation |-> "none", amount |-> 0]

AmountIf(p, currency, valuation) ==
    IF p.currency = currency /\ p.valuation = valuation THEN p.amount ELSE 0
Projected(currency, valuation) ==
    LET closed == {i \in DOMAIN trades : trades[i].status = "closed"} IN
    SumOf([i \in closed |-> AmountIf(TradeProjection(trades[i]), currency, valuation)])
    + SumOf([i \in DOMAIN rewards |-> AmountIf(RewardProjection(rewards[i]), currency, valuation)])

LedgerTypeOK ==
    /\ today \in 0..LedgerDays /\ tracker \in [1..Tasks -> TaskStates]
    /\ \A i \in DOMAIN trades : trades[i].id = i /\ ValidTrade(trades[i])
    /\ DOMAIN rewards \subseteq 1..Tasks /\ Range(accounts) \subseteq Accounts

\* The two ways the portfolio's money leaves the ledger agree: in every currency
\* the realized and the pending projections add up to what the snapshot reports,
\* and an account all of whose trades are in its currency has every unit of its
\* capital and profit either free or in an open trade.
MatchesAll(a) == \A t \in AllTrades : t.scope = a.scope => t.currency = a.currency
AllRecords == AllTrades \cup AllRewards
Currencies == {r.currency : r \in AllRecords}
CurrencyAgrees(c) ==
    LET m == Metrics(LatestEvent, 0, {r \in AllRecords : r.currency = c}) IN
    /\ Projected(c, "realized") = m.realized + m.rewardsNet
    /\ Projected(c, "pending") = m.pending
AccountAgrees(a) ==
    LET open == {i \in DOMAIN trades : trades[i].scope = a.scope /\ IsOpen(trades[i], LatestEvent)}
        m == Metrics(LatestEvent, 0, {r \in AllRecords : r.scope = a.scope}) IN
    Available(a, LatestEvent) + SumOf([i \in open |-> Reserve(trades[i])]) = a.starting + m.realized
BooksAgree ==
    /\ \A c \in Currencies : CurrencyAgrees(c)
    /\ \A a \in Range(accounts) : MatchesAll(a) => AccountAgrees(a)
=============================================================================
