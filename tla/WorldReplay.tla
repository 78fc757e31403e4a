----------------------------- MODULE WorldReplay -----------------------------
(***************************************************************************)
(* The offline paper replay of World Markets: frames of observations and   *)
(* settlements in chronological order, the scanner's eligibility filter    *)
(* and complement gaps, and the positions in YES + NO pairs it opens.      *)
(* Prices are hundredths, sizes and units whole; 0 stands for no size.     *)
(***************************************************************************)
EXTENDS Integers, FiniteSets, FiniteSetsExt, Functions

CONSTANTS
    WorldTickers,
    WorldQuotes,       \* what a frame may say of a market: the records below
    MinGap, MaxSpread, MinReplayLiquidity,
    FeePercent, MinNetEdge, MaxPairs, MaxAge, TargetUnits, UnknownFills,
    LastFrame          \* bound: frames of a replay

Absent == -1

\* A frame's record of a market: both books, how deep, how old and whether the
\* payload carried what a candidate needs.
\* [yesBid, yesAsk, noBid, noAsk, mid, size, liquidity, age, sound, active]

VARIABLES
    frame,       \* frames replayed
    replayClock,       \* observed_at of the last frame
    book,        \* open pairs by ticker
    settledAt,   \* frame of a ticker's first settlement, Absent before
    paired,      \* closed pairs
    stopped      \* the replay was refused: frames out of order

replayVars == <<frame, replayClock, book, settledAt, paired, stopped>>

WReplayInit ==
    /\ frame = 0 /\ replayClock = 0 /\ stopped = FALSE
    /\ book = [t \in {} |-> 0]
    /\ settledAt = [t \in WorldTickers |-> Absent]
    /\ paired = {}

WReplayTypeOK ==
    /\ frame \in 0 .. LastFrame /\ stopped \in BOOLEAN
    /\ DOMAIN book \subseteq WorldTickers
    /\ \A t \in DOMAIN book : book[t].units \in 1 .. TargetUnits
    /\ settledAt \in [WorldTickers -> {Absent} \cup 1 .. LastFrame]

-----------------------------------------------------------------------------
(***************************************************************************)
(* validation_errors and resolution_errors of a parsed market.             *)
(***************************************************************************)
InRange(p) == p = Absent \/ p \in 0 .. 100
Crossed(bid, ask) == bid # Absent /\ ask # Absent /\ bid > ask

ValidMarket(q) ==
    /\ \A p \in {q.yesBid, q.yesAsk, q.noBid, q.noAsk, q.mid} : InRange(p)
    /\ ~Crossed(q.yesBid, q.yesAsk) /\ ~Crossed(q.noBid, q.noAsk)
    /\ q.size >= Absent /\ q.liquidity >= Absent

Spread(bid, ask) == IF bid = Absent \/ ask = Absent THEN Absent ELSE ask - bid

\* is_eligible
Eligible(q) ==
    /\ q.active /\ q.sound /\ ValidMarket(q)
    /\ q.liquidity >= MinReplayLiquidity
    /\ Spread(q.yesBid, q.yesAsk) <= MaxSpread
    /\ Spread(q.noBid, q.noAsk) <= MaxSpread

BuyBoth(q) == IF q.yesAsk = Absent \/ q.noAsk = Absent THEN Absent ELSE q.yesAsk + q.noAsk

\* The signals of scan that the replay paired: YES and NO together below 1.
BuyBothReview(q) ==
    /\ Eligible(q)
    /\ BuyBoth(q) # Absent
    /\ 100 - BuyBoth(q) >= MinGap

-----------------------------------------------------------------------------
\* _fill_ratio of target_units, rounded down to whole units.
FilledUnits(q) ==
    IF q.size = Absent THEN UnknownFills
    ELSE IF q.size < TargetUnits THEN q.size ELSE TargetUnits

GrossCost(q) == BuyBoth(q) * FilledUnits(q)
TotalCost(q) == GrossCost(q) + ((GrossCost(q) * FeePercent) \div 100)

Fresh(q) == q.age = Absent \/ q.age \in 0 .. MaxAge

\* One unit's payout is compared with the cost of all of them.
CanEnter(t, q, open, known) ==
    /\ BuyBothReview(q)
    /\ t \notin known /\ t \notin DOMAIN open
    /\ Cardinality(DOMAIN open) < MaxPairs
    /\ Fresh(q)
    /\ FilledUnits(q) > 0
    /\ 100 - TotalCost(q) >= MinNetEdge

Pair(q, n) == [entered |-> n, units |-> FilledUnits(q), gross |-> GrossCost(q),
               cost |-> TotalCost(q)]

SettledBy(n) == {t \in WorldTickers : settledAt[t] # Absent /\ settledAt[t] <= n}

\* A frame: its settlements are known before any of its quotes, then the
\* signals are taken by rank, as many as there is room for.  The rank, a mix of
\* gap and completeness that saturates, is left open.
Frame(at, quotes, settlements) ==
    LET n == frame + 1
        kept == Restrict(book, DOMAIN book \ DOMAIN settlements)
        known == SettledBy(frame) \cup DOMAIN settlements
        wanted == {t \in DOMAIN quotes : CanEnter(t, quotes[t], kept, known)}
        room == MaxPairs - Cardinality(DOMAIN kept)
        admitted == {a \in SUBSET wanted :
                       Cardinality(a) = Cardinality(wanted) \/ Cardinality(a) = room}
    IN  /\ \E a \in admitted :
              /\ Cardinality(a) <= room
              /\ book' = [t \in DOMAIN kept \cup a |-> IF t \in a THEN Pair(quotes[t], n) ELSE kept[t]]
        /\ paired' = paired \cup
              {[ticker |-> t, entered |-> book[t].entered, resolved |-> n, cost |-> book[t].cost,
                payout |-> settlements[t] * book[t].units] : t \in DOMAIN settlements \cap DOMAIN book}
        /\ settledAt' = [t \in WorldTickers |->
              IF t \in DOMAIN settlements /\ settledAt[t] = Absent THEN n ELSE settledAt[t]]
        /\ frame' = n /\ replayClock' = at

\* A fixture line holds a time, markets and settlements, at least one of them.
ReplayFrame ==
    /\ frame < LastFrame /\ ~stopped
    /\ \E at \in 0 .. LastFrame, observed \in SUBSET WorldTickers, closed \in SUBSET WorldTickers :
         /\ observed \cup closed # {}
         /\ \E quotes \in [observed -> WorldQuotes], settlements \in [closed -> {0, 100}] :
              IF at < replayClock THEN stopped' = TRUE /\ UNCHANGED <<frame, replayClock, book, settledAt, paired>>
              ELSE Frame(at, quotes, settlements) /\ UNCHANGED stopped

WReplayNext == ReplayFrame

-----------------------------------------------------------------------------
\* "lookahead_safe": a pair is settled by a later frame than the one that opened
\* it, and none is opened once its ticker's settlement is known.
LookaheadSafe ==
    /\ \A d \in paired : d.entered < d.resolved
    /\ \A t \in DOMAIN book : settledAt[t] = Absent
    /\ \A d \in paired : settledAt[d.ticker] = d.resolved
=============================================================================
