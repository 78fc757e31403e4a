----------------------------- MODULE SellMonitor -----------------------------
(***************************************************************************)
(* Coordinated sells: transactions of Solana and of the EVM chains decoded *)
(* into versioned sell events, their finality revised by appended records, *)
(* the adapter that admits finalized canonical events, and the windowed    *)
(* monitor that adds up what the wallets of one owner sold.                *)
(***************************************************************************)
EXTENDS Integers, Sequences, FiniteSets, FiniteSetsExt, Functions

CONSTANTS
    Feeds,          \* sets of transactions to watch: [tx, chain, failed, placed, removed, logs]; a log is
                    \*   [at, index, known, sell, wallet, amount, usd]
    Wallets, Ties,  \* relations of wallets: [from, to, kind, confidence] in percent
    MergeConfidence,
    Holdings,       \* wallet -> balance, the holders of the token
    TopHolders,     \* the code's top 5
    SellBalance,    \* cluster_balance_before the caller supplies
    SellWindow, MinShare, CriticalShare, MinSellers, MaxPerKey,
    LastSlot, SellEnd  \* bounds: slots a transaction lands in, the sellClock

VARIABLES
    onChain,    \* tx -> [slot, finality]: where it landed, whether that is final
    held,       \* the events the caller holds: event id -> event
    ties,       \* relations learned so far
    admitted,   \* the adapter: position -> event id of what it ingested
    window,     \* <<chain, cluster>> -> the monitor's deque of observations
    alert,      \* the last alert, NoAlert before
    sellClock

sellVars == <<onChain, held, ties, admitted, window, alert, sellClock>>

NoAlert == [cluster |-> <<>>, count |-> 0, share |-> 0, severity |-> "none"]
\* Of the finality statuses only finalized is told apart.
Finalities == {"unfinal", "finalized"}

-----------------------------------------------------------------------------
(***************************************************************************)
(* Identity: an EVM event's id includes its block, a Solana one's does not.*)
(***************************************************************************)
EventId(e) == IF e.chain = "solana" THEN <<e.chain, e.tx, e.at, e.index>>
              ELSE <<e.chain, e.tx, e.slot, e.at, e.index>>

SolanaPosition(e) == <<e.chain, e.tx, e.index>>
EvmPosition(e) == <<e.chain, e.tx, e.at, e.index>>
Position(e) == IF e.chain = "solana" THEN SolanaPosition(e) ELSE EvmPosition(e)

\* event_key: log_index is the event index of a Solana event.
EventKey(e) == <<e.tx, IF e.chain = "solana" THEN e.index ELSE e.at, e.slot>>

-----------------------------------------------------------------------------
(***************************************************************************)
(* normalize_solana_sell_events and normalize_evm_sell_events.             *)
(***************************************************************************)
Considered(t) == {i \in DOMAIN t.logs : t.logs[i].known}
Accepted(t) == {i \in Considered(t) : t.logs[i].sell}

Unplaced(t) == t.failed \/ ~t.placed

SolanaAmbiguous(t) == \E i, j \in Accepted(t) : i # j /\ t.logs[i].index = t.logs[j].index

\* A log position is taken even when its decoder rejects the payload.
EvmAmbiguous(t) == \/ \E i, j \in Considered(t) : i # j /\ t.logs[i].at = t.logs[j].at
                   \/ SolanaAmbiguous(t)

SellEvent(t, log, slot, finality, reorg, now) ==
    [chain |-> t.chain, tx |-> t.tx, at |-> log.at, index |-> log.index, slot |-> slot,
     wallet |-> log.wallet, amount |-> log.amount, usd |-> log.usd, observed |-> now,
     finality |-> finality, reorg |-> reorg]

Sold(t, slot, finality, reorg, now) ==
    {SellEvent(t, t.logs[i], slot, finality, reorg, now) : i \in Accepted(t)}

NormalizedSolana(t, slot, finality, reorg, now) ==
    IF Unplaced(t) \/ SolanaAmbiguous(t) THEN {} ELSE Sold(t, slot, finality, reorg, now)

NormalizedEvm(t, slot, finality, reorg, now) ==
    IF Unplaced(t) \/ t.removed \/ EvmAmbiguous(t) THEN {} ELSE Sold(t, slot, finality, reorg, now)

Events(t, slot, finality, reorg, now) ==
    IF t.chain = "solana" THEN NormalizedSolana(t, slot, finality, reorg, now)
    ELSE NormalizedEvm(t, slot, finality, reorg, now)

-----------------------------------------------------------------------------
(***************************************************************************)
(* build_wallet_clusters: only a relation of ownership or control above    *)
(* the confidence merges wallets.  A cluster is its members: the smallest  *)
(* group with the wallet that no relation leads out of.                    *)
(***************************************************************************)
Mergeable(r) == r.kind \in {"same_owner", "shared_control"}

Merges(r) == Mergeable(r) /\ r.confidence >= MergeConfidence

Joined(known, group) ==
    group \cup UNION {{r.from, r.to} : r \in {q \in known : Merges(q) /\ {q.from, q.to} \cap group # {}}}

ClusterOf(known, wallet) ==
    LET closed == {group \in SUBSET Wallets : wallet \in group /\ Joined(known, group) = group}
    IN  {w \in Wallets : \A group \in closed : w \in group}

Clusters(known) == {ClusterOf(known, w) : w \in Wallets}

\* calculate_concentration without exclusions, as sums of the largest holders.
Balance(group) == MapThenSumSet(LAMBDA w : Holdings[w], group)

TopBalance(groups) ==
    Max({MapThenSumSet(Balance, top) :
           top \in {g \in SUBSET groups : Cardinality(g) <= TopHolders}})

RawTop == TopBalance({{w} : w \in Wallets})
ClusterTop(known) == TopBalance(Clusters(known))

-----------------------------------------------------------------------------
SellInit ==
    /\ \E txs \in Feeds : onChain = [t \in txs |-> [slot |-> 1, finality |-> "unfinal"]]
    /\ held = [i \in {} |-> 0]
    /\ ties = {} /\ admitted = [p \in {} |-> 0]
    /\ window = [c \in {} |-> 0]
    /\ alert = NoAlert /\ sellClock = 0

\* What the caller is told of an event: final where it landed, orphaned elsewhere.
Truth(t, slot) ==
    IF onChain[t].slot # slot THEN [finality |-> "unfinal", reorg |-> "orphaned"]
    ELSE [finality |-> onChain[t].finality,
          reorg |-> IF onChain[t].finality = "finalized" THEN "canonical" ELSE "pending"]

\* Of the chain: a transaction becomes final, or before that lands elsewhere.
ChainMoves(t) ==
    /\ onChain[t].finality # "finalized"
    /\ \/ onChain' = [onChain EXCEPT ![t].finality = "finalized"]
       \/ /\ onChain[t].slot < LastSlot
          /\ onChain' = [onChain EXCEPT ![t] = [slot |-> @.slot + 1, finality |-> "unfinal"]]
    /\ UNCHANGED <<held, ties, admitted, window, alert, sellClock>>

\* The caller normalizes the transaction as it stands and keeps the events.
Normalize(t) ==
    LET now == Truth(t, onChain[t].slot)
        found == Events(t, onChain[t].slot, now.finality, now.reorg, sellClock)
    IN  /\ held' = [i \in DOMAIN held \cup {EventId(e) : e \in found} |->
                      IF \E e \in found : EventId(e) = i THEN CHOOSE e \in found : EventId(e) = i
                      ELSE held[i]]
        /\ UNCHANGED <<onChain, ties, admitted, window, alert, sellClock>>

\* append_status_revision: the evidence stays, only the two statuses change.
AppendStatusRevision(i) ==
    LET now == Truth(CHOOSE t \in DOMAIN onChain : t.tx = held[i].tx, held[i].slot)
    IN  /\ held' = [held EXCEPT ![i].finality = now.finality, ![i].reorg = now.reorg]
        /\ UNCHANGED <<onChain, ties, admitted, window, alert, sellClock>>

-----------------------------------------------------------------------------
(***************************************************************************)
(* ClusterSellMonitor.ingest: what it has seen is what its deques hold.    *)
(***************************************************************************)
SeenEvents(c) == IF c \in DOMAIN window THEN {EventKey(window[c][i]) : i \in DOMAIN window[c]} ELSE {}

\* Events older than the window leave from the front, and only from there.
Unexpired(events, now) ==
    LET stale == {n \in 0 .. Len(events) : \A i \in 1 .. n : events[i].observed < now - SellWindow}
    IN  SubSeq(events, Max(stale) + 1, Len(events))

Capped(events) == SubSeq(events, Max({1, Len(events) - MaxPerKey + 1}), Len(events))

SellAmount(events) == MapThenSumSet(LAMBDA i : events[i].amount, DOMAIN events)

SellShare(events) == (100 * SellAmount(events)) \div SellBalance

Sellers(events) == Cardinality({events[i].wallet : i \in DOMAIN events})

Alerts(events) ==
    /\ SellShare(events) >= MinShare
    /\ Sellers(events) >= MinSellers \/ SellShare(events) >= CriticalShare

Raised(c, events) ==
    [cluster |-> c, count |-> Len(events), share |-> SellShare(events),
     severity |-> IF SellShare(events) >= CriticalShare THEN "critical" ELSE "high"]

MonitorIngest(c, e) ==
    IF EventKey(e) \in SeenEvents(c) THEN UNCHANGED <<window, alert>>
    ELSE LET old == IF c \in DOMAIN window THEN window[c] ELSE <<>>
             events == Capped(Append(Unexpired(old, e.observed), e))
         IN  /\ window' = [d \in DOMAIN window \cup {c} |-> IF d = c THEN events ELSE window[d]]
             /\ alert' = IF Alerts(events) THEN Raised(c, events) ELSE alert

(***************************************************************************)
(* The adapters: finality first, then the id, then the position.           *)
(***************************************************************************)
\* Fault: whatever is not known to be orphaned is taken.
MonitorEligibleUnfinal(e) == e.reorg # "orphaned"

MonitorEligible(e) == e.finality = "finalized" /\ e.reorg = "canonical"

\* Without the value in USD no observation is built, and the event may come again.
QuoteValue(e, supplied) == IF e.usd # "none" THEN e.usd ELSE supplied

Observable(e, supplied) == /\ e.amount > 0
                           /\ QuoteValue(e, supplied) # "none"

\* Seen ids are dropped in silence, a seen position with another id is an error.
AdapterIngest(i, supplied) ==
    LET e == held[i] IN
    /\ MonitorEligible(e)
    /\ i \notin Range(admitted)
    /\ Position(e) \notin DOMAIN admitted
    /\ Observable(e, supplied)
    /\ admitted' = [p \in DOMAIN admitted \cup {Position(e)} |->
                      IF p = Position(e) THEN i ELSE admitted[p]]
    /\ MonitorIngest(<<e.chain, ClusterOf(ties, e.wallet)>>, e)
    /\ UNCHANGED <<onChain, held, ties, sellClock>>

\* A batch runs through an adapter of its own: the monitor is the one that remembers.
NewAdapter ==
    /\ admitted # [p \in {} |-> 0]
    /\ admitted' = [p \in {} |-> 0]
    /\ UNCHANGED <<onChain, held, ties, window, alert, sellClock>>

\* A relation is learned; clusters found from now on have their new members.
LearnTie(r) ==
    /\ r \notin ties
    /\ ties' = ties \cup {r}
    /\ UNCHANGED <<onChain, held, admitted, window, alert, sellClock>>

SellTick ==
    /\ sellClock < SellEnd
    /\ sellClock' = sellClock + 1
    /\ UNCHANGED <<onChain, held, ties, admitted, window, alert>>

SellNext ==
    \/ \E t \in DOMAIN onChain : ChainMoves(t) \/ Normalize(t)
    \/ \E i \in DOMAIN held :
         \/ AppendStatusRevision(i)
         \/ \E supplied \in {"none", "some"} : AdapterIngest(i, supplied)
    \/ \E r \in Ties : LearnTie(r)
    \/ NewAdapter
    \/ SellTick

-----------------------------------------------------------------------------
SellTypeOK ==
    /\ \A t \in DOMAIN onChain : onChain[t].slot \in 1 .. LastSlot /\ onChain[t].finality \in Finalities
    /\ \A c \in DOMAIN window : c[2] \subseteq Wallets /\ Len(window[c]) \in 1 .. MaxPerKey
    /\ ties \subseteq Ties /\ sellClock \in 0 .. SellEnd

\* What a window adds up was sold once, is final on chain where it was seen, and
\* starts within the window of its last sell, unless it is full: a full deque
\* drops its front, which may have hidden an older sell that came late.
WindowsAreSound ==
    \A c \in DOMAIN window :
      LET events == window[c] IN
      /\ \A i, j \in DOMAIN events : Position(events[i]) = Position(events[j]) => i = j
      /\ \A i \in DOMAIN events : \E t \in DOMAIN onChain :
            t.tx = events[i].tx /\ onChain[t] = [slot |-> events[i].slot, finality |-> "finalized"]
      /\ Len(events) < MaxPerKey =>
            events[Len(events)].observed - events[1].observed <= SellWindow

\* Knowing who owns what never makes a token look less concentrated.
ClustersConcentrate == ClusterTop(ties) >= RawTop
=============================================================================
