---------------------------- MODULE AlphaJournal ----------------------------
(***************************************************************************)
(* Selective alpha: the evaluator of a thesis against one quote, the       *)
(* durable journal that reserves the paper risk of its decisions until a   *)
(* proof settles them, and the research replay that runs the same          *)
(* evaluator over recorded cases with an in-memory journal.                *)
(*                                                                         *)
(* BEGIN IMMEDIATE makes a review and a settlement one step each, however  *)
(* many processes share the file.  Prices are hundredths.                  *)
(***************************************************************************)
EXTENDS Integers, FiniteSets, FiniteSetsExt

CONSTANTS
    AlphaTerms,     \* what a thesis and its quote may be: the records of Evaluate
    AlphaAccounts,  \* account bindings (scope, currency)
    AlphaCapitals,  \* starting capitals a caller binds; NoCapital is None
    AlphaPolicies, Instruments,
    MaxTotalRisk, MaxTradeRisk, MaxAlphaOpen, MinAlphaEdge, MaxQuoteAge,
    ForwardStart, MinForwardCases, MinForwardTrades,
    AlphaHorizon, AlphaCases   \* bounds: times of a case, cases replayed

Unknown == -1
NoCapital == 0
Payouts == {0, 100}
Times == 0 .. AlphaHorizon

\* Amounts are whole hundredths.
ASSUME AlphaAmounts ==
    /\ {MaxTotalRisk, MaxTradeRisk, MaxAlphaOpen, MinAlphaEdge, MaxQuoteAge, AlphaHorizon} \subseteq Nat
    /\ \A t \in AlphaTerms :
          {t.price, t.cost, t.units, t.maxLoss, t.age, t.size, t.fair, t.edge} \subseteq Int

VARIABLES
    journal,   \* the rows of alpha_reviews, by request
    policy,    \* alpha_policy's one row
    replay     \* the run of run_alpha_research

alphaVars == <<journal, policy, replay>>

NoPolicy == "none"

\* What AlphaThesis, AlphaObservation and RiskBudget refuse to be built with.
ThesisValid(t) ==
    /\ t.maxLoss > 0 /\ t.units > 0
    /\ {t.fair, t.maxEntry, t.target, t.invalidation, t.edge} \subseteq 0 .. 100
ObservationValid(t) ==
    /\ t.price \in 0 .. 100 /\ t.size >= 0
    /\ t.cost >= Unknown /\ t.age >= Unknown
BudgetValid ==
    /\ 0 < MaxTradeRisk /\ MaxTradeRisk <= MaxTotalRisk /\ MaxAlphaOpen > 0
    /\ \A c \in AlphaCapitals : c = NoCapital \/ MaxTotalRisk <= c

ValidTerms == {t \in AlphaTerms : ThesisValid(t) /\ ObservationValid(t)}

Requests == [instrument : Instruments, terms : ValidTerms, account : AlphaAccounts,
             capital : AlphaCapitals]

\* Before the first case.
FreshReplay == [status |-> "running", last |-> 0, cases |-> 0, forward |-> 0,
                active |-> {}, records |-> {}, verdict |-> "none"]

AlphaTypeOK ==
    /\ \A r \in journal : /\ r.request \in Requests
                          /\ r.action \in {"TRADE_PAPER", "WATCH", "WAIT"}
                          /\ r.payout \in Payouts \cup {Unknown}
    /\ \A r, s \in journal : r.request = s.request => r = s
    /\ policy \in AlphaPolicies \cup {NoPolicy}
    /\ replay.status \in {"running", "conflict", "reported"}
    /\ \A a \in replay.active : a.id \in {d.id : d \in replay.records}

AlphaInit ==
    /\ BudgetValid
    /\ journal = {}
    /\ policy = NoPolicy
    /\ replay = FreshReplay

-----------------------------------------------------------------------------
(***************************************************************************)
(* SelectiveAlphaEvaluator.evaluate: hard reasons give WAIT, soft ones     *)
(* WATCH.  sound stands for the checks of identity, status, expiry,        *)
(* evidence, confidence and completeness, which no state of ours changes.  *)
(***************************************************************************)
UnitCost(t) == t.price + (IF t.cost = Unknown THEN 0 ELSE t.cost)
RiskOf(t) == UnitCost(t) * t.units

Hard(t, risk, positions) ==
    \/ ~t.sound \/ t.cost = Unknown
    \/ RiskOf(t) > t.maxLoss
    \/ t.age = Unknown \/ t.age > MaxQuoteAge
    \/ t.price <= t.invalidation \/ t.target <= t.price
    \/ RiskOf(t) > MaxTradeRisk
    \/ risk + RiskOf(t) > MaxTotalRisk
    \/ positions >= MaxAlphaOpen

Soft(t) ==
    \/ t.fair - UnitCost(t) < t.edge
    \/ t.fair - UnitCost(t) <= 0 \/ t.fair - UnitCost(t) < MinAlphaEdge
    \/ t.price > t.maxEntry
    \/ t.size < t.units

Evaluate(t, risk, positions) ==
    IF Hard(t, risk, positions) THEN "WAIT" ELSE IF Soft(t) THEN "WATCH" ELSE "TRADE_PAPER"

-----------------------------------------------------------------------------
(***************************************************************************)
(* The durable journal.                                                    *)
(***************************************************************************)
OpenRows(account) ==
    {r \in journal : /\ r.action = "TRADE_PAPER" /\ r.payout = Unknown
                     /\ r.request.account = account}

OpenExposure(account) == MapThenSumSet(LAMBDA r : r.risk, OpenRows(account))
\* Fault: an instrument is not reserved by its open trade.
ReservedNever(req) == FALSE

Reserved(req) == \E r \in OpenRows(req.account) : r.request.instrument = req.instrument

CapitalAgrees(req) ==
    req.capital # NoCapital =>
        \A r \in journal : r.request.account = req.account
                             => r.request.capital \in {NoCapital, req.capital}
\* Fault: a retried review is reviewed again.
KnownNever(req) == FALSE

Known(req) == \E r \in journal : r.request = req

\* A request reviewed before is answered from its row; another policy, or
\* another starting capital, is an error: neither changes the journal.
Review(req, pol) ==
    /\ policy \in {NoPolicy, pol}
    /\ ~Known(req)
    /\ CapitalAgrees(req)
    /\ LET evaluated == Evaluate(req.terms, OpenExposure(req.account),
                                 Cardinality(OpenRows(req.account)))
           action == IF Reserved(req) THEN "WAIT" ELSE evaluated
       IN  journal' = journal \cup
             {[request |-> req, action |-> action, payout |-> Unknown, pnl |-> 0,
               risk |-> IF action = "TRADE_PAPER" THEN RiskOf(req.terms) ELSE 0]}
    /\ policy' = pol
    /\ UNCHANGED replay

\* What the stored evidence says: its labels, and whether it is the object the
\* proof names, for the instrument of the review and observed in time.
Evidence == [labels : SUBSET Payouts, genuine : BOOLEAN]

Proves(e, payout) == e.genuine /\ e.labels = {payout}

RealizedPnl(t, payout) == (payout - UnitCost(t)) * t.units

\* The same settlement again is a retry, a different one an error.
Settle(r, payout, e) ==
    /\ r.action = "TRADE_PAPER"
    /\ r.payout = Unknown
    /\ Proves(e, payout)
    /\ RiskOf(r.request.terms) = r.risk
    /\ journal' = (journal \ {r}) \cup
         {[r EXCEPT !.payout = payout, !.pnl = RealizedPnl(r.request.terms, payout)]}
    /\ UNCHANGED <<policy, replay>>

JournalNext ==
    \/ \E req \in Requests, pol \in AlphaPolicies : Review(req, pol)
    \/ \E r \in journal, payout \in Payouts, e \in Evidence : Settle(r, payout, e)

-----------------------------------------------------------------------------
(***************************************************************************)
(* The research replay: cases ordered by time, each with the settlement    *)
(* that is known of it today.                                              *)
(***************************************************************************)
\* settled: when, or Unknown; it does not precede the observation.
Cases == {c \in [thesis : Instruments, terms : ValidTerms, at : Times,
                 settled : Times \cup {Unknown}] : c.settled = Unknown \/ c.settled >= c.at}
\* Fault: every settlement that is known today is due.
DueOnceKnown(a, time) == a.settled # Unknown

\* _settle_due: only what is settled by the time of the next observation.
Due(a, time) == a.settled # Unknown /\ a.settled <= time
StillActive(time) == {a \in replay.active : ~Due(a, time)}

DecisionOf(d) == CHOOSE x \in replay.records : x.id = d

ActiveRisk(active) == MapThenSumSet(LAMBDA a : DecisionOf(a.id).risk, active)

\* The replay stops at a case out of order, a thesis that was registered with
\* other terms and a decision id that was recorded with other data.
Abort(c) ==
    /\ replay.status = "running" /\ replay.cases < AlphaCases
    /\ LET active == StillActive(c.at)
       IN  \/ c.at < replay.last
           \/ \E d \in replay.records : d.id[1] = c.thesis /\ d.terms # c.terms
           \/ \E d \in replay.records :
                 /\ d.id = <<c.thesis, c.at>>
                 /\ <<d.riskBefore, d.openBefore>> # <<ActiveRisk(active), Cardinality(active)>>
    /\ replay' = [replay EXCEPT !.status = "conflict"]
    /\ UNCHANGED <<journal, policy>>

Decide(c) ==
    LET active == StillActive(c.at)
        record == [id |-> <<c.thesis, c.at>>, terms |-> c.terms, risk |-> RiskOf(c.terms),
                   action |-> Evaluate(c.terms, ActiveRisk(active), Cardinality(active)),
                   riskBefore |-> ActiveRisk(active), openBefore |-> Cardinality(active),
                   settled |-> c.settled]
    IN  /\ replay.status = "running" /\ replay.cases < AlphaCases
        /\ c.at >= replay.last
        /\ \A d \in replay.records :
              /\ d.id[1] = c.thesis => d.terms = c.terms
              /\ d.id = record.id => /\ d.riskBefore = record.riskBefore
                                     /\ d.openBefore = record.openBefore
        /\ replay' = [replay EXCEPT
              !.last = c.at, !.cases = @ + 1,
              !.forward = IF c.at >= ForwardStart THEN @ + 1 ELSE @,
              !.records = IF \E d \in @ : d.id = record.id THEN @ ELSE @ \cup {record},
              !.active = {a \in active : a.id # record.id} \cup
                         (IF record.action = "TRADE_PAPER"
                          THEN {[id |-> record.id, settled |-> c.settled]} ELSE {})]
        /\ UNCHANGED <<journal, policy>>

\* Settlements after the last case count for the forward gate.
Report ==
    /\ replay.status = "running"
    /\ LET trades == {d \in replay.records : d.action = "TRADE_PAPER" /\ d.id[2] >= ForwardStart}
           settled == {d \in trades : d.settled # Unknown}
       IN  replay' = [replay EXCEPT
             !.status = "reported",
             !.active = {a \in @ : a.settled = Unknown},
             !.verdict = IF replay.forward < MinForwardCases THEN "cases"
                         ELSE IF Cardinality(trades) < MinForwardTrades THEN "trades"
                         ELSE IF Cardinality(settled) < MinForwardTrades THEN "settlements"
                         ELSE "review"]
    /\ UNCHANGED <<journal, policy>>

ReplayNext == (\E c \in Cases : Decide(c) \/ Abort(c)) \/ Report

AlphaSpec == AlphaInit /\ [][JournalNext \/ ReplayNext]_alphaVars

-----------------------------------------------------------------------------
\* Whatever the order of reviews, retries and settlements of all processes, the
\* open risk and positions of an account stay within the risk budget, and an
\* instrument is reserved by one open trade.
ExposureBudgeted ==
    \A a \in AlphaAccounts :
        /\ OpenExposure(a) <= MaxTotalRisk
        /\ Cardinality(OpenRows(a)) <= MaxAlphaOpen
        /\ \A r, s \in OpenRows(a) : r.request.instrument = s.request.instrument => r = s

\* as_of_records: the slice of a moment hides what was settled later.
AsOf(time) ==
    {[d EXCEPT !.settled = IF @ > time THEN Unknown ELSE @] :
        d \in {x \in replay.records : x.id[2] <= time}}

\* The replay never decides with hindsight: at every moment the trades that were
\* open then fit the risk budget together ("Settlements are never consulted
\* before their timestamp").
NoHindsight ==
    \A t \in Times :
        MapThenSumSet(LAMBDA d : d.risk,
            {d \in AsOf(t) : d.action = "TRADE_PAPER" /\ d.settled = Unknown})
          <= MaxTotalRisk
=============================================================================
