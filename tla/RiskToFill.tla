------------------------------ MODULE RiskToFill ------------------------------
(***************************************************************************)
(* From a scanned token to a paper fill: the deterministic risk gate       *)
(* annotates a quote with a decision, a decision that passes permits an    *)
(* immutable trade intent, and the offline gateway evaluates an intent     *)
(* once against a sanitized quote.  Scans, proposals, evaluations and a    *)
(* restart of the gateway (it lives in memory only) interleave as time     *)
(* passes.                                                                 *)
(*                                                                         *)
(* Evidence is the normalized view of a quote's metadata; None is a field  *)
(* no provider gave.  Ratios are percent, fees and slippage basis points.  *)
(***************************************************************************)
EXTENDS Integers, FiniteSets

CONSTANTS
    None,            \* what no provider gave
    Evidences,       \* what a scan may find
    PaperQuotes,     \* what the gateway may be handed
    Slippages,       \* max_slippage_bps of an intent
    EvidenceAge,     \* oldest evidence the gate takes (MARKET_INTEL_RISK_MAX_AGE_SECONDS)
    ClockSkew,       \* how far in the future evidence may be dated (60 s)
    IntentLife,      \* expires_at - created_at
    QuoteAge,        \* max_quote_age of the gateway (30 s)
    LastMoment,      \* bound: the clock
    MaxIntents       \* bound: intents proposed

\* Amounts and times are whole, a quote expects something (paper_execution.py),
\* and the absence of a reading is neither a number nor a failure code.
ASSUME RiskData ==
    /\ {EvidenceAge, ClockSkew, IntentLife, QuoteAge, LastMoment} \subseteq Nat
    /\ \A e \in Evidences :
          /\ {e.age, e.liquidity, e.locked, e.holders, e.clustered} \subseteq Int \cup {None}
          /\ e.providers \in Nat
    /\ \A q \in PaperQuotes : /\ {q.expected, q.simulated, q.quotedAt, q.expires} \subseteq Nat
                              /\ q.expected > 0
    /\ None \notin {"quote_context_mismatch", "intent_expired", "quote_not_yet_valid",
                    "quote_expired", "quote_stale", "quote_slippage_exceeded"}

VARIABLES
    moment,      \* now
    scanned,     \* the annotated quote: [evidence, decision], or None
    proposed,    \* intents built, each [payload, evidence]
    receipts,    \* the gateway's: intent payload -> receipt
    fills        \* history: the simulated receipts of every gateway

riskVars == <<moment, scanned, proposed, receipts, fills>>

Supported == {"solana", "bsc", "ethereum", "base", "arbitrum"}
MinLiquidity == 5000
MinLocked == 80
MaxFee == 1000

RiskStates == {"detected", "unsupported", "insufficient_evidence", "high_risk", "watchlist",
               "paper_candidate", "invalidated"}

-----------------------------------------------------------------------------
\* _as_bool of the words providers use: "failed" and "blocked" are true.
AsBool(word) == IF word \in {"true", "active", "blocked", "failed"} THEN "true"
                ELSE IF word \in {"false", "inactive", "passed", "success"} THEN "false" ELSE None

\* A control field that is no known word still counts as present.
ControlPresent(word) == AsBool(word) = "true" \/ (AsBool(word) = None /\ word # None)

ProvesSell(e) == AsBool(e.sellFlag) = "true" \/ e.sellStatus \in {"passed", "success"}

\* The holders' share: the clustered one when it is known.
Concentration(e) == IF e.clustered # None THEN e.clustered ELSE e.holders

\* Prices of two providers that differ by more than half of the lower.
PricesConflict(prices) == \E p, q \in prices : p < q /\ 2 * (q - p) > p
Conflict(e) == e.conflict \/ e.cluster.conflict \/ PricesConflict(e.prices)

Alerted(e) == AsBool(e.cluster.alert) = "true" \/ e.cluster.severity \in {"watch", "high", "critical"}

Outdated(age) == age < -ClockSkew \/ age > EvidenceAge

Below(value, limit) == value # None /\ value < limit

Vetoes(e) ==
    {name \in DOMAIN e.controls : ControlPresent(e.controls[name])}
    \cup {v \in {"transfer_fee"} : e.fee # None /\ e.fee > MaxFee}
    \cup {v \in {"concentration"} : Concentration(e) # None /\ Concentration(e) >= 50}
    \cup {v \in {"cluster_sell"} : /\ Alerted(e)
                                   /\ \/ e.cluster.severity \in {"high", "critical"}
                                      \/ e.cluster.share # None /\ e.cluster.share >= 20}
    \cup {v \in {"liquidity"} : Below(e.liquidity, MinLiquidity) \/ Below(e.depth, MinLiquidity)}
    \cup {v \in {"lp_lock"} : \/ AsBool(e.lpLocked) = "false"
                              \/ Below(e.locked, MinLocked)
                              \/ e.locked # None /\ e.lockExpires = "soon"}
    \cup {v \in {"sell_failed"} : e.sellStatus \in {"failed", "reverted", "blocked", "honeypot"}}

Missing(e) ==
    {m \in {"identity"} : ~e.identified}
    \cup {m \in {"freshness"} : e.age = None}
    \cup {m \in {"cluster_freshness"} : Alerted(e) /\ e.cluster.age = None}
    \cup {m \in {"cluster_reconciliation"} : Alerted(e) /\ e.cluster.conflict}
    \cup {m \in {"authority"} : ~e.authority}
    \cup {m \in {"liquidity"} : e.liquidity = None}
    \cup {m \in {"sell_simulation"} : ~ProvesSell(e)}
    \cup {m \in {"holders"} : Concentration(e) = None}
    \cup {m \in {"confirmation"} : e.providers < 2}
    \cup {m \in {"custody"} : e.locked = None}
    \cup {m \in {"custody_verification"} : \/ AsBool(e.custody) = "false"
                                           \/ e.custodyRequired /\ AsBool(e.custody) # "true"}
    \cup {m \in {"reconciliation"} : Conflict(e)}
    \cup {m \in {"availability"} : e.incomplete}
\* Fault: the age of the evidence is not looked at.
StaleNever(e) == FALSE

Stale(e) == \/ e.age # None /\ Outdated(e.age)
            \/ Alerted(e) /\ e.cluster.age # None /\ Outdated(e.cluster.age)

EventOnly(e) == e.event /\ ~e.priced /\ e.liquidity = None

\* evaluate_risk: the first case that applies.
RiskState(e) ==
    IF e.chain \notin Supported \/ e.decoder = "unsupported" THEN "unsupported"
    ELSE IF e.invalidated THEN "invalidated"
    ELSE IF Vetoes(e) # {} THEN "high_risk"
    ELSE IF EventOnly(e) /\ Cardinality(Missing(e)) >= 3 THEN "detected"
    ELSE IF Stale(e) \/ Missing(e) # {} THEN "insufficient_evidence"
    ELSE IF e.ready /\ e.demand THEN "paper_candidate" ELSE "watchlist"

HardVeto(state) == state \notin {"watchlist", "paper_candidate"}
EvaluateRisk(e) == [state |-> RiskState(e), eligible |-> RiskState(e) \in {"watchlist", "paper_candidate"}]

\* opportunity_allowed reads the stored decision, however old it is.
OpportunityAllowed(decision) == /\ decision.state \in {"watchlist", "paper_candidate"}
                                /\ decision.eligible /\ ~HardVeto(decision.state)

-----------------------------------------------------------------------------
RiskInit == /\ moment = 0 /\ scanned = None /\ proposed = {}
            /\ receipts = <<>> /\ fills = {}

\* A scan: every quote leaves it annotated.
AnnotateRisk(e) == /\ scanned' = [evidence |-> e, decision |-> EvaluateRisk(e)]
                   /\ UNCHANGED <<moment, proposed, receipts, fills>>

\* Only a payload whose fields normalize has an identity, and the identity is
\* the payload.
Normalizes(p) == p.tokenIn # p.tokenOut /\ p.expires > p.created /\ p.slippage \in 0..10000

BuildTradeIntent(slippage) ==
    LET p == [state |-> scanned.decision.state, slippage |-> slippage, tokenIn |-> "usd",
              tokenOut |-> "token", created |-> moment, expires |-> moment + IntentLife] IN
    /\ scanned # None
    /\ OpportunityAllowed(scanned.decision)
    /\ Normalizes(p)
    /\ Cardinality(proposed) < MaxIntents
    /\ proposed' = proposed \cup {[payload |-> p, evidence |-> scanned.evidence]}
    /\ UNCHANGED <<moment, scanned, receipts, fills>>

\* A serialized intent: its identity with some payload.
Wire == {[id |-> a.payload, payload |-> b.payload] : a, b \in proposed}
ValidateTradeIntent(w) == Normalizes(w.payload) /\ w.id = w.payload

EffectiveSlippage(q) == IF q.simulated >= q.expected THEN 0
                        ELSE ((q.expected - q.simulated) * 10000 + q.expected - 1) \div q.expected

FailureCode(p, q) ==
    IF ~q.sameContext THEN "quote_context_mismatch"
    ELSE IF moment >= p.expires THEN "intent_expired"
    ELSE IF moment < q.quotedAt THEN "quote_not_yet_valid"
    ELSE IF moment >= q.expires THEN "quote_expired"
    ELSE IF moment - q.quotedAt > QuoteAge THEN "quote_stale"
    ELSE IF EffectiveSlippage(q) > p.slippage THEN "quote_slippage_exceeded" ELSE None

Receipt(p, q) == [quote |-> q, failure |-> FailureCode(p, q), observed |-> moment]

\* simulate: a wire that does not validate and a second quote raise, a replay
\* of the same quote returns the stored receipt.
Simulate(w, q) ==
    /\ ValidateTradeIntent(w)
    /\ w.id \notin DOMAIN receipts
    /\ receipts' = [p \in DOMAIN receipts \cup {w.id} |->
                       IF p = w.id THEN Receipt(w.payload, q) ELSE receipts[p]]
    /\ fills' = IF FailureCode(w.payload, q) = None
                THEN fills \cup {[payload |-> w.payload, quote |-> q, at |-> moment]} ELSE fills
    /\ UNCHANGED <<moment, scanned, proposed>>

\* The gateway keeps its receipts in memory.
GatewayRestarts == /\ receipts # <<>> /\ receipts' = <<>>
                   /\ UNCHANGED <<moment, scanned, proposed, fills>>

Moment == /\ moment < LastMoment /\ moment' = moment + 1
          /\ UNCHANGED <<scanned, proposed, receipts, fills>>

RiskNext ==
    \/ \E e \in Evidences : AnnotateRisk(e)
    \/ \E s \in Slippages : BuildTradeIntent(s)
    \/ \E w \in Wire, q \in PaperQuotes : Simulate(w, q)
    \/ GatewayRestarts \/ Moment

RiskSpec == RiskInit /\ [][RiskNext]_riskVars

RiskTypeOK ==
    /\ moment \in 0..LastMoment
    /\ scanned # None => scanned.decision.state \in RiskStates
    /\ \A i \in proposed : i.payload.state \in {"watchlist", "paper_candidate"}
    /\ DOMAIN receipts \subseteq {i.payload : i \in proposed}

-----------------------------------------------------------------------------
(* What a fill rests on, said of the raw evidence and not of the decision:
   two providers that agree, holders and liquidity known and in bounds, no
   active control, and evidence that was fresh when the gate saw it. *)
SafeEvidence(e) ==
    /\ ~e.invalidated /\ e.chain \in Supported
    /\ e.age # None /\ e.age \in -ClockSkew..EvidenceAge
    /\ e.providers >= 2 /\ ~e.conflict /\ ~e.incomplete
    /\ e.holders # None => e.clustered # None \/ e.holders < 50
    /\ e.liquidity # None /\ e.liquidity >= MinLiquidity
    /\ e.locked # None /\ e.locked >= MinLocked
    /\ e.sellStatus \notin {"failed", "reverted", "blocked", "honeypot"}
    /\ e.cluster.severity \notin {"high", "critical"}
    /\ \A name \in DOMAIN e.controls : e.controls[name] \notin {"true", "active"}

(* Whatever the order of scans, proposals, evaluations and restarts: a paper
   fill belongs to an intent proposed on evidence that was safe by itself,
   was made while the intent and its quote lived, and received no less than
   the intent's slippage allows of what was quoted. *)
FillsRestOnEvidence ==
    \A f \in fills :
        /\ \E i \in proposed : i.payload = f.payload /\ SafeEvidence(i.evidence)
        /\ f.at \in f.payload.created..f.payload.expires - 1
        /\ f.at \in f.quote.quotedAt..f.quote.expires - 1
        /\ f.quote.simulated * 10000 >= f.quote.expected * (10000 - f.payload.slippage)
=============================================================================
