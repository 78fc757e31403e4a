----------------------------- MODULE EvmEvidence -----------------------------
(***************************************************************************)
(* EVM risk evidence: a registry of providers that must be enabled and     *)
(* approved, concurrent bounded requests with retries, an adapter for each *)
(* provider's payload and the merge that keeps the conflicts.              *)
(***************************************************************************)
EXTENDS Integers, Sequences, FiniteSets, Functions

CONSTANTS
    Endpoints,     \* sequence of [provider, adapter, required, chains, group, secret]
    Registries,    \* [enabled, approved, bound]: bound are the secrets that resolve
    Payloads,      \* adapter -> the payloads its provider may answer with
    EvmChains,     \* chains asked for
    CallerLiquidity, \* claims about the liquidity the caller supplies
    MaxAttempts, MaxCollects

VARIABLES
    registry,
    ingestor,    \* none, empty, refused or ready
    asked,       \* chain of the collection in flight, "none" between two
    calls,       \* endpoint index -> [attempts, outcome, payload]
    evidence,    \* what the last collection returned, NoEvidence before
    collects

evmVars == <<registry, ingestor, asked, calls, evidence, collects>>

NoEvidence == [chain |-> "none"]
Unclaimed == "unknown"

-----------------------------------------------------------------------------
(***************************************************************************)
(* evm_security: what a provider says, with unknown left unknown.          *)
(***************************************************************************)
TruthOf(text) == CASE text \in {"1", "true", "yes", "active", "blocked", "failed"} -> "true"
                   [] text \in {"0", "false", "no", "inactive", "passed", "success"} -> "false"
                   [] OTHER -> Unclaimed

\* A missing field is omitted: an unavailable answer does not look safe.
KnownClaims(claims) == Restrict(claims, {k \in DOMAIN claims : claims[k] # Unclaimed})

GoPlus(p) == [contract |-> KnownClaims([k \in DOMAIN p |-> TruthOf(p[k])]),
              simulation |-> [k \in {} |-> 0], liquidity |-> [k \in {} |-> 0]]

HoneypotStatus(p) ==
    CASE TruthOf(p.honeypot) = "true" \/ TruthOf(p.sold) = "false" -> "failed"
      [] TruthOf(p.simulated) = "false" -> "inconclusive"
      [] TruthOf(p.sold) = "true" -> "passed"
      [] p.status # Unclaimed -> p.status
      [] OTHER -> "inconclusive"

Honeypot(p) == [contract |-> KnownClaims([honeypot |-> TruthOf(p.honeypot)]),
                simulation |-> KnownClaims([status |-> HoneypotStatus(p), sold |-> TruthOf(p.sold)]),
                liquidity |-> [k \in {} |-> 0]]

FailedStatuses == {"failed", "reverted", "blocked", "honeypot", "error"}
PassedStatuses == {"passed", "success", "succeeded", "ok"}

SimulationStatus(p) ==
    CASE TruthOf(p.sold) = "false" \/ p.status \in FailedStatuses -> "failed"
      [] TruthOf(p.simulated) = "false" -> "inconclusive"
      [] TruthOf(p.sold) = "true" -> "passed"
      [] p.status \in PassedStatuses -> p.status
      [] OTHER -> "inconclusive"

SellSimulation(p) == [contract |-> [k \in {} |-> 0], liquidity |-> [k \in {} |-> 0],
                      simulation |-> KnownClaims([status |-> SimulationStatus(p), sold |-> TruthOf(p.sold)])]

\* Burned is a finding, not a locked ratio.
LpCustody(p) == [contract |-> [k \in {} |-> 0], simulation |-> [k \in {} |-> 0],
                 liquidity |-> KnownClaims(p)]

Adapted(adapter, p) == CASE adapter = "goplus" -> GoPlus(p)
                         [] adapter = "honeypot" -> Honeypot(p)
                         [] adapter = "simulation" -> SellSimulation(p)
                         [] OTHER -> LpCustody(p)

\* _merge_sections: of the claims of a section, in the order of the endpoints, the
\* first one stands, and a different one is a conflict.
Claiming(section, key) == {i \in DOMAIN section : key \in DOMAIN section[i]}
FirstOf(places) == CHOOSE i \in places : \A j \in places : i <= j

MergeSection(section) ==
    [k \in UNION {DOMAIN section[i] : i \in DOMAIN section} |->
       section[FirstOf(Claiming(section, k))][k]]
Disputed(section) ==
    \E i \in DOMAIN section : \E k \in DOMAIN section[i] : section[i][k] # MergeSection(section)[k]

-----------------------------------------------------------------------------
(***************************************************************************)
(* EVMProviderRegistry.build_ingestor                                      *)
(***************************************************************************)
Supports(e, chain) == chain \in e.chains

Resolves(e) == e.secret = "none" \/ e.secret \in registry.bound

EvmInit ==
    /\ registry \in Registries
    /\ ingestor = "none" /\ asked = "none"
    /\ calls = [i \in {} |-> 0]
    /\ evidence = NoEvidence /\ collects = 0

BuildIngestor ==
    /\ ingestor = "none"
    /\ ingestor' = CASE ~registry.enabled -> "empty"
                     [] ~registry.approved \/ Endpoints = <<>> -> "refused"
                     [] \E i \in DOMAIN Endpoints : ~Resolves(Endpoints[i]) -> "refused"
                     [] OTHER -> "ready"
    /\ UNCHANGED <<registry, asked, calls, evidence, collects>>

Configured == IF ingestor = "ready" THEN DOMAIN Endpoints ELSE {}
Active(chain) == {i \in Configured : Supports(Endpoints[i], chain)}

\* collect: every active endpoint is asked at once.
Collect(chain) ==
    /\ ingestor \in {"empty", "ready"} /\ asked = "none" /\ collects < MaxCollects
    /\ asked' = chain
    /\ calls' = [i \in Active(chain) |-> [attempts |-> 1, outcome |-> "pending", payload |-> 0]]
    /\ collects' = collects + 1
    /\ UNCHANGED <<registry, ingestor, evidence>>

Returned(i, outcome, payload) ==
    calls' = [calls EXCEPT ![i].outcome = outcome, ![i].payload = payload]

\* Fault: one attempt more than the maximum.
RequestRetriesOnceMore(i) ==
    /\ calls[i].outcome = "pending"
    /\ IF calls[i].attempts <= MaxAttempts
       THEN calls' = [calls EXCEPT ![i].attempts = @ + 1]
       ELSE Returned(i, "provider_unavailable", 0)
    /\ UNCHANGED <<registry, ingestor, asked, evidence, collects>>

\* _request_json: a retryable status or a broken connection, until the attempts
\* are used up; any other failure ends the request.
RequestRetries(i) ==
    /\ calls[i].outcome = "pending"
    /\ IF calls[i].attempts < MaxAttempts
       THEN calls' = [calls EXCEPT ![i].attempts = @ + 1]
       ELSE Returned(i, "provider_unavailable", 0)
    /\ UNCHANGED <<registry, ingestor, asked, evidence, collects>>

RequestFails(i) ==
    /\ calls[i].outcome = "pending"
    /\ Returned(i, "http_error", 0)
    /\ UNCHANGED <<registry, ingestor, asked, evidence, collects>>

RequestAnswers(i) ==
    /\ calls[i].outcome = "pending"
    /\ \E p \in Payloads[Endpoints[i].adapter] : Returned(i, "ok", p)
    /\ UNCHANGED <<registry, ingestor, asked, evidence, collects>>

-----------------------------------------------------------------------------
Answered(i) == calls[i].outcome = "ok"

\* An endpoint's observation, under its group.
Observation(i) == [said |-> Adapted(Endpoints[i].adapter, calls[i].payload),
                   group |-> IF Endpoints[i].group # "none" THEN Endpoints[i].group
                             ELSE Endpoints[i].provider]

\* What the answers say together; the caller's claims about the liquidity come last.
MergeObservations(answered) ==
    LET contract == [i \in answered |-> Observation(i).said.contract]
        simulation == [i \in answered |-> Observation(i).said.simulation]
        liquidity == [i \in answered \cup {Len(Endpoints) + 1} |->
                        IF i \in answered THEN Observation(i).said.liquidity ELSE CallerLiquidity]
    IN  [contract |-> MergeSection(contract), simulation |-> MergeSection(simulation),
         liquidity |-> MergeSection(liquidity),
         conflict |-> \E section \in {contract, simulation, liquidity} : Disputed(section),
         independent |-> Cardinality({Observation(i).group : i \in answered})]

RequiredOf(S) == {i \in S : Endpoints[i].required}

\* Incomplete: a required endpoint failed, or none covers the chain and one is required.
Incomplete(active, answered) ==
    \/ RequiredOf(active \ answered) # {}
    \/ active = {} /\ RequiredOf(Configured) # {}

Bare == [contract |-> [k \in {} |-> 0], simulation |-> [k \in {} |-> 0],
         liquidity |-> [k \in {} |-> 0], conflict |-> FALSE, independent |-> 0]

Told(chain) ==
    LET answered == {i \in DOMAIN calls : Answered(i)}
    IN  [merged |-> IF answered = {} THEN Bare ELSE MergeObservations(answered),
         chain |-> chain, answered |-> answered, incomplete |-> Incomplete(DOMAIN calls, answered)]

\* gather returns once the last request did.
Gathered ==
    /\ asked # "none"
    /\ \A i \in DOMAIN calls : calls[i].outcome # "pending"
    /\ evidence' = Told(asked)
    /\ asked' = "none"
    /\ UNCHANGED <<registry, ingestor, calls, collects>>

EvmNext ==
    \/ BuildIngestor
    \/ \E c \in EvmChains : Collect(c)
    \/ \E i \in DOMAIN calls : RequestRetries(i) \/ RequestFails(i) \/ RequestAnswers(i)
    \/ Gathered

-----------------------------------------------------------------------------
EvmTypeOK ==
    /\ ingestor \in {"none", "empty", "refused", "ready"}
    /\ asked \in EvmChains \cup {"none"} /\ collects \in 0 .. MaxCollects
    /\ \A i \in DOMAIN calls : calls[i].attempts \in 1 .. MaxAttempts

\* What a provider in the evidence said against the sale is not merged away: it is
\* the claim that stands, or the evidence is in conflict; and it never counts as
\* more independent than the groups that answered, nor as complete without them.
SaysUnsellable(i) ==
    LET said == Adapted(Endpoints[i].adapter, calls[i].payload).simulation
    IN  "status" \in DOMAIN said /\ said.status = "failed"

EvidenceHidesNothing ==
    evidence # NoEvidence /\ asked = "none" =>
      /\ (\E i \in evidence.answered : SaysUnsellable(i)) =>
            evidence.merged.conflict \/ evidence.merged.simulation.status = "failed"
      /\ evidence.merged.independent <= Cardinality({Observation(i).group : i \in evidence.answered})
      /\ ~evidence.incomplete => RequiredOf(Active(evidence.chain)) \subseteq evidence.answered
=============================================================================
