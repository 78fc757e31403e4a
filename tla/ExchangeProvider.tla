-------------------------- MODULE ExchangeProvider --------------------------
(***************************************************************************)
(* The process-wide choice of exchange (ExchangeManager.currentProvider)   *)
(* and the HTTP handlers that move it: the operator selects, configures    *)
(* and deletes exchanges, and a request for all balances walks the         *)
(* configured ones, pointing the shared choice at each while it reads the  *)
(* balances and pointing it back afterwards.  Every access takes the lock, *)
(* but the walk takes it anew for each of its steps, so that other walks   *)
(* and the operator may come between any two of them.                      *)
(***************************************************************************)
EXTENDS Integers

CONSTANTS
    Exchanges,    \* the supported providers
    Requests      \* the balance requests in progress at once

ASSUME ProviderParams == Exchanges # {}

VARIABLES
    provider,     \* currentProvider
    keys,         \* the providers apiKeys has an entry for
    stored,       \* the providers the database has a key for
    selected,     \* history: what the operator selected, if its key is kept
    step,         \* where each balance request is
    todo,         \* the configured exchanges it still has to visit
    target,       \* the one it is visiting
    original,     \* originalProvider
    readFrom,     \* whose account it read for each exchange
    crossed,      \* history: did visits overlap, or the operator select during one
    clean         \* history: what each request visited with nobody in between

requestVars == <<step, todo, target, original, readFrom>>
operatorVars == <<keys, stored, selected>>
historyVars == <<crossed, clean>>
vars == <<provider, operatorVars, requestVars, historyVars>>

NoExchange == "none"

TypeOK ==
    /\ provider \in Exchanges
    /\ keys \subseteq Exchanges
    /\ stored \subseteq Exchanges
    /\ selected \in Exchanges \cup {NoExchange}
    /\ step \in [Requests -> {"idle", "next", "saved", "switched", "fetched"}]
    /\ todo \in [Requests -> SUBSET Exchanges]
    /\ target \in [Requests -> Exchanges \cup {NoExchange}]
    /\ original \in [Requests -> Exchanges \cup {NoExchange}]
    /\ readFrom \in [Requests -> [Exchanges -> Exchanges \cup {NoExchange}]]
    /\ crossed \in BOOLEAN
    /\ clean \in [Requests -> SUBSET Exchanges]

NothingRead == [e \in Exchanges |-> NoExchange]

InitRequests ==
    /\ step = [q \in Requests |-> "idle"]
    /\ todo = [q \in Requests |-> {}]
    /\ target = [q \in Requests |-> NoExchange]
    /\ original = [q \in Requests |-> NoExchange]
    /\ readFrom = [q \in Requests |-> NothingRead]
    /\ crossed = FALSE
    /\ clean = [q \in Requests |-> {}]

\* Keys come from the environment and the database; the configured provider
\* need not have one.
Init ==
    /\ provider \in Exchanges
    /\ keys \in SUBSET Exchanges
    /\ stored \in SUBSET keys
    /\ selected = IF provider \in keys THEN provider ELSE NoExchange
    /\ InitRequests

\* From saving the original provider to switching back to it.
Visiting(q) == step[q] \in {"saved", "switched", "fetched"}
NoVisit == \A q \in Requests : ~Visiting(q)

\* Every visit under way is disturbed.
Disturbed == [q \in Requests |-> IF Visiting(q) THEN clean[q] \ {target[q]} ELSE clean[q]]

\* SetCurrentProvider: refused, leaving everything as it was, without a key.
Pointed(to) == IF to \in keys THEN to ELSE provider

-----------------------------------------------------------------------------
SetExchange(e) ==
    /\ e \in keys
    /\ provider' = Pointed(e)
    /\ selected' = e
    /\ crossed' = ~NoVisit
    /\ clean' = Disturbed
    /\ UNCHANGED <<keys, stored, requestVars>>

ConfigureExchange(e) ==
    /\ keys' = keys \cup {e}
    /\ stored' = stored \cup {e}
    /\ UNCHANGED <<provider, selected, requestVars, historyVars>>

\* Fault: deleting the current exchange leaves none current.
DeleteExchangeClears(e) ==
    /\ keys' = keys \ {e}
    /\ stored' \in {stored, stored \ {e}}
    /\ selected' = IF selected = e THEN NoExchange ELSE selected
    /\ provider' = IF provider = e THEN NoExchange ELSE provider
    /\ clean' = Disturbed
    /\ UNCHANGED <<crossed, requestVars>>

\* The deleted exchange stays the current one if it was, and a failing
\* database keeps the stored key.
DeleteExchange(e) ==
    /\ keys' = keys \ {e}
    /\ stored' \in {stored, stored \ {e}}
    /\ selected' = IF selected = e THEN NoExchange ELSE selected
    /\ clean' = Disturbed
    /\ UNCHANGED <<provider, crossed, requestVars>>

-----------------------------------------------------------------------------
(***************************************************************************)
(* One GET /api/exchange/all-balances that misses the cache.               *)
(***************************************************************************)
Begin(q) ==
    /\ step[q] = "idle"
    /\ todo' = [todo EXCEPT ![q] = stored]
    /\ step' = [step EXCEPT ![q] = "next"]
    /\ UNCHANGED <<provider, operatorVars, target, original, readFrom, historyVars>>

SaveOriginal(q, e) ==
    /\ step[q] = "next"
    /\ e \in todo[q]
    /\ todo' = [todo EXCEPT ![q] = @ \ {e}]
    /\ target' = [target EXCEPT ![q] = e]
    /\ original' = [original EXCEPT ![q] = provider]
    /\ step' = [step EXCEPT ![q] = "saved"]
    /\ crossed' = (crossed \/ ~NoVisit)
    /\ clean' = IF NoVisit /\ e \in keys THEN [clean EXCEPT ![q] = @ \cup {e}] ELSE Disturbed
    /\ UNCHANGED <<provider, operatorVars, readFrom>>

\* Fault: the balances are fetched without switching first.
SwitchToSkipped(q) ==
    /\ step[q] = "saved"
    /\ step' = [step EXCEPT ![q] = "switched"]
    /\ UNCHANGED <<provider, operatorVars, todo, target, original, readFrom, historyVars>>

SwitchTo(q) ==
    /\ step[q] = "saved"
    /\ provider' = Pointed(target[q])
    /\ step' = [step EXCEPT ![q] = "switched"]
    /\ UNCHANGED <<operatorVars, todo, target, original, readFrom, historyVars>>

\* GetBalances asks whatever provider is current by then; it may fail.
Fetch(q) ==
    /\ step[q] = "switched"
    /\ \/ readFrom' = [readFrom EXCEPT ![q][target[q]] = provider]
       \/ UNCHANGED readFrom
    /\ step' = [step EXCEPT ![q] = "fetched"]
    /\ UNCHANGED <<provider, operatorVars, todo, target, original, historyVars>>

\* Fault: the next exchange is visited without switching back.
SwitchBackSkipped(q) ==
    /\ step[q] = "fetched"
    /\ step' = [step EXCEPT ![q] = "next"]
    /\ UNCHANGED <<provider, operatorVars, todo, target, original, readFrom, historyVars>>

SwitchBack(q) ==
    /\ step[q] = "fetched"
    /\ provider' = Pointed(original[q])
    /\ step' = [step EXCEPT ![q] = "next"]
    /\ UNCHANGED <<operatorVars, todo, target, original, readFrom, historyVars>>

Finish(q) ==
    /\ step[q] = "next"
    /\ todo[q] = {}
    /\ step' = [step EXCEPT ![q] = "idle"]
    /\ target' = [target EXCEPT ![q] = NoExchange]
    /\ original' = [original EXCEPT ![q] = NoExchange]
    /\ readFrom' = [readFrom EXCEPT ![q] = NothingRead]
    /\ clean' = [clean EXCEPT ![q] = {}]
    /\ UNCHANGED <<provider, operatorVars, todo, crossed>>

RequestStep(q) ==
    \/ Begin(q)
    \/ \E e \in Exchanges : SaveOriginal(q, e)
    \/ SwitchTo(q) \/ Fetch(q) \/ SwitchBack(q)
    \/ Finish(q)

Next ==
    \/ \E e \in Exchanges :
          SetExchange(e) \/ ConfigureExchange(e) \/ DeleteExchange(e)
    \/ \E q \in Requests : RequestStep(q)

Spec == Init /\ [][Next]_vars

-----------------------------------------------------------------------------
\* Whenever no request is in the middle of a visit, orders go to the exchange the
\* operator selected, however many walks take turns and whatever keys come and go,
\* until two visits overlap or the operator selects during one (GetAllBalances);
\* and selecting anew, between visits, ends the damage.
SwitchedBack == NoVisit /\ ~crossed /\ selected # NoExchange => provider = selected

\* The same of overlapping visits and selections. (TLC refutes it: a walk saves the
\* provider that another one had switched to, and goes back to it.)
AlwaysSwitchedBack == NoVisit /\ selected # NoExchange => provider = selected

\* The balances reported for an exchange were read from that exchange, if it had a
\* key and no other visit, selection or deletion came between (GetAllBalances).
OwnAccountRead ==
    \A q \in Requests : \A e \in clean[q] : readFrom[q][e] \in {e, NoExchange}

\* The same of every exchange with a key. (TLC refutes it: another walk switches,
\* or switches back, between the switch and GetBalances.)
AlwaysOwnAccount ==
    \A q \in Requests : \A e \in keys : readFrom[q][e] \in {e, NoExchange}

\* The end of a visit puts the provider back that its start found
\* (GetAllBalances, "Switch back").
SwitchBackRestores ==
    [][\A q \in Requests :
          step[q] = "fetched" /\ step'[q] = "next" => provider' = original[q]]_vars
=============================================================================
