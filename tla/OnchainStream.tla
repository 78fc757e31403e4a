---------------------------- MODULE OnchainStream ----------------------------
(***************************************************************************)
(* The stream of on-chain notifications: one connection that lands each    *)
(* frame and alerts its consumer, enrichment tasks that run beside it, a   *)
(* retry of what is incomplete on an idle connection, a bounded backfill   *)
(* after each connect, and a checkpoint that a restart reloads.            *)
(*                                                                         *)
(* A signature's slot is its own number: signatures are ordered by slot.   *)
(* Every await is a point where the tasks, the retry and the chain         *)
(* interleave; the code between two awaits is one step.                    *)
(***************************************************************************)
EXTENDS Naturals, FiniteSets, Functions, FiniteSetsExt

CONSTANTS
    Signatures,      \* 1 .. n, in slot order
    Hinted,          \* those whose logs classify: alerted before enrichment
    PendingLimit,    \* entries kept in a checkpoint (200)
    BackfillLimit,   \* signatures asked for after a connect
    Disconnects      \* bound: connections lost, restarts included

VARIABLES
    onChain,    \* signatures confirmed by the chain
    notified,   \* frames the provider has sent
    landed,     \* frames of which raw evidence is in the lake
    memory,     \* [seen, pending, lastSlot] of the process
    checkpoint, \* the same, on disk
    worker,     \* what the connection is awaiting
    tasks,      \* enrichment tasks awaiting their transaction
    alerted,    \* signatures whose preliminary event was dispatched
    completed,  \* how often a signature's complete events were dispatched
    failures    \* connections lost

streamVars == <<onChain, notified, landed, memory, checkpoint, worker, tasks, alerted,
                completed, failures>>

Fresh == [seen |-> {}, pending |-> {}, lastSlot |-> 0]
Closed == [at |-> "closed"]
Listening == [at |-> "listening"]

StreamInit ==
    /\ onChain = {} /\ notified = {} /\ landed = {}
    /\ memory = Fresh /\ checkpoint = Fresh
    /\ worker = Closed /\ tasks = {}
    /\ alerted = {} /\ completed = [s \in Signatures |-> 0] /\ failures = 0

StreamTypeOK ==
    /\ notified \subseteq onChain /\ onChain \subseteq Signatures
    /\ landed \subseteq notified /\ alerted \subseteq Signatures
    /\ \A m \in {memory, checkpoint} : /\ m.seen \cup m.pending \subseteq Signatures
                                       /\ m.lastSlot \in {0} \cup Signatures
    /\ worker.at \in {"closed", "listening", "backfill", "process", "retry"}
    /\ tasks \subseteq Hinted

-----------------------------------------------------------------------------
Later(a, b) == IF a > b THEN a ELSE b

\* _save_checkpoint: atomic, and at most PendingLimit pending signatures.
Saved(m) == {[m EXCEPT !.pending = p] :
                p \in {q \in SUBSET m.pending :
                         Cardinality(q) = (IF Cardinality(m.pending) <= PendingLimit
                                           THEN Cardinality(m.pending) ELSE PendingLimit)}}

Save(m) == memory' = m /\ checkpoint' \in Saved(m)

Done(m, s) == [m EXCEPT !.seen = @ \cup {s}, !.pending = @ \ {s},
                        !.lastSlot = Later(@, s)]
Waits(m, s) == [m EXCEPT !.pending = @ \cup {s}, !.lastSlot = Later(@, s)]

-----------------------------------------------------------------------------
Confirm(s) ==
    /\ s \notin onChain
    /\ \A t \in Signatures : t < s => t \in onChain
    /\ onChain' = onChain \cup {s}
    /\ UNCHANGED <<notified, landed, memory, checkpoint, worker, tasks, alerted, completed, failures>>

\* _consume_connection up to the loop: subscribe, then read what the program's
\* address did since the last slot of the checkpoint.
Connect ==
    /\ worker = Closed
    /\ worker' = [at |-> "backfill",
                  queue |-> {s \in onChain : /\ s > memory.lastSlot
                                             /\ Cardinality({t \in onChain : t > s}) < BackfillLimit}]
    /\ UNCHANGED <<onChain, notified, landed, memory, checkpoint, tasks, alerted, completed, failures>>

\* _process_signature's guard, for the next signature of the backfill: no frame
\* is landed for it.
BackfillNext ==
    /\ worker.at = "backfill"
    /\ worker' = IF worker.queue = {} THEN Listening
                 ELSE LET s == Min(worker.queue) IN
                      IF s \in memory.seen
                      THEN [worker EXCEPT !.queue = @ \ {s}]
                      ELSE [at |-> "process", sig |-> s, hint |-> FALSE, queue |-> worker.queue \ {s}]
    /\ UNCHANGED <<onChain, notified, landed, memory, checkpoint, tasks, alerted, completed, failures>>

\* The queue failed, or could not be read: the connection goes on without it.
BackfillFails ==
    /\ worker.at \in {"backfill", "process"} /\ worker.at = "process" => ~worker.hint
    /\ worker' = Listening
    /\ UNCHANGED <<onChain, notified, landed, memory, checkpoint, tasks, alerted, completed, failures>>

\* A frame arrives: it is landed, or the connection is dropped.
Notified(s) == /\ worker.at = "listening"
               /\ s \in onChain \ notified
               /\ notified' = notified \cup {s}

\* Logs that classify: alert at once, enrich in a task.
Alert(s) ==
    /\ Notified(s) /\ s \in Hinted
    /\ landed' = landed \cup {s}
    /\ alerted' = alerted \cup {s}
    /\ tasks' = IF s \in memory.seen THEN tasks ELSE tasks \cup {s}
    /\ Save(Waits(memory, s))
    /\ UNCHANGED <<onChain, worker, completed, failures>>

\* A failed transaction is evidence only.
Failed(s) ==
    /\ Notified(s)
    /\ landed' = landed \cup {s}
    /\ Save(Done(memory, s))
    /\ UNCHANGED <<onChain, worker, tasks, alerted, completed, failures>>

\* Logs that do not classify: the connection itself reads the transaction.
Unhinted(s) ==
    /\ Notified(s) /\ s \notin Hinted
    /\ landed' = landed \cup {s}
    /\ worker' = IF s \in memory.seen THEN worker
                 ELSE [at |-> "process", sig |-> s, hint |-> TRUE, queue |-> {}]
    /\ UNCHANGED <<onChain, memory, checkpoint, tasks, alerted, completed, failures>>

\* The lake refuses the frame, or the consumer the alert: nothing of it is kept,
\* and the provider will not send it again.
Refused(s) ==
    /\ Notified(s) /\ failures < Disconnects
    /\ failures' = failures + 1
    /\ worker' = Closed
    /\ landed' \in {landed, landed \cup {s}}
    /\ UNCHANGED <<onChain, memory, checkpoint, tasks, alerted, completed>>

-----------------------------------------------------------------------------
(***************************************************************************)
(* _fetch_events: the events of the transaction, those its logs hint, or   *)
(* none: a transaction the node cannot give and logs that do not classify. *)
(***************************************************************************)
Outcomes == {"complete", "hint", "nothing"}

Dispatched(s) == completed' = [completed EXCEPT ![s] = IF @ < 2 THEN @ + 1 ELSE @]

\* The rest of _process_signature.  Its caller is the connection (initial) or a
\* task; only the former dispatches what is incomplete.
Processed(s, outcome, initial) ==
    /\ IF outcome = "complete" THEN Dispatched(s) ELSE UNCHANGED completed
    /\ alerted' = IF outcome = "hint" /\ initial THEN alerted \cup {s} ELSE alerted
    /\ Save(IF outcome = "hint" THEN Waits(memory, s) ELSE Done(memory, s))

Process ==
    /\ worker.at = "process"
    /\ \E outcome \in Outcomes : Processed(worker.sig, outcome, TRUE)
    /\ worker' = IF worker.hint THEN Listening ELSE [at |-> "backfill", queue |-> worker.queue]
    /\ UNCHANGED <<onChain, notified, landed, tasks, failures>>

Enrich(s) ==
    /\ s \in tasks
    /\ tasks' = tasks \ {s}
    /\ \E outcome \in Outcomes : Processed(s, outcome, FALSE)
    /\ UNCHANGED <<onChain, notified, landed, worker, failures>>

\* _retry_pending, on an idle connection: it awaits each transaction in turn.
Retry ==
    /\ worker.at = "listening"
    /\ memory.pending # {}
    /\ worker' = [at |-> "retry", queue |-> memory.pending]
    /\ UNCHANGED <<onChain, notified, landed, memory, checkpoint, tasks, alerted, completed, failures>>
\* Fault: a retry that does not get its transaction was the last one.
RetryOneGivesUp(s) ==
    /\ worker.at = "retry" /\ s \in worker.queue
    /\ worker' = IF worker.queue = {s} THEN Listening ELSE [worker EXCEPT !.queue = @ \ {s}]
    /\ \/ Dispatched(s) /\ Save([Done(memory, s) EXCEPT !.lastSlot = memory.lastSlot])
       \/ UNCHANGED completed /\ Save([memory EXCEPT !.pending = @ \ {s}])
    /\ UNCHANGED <<onChain, notified, landed, tasks, alerted, failures>>

RetryOne(s) ==
    /\ worker.at = "retry" /\ s \in worker.queue
    /\ worker' = IF worker.queue = {s} THEN Listening ELSE [worker EXCEPT !.queue = @ \ {s}]
    /\ \/ Dispatched(s) /\ Save([Done(memory, s) EXCEPT !.lastSlot = memory.lastSlot])
       \/ UNCHANGED <<completed, memory, checkpoint>>
    /\ UNCHANGED <<onChain, notified, landed, tasks, alerted, failures>>

\* The connection is lost; the tasks go on.
Disconnect ==
    /\ worker # Closed /\ failures < Disconnects
    /\ worker' = Closed
    /\ failures' = failures + 1
    /\ UNCHANGED <<onChain, notified, landed, memory, checkpoint, tasks, alerted, completed>>

\* The process is restarted: _load_checkpoint.
Restart ==
    /\ failures < Disconnects
    /\ failures' = failures + 1
    /\ worker' = Closed /\ tasks' = {}
    /\ memory' = checkpoint
    /\ UNCHANGED <<onChain, notified, landed, checkpoint, alerted, completed>>

StreamNext ==
    \/ \E s \in Signatures : \/ Confirm(s) \/ Alert(s) \/ Failed(s) \/ Unhinted(s)
                             \/ Refused(s) \/ Enrich(s) \/ RetryOne(s)
    \/ Connect \/ BackfillNext \/ BackfillFails \/ Process \/ Retry \/ Disconnect \/ Restart

StreamSpec == StreamInit /\ [][StreamNext]_streamVars

-----------------------------------------------------------------------------
\* A signature the checkpoint holds as pending, alerted before its transaction
\* could be read, leaves the pending ones only as seen, whatever retries,
\* disconnects and restarts from the checkpoint come between.
OwedStep == \A s \in checkpoint.pending : s \in checkpoint'.pending \cup checkpoint'.seen
AlertOwed == [][OwedStep]_streamVars

\* "Do not dispatch a source event without its configured lake evidence."
EvidenceFirst == \A s \in Signatures : s \in alerted \/ completed[s] > 0 => s \in landed
=============================================================================
