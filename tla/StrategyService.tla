---------------------------- MODULE StrategyService ----------------------------
(***************************************************************************)
(* The life of the strategy service: the lifespan starts and stops its     *)
(* background tasks, a market scan every few minutes announces gates,      *)
(* milestones and alerts and saves in Redis what it has announced, and the *)
(* webhook notifier sends the messages of all tasks from one bounded       *)
(* queue, on which a task with a message waits when it is full.  Without a *)
(* webhook in its environment the notifier takes every message and drops   *)
(* it at once.                                                             *)
(***************************************************************************)
EXTENDS Integers, Sequences, FiniteSets, SequencesExt

CONSTANTS
    Thresholds,     \* sequence of the milestone thresholds
    Growths,        \* signals one scan may log
    Verdicts,       \* whether the live metrics pass the signal gate
    AlertCounts,    \* high-severity alerts of one scan
    MaxSpam, QueueLimit, MaxAlerts, MaxRuns, MaxScans

VARIABLES
    svcPhase,       \* down, starting, up, stopping
    tasks,          \* background tasks that run
    hasRedis,       \* this run reached Redis at startup
    enabled,        \* this run has a webhook
    stopping,       \* what the shutdown has still to stop
    persisted,      \* in Redis: [milestones, gate]
    notified,       \* in memory: [milestones, gate]
    pc,             \* of the scan: rest, load, talk, save, alert
    todo,           \* messages the scan has still to announce
    waiting,        \* task -> the message it waits to put, or none
    queue,          \* of the notifier
    sending,        \* the message the worker has taken, or none
    spoken,         \* history: messages ever put in the queue
    muted,          \* history: milestones reached by a run without a webhook
    total,          \* signals logged
    alerts,         \* _market_alerts kept
    runs, scans

svcVars == <<svcPhase, tasks, hasRedis, enabled, stopping, persisted, notified, pc, todo, waiting,
             queue, sending, spoken, muted, total, alerts, runs, scans>>

Nothing == [milestones |-> {}, gate |-> "unknown"]
Silence == [kind |-> "none", n |-> 0]
Milestone(n) == [kind |-> "milestone", n |-> n]
GateNews(status) == [kind |-> status, n |-> 0]
EvaluationNews == [kind |-> "evaluation", n |-> 0]
AlertNews == [kind |-> "alert", n |-> 0]
SummaryNews == [kind |-> "summary", n |-> 0]
BotNews == [kind |-> "bot", n |-> 0]

Background == {"paper", "real", "notifier", "feed", "scan"}
ShutdownOrder == <<"notifier", "real", "scan", "feed">>

SvcInit ==
    /\ svcPhase = "down" /\ tasks = {} /\ hasRedis = FALSE /\ enabled = FALSE /\ stopping = <<>>
    /\ persisted = Nothing /\ notified = Nothing
    /\ pc = "rest" /\ todo = <<>>
    /\ waiting = [t \in {"real", "scan"} |-> Silence]
    /\ queue = <<>> /\ sending = Silence /\ spoken = {} /\ muted = {}
    /\ total = 0 /\ alerts = 0 /\ runs = 0 /\ scans = 0

-----------------------------------------------------------------------------
(***************************************************************************)
(* lifespan.                                                               *)
(***************************************************************************)
\* Everything in memory is new; the notifier starts after the bots.
Startup ==
    /\ svcPhase = "down" /\ runs < MaxRuns
    /\ hasRedis' \in BOOLEAN /\ enabled' \in BOOLEAN
    /\ svcPhase' = "starting" /\ tasks' = {"paper", "real"}
    /\ notified' = Nothing /\ pc' = "load" /\ todo' = <<>>
    /\ waiting' = [t \in DOMAIN waiting |-> Silence]
    /\ queue' = <<>> /\ sending' = Silence /\ alerts' = 0
    /\ runs' = runs + 1
    /\ UNCHANGED <<stopping, persisted, spoken, muted, total, scans>>

StartTasks ==
    /\ svcPhase = "starting"
    /\ svcPhase' = "up" /\ tasks' = IF enabled THEN Background ELSE Background \ {"notifier"}
    /\ UNCHANGED <<hasRedis, enabled, stopping, persisted, notified, pc, todo, waiting, queue, sending,
                   spoken, muted, total, alerts, runs, scans>>

Shutdown ==
    /\ svcPhase = "up"
    /\ svcPhase' = "stopping" /\ stopping' = ShutdownOrder
    /\ UNCHANGED <<tasks, hasRedis, enabled, persisted, notified, pc, todo, waiting, queue, sending,
                   spoken, muted, total, alerts, runs, scans>>

\* One task is cancelled and awaited; the others go on until their turn.
StopTask ==
    /\ svcPhase = "stopping" /\ stopping # <<>>
    /\ tasks' = tasks \ {Head(stopping)} /\ stopping' = Tail(stopping)
    /\ sending' = IF Head(stopping) = "notifier" THEN Silence ELSE sending
    /\ waiting' = [t \in DOMAIN waiting |-> IF t = Head(stopping) THEN Silence ELSE waiting[t]]
    /\ pc' = IF Head(stopping) = "scan" THEN "rest" ELSE pc
    /\ todo' = IF Head(stopping) = "scan" THEN <<>> ELSE todo
    /\ UNCHANGED <<svcPhase, hasRedis, enabled, persisted, notified, queue, spoken, muted, total, alerts, runs, scans>>

\* The lifespan has returned, or the process died.
Ends ==
    /\ \/ svcPhase = "stopping" /\ stopping = <<>>
       \/ svcPhase \in {"starting", "up", "stopping"} /\ runs < MaxRuns
    /\ svcPhase' = "down" /\ tasks' = {} /\ stopping' = <<>>
    /\ pc' = "rest" /\ todo' = <<>> /\ waiting' = [t \in DOMAIN waiting |-> Silence]
    /\ queue' = <<>> /\ sending' = Silence
    /\ UNCHANGED <<hasRedis, enabled, persisted, notified, spoken, muted, total, alerts, runs, scans>>

-----------------------------------------------------------------------------
(***************************************************************************)
(* _background_market_scan.                                                *)
(***************************************************************************)
Scanning(at) == "scan" \in tasks /\ pc = at

\* Without Redis, or when its read fails, nothing is known to be announced.
LoadNotificationState ==
    /\ Scanning("load")
    /\ notified' \in (IF hasRedis THEN {persisted, [persisted EXCEPT !.gate = "unknown"], Nothing}
                      ELSE {Nothing})
    /\ pc' = "rest"
    /\ UNCHANGED <<svcPhase, tasks, hasRedis, enabled, stopping, persisted, todo, waiting, queue, sending,
                   spoken, muted, total, alerts, runs, scans>>

GateStatus(count, passes) == IF count = 0 THEN "locked" ELSE IF passes THEN "passed" ELSE "waiting"

\* A first status is taken in silence, a change is announced.
GateMessages(status) ==
    IF notified.gate \in {"unknown", status} THEN <<>> ELSE <<GateNews(status)>>

\* The loop over the thresholds; each is looked at when its turn comes.
MilestoneMessages == [k \in DOMAIN Thresholds |-> Milestone(Thresholds[k])]
Due(message) ==
    message.kind = "milestone" => message.n <= total /\ message.n \notin notified.milestones

\* A message counts as said in one of two ways: a milestone before it is put, a
\* gate's status once its message is in the queue.
Noted(message) ==
    IF message.kind = "milestone" THEN [notified EXCEPT !.milestones = @ \cup {message.n}]
    ELSE IF message.kind \in {"locked", "waiting", "passed"} THEN [notified EXCEPT !.gate = message.kind]
    ELSE notified

\* Every send_... of the notifier: without a webhook it returns at once.
Offer(t, message) == waiting' = IF enabled THEN [waiting EXCEPT ![t] = message] ELSE waiting

\* The sources are read, signals are logged and judged.  Where the statistics
\* cannot be read neither gate nor milestones are looked at; the save comes anyway.
Scan ==
    /\ Scanning("rest") /\ scans < MaxScans
    /\ scans' = scans + 1
    /\ \E grown \in Growths, evaluated \in {<<>>, <<EvaluationNews>>} :
         /\ total' = total + grown
         /\ \/ todo' = evaluated /\ UNCHANGED notified
            \/ \E passes \in Verdicts :
                 LET status == GateStatus(total', passes)
                     news == GateMessages(status)
                 IN  /\ todo' = evaluated \o news \o MilestoneMessages
                     /\ notified' = IF news = <<>> THEN [notified EXCEPT !.gate = status] ELSE notified
    /\ pc' = "talk"
    /\ UNCHANGED <<svcPhase, tasks, hasRedis, enabled, stopping, persisted, waiting, queue, sending,
                   spoken, muted, alerts, runs>>

\* The sources cannot be read, or an error comes after some signals were logged:
\* nothing is announced or saved; in the second case the alerts of the scan are kept.
ScanFails ==
    /\ Scanning("rest") /\ scans < MaxScans
    /\ scans' = scans + 1
    /\ \/ UNCHANGED <<total, pc>>
       \/ pc' = "alert" /\ \E grown \in Growths : total' = total + grown
    /\ UNCHANGED <<svcPhase, tasks, hasRedis, enabled, stopping, persisted, notified, todo, waiting,
                   queue, sending, spoken, muted, alerts, runs>>

\* The next message of the scan.
Announce ==
    /\ Scanning("talk") /\ todo # <<>> /\ waiting["scan"] = Silence /\ Due(Head(todo))
    /\ Offer("scan", Head(todo))
    /\ todo' = Tail(todo)
    /\ notified' = IF enabled /\ Head(todo).kind # "milestone" THEN notified ELSE Noted(Head(todo))
    /\ muted' = IF ~enabled /\ Head(todo).kind = "milestone" THEN muted \cup {Head(todo).n} ELSE muted
    /\ UNCHANGED <<svcPhase, tasks, hasRedis, enabled, stopping, persisted, pc, queue, sending, spoken,
                   total, alerts, runs, scans>>

PassOver ==
    /\ Scanning("talk") /\ todo # <<>> /\ waiting["scan"] = Silence /\ ~Due(Head(todo))
    /\ todo' = Tail(todo)
    /\ UNCHANGED <<svcPhase, tasks, hasRedis, enabled, stopping, persisted, notified, pc, waiting, queue,
                   sending, spoken, muted, total, alerts, runs, scans>>

Announced ==
    /\ Scanning("talk") /\ todo = <<>> /\ waiting["scan"] = Silence
    /\ pc' = "save"
    /\ UNCHANGED <<svcPhase, tasks, hasRedis, enabled, stopping, persisted, notified, todo, waiting, queue, sending,
                   spoken, muted, total, alerts, runs, scans>>

\* Two writes; an error of either is logged.
SaveNotificationState ==
    /\ Scanning("save")
    /\ persisted' \in (IF hasRedis
                       THEN {persisted, [persisted EXCEPT !.milestones = notified.milestones], notified}
                       ELSE {persisted})
    /\ pc' = "alert"
    /\ UNCHANGED <<svcPhase, tasks, hasRedis, enabled, stopping, notified, todo, waiting, queue, sending, spoken, muted,
                   total, alerts, runs, scans>>

\* The high-severity alerts are kept, the first few of them announced, and with
\* them a summary of the scan.
KeepAlerts ==
    /\ Scanning("alert") /\ todo = <<>> /\ waiting["scan"] = Silence
    /\ \E n \in AlertCounts :
         /\ alerts' = IF alerts + n > MaxAlerts THEN MaxAlerts ELSE alerts + n
         /\ todo' = IF n = 0 THEN <<>>
                    ELSE [k \in 1 .. (IF n > MaxSpam THEN MaxSpam ELSE n) |-> AlertNews] \o <<SummaryNews>>
    /\ pc' = "spam"
    /\ UNCHANGED <<svcPhase, tasks, hasRedis, enabled, stopping, persisted, notified, waiting, queue, sending,
                   spoken, muted, total, runs, scans>>

SendAlert ==
    /\ Scanning("spam") /\ waiting["scan"] = Silence
    /\ IF todo = <<>> THEN pc' = "rest" /\ UNCHANGED <<todo, waiting>>
       ELSE Offer("scan", Head(todo)) /\ todo' = Tail(todo) /\ UNCHANGED pc
    /\ UNCHANGED <<svcPhase, tasks, hasRedis, enabled, stopping, persisted, notified, queue, sending, spoken, muted,
                   total, alerts, runs, scans>>

-----------------------------------------------------------------------------
(***************************************************************************)
(* WebhookNotifier.                                                        *)
(***************************************************************************)
\* A fill, a kill switch or a daily summary of the real grid bot.
BotReports ==
    /\ "real" \in tasks /\ waiting["real"] = Silence /\ enabled
    /\ Offer("real", BotNews)
    /\ UNCHANGED <<svcPhase, tasks, hasRedis, enabled, stopping, persisted, notified, pc, todo, queue, sending,
                   spoken, muted, total, alerts, runs, scans>>

\* await queue.put(text): only where there is room.
Put(t) ==
    /\ t \in tasks /\ waiting[t] # Silence /\ Len(queue) < QueueLimit
    /\ queue' = Append(queue, waiting[t])
    /\ spoken' = spoken \cup {waiting[t]}
    /\ notified' = IF waiting[t].kind = "milestone" THEN notified ELSE Noted(waiting[t])
    /\ waiting' = [waiting EXCEPT ![t] = Silence]
    /\ UNCHANGED <<svcPhase, tasks, hasRedis, enabled, stopping, persisted, pc, todo, sending, muted, total,
                   alerts, runs, scans>>

WorkerTakes ==
    /\ "notifier" \in tasks /\ sending = Silence /\ queue # <<>>
    /\ sending' = Head(queue) /\ queue' = Tail(queue)
    /\ UNCHANGED <<svcPhase, tasks, hasRedis, enabled, stopping, persisted, notified, pc, todo, waiting, spoken, muted,
                   total, alerts, runs, scans>>

\* Sent, or failed and logged: the message is gone in both cases.
WorkerSends ==
    /\ "notifier" \in tasks /\ sending # Silence
    /\ sending' = Silence
    /\ UNCHANGED <<svcPhase, tasks, hasRedis, enabled, stopping, persisted, notified, pc, todo, waiting, queue,
                   spoken, muted, total, alerts, runs, scans>>

SvcNext ==
    \/ Startup \/ StartTasks \/ Shutdown \/ StopTask \/ Ends
    \/ LoadNotificationState \/ Scan \/ ScanFails \/ Announce \/ PassOver \/ Announced
    \/ SaveNotificationState
    \/ KeepAlerts \/ SendAlert \/ BotReports
    \/ \E t \in {"real", "scan"} : Put(t)
    \/ WorkerTakes \/ WorkerSends

-----------------------------------------------------------------------------
SvcTypeOK ==
    /\ tasks \subseteq Background
    /\ svcPhase \in {"down", "starting", "up", "stopping"}
    /\ pc \in {"rest", "load", "talk", "save", "alert", "spam"}
    /\ Len(queue) <= QueueLimit /\ alerts <= MaxAlerts

\* A milestone that Redis holds as announced was put in the notifier's queue by
\* some run, whatever full queue, crash or shutdown came between, or was reached
\* by a run that had no webhook; and when the shutdown has stopped everything on
\* its list, no task with real orders runs.
AnnouncementsAreSaved ==
    /\ \A n \in persisted.milestones : Milestone(n) \in spoken \/ n \in muted
    /\ svcPhase = "stopping" /\ stopping = <<>> => tasks \subseteq {"paper"}

\* "Track which milestones we've already notified": what Redis holds was put in a queue.
MilestonesAreTold == \A n \in persisted.milestones : Milestone(n) \in spoken
=============================================================================
