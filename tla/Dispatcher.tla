------------------------------ MODULE Dispatcher ------------------------------
(***************************************************************************)
(* src/event/worker.go: the loop that dispatches a batch at every tick,    *)
(* its start and its end, and the alarm about the backlog.                 *)
(***************************************************************************)
EXTENDS Naturals, Sequences

CONSTANTS
    AlertInterval, AgeThreshold,    \* one minute, five minutes
    MaxMinute                       \* bound of the clock

ASSUME DispatcherAssumption == AlertInterval \in Nat \ {0} /\ AgeThreshold \in Nat \ {0}

VARIABLES
    starter,    \* startOnce: "fresh", "made" (cancel stored), "done"
    stopper,    \* stopOnce: "fresh", "waiting", "done"
    cancelable, \* Stop found a cancel function
    cancelled,  \* ctx.Err() # nil
    loop,       \* run: "none", "select", "dispatch", "observe", "ended"
    backlog,    \* Failed or DeadLetter > 0, and when the oldest event came
    lastAlert,  \* 0 for none
    alerts,     \* times of the warnings
    minute

workerVars == <<starter, stopper, cancelable, cancelled, loop, backlog, lastAlert, alerts, minute>>

DispatcherInit ==
    /\ starter = "fresh" /\ stopper = "fresh" /\ cancelable = FALSE /\ cancelled = FALSE
    /\ loop = "none" /\ backlog = [failed |-> FALSE, oldest |-> 0]
    /\ lastAlert = 0 /\ alerts = <<>> /\ minute = 1

\* Start stores the cancel function, and then counts and starts the loop.
Start ==
    /\ \/ starter = "fresh" /\ starter' = "made" /\ UNCHANGED loop
       \/ starter = "made" /\ starter' = "done" /\ loop' = "select"
    /\ UNCHANGED <<stopper, cancelable, cancelled, backlog, lastAlert, alerts, minute>>

\* Mutant: Stop cancels and does not wait.
StopAtOnce ==
    /\ stopper = "fresh" /\ stopper' = "done"
    /\ cancelable' = (starter # "fresh") /\ cancelled' = (cancelled \/ cancelable')
    /\ UNCHANGED <<starter, loop, backlog, lastAlert, alerts, minute>>

\* Stop cancels what has been started and waits for the loop; before a Start
\* it does nothing, and is used up.
Stop ==
    /\ \/ /\ stopper = "fresh" /\ stopper' = "waiting"
          /\ cancelable' = (starter # "fresh") /\ cancelled' = (cancelled \/ cancelable')
       \/ /\ stopper = "waiting" /\ loop \in {"none", "ended"} /\ stopper' = "done"
          /\ UNCHANGED <<cancelable, cancelled>>
    /\ UNCHANGED <<starter, loop, backlog, lastAlert, alerts, minute>>

ParentCancels == /\ ~cancelled /\ starter # "fresh" /\ cancelled' = TRUE
                 /\ UNCHANGED <<starter, stopper, cancelable, loop, backlog, lastAlert, alerts,
                                minute>>

\* run: of a tick and a cancellation that are both there either may be chosen.
Run ==
    /\ loop = "select"
    /\ \/ cancelled /\ loop' = "ended"
       \/ ~cancelled /\ loop' = "dispatch"
       \/ cancelled /\ UNCHANGED loop       \* dispatchAvailable returns at once
    /\ UNCHANGED <<starter, stopper, cancelable, cancelled, backlog, lastAlert, alerts, minute>>

\* dispatchAvailable: a batch, which may fail; then the backlog is looked at.
DispatchAvailable ==
    /\ loop = "dispatch" /\ loop' = "observe"
    /\ backlog' \in {backlog, [failed |-> TRUE, oldest |-> minute],
                    [failed |-> FALSE, oldest |-> 0]}
    /\ UNCHANGED <<starter, stopper, cancelable, cancelled, lastAlert, alerts, minute>>

BacklogRequiresAlert ==
    \/ backlog.failed
    \/ backlog.oldest # 0 /\ minute - backlog.oldest >= AgeThreshold
Throttled == lastAlert # 0 /\ minute - lastAlert < AlertInterval

ObserveBacklog ==
    /\ loop = "observe" /\ loop' = "select"
    /\ \/ /\ ~cancelled /\ BacklogRequiresAlert /\ ~Throttled
          /\ lastAlert' = minute /\ alerts' = Append(alerts, <<minute, backlog>>)
       \/ UNCHANGED <<lastAlert, alerts>>   \* nothing to say, or the query failed
    /\ UNCHANGED <<starter, stopper, cancelable, cancelled, backlog, minute>>

\* Others write to the outbox, and time passes.
Arrive == /\ backlog.oldest = 0 /\ backlog' = [backlog EXCEPT !.oldest = minute]
          /\ UNCHANGED <<starter, stopper, cancelable, cancelled, loop, lastAlert, alerts, minute>>
Minute == /\ minute < MaxMinute /\ minute' = minute + 1
          /\ UNCHANGED <<starter, stopper, cancelable, cancelled, loop, backlog, lastAlert, alerts>>

DispatcherNext ==
    \/ Start \/ Stop \/ ParentCancels \/ Run \/ DispatchAvailable \/ ObserveBacklog
    \/ Arrive \/ Minute

-----------------------------------------------------------------------------
\* After a Stop that came after the start no batch runs any more, nor is the
\* alarm still raised; alarms keep their distance, and none is about nothing
\* (src/event/worker.go:57, 108).
DispatcherHolds ==
    /\ stopper = "done" /\ cancelable => loop \notin {"dispatch", "observe"}
    /\ \A i, j \in DOMAIN alerts : i < j => alerts[j][1] - alerts[i][1] >= AlertInterval
    /\ \A i \in DOMAIN alerts :
        \/ alerts[i][2].failed
        \/ alerts[i][2].oldest # 0 /\ alerts[i][1] - alerts[i][2].oldest >= AgeThreshold
=============================================================================
