------------------------------- MODULE Queue -------------------------------
(***************************************************************************)
(* The job queue of src/queue: a Redis stream with one consumer group      *)
(* (RedisStreamQueue) and the workers that consume it (Worker.run), each   *)
(* in a process of its own.  A Redis command is one step.                  *)
(*                                                                         *)
(* A message is its position in the stream.  What a worker was given stays *)
(* in the group's pending list until it is acknowledged; Receive first     *)
(* takes over a message that has been pending for pendingMinIdle, then     *)
(* reads a new one.                                                        *)
(***************************************************************************)
EXTENDS Integers

CONSTANTS
    Messages,       \* bound: messages ever put into the stream
    Malformed,      \* messages without a job id, from another producer
    Workers,
    NoWorker,       \* the owner of a message that is not pending
    MinIdle,        \* pendingMinIdle, in clock units
    PromptWorkers,  \* TRUE: a handler ends within MinIdle, other steps take no time
    MaxStops,       \* bound: calls of Worker.Stop
    MaxCrashes,     \* bound: crashes of a worker's process
    MaxFaults       \* bound: failed Redis commands

ASSUME MessagesAssumption == Messages \in Nat /\ Malformed \subseteq 1..Messages
ASSUME WorkersAssumption == NoWorker \notin Workers
ASSUME LimitsAssumption ==
    /\ MinIdle \in Nat \ {0}
    /\ PromptWorkers \in BOOLEAN
    /\ {MaxStops, MaxCrashes, MaxFaults} \subseteq Nat

VARIABLES
    added,      \* messages 1..added are in the stream
    group,      \* the consumer group exists
    read,       \* messages 1..read have been given out
    owner,      \* owner[m]: the pending list
    idle,       \* idle[m]: time since the message was last given out
    at,         \* at[w]: where Worker.run is
    job,        \* job[w]: the message in its hands, 0 for none
    held,       \* held[w]: how long it has had it, or has blocked in a read
    cancelled,  \* cancelled[w]: Stop cancelled the worker's context
    acked,      \* history: acknowledged messages
    successes,  \* history: successes[m]: how often a handler returned nil
    stops, crashes, faults

stream == <<added, group, read, owner, idle>>
worker == <<at, job, held, cancelled>>
counts == <<stops, crashes, faults>>
vars   == <<added, group, read, owner, idle, at, job, held, cancelled,
            acked, successes, stops, crashes, faults>>

Msgs   == 1..Messages
Places == {"ensure", "loop", "read", "handle", "ack", "gone", "dead"}

TypeOK ==
    /\ added \in 0..Messages
    /\ group \in BOOLEAN
    /\ read \in 0..added
    /\ owner \in [Msgs -> Workers \cup {NoWorker}]
    /\ idle \in [Msgs -> 0..MinIdle]
    /\ at \in [Workers -> Places]
    /\ job \in [Workers -> 0..added]
    /\ held \in [Workers -> 0..MinIdle]
    /\ cancelled \in [Workers -> BOOLEAN]
    /\ acked \subseteq 1..added
    /\ successes \in [Msgs -> Nat]
    /\ stops \in 0..MaxStops
    /\ crashes \in 0..MaxCrashes
    /\ faults \in 0..MaxFaults

Init ==
    /\ added = 0
    /\ group = FALSE
    /\ read = 0
    /\ owner = [m \in Msgs |-> NoWorker]
    /\ idle = [m \in Msgs |-> 0]
    /\ at = [w \in Workers |-> "ensure"]
    /\ job = [w \in Workers |-> 0]
    /\ held = [w \in Workers |-> 0]
    /\ cancelled = [w \in Workers |-> FALSE]
    /\ acked = {}
    /\ successes = [m \in Msgs |-> 0]
    /\ stops = 0
    /\ crashes = 0
    /\ faults = 0

-----------------------------------------------------------------------------
Goto(w, place) == at' = [at EXCEPT ![w] = place]

\* XADD, by Enqueue or, for a malformed message, by another program.
Enqueue ==
    /\ added < Messages
    /\ added' = added + 1
    /\ UNCHANGED <<group, read, owner, idle, worker, acked, successes, counts>>

\* Mutant: the group is created at the end of the stream ("$").
FirstUnreadAtEnd == added

\* XGROUP CREATE ... 0: a new group starts before the first message.
FirstUnread == 0

(* EnsureConsumerGroup.  BUSYGROUP, the answer for a group that exists, is *)
(* no error; any other error ends the worker.                              *)
Ensure(w) ==
    /\ at[w] = "ensure"
    /\ ~cancelled[w]
    /\ IF group
       THEN UNCHANGED <<group, read>>
       ELSE group' = TRUE /\ read' = FirstUnread
    /\ Goto(w, "loop")
    /\ UNCHANGED <<added, owner, idle, job, held, cancelled, acked, successes, counts>>

\* The context is done: the worker's loop returns.
Leave(w) ==
    /\ at[w] \in {"ensure", "loop"}
    /\ cancelled[w]
    /\ Goto(w, "gone")
    /\ UNCHANGED <<stream, job, held, cancelled, acked, successes, counts>>

-----------------------------------------------------------------------------
(* Receive *)

\* The group gives m to w: a pending entry, and a handler unless the job id
\* is missing, which is an error that leaves the entry pending.
Give(w, m) ==
    /\ owner' = [owner EXCEPT ![m] = w]
    /\ idle' = [idle EXCEPT ![m] = 0]
    /\ held' = [held EXCEPT ![w] = 0]
    /\ IF m \in Malformed
       THEN Goto(w, "loop") /\ UNCHANGED job
       ELSE Goto(w, "handle") /\ job' = [job EXCEPT ![w] = m]

\* Mutants: every pending message is reclaimed; none is.
ReclaimableNow   == {m \in Msgs : owner[m] # NoWorker}
ReclaimableNever == {}

Reclaimable == {m \in Msgs : owner[m] # NoWorker /\ idle[m] >= MinIdle}

\* claimPending: XAUTOCLAIM from the start of the pending list, COUNT 1.
ClaimPending(w) ==
    /\ at[w] = "loop"
    /\ ~cancelled[w]
    /\ \E m \in Reclaimable : (\A x \in Reclaimable : m <= x) /\ Give(w, m)
    /\ UNCHANGED <<added, group, read, cancelled, acked, successes, counts>>

NothingPending(w) ==
    /\ at[w] = "loop"
    /\ ~cancelled[w]
    /\ Reclaimable = {}
    /\ Goto(w, "read")
    /\ UNCHANGED <<stream, job, held, cancelled, acked, successes, counts>>

\* XREADGROUP ... > COUNT 1 BLOCK.  A command that is already blocked may
\* still return a message after the context is cancelled.
ReadNew(w) ==
    /\ at[w] = "read"
    /\ read < added
    /\ read' = read + 1
    /\ Give(w, read + 1)
    /\ UNCHANGED <<added, group, cancelled, acked, successes, counts>>

\* The worker has no message in its hands.
Drop(w) ==
    /\ job' = [job EXCEPT ![w] = 0]
    /\ held' = [held EXCEPT ![w] = 0]

\* ErrEmpty after the block time, which is at least one unit, or the error of
\* a cancelled context.
ReadNothing(w) ==
    /\ at[w] = "read"
    /\ (read = added /\ held[w] > 0) \/ cancelled[w]
    /\ Goto(w, "loop")
    /\ Drop(w)
    /\ UNCHANGED <<stream, cancelled, acked, successes, counts>>

-----------------------------------------------------------------------------
(* Handling and acknowledging *)

HandleOk(w) ==
    /\ at[w] = "handle"
    /\ successes' = [successes EXCEPT ![job[w]] = @ + 1]
    /\ Goto(w, "ack")
    /\ UNCHANGED <<stream, job, held, cancelled, acked, counts>>

\* Mutant: the message of a failed handler is acknowledged.
HandleErrAcked(w) ==
    /\ at[w] = "handle"
    /\ Goto(w, "ack")
    /\ UNCHANGED <<stream, job, held, cancelled, acked, successes, counts>>

\* The handler's error is logged; the message stays pending.
HandleErr(w) ==
    /\ at[w] = "handle"
    /\ Goto(w, "loop")
    /\ Drop(w)
    /\ UNCHANGED <<stream, cancelled, acked, successes, counts>>

\* XACK removes the pending entry, whoever owns it by now.
Ack(w) ==
    /\ at[w] = "ack"
    /\ ~cancelled[w]
    /\ owner' = [owner EXCEPT ![job[w]] = NoWorker]
    /\ idle' = [idle EXCEPT ![job[w]] = 0]
    /\ acked' = acked \cup {job[w]}
    /\ Goto(w, "loop")
    /\ Drop(w)
    /\ UNCHANGED <<added, group, read, cancelled, successes, counts>>

\* Ack runs under the worker's context: once that is cancelled, it fails.
AckRefused(w) ==
    /\ at[w] = "ack"
    /\ cancelled[w]
    /\ Goto(w, "loop")
    /\ Drop(w)
    /\ UNCHANGED <<stream, cancelled, acked, successes, counts>>

-----------------------------------------------------------------------------
(* Stop, failures and time *)

\* Stop cancels the context; it waits for the loop to return.
Stop(w) ==
    /\ stops < MaxStops
    /\ at[w] # "gone"
    /\ ~cancelled[w]
    /\ stops' = stops + 1
    /\ cancelled' = [cancelled EXCEPT ![w] = TRUE]
    /\ UNCHANGED <<stream, at, job, held, acked, successes, crashes, faults>>

\* The worker's process dies; a new one starts the worker again.
Crash(w) ==
    /\ at[w] \notin {"gone", "dead"}
    /\ crashes < MaxCrashes
    /\ crashes' = crashes + 1
    /\ Goto(w, "dead")
    /\ Drop(w)
    /\ UNCHANGED <<stream, cancelled, acked, successes, stops, faults>>

Restart(w) ==
    /\ at[w] = "dead"
    /\ Goto(w, "ensure")
    /\ cancelled' = [cancelled EXCEPT ![w] = FALSE]
    /\ UNCHANGED <<stream, job, held, acked, successes, counts>>

Fault == faults < MaxFaults /\ faults' = faults + 1

\* An error of EnsureConsumerGroup ends the worker for good.
EnsureFails(w) ==
    /\ at[w] = "ensure"
    /\ Fault
    /\ Goto(w, "gone")
    /\ UNCHANGED <<stream, job, held, cancelled, acked, successes, stops, crashes>>

\* Receive or Ack fails: the error is logged and the loop goes on.
CommandFails(w) ==
    /\ at[w] \in {"loop", "read", "ack"}
    /\ Fault
    /\ Goto(w, "loop")
    /\ Drop(w)
    /\ UNCHANGED <<stream, cancelled, acked, successes, stops, crashes>>

\* XREADGROUP gave out a message and its reply was lost.
ReplyLost(w) ==
    /\ at[w] = "read"
    /\ read < added
    /\ Fault
    /\ read' = read + 1
    /\ owner' = [owner EXCEPT ![read + 1] = w]
    /\ Goto(w, "loop")
    /\ Drop(w)
    /\ UNCHANGED <<added, group, idle, cancelled, acked, successes, stops, crashes>>

Older(age) == IF age < MinIdle THEN age + 1 ELSE age

Tick ==
    /\ PromptWorkers => \A w \in Workers :
          /\ at[w] \in {"handle", "read", "gone", "dead"}
          /\ at[w] = "handle" => held[w] + 1 < MinIdle
    /\ idle' = [m \in Msgs |-> IF owner[m] # NoWorker THEN Older(idle[m]) ELSE idle[m]]
    /\ held' = [w \in Workers |-> IF job[w] # 0 \/ at[w] = "read" THEN Older(held[w]) ELSE held[w]]
    /\ UNCHANGED <<added, group, read, owner, at, job, cancelled, acked, successes, counts>>

-----------------------------------------------------------------------------
\* One iteration of the loop, step by step.
Run(w) ==
    \/ Ensure(w)
    \/ Leave(w)
    \/ ClaimPending(w)
    \/ NothingPending(w)
    \/ ReadNew(w)
    \/ ReadNothing(w)
    \/ HandleOk(w)
    \/ HandleErr(w)
    \/ Ack(w)
    \/ AckRefused(w)

Next ==
    \/ Enqueue
    \/ Tick
    \/ \E w \in Workers :
          \/ Run(w)
          \/ Stop(w)
          \/ Crash(w)
          \/ Restart(w)
          \/ EnsureFails(w)
          \/ CommandFails(w)
          \/ ReplyLost(w)

Spec == Init /\ [][Next]_vars

\* A worker keeps running its loop, a dead process is started again, and time
\* passes.
FairSpec ==
    /\ Spec
    /\ WF_vars(Tick)
    /\ \A w \in Workers : WF_vars(Run(w)) /\ WF_vars(Restart(w))

-----------------------------------------------------------------------------
(* Properties *)

\* A message is acknowledged only after a handler succeeded with it.
AckedWasHandled == \A m \in acked : successes[m] > 0

\* A message that was given out and not acknowledged is pending, so that some
\* Receive can find it again: no failure, steal or stop loses a job.
NothingLost ==
    \A m \in 1..added : m > read \/ owner[m] # NoWorker \/ m \in acked

\* Two workers handle one message at the same time only if one of them has
\* had it for pendingMinIdle.
ExclusiveInTime ==
    \A w1, w2 \in Workers :
        w1 # w2 /\ job[w1] # 0 /\ job[w1] = job[w2] => MinIdle \in {held[w1], held[w2]}

\* With prompt handlers, each stop, crash or failed command repeats at most one
\* job that succeeded already: failed handlers and reclaims repeat none.
HandledOnce == \A m \in Msgs : successes[m] <= 1 + stops + crashes + faults

\* A message that is not acknowledged is always handed to a handler again, even
\* behind malformed messages and failing jobs.
NeverStuck ==
    \A m \in Msgs \ Malformed :
        m <= added ~> m \in acked \/ \E w \in Workers : at[w] = "handle" /\ job[w] = m
=============================================================================
