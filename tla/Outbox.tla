------------------------------- MODULE Outbox -------------------------------
(***************************************************************************)
(* The transactional outbox of src/event: the rows of OutboxEvent and the  *)
(* dispatchers that claim them in batches, hand them to a Publisher and    *)
(* record the outcome (Service.DispatchBatch, Repository.ClaimBatch,       *)
(* MarkPublished, MarkFailed).  Several processes each run one Worker, so  *)
(* several dispatchers work on the same table.                             *)
(*                                                                         *)
(* A statement of the code is one step.  ClaimBatch is two: the locking    *)
(* SELECT and the UPDATEs with the commit, with the row locks held in      *)
(* between.  Publisher.Publish is two as well, its call and its return,    *)
(* because it may outlive the lock.                                        *)
(*                                                                         *)
(* Time is relative: due[e] is available_at minus the clock, lockAge[e]    *)
(* the clock minus locked_at, elapsed[d] the clock minus the "now" that    *)
(* DispatchBatch reads once at its start.  All three saturate, so the      *)
(* clock itself needs no bound.                                            *)
(***************************************************************************)
EXTENDS Integers, FiniteSets

CONSTANTS
    Events,         \* ids of outbox rows, in the order of the primary key
    Dispatchers,    \* one Worker each, in different processes
    NoOne,          \* the empty lock_token, no row lock, no current event
    MaxAttempts,    \* MaxAttempts[e]: the row's max_attempts
    BatchSize,      \* events claimed by one batch at most
    LockTimeout,    \* the lockTimeout of service.go, in clock units
    FirstDue,       \* values of AppendInput.OccurredAt, relative to the clock
    PromptBatches,  \* TRUE: no batch outlives LockTimeout
    Horizon,        \* bound: an event is at most this long overdue
    AgeCap,         \* bound: ages saturate here
    MaxInterrupts   \* bound: crashes, Stops and failed statements

\* retryDelay's 1 << (attempt-1) seconds for the attempts 1..10 it clamps to.
Backoff == <<1, 2, 4, 8, 16, 32, 64, 128, 256, 512>>

RetryDelay(attempt) ==
    LET clamped == IF attempt < 1 THEN 1 ELSE IF attempt > 10 THEN 10 ELSE attempt
        delay   == Backoff[clamped]
    IN  IF delay > 3600 THEN 3600 ELSE delay

ASSUME EventsAssumption == Events \subseteq Nat /\ IsFiniteSet(Events)
ASSUME DispatchersAssumption == NoOne \notin Dispatchers /\ NoOne \notin Events
ASSUME AttemptsAssumption == MaxAttempts \in [Events -> Nat \ {0}]
ASSUME TimingAssumption ==
    /\ BatchSize \in Nat \ {0}
    /\ LockTimeout \in Nat \ {0}
    /\ FirstDue \subseteq Int
    /\ PromptBatches \in BOOLEAN
    /\ Horizon \in Nat
    /\ AgeCap \in Nat
    /\ AgeCap > LockTimeout
    /\ MaxInterrupts \in Nat

\* Saturated ages still tell every retry delay from an overdue event.
ASSUME SaturationAssumption ==
    \A e \in Events : MaxAttempts[e] > 1 => AgeCap >= RetryDelay(MaxAttempts[e] - 1) + Horizon

VARIABLES
    status,      \* status[e]: the status column, "absent" before the insert
    attempts,    \* attempts[e]: the attempts column
    due,         \* due[e]: available_at - clock
    lockAge,     \* lockAge[e]: clock - locked_at while processing
    lockToken,   \* lockToken[e]: the batch that claimed the row
    rowLock,     \* rowLock[e]: the transaction holding the row's lock
    pc,          \* pc[d]: where the dispatcher is
    batch,       \* batch[d]: events selected, then claimed and not yet marked
    cur,         \* cur[d]: the event of the current loop iteration
    seen,        \* seen[d][e]: event.Attempts as the batch holds it in memory
    elapsed,     \* elapsed[d]: clock - now of the batch
    delivered,   \* history: some Publish of the event returned nil
    tried,       \* history: the attempt numbers handed to Publish
    interrupts   \* how many interruptions have happened

row     == <<status, attempts, due, lockAge, lockToken>>
worker  == <<pc, batch, cur, seen, elapsed>>
history == <<delivered, tried>>
vars    == <<status, attempts, due, lockAge, lockToken, rowLock,
             pc, batch, cur, seen, elapsed, delivered, tried, interrupts>>

Statuses == {"absent", "pending", "processing", "published", "failed", "dead_letter"}
Places   == {"idle", "claiming", "ready", "publishing", "delivered", "refused"}
Settled  == {"published", "dead_letter"}

TypeOK ==
    /\ status \in [Events -> Statuses]
    /\ attempts \in [Events -> Nat]
    /\ due \in [Events -> Int]
    /\ lockAge \in [Events -> Nat]
    /\ lockToken \in [Events -> Dispatchers \cup {NoOne}]
    /\ rowLock \in [Events -> Dispatchers \cup {NoOne}]
    /\ pc \in [Dispatchers -> Places]
    /\ batch \in [Dispatchers -> SUBSET Events]
    /\ cur \in [Dispatchers -> Events \cup {NoOne}]
    /\ seen \in [Dispatchers -> [Events -> Nat]]
    /\ elapsed \in [Dispatchers -> Nat]
    /\ delivered \in [Events -> BOOLEAN]
    /\ tried \in [Events -> SUBSET Nat]
    /\ interrupts \in Nat

Init ==
    /\ status = [e \in Events |-> "absent"]
    /\ attempts = [e \in Events |-> 0]
    /\ due = [e \in Events |-> 0]
    /\ lockAge = [e \in Events |-> 0]
    /\ lockToken = [e \in Events |-> NoOne]
    /\ rowLock = [e \in Events |-> NoOne]
    /\ pc = [d \in Dispatchers |-> "idle"]
    /\ batch = [d \in Dispatchers |-> {}]
    /\ cur = [d \in Dispatchers |-> NoOne]
    /\ seen = [d \in Dispatchers |-> [e \in Events |-> 0]]
    /\ elapsed = [d \in Dispatchers |-> 0]
    /\ delivered = [e \in Events |-> FALSE]
    /\ tried = [e \in Events |-> {}]
    /\ interrupts = 0

-----------------------------------------------------------------------------
(* Appending *)

Later(x, y) == IF x < y THEN y ELSE x
Overdue(x)  == Later(x, -Horizon)

(* Append joins the business transaction; the row exists from its commit.  *)
(* A rolled-back business transaction appends nothing and is no step.      *)
AppendEvent(e) ==
    /\ status[e] = "absent"
    /\ status' = [status EXCEPT ![e] = "pending"]
    /\ \E t \in FirstDue : due' = [due EXCEPT ![e] = Overdue(t)]
    /\ UNCHANGED <<attempts, lockAge, lockToken, rowLock, worker, history, interrupts>>

-----------------------------------------------------------------------------
(* Claiming *)

\* Mutant: the reclaim compares locked_at <= staleBefore.
ClaimableEarly(e) ==
    /\ attempts[e] < MaxAttempts[e]
    /\ \/ status[e] \in {"pending", "failed"} /\ due[e] <= 0
       \/ status[e] = "processing" /\ lockAge[e] >= LockTimeout

\* Mutant: the attempts < max_attempts condition is missing.
ClaimableForever(e) ==
    \/ status[e] \in {"pending", "failed"} /\ due[e] <= 0
    \/ status[e] = "processing" /\ lockAge[e] > LockTimeout

\* Mutant: timed-out locks are not reclaimed.
ClaimableWaiting(e) ==
    attempts[e] < MaxAttempts[e] /\ status[e] \in {"pending", "failed"} /\ due[e] <= 0

Claimable(e) ==
    /\ attempts[e] < MaxAttempts[e]
    /\ \/ status[e] \in {"pending", "failed"} /\ due[e] <= 0
       \/ status[e] = "processing" /\ lockAge[e] > LockTimeout

\* SKIP LOCKED: a row under another transaction's lock is passed over.
Selectable == {e \in Events : Claimable(e) /\ rowLock[e] = NoOne}

Before(x, y) == due[x] < due[y] \/ (due[x] = due[y] /\ x < y)

\* ORDER BY available_at, id LIMIT n over a set of rows.
FirstRows(S, n) == {e \in S : Cardinality({x \in S : Before(x, e)}) < n}

(* DispatchBatch reads the clock and runs the locking SELECT.  A SELECT    *)
(* that finds nothing ends the batch at once and changes nothing.          *)
SelectBatch(d) ==
    LET rows == FirstRows(Selectable, BatchSize) IN
    /\ pc[d] = "idle"
    /\ rows # {}
    /\ rowLock' = [e \in Events |-> IF e \in rows THEN d ELSE rowLock[e]]
    /\ batch' = [batch EXCEPT ![d] = rows]
    /\ seen' = [seen EXCEPT ![d] = [e \in Events |-> IF e \in rows THEN attempts[e] ELSE 0]]
    /\ elapsed' = [elapsed EXCEPT ![d] = 0]
    /\ pc' = [pc EXCEPT ![d] = "claiming"]
    /\ UNCHANGED <<row, cur, history, interrupts>>

\* UPDATE ... WHERE id = ? AND attempts = ?, and the rows it matches.
CasMatches(d, e) == e \in batch[d] /\ attempts[e] = seen[d][e]

Unlock(d) == rowLock' = [e \in Events |-> IF rowLock[e] = d THEN NoOne ELSE rowLock[e]]

\* Mutant: the UPDATE forgets attempts + 1.
AttemptsKept(claimed) == attempts

AttemptsAfter(claimed) ==
    [e \in Events |-> IF e \in claimed THEN attempts[e] + 1 ELSE attempts[e]]

(* The UPDATEs of the claim and the commit that releases the row locks.    *)
(* locked_at is the batch's now, so the lock is already elapsed[d] old.    *)
CommitClaim(d) ==
    LET claimed == {e \in Events : CasMatches(d, e)} IN
    /\ pc[d] = "claiming"
    /\ status' = [e \in Events |-> IF e \in claimed THEN "processing" ELSE status[e]]
    /\ attempts' = AttemptsAfter(claimed)
    /\ lockAge' = [e \in Events |-> IF e \in claimed THEN elapsed[d] ELSE lockAge[e]]
    /\ lockToken' = [e \in Events |-> IF e \in claimed THEN d ELSE lockToken[e]]
    /\ Unlock(d)
    /\ batch' = [batch EXCEPT ![d] = claimed]
    /\ seen' = [seen EXCEPT ![d] =
                  [e \in Events |-> IF e \in claimed THEN seen[d][e] + 1 ELSE 0]]
    /\ pc' = [pc EXCEPT ![d] = IF claimed = {} THEN "idle" ELSE "ready"]
    /\ UNCHANGED <<due, cur, elapsed, history, interrupts>>

-----------------------------------------------------------------------------
(* Publishing.  The loop takes the claimed events in the order of the      *)
(* SELECT; the model takes them in any order.                              *)

StartPublish(d, e) ==
    /\ pc[d] = "ready"
    /\ e \in batch[d]
    /\ cur' = [cur EXCEPT ![d] = e]
    /\ tried' = [tried EXCEPT ![e] = @ \cup {seen[d][e]}]
    /\ pc' = [pc EXCEPT ![d] = "publishing"]
    /\ UNCHANGED <<row, rowLock, batch, seen, elapsed, delivered, interrupts>>

PublishOk(d) ==
    /\ pc[d] = "publishing"
    /\ delivered' = [delivered EXCEPT ![cur[d]] = TRUE]
    /\ pc' = [pc EXCEPT ![d] = "delivered"]
    /\ UNCHANGED <<row, rowLock, batch, cur, seen, elapsed, tried, interrupts>>

\* Mutant: the error of Publish is dropped.
PublishErrDropped(d) ==
    /\ pc[d] = "publishing"
    /\ pc' = [pc EXCEPT ![d] = "delivered"]
    /\ UNCHANGED <<row, rowLock, batch, cur, seen, elapsed, history, interrupts>>

PublishErr(d) ==
    /\ pc[d] = "publishing"
    /\ pc' = [pc EXCEPT ![d] = "refused"]
    /\ UNCHANGED <<row, rowLock, batch, cur, seen, elapsed, history, interrupts>>

-----------------------------------------------------------------------------
(* Recording the outcome *)

\* Mutant: WHERE id = ?
HoldsAny(d, e) == TRUE

\* WHERE id = ? AND status = 'processing' AND lock_token = ?
HoldsClaim(d, e) == status[e] = "processing" /\ lockToken[e] = d

\* Mutant: the claim's SELECT takes no lock, an UPDATE never waits for it.
RowNeverLocked(e) == TRUE

\* A single-statement UPDATE waits for a claim transaction that locked the row.
RowFree(e) == rowLock[e] = NoOne

\* The row's lock columns are cleared, and the loop goes on or ends.
ReleaseRow(d, e) ==
    /\ lockAge' = [lockAge EXCEPT ![e] = 0]
    /\ lockToken' = [lockToken EXCEPT ![e] = NoOne]
    /\ batch' = [batch EXCEPT ![d] = @ \ {e}]
    /\ cur' = [cur EXCEPT ![d] = NoOne]
    /\ seen' = [seen EXCEPT ![d][e] = 0]
    /\ IF batch[d] = {e}
       THEN /\ pc' = [pc EXCEPT ![d] = "idle"]
            /\ elapsed' = [elapsed EXCEPT ![d] = 0]
       ELSE /\ pc' = [pc EXCEPT ![d] = "ready"]
            /\ UNCHANGED elapsed
    /\ UNCHANGED <<attempts, rowLock, history, interrupts>>

MarkPublished(d) ==
    LET e == cur[d] IN
    /\ pc[d] = "delivered"
    /\ RowFree(e)
    /\ HoldsClaim(d, e)
    /\ status' = [status EXCEPT ![e] = "published"]
    /\ due' = [due EXCEPT ![e] = 0]
    /\ ReleaseRow(d, e)

\* Mutants: the comparison is off by one, either way.
ExhaustedEarly(d, e) == seen[d][e] + 1 >= MaxAttempts[e]
ExhaustedLate(d, e)  == seen[d][e] > MaxAttempts[e]

\* event.Attempts >= event.MaxAttempts, on the batch's own copy of the row.
Exhausted(d, e) == seen[d][e] >= MaxAttempts[e]

\* Mutant: the status of a retry is left at its zero value.
FailureStatusUnset(d, e) == IF Exhausted(d, e) THEN "dead_letter" ELSE ""

FailureStatus(d, e) == IF Exhausted(d, e) THEN "dead_letter" ELSE "failed"

\* availableAt counts from the batch's now, not from the failure.
RetryDue(d, e) ==
    IF Exhausted(d, e) THEN 0 ELSE Overdue(RetryDelay(seen[d][e]) - elapsed[d])

MarkFailed(d) ==
    LET e == cur[d] IN
    /\ pc[d] = "refused"
    /\ RowFree(e)
    /\ HoldsClaim(d, e)
    /\ status' = [status EXCEPT ![e] = FailureStatus(d, e)]
    /\ due' = [due EXCEPT ![e] = RetryDue(d, e)]
    /\ ReleaseRow(d, e)

\* The dispatcher returns to its ticker and forgets the batch.
Abandon(d) ==
    /\ batch' = [batch EXCEPT ![d] = {}]
    /\ cur' = [cur EXCEPT ![d] = NoOne]
    /\ seen' = [seen EXCEPT ![d] = [e \in Events |-> 0]]
    /\ pc' = [pc EXCEPT ![d] = "idle"]
    /\ elapsed' = [elapsed EXCEPT ![d] = 0]
    /\ UNCHANGED <<row, history>>

(* No row matched: the claim was lost.  DispatchBatch returns the error,   *)
(* which leaves the rest of the batch as it is.                            *)
MarkRejected(d) ==
    /\ pc[d] \in {"delivered", "refused"}
    /\ RowFree(cur[d])
    /\ ~HoldsClaim(d, cur[d])
    /\ Abandon(d)
    /\ UNCHANGED <<rowLock, interrupts>>

(* The process crashes, or Worker.Stop cancels the context so that every   *)
(* later statement of the batch fails, or one statement fails: an open     *)
(* transaction rolls back and the batch is dropped where it stands.        *)
Interrupt(d) ==
    /\ interrupts < MaxInterrupts
    /\ pc[d] # "idle"
    /\ interrupts' = interrupts + 1
    /\ Unlock(d)
    /\ Abandon(d)

-----------------------------------------------------------------------------
(* Time *)

Older(age) == IF age < AgeCap THEN age + 1 ELSE age

Tick ==
    /\ PromptBatches => \A d \in Dispatchers : pc[d] # "idle" => elapsed[d] < LockTimeout
    /\ due' = [e \in Events |->
                 IF status[e] \in {"pending", "processing", "failed"}
                 THEN Overdue(due[e] - 1) ELSE due[e]]
    /\ lockAge' = [e \in Events |->
                     IF status[e] = "processing" THEN Older(lockAge[e]) ELSE lockAge[e]]
    /\ elapsed' = [d \in Dispatchers |->
                     IF pc[d] = "idle" THEN elapsed[d] ELSE Older(elapsed[d])]
    /\ UNCHANGED <<status, attempts, lockToken, rowLock, pc, batch, cur, seen,
                   history, interrupts>>

-----------------------------------------------------------------------------
\* What DispatchBatch does by itself; the Publisher and the clock are apart.
Dispatch(d) ==
    \/ SelectBatch(d)
    \/ CommitClaim(d)
    \/ \E e \in Events : StartPublish(d, e)
    \/ MarkPublished(d)
    \/ MarkFailed(d)
    \/ MarkRejected(d)

Publisher(d) == PublishOk(d) \/ PublishErr(d)

Next ==
    \/ \E e \in Events : AppendEvent(e)
    \/ \E d \in Dispatchers : Dispatch(d) \/ Publisher(d) \/ Interrupt(d)
    \/ Tick

Spec == Init /\ [][Next]_vars

(* The ticker wakes every dispatcher again and again, a handler returns,   *)
(* and time passes.  Nobody is forced to append or to fail.                *)
Fairness ==
    /\ WF_vars(Tick)
    /\ \A d \in Dispatchers : WF_vars(Dispatch(d) \/ Publisher(d))

FairSpec == Spec /\ Fairness

-----------------------------------------------------------------------------
(* Properties *)

\* The events a dispatcher claimed and has not finished with.
InFlight(d) == IF pc[d] \in {"idle", "claiming"} THEN {} ELSE batch[d]

\* A dispatcher loses an event it is working on only after its batch has
\* outlived lockTimeout: within the timeout the lock token is exclusive
\* (ClaimBatch's staleBefore, service.go:111).
LeaseExclusive ==
    \A d \in Dispatchers : \A e \in InFlight(d) :
        ~HoldsClaim(d, e) => elapsed[d] > LockTimeout

\* An event marked published was returned nil by some Publish: no late,
\* stolen or interrupted batch confirms what was never delivered.
PublishedWasDelivered ==
    \A e \in Events : status[e] = "published" => delivered[e]

\* Only an event whose attempts are used up becomes a dead letter, whatever
\* copy of attempts the failing batch had in memory.
DeadLetterWasExhausted ==
    \A e \in Events : status[e] = "dead_letter" => attempts[e] = MaxAttempts[e]

\* Each claim is a fresh attempt number within max_attempts, and no two
\* batches hold an event under the same number, even when one stole it from
\* the other: the CAS on attempts in ClaimBatch.
ClaimsAreNumbered ==
    \A e \in Events :
        /\ tried[e] \subseteq 1..MaxAttempts[e]
        /\ \A d1, d2 \in Dispatchers :
              d1 # d2 /\ e \in InFlight(d1) /\ e \in InFlight(d2)
                 => seen[d1][e] # seen[d2][e]

\* No attempt is handed to the Publisher twice; with ClaimsAreNumbered, an
\* event is published at most max_attempts times over all crashes and steals.
NoAttemptTwice ==
    [][\A d \in Dispatchers, e \in Events :
          StartPublish(d, e) => seen[d][e] \notin tried[e]]_vars

\* published and dead_letter are final: no late MarkFailed, stale reclaim or
\* overlapping claim brings the event back.
SettledIsFinal ==
    [][\A e \in Events : status[e] \in Settled => status'[e] = status[e]]_vars

\* An event claimed for the last time by a batch that was interrupted or gave
\* up: no claim takes it any more, because attempts < max_attempts also guards
\* the reclaim of timed-out locks (repository.go:56).
Stranded(e) ==
    /\ status[e] = "processing"
    /\ attempts[e] = MaxAttempts[e]
    /\ \A d \in Dispatchers : e \notin InFlight(d)

\* Every appended event is published, dead-lettered or stranded in the end,
\* under crashes, steals and slow publishers.
SettledOrStranded ==
    \A e \in Events : status[e] # "absent" ~> status[e] \in Settled \/ Stranded(e)

\* No batch was interrupted or outlived lockTimeout.
InTime == interrupts = 0 /\ \A d \in Dispatchers : elapsed[d] <= LockTimeout

\* As long as every batch runs to its end within lockTimeout, every appended
\* event is published or dead-lettered: the attempts that ClaimBatch and
\* DispatchBatch count meet at max_attempts, with no event left between them.
EventuallySettled ==
    []InTime => \A e \in Events : status[e] # "absent" ~> status[e] \in Settled

\* The promise's phase of an event.
Phase ==
    [e \in Events |->
        CASE status[e] \in {"pending", "processing", "failed"} -> "owed"
          [] status[e] = "dead_letter" -> "dead"
          [] OTHER -> status[e]]

Promise == INSTANCE AtLeastOnce WITH phase <- Phase, tries <- attempts

\* The outbox implements the promise of at-least-once delivery: its claims are
\* the promise's tries, MarkPublished and the last MarkFailed its settling.
KeepsPromise == Promise!Spec

\* What model.go:15 says of dead_letter: an event whose attempts are used up
\* and that no batch works on any more has been settled.
ExhaustedIsSettled ==
    \A e \in Events :
        /\ attempts[e] = MaxAttempts[e]
        /\ \A d \in Dispatchers : e \notin batch[d]
        => status[e] \in Settled
=============================================================================
