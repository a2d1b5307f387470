---------------------------- MODULE EventDelivery ----------------------------
(***************************************************************************)
(* The event centre as a whole: the outbox, whose Publisher is a           *)
(* LocalPublisher (src/event/publisher.go), whose handlers run under       *)
(* ConsumeOnce.  Publish takes a snapshot of the matching subscriptions    *)
(* and consumes the event for each in turn; the first error ends it.       *)
(*                                                                         *)
(* A dispatcher of Outbox is the caller of Consumption: it is inside at    *)
(* most one ConsumeOnce, and an interruption takes both down.              *)
(***************************************************************************)
EXTENDS Outbox, Sequences

CONSTANTS
    Subscriptions,  \* records [type, code]: what the program subscribes
    TypeOf,         \* TypeOf[e]: the event's type
    Wildcard,       \* the type "*"
    MaxCalls,       \* bound of Consumption; at least attempts * subscriptions
    LostAcks        \* of Consumption

VARIABLES
    subs,           \* subscriptions registered so far, in order
    snapshot,       \* snapshot[d]: the subscriptions when the current Publish began
    next,           \* next[d]: the one whose consumption was started last
    ran,            \* history: ran[e]: subscriptions whose handler committed
    disturbed,      \* history: a batch outlived lockTimeout, or a commit's answer was lost
    rec, holder, at, call, result, effects, calls

C == INSTANCE Consumption WITH
        Keys <- {s.code : s \in Subscriptions} \X Events, Callers <- Dispatchers,
        NoCaller <- NoOne, NoKey <- NoOne

consumed  == <<rec, holder, at, call, result, effects, calls>>
publisher == <<subs, snapshot, next, ran>>
delivery  == <<vars, consumed, publisher, disturbed>>

DeliveryTypeOK ==
    /\ subs \in Seq(Subscriptions)
    /\ snapshot \in [Dispatchers -> Seq(Subscriptions)]
    /\ \A d \in Dispatchers : next[d] \in 0..Len(snapshot[d])
    /\ ran \in [Events -> SUBSET Subscriptions]

DeliveryInit ==
    /\ Init
    /\ C!ConsumptionInit
    /\ subs = <<>>
    /\ snapshot = [d \in Dispatchers |-> <<>>]
    /\ next = [d \in Dispatchers |-> 0]
    /\ ran = [e \in Events |-> {}]
    /\ disturbed = FALSE

-----------------------------------------------------------------------------

\* Subscribe refuses the same code for the same type.
Subscribe(s) ==
    /\ \A i \in DOMAIN subs : subs[i] # s
    /\ subs' = Append(subs, s)
    /\ UNCHANGED <<vars, consumed, snapshot, next, ran>>

Matches(s, e) == s.type = Wildcard \/ s.type = TypeOf[e]

\* The subscriptions the current Publish runs through, by their place.
Matched(d) == {i \in DOMAIN snapshot[d] : Matches(snapshot[d][i], cur[d])}

\* The loop of DispatchBatch calls Publish, which snapshots under the RLock.
BeginPublish(d, e) ==
    /\ StartPublish(d, e)
    /\ snapshot' = [snapshot EXCEPT ![d] = subs]
    /\ next' = [next EXCEPT ![d] = 0]
    /\ UNCHANGED <<consumed, subs, ran>>

Current(d) == snapshot[d][next[d]]

\* What is left to consume, in the order of registration.
Remaining(d) == {i \in Matched(d) : i > next[d]}

\* Mutant: an error of ConsumeOnce does not end the loop.
GoesOnAnyway(d) == next[d] = 0 \/ result[d] # "none"

\* The loop goes on after a consumption that returned no error.
GoesOn(d) == next[d] = 0 \/ result[d] \in {"processed", "skipped"}

ConsumeNext(d) ==
    /\ pc[d] = "publishing"
    /\ GoesOn(d)
    /\ \E i \in Remaining(d) :
          /\ \A j \in Remaining(d) : i <= j
          /\ next' = [next EXCEPT ![d] = i]
          /\ C!Begin(d, <<snapshot[d][i].code, cur[d]>>)
    /\ UNCHANGED <<vars, subs, snapshot, ran>>

\* A statement of the current ConsumeOnce; a commit is a run of its handler.
Consume(d) ==
    /\ C!Step(d)
    /\ ran' = IF effects' # effects
              THEN [ran EXCEPT ![cur[d]] = @ \cup {Current(d)}]
              ELSE ran
    /\ UNCHANGED <<vars, subs, snapshot, next>>

AllConsumed(d) ==
    at[d] = "idle" /\ Remaining(d) = {} /\ next[d] > 0 /\ GoesOn(d)

PublishReturnsNil(d) ==
    /\ PublishOk(d)
    /\ AllConsumed(d)
    /\ UNCHANGED <<consumed, publisher>>

\* ErrNoSubscriber, or the error of the last consumption.
PublishReturnsErr(d) ==
    /\ PublishErr(d)
    /\ Matched(d) = {} \/ (next[d] > 0 /\ at[d] = "idle" /\ result[d] = "error")
    /\ UNCHANGED <<consumed, publisher>>

\* A crash, or a cancelled context, ends the batch and the consumption in it.
Stop(d) ==
    /\ Interrupt(d)
    /\ IF at[d] = "idle" THEN UNCHANGED consumed ELSE C!Fail(d)
    /\ UNCHANGED publisher

-----------------------------------------------------------------------------
\* The steps of Outbox that neither publish nor touch a consumption.
OutboxOnly ==
    \/ \E e \in Events : AppendEvent(e)
    \/ \E d \in Dispatchers :
          \/ SelectBatch(d)
          \/ CommitClaim(d)
          \/ MarkPublished(d)
          \/ MarkFailed(d)
          \/ MarkRejected(d)
    \/ Tick

\* What ends the promise that each consumer executes an event once.
Disturbs ==
    \E d \in Dispatchers :
        elapsed'[d] > LockTimeout \/ (effects' # effects /\ at'[d] = "failing")

DeliveryStep ==
    \/ OutboxOnly /\ UNCHANGED <<consumed, publisher>>
    \/ \E s \in Subscriptions : Subscribe(s)
    \/ \E d \in Dispatchers :
          \/ \E e \in Events : BeginPublish(d, e)
          \/ ConsumeNext(d)
          \/ Consume(d)
          \/ PublishReturnsNil(d)
          \/ PublishReturnsErr(d)
          \/ Stop(d)

DeliveryNext == DeliveryStep /\ disturbed' = (disturbed \/ Disturbs)

DeliverySpec == DeliveryInit /\ [][DeliveryNext]_delivery

-----------------------------------------------------------------------------
(* Properties *)

\* As long as no batch outlives lockTimeout and no commit's answer is lost, each
\* consumer executes each event at most once, whatever crashes: retries skip
\* what earlier attempts completed.  A late failure record, which overwrites a
\* completed consumption (repository.go:217), is what it takes to break this.
ExactlyOnceInTime ==
    ~disturbed => \A s \in Subscriptions, e \in Events : effects[<<s.code, e>>] <= 1

\* A handler of the consumer has run for the event.
RanFor(code, e) == \E s \in ran[e] : s.code = code

\* Publish delivers an event at least once to all matching consumers
\* (publisher.go:58): when it confirms, there are some, and each one has run in
\* this attempt or an earlier one, however late the batch.  A consumer is its
\* code: of two matching subscriptions of one code, one handler runs.
EveryConsumerRan ==
    \A d \in Dispatchers :
        pc[d] = "delivered" =>
            /\ Matched(d) # {}
            /\ \A i \in Matched(d) : RanFor(snapshot[d][i].code, cur[d])
=============================================================================
