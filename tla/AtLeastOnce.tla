----------------------------- MODULE AtLeastOnce -----------------------------
(***************************************************************************)
(* What src/event promises of each event, without rows, locks, batches or  *)
(* time: once appended it is owed a delivery, it is tried a bounded number *)
(* of times, and it ends either as published, after a delivery, or as dead *)
(* after its last try.  A try may deliver after the event was settled      *)
(* through another try: delivery is at least once, not exactly once.       *)
(***************************************************************************)
EXTENDS Naturals

CONSTANTS Events, MaxAttempts

VARIABLES
    phase,      \* phase[e]: "absent", "owed", "published" or "dead"
    tries,      \* tries[e]: how often the event was taken for delivery
    delivered   \* delivered[e]: the publisher confirmed a delivery

promise == <<phase, tries, delivered>>

Init ==
    /\ phase = [e \in Events |-> "absent"]
    /\ tries = [e \in Events |-> 0]
    /\ delivered = [e \in Events |-> FALSE]

Append(e) ==
    /\ phase[e] = "absent"
    /\ phase' = [phase EXCEPT ![e] = "owed"]
    /\ UNCHANGED <<tries, delivered>>

\* A batch of owed events is taken for one more try each.
Try(S) ==
    /\ \A e \in S : phase[e] = "owed" /\ tries[e] < MaxAttempts[e]
    /\ tries' = [e \in Events |-> IF e \in S THEN tries[e] + 1 ELSE tries[e]]
    /\ UNCHANGED <<phase, delivered>>

Deliver(e) ==
    /\ tries[e] > 0
    /\ delivered' = [delivered EXCEPT ![e] = TRUE]
    /\ UNCHANGED <<phase, tries>>

Publish(e) ==
    /\ phase[e] = "owed"
    /\ delivered[e]
    /\ phase' = [phase EXCEPT ![e] = "published"]
    /\ UNCHANGED <<tries, delivered>>

GiveUp(e) ==
    /\ phase[e] = "owed"
    /\ tries[e] = MaxAttempts[e]
    /\ phase' = [phase EXCEPT ![e] = "dead"]
    /\ UNCHANGED <<tries, delivered>>

Next ==
    \/ \E S \in SUBSET Events : Try(S)
    \/ \E e \in Events : Append(e) \/ Deliver(e) \/ Publish(e) \/ GiveUp(e)

Spec == Init /\ [][Next]_promise
=============================================================================
