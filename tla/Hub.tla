--------------------------------- MODULE Hub ---------------------------------
(***************************************************************************)
(* src/events/hub.go: events for the open streams of a user.  Publish      *)
(* holds the read lock while it offers the event to one bounded channel    *)
(* after the other; subscribing and unsubscribing take the write lock.     *)
(***************************************************************************)
EXTENDS Naturals, Sequences

CONSTANTS
    Streams,        \* subscriptions, in the order of their arrival or not
    Recipients,     \* a tenant and a user
    Publishers,
    BufferSize,     \* 16
    MaxEvents       \* bound: events published

ASSUME HubAssumption == BufferSize \in Nat \ {0} /\ "" \notin Recipients

VARIABLES
    subscribers,    \* subscribers[r]: the set under a key
    stream,         \* stream[s]: channel, user, and (kept for the properties)
                    \* what it took, missed, and which events preceded it
    closed,         \* closed channels
    publishing,     \* publishing[p]: an event and the streams left to offer it to
    published       \* published[r]: events whose Publish has begun

hubVars == <<subscribers, stream, closed, publishing, published>>

Quiet == [to |-> "", event |-> 0, left |-> {}, on |-> FALSE]

HubInit ==
    /\ subscribers = [r \in Recipients |-> {}] /\ closed = {}
    /\ stream = [s \in Streams |-> [of |-> "", buffer |-> <<>>, took |-> <<>>, missed |-> {},
                                    skip |-> 0, upto |-> 0]]
    /\ publishing = [p \in Publishers |-> Quiet]
    /\ published = [r \in Recipients |-> <<>>]

Unread == \A p \in Publishers : ~publishing[p].on       \* the write lock is free
Elements(q) == {q[i] : i \in DOMAIN q}
EventsSoFar == UNION {Elements(published[r]) : r \in Recipients}

Subscribe(s, r) ==
    /\ Unread /\ stream[s].of = ""
    /\ subscribers' = [subscribers EXCEPT ![r] = @ \cup {s}]
    /\ stream' = [stream EXCEPT ![s].of = r, ![s].skip = Len(published[r])]
    /\ UNCHANGED <<closed, publishing, published>>

\* Mutant: the channel is closed before the lock is taken.
CloseUnlocked(s) ==
    /\ stream[s].of # "" /\ s \notin closed /\ closed' = closed \cup {s}
    /\ stream' = [stream EXCEPT ![s].upto = Len(published[stream[s].of])]
    /\ UNCHANGED <<subscribers, publishing, published>>

\* The function that Subscribe returned; further calls of it do nothing.
Unsubscribe(s) ==
    /\ Unread /\ stream[s].of # "" /\ s \notin closed
    /\ subscribers' = [subscribers EXCEPT ![stream[s].of] = @ \ {s}]
    /\ closed' = closed \cup {s}
    /\ stream' = [stream EXCEPT ![s].upto = Len(published[stream[s].of])]
    /\ UNCHANGED <<publishing, published>>

\* Publish: a full channel misses the event.
Publish(p, r, e) ==
    /\ ~publishing[p].on /\ e \notin EventsSoFar
    /\ \A d \in 1..(e - 1) : d \in EventsSoFar
    /\ publishing' = [publishing EXCEPT ![p] =
                        [to |-> r, event |-> e, left |-> subscribers[r], on |-> TRUE]]
    /\ published' = [published EXCEPT ![r] = Append(@, e)]
    /\ UNCHANGED <<subscribers, stream, closed>>

Offer(p, s) ==
    LET e == publishing[p].event IN
    /\ s \in publishing[p].left
    /\ stream' = IF Len(stream[s].buffer) < BufferSize
                 THEN [stream EXCEPT ![s].buffer = Append(@, e)]
                 ELSE [stream EXCEPT ![s].missed = @ \cup {e}]
    /\ publishing' = [publishing EXCEPT ![p].left = @ \ {s}]
    /\ UNCHANGED <<subscribers, closed, published>>

PublishEnd(p) ==
    /\ publishing[p].on /\ publishing[p].left = {}
    /\ publishing' = [publishing EXCEPT ![p] = Quiet]
    /\ UNCHANGED <<subscribers, stream, closed, published>>

\* The reader of a stream, also after it was closed.
Take(s) ==
    /\ stream[s].buffer # <<>>
    /\ stream' = [stream EXCEPT ![s].took = Append(@, Head(stream[s].buffer)),
                               ![s].buffer = Tail(@)]
    /\ UNCHANGED <<subscribers, closed, publishing, published>>

HubNext ==
    \/ \E s \in Streams : Unsubscribe(s) \/ Take(s) \/ \E r \in Recipients : Subscribe(s, r)
    \/ \E p \in Publishers :
        \/ PublishEnd(p) \/ \E s \in Streams : Offer(p, s)
        \/ \E r \in Recipients, e \in 1..MaxEvents : Publish(p, r, e)

-----------------------------------------------------------------------------
Got(s) == stream[s].took \o stream[s].buffer

\* Nothing is offered to a closed channel, which would panic; a stream gets,
\* once and up to a full buffer, what is published to its user while it is
\* open, and no other event (src/events/hub.go:72).
HubHolds ==
    /\ \A p \in Publishers : publishing[p].left \cap closed = {}
    /\ \A s \in {x \in Streams : stream[x].of # ""} :
        LET log   == published[stream[s].of]
            until == IF s \in closed THEN stream[s].upto ELSE Len(log)
            due   == {log[i] : i \in (stream[s].skip + 1)..until}
            open  == {publishing[p].event : p \in {q \in Publishers : s \in publishing[q].left}} IN
        /\ Elements(Got(s)) \cup stream[s].missed = due \ open
        /\ Elements(Got(s)) \cap stream[s].missed = {}
        /\ \A i, j \in DOMAIN Got(s) : i # j => Got(s)[i] # Got(s)[j]
        /\ s \in closed <=> s \notin subscribers[stream[s].of]
=============================================================================
