---------------------------- MODULE QueueProofs ----------------------------
(***************************************************************************)
(* Queue loses no job and acknowledges none that was not handled, for any  *)
(* number of messages and workers and whatever crashes, stops and failed   *)
(* commands happen; and two workers share a message only after the         *)
(* reclaim threshold.                                                      *)
(***************************************************************************)
EXTENDS Queue, FiniteSetTheorems, TLAPS

\* Nothing is given out before the group exists.
GroupInv ==
    /\ ~group => read = 0
    /\ \A w \in Workers : at[w] \in {"loop", "read", "handle", "ack"} => group

\* What a worker holds was given out to it, and succeeded before XACK.
HandsInv ==
    \A w \in Workers :
        /\ at[w] \in {"handle", "ack"} => job[w] \in 1..read
        /\ at[w] \notin {"handle", "ack"} => job[w] = 0
        /\ at[w] = "ack" => successes[job[w]] > 0

\* Only what was given out is pending or acknowledged, and never both.
GivenInv ==
    \A m \in Msgs :
        /\ owner[m] # NoWorker => m <= read
        /\ m \in acked => m <= read /\ owner[m] = NoWorker

\* A worker that still owns its message has had it for as long as it has been
\* pending; one that lost it, to a reclaim, has had it for MinIdle.
LeaseInv ==
    \A w \in Workers : job[w] # 0 =>
        \/ owner[job[w]] = w /\ held[w] = idle[job[w]]
        \/ held[w] = MinIdle
        \/ job[w] \in acked

IInv ==
    /\ TypeOK
    /\ GroupInv
    /\ HandsInv
    /\ GivenInv
    /\ LeaseInv
    /\ ExclusiveInTime
    /\ AckedWasHandled
    /\ NothingLost

-----------------------------------------------------------------------------
\* The bounds are numbers.
LEMMA Bounds ==
    /\ Messages \in Nat
    /\ MinIdle \in Nat /\ MinIdle > 0
    /\ MaxStops \in Nat /\ MaxCrashes \in Nat /\ MaxFaults \in Nat
BY MessagesAssumption, LimitsAssumption

\* What a worker has in its hands is a message or 0.
LEMMA HandTyped ==
    ASSUME TypeOK, NEW v \in Workers
    PROVE  job[v] \in Nat /\ (job[v] # 0 => job[v] \in Msgs)
<1>1. job \in [Workers -> 0..added] /\ added \in 0..Messages /\ Messages \in Nat
  BY Bounds DEF TypeOK
<1> QED
  BY ONLY <1>1 DEF Msgs

LEMMA GotoTyped ==
    ASSUME TypeOK, NEW w \in Workers, NEW place \in Places, Goto(w, place)
    PROVE  at' \in [Workers -> Places]
<1>1. at \in [Workers -> Places] /\ at' = [at EXCEPT ![w] = place]
  BY DEF TypeOK, Goto
<1> QED
  BY ONLY <1>1

LEMMA DropTyped ==
    ASSUME TypeOK, NEW w \in Workers, Drop(w)
    PROVE  job' \in [Workers -> 0..added] /\ held' \in [Workers -> 0..MinIdle]
<1>1. /\ job \in [Workers -> 0..added] /\ job' = [job EXCEPT ![w] = 0]
      /\ held \in [Workers -> 0..MinIdle] /\ held' = [held EXCEPT ![w] = 0]
      /\ added \in Nat /\ MinIdle \in Nat
  BY Bounds DEF TypeOK, Drop
<1> QED
  BY ONLY <1>1

LEMMA InvInit == Init => IInv
<1> SUFFICES ASSUME Init PROVE IInv
  OBVIOUS
<1>1. TypeOK
  <2>1. 0 \in 0..Messages /\ 0 \in 0..MinIdle /\ 0 \in 0..MaxStops /\ 0 \in 0..MaxCrashes
        /\ 0 \in 0..MaxFaults
    BY Bounds
  <2>2. /\ owner \in [Msgs -> Workers \cup {NoWorker}]
        /\ idle \in [Msgs -> 0..MinIdle]
        /\ successes \in [Msgs -> Nat]
    BY ONLY <2>1, Init DEF Init
  <2>3. /\ at \in [Workers -> Places]
        /\ held \in [Workers -> 0..MinIdle]
        /\ cancelled \in [Workers -> BOOLEAN]
    BY ONLY <2>1, Init DEF Init, Places
  <2>4. added = 0 /\ read = 0 /\ group = FALSE /\ acked = {} /\ job = [w \in Workers |-> 0]
    BY ONLY Init DEF Init
  <2>5. 0 \in 0..added
    BY ONLY <2>4
  <2>6. job \in [Workers -> 0..added]
    BY ONLY <2>4, <2>5
  <2>7. stops \in 0..MaxStops /\ crashes \in 0..MaxCrashes /\ faults \in 0..MaxFaults
    BY ONLY <2>1, Init DEF Init
  <2> QED
    BY ONLY <2>1, <2>2, <2>3, <2>4, <2>5, <2>6, <2>7 DEF TypeOK
<1>2. /\ GroupInv /\ HandsInv /\ GivenInv /\ LeaseInv
      /\ ExclusiveInTime /\ AckedWasHandled /\ NothingLost
  BY DEF Init, GroupInv, HandsInv, GivenInv, LeaseInv, ExclusiveInTime, AckedWasHandled,
         NothingLost
<1> QED
  BY <1>1, <1>2 DEF IInv

-----------------------------------------------------------------------------
(* Giving out a message *)

\* What Give does to each message and each worker.
Given(w, m) ==
    /\ \A x \in Msgs :
          /\ owner'[x] = IF x = m THEN w ELSE owner[x]
          /\ idle'[x] = IF x = m THEN 0 ELSE idle[x]
    /\ \A v \in Workers :
          /\ held'[v] = IF v = w THEN 0 ELSE held[v]
          /\ at'[v] = IF v # w THEN at[v] ELSE IF m \in Malformed THEN "loop" ELSE "handle"
          /\ job'[v] = IF v = w /\ m \notin Malformed THEN m ELSE job[v]

\* The variables Give changes keep their types.
GivenTypes ==
    /\ owner' \in [Msgs -> Workers \cup {NoWorker}]
    /\ idle' \in [Msgs -> 0..MinIdle]
    /\ at' \in [Workers -> Places]
    /\ job' \in [Workers -> 0..added]
    /\ held' \in [Workers -> 0..MinIdle]

LEMMA GiveEffect ==
    ASSUME TypeOK, NEW w \in Workers, NEW m \in Msgs, m <= added, Give(w, m)
    PROVE  Given(w, m) /\ GivenTypes
<1>1. 0 \in 0..MinIdle /\ m \in 0..added
  BY MessagesAssumption, LimitsAssumption DEF TypeOK, Msgs
<1>2. /\ owner' = [owner EXCEPT ![m] = w] /\ owner \in [Msgs -> Workers \cup {NoWorker}]
      /\ idle' = [idle EXCEPT ![m] = 0] /\ idle \in [Msgs -> 0..MinIdle]
      /\ held' = [held EXCEPT ![w] = 0] /\ held \in [Workers -> 0..MinIdle]
      /\ at \in [Workers -> Places] /\ job \in [Workers -> 0..added]
  BY DEF Give, TypeOK
<1>3. CASE m \in Malformed
  <2>1. at' = [at EXCEPT ![w] = "loop"] /\ job' = job
    BY <1>3 DEF Give, Goto
  <2> QED
    BY ONLY <1>1, <1>2, <1>3, <2>1 DEF Given, GivenTypes, Places
<1>4. CASE m \notin Malformed
  <2>1. at' = [at EXCEPT ![w] = "handle"] /\ job' = [job EXCEPT ![w] = m]
    BY <1>4 DEF Give, Goto
  <2> QED
    BY ONLY <1>1, <1>2, <1>4, <2>1 DEF Given, GivenTypes, Places
<1> QED
  BY <1>3, <1>4

\* A message may be given to a worker without one when everybody else who
\* still has it has had it for MinIdle.
LEMMA GiveKeeps ==
    ASSUME TypeOK, HandsInv, LeaseInv, ExclusiveInTime, NEW w \in Workers, NEW m \in Msgs,
           at[w] \in {"loop", "read"}, m \notin acked, read' >= read, m <= read',
           read' \in Nat, \A v \in Workers : job[v] = m => held[v] = MinIdle,
           Given(w, m), UNCHANGED <<acked, successes>>
    PROVE  HandsInv' /\ LeaseInv' /\ ExclusiveInTime'
<1>1. job[w] = 0 /\ m \in Nat /\ m # 0
  BY DEF HandsInv, Msgs
<1>2. \A v \in Workers : job[v] \in Nat /\ (job[v] # 0 => job[v] \in Msgs)
  BY HandTyped
<1>3. HandsInv'
  <2>1. \A v \in Workers : at'[v] = "ack" => v # w /\ at[v] = "ack" /\ job'[v] = job[v]
    BY DEF Given
  <2>2. \A v \in Workers : v # w => at'[v] = at[v] /\ job'[v] = job[v]
    BY DEF Given
  <2>3. /\ at'[w] \in {"handle", "ack"} => job'[w] = m
        /\ at'[w] \notin {"handle", "ack"} => job'[w] = 0
    BY <1>1 DEF Given
  <2>4. m \in 1..read'
    BY DEF Msgs
  <2>5. read \in Nat
    BY MessagesAssumption DEF TypeOK
  <2>6. 1..read \subseteq 1..read'
    BY <2>5
  <2> QED
    BY ONLY HandsInv, UNCHANGED successes, <2>1, <2>2, <2>3, <2>4, <2>6 DEF HandsInv
<1>4. LeaseInv'
  <2> SUFFICES ASSUME NEW v \in Workers, job'[v] # 0
               PROVE  \/ owner'[job'[v]] = v /\ held'[v] = idle'[job'[v]]
                      \/ held'[v] = MinIdle
                      \/ job'[v] \in acked'
    BY DEF LeaseInv
  <2>1. CASE v = w
    BY <1>1, <2>1 DEF Given
  <2>2. CASE v # w /\ job[v] = m
    BY <2>2 DEF Given
  <2>3. CASE v # w /\ job[v] # m
    <3>1. job'[v] = job[v] /\ held'[v] = held[v] /\ job[v] \in Msgs
      BY <1>2, <2>3 DEF Given
    <3>2. owner'[job[v]] = owner[job[v]] /\ idle'[job[v]] = idle[job[v]]
      BY <2>3, <3>1 DEF Given
    <3> QED
      BY <3>1, <3>2 DEF LeaseInv
  <2> QED
    BY <2>1, <2>2, <2>3
<1>5. ExclusiveInTime'
  <2> SUFFICES ASSUME NEW w1 \in Workers, NEW w2 \in Workers, w1 # w2,
                      job'[w1] # 0, job'[w1] = job'[w2]
               PROVE  MinIdle \in {held'[w1], held'[w2]}
    BY DEF ExclusiveInTime
  <2>1. CASE w1 # w /\ w2 # w
    BY <2>1 DEF ExclusiveInTime, Given
  <2>2. CASE w1 = w \/ w2 = w
    BY <1>1, <2>2 DEF Given
  <2> QED
    BY <2>1, <2>2
<1> QED
  BY <1>3, <1>4, <1>5

-----------------------------------------------------------------------------
(* Type correctness *)

\* What can be reclaimed was given out before.
LEMMA ReclaimableGiven ==
    ASSUME TypeOK, GivenInv, NEW m \in Reclaimable
    PROVE  m \in Msgs /\ m <= read /\ m <= added /\ m \notin acked
<1>1. m \in Msgs /\ owner[m] # NoWorker
  BY DEF Reclaimable
<1>2. m <= read /\ m \notin acked
  BY <1>1 DEF GivenInv
<1>3. read \in 0..added /\ added \in Nat /\ m \in Nat
  BY Bounds, <1>1 DEF TypeOK, Msgs
<1> QED
  BY ONLY <1>1, <1>2, <1>3

LEMMA TypeStep ==
    ASSUME TypeOK, HandsInv, GivenInv, [Next]_vars
    PROVE  TypeOK'
<1>1. ASSUME Enqueue PROVE TypeOK'
  <2>1. /\ added' \in 0..Messages
        /\ read' \in 0..added'
        /\ job' \in [Workers -> 0..added']
        /\ acked' \subseteq 1..added'
    BY Bounds, <1>1 DEF Enqueue, TypeOK, stream, worker, counts
  <2>2. UNCHANGED <<group, owner, idle, at, held, cancelled, successes, stops, crashes,
                    faults>>
    BY <1>1 DEF Enqueue, stream, worker, counts
  <2> QED
    BY ONLY TypeOK, <2>1, <2>2 DEF TypeOK
<1>2. ASSUME Tick PROVE TypeOK'
  <2>1. idle' \in [Msgs -> 0..MinIdle]
    <3>1. idle \in [Msgs -> 0..MinIdle] /\ MinIdle \in Nat
      BY Bounds DEF TypeOK
    <3>2. \A age \in 0..MinIdle : Older(age) \in 0..MinIdle
      BY ONLY <3>1 DEF Older
    <3> HIDE DEF Older
    <3>3. \A m \in Msgs : idle[m] \in 0..MinIdle
      BY ONLY <3>1
    <3>4. idle' = [m \in Msgs |-> IF owner[m] # NoWorker THEN Older(idle[m]) ELSE idle[m]]
      BY <1>2 DEF Tick
    <3> QED
      BY ONLY <3>2, <3>3, <3>4
  <2>2. held' \in [Workers -> 0..MinIdle]
    <3>1. held \in [Workers -> 0..MinIdle] /\ MinIdle \in Nat
      BY Bounds DEF TypeOK
    <3>2. \A age \in 0..MinIdle : Older(age) \in 0..MinIdle
      BY ONLY <3>1 DEF Older
    <3>3. \A w \in Workers : held[w] \in 0..MinIdle
      BY ONLY <3>1
    <3>4. held' = [w \in Workers |-> IF job[w] # 0 \/ at[w] = "read"
                                     THEN Older(held[w]) ELSE held[w]]
      BY <1>2 DEF Tick
    <3> QED
      BY ONLY <3>2, <3>3, <3>4
  <2>3. UNCHANGED <<added, group, read, owner, at, job, cancelled, acked, successes,
                    stops, crashes, faults>>
    BY <1>2 DEF Tick, stream, worker, counts
  <2> QED
    BY ONLY TypeOK, <2>1, <2>2, <2>3 DEF TypeOK
<1>3. ASSUME NEW w \in Workers, Ensure(w) PROVE TypeOK'
  <2>1. at' \in [Workers -> Places]
    BY <1>3, GotoTyped DEF Ensure, Places
  <2>2. /\ group' \in BOOLEAN
        /\ read' \in 0..added'
    <3>1. group \in BOOLEAN /\ read \in 0..added /\ added \in Nat /\ added' = added
      BY Bounds, <1>3 DEF Ensure, TypeOK
    <3>2. read' = read \/ read' = 0
      BY <1>3 DEF Ensure, FirstUnread
    <3>3. group' = group \/ group' = TRUE
      BY <1>3 DEF Ensure
    <3>4. read' \in 0..added'
      BY ONLY <3>1, <3>2
    <3> QED
      BY ONLY <3>1, <3>3, <3>4
  <2>3. UNCHANGED <<added, owner, idle, job, held, cancelled, acked, successes, stops,
                    crashes, faults>>
    BY <1>3 DEF Ensure, stream, worker, counts
  <2> QED
    BY ONLY TypeOK, <2>1, <2>2, <2>3 DEF TypeOK
<1>4. ASSUME NEW w \in Workers, Leave(w) PROVE TypeOK'
  <2>1. at' \in [Workers -> Places]
    BY <1>4, GotoTyped DEF Leave, Places
  <2>2. UNCHANGED <<added, group, read, owner, idle, job, held, cancelled, acked,
                    successes, stops, crashes, faults>>
    BY <1>4 DEF Leave, stream, worker, counts
  <2> QED
    BY ONLY TypeOK, <2>1, <2>2 DEF TypeOK
<1>5. ASSUME NEW w \in Workers, ClaimPending(w) PROVE TypeOK'
  <2>1. /\ owner' \in [Msgs -> Workers \cup {NoWorker}]
        /\ idle' \in [Msgs -> 0..MinIdle]
        /\ at' \in [Workers -> Places]
        /\ job' \in [Workers -> 0..added']
        /\ held' \in [Workers -> 0..MinIdle]
    <3>1. PICK m \in Reclaimable : Give(w, m)
      BY <1>5 DEF ClaimPending
    <3>2. m \in Msgs /\ m <= added /\ added' = added
      BY <1>5, ReclaimableGiven DEF ClaimPending, IInv
    <3> QED
      BY <3>1, <3>2, GiveEffect DEF GivenTypes
  <2>2. UNCHANGED <<added, group, read, cancelled, acked, successes, stops, crashes,
                    faults>>
    BY <1>5 DEF ClaimPending, stream, worker, counts
  <2> QED
    BY ONLY TypeOK, <2>1, <2>2 DEF TypeOK
<1>6. ASSUME NEW w \in Workers, NothingPending(w) PROVE TypeOK'
  <2>1. at' \in [Workers -> Places]
    BY <1>6, GotoTyped DEF NothingPending, Places
  <2>2. UNCHANGED <<added, group, read, owner, idle, job, held, cancelled, acked,
                    successes, stops, crashes, faults>>
    BY <1>6 DEF NothingPending, stream, worker, counts
  <2> QED
    BY ONLY TypeOK, <2>1, <2>2 DEF TypeOK
<1>7. ASSUME NEW w \in Workers, ReadNew(w) PROVE TypeOK'
  <2>1. /\ owner' \in [Msgs -> Workers \cup {NoWorker}]
        /\ idle' \in [Msgs -> 0..MinIdle]
        /\ at' \in [Workers -> Places]
        /\ job' \in [Workers -> 0..added']
        /\ held' \in [Workers -> 0..MinIdle]
    <3>1. read + 1 \in Msgs /\ read + 1 <= added /\ added' = added
      BY Bounds, <1>7 DEF ReadNew, TypeOK, Msgs
    <3> QED
      BY <1>7, <3>1, GiveEffect DEF ReadNew, GivenTypes
  <2>2. read' \in 0..added'
    BY Bounds, <1>7 DEF ReadNew, TypeOK
  <2>3. UNCHANGED <<added, group, cancelled, acked, successes, stops, crashes, faults>>
    BY <1>7 DEF ReadNew, stream, worker, counts
  <2> QED
    BY ONLY TypeOK, <2>1, <2>2, <2>3 DEF TypeOK
<1>8. ASSUME NEW w \in Workers, ReadNothing(w) PROVE TypeOK'
  <2>1. at' \in [Workers -> Places]
    BY <1>8, GotoTyped DEF ReadNothing, Places
  <2>2. /\ job' \in [Workers -> 0..added']
        /\ held' \in [Workers -> 0..MinIdle]
    BY <1>8, DropTyped DEF ReadNothing, stream
  <2>3. UNCHANGED <<added, group, read, owner, idle, cancelled, acked, successes, stops,
                    crashes, faults>>
    BY <1>8 DEF ReadNothing, stream, worker, counts
  <2> QED
    BY ONLY TypeOK, <2>1, <2>2, <2>3 DEF TypeOK
<1>9. ASSUME NEW w \in Workers, HandleOk(w) PROVE TypeOK'
  <2>1. at' \in [Workers -> Places]
    BY <1>9, GotoTyped DEF HandleOk, Places
  <2>2. successes' \in [Msgs -> Nat]
    <3>1. /\ successes' = [successes EXCEPT ![job[w]] = @ + 1]
          /\ successes \in [Msgs -> Nat]
      BY <1>9 DEF HandleOk, TypeOK
    <3>2. job[w] \in Msgs
      BY Bounds, HandTyped, <1>9 DEF HandleOk, HandsInv
    <3>3. successes[job[w]] + 1 \in Nat
      BY ONLY <3>1, <3>2
    <3> QED
      BY ONLY <3>1, <3>3
  <2>3. UNCHANGED <<added, group, read, owner, idle, job, held, cancelled, acked, stops,
                    crashes, faults>>
    BY <1>9 DEF HandleOk, stream, worker, counts
  <2> QED
    BY ONLY TypeOK, <2>1, <2>2, <2>3 DEF TypeOK
<1>10. ASSUME NEW w \in Workers, HandleErr(w) PROVE TypeOK'
  <2>1. at' \in [Workers -> Places]
    BY <1>10, GotoTyped DEF HandleErr, Places
  <2>2. /\ job' \in [Workers -> 0..added']
        /\ held' \in [Workers -> 0..MinIdle]
    BY <1>10, DropTyped DEF HandleErr, stream
  <2>3. UNCHANGED <<added, group, read, owner, idle, cancelled, acked, successes, stops,
                    crashes, faults>>
    BY <1>10 DEF HandleErr, stream, worker, counts
  <2> QED
    BY ONLY TypeOK, <2>1, <2>2, <2>3 DEF TypeOK
<1>11. ASSUME NEW w \in Workers, Ack(w) PROVE TypeOK'
  <2>1. at' \in [Workers -> Places]
    BY <1>11, GotoTyped DEF Ack, Places
  <2>2. /\ job' \in [Workers -> 0..added']
        /\ held' \in [Workers -> 0..MinIdle]
    BY <1>11, DropTyped DEF Ack
  <2>3. /\ owner' \in [Msgs -> Workers \cup {NoWorker}]
        /\ idle' \in [Msgs -> 0..MinIdle]
    <3>1. /\ owner' = [owner EXCEPT ![job[w]] = NoWorker]
          /\ owner \in [Msgs -> Workers \cup {NoWorker}]
          /\ idle' = [idle EXCEPT ![job[w]] = 0]
          /\ idle \in [Msgs -> 0..MinIdle] /\ 0 \in 0..MinIdle
      BY Bounds, <1>11 DEF Ack, TypeOK
    <3> QED
      BY ONLY <3>1
  <2>4. acked' \subseteq 1..added'
    <3>1. /\ acked' = acked \cup {job[w]} /\ added' = added
          /\ acked \subseteq 1..added /\ added \in Nat /\ read \in 0..added
          /\ job[w] \in 1..read
      BY Bounds, <1>11 DEF Ack, TypeOK, HandsInv
    <3>2. job[w] \in 1..added
      BY ONLY <3>1
    <3> QED
      BY ONLY <3>1, <3>2
  <2>5. UNCHANGED <<added, group, read, cancelled, successes, stops, crashes, faults>>
    BY <1>11 DEF Ack, stream, worker, counts
  <2> QED
    BY ONLY TypeOK, <2>1, <2>2, <2>3, <2>4, <2>5 DEF TypeOK
<1>12. ASSUME NEW w \in Workers, AckRefused(w) PROVE TypeOK'
  <2>1. at' \in [Workers -> Places]
    BY <1>12, GotoTyped DEF AckRefused, Places
  <2>2. /\ job' \in [Workers -> 0..added']
        /\ held' \in [Workers -> 0..MinIdle]
    BY <1>12, DropTyped DEF AckRefused, stream
  <2>3. UNCHANGED <<added, group, read, owner, idle, cancelled, acked, successes, stops,
                    crashes, faults>>
    BY <1>12 DEF AckRefused, stream, worker, counts
  <2> QED
    BY ONLY TypeOK, <2>1, <2>2, <2>3 DEF TypeOK
<1>13. ASSUME NEW w \in Workers, Stop(w) PROVE TypeOK'
  <2>1. cancelled' \in [Workers -> BOOLEAN]
    BY <1>13 DEF Stop, TypeOK
  <2>2. stops' \in 0..MaxStops
    BY Bounds, <1>13 DEF Stop, TypeOK
  <2>3. UNCHANGED <<added, group, read, owner, idle, at, job, held, acked, successes,
                    crashes, faults>>
    BY <1>13 DEF Stop, stream, worker, counts
  <2> QED
    BY ONLY TypeOK, <2>1, <2>2, <2>3 DEF TypeOK
<1>14. ASSUME NEW w \in Workers, Crash(w) PROVE TypeOK'
  <2>1. at' \in [Workers -> Places]
    BY <1>14, GotoTyped DEF Crash, Places
  <2>2. /\ job' \in [Workers -> 0..added']
        /\ held' \in [Workers -> 0..MinIdle]
    BY <1>14, DropTyped DEF Crash, stream
  <2>3. crashes' \in 0..MaxCrashes
    BY Bounds, <1>14 DEF Crash, TypeOK
  <2>4. UNCHANGED <<added, group, read, owner, idle, cancelled, acked, successes, stops,
                    faults>>
    BY <1>14 DEF Crash, stream, worker, counts
  <2> QED
    BY ONLY TypeOK, <2>1, <2>2, <2>3, <2>4 DEF TypeOK
<1>15. ASSUME NEW w \in Workers, Restart(w) PROVE TypeOK'
  <2>1. at' \in [Workers -> Places]
    BY <1>15, GotoTyped DEF Restart, Places
  <2>2. cancelled' \in [Workers -> BOOLEAN]
    BY <1>15 DEF Restart, TypeOK
  <2>3. UNCHANGED <<added, group, read, owner, idle, job, held, acked, successes, stops,
                    crashes, faults>>
    BY <1>15 DEF Restart, stream, worker, counts
  <2> QED
    BY ONLY TypeOK, <2>1, <2>2, <2>3 DEF TypeOK
<1>16. ASSUME NEW w \in Workers, EnsureFails(w) PROVE TypeOK'
  <2>1. at' \in [Workers -> Places]
    BY <1>16, GotoTyped DEF EnsureFails, Places
  <2>2. faults' \in 0..MaxFaults
    BY Bounds, <1>16 DEF EnsureFails, Fault, TypeOK
  <2>3. UNCHANGED <<added, group, read, owner, idle, job, held, cancelled, acked,
                    successes, stops, crashes>>
    BY <1>16 DEF EnsureFails, stream, worker, counts
  <2> QED
    BY ONLY TypeOK, <2>1, <2>2, <2>3 DEF TypeOK
<1>17. ASSUME NEW w \in Workers, CommandFails(w) PROVE TypeOK'
  <2>1. at' \in [Workers -> Places]
    BY <1>17, GotoTyped DEF CommandFails, Places
  <2>2. /\ job' \in [Workers -> 0..added']
        /\ held' \in [Workers -> 0..MinIdle]
    BY <1>17, DropTyped DEF CommandFails, stream
  <2>3. faults' \in 0..MaxFaults
    BY Bounds, <1>17 DEF CommandFails, Fault, TypeOK
  <2>4. UNCHANGED <<added, group, read, owner, idle, cancelled, acked, successes, stops,
                    crashes>>
    BY <1>17 DEF CommandFails, stream, worker, counts
  <2> QED
    BY ONLY TypeOK, <2>1, <2>2, <2>3, <2>4 DEF TypeOK
<1>18. ASSUME NEW w \in Workers, ReplyLost(w) PROVE TypeOK'
  <2>1. at' \in [Workers -> Places]
    BY <1>18, GotoTyped DEF ReplyLost, Places
  <2>2. /\ job' \in [Workers -> 0..added']
        /\ held' \in [Workers -> 0..MinIdle]
    BY <1>18, DropTyped DEF ReplyLost
  <2>3. read' \in 0..added'
    BY Bounds, <1>18 DEF ReplyLost, TypeOK
  <2>4. owner' \in [Msgs -> Workers \cup {NoWorker}]
    BY <1>18 DEF ReplyLost, TypeOK
  <2>5. faults' \in 0..MaxFaults
    BY Bounds, <1>18 DEF ReplyLost, Fault, TypeOK
  <2>6. UNCHANGED <<added, group, idle, cancelled, acked, successes, stops, crashes>>
    BY <1>18 DEF ReplyLost, stream, worker, counts
  <2> QED
    BY ONLY TypeOK, <2>1, <2>2, <2>3, <2>4, <2>5, <2>6 DEF TypeOK
<1>19. CASE UNCHANGED vars
  BY <1>19 DEF vars, TypeOK
<1> QED
  BY <1>1, <1>2, <1>3, <1>4, <1>5, <1>6, <1>7, <1>8, <1>9, <1>10, <1>11, <1>12, <1>13,
     <1>14, <1>15, <1>16, <1>17, <1>18, <1>19 DEF Next, Run

-----------------------------------------------------------------------------
(* The inductive step *)

\* Whoever still has a message that can be reclaimed has had it for MinIdle.
LEMMA ReclaimableHeld ==
    ASSUME TypeOK, GivenInv, LeaseInv, NEW m \in Reclaimable
    PROVE  \A v \in Workers : job[v] = m => held[v] = MinIdle
<1>1. m \in Msgs /\ m # 0 /\ m \notin acked /\ idle[m] >= MinIdle
  BY ReclaimableGiven DEF Reclaimable, Msgs
<1>2. idle[m] \in 0..MinIdle /\ MinIdle \in Nat
  BY <1>1, Bounds DEF TypeOK
<1>3. idle[m] = MinIdle
  BY ONLY <1>1, <1>2
<1> QED
  BY <1>1, <1>3 DEF LeaseInv

\* A message that is not read yet is in nobody's hands, and not acknowledged.
LEMMA UnreadIsFree ==
    ASSUME TypeOK, HandsInv, GivenInv, read < added
    PROVE  /\ read + 1 \in Msgs /\ read + 1 <= added /\ read \in Nat
           /\ read + 1 \notin acked
           /\ \A v \in Workers : job[v] # read + 1
<1>1. read \in Nat /\ read + 1 \in Msgs /\ read + 1 <= added
  BY Bounds DEF TypeOK, Msgs
<1>2. read + 1 \notin acked
  BY <1>1 DEF GivenInv
<1>3. ASSUME NEW v \in Workers PROVE job[v] # read + 1
  BY <1>1 DEF HandsInv
<1> QED
  BY <1>1, <1>2, <1>3

\* The first unread message becomes pending when the group gives it out.
LEMMA NewlyPending ==
    ASSUME TypeOK, NothingLost, read' = read + 1, UNCHANGED <<added, acked>>,
           NEW w \in Workers,
           \A m \in Msgs : owner'[m] = IF m = read + 1 THEN w ELSE owner[m]
    PROVE  NothingLost'
<1> SUFFICES ASSUME NEW m \in 1..added
             PROVE  m > read' \/ owner'[m] # NoWorker \/ m \in acked
  BY DEF NothingLost
<1>1. m \in Msgs /\ read \in Nat /\ m \in Nat
  BY Bounds DEF TypeOK, Msgs
<1>2. CASE m = read + 1
  BY <1>1, <1>2, WorkersAssumption
<1>3. CASE m # read + 1
  <2>1. owner'[m] = owner[m]
    BY <1>1, <1>3
  <2>2. m > read => m > read'
    BY <1>1, <1>3
  <2> QED
    BY <2>1, <2>2 DEF NothingLost
<1> QED
  BY <1>2, <1>3

LEMMA InvStep == IInv /\ [Next]_vars => IInv'
<1> SUFFICES ASSUME IInv, [Next]_vars PROVE IInv'
  OBVIOUS
<1> USE DEF IInv, Msgs
<1>0. TypeOK'
  BY TypeStep
<1>1. ASSUME Enqueue PROVE IInv'
  <2>1. GroupInv'
    BY Bounds, <1>1 DEF Enqueue, GroupInv, TypeOK, stream, worker
  <2>2. HandsInv'
    BY Bounds, <1>1 DEF Enqueue, GroupInv, HandsInv, TypeOK, stream, worker
  <2>3. GivenInv'
    BY Bounds, <1>1 DEF Enqueue, GroupInv, HandsInv, GivenInv, TypeOK, stream, worker
  <2>4. LeaseInv'
    BY Bounds, <1>1 DEF Enqueue, HandsInv, GivenInv, LeaseInv, TypeOK, stream, worker
  <2>5. ExclusiveInTime'
    BY Bounds, <1>1 DEF Enqueue, HandsInv, GivenInv, LeaseInv, ExclusiveInTime, TypeOK,
                        stream, worker
  <2>6. AckedWasHandled'
    BY Bounds, <1>1 DEF Enqueue, HandsInv, AckedWasHandled, TypeOK, stream, worker
  <2>7. NothingLost'
    BY Bounds, <1>1 DEF Enqueue, GroupInv, HandsInv, GivenInv, NothingLost, TypeOK,
                        stream, worker
  <2> QED
    BY <1>0, <2>1, <2>2, <2>3, <2>4, <2>5, <2>6, <2>7
<1>2. ASSUME Tick PROVE IInv'
  <2>1. LeaseInv'
    <3> SUFFICES ASSUME NEW w \in Workers, job'[w] # 0
                 PROVE  \/ owner'[job'[w]] = w /\ held'[w] = idle'[job'[w]]
                        \/ held'[w] = MinIdle
                        \/ job'[w] \in acked'
      BY DEF LeaseInv
    <3>1. UNCHANGED <<job, owner, acked>> /\ job[w] \in Msgs
      BY <1>2, HandTyped DEF Tick
    <3>2. held'[w] = Older(held[w])
      BY <1>2, <3>1 DEF Tick
    <3>3. owner[job[w]] = w => idle'[job[w]] = Older(idle[job[w]])
      BY <1>2, <3>1, WorkersAssumption DEF Tick
    <3>4. Older(MinIdle) = MinIdle
      BY Bounds DEF Older
    <3>5. \/ owner[job[w]] = w /\ held[w] = idle[job[w]]
          \/ held[w] = MinIdle
          \/ job[w] \in acked
      BY <3>1 DEF LeaseInv
    <3> QED
      BY ONLY <3>1, <3>2, <3>3, <3>4, <3>5
  <2>2. ExclusiveInTime'
    BY Bounds, <1>2 DEF Tick, Older, HandsInv, GivenInv, LeaseInv, ExclusiveInTime,
                        TypeOK, stream, worker
  <2>3. GroupInv' /\ HandsInv' /\ GivenInv' /\ AckedWasHandled' /\ NothingLost'
    BY <1>2 DEF Tick, stream, worker, GroupInv, HandsInv, GivenInv, AckedWasHandled,
                NothingLost
  <2> QED
    BY <1>0, <2>1, <2>2, <2>3
<1>3. ASSUME NEW w \in Workers, Ensure(w) PROVE IInv'
  <2>1. GroupInv'
    BY Bounds, <1>3 DEF Ensure, Goto, FirstUnread, GroupInv, TypeOK, stream, worker
  <2>2. HandsInv'
    BY Bounds, <1>3 DEF Ensure, Goto, FirstUnread, GroupInv, HandsInv, TypeOK, stream,
                        worker
  <2>3. GivenInv'
    BY Bounds, <1>3 DEF Ensure, Goto, FirstUnread, GroupInv, HandsInv, GivenInv, TypeOK,
                        stream, worker
  <2>4. NothingLost'
    BY Bounds, <1>3 DEF Ensure, Goto, FirstUnread, GroupInv, HandsInv, GivenInv,
                        NothingLost, TypeOK, stream, worker
  <2>5. LeaseInv' /\ ExclusiveInTime' /\ AckedWasHandled'
    BY <1>3 DEF Ensure, stream, worker, LeaseInv, ExclusiveInTime, AckedWasHandled
  <2> QED
    BY <1>0, <2>1, <2>2, <2>3, <2>4, <2>5
<1>4. ASSUME NEW w \in Workers, Leave(w) PROVE IInv'
  <2>1. GroupInv'
    BY Bounds, <1>4 DEF Leave, Goto, GroupInv, TypeOK, stream, worker
  <2>2. HandsInv'
    BY Bounds, <1>4 DEF Leave, Goto, GroupInv, HandsInv, TypeOK, stream, worker
  <2>3. GivenInv' /\ LeaseInv' /\ ExclusiveInTime' /\ AckedWasHandled' /\ NothingLost'
    BY <1>4 DEF Leave, stream, worker, GivenInv, LeaseInv, ExclusiveInTime,
                AckedWasHandled, NothingLost
  <2> QED
    BY <1>0, <2>1, <2>2, <2>3
<1>5. ASSUME NEW w \in Workers, ClaimPending(w) PROVE IInv'
  <2>1. PICK m \in Reclaimable : Give(w, m)
    BY <1>5 DEF ClaimPending
  <2>2. /\ m \in Msgs /\ m <= read /\ m <= added /\ m \notin acked
        /\ \A v \in Workers : job[v] = m => held[v] = MinIdle
    BY ReclaimableGiven, ReclaimableHeld
  <2>3. /\ UNCHANGED <<added, group, read, acked, successes>>
        /\ at[w] = "loop" /\ read \in Nat
    BY <1>5, Bounds DEF ClaimPending, TypeOK
  <2>4. Given(w, m)
    BY <2>1, <2>2, GiveEffect
  <2>5. HandsInv' /\ LeaseInv' /\ ExclusiveInTime'
    BY <2>2, <2>3, <2>4, GiveKeeps
  <2>6. GroupInv'
    BY <2>3, <2>4 DEF Given, GroupInv
  <2>7. GivenInv'
    BY <2>2, <2>3, <2>4, WorkersAssumption DEF Given, GivenInv
  <2>8. NothingLost'
    <3>1. \A x \in 1..added : x \in Msgs
      BY Bounds DEF TypeOK
    <3>2. \A x \in Msgs : owner[x] # NoWorker => owner'[x] # NoWorker
      BY <2>4, WorkersAssumption DEF Given
    <3> QED
      BY <2>3, <3>1, <3>2 DEF NothingLost
  <2>9. AckedWasHandled'
    BY <2>3 DEF AckedWasHandled
  <2> QED
    BY <1>0, <2>5, <2>6, <2>7, <2>8, <2>9
<1>6. ASSUME NEW w \in Workers, NothingPending(w) PROVE IInv'
  <2>1. GroupInv'
    BY Bounds, <1>6 DEF NothingPending, Goto, GroupInv, TypeOK, stream, worker
  <2>2. HandsInv'
    BY Bounds, <1>6 DEF NothingPending, Goto, GroupInv, HandsInv, TypeOK, stream, worker
  <2>3. GivenInv' /\ LeaseInv' /\ ExclusiveInTime' /\ AckedWasHandled' /\ NothingLost'
    BY <1>6 DEF NothingPending, stream, worker, GivenInv, LeaseInv, ExclusiveInTime,
                AckedWasHandled, NothingLost
  <2> QED
    BY <1>0, <2>1, <2>2, <2>3
<1>7. ASSUME NEW w \in Workers, ReadNew(w) PROVE IInv'
  <2>1. /\ Give(w, read + 1) /\ read' = read + 1 /\ read < added /\ at[w] = "read"
        /\ UNCHANGED <<added, group, acked, successes>>
    BY <1>7 DEF ReadNew
  <2>2. /\ read + 1 \in Msgs /\ read + 1 <= added /\ read \in Nat /\ read + 1 \notin acked
        /\ \A v \in Workers : job[v] # read + 1
    BY <2>1, UnreadIsFree
  <2>3. Given(w, read + 1)
    BY <2>1, <2>2, GiveEffect
  <2>4. HandsInv' /\ LeaseInv' /\ ExclusiveInTime'
    BY <2>1, <2>2, <2>3, GiveKeeps
  <2>5. GroupInv'
    BY <2>1, <2>3 DEF Given, GroupInv
  <2>6. GivenInv'
    BY <2>1, <2>2, <2>3, WorkersAssumption DEF Given, GivenInv
  <2>7. NothingLost'
    BY <2>1, <2>2, <2>3, NewlyPending DEF Given
  <2>8. AckedWasHandled'
    BY <2>1 DEF AckedWasHandled
  <2> QED
    BY <1>0, <2>4, <2>5, <2>6, <2>7, <2>8
<1>8. ASSUME NEW w \in Workers, ReadNothing(w) PROVE IInv'
  <2>1. GroupInv'
    BY Bounds, <1>8 DEF ReadNothing, Goto, Drop, GroupInv, TypeOK, stream, worker
  <2>2. HandsInv'
    BY Bounds, <1>8 DEF ReadNothing, Goto, Drop, GroupInv, HandsInv, TypeOK, stream, worker
  <2>3. LeaseInv'
    BY Bounds, <1>8 DEF ReadNothing, Goto, Drop, HandsInv, GivenInv, LeaseInv, TypeOK,
                        stream, worker
  <2>4. ExclusiveInTime'
    BY Bounds, <1>8 DEF ReadNothing, Goto, Drop, HandsInv, GivenInv, LeaseInv,
                        ExclusiveInTime, TypeOK, stream, worker
  <2>5. GivenInv' /\ AckedWasHandled' /\ NothingLost'
    BY <1>8 DEF ReadNothing, stream, worker, GivenInv, AckedWasHandled, NothingLost
  <2> QED
    BY <1>0, <2>1, <2>2, <2>3, <2>4, <2>5
<1>9. ASSUME NEW w \in Workers, HandleOk(w) PROVE IInv'
  <2>1. GroupInv'
    BY Bounds, <1>9 DEF HandleOk, Goto, GroupInv, TypeOK, stream, worker
  <2>2. HandsInv'
    <3>1. /\ at' = [at EXCEPT ![w] = "ack"] /\ DOMAIN at = Workers
          /\ UNCHANGED <<job, read>> /\ at[w] = "handle"
      BY <1>9 DEF HandleOk, Goto, TypeOK, stream
    <3>2. job[w] \in Msgs /\ successes \in [Msgs -> Nat]
      <4>1. job[w] \in 1..read /\ read \in Nat
        BY Bounds, <3>1 DEF HandsInv, TypeOK
      <4> QED
        BY <4>1, HandTyped DEF TypeOK
    <3>3. /\ \A m \in Msgs : successes'[m] >= successes[m]
          /\ successes'[job[w]] > 0
      BY <1>9, <3>2 DEF HandleOk
    <3>4. ASSUME NEW v \in Workers, at[v] = "ack" PROVE successes'[job[v]] > 0
      <4>1. job[v] \in 1..read /\ read \in Nat /\ successes[job[v]] > 0
        BY Bounds, <3>4 DEF HandsInv, TypeOK
      <4>2. job[v] \in Msgs
        BY <4>1, HandTyped
      <4> QED
        BY <4>1, <4>2, <3>2, <3>3, <1>9 DEF HandleOk
    <3> QED
      BY <3>1, <3>3, <3>4 DEF HandsInv
  <2>3. AckedWasHandled'
    BY Bounds, <1>9 DEF HandleOk, Goto, HandsInv, AckedWasHandled, TypeOK, stream, worker
  <2>4. GivenInv' /\ LeaseInv' /\ ExclusiveInTime' /\ NothingLost'
    BY <1>9 DEF HandleOk, stream, worker, GivenInv, LeaseInv, ExclusiveInTime, NothingLost
  <2> QED
    BY <1>0, <2>1, <2>2, <2>3, <2>4
<1>10. ASSUME NEW w \in Workers, HandleErr(w) PROVE IInv'
  <2>1. GroupInv'
    BY Bounds, <1>10 DEF HandleErr, Goto, Drop, GroupInv, TypeOK, stream, worker
  <2>2. HandsInv'
    BY Bounds, <1>10 DEF HandleErr, Goto, Drop, GroupInv, HandsInv, TypeOK, stream, worker
  <2>3. LeaseInv'
    BY Bounds, <1>10 DEF HandleErr, Goto, Drop, HandsInv, GivenInv, LeaseInv, TypeOK,
                         stream, worker
  <2>4. ExclusiveInTime'
    BY Bounds, <1>10 DEF HandleErr, Goto, Drop, HandsInv, GivenInv, LeaseInv,
                         ExclusiveInTime, TypeOK, stream, worker
  <2>5. GivenInv' /\ AckedWasHandled' /\ NothingLost'
    BY <1>10 DEF HandleErr, stream, worker, GivenInv, AckedWasHandled, NothingLost
  <2> QED
    BY <1>0, <2>1, <2>2, <2>3, <2>4, <2>5
<1>11. ASSUME NEW w \in Workers, Ack(w) PROVE IInv'
  <2>1. GroupInv'
    BY Bounds, <1>11 DEF Ack, Goto, Drop, GroupInv, TypeOK, stream, worker
  <2>2. HandsInv'
    BY Bounds, <1>11 DEF Ack, Goto, Drop, GroupInv, HandsInv, TypeOK, stream, worker
  <2>3. GivenInv'
    BY Bounds, <1>11 DEF Ack, Goto, Drop, GroupInv, HandsInv, GivenInv, TypeOK, stream,
                         worker
  <2>4. LeaseInv'
    <3>1. /\ UNCHANGED <<read, successes>> /\ job[w] \in Msgs
          /\ owner' = [owner EXCEPT ![job[w]] = NoWorker]
          /\ idle' = [idle EXCEPT ![job[w]] = 0]
          /\ job' = [job EXCEPT ![w] = 0] /\ held' = [held EXCEPT ![w] = 0]
          /\ acked' = acked \cup {job[w]}
      <4>1. job[w] \in 1..read /\ read \in Nat
        BY Bounds, <1>11 DEF Ack, HandsInv, TypeOK
      <4> QED
        BY <4>1, <1>11, HandTyped DEF Ack, Drop
    <3>2. ASSUME NEW v \in Workers, job'[v] # 0
          PROVE  \/ owner'[job'[v]] = v /\ held'[v] = idle'[job'[v]]
                 \/ held'[v] = MinIdle
                 \/ job'[v] \in acked'
      <4>1. /\ v # w /\ job'[v] = job[v] /\ held'[v] = held[v]
            /\ job[v] \in Msgs
        BY <3>1, <3>2, HandTyped DEF TypeOK
      <4> QED
        BY <3>1, <4>1, <3>2 DEF LeaseInv, TypeOK
    <3> QED
      BY <3>2 DEF LeaseInv
  <2>5. ExclusiveInTime'
    BY Bounds, <1>11 DEF Ack, Goto, Drop, HandsInv, GivenInv, LeaseInv, ExclusiveInTime,
                         TypeOK, stream, worker
  <2>6. AckedWasHandled'
    BY Bounds, <1>11 DEF Ack, Goto, Drop, HandsInv, AckedWasHandled, TypeOK, stream, worker
  <2>7. NothingLost'
    BY Bounds, <1>11 DEF Ack, Goto, Drop, GroupInv, HandsInv, GivenInv, NothingLost,
                         TypeOK, stream, worker
  <2> QED
    BY <1>0, <2>1, <2>2, <2>3, <2>4, <2>5, <2>6, <2>7
<1>12. ASSUME NEW w \in Workers, AckRefused(w) PROVE IInv'
  <2>1. GroupInv'
    BY Bounds, <1>12 DEF AckRefused, Goto, Drop, GroupInv, TypeOK, stream, worker
  <2>2. HandsInv'
    BY Bounds, <1>12 DEF AckRefused, Goto, Drop, GroupInv, HandsInv, TypeOK, stream, worker
  <2>3. LeaseInv'
    BY Bounds, <1>12 DEF AckRefused, Goto, Drop, HandsInv, GivenInv, LeaseInv, TypeOK,
                         stream, worker
  <2>4. ExclusiveInTime'
    BY Bounds, <1>12 DEF AckRefused, Goto, Drop, HandsInv, GivenInv, LeaseInv,
                         ExclusiveInTime, TypeOK, stream, worker
  <2>5. GivenInv' /\ AckedWasHandled' /\ NothingLost'
    BY <1>12 DEF AckRefused, stream, worker, GivenInv, AckedWasHandled, NothingLost
  <2> QED
    BY <1>0, <2>1, <2>2, <2>3, <2>4, <2>5
<1>13. ASSUME NEW w \in Workers, Stop(w) PROVE IInv'
  <2>1. /\ GroupInv' /\ HandsInv' /\ GivenInv' /\ LeaseInv'
        /\ ExclusiveInTime' /\ AckedWasHandled' /\ NothingLost'
    BY <1>13 DEF Stop, stream, worker, GroupInv, HandsInv, GivenInv, LeaseInv,
                 ExclusiveInTime, AckedWasHandled, NothingLost
  <2> QED
    BY <1>0, <2>1
<1>14. ASSUME NEW w \in Workers, Crash(w) PROVE IInv'
  <2>1. GroupInv'
    BY Bounds, <1>14 DEF Crash, Goto, Drop, GroupInv, TypeOK, stream, worker
  <2>2. HandsInv'
    BY Bounds, <1>14 DEF Crash, Goto, Drop, GroupInv, HandsInv, TypeOK, stream, worker
  <2>3. LeaseInv'
    BY Bounds, <1>14 DEF Crash, Goto, Drop, HandsInv, GivenInv, LeaseInv, TypeOK, stream,
                         worker
  <2>4. ExclusiveInTime'
    BY Bounds, <1>14 DEF Crash, Goto, Drop, HandsInv, GivenInv, LeaseInv, ExclusiveInTime,
                         TypeOK, stream, worker
  <2>5. GivenInv' /\ AckedWasHandled' /\ NothingLost'
    BY <1>14 DEF Crash, stream, worker, GivenInv, AckedWasHandled, NothingLost
  <2> QED
    BY <1>0, <2>1, <2>2, <2>3, <2>4, <2>5
<1>15. ASSUME NEW w \in Workers, Restart(w) PROVE IInv'
  <2>1. GroupInv'
    BY Bounds, <1>15 DEF Restart, Goto, GroupInv, TypeOK, stream, worker
  <2>2. HandsInv'
    BY Bounds, <1>15 DEF Restart, Goto, GroupInv, HandsInv, TypeOK, stream, worker
  <2>3. GivenInv' /\ LeaseInv' /\ ExclusiveInTime' /\ AckedWasHandled' /\ NothingLost'
    BY <1>15 DEF Restart, stream, worker, GivenInv, LeaseInv, ExclusiveInTime,
                 AckedWasHandled, NothingLost
  <2> QED
    BY <1>0, <2>1, <2>2, <2>3
<1>16. ASSUME NEW w \in Workers, EnsureFails(w) PROVE IInv'
  <2>1. GroupInv'
    BY Bounds, <1>16 DEF EnsureFails, Goto, GroupInv, TypeOK, stream, worker
  <2>2. HandsInv'
    BY Bounds, <1>16 DEF EnsureFails, Goto, GroupInv, HandsInv, TypeOK, stream, worker
  <2>3. GivenInv' /\ LeaseInv' /\ ExclusiveInTime' /\ AckedWasHandled' /\ NothingLost'
    BY <1>16 DEF EnsureFails, stream, worker, GivenInv, LeaseInv, ExclusiveInTime,
                 AckedWasHandled, NothingLost
  <2> QED
    BY <1>0, <2>1, <2>2, <2>3
<1>17. ASSUME NEW w \in Workers, CommandFails(w) PROVE IInv'
  <2>1. GroupInv'
    BY Bounds, <1>17 DEF CommandFails, Goto, Drop, GroupInv, TypeOK, stream, worker
  <2>2. HandsInv'
    BY Bounds, <1>17 DEF CommandFails, Goto, Drop, GroupInv, HandsInv, TypeOK, stream,
                         worker
  <2>3. LeaseInv'
    BY Bounds, <1>17 DEF CommandFails, Goto, Drop, HandsInv, GivenInv, LeaseInv, TypeOK,
                         stream, worker
  <2>4. ExclusiveInTime'
    BY Bounds, <1>17 DEF CommandFails, Goto, Drop, HandsInv, GivenInv, LeaseInv,
                         ExclusiveInTime, TypeOK, stream, worker
  <2>5. GivenInv' /\ AckedWasHandled' /\ NothingLost'
    BY <1>17 DEF CommandFails, stream, worker, GivenInv, AckedWasHandled, NothingLost
  <2> QED
    BY <1>0, <2>1, <2>2, <2>3, <2>4, <2>5
<1>18. ASSUME NEW w \in Workers, ReplyLost(w) PROVE IInv'
  <2>1. GroupInv'
    BY Bounds, <1>18 DEF ReplyLost, Goto, Drop, GroupInv, TypeOK, stream, worker
  <2>2. HandsInv'
    BY Bounds, <1>18 DEF ReplyLost, Goto, Drop, GroupInv, HandsInv, TypeOK, stream, worker
  <2>3. GivenInv'
    <3>1. /\ read \in Nat /\ read' = read + 1 /\ acked' = acked
          /\ owner' = [owner EXCEPT ![read + 1] = w]
      BY Bounds, <1>18 DEF ReplyLost, TypeOK
    <3>2. owner \in [Msgs -> Workers \cup {NoWorker}] /\ Msgs \subseteq Nat /\ GivenInv
      BY Bounds, <1>18 DEF TypeOK, Msgs
    <3>3. \A m \in Msgs : owner'[m] = IF m = read + 1 THEN w ELSE owner[m]
      BY <3>1, <3>2
    <3> QED
      BY ONLY <3>1, <3>2, <3>3 DEF GivenInv
  <2>4. LeaseInv'
    <3> SUFFICES ASSUME NEW v \in Workers, job'[v] # 0
                 PROVE  \/ owner'[job'[v]] = v /\ held'[v] = idle'[job'[v]]
                        \/ held'[v] = MinIdle
                        \/ job'[v] \in acked'
      BY DEF LeaseInv
    <3>1. read < added /\ owner' = [owner EXCEPT ![read + 1] = w] /\ UNCHANGED <<idle,
                                                                                 acked>>
          /\ job' = [job EXCEPT ![w] = 0] /\ held' = [held EXCEPT ![w] = 0]
      BY <1>18 DEF ReplyLost, Drop
    <3>2. v # w /\ job'[v] = job[v] /\ held'[v] = held[v]
      BY <3>1 DEF TypeOK
    <3>3. job[v] \in Msgs /\ job[v] # read + 1
      BY <3>1, <3>2, HandTyped, UnreadIsFree
    <3>4. owner'[job[v]] = owner[job[v]]
      BY <3>1, <3>3 DEF TypeOK
    <3>5. \/ owner[job[v]] = v /\ held[v] = idle[job[v]]
          \/ held[v] = MinIdle
          \/ job[v] \in acked
      BY <3>2 DEF LeaseInv
    <3> QED
      BY ONLY <3>1, <3>2, <3>4, <3>5
  <2>5. ExclusiveInTime'
    BY Bounds, <1>18 DEF ReplyLost, Goto, Drop, HandsInv, GivenInv, LeaseInv,
                         ExclusiveInTime, TypeOK, stream, worker
  <2>6. NothingLost'
    <3>1. /\ read < added /\ read' = read + 1 /\ owner' = [owner EXCEPT ![read + 1] = w]
          /\ UNCHANGED <<added, acked>>
      BY <1>18 DEF ReplyLost
    <3>2. read + 1 \in Msgs /\ read \in Nat
      BY <3>1, UnreadIsFree
    <3>3. \A m \in Msgs : owner'[m] = IF m = read + 1 THEN w ELSE owner[m]
      BY <3>1, <3>2 DEF TypeOK
    <3> QED
      BY <3>1, <3>2, <3>3, NewlyPending
  <2>7. AckedWasHandled'
    BY <1>18 DEF ReplyLost, stream, worker, AckedWasHandled
  <2> QED
    BY <1>0, <2>1, <2>2, <2>3, <2>4, <2>5, <2>6, <2>7
<1>19. CASE UNCHANGED vars
  BY <1>0, <1>19 DEF vars, GroupInv, HandsInv, GivenInv, LeaseInv, ExclusiveInTime,
                    AckedWasHandled, NothingLost
<1> QED
  BY <1>1, <1>2, <1>3, <1>4, <1>5, <1>6, <1>7, <1>8, <1>9, <1>10, <1>11, <1>12, <1>13,
     <1>14, <1>15, <1>16, <1>17, <1>18, <1>19 DEF Next, Run

-----------------------------------------------------------------------------
(* The theorems *)

LEMMA Invariance == Spec => []IInv
BY InvInit, InvStep, PTL DEF Spec

\* Every reachable state of the queue is well typed.
THEOREM QueueTypeCorrect == Spec => []TypeOK
<1>1. IInv => TypeOK
  BY DEF IInv
<1> QED
  BY Invariance, <1>1, PTL

\* A message is acknowledged only after a handler succeeded with it, whatever
\* reclaims, lost replies and crashes lie in between (worker.go:88-94).
THEOREM AckedIsHandled == Spec => []AckedWasHandled
<1>1. IInv => AckedWasHandled
  BY DEF IInv
<1> QED
  BY Invariance, <1>1, PTL

\* A message the group gave out stays pending until it is acknowledged, so no
\* crash, stop or failed command loses a job.
THEOREM NothingIsLost == Spec => []NothingLost
<1>1. IInv => NothingLost
  BY DEF IInv
<1> QED
  BY Invariance, <1>1, PTL

\* Two workers share a message only when one of them has had it for
\* pendingMinIdle, for any number of workers and messages.
THEOREM QueueExclusion == Spec => []ExclusiveInTime
<1>1. IInv => ExclusiveInTime
  BY DEF IInv
<1> QED
  BY Invariance, <1>1, PTL

-----------------------------------------------------------------------------
(* Prompt handlers: each job succeeds once, but for failures *)

\* A message in hand has not reached the threshold, nor is it acknowledged.
PromptInv ==
    \A w \in Workers : job[w] # 0 => held[w] < MinIdle /\ job[w] \notin acked

\* The success of a message is acknowledged or about to be.
Done(m) == m \in acked \/ \E w \in Workers : at[w] = "ack" /\ job[w] = m

Indicator(m) == IF Done(m) THEN 1 ELSE 0

\* Stopped workers that may still have an acknowledgement refused: each once.
Stopping == {w \in Workers : cancelled[w] /\ at[w] \in {"read", "handle", "ack"}}

CountInv ==
    /\ IsFiniteSet(Stopping)
    /\ \A m \in Msgs : successes[m] + Cardinality(Stopping)
                          <= Indicator(m) + stops + crashes + faults

OnceInv == PromptWorkers /\ IInv /\ PromptInv /\ CountInv

LEMMA OnceInit == Init /\ PromptWorkers => OnceInv
<1> SUFFICES ASSUME Init, PromptWorkers PROVE OnceInv
  OBVIOUS
<1>1. IInv
  BY InvInit
<1>2. PromptInv
  BY DEF PromptInv, Init
<1>3. Stopping = {} /\ IsFiniteSet(Stopping) /\ Cardinality(Stopping) = 0
  BY FS_EmptySet DEF Stopping, Init
<1>4. ASSUME NEW m \in Msgs
      PROVE  successes[m] + Cardinality(Stopping) <= Indicator(m) + stops + crashes + faults
  BY <1>3 DEF Init, Indicator
<1> QED
  BY <1>1, <1>2, <1>3, <1>4 DEF OnceInv, CountInv

\* No two workers have one message in their hands.
LEMMA Alone ==
    ASSUME OnceInv, NEW v \in Workers, NEW w \in Workers, job[v] = job[w], job[w] # 0
    PROVE  v = w
<1>1. held[v] \in Nat /\ held[w] \in Nat /\ MinIdle \in Nat
  BY Bounds DEF OnceInv, IInv, TypeOK
<1>2. held[v] < MinIdle /\ held[w] < MinIdle
  BY DEF OnceInv, PromptInv
<1> QED
  BY <1>1, <1>2 DEF OnceInv, IInv, ExclusiveInTime

LEMMA PromptStep ==
    ASSUME OnceInv, [Next]_vars
    PROVE  PromptInv'
<1> USE DEF OnceInv
<1>1. IInv /\ TypeOK /\ HandsInv /\ GivenInv /\ LeaseInv /\ PromptInv
      /\ MinIdle \in Nat /\ 0 < MinIdle /\ held \in [Workers -> 0..MinIdle]
      /\ job \in [Workers -> 0..added]
  BY Bounds DEF IInv, TypeOK
<1>2. CASE UNCHANGED <<job, held, acked>>
  BY <1>1, <1>2 DEF PromptInv
<1>3. ASSUME NEW w \in Workers, Drop(w), UNCHANGED acked
      PROVE  PromptInv'
  BY <1>1, <1>3 DEF Drop, PromptInv
<1>4. ASSUME NEW w \in Workers, NEW m \in Msgs, Given(w, m), m \notin acked, UNCHANGED acked
      PROVE  PromptInv'
  BY <1>1, <1>4 DEF Given, PromptInv
<1>5. CASE Tick
  <2>1. ASSUME NEW w \in Workers, job[w] # 0
        PROVE  held'[w] < MinIdle /\ job[w] \notin acked
    <3>1. at[w] = "handle"
      BY <1>1, <1>5, <2>1 DEF Tick, HandsInv
    <3>2. held[w] + 1 < MinIdle
      BY <1>5, <3>1 DEF Tick
    <3>3. PICK n \in Nat : n = held[w]
      BY <1>1
    <3>4. held'[w] = n + 1
      BY <1>1, <1>5, <2>1, <3>2, <3>3 DEF Tick, Older
    <3> QED
      BY <1>1, <2>1, <3>2, <3>3, <3>4 DEF PromptInv
  <2> QED
    BY <1>5, <2>1 DEF Tick, PromptInv
<1>6. ASSUME NEW w \in Workers, ClaimPending(w)
      PROVE  PromptInv'
  <2>1. PICK m \in Reclaimable : Give(w, m)
    BY <1>6 DEF ClaimPending
  <2>2. m \in Msgs /\ m <= added /\ m \notin acked
    BY <1>1, ReclaimableGiven
  <2> QED
    BY <1>1, <1>4, <1>6, <2>1, <2>2, GiveEffect DEF ClaimPending
<1>7. ASSUME NEW w \in Workers, ReadNew(w)
      PROVE  PromptInv'
  <2>1. Give(w, read + 1) /\ read < added /\ UNCHANGED acked
    BY <1>7 DEF ReadNew
  <2>2. read + 1 \in Msgs /\ read + 1 <= added /\ read + 1 \notin acked
    BY <1>1, <2>1, UnreadIsFree
  <2> QED
    BY <1>1, <1>4, <2>1, <2>2, GiveEffect
<1>8. ASSUME NEW w \in Workers, Ack(w)
      PROVE  PromptInv'
  <2>1. /\ acked' = acked \cup {job[w]} /\ job' = [job EXCEPT ![w] = 0]
        /\ held' = [held EXCEPT ![w] = 0] /\ at[w] = "ack"
    BY <1>8 DEF Ack, Drop
  <2>2. job[w] # 0
    <3>1. job[w] \in 1..read /\ read \in Nat
      BY <1>1, <2>1, Bounds DEF HandsInv, TypeOK
    <3> QED
      BY <3>1
  <2>3. ASSUME NEW v \in Workers, job'[v] # 0
        PROVE  held'[v] < MinIdle /\ job'[v] \notin acked'
    <3>1. v # w /\ job'[v] = job[v] /\ held'[v] = held[v]
      BY <1>1, <2>1, <2>3
    <3>2. job[v] # job[w]
      BY <2>2, <3>1, Alone
    <3> QED
      BY <1>1, <2>1, <2>3, <3>1, <3>2 DEF PromptInv
  <2> QED
    BY <2>3 DEF PromptInv
<1>9. ASSUME NEW w \in Workers,
             \/ ReadNothing(w) \/ HandleErr(w) \/ AckRefused(w)
             \/ Crash(w) \/ CommandFails(w) \/ ReplyLost(w)
      PROVE  PromptInv'
  BY <1>3, <1>9 DEF ReadNothing, HandleErr, AckRefused, Crash, CommandFails, ReplyLost
<1>10. ASSUME NEW w \in Workers,
              \/ Ensure(w) \/ Leave(w) \/ NothingPending(w) \/ HandleOk(w)
              \/ Stop(w) \/ Restart(w) \/ EnsureFails(w)
       PROVE  PromptInv'
  BY <1>2, <1>10 DEF Ensure, Leave, NothingPending, HandleOk, Stop, Restart, EnsureFails
<1>11. CASE Enqueue \/ UNCHANGED vars
  BY <1>2, <1>11 DEF Enqueue, worker, vars
<1> QED
  BY <1>5, <1>6, <1>7, <1>8, <1>9, <1>10, <1>11 DEF Next, Run

\* What the count allows a step: more done, fewer stopping, more failures.
Spent == stops + crashes + faults

LEMMA Counted ==
    ASSUME TypeOK, TypeOK', CountInv, IsFiniteSet(Stopping'),
           \A m \in Msgs :
              \/ /\ successes'[m] = successes[m] /\ Spent' = Spent
                 /\ Cardinality(Stopping') <= Cardinality(Stopping) /\ (Done(m) => Done(m)')
              \/ /\ successes'[m] = successes[m] /\ Spent' = Spent + 1
                 /\ Cardinality(Stopping') <= Cardinality(Stopping)
              \/ /\ successes'[m] = successes[m] /\ Spent' = Spent + 1
                 /\ Cardinality(Stopping') <= Cardinality(Stopping) + 1 /\ (Done(m) => Done(m)')
              \/ /\ successes'[m] = successes[m] /\ Spent' = Spent
                 /\ Cardinality(Stopping') <= Cardinality(Stopping) - 1
              \/ /\ successes'[m] = successes[m] + 1 /\ Spent' = Spent
                 /\ Cardinality(Stopping') <= Cardinality(Stopping) /\ ~Done(m) /\ Done(m)'
    PROVE  CountInv'
<1>1. PICK a \in Nat, b \in Nat : a = Spent /\ b = Spent'
  <2>1. /\ {stops, crashes, faults} \subseteq Nat
        /\ {stops', crashes', faults'} \subseteq Nat
    BY Bounds DEF TypeOK
  <2> QED
    BY <2>1 DEF Spent
<1>2. PICK k \in Nat, l \in Nat : k = Cardinality(Stopping) /\ l = Cardinality(Stopping')
  BY FS_CardinalityType DEF CountInv
<1>3. ASSUME NEW m \in Msgs
      PROVE  successes'[m] + l <= Indicator(m)' + b
  <2>1. PICK s \in Nat, t \in Nat : s = successes[m] /\ t = successes'[m]
    BY DEF TypeOK
  <2>2. PICK i \in {0, 1}, j \in {0, 1} :
            /\ i = Indicator(m) /\ j = Indicator(m)'
            /\ i = 1 <=> Done(m)
            /\ j = 1 <=> Done(m)'
    BY DEF Indicator
  <2>3. s + k <= i + a
    BY <1>1, <1>2, <2>1, <2>2 DEF CountInv, Spent, TypeOK
  <2>4. \/ t = s /\ b = a /\ l <= k /\ i <= j
        \/ t = s /\ b = a + 1 /\ l <= k
        \/ t = s /\ b = a + 1 /\ l <= k + 1 /\ i <= j
        \/ t = s /\ b = a /\ l <= k - 1
        \/ t = s + 1 /\ b = a /\ l <= k /\ i = 0 /\ j = 1
    BY <1>1, <1>2, <2>1, <2>2
  <2>5. t + l <= j + b
    BY <2>2, <2>3, <2>4
  <2> QED
    BY <2>1, <2>2, <2>5
<1>4. ASSUME NEW m \in Msgs
      PROVE  successes'[m] + Cardinality(Stopping')
                 <= Indicator(m)' + stops' + crashes' + faults'
  <2>1. Indicator(m)' \in Nat
    BY DEF Indicator
  <2> QED
    BY <1>1, <1>2, <1>3, <2>1 DEF Spent, TypeOK
<1> QED
  BY <1>4 DEF CountInv

LEMMA StoppingShrinks ==
    ASSUME CountInv, Stopping' \subseteq Stopping
    PROVE  IsFiniteSet(Stopping') /\ Cardinality(Stopping') <= Cardinality(Stopping)
<1>1. PICK S, T : S = Stopping /\ T = Stopping' /\ IsFiniteSet(S) /\ T \subseteq S
  BY DEF CountInv
<1> QED
  BY <1>1, FS_Subset

LEMMA StoppingGrows ==
    ASSUME CountInv, NEW w, Stopping' \subseteq Stopping \cup {w}
    PROVE  IsFiniteSet(Stopping') /\ Cardinality(Stopping') <= Cardinality(Stopping) + 1
<1>1. PICK S, T : S = Stopping /\ T = Stopping' /\ IsFiniteSet(S) /\ T \subseteq S \cup {w}
  BY DEF CountInv
<1>2. /\ IsFiniteSet(S \cup {w}) /\ Cardinality(S) \in Nat
      /\ Cardinality(S \cup {w}) = IF w \in S THEN Cardinality(S) ELSE Cardinality(S) + 1
  BY <1>1, FS_AddElement, FS_CardinalityType
<1>3. IsFiniteSet(T) /\ Cardinality(T) <= Cardinality(S \cup {w}) /\ Cardinality(T) \in Nat
  BY <1>1, <1>2, FS_Subset, FS_CardinalityType
<1> QED
  BY <1>1, <1>2, <1>3

LEMMA StoppingLoses ==
    ASSUME CountInv, NEW w \in Stopping, Stopping' \subseteq Stopping \ {w}
    PROVE  IsFiniteSet(Stopping') /\ Cardinality(Stopping') <= Cardinality(Stopping) - 1
<1>1. PICK S, T : /\ S = Stopping /\ T = Stopping' /\ IsFiniteSet(S)
                  /\ T \subseteq S \ {w} /\ w \in S
  BY DEF CountInv
<1>2. IsFiniteSet(S \ {w}) /\ Cardinality(S \ {w}) = Cardinality(S) - 1
  BY <1>1, FS_RemoveElement
<1>3. IsFiniteSet(T) /\ Cardinality(T) <= Cardinality(S \ {w})
  BY <1>1, <1>2, FS_Subset
<1> QED
  BY <1>1, <1>2, <1>3

\* A worker moves, not away from XACK and not into stopping.
LEMMA Moved ==
    ASSUME NEW w \in Workers, at[w] # "ack", acked \subseteq acked',
           \A v \in Workers \ {w} : /\ at'[v] = at[v] /\ job'[v] = job[v]
                                    /\ cancelled'[v] = cancelled[v],
           cancelled'[w] /\ at'[w] \in {"read", "handle", "ack"} =>
               cancelled[w] /\ at[w] \in {"read", "handle", "ack"}
    PROVE  Stopping' \subseteq Stopping /\ \A m \in Msgs : Done(m) => Done(m)'
BY DEF Stopping, Done

LEMMA Quiet ==
    ASSUME TypeOK, TypeOK', CountInv, UNCHANGED <<successes, counts>>,
           Stopping' \subseteq Stopping, \A m \in Msgs : Done(m) => Done(m)'
    PROVE  CountInv'
<1>1. Spent' = Spent /\ \A m \in Msgs : successes'[m] = successes[m]
  BY DEF Spent, counts
<1> QED
  BY <1>1, StoppingShrinks, Counted

LEMMA CountStep ==
    ASSUME OnceInv, TypeOK', [Next]_vars
    PROVE  CountInv'
<1>1. /\ IInv /\ TypeOK /\ HandsInv /\ GivenInv /\ LeaseInv /\ PromptInv /\ CountInv
      /\ at \in [Workers -> Places] /\ job \in [Workers -> 0..added]
      /\ cancelled \in [Workers -> BOOLEAN]
  BY DEF OnceInv, IInv, TypeOK
<1>2. CASE UNCHANGED <<at, job, cancelled, acked, successes, counts>>
  <2>1. Stopping' \subseteq Stopping /\ \A m \in Msgs : Done(m) => Done(m)'
    BY <1>2 DEF Stopping, Done
  <2> QED
    BY <1>1, <1>2, <2>1, Quiet
<1>3. ASSUME NEW w \in Workers,
             \/ Ensure(w) \/ Leave(w) \/ NothingPending(w) \/ ReadNothing(w)
             \/ HandleErr(w) \/ Restart(w)
      PROVE  CountInv'
  <2>1. /\ at[w] # "ack" /\ UNCHANGED <<acked, successes, counts>>
        /\ \A v \in Workers \ {w} : /\ at'[v] = at[v] /\ job'[v] = job[v]
                                    /\ cancelled'[v] = cancelled[v]
        /\ cancelled'[w] /\ at'[w] \in {"read", "handle", "ack"} =>
              cancelled[w] /\ at[w] \in {"read", "handle", "ack"}
    BY <1>1, <1>3 DEF Ensure, Leave, NothingPending, ReadNothing, HandleErr, Restart, Goto,
                      Drop, stream
  <2> QED
    BY <1>1, <2>1, Moved, Quiet
<1>4. ASSUME NEW w \in Workers, ClaimPending(w) \/ ReadNew(w)
      PROVE  CountInv'
  <2>1. \E m \in Msgs : Given(w, m)
    <3>1. CASE ClaimPending(w)
      <4>1. PICK m \in Reclaimable : Give(w, m)
        BY <3>1 DEF ClaimPending
      <4>2. m \in Msgs /\ m <= added
        BY <1>1, ReclaimableGiven
      <4> QED
        BY <1>1, <4>1, <4>2, GiveEffect
    <3>2. CASE ReadNew(w)
      <4>1. Give(w, read + 1) /\ read < added
        BY <3>2 DEF ReadNew
      <4>2. read + 1 \in Msgs /\ read + 1 <= added
        BY <1>1, <4>1, UnreadIsFree
      <4> QED
        BY <1>1, <4>1, <4>2, GiveEffect
    <3> QED
      BY <1>4, <3>1, <3>2
  <2>2. /\ at[w] # "ack" /\ UNCHANGED <<acked, successes, counts, cancelled>>
        /\ cancelled[w] => at[w] = "read"
    BY <1>4 DEF ClaimPending, ReadNew
  <2>3. \A v \in Workers \ {w} : at'[v] = at[v] /\ job'[v] = job[v]
    BY <2>1 DEF Given
  <2> QED
    BY <1>1, <2>2, <2>3, Moved, Quiet
<1>5. ASSUME NEW w \in Workers, Ack(w)
      PROVE  CountInv'
  <2>1. /\ at' = [at EXCEPT ![w] = "loop"] /\ job' = [job EXCEPT ![w] = 0]
        /\ acked' = acked \cup {job[w]} /\ UNCHANGED <<cancelled, successes, counts>>
    BY <1>5 DEF Ack, Goto, Drop
  <2>2. Stopping' \subseteq Stopping
    BY <1>1, <2>1 DEF Stopping
  <2>3. \A m \in Msgs : Done(m) => Done(m)'
    BY <1>1, <2>1 DEF Done
  <2> QED
    BY <1>1, <2>1, <2>2, <2>3, Quiet
<1>6. ASSUME NEW w \in Workers, HandleOk(w)
      PROVE  CountInv'
  <2>1. /\ at[w] = "handle" /\ at' = [at EXCEPT ![w] = "ack"]
        /\ successes' = [successes EXCEPT ![job[w]] = @ + 1]
        /\ UNCHANGED <<job, cancelled, acked, counts>>
    BY <1>6 DEF HandleOk, Goto
  <2>2. PICK m \in Msgs : m = job[w] /\ m # 0
    <3>1. job[w] \in 1..read /\ read \in Nat
      BY <1>1, <2>1, Bounds DEF HandsInv, TypeOK
    <3> QED
      BY <1>1, <3>1, HandTyped
  <2>3. Stopping' \subseteq Stopping /\ \A x \in Msgs : Done(x) => Done(x)'
    BY <1>1, <2>1, Moved
  <2>4. ~Done(m)
    <3>1. m \notin acked
      BY <1>1, <2>2 DEF PromptInv
    <3>2. ASSUME NEW v \in Workers, at[v] = "ack", job[v] = m
          PROVE  FALSE
      BY <2>1, <2>2, <3>2, Alone
    <3> QED
      BY <3>1, <3>2 DEF Done
  <2>5. Done(m)'
    BY <1>1, <2>1, <2>2 DEF Done
  <2>6. \A x \in Msgs : successes'[x] = IF x = m THEN successes[m] + 1 ELSE successes[x]
    BY <1>1, <2>1, <2>2 DEF TypeOK
  <2>7. Spent' = Spent
    BY <2>1 DEF Spent, counts
  <2>8. IsFiniteSet(Stopping') /\ Cardinality(Stopping') <= Cardinality(Stopping)
    BY <1>1, <2>3, StoppingShrinks
  <2> QED
    BY <1>1, <2>3, <2>4, <2>5, <2>6, <2>7, <2>8, Counted
<1>7. ASSUME NEW w \in Workers, AckRefused(w)
      PROVE  CountInv'
  <2>1. /\ at[w] = "ack" /\ cancelled[w] /\ at' = [at EXCEPT ![w] = "loop"]
        /\ UNCHANGED <<cancelled, successes, counts>>
    BY <1>7 DEF AckRefused, Goto
  <2>2. w \in Stopping /\ Stopping' \subseteq Stopping \ {w}
    BY <1>1, <2>1 DEF Stopping
  <2>3. IsFiniteSet(Stopping') /\ Cardinality(Stopping') <= Cardinality(Stopping) - 1
    BY <1>1, <2>2, StoppingLoses
  <2>4. Spent' = Spent /\ \A m \in Msgs : successes'[m] = successes[m]
    BY <2>1 DEF Spent, counts
  <2> QED
    BY <1>1, <2>3, <2>4, Counted
<1>8. ASSUME NEW w \in Workers, Stop(w)
      PROVE  CountInv'
  <2>1. /\ UNCHANGED <<at, job, acked, successes>> /\ stops' = stops + 1
        /\ UNCHANGED <<crashes, faults>> /\ cancelled' = [cancelled EXCEPT ![w] = TRUE]
    BY <1>8 DEF Stop
  <2>2. Stopping' \subseteq Stopping \cup {w}
    BY <1>1, <2>1 DEF Stopping
  <2>3. IsFiniteSet(Stopping') /\ Cardinality(Stopping') <= Cardinality(Stopping) + 1
    BY <1>1, <2>2, StoppingGrows
  <2>4. Spent' = Spent + 1
    BY <1>1, <2>1 DEF Spent, TypeOK
  <2>5. \A m \in Msgs : successes'[m] = successes[m] /\ (Done(m) => Done(m)')
    BY <2>1 DEF Done
  <2> QED
    BY <1>1, <2>3, <2>4, <2>5, Counted
<1>9. ASSUME NEW w \in Workers,
             Crash(w) \/ EnsureFails(w) \/ CommandFails(w) \/ ReplyLost(w)
      PROVE  CountInv'
  <2>1. /\ UNCHANGED <<cancelled, successes>>
        /\ \E place \in {"dead", "gone", "loop"} : at' = [at EXCEPT ![w] = place]
    BY <1>9 DEF Crash, EnsureFails, CommandFails, ReplyLost, Goto
  <2>2. Stopping' \subseteq Stopping
    BY <1>1, <2>1 DEF Stopping
  <2>3. Spent' = Spent + 1
    <3>1. stops \in Nat /\ crashes \in Nat /\ faults \in Nat
      BY <1>1, Bounds DEF TypeOK
    <3> QED
      BY <1>9, <3>1 DEF Crash, EnsureFails, CommandFails, ReplyLost, Fault, Spent
  <2>4. IsFiniteSet(Stopping') /\ Cardinality(Stopping') <= Cardinality(Stopping)
    BY <1>1, <2>2, StoppingShrinks
  <2>5. \A m \in Msgs : successes'[m] = successes[m]
    BY <2>1
  <2> QED
    BY <1>1, <2>3, <2>4, <2>5, Counted
<1>10. CASE Enqueue \/ Tick \/ UNCHANGED vars
  BY <1>2, <1>10 DEF Enqueue, Tick, vars, worker, counts
<1> QED
  BY <1>3, <1>4, <1>5, <1>6, <1>7, <1>8, <1>9, <1>10 DEF Next, Run

\* With handlers that end within pendingMinIdle, no job succeeds twice but for
\* a stop, a crash or a failed command in between, one each: reclaims repeat
\* none, for any number of workers and messages (worker.go:88, redis_stream.go:126).
THEOREM PromptHandlersRunOnce == Spec /\ PromptWorkers => []HandledOnce
<1>1. OnceInv /\ [Next]_vars => OnceInv'
  <2> SUFFICES ASSUME OnceInv, [Next]_vars PROVE OnceInv'
    OBVIOUS
  <2>1. IInv' /\ TypeOK'
    BY InvStep DEF OnceInv, IInv
  <2> QED
    BY <2>1, PromptStep, CountStep DEF OnceInv
<1>2. OnceInv => HandledOnce
  <2> SUFFICES ASSUME OnceInv, NEW m \in Msgs
               PROVE  successes[m] <= 1 + stops + crashes + faults
    BY DEF HandledOnce
  <2>1. /\ successes[m] \in Nat /\ stops \in Nat /\ crashes \in Nat /\ faults \in Nat
    BY Bounds DEF OnceInv, IInv, TypeOK
  <2>2. Cardinality(Stopping) \in Nat /\ Indicator(m) \in {0, 1}
    BY FS_CardinalityType DEF OnceInv, CountInv, Indicator
  <2>3. successes[m] + Cardinality(Stopping) <= Indicator(m) + stops + crashes + faults
    BY DEF OnceInv, CountInv
  <2> QED
    BY <2>1, <2>2, <2>3
<1> QED
  BY OnceInit, <1>1, <1>2, PTL DEF Spec
=============================================================================
