--------------------------- MODULE DeliveryProofs ---------------------------
(***************************************************************************)
(* The event centre for any dispatchers, events, subscriptions, attempts,  *)
(* batch sizes and lock timeouts: first the outbox by itself, and then     *)
(* what it delivers to.                                                    *)
(*                                                                         *)
(* The invariant of the outbox has four parts: what a claim transaction    *)
(* knows while it holds its row locks (ClaimInv), what the loop of         *)
(* DispatchBatch knows of the event in its hands (LoopInv), how the        *)
(* numbers of claims relate to the attempts column (NumberInv), and how    *)
(* the age of a lock relates to the age of the batch that holds it         *)
(* (LeaseInv).  The consumption has an invariant of its own, CInv, which   *)
(* rests on who holds the row while a callback runs.  The delivery keeps   *)
(* both; what is left to prove is where they meet:                         *)
(* the claim of an event keeps its other dispatchers out of the            *)
(* consumption as long as no batch is late, and the loop of Publish        *)
(* passes over no consumer.                                                *)
(***************************************************************************)
EXTENDS EventDelivery, TLAPS

Working(d) == pc[d] \notin {"idle", "claiming"}

\* A row lock is held by a claim in progress, exactly on the rows it selected;
\* nothing the SELECT saw of them has changed, and a timed-out lock stays so.
ClaimInv ==
    /\ \A e \in Events : rowLock[e] # NoOne =>
          pc[rowLock[e]] = "claiming" /\ e \in batch[rowLock[e]]
    /\ \A d \in Dispatchers, e \in Events :
          pc[d] = "claiming" /\ e \in batch[d] =>
             /\ rowLock[e] = d
             /\ attempts[e] = seen[d][e]
             /\ attempts[e] < MaxAttempts[e]
             /\ status[e] \in {"pending", "failed", "processing"}
             /\ status[e] = "processing" => lockAge[e] > LockTimeout

\* The event in the loop's hands is one of the batch, and a batch that is
\* about to mark it published has delivered it.
LoopInv ==
    /\ \A d \in Dispatchers :
          /\ pc[d] \in {"publishing", "delivered", "refused"} => cur[d] \in batch[d]
          /\ pc[d] \in {"idle", "claiming", "ready"} => cur[d] = NoOne
          /\ pc[d] = "delivered" => delivered[cur[d]]
    /\ PublishedWasDelivered

\* A claim's number is at most the attempts column, equal to it while the
\* claim holds, different from every other claim's, and used once.
NumberInv ==
    /\ \A e \in Events :
          /\ attempts[e] <= MaxAttempts[e]
          /\ tried[e] \subseteq 1..attempts[e]
    /\ \A d \in Dispatchers, e \in Events :
          Working(d) /\ e \in batch[d] =>
             /\ 1 <= seen[d][e] /\ seen[d][e] <= attempts[e]
             /\ HoldsClaim(d, e) => seen[d][e] = attempts[e]
             /\ cur[d] # e => seen[d][e] \notin tried[e]
    /\ \A d1, d2 \in Dispatchers, e \in Events :
          d1 # d2 /\ Working(d1) /\ Working(d2) /\ e \in batch[d1] /\ e \in batch[d2]
             => seen[d1][e] # seen[d2][e]
    /\ DeadLetterWasExhausted

\* A lock is as old as the batch that holds it; a lost one has timed out.
LeaseInv ==
    \A d \in Dispatchers, e \in Events :
        Working(d) /\ e \in batch[d] =>
            IF HoldsClaim(d, e) THEN lockAge[e] = elapsed[d] ELSE elapsed[d] > LockTimeout

IInv == TypeOK /\ ClaimInv /\ LoopInv /\ NumberInv /\ LeaseInv

-----------------------------------------------------------------------------
USE EventsAssumption, DispatchersAssumption, AttemptsAssumption, TimingAssumption

\* retryDelay returns a number of seconds for every attempt number.
LEMMA RetryDelayType ==
    ASSUME NEW n \in Nat
    PROVE  RetryDelay(n) \in Int
<1> DEFINE clamped == IF n < 1 THEN 1 ELSE IF n > 10 THEN 10 ELSE n
<1>1. clamped \in {1, 2, 3, 4, 5, 6, 7, 8, 9, 10}
  OBVIOUS
<1>2. \A k \in {1, 2, 3, 4, 5, 6, 7, 8, 9, 10} : Backoff[k] \in Int
  BY DEF Backoff
<1>3. Backoff[clamped] \in Int
  BY <1>1, <1>2
<1> HIDE DEF clamped
<1>4. RetryDelay(n) = IF Backoff[clamped] > 3600 THEN 3600 ELSE Backoff[clamped]
  BY DEF RetryDelay, clamped
<1> QED
  BY <1>3, <1>4

\* What ReleaseRow does to each row and each dispatcher.
Released(d, e) ==
    /\ \A x \in Events :
          /\ lockAge'[x] = IF x = e THEN 0 ELSE lockAge[x]
          /\ lockToken'[x] = IF x = e THEN NoOne ELSE lockToken[x]
    /\ \A b \in Dispatchers :
          /\ batch'[b] = IF b = d THEN batch[d] \ {e} ELSE batch[b]
          /\ cur'[b] = IF b = d THEN NoOne ELSE cur[b]
          /\ pc'[b] = IF b # d THEN pc[b] ELSE IF batch[d] = {e} THEN "idle" ELSE "ready"
          /\ elapsed'[b] = IF b = d /\ batch[d] = {e} THEN 0 ELSE elapsed[b]
          /\ \A x \in Events : seen'[b][x] = IF b = d /\ x = e THEN 0 ELSE seen[b][x]
    /\ UNCHANGED <<attempts, rowLock, delivered, tried, interrupts>>
    /\ lockAge' \in [Events -> Nat]
    /\ lockToken' \in [Events -> Dispatchers \cup {NoOne}]
    /\ batch' \in [Dispatchers -> SUBSET Events]
    /\ cur' \in [Dispatchers -> Events \cup {NoOne}]
    /\ seen' \in [Dispatchers -> [Events -> Nat]]
    /\ pc' \in [Dispatchers -> Places]
    /\ elapsed' \in [Dispatchers -> Nat]

LEMMA ReleaseRowEffect ==
    ASSUME TypeOK, NEW d \in Dispatchers, NEW e \in Events, ReleaseRow(d, e)
    PROVE  Released(d, e)
<1> USE DEF ReleaseRow, TypeOK, Places, history
<1>1. /\ \A x \in Events :
           /\ lockAge'[x] = IF x = e THEN 0 ELSE lockAge[x]
           /\ lockToken'[x] = IF x = e THEN NoOne ELSE lockToken[x]
      /\ \A b \in Dispatchers :
           /\ batch'[b] = IF b = d THEN batch[d] \ {e} ELSE batch[b]
           /\ cur'[b] = IF b = d THEN NoOne ELSE cur[b]
      /\ UNCHANGED <<attempts, rowLock, delivered, tried, interrupts>>
  OBVIOUS
<1>2. \A b \in Dispatchers, x \in Events :
          seen'[b][x] = IF b = d /\ x = e THEN 0 ELSE seen[b][x]
  OBVIOUS
<1>3. /\ lockAge' \in [Events -> Nat]
      /\ lockToken' \in [Events -> Dispatchers \cup {NoOne}]
      /\ batch' \in [Dispatchers -> SUBSET Events]
      /\ cur' \in [Dispatchers -> Events \cup {NoOne}]
      /\ seen' \in [Dispatchers -> [Events -> Nat]]
  OBVIOUS
<1>4. /\ pc' \in [Dispatchers -> Places]
      /\ elapsed' \in [Dispatchers -> Nat]
      /\ \A b \in Dispatchers :
           /\ pc'[b] = IF b # d THEN pc[b] ELSE IF batch[d] = {e} THEN "idle" ELSE "ready"
           /\ elapsed'[b] = IF b = d /\ batch[d] = {e} THEN 0 ELSE elapsed[b]
  <2>1. CASE batch[d] = {e}
    <3>1. pc' = [pc EXCEPT ![d] = "idle"] /\ elapsed' = [elapsed EXCEPT ![d] = 0]
      BY <2>1
    <3>2. pc \in [Dispatchers -> Places] /\ elapsed \in [Dispatchers -> Nat]
      OBVIOUS
    <3> QED
      BY ONLY <2>1, <3>1, <3>2 DEF Places
  <2>2. CASE batch[d] # {e}
    BY <2>2
  <2> QED
    BY <2>1, <2>2
<1> QED
  BY <1>1, <1>2, <1>3, <1>4 DEF Released

\* Recording an outcome neither creates claims nor renumbers them.
LEMMA MarkKeepsNumbers ==
    ASSUME TypeOK, NumberInv, NEW d \in Dispatchers, NEW e \in Events,
           Working(d), e \in batch[d], e = cur[d], Released(d, e),
           \A x \in Events : x # e => status'[x] = status[x],
           DeadLetterWasExhausted'
    PROVE  NumberInv'
<1>1. UNCHANGED <<attempts, tried>>
  BY DEF Released
<1>2. \A b \in Dispatchers, x \in Events : (Working(b) /\ x \in batch[b])' =>
          /\ Working(b) /\ x \in batch[b]
          /\ seen'[b][x] = seen[b][x]
          /\ cur[b] = x => cur'[b] = x
  BY DEF Released, Working
<1>3. \A b \in Dispatchers, x \in Events : HoldsClaim(b, x)' => HoldsClaim(b, x)
  BY DEF Released, HoldsClaim
<1>4. \A b \in Dispatchers, x \in Events : (Working(b) /\ x \in batch[b])' =>
          /\ (1 <= seen[b][x] /\ seen[b][x] <= attempts[x])'
          /\ (HoldsClaim(b, x) => seen[b][x] = attempts[x])'
          /\ (cur[b] # x => seen[b][x] \notin tried[x])'
  BY ONLY NumberInv, <1>1, <1>2, <1>3 DEF NumberInv
<1>5. \A b1, b2 \in Dispatchers, x \in Events :
          b1 # b2 /\ (Working(b1) /\ Working(b2) /\ x \in batch[b1] /\ x \in batch[b2])'
             => (seen[b1][x] # seen[b2][x])'
  BY ONLY NumberInv, <1>2 DEF NumberInv
<1> QED
  BY ONLY NumberInv, <1>1, <1>4, <1>5, DeadLetterWasExhausted' DEF NumberInv

\* Recording an outcome leaves the row locks and the claims behind them alone.
LEMMA MarkKeepsClaims ==
    ASSUME TypeOK, ClaimInv, NEW d \in Dispatchers, NEW e \in Events,
           pc[d] # "claiming", rowLock[e] = NoOne, Released(d, e),
           \A x \in Events : x # e => status'[x] = status[x]
    PROVE  ClaimInv'
<1>1. \A x \in Events : x # e => status'[x] = status[x] /\ lockAge'[x] = lockAge[x]
  BY DEF Released
<1>2. \A b \in Dispatchers : pc'[b] = "claiming" =>
         /\ b # d /\ pc[b] = "claiming" /\ batch'[b] = batch[b]
         /\ \A x \in Events : seen'[b][x] = seen[b][x]
  BY DEF Released
<1>3. /\ UNCHANGED <<attempts, rowLock>>
      /\ \A b \in Dispatchers : b # d => pc'[b] = pc[b] /\ batch'[b] = batch[b]
  BY DEF Released
<1>4. \A b \in Dispatchers : pc[b] = "claiming" => e \notin batch[b]
  BY DEF ClaimInv
<1>5. \A x \in Events : rowLock[x] \in Dispatchers \cup {NoOne}
  BY DEF TypeOK
<1>6. \A x \in Events : rowLock[x] # d
  BY DEF ClaimInv
<1> QED
  BY ONLY ClaimInv, <1>1, <1>2, <1>3, <1>4, <1>5, <1>6, DispatchersAssumption DEF ClaimInv

\* Recording an outcome ends one lease and leaves every other one alone.
LEMMA MarkKeepsLeases ==
    ASSUME TypeOK, LeaseInv, NEW d \in Dispatchers, NEW e \in Events,
           Working(d), HoldsClaim(d, e), Released(d, e),
           \A x \in Events : x # e => status'[x] = status[x]
    PROVE  LeaseInv'
<1>1. \A b \in Dispatchers, x \in Events : (Working(b) /\ x \in batch[b])' =>
          /\ Working(b) /\ x \in batch[b] /\ elapsed'[b] = elapsed[b]
          /\ b = d => x # e
  BY DEF Released, Working
<1>2. \A b \in Dispatchers : ~HoldsClaim(b, e)' /\ (b # d => ~HoldsClaim(b, e))
  <2>1. lockToken'[e] = NoOne /\ lockToken[e] = d
    BY DEF Released, HoldsClaim
  <2> QED
    BY ONLY <2>1, DispatchersAssumption DEF HoldsClaim
<1>3. \A b \in Dispatchers, x \in Events : x # e =>
          /\ HoldsClaim(b, x)' <=> HoldsClaim(b, x)
          /\ lockAge'[x] = lockAge[x]
  BY DEF Released, HoldsClaim
<1> QED
  BY ONLY LeaseInv, <1>1, <1>2, <1>3 DEF LeaseInv

-----------------------------------------------------------------------------
LEMMA InvInit == Init => IInv
BY DEF Init, IInv, TypeOK, Statuses, Places, ClaimInv, LoopInv, NumberInv, LeaseInv,
       Working, PublishedWasDelivered, DeadLetterWasExhausted

LEMMA InvStep == IInv /\ [Next]_vars => IInv'
<1> SUFFICES ASSUME IInv, [Next]_vars PROVE IInv'
  OBVIOUS
<1> USE DEF IInv, TypeOK, Statuses, Places, row, worker, history
<1>1. ASSUME NEW e \in Events, AppendEvent(e) PROVE IInv'
  <2>1. TypeOK'
    BY <1>1 DEF LoopInv, AppendEvent, Overdue, Later
  <2>2. ClaimInv'
    BY <1>1 DEF ClaimInv, LoopInv, NumberInv, LeaseInv, AppendEvent
  <2>3. LoopInv'
    BY <1>1 DEF ClaimInv, LoopInv, NumberInv, LeaseInv, PublishedWasDelivered, AppendEvent
  <2>4. NumberInv'
    BY <1>1 DEF ClaimInv, LoopInv, NumberInv, LeaseInv, Working, HoldsClaim,
                DeadLetterWasExhausted, AppendEvent
  <2>5. LeaseInv'
    BY <1>1 DEF ClaimInv, LoopInv, NumberInv, LeaseInv, Working, HoldsClaim, AppendEvent
  <2> QED
    BY <2>1, <2>2, <2>3, <2>4, <2>5
<1>2. ASSUME NEW d \in Dispatchers, SelectBatch(d) PROVE IInv'
  <2>1. TypeOK'
    BY <1>2 DEF LoopInv, SelectBatch, FirstRows, Selectable, Claimable
  <2>2. ClaimInv'
    BY <1>2 DEF ClaimInv, LoopInv, NumberInv, LeaseInv, SelectBatch, FirstRows,
                Selectable, Claimable
  <2>3. LoopInv'
    BY <1>2 DEF ClaimInv, LoopInv, NumberInv, LeaseInv, PublishedWasDelivered,
                SelectBatch, FirstRows, Selectable, Claimable
  <2>4. NumberInv'
    BY <1>2 DEF ClaimInv, LoopInv, NumberInv, LeaseInv, Working, HoldsClaim,
                DeadLetterWasExhausted, SelectBatch, FirstRows, Selectable, Claimable
  <2>5. LeaseInv'
    BY <1>2 DEF ClaimInv, LoopInv, NumberInv, LeaseInv, Working, HoldsClaim, SelectBatch,
                FirstRows, Selectable, Claimable
  <2> QED
    BY <2>1, <2>2, <2>3, <2>4, <2>5
<1>3. ASSUME NEW d \in Dispatchers, CommitClaim(d) PROVE IInv'
  <2>1. TypeOK'
    BY <1>3 DEF LoopInv, CommitClaim, CasMatches, AttemptsAfter, Unlock
  <2>2. ClaimInv'
    BY <1>3 DEF ClaimInv, LoopInv, NumberInv, LeaseInv, CommitClaim, CasMatches,
                AttemptsAfter, Unlock
  <2>3. LoopInv'
    BY <1>3 DEF ClaimInv, LoopInv, NumberInv, LeaseInv, PublishedWasDelivered,
                CommitClaim, CasMatches, AttemptsAfter, Unlock
  <2>4. NumberInv'
    BY <1>3 DEF ClaimInv, LoopInv, NumberInv, LeaseInv, Working, HoldsClaim,
                DeadLetterWasExhausted, CommitClaim, CasMatches, AttemptsAfter, Unlock
  <2>5. LeaseInv'
    BY <1>3 DEF ClaimInv, LoopInv, NumberInv, LeaseInv, Working, HoldsClaim, CommitClaim,
                CasMatches, AttemptsAfter, Unlock
  <2> QED
    BY <2>1, <2>2, <2>3, <2>4, <2>5
<1>4. ASSUME NEW d \in Dispatchers, NEW e \in Events, StartPublish(d, e) PROVE IInv'
  <2>1. TypeOK'
    BY <1>4 DEF LoopInv, StartPublish
  <2>2. ClaimInv'
    BY <1>4 DEF ClaimInv, LoopInv, NumberInv, LeaseInv, StartPublish
  <2>3. LoopInv'
    BY <1>4 DEF ClaimInv, LoopInv, NumberInv, LeaseInv, PublishedWasDelivered, StartPublish
  <2>4. NumberInv'
    BY <1>4 DEF ClaimInv, LoopInv, NumberInv, LeaseInv, Working, HoldsClaim,
                DeadLetterWasExhausted, StartPublish
  <2>5. LeaseInv'
    BY <1>4 DEF ClaimInv, LoopInv, NumberInv, LeaseInv, Working, HoldsClaim, StartPublish
  <2> QED
    BY <2>1, <2>2, <2>3, <2>4, <2>5
<1>5. ASSUME NEW d \in Dispatchers, PublishOk(d) PROVE IInv'
  <2>1. TypeOK'
    BY <1>5 DEF LoopInv, PublishOk
  <2>2. ClaimInv'
    BY <1>5 DEF ClaimInv, PublishOk
  <2>3. LoopInv'
    BY <1>5 DEF ClaimInv, LoopInv, NumberInv, LeaseInv, PublishedWasDelivered, PublishOk
  <2>4. NumberInv'
    BY <1>5 DEF ClaimInv, LoopInv, NumberInv, LeaseInv, Working, HoldsClaim,
                DeadLetterWasExhausted, PublishOk
  <2>5. LeaseInv'
    BY <1>5 DEF ClaimInv, LoopInv, NumberInv, LeaseInv, Working, HoldsClaim, PublishOk
  <2> QED
    BY <2>1, <2>2, <2>3, <2>4, <2>5
<1>6. ASSUME NEW d \in Dispatchers, PublishErr(d) PROVE IInv'
  <2>1. TypeOK'
    BY <1>6 DEF LoopInv, PublishErr
  <2>2. ClaimInv'
    BY <1>6 DEF ClaimInv, LoopInv, NumberInv, LeaseInv, PublishErr
  <2>3. LoopInv'
    BY <1>6 DEF ClaimInv, LoopInv, NumberInv, LeaseInv, PublishedWasDelivered, PublishErr
  <2>4. NumberInv'
    BY <1>6 DEF ClaimInv, LoopInv, NumberInv, LeaseInv, Working, HoldsClaim,
                DeadLetterWasExhausted, PublishErr
  <2>5. LeaseInv'
    BY <1>6 DEF ClaimInv, LoopInv, NumberInv, LeaseInv, Working, HoldsClaim, PublishErr
  <2> QED
    BY <2>1, <2>2, <2>3, <2>4, <2>5
<1>7. ASSUME NEW d \in Dispatchers, MarkPublished(d) PROVE IInv'
  <2>1. PICK e \in Events : e = cur[d] /\ e \in batch[d] /\ delivered[e]
    BY <1>7 DEF LoopInv, MarkPublished
  <2>2. /\ pc[d] = "delivered" /\ rowLock[e] = NoOne
        /\ status[e] = "processing" /\ lockToken[e] = d
        /\ status' = [status EXCEPT ![e] = "published"]
        /\ due' = [due EXCEPT ![e] = 0]
        /\ ReleaseRow(d, e)
    BY <1>7, <2>1 DEF MarkPublished, RowFree, HoldsClaim
  <2>3. Released(d, e)
    BY <2>2, ReleaseRowEffect
  <2>4. /\ status' \in [Events -> Statuses]
        /\ due' \in [Events -> Int]
        /\ \A x \in Events : x # e => status'[x] = status[x]
        /\ status'[e] = "published"
    BY <2>2
  <2>5. Working(d) /\ HoldsClaim(d, e)
    BY <2>2 DEF Working, HoldsClaim
  <2> HIDE DEF TypeOK
  <2>6. TypeOK'
    BY <2>3, <2>4 DEF TypeOK, Released
  <2>7. ClaimInv'
    BY <2>2, <2>3, <2>4, MarkKeepsClaims
  <2>8. LoopInv'
    BY <2>1, <2>2, <2>3, <2>4 DEF TypeOK, LoopInv, PublishedWasDelivered, Released
  <2>9. NumberInv'
    <3>1. DeadLetterWasExhausted'
      BY <2>3, <2>4 DEF NumberInv, DeadLetterWasExhausted, Released
    <3> QED
      BY <2>1, <2>3, <2>4, <2>5, <3>1, MarkKeepsNumbers
  <2>10. LeaseInv'
    BY <2>3, <2>4, <2>5, MarkKeepsLeases
  <2> QED
    BY <2>6, <2>7, <2>8, <2>9, <2>10
<1>8. ASSUME NEW d \in Dispatchers, MarkFailed(d) PROVE IInv'
  <2>1. PICK e \in Events : e = cur[d] /\ e \in batch[d]
    BY <1>8 DEF LoopInv, MarkFailed
  <2>2. /\ pc[d] = "refused" /\ rowLock[e] = NoOne
        /\ status[e] = "processing" /\ lockToken[e] = d
        /\ status' = [status EXCEPT ![e] = FailureStatus(d, e)]
        /\ due' = [due EXCEPT ![e] = RetryDue(d, e)]
        /\ ReleaseRow(d, e)
    BY <1>8, <2>1 DEF MarkFailed, RowFree, HoldsClaim
  <2>3. Released(d, e)
    BY <2>2, ReleaseRowEffect
  <2>4. RetryDue(d, e) \in Int
    <3>1. seen[d][e] \in Nat /\ elapsed[d] \in Nat
      OBVIOUS
    <3>2. RetryDelay(seen[d][e]) \in Int
      BY <3>1, RetryDelayType
    <3> QED
      BY <3>1, <3>2 DEF RetryDue, Overdue, Later
  <2>5. /\ FailureStatus(d, e) \in {"dead_letter", "failed"}
        /\ FailureStatus(d, e) = "dead_letter" => seen[d][e] >= MaxAttempts[e]
    BY DEF FailureStatus, Exhausted
  <2>6. /\ status' \in [Events -> Statuses]
        /\ due' \in [Events -> Int]
        /\ \A x \in Events : x # e => status'[x] = status[x]
        /\ status'[e] = FailureStatus(d, e)
    <3>1. status' \in [Events -> Statuses]
      BY <2>2, <2>5
    <3>2. due' \in [Events -> Int]
      BY <2>2, <2>4
    <3> QED
      BY <2>2, <3>1, <3>2
  <2>7. Working(d) /\ HoldsClaim(d, e)
    BY <2>2 DEF Working, HoldsClaim
  <2> HIDE DEF TypeOK
  <2>8. TypeOK'
    BY <2>3, <2>6 DEF TypeOK, Released
  <2>9. ClaimInv'
    BY <2>2, <2>3, <2>6, MarkKeepsClaims
  <2>10. LoopInv'
    BY <2>1, <2>2, <2>3, <2>5, <2>6 DEF TypeOK, LoopInv, PublishedWasDelivered, Released
  <2>11. NumberInv'
    <3>1. seen[d][e] = attempts[e] /\ attempts[e] <= MaxAttempts[e]
      BY <2>1, <2>7 DEF NumberInv
    <3>2. attempts[e] \in Nat /\ MaxAttempts[e] \in Nat
      BY DEF TypeOK
    <3>3. FailureStatus(d, e) = "dead_letter" => attempts[e] = MaxAttempts[e]
      BY ONLY <2>5, <3>1, <3>2
    <3>4. DeadLetterWasExhausted'
      BY <2>3, <2>6, <3>3 DEF NumberInv, DeadLetterWasExhausted, Released
    <3> QED
      BY <2>1, <2>3, <2>6, <2>7, <3>4, MarkKeepsNumbers
  <2>12. LeaseInv'
    BY <2>3, <2>6, <2>7, MarkKeepsLeases
  <2> QED
    BY <2>8, <2>9, <2>10, <2>11, <2>12
<1>9. ASSUME NEW d \in Dispatchers, MarkRejected(d) PROVE IInv'
  <2>1. TypeOK'
    BY <1>9 DEF LoopInv, MarkRejected, Abandon
  <2>2. ClaimInv'
    <3>1. \A b \in Dispatchers : b # d =>
             batch'[b] = batch[b] /\ seen'[b] = seen[b] /\ pc'[b] = pc[b]
      BY <1>9 DEF MarkRejected, Abandon
    <3>2. /\ pc[d] # "claiming" /\ pc'[d] = "idle"
          /\ UNCHANGED <<status, attempts, lockAge, rowLock>>
      BY <1>9 DEF MarkRejected, Abandon
    <3>3. ClaimInv /\ rowLock \in [Events -> Dispatchers \cup {NoOne}]
      OBVIOUS
    <3>4. \A b \in Dispatchers : pc'[b] = "claiming" => b # d
      BY ONLY <3>2
    <3>5. \A x \in Events : rowLock[x] # d
      BY ONLY <3>2, <3>3, DispatchersAssumption DEF ClaimInv
    <3> QED
      BY ONLY <3>1, <3>2, <3>3, <3>4, <3>5, DispatchersAssumption DEF ClaimInv
  <2>3. LoopInv'
    BY <1>9 DEF ClaimInv, LoopInv, NumberInv, LeaseInv, PublishedWasDelivered,
                MarkRejected, Abandon
  <2>4. NumberInv'
    BY <1>9 DEF ClaimInv, LoopInv, NumberInv, LeaseInv, Working, HoldsClaim,
                DeadLetterWasExhausted, MarkRejected, Abandon
  <2>5. LeaseInv'
    BY <1>9 DEF ClaimInv, LoopInv, NumberInv, LeaseInv, Working, HoldsClaim, MarkRejected,
                Abandon
  <2> QED
    BY <2>1, <2>2, <2>3, <2>4, <2>5
<1>10. ASSUME NEW d \in Dispatchers, Interrupt(d) PROVE IInv'
  <2>1. TypeOK'
    BY <1>10 DEF LoopInv, Interrupt, Abandon, Unlock
  <2>2. ClaimInv'
    BY <1>10 DEF ClaimInv, LoopInv, NumberInv, LeaseInv, Interrupt, Abandon, Unlock
  <2>3. LoopInv'
    BY <1>10 DEF ClaimInv, LoopInv, NumberInv, LeaseInv, PublishedWasDelivered, Interrupt,
                 Abandon, Unlock
  <2>4. NumberInv'
    BY <1>10 DEF ClaimInv, LoopInv, NumberInv, LeaseInv, Working, HoldsClaim,
                 DeadLetterWasExhausted, Interrupt, Abandon, Unlock
  <2>5. LeaseInv'
    BY <1>10 DEF ClaimInv, LoopInv, NumberInv, LeaseInv, Working, HoldsClaim, Interrupt,
                 Abandon, Unlock
  <2> QED
    BY <2>1, <2>2, <2>3, <2>4, <2>5
<1>11. ASSUME Tick PROVE IInv'
  <2>1. TypeOK'
    BY <1>11 DEF LoopInv, Tick, Older, Overdue, Later
  <2>2. ClaimInv'
    BY <1>11 DEF ClaimInv, LoopInv, NumberInv, LeaseInv, Tick, Older
  <2>3. LoopInv'
    BY <1>11 DEF ClaimInv, LoopInv, NumberInv, LeaseInv, PublishedWasDelivered, Tick, Older
  <2>4. NumberInv'
    BY <1>11 DEF ClaimInv, LoopInv, NumberInv, LeaseInv, Working, HoldsClaim,
                 DeadLetterWasExhausted, Tick, Older
  <2>5. LeaseInv'
    BY <1>11 DEF ClaimInv, LoopInv, NumberInv, LeaseInv, Working, HoldsClaim, Tick, Older
  <2> QED
    BY <2>1, <2>2, <2>3, <2>4, <2>5
<1>12. CASE UNCHANGED vars
  BY <1>12 DEF vars, ClaimInv, LoopInv, NumberInv, LeaseInv, Working, HoldsClaim,
               PublishedWasDelivered, DeadLetterWasExhausted
<1> QED
  BY <1>1, <1>2, <1>3, <1>4, <1>5, <1>6, <1>7, <1>8, <1>9, <1>10, <1>11, <1>12
     DEF Next, Dispatch, Publisher

-----------------------------------------------------------------------------
(* The theorems *)

LEMMA Invariance == Spec => []IInv
BY InvInit, InvStep, PTL DEF Spec

\* Every reachable state is well typed: rows, dispatchers and history.
THEOREM TypeCorrect == Spec => []TypeOK
<1>1. IInv => TypeOK
  BY DEF IInv
<1> QED
  BY <1>1, Invariance, PTL

\* A dispatcher loses its claim on an event only after its batch has outlived
\* lockTimeout.
THEOREM Exclusion == Spec => []LeaseExclusive
<1>1. IInv => LeaseExclusive
  BY DEF IInv, TypeOK, LeaseInv, LeaseExclusive, InFlight, Working
<1> QED
  BY <1>1, Invariance, PTL

\* An event marked published was delivered.
THEOREM PublishedIsDelivered == Spec => []PublishedWasDelivered
<1>1. IInv => PublishedWasDelivered
  BY DEF IInv, LoopInv
<1> QED
  BY <1>1, Invariance, PTL

\* A dead letter has used up its attempts.
THEOREM DeadLetterIsExhausted == Spec => []DeadLetterWasExhausted
<1>1. IInv => DeadLetterWasExhausted
  BY DEF IInv, NumberInv
<1> QED
  BY <1>1, Invariance, PTL

\* Attempt numbers are within max_attempts and held by one batch each.
THEOREM ClaimNumbers == Spec => []ClaimsAreNumbered
<1>1. IInv => ClaimsAreNumbered
  <2> SUFFICES ASSUME IInv PROVE ClaimsAreNumbered
    OBVIOUS
  <2>1. ASSUME NEW e \in Events PROVE tried[e] \subseteq 1..MaxAttempts[e]
    <3>1. /\ attempts[e] \in Nat /\ MaxAttempts[e] \in Nat
          /\ attempts[e] <= MaxAttempts[e]
          /\ tried[e] \subseteq 1..attempts[e]
      BY DEF IInv, TypeOK, NumberInv
    <3> QED
      BY ONLY <3>1
  <2>2. ASSUME NEW e \in Events, NEW d1 \in Dispatchers, NEW d2 \in Dispatchers,
               d1 # d2, e \in InFlight(d1), e \in InFlight(d2)
        PROVE  seen[d1][e] # seen[d2][e]
    BY <2>2 DEF IInv, NumberInv, InFlight, Working
  <2> QED
    BY ONLY <2>1, <2>2 DEF ClaimsAreNumbered
<1> QED
  BY <1>1, Invariance, PTL

\* No attempt is handed to the Publisher twice.
THEOREM AttemptsAreFresh == Spec => NoAttemptTwice
<1>1. IInv /\ [Next]_vars =>
        [\A d \in Dispatchers, e \in Events : StartPublish(d,
            e) => seen[d][e] \notin tried[e]]_vars
  <2> SUFFICES ASSUME IInv, NEW d \in Dispatchers, NEW e \in Events, StartPublish(d, e)
               PROVE  seen[d][e] \notin tried[e]
    OBVIOUS
  <2>1. Working(d) /\ e \in batch[d] /\ cur[d] = NoOne
    BY DEF IInv, StartPublish, LoopInv, Working
  <2> QED
    BY <2>1 DEF IInv, NumberInv
<1> QED
  BY <1>1, Invariance, PTL DEF Spec, NoAttemptTwice

\* published and dead_letter are final.
THEOREM SettledForGood == Spec => SettledIsFinal
<1>1. IInv /\ [Next]_vars =>
        [\A e \in Events : status[e] \in Settled => status'[e] = status[e]]_vars
  <2> SUFFICES ASSUME IInv, Next, NEW e \in Events, status[e] \in Settled
               PROVE  status'[e] = status[e]
    OBVIOUS
  <2>1. /\ status \in [Events -> Statuses]
        /\ status[e] \notin {"absent", "pending", "processing", "failed"}
    BY DEF IInv, TypeOK, Settled
  <2>2. ASSUME NEW x \in Events, AppendEvent(x) PROVE status'[e] = status[e]
    BY <2>1, <2>2 DEF AppendEvent
  <2>3. ASSUME NEW d \in Dispatchers, CommitClaim(d) PROVE status'[e] = status[e]
    <3>1. e \notin batch[d]
      BY <2>1, <2>3 DEF IInv, ClaimInv, CommitClaim
    <3> QED
      BY <2>3, <3>1 DEF CommitClaim, CasMatches
  <2>4. ASSUME NEW d \in Dispatchers, MarkPublished(d) PROVE status'[e] = status[e]
    BY <2>1, <2>4 DEF MarkPublished, HoldsClaim
  <2>5. ASSUME NEW d \in Dispatchers, MarkFailed(d) PROVE status'[e] = status[e]
    BY <2>1, <2>5 DEF MarkFailed, HoldsClaim
  <2>6. ASSUME NEW d \in Dispatchers,
               \/ SelectBatch(d) \/ \E x \in Events : StartPublish(d, x)
               \/ MarkRejected(d) \/ Publisher(d) \/ Interrupt(d)
        PROVE  status'[e] = status[e]
    BY <2>6 DEF SelectBatch, StartPublish, MarkRejected, Publisher, PublishOk, PublishErr,
                Interrupt, Abandon, row
  <2>7. ASSUME Tick PROVE status'[e] = status[e]
    BY <2>7 DEF Tick
  <2> QED
    BY <2>2, <2>3, <2>4, <2>5, <2>6, <2>7 DEF Next, Dispatch
<1> QED
  BY <1>1, Invariance, PTL DEF Spec, SettledIsFinal

-----------------------------------------------------------------------------
(* The outbox implements AtLeastOnce: a claim is a Try of the events it    *)
(* matched, PublishOk a Deliver, MarkPublished a Publish, and MarkFailed a *)
(* GiveUp of an exhausted event; every other step leaves the promise as    *)
(* it is.                                                                  *)

\* The phase of one event.
PhaseOf(s) ==
    CASE s \in {"pending", "processing", "failed"} -> "owed"
      [] s = "dead_letter" -> "dead"
      [] OTHER -> s

LEMMA PhaseIs == Phase = [e \in Events |-> PhaseOf(status[e])]
BY DEF Phase, PhaseOf

LEMMA PhaseKept ==
    ASSUME \A e \in Events : PhaseOf(status'[e]) = PhaseOf(status[e])
    PROVE  UNCHANGED Phase
BY DEF Phase, PhaseOf

LEMMA StepImplements == IInv /\ [Next]_vars => [Promise!Next]_(Promise!promise)
<1> SUFFICES ASSUME IInv, [Next]_vars PROVE [Promise!Next]_(Promise!promise)
  OBVIOUS
<1>0. /\ status \in [Events -> Statuses]
      /\ attempts \in [Events -> Nat]
      /\ delivered \in [Events -> BOOLEAN]
      /\ \A d \in Dispatchers : batch[d] \in SUBSET Events
  BY DEF IInv, TypeOK
<1>1. ASSUME NEW e \in Events, AppendEvent(e) PROVE Promise!Append(e)
  <2>1. status[e] = "absent" /\ status' = [status EXCEPT ![e] = "pending"]
    BY <1>1 DEF AppendEvent
  <2>2. Phase[e] = "absent"
    BY <2>1 DEF Phase
  <2>3. Phase' = [Phase EXCEPT ![e] = "owed"]
    BY <1>0, <2>1 DEF Phase
  <2>4. UNCHANGED <<attempts, delivered>>
    BY <1>1 DEF AppendEvent, history
  <2> QED
    BY ONLY <2>2, <2>3, <2>4 DEF Promise!Append
<1>2. ASSUME NEW d \in Dispatchers, CommitClaim(d)
      PROVE  Promise!Try({e \in Events : CasMatches(d, e)})
  <2> DEFINE claimed == {e \in Events : CasMatches(d, e)}
  <2>1. \A e \in claimed : /\ status[e] \in {"pending", "failed", "processing"}
                           /\ attempts[e] < MaxAttempts[e]
    BY <1>2 DEF CommitClaim, CasMatches, IInv, ClaimInv
  <2>2. \A e \in claimed : Phase[e] = "owed"
    BY <2>1 DEF Phase
  <2>3. \A e \in Events : status'[e] = IF e \in claimed THEN "processing" ELSE status[e]
    BY <1>2 DEF CommitClaim
  <2>4. attempts' = [e \in Events |-> IF e \in claimed THEN attempts[e] + 1 ELSE attempts[e]]
    BY <1>2 DEF CommitClaim, AttemptsAfter
  <2>5. UNCHANGED delivered
    BY <1>2 DEF CommitClaim, history
  <2> HIDE DEF claimed
  <2>6. UNCHANGED Phase
    <3>1. \A e \in Events : PhaseOf(status'[e]) = PhaseOf(status[e])
      BY ONLY <2>1, <2>3 DEF PhaseOf
    <3> QED
      BY <3>1, PhaseKept
  <2>7. Promise!Try(claimed)
    BY ONLY <2>1, <2>2, <2>4, <2>5, <2>6 DEF Promise!Try
  <2> QED
    BY <2>7 DEF claimed
<1>3. ASSUME NEW d \in Dispatchers, PublishOk(d) PROVE Promise!Deliver(cur[d])
  <2>1. cur[d] \in batch[d] /\ cur[d] \in Events
    BY <1>0, <1>3 DEF PublishOk, IInv, LoopInv
  <2>2. attempts[cur[d]] > 0
    <3>1. Working(d)
      BY <1>3 DEF PublishOk, Working
    <3>2. 1 <= seen[d][cur[d]] /\ seen[d][cur[d]] <= attempts[cur[d]]
      BY <2>1, <3>1 DEF IInv, NumberInv
    <3>3. seen[d] \in [Events -> Nat]
      BY DEF IInv, TypeOK
    <3>4. seen[d][cur[d]] \in Nat /\ attempts[cur[d]] \in Nat
      BY ONLY <1>0, <2>1, <3>3
    <3> QED
      BY ONLY <3>2, <3>4
  <2>3. /\ delivered' = [delivered EXCEPT ![cur[d]] = TRUE]
        /\ UNCHANGED <<status, attempts>>
    BY <1>3 DEF PublishOk, row
  <2>4. UNCHANGED Phase
    BY <2>3 DEF Phase
  <2> QED
    BY ONLY <2>2, <2>3, <2>4 DEF Promise!Deliver
<1>4. ASSUME NEW d \in Dispatchers, MarkPublished(d) PROVE Promise!Publish(cur[d])
  <2>1. cur[d] \in Events /\ delivered[cur[d]]
    BY <1>0, <1>4 DEF MarkPublished, IInv, LoopInv
  <2>2. /\ status[cur[d]] = "processing"
        /\ status' = [status EXCEPT ![cur[d]] = "published"]
        /\ UNCHANGED <<attempts, delivered>>
    BY <1>4 DEF MarkPublished, HoldsClaim, ReleaseRow, history
  <2>3. Phase[cur[d]] = "owed"
    BY <2>1, <2>2 DEF Phase
  <2>4. Phase' = [Phase EXCEPT ![cur[d]] = "published"]
    BY <1>0, <2>1, <2>2 DEF Phase
  <2> QED
    BY ONLY <2>1, <2>2, <2>3, <2>4 DEF Promise!Publish
<1>5. ASSUME NEW d \in Dispatchers, MarkFailed(d)
      PROVE  Promise!GiveUp(cur[d]) \/ UNCHANGED <<Phase, attempts, delivered>>
  <2>1. cur[d] \in Events /\ cur[d] \in batch[d]
    BY <1>0, <1>5 DEF MarkFailed, IInv, LoopInv
  <2>2. /\ status[cur[d]] = "processing"
        /\ status' = [status EXCEPT ![cur[d]] = FailureStatus(d, cur[d])]
        /\ UNCHANGED <<attempts, delivered>>
    BY <1>5 DEF MarkFailed, HoldsClaim, ReleaseRow, history
  <2>3. CASE Exhausted(d, cur[d])
    <3>1. Phase[cur[d]] = "owed"
      BY <2>1, <2>2 DEF Phase
    <3>2. Phase' = [Phase EXCEPT ![cur[d]] = "dead"]
      BY <1>0, <2>1, <2>2, <2>3 DEF Phase, FailureStatus
    <3>3. attempts[cur[d]] = MaxAttempts[cur[d]]
      <4>1. Working(d) /\ HoldsClaim(d, cur[d])
        BY <1>5 DEF MarkFailed, Working
      <4>2. seen[d][cur[d]] = attempts[cur[d]] /\ attempts[cur[d]] <= MaxAttempts[cur[d]]
        BY <2>1, <4>1 DEF IInv, NumberInv
      <4>3. attempts[cur[d]] \in Nat /\ MaxAttempts[cur[d]] \in Nat
        BY <1>0, <2>1
      <4> QED
        BY ONLY <2>3, <4>2, <4>3 DEF Exhausted
    <3> QED
      BY ONLY <2>2, <3>1, <3>2, <3>3 DEF Promise!GiveUp
  <2>4. CASE ~Exhausted(d, cur[d])
    <3>1. \A e \in Events : PhaseOf(status'[e]) = PhaseOf(status[e])
      BY <1>0, <2>1, <2>2, <2>4 DEF PhaseOf, FailureStatus
    <3> QED
      BY <2>2, <3>1, PhaseKept
  <2> QED
    BY <2>3, <2>4
<1>6. ASSUME \/ \E d \in Dispatchers :
                  \/ SelectBatch(d) \/ \E e \in Events : StartPublish(d, e)
                  \/ MarkRejected(d) \/ PublishErr(d) \/ Interrupt(d)
             \/ Tick
             \/ UNCHANGED vars
      PROVE  UNCHANGED <<Phase, attempts, delivered>>
  <2>1. UNCHANGED <<status, attempts, delivered>>
    BY <1>6 DEF SelectBatch, StartPublish, MarkRejected, PublishErr, Interrupt, Abandon,
                Tick, row, history, vars
  <2> QED
    BY <2>1 DEF Phase
<1>7. ASSUME NEW d \in Dispatchers PROVE
        /\ PublishOk(d) => cur[d] \in Events
        /\ MarkPublished(d) => cur[d] \in Events
        /\ MarkFailed(d) => cur[d] \in Events
  BY <1>0 DEF IInv, LoopInv, PublishOk, MarkPublished, MarkFailed
<1> QED
  BY <1>1, <1>2, <1>3, <1>4, <1>5, <1>6, <1>7
     DEF Next, Dispatch, Publisher, Promise!Next, Promise!promise

\* The outbox keeps the promise of at-least-once delivery.
THEOREM Refinement == Spec => KeepsPromise
<1>1. Init => Promise!Init
  BY DEF Init, Promise!Init, Phase
<1> QED
  BY <1>1, StepImplements, Invariance, PTL DEF Spec, KeepsPromise, Promise!Spec

-----------------------------------------------------------------------------
(* The consumption by itself, under the substitution C of EventDelivery: the *)
(* consumers and events may be any, and so may the goroutines that call.     *)

Codes == {s.code : s \in Subscriptions}
Consumptions == Codes \X Events

USE DEF Consumptions, Codes

\* A call that has begun has a key, and so has one that has ended.
CallInv == \A c \in Dispatchers : at[c] # "idle" \/ result[c] # "none" => call[c] \in Consumptions

\* The row is locked, or inserted, by the call whose callback runs, and by no other.
HoldInv ==
    /\ \A c \in Dispatchers : at[c] = "callback" => holder[call[c]] = c
    /\ \A k \in Consumptions : holder[k] # NoOne => /\ at[holder[k]] = "callback"
                                                    /\ call[holder[k]] = k

\* The row says completed only after a committed callback.
EffectInv == \A k \in Consumptions : rec[k] = "completed" => effects[k] > 0

CInv == C!ConsumptionTypeOK /\ CallInv /\ HoldInv /\ EffectInv /\ C!SuccessMeansEffect

-----------------------------------------------------------------------------
LEMMA ConsumptionInvInit == C!ConsumptionInit => CInv
<1> SUFFICES ASSUME C!ConsumptionInit PROVE CInv
  OBVIOUS
<1>1. C!ConsumptionTypeOK
  BY DEF C!ConsumptionInit, C!ConsumptionTypeOK, C!Records, C!Stages, C!Results
<1>2. CallInv /\ HoldInv /\ EffectInv /\ C!SuccessMeansEffect
  BY DEF C!ConsumptionInit, CallInv, HoldInv, EffectInv, C!SuccessMeansEffect
<1> QED
  BY <1>1, <1>2 DEF CInv

\* What a statement of a call does to the call and to the row of its key.
Moves(c, stage, res) ==
    /\ stage \in C!Stages /\ res \in C!Results
    /\ at' = [at EXCEPT ![c] = stage] /\ result' = [result EXCEPT ![c] = res]
    /\ UNCHANGED <<call, calls>>
    /\ call[c] \in Consumptions
    /\ rec' \in [Consumptions -> C!Records]
    /\ holder' \in [Consumptions -> Dispatchers \cup {NoOne}]
    /\ effects' \in [Consumptions -> Nat]
    /\ \A k \in Consumptions :
          /\ effects'[k] >= effects[k]
          /\ rec'[k] = "completed" => rec[k] = "completed" \/ effects'[k] > effects[k]
    /\ \A k \in Consumptions \ {call[c]} : holder'[k] = holder[k]
    /\ IF stage = "callback" THEN holder'[call[c]] = c /\ holder[call[c]] = NoOne
       ELSE IF at[c] = "callback" THEN holder'[call[c]] = NoOne
       ELSE holder'[call[c]] = holder[call[c]]
    /\ res \in {"processed", "skipped"} => effects'[call[c]] > 0

LEMMA CallStep ==
    ASSUME CInv, NEW c \in Dispatchers, NEW stage, NEW res, Moves(c, stage, res)
    PROVE  CInv'
<1> USE DEF Moves
<1>1. C!ConsumptionTypeOK'
  BY DEF CInv, C!ConsumptionTypeOK
<1>2. CallInv'
  BY DEF CInv, C!ConsumptionTypeOK, CallInv
<1>3. EffectInv'
  <2> SUFFICES ASSUME NEW k \in Consumptions, rec'[k] = "completed" PROVE effects'[k] > 0
    BY DEF EffectInv
  <2> QED
    BY DEF CInv, C!ConsumptionTypeOK, EffectInv
<1>4. C!SuccessMeansEffect'
  <2> SUFFICES ASSUME NEW d \in Dispatchers, result'[d] \in {"processed", "skipped"}
               PROVE  effects'[call[d]] > 0
    BY DEF C!SuccessMeansEffect
  <2>1. CASE d = c
    BY <2>1 DEF CInv, C!ConsumptionTypeOK
  <2>2. CASE d # c
    <3>1. result[d] \in {"processed", "skipped"}
      BY <2>2 DEF CInv, C!ConsumptionTypeOK
    <3>2. call[d] \in Consumptions /\ effects[call[d]] > 0
      BY <3>1 DEF CInv, CallInv, C!SuccessMeansEffect
    <3> QED
      BY <3>2 DEF CInv, C!ConsumptionTypeOK
  <2> QED
    BY <2>1, <2>2
<1>5. HoldInv'
  <2>1. ASSUME NEW d \in Dispatchers, at'[d] = "callback" PROVE holder'[call[d]] = d
    <3>1. CASE d = c
      BY <2>1, <3>1 DEF CInv, C!ConsumptionTypeOK
    <3>2. CASE d # c
      <4>1. at[d] = "callback" /\ holder[call[d]] = d /\ call[d] \in Consumptions
        BY <2>1, <3>2 DEF CInv, C!ConsumptionTypeOK, HoldInv, CallInv
      <4>2. call[d] # call[c] \/ holder'[call[c]] = holder[call[c]]
        BY <3>2, <4>1, DispatchersAssumption DEF CInv, HoldInv
      <4> QED
        BY <4>1, <4>2
    <3> QED
      BY <3>1, <3>2
  <2>2. ASSUME NEW k \in Consumptions, holder'[k] # NoOne
        PROVE  at'[holder'[k]] = "callback" /\ call[holder'[k]] = k
    <3>1. CASE holder'[k] = holder[k]
      <4>1. /\ holder[k] \in Dispatchers /\ at[holder[k]] = "callback" /\ call[holder[k]] = k
        BY <2>2, <3>1 DEF CInv, C!ConsumptionTypeOK, HoldInv
      <4>2. holder[k] # c \/ stage = "callback"
        BY <2>2, <3>1, <4>1, DispatchersAssumption
      <4> QED
        BY <3>1, <4>1, <4>2 DEF CInv, C!ConsumptionTypeOK
    <3>2. CASE holder'[k] # holder[k]
      BY <2>2, <3>2 DEF CInv, C!ConsumptionTypeOK
    <3> QED
      BY <3>1, <3>2
  <2> QED
    BY <2>1, <2>2 DEF HoldInv
<1> QED
  BY <1>1, <1>2, <1>3, <1>4, <1>5 DEF CInv

LEMMA UnlockEffect ==
    ASSUME CInv, NEW c \in Dispatchers, call[c] \in Consumptions, holder' = C!Unlocked(c)
    PROVE  /\ holder' \in [Consumptions -> Dispatchers \cup {NoOne}]
           /\ \A k \in Consumptions \ {call[c]} : holder'[k] = holder[k]
           /\ at[c] = "callback" => holder'[call[c]] = NoOne
           /\ at[c] # "callback" => holder'[call[c]] = holder[call[c]]
<1>1. holder \in [Consumptions -> Dispatchers \cup {NoOne}]
  BY DEF CInv, C!ConsumptionTypeOK
<1>2. \A k \in Consumptions : holder[k] = c => at[c] = "callback" /\ call[c] = k
  BY DispatchersAssumption DEF CInv, HoldInv
<1>3. at[c] = "callback" => holder[call[c]] = c
  BY DEF CInv, HoldInv
<1> QED
  BY <1>1, <1>2, <1>3 DEF C!Unlocked

LEMMA Running ==
    ASSUME CInv, NEW c \in Dispatchers, at[c] # "idle"
    PROVE  /\ call[c] \in Consumptions
           /\ rec \in [Consumptions -> C!Records]
           /\ holder \in [Consumptions -> Dispatchers \cup {NoOne}]
           /\ effects \in [Consumptions -> Nat] /\ result \in [Dispatchers -> C!Results]
           /\ result = [result EXCEPT ![c] = result[c]] /\ result[c] \in C!Results
           /\ result[c] \in {"processed", "skipped"} => effects[call[c]] > 0
BY DEF CInv, CallInv, C!ConsumptionTypeOK, C!SuccessMeansEffect

LEMMA BeginStep ==
    ASSUME CInv, NEW c \in Dispatchers, NEW k \in Consumptions, C!Begin(c, k)
    PROVE  CInv'
<1>1. /\ at[c] = "idle" /\ at' = [at EXCEPT ![c] = "select"]
      /\ call' = [call EXCEPT ![c] = k] /\ result' = [result EXCEPT ![c] = "none"]
      /\ calls' = [calls EXCEPT ![k] = @ + 1] /\ UNCHANGED <<rec, holder, effects>>
  BY DEF C!Begin, C!Goto
<1>2. C!ConsumptionTypeOK'
  <2>1. /\ calls \in [Consumptions -> Nat] /\ call \in [Dispatchers -> Consumptions \cup {NoOne}]
        /\ at \in [Dispatchers -> C!Stages] /\ result \in [Dispatchers -> C!Results]
    BY DEF CInv, C!ConsumptionTypeOK
  <2>2. calls' \in [Consumptions -> Nat] /\ call' \in [Dispatchers -> Consumptions \cup {NoOne}]
    <3> HIDE DEF Consumptions, Codes
    <3> QED
      BY <1>1, <2>1
  <2> QED
    BY <1>1, <2>1, <2>2 DEF CInv, C!ConsumptionTypeOK, C!Stages, C!Results
<1>3. CallInv'
  BY <1>1 DEF CInv, C!ConsumptionTypeOK, CallInv
<1>4. HoldInv'
  BY <1>1, DispatchersAssumption DEF CInv, C!ConsumptionTypeOK, HoldInv
<1>5. EffectInv' /\ C!SuccessMeansEffect'
  BY <1>1 DEF CInv, C!ConsumptionTypeOK, EffectInv, C!SuccessMeansEffect
<1> QED
  BY <1>2, <1>3, <1>4, <1>5 DEF CInv

LEMMA StepStep ==
    ASSUME CInv, NEW c \in Dispatchers, C!Step(c)
    PROVE  CInv'
<1>1. at[c] # "idle"
  BY DEF C!Step, C!SelectMissing, C!SelectCompleted, C!SelectUnfinished, C!InsertRow,
         C!InsertDuplicate, C!WaitFails, C!CommitEffect, C!CommitUnconfirmed, C!RollBack,
         C!RecordFailure
<1> HIDE DEF Consumptions, Codes
<1> USE <1>1, Running DEF C!Goto, C!Return, C!Stages, C!Results
<1>2. CASE C!SelectMissing(c)
  <2>1. Moves(c, "insert", result[c])
    BY <1>2 DEF C!SelectMissing, Moves
  <2> QED
    BY <2>1, CallStep
<1>3. CASE C!SelectCompleted(c)
  <2>1. effects[call[c]] > 0
    BY <1>3 DEF C!SelectCompleted, C!Finished, CInv, EffectInv
  <2>2. Moves(c, "idle", "skipped")
    BY <1>3, <2>1 DEF C!SelectCompleted, Moves
  <2> QED
    BY <2>2, CallStep
<1>4. CASE C!SelectUnfinished(c)
  <2>1. Moves(c, "callback", result[c])
    BY <1>4 DEF C!SelectUnfinished, C!Lock, Moves
  <2> QED
    BY <2>1, CallStep
<1>5. CASE C!InsertRow(c)
  <2>1. Moves(c, "callback", result[c])
    BY <1>5 DEF C!InsertRow, C!Lock, Moves
  <2> QED
    BY <2>1, CallStep
<1>6. CASE C!InsertDuplicate(c)
  <2>1. Moves(c, "failing", result[c])
    BY <1>6 DEF C!InsertDuplicate, Moves
  <2> QED
    BY <2>1, CallStep
<1>7. CASE C!WaitFails(c)
  <2>1. Moves(c, "failing", result[c])
    BY <1>7 DEF C!WaitFails, Moves
  <2> QED
    BY <2>1, CallStep
<1>8. CASE C!CommitEffect(c)
  <2>1. Moves(c, "idle", "processed")
    BY <1>8, UnlockEffect DEF C!CommitEffect, Moves, C!Records
  <2> QED
    BY <2>1, CallStep
<1>9. CASE C!CommitUnconfirmed(c)
  <2>1. Moves(c, "failing", result[c])
    BY <1>9, UnlockEffect DEF C!CommitUnconfirmed, Moves, C!Records
  <2> QED
    BY <2>1, CallStep
<1>10. CASE C!RollBack(c)
  <2>1. Moves(c, "failing", result[c])
    BY <1>10, UnlockEffect DEF C!RollBack, Moves
  <2> QED
    BY <2>1, CallStep
<1>11. CASE C!RecordFailure(c)
  <2>1. Moves(c, "idle", "error")
    BY <1>11 DEF C!RecordFailure, C!FailureRecord, Moves, C!Records
  <2> QED
    BY <2>1, CallStep
<1> QED
  BY <1>2, <1>3, <1>4, <1>5, <1>6, <1>7, <1>8, <1>9, <1>10, <1>11 DEF C!Step

LEMMA FailStep ==
    ASSUME CInv, NEW c \in Dispatchers, C!Fail(c)
    PROVE  CInv'
<1> HIDE DEF Consumptions, Codes
<1>1. Moves(c, "idle", "error")
  BY Running, UnlockEffect DEF C!Fail, C!Return, C!Goto, C!Stages, C!Results, Moves
<1> QED
  BY <1>1, CallStep

LEMMA ConsumptionStep == CInv /\ [C!ConsumptionNext]_(C!consumption) => CInv'
<1> SUFFICES ASSUME CInv, [C!ConsumptionNext]_(C!consumption) PROVE CInv'
  OBVIOUS
<1>1. CASE UNCHANGED C!consumption
  BY <1>1 DEF C!consumption, CInv, C!ConsumptionTypeOK, CallInv, HoldInv, EffectInv,
              C!SuccessMeansEffect
<1> QED
  BY <1>1, BeginStep, StepStep, FailStep DEF C!ConsumptionNext

-----------------------------------------------------------------------------
(* The theorems of the consumption *)

LEMMA ConsumptionInvariance == C!ConsumptionSpec => []CInv
BY ConsumptionInvInit, ConsumptionStep, PTL DEF C!ConsumptionSpec

\* Every reachable state of ConsumeOnce is well typed.
THEOREM ConsumptionTypeCorrect == C!ConsumptionSpec => []C!ConsumptionTypeOK
<1>1. CInv => C!ConsumptionTypeOK
  BY DEF CInv
<1> QED
  BY ConsumptionInvariance, <1>1, PTL

\* Whatever races, rollbacks, lost commit answers and late failure records
\* there are, a call that reports success leaves a committed callback behind
\* (service.go, ConsumeOnce).
THEOREM SuccessIsEffect == C!ConsumptionSpec => []C!SuccessMeansEffect
<1>1. CInv => C!SuccessMeansEffect
  BY DEF CInv
<1> QED
  BY ConsumptionInvariance, <1>1, PTL

\* Two callers are never inside the callback of one consumer and event: the
\* row lock, or the uncommitted insert, has one owner.
THEOREM CallbacksExclude == C!ConsumptionSpec => []C!CallbackExclusive
<1>1. CInv => C!CallbackExclusive
  BY DEF CInv, HoldInv, C!CallbackExclusive
<1> QED
  BY ConsumptionInvariance, <1>1, PTL

HIDE DEF Consumptions, Codes

-----------------------------------------------------------------------------
(* The outbox and the consumption together *)

DTyped ==
    /\ DeliveryTypeOK
    /\ next \in [Dispatchers -> Nat] /\ disturbed \in BOOLEAN

\* A dispatcher consumes only while it publishes, and what it consumes, or
\* consumed last, is the event in its hands, for the subscription it has come to.
Place(d) ==
    /\ at[d] # "idle" => pc[d] = "publishing" /\ next[d] > 0
    /\ pc[d] = "publishing" /\ next[d] > 0 =>
          next[d] \in Matched(d) /\ call[d] = <<Current(d).code, cur[d]>>

\* The subscriptions the loop has passed have run for the event.
Passed(d) ==
    pc[d] = "publishing" =>
        \A i \in Matched(d) : i < next[d] => RanFor(snapshot[d][i].code, cur[d])

Confirmed(d) ==
    pc[d] = "delivered" =>
        /\ Matched(d) # {}
        /\ \A i \in Matched(d) : RanFor(snapshot[d][i].code, cur[d])

\* A committed callback was a handler's run.
EffectsRan ==
    \A code \in Codes, e \in Events : effects[<<code, e>>] > 0 => RanFor(code, e)

\* As long as nothing is late, what has been executed is recorded, and nobody
\* is about to execute it again or to record its failure.
OnceInv ==
    ~disturbed =>
        /\ \A d \in Dispatchers : elapsed[d] <= LockTimeout
        /\ \A k \in Consumptions : effects[k] <= 1 /\ (effects[k] > 0 => rec[k] = "completed")
        /\ \A d \in Dispatchers :
              at[d] \in {"insert", "callback", "failing"} => rec[call[d]] # "completed"

DInv ==
    /\ IInv /\ CInv /\ DTyped
    /\ \A d \in Dispatchers : Place(d) /\ Passed(d) /\ Confirmed(d)
    /\ EffectsRan /\ OnceInv

-----------------------------------------------------------------------------
(* Every step is one of the outbox and one of the consumption *)

LEMMA DeliveryInit_Inv == DeliveryInit => DInv
<1> SUFFICES ASSUME DeliveryInit PROVE DInv
  OBVIOUS
<1>1. IInv
  BY InvInit DEF DeliveryInit
<1>2. CInv
  BY ConsumptionInvInit DEF DeliveryInit
<1>3. DTyped
  <2>1. <<>> \in Seq(Subscriptions) /\ Len(<<>>) = 0 /\ 0 \in Nat
    OBVIOUS
  <2>2. /\ subs \in Seq(Subscriptions) /\ snapshot \in [Dispatchers -> Seq(Subscriptions)]
        /\ next \in [Dispatchers -> Nat] /\ disturbed \in BOOLEAN
        /\ ran \in [Events -> SUBSET Subscriptions]
    BY <2>1 DEF DeliveryInit
  <2>3. \A d \in Dispatchers : next[d] \in 0..Len(snapshot[d])
    BY <2>1 DEF DeliveryInit
  <2> QED
    BY <2>2, <2>3 DEF DTyped, DeliveryTypeOK
<1>4. \A d \in Dispatchers : pc[d] = "idle" /\ at[d] = "idle"
  BY DEF DeliveryInit, Init, C!ConsumptionInit
<1>5. \A d \in Dispatchers : Place(d) /\ Passed(d) /\ Confirmed(d)
  BY <1>4 DEF Place, Passed, Confirmed
<1>6. /\ \A k \in Consumptions : effects[k] = 0
      /\ \A d \in Dispatchers : elapsed[d] = 0
  BY DEF DeliveryInit, Init, C!ConsumptionInit, Consumptions, Codes
<1>7. EffectsRan
  BY <1>6 DEF EffectsRan, Consumptions
<1>8. OnceInv
  BY <1>4, <1>6, TimingAssumption DEF OnceInv
<1> QED
  BY <1>1, <1>2, <1>3, <1>5, <1>7, <1>8 DEF DInv

LEMMA OutboxMoves == DeliveryNext => [Next]_vars
<1> SUFFICES ASSUME DeliveryStep PROVE [Next]_vars
  BY DEF DeliveryNext
<1>1. CASE OutboxOnly
  BY <1>1 DEF OutboxOnly, Next, Dispatch
<1>2. CASE \E s \in Subscriptions : Subscribe(s)
  BY <1>2 DEF Subscribe
<1>3. ASSUME NEW d \in Dispatchers, NEW e \in Events, BeginPublish(d, e) PROVE Next
  BY <1>3 DEF BeginPublish, Next, Dispatch
<1>4. ASSUME NEW d \in Dispatchers, ConsumeNext(d) \/ Consume(d) PROVE UNCHANGED vars
  BY <1>4 DEF ConsumeNext, Consume
<1>5. ASSUME NEW d \in Dispatchers, PublishReturnsNil(d) PROVE Next
  BY <1>5 DEF PublishReturnsNil, Next, Publisher
<1>6. ASSUME NEW d \in Dispatchers, PublishReturnsErr(d) PROVE Next
  BY <1>6 DEF PublishReturnsErr, Next, Publisher
<1>7. ASSUME NEW d \in Dispatchers, Stop(d) PROVE Next
  BY <1>7 DEF Stop, Next
<1> QED
  BY <1>1, <1>2, <1>3, <1>4, <1>5, <1>6, <1>7 DEF DeliveryStep

\* What a dispatcher that publishes has in hand.
LEMMA InHand ==
    ASSUME DInv, NEW d \in Dispatchers, pc[d] = "publishing"
    PROVE  cur[d] \in Events /\ cur[d] \in batch[d]
BY DEF DInv, IInv, LoopInv, TypeOK

LEMMA CodeOf ==
    ASSUME DInv, NEW d \in Dispatchers, NEW i \in Matched(d)
    PROVE  /\ i \in 1..Len(snapshot[d]) /\ i \in Nat
           /\ snapshot[d][i] \in Subscriptions /\ snapshot[d][i].code \in Codes
<1>1. snapshot[d] \in Seq(Subscriptions)
  BY DEF DInv, DTyped, DeliveryTypeOK
<1>2. i \in 1..Len(snapshot[d])
  BY <1>1 DEF Matched
<1>3. snapshot[d][i] \in Subscriptions
  BY <1>1, <1>2
<1> QED
  BY <1>2, <1>3 DEF Codes

LEMMA ConsumptionMoves ==
    ASSUME DInv, DeliveryNext
    PROVE  [C!ConsumptionNext]_(C!consumption)
<1>0. DeliveryStep
  BY DEF DeliveryNext
<1>1. CASE UNCHANGED consumed
  BY <1>1 DEF consumed, C!consumption
<1>2. ASSUME NEW d \in Dispatchers, ConsumeNext(d) PROVE C!ConsumptionNext
  <2>1. pc[d] = "publishing"
    BY <1>2 DEF ConsumeNext
  <2>2. PICK i \in Remaining(d) : C!Begin(d, <<snapshot[d][i].code, cur[d]>>)
    BY <1>2 DEF ConsumeNext
  <2>3. <<snapshot[d][i].code, cur[d]>> \in {s.code : s \in Subscriptions} \X Events
    BY <2>1, InHand, CodeOf DEF Remaining, Codes
  <2> QED
    BY <2>2, <2>3 DEF C!ConsumptionNext
<1>3. ASSUME NEW d \in Dispatchers, Consume(d) PROVE C!ConsumptionNext
  BY <1>3 DEF Consume, C!ConsumptionNext
<1>4. ASSUME NEW d \in Dispatchers, Stop(d), ~ UNCHANGED consumed PROVE C!ConsumptionNext
  <2>1. C!Fail(d)
    BY <1>4 DEF Stop
  <2> QED
    BY <2>1 DEF C!ConsumptionNext
<1> QED
  BY <1>0, <1>1, <1>2, <1>3, <1>4 DEF DeliveryStep, Subscribe, BeginPublish,
     PublishReturnsNil, PublishReturnsErr, publisher

LEMMA PartsKept ==
    ASSUME DInv, [DeliveryNext]_delivery
    PROVE  IInv' /\ CInv'
<1>1. [Next]_vars /\ [C!ConsumptionNext]_(C!consumption)
  BY OutboxMoves, ConsumptionMoves DEF delivery, consumed, C!consumption
<1>2. IInv /\ CInv
  BY DEF DInv
<1>3. IInv'
  BY <1>1, <1>2, InvStep
<1> QED
  BY <1>1, <1>2, <1>3, ConsumptionStep, DispatchersAssumption

-----------------------------------------------------------------------------
(* What a step leaves alone *)

\* The loop of a dispatcher is where it was.
SameLoop(d) ==
    /\ pc'[d] = pc[d] /\ cur'[d] = cur[d] /\ snapshot'[d] = snapshot[d]
    /\ next'[d] = next[d] /\ call'[d] = call[d] /\ (at'[d] # "idle" => at[d] # "idle")

\* Nothing is promised of a loop that neither publishes nor has just published.
OffLoop(d) == pc'[d] \notin {"publishing", "delivered"} /\ at'[d] = "idle"

RanGrows == \A e \in Events : ran[e] \subseteq ran'[e]

LEMMA LoopKept ==
    ASSUME DInv, NEW d \in Dispatchers, RanGrows, SameLoop(d) \/ OffLoop(d)
    PROVE  Place(d)' /\ Passed(d)' /\ Confirmed(d)'
<1>1. CASE OffLoop(d)
  BY <1>1 DEF OffLoop, Place, Passed, Confirmed
<1>2. CASE SameLoop(d)
  <2>1. Place(d) /\ Passed(d) /\ Confirmed(d)
    BY DEF DInv
  <2>2. Matched(d)' = Matched(d) /\ Current(d)' = Current(d)
    BY <1>2 DEF SameLoop, Matched, Current
  <2>3. Place(d)'
    BY <1>2, <2>1, <2>2 DEF SameLoop, Place
  <2>4. ASSUME pc[d] \in {"publishing", "delivered"}, NEW code, RanFor(code, cur[d])
        PROVE  RanFor(code, cur[d])'
    <3>1. cur[d] \in Events /\ cur'[d] = cur[d]
      BY <1>2, <2>4 DEF SameLoop, DInv, IInv, LoopInv, TypeOK
    <3> QED
      BY <2>4, <3>1 DEF RanFor, RanGrows
  <2>5. ASSUME pc'[d] = "publishing", NEW i \in Matched(d)', i < next'[d]
        PROVE  RanFor(snapshot[d][i].code, cur[d])'
    BY <1>2, <2>1, <2>2, <2>4, <2>5 DEF SameLoop, Passed
  <2>6. ASSUME pc'[d] = "delivered", NEW i \in Matched(d)'
        PROVE  RanFor(snapshot[d][i].code, cur[d])'
    BY <1>2, <2>1, <2>2, <2>4, <2>6 DEF SameLoop, Confirmed
  <2>7. pc'[d] = "delivered" => Matched(d)' # {}
    BY <1>2, <2>1, <2>2 DEF SameLoop, Confirmed
  <2> QED
    BY <2>3, <2>5, <2>6, <2>7 DEF Passed, Confirmed
<1> QED
  BY <1>1, <1>2

LEMMA EffectsStillRan ==
    ASSUME DInv, RanGrows, UNCHANGED effects
    PROVE  EffectsRan'
<1>1. EffectsRan
  BY DEF DInv
<1> QED
  BY <1>1 DEF EffectsRan, RanGrows, RanFor

\* In time now means in time before, and no batch is late.
LEMMA InTimeYet ==
    ASSUME DInv, DeliveryNext, ~ disturbed'
    PROVE  /\ ~ disturbed /\ ~ Disturbs
           /\ \A d \in Dispatchers : elapsed'[d] <= LockTimeout
<1>1. disturbed' = (disturbed \/ Disturbs) /\ disturbed \in BOOLEAN
  BY DEF DeliveryNext, DInv, DTyped
<1>2. ~ disturbed /\ ~ Disturbs
  BY <1>1
<1>3. \A d \in Dispatchers : elapsed'[d] \in Nat /\ ~ (elapsed'[d] > LockTimeout)
  BY <1>2, PartsKept DEF Disturbs, IInv, TypeOK
<1> QED
  BY <1>2, <1>3, TimingAssumption

\* A step in which consumptions at most begin, or end without a commit.
Harmless(d) == at'[d] \in {"idle", "select"} \/ (at'[d] = at[d] /\ call'[d] = call[d])

LEMMA OnceKept ==
    ASSUME DInv, DeliveryNext, UNCHANGED <<rec, effects>>,
           \A d \in Dispatchers : Harmless(d)
    PROVE  OnceInv'
<1> USE DEF Harmless
<1> SUFFICES ASSUME ~ disturbed'
             PROVE  /\ \A d \in Dispatchers : elapsed'[d] <= LockTimeout
                    /\ \A k \in Consumptions :
                          effects[k] <= 1 /\ (effects[k] > 0 => rec[k] = "completed")
                    /\ \A d \in Dispatchers : at'[d] \in {"insert", "callback", "failing"}
                                              => rec[call'[d]] # "completed"
  BY DEF OnceInv
<1>1. ~ disturbed /\ \A d \in Dispatchers : elapsed'[d] <= LockTimeout
  BY InTimeYet
<1>2. OnceInv
  BY DEF DInv
<1> QED
  BY <1>1, <1>2 DEF OnceInv

\* The outbox takes a dispatcher off the loop, or leaves it where it is.
LEMMA OutboxLoops ==
    ASSUME DInv, OutboxOnly, NEW d \in Dispatchers
    PROVE  \/ pc'[d] = pc[d] /\ cur'[d] = cur[d]
           \/ pc[d] # "publishing" /\ pc'[d] \notin {"publishing", "delivered"}
<1>1. pc \in [Dispatchers -> Places] /\ cur \in [Dispatchers -> Events \cup {NoOne}]
  BY DEF DInv, IInv, TypeOK
<1>2. ASSUME NEW e \in Events, AppendEvent(e) PROVE UNCHANGED <<pc, cur>>
  BY <1>2 DEF AppendEvent, worker
<1>3. CASE Tick
  BY <1>3 DEF Tick
<1>4. ASSUME NEW c \in Dispatchers, SelectBatch(c) PROVE
         pc[c] # "publishing" /\ pc' = [pc EXCEPT ![c] = "claiming"] /\ UNCHANGED cur
  BY <1>4 DEF SelectBatch
<1>5. ASSUME NEW c \in Dispatchers, CommitClaim(c) PROVE
         /\ pc[c] # "publishing" /\ UNCHANGED cur
         /\ \E p \in {"idle", "ready"} : pc' = [pc EXCEPT ![c] = p]
  BY <1>5 DEF CommitClaim
<1>6. ASSUME NEW c \in Dispatchers, MarkPublished(c) \/ MarkFailed(c) \/ MarkRejected(c) PROVE
         /\ pc[c] # "publishing" /\ cur' = [cur EXCEPT ![c] = NoOne]
         /\ \E p \in {"idle", "ready"} : pc' = [pc EXCEPT ![c] = p]
  BY <1>6 DEF MarkPublished, MarkFailed, MarkRejected, ReleaseRow, Abandon
<1> QED
  BY <1>1, <1>2, <1>3, <1>4, <1>5, <1>6 DEF OutboxOnly

LEMMA TypesKept ==
    ASSUME DInv, DeliveryNext, UNCHANGED <<subs, snapshot, next, ran>>
    PROVE  DTyped'
BY DEF DInv, DTyped, DeliveryTypeOK, DeliveryNext

LEMMA OutboxOnlyStep ==
    ASSUME DInv, DeliveryNext, OutboxOnly, UNCHANGED <<consumed, publisher>>
    PROVE  DInv'
<1>1. UNCHANGED <<rec, at, call, effects, subs, snapshot, next, ran>>
  BY DEF consumed, publisher
<1>2. ASSUME NEW d \in Dispatchers PROVE SameLoop(d) \/ OffLoop(d)
  <2>1. Place(d)
    BY DEF DInv
  <2> QED
    BY <1>1, <2>1, OutboxLoops DEF SameLoop, OffLoop, Place
<1>3. RanGrows
  BY <1>1 DEF RanGrows
<1> QED
  BY <1>1, <1>2, <1>3, PartsKept, TypesKept, LoopKept, EffectsStillRan, OnceKept
  DEF DInv, Harmless

LEMMA SubscribeStep ==
    ASSUME DInv, DeliveryNext, NEW s \in Subscriptions, Subscribe(s)
    PROVE  DInv'
<1>1. /\ subs' = Append(subs, s) /\ subs \in Seq(Subscriptions)
      /\ UNCHANGED <<pc, cur, rec, at, call, effects, snapshot, next, ran>>
  BY DEF Subscribe, vars, consumed, DInv, DTyped, DeliveryTypeOK
<1>2. DTyped'
  BY <1>1 DEF DInv, DTyped, DeliveryTypeOK, DeliveryNext
<1>3. RanGrows /\ \A d \in Dispatchers : SameLoop(d)
  BY <1>1 DEF RanGrows, SameLoop
<1> QED
  BY <1>1, <1>2, <1>3, PartsKept, LoopKept, EffectsStillRan, OnceKept
  DEF DInv, Harmless

LEMMA BeginPublishStep ==
    ASSUME DInv, DeliveryNext, NEW d \in Dispatchers, NEW e \in Events, BeginPublish(d, e)
    PROVE  DInv'
<1>1. /\ pc[d] = "ready" /\ pc' = [pc EXCEPT ![d] = "publishing"]
      /\ cur' = [cur EXCEPT ![d] = e]
      /\ snapshot' = [snapshot EXCEPT ![d] = subs] /\ next' = [next EXCEPT ![d] = 0]
      /\ UNCHANGED <<rec, at, call, effects, subs, ran>>
  BY DEF BeginPublish, StartPublish, consumed
<1>2. /\ pc \in [Dispatchers -> Places] /\ cur \in [Dispatchers -> Events \cup {NoOne}]
      /\ subs \in Seq(Subscriptions) /\ snapshot \in [Dispatchers -> Seq(Subscriptions)]
      /\ next \in [Dispatchers -> Nat] /\ \A c \in Dispatchers : next[c] \in 0..Len(snapshot[c])
  BY DEF DInv, IInv, TypeOK, DTyped, DeliveryTypeOK
<1>3. DTyped'
  <2>1. /\ snapshot' \in [Dispatchers -> Seq(Subscriptions)] /\ next' \in [Dispatchers -> Nat]
        /\ Len(subs) \in Nat
    BY <1>1, <1>2
  <2>2. \A c \in Dispatchers : next'[c] \in 0..Len(snapshot'[c])
    BY <1>1, <1>2, <2>1
  <2> QED
    BY <1>1, <1>2, <2>1, <2>2 DEF DInv, DTyped, DeliveryTypeOK, DeliveryNext
<1>4. at[d] = "idle"
  BY <1>1 DEF DInv, Place
<1>5. pc'[d] = "publishing" /\ next'[d] = 0 /\ at'[d] = "idle"
  BY <1>1, <1>2, <1>4
<1>6. Place(d)' /\ Confirmed(d)'
  BY <1>5 DEF Place, Confirmed
<1>7. Passed(d)'
  <2> SUFFICES ASSUME NEW i \in Matched(d)', i < next'[d] PROVE FALSE
    BY DEF Passed
  <2>1. snapshot'[d] = subs /\ i \in DOMAIN subs /\ DOMAIN subs = 1..Len(subs)
    BY <1>1, <1>2 DEF Matched
  <2> QED
    BY <1>5, <2>1
<1>8. RanGrows /\ \A c \in Dispatchers \ {d} : SameLoop(c)
  BY <1>1, <1>2 DEF RanGrows, SameLoop
<1> QED
  BY <1>1, <1>3, <1>6, <1>7, <1>8, PartsKept, LoopKept, EffectsStillRan, OnceKept
  DEF DInv, Harmless

\* Where the loop may go on, everything up to here has run.
LEMMA UpToHere ==
    ASSUME DInv, NEW d \in Dispatchers, pc[d] = "publishing", GoesOn(d),
           NEW i \in Matched(d), i <= next[d]
    PROVE  RanFor(snapshot[d][i].code, cur[d])
<1>1. Place(d) /\ Passed(d) /\ next[d] \in Nat /\ i \in 1..Len(snapshot[d])
  BY CodeOf DEF DInv, DTyped
<1>2. CASE i < next[d]
  BY <1>1, <1>2 DEF Passed
<1>3. CASE i = next[d]
  <2>1. call[d] = <<snapshot[d][i].code, cur[d]>> /\ result[d] \in {"processed", "skipped"}
    BY <1>1, <1>3 DEF Place, Current, GoesOn
  <2>2. effects[call[d]] > 0
    BY <2>1 DEF DInv, CInv, C!SuccessMeansEffect
  <2> QED
    BY <2>1, <2>2, CodeOf, InHand DEF DInv, EffectsRan
<1> QED
  BY <1>1, <1>2, <1>3

LEMMA ConsumeNextStep ==
    ASSUME DInv, DeliveryNext, NEW d \in Dispatchers, ConsumeNext(d)
    PROVE  DInv'
<1>1. PICK i \in Remaining(d) :
         /\ \A j \in Remaining(d) : i <= j
         /\ next' = [next EXCEPT ![d] = i]
         /\ C!Begin(d, <<snapshot[d][i].code, cur[d]>>)
  BY DEF ConsumeNext
<1>2. /\ pc[d] = "publishing" /\ GoesOn(d)
      /\ at' = [at EXCEPT ![d] = "select"] /\ UNCHANGED <<rec, effects>>
      /\ call' = [call EXCEPT ![d] = <<snapshot[d][i].code, cur[d]>>]
      /\ UNCHANGED <<pc, cur, subs, snapshot, ran>>
  BY <1>1 DEF ConsumeNext, C!Begin, C!Goto, vars
<1>3. /\ at \in [Dispatchers -> C!Stages] /\ next \in [Dispatchers -> Nat]
      /\ DOMAIN call = Dispatchers
      /\ \A c \in Dispatchers : next[c] \in 0..Len(snapshot[c])
  BY DEF DInv, CInv, C!ConsumptionTypeOK, DTyped, DeliveryTypeOK
<1>4. i \in Matched(d) /\ i > next[d] /\ i \in 1..Len(snapshot[d]) /\ i \in Nat
  BY CodeOf DEF Remaining
<1>5. DTyped'
  <2>1. next' \in [Dispatchers -> Nat] /\ \A c \in Dispatchers : next'[c] \in 0..Len(snapshot[c])
    BY <1>1, <1>3, <1>4
  <2> QED
    BY <1>2, <2>1 DEF DInv, DTyped, DeliveryTypeOK, DeliveryNext
<1>6. /\ Matched(d)' = Matched(d) /\ next'[d] = i /\ pc'[d] = "publishing"
      /\ call'[d] = <<snapshot[d][i].code, cur[d]>>
  BY <1>1, <1>2, <1>3 DEF Matched
<1>7. Place(d)' /\ Confirmed(d)'
  BY <1>2, <1>4, <1>6 DEF Place, Confirmed, Current
<1>8. Passed(d)'
  <2> SUFFICES ASSUME NEW j \in Matched(d), j < i PROVE RanFor(snapshot[d][j].code, cur[d])
    BY <1>2, <1>6 DEF Passed, RanFor
  <2>1. j \in Nat /\ next[d] \in Nat
    BY <1>3, CodeOf
  <2>2. j <= next[d]
    BY <1>1, <1>4, <2>1 DEF Remaining
  <2> QED
    BY <1>2, <2>2, UpToHere
<1>9. RanGrows /\ \A c \in Dispatchers \ {d} : SameLoop(c)
  BY <1>1, <1>2, <1>3 DEF RanGrows, SameLoop
<1>10. \A c \in Dispatchers : Harmless(c)
  BY <1>2, <1>3 DEF Harmless
<1>11. \A c \in Dispatchers : Place(c)' /\ Passed(c)' /\ Confirmed(c)'
  BY <1>7, <1>8, <1>9, LoopKept
<1>12. EffectsRan'
  BY <1>2, <1>9, EffectsStillRan
<1>13. OnceInv'
  <2>1. UNCHANGED <<rec, effects>>
    BY <1>2
  <2> QED
    BY <1>10, <2>1, OnceKept
<1> QED
  BY <1>5, <1>11, <1>12, <1>13, PartsKept DEF DInv

LEMMA PublishReturnsNilStep ==
    ASSUME DInv, DeliveryNext, NEW d \in Dispatchers, PublishReturnsNil(d)
    PROVE  DInv'
<1>1. /\ pc[d] = "publishing" /\ pc' = [pc EXCEPT ![d] = "delivered"]
      /\ at[d] = "idle" /\ Remaining(d) = {} /\ next[d] > 0 /\ GoesOn(d)
      /\ UNCHANGED <<cur, rec, at, call, effects, subs, snapshot, next, ran>>
  BY DEF PublishReturnsNil, PublishOk, AllConsumed, consumed, publisher
<1>2. pc \in [Dispatchers -> Places]
  BY DEF DInv, IInv, TypeOK
<1>3. Matched(d)' = Matched(d) /\ pc'[d] = "delivered"
  BY <1>1, <1>2 DEF Matched
<1>4. Place(d)' /\ Passed(d)'
  BY <1>1, <1>3 DEF Place, Passed
<1>5. next[d] \in Matched(d)
  BY <1>1 DEF DInv, Place
<1>6. ASSUME NEW i \in Matched(d) PROVE RanFor(snapshot[d][i].code, cur[d])
  <2>1. i \in Nat /\ next[d] \in Nat
    BY CodeOf DEF DInv, DTyped
  <2>2. i <= next[d]
    BY <1>1, <2>1 DEF Remaining
  <2> QED
    BY <1>1, <2>2, UpToHere
<1>7. Confirmed(d)'
  BY <1>1, <1>3, <1>5, <1>6 DEF Confirmed, RanFor
<1>8. RanGrows /\ \A c \in Dispatchers \ {d} : SameLoop(c)
  BY <1>1, <1>2 DEF RanGrows, SameLoop
<1> QED
  BY <1>1, <1>4, <1>7, <1>8, PartsKept, TypesKept, LoopKept, EffectsStillRan, OnceKept
  DEF DInv, Harmless

LEMMA PublishReturnsErrStep ==
    ASSUME DInv, DeliveryNext, NEW d \in Dispatchers, PublishReturnsErr(d)
    PROVE  DInv'
<1>1. /\ pc[d] = "publishing" /\ pc' = [pc EXCEPT ![d] = "refused"]
      /\ Matched(d) = {} \/ at[d] = "idle"
      /\ UNCHANGED <<cur, rec, at, call, effects, subs, snapshot, next, ran>>
  BY DEF PublishReturnsErr, PublishErr, consumed, publisher
<1>2. pc \in [Dispatchers -> Places]
  BY DEF DInv, IInv, TypeOK
<1>3. at[d] = "idle"
  BY <1>1 DEF DInv, Place
<1>4. RanGrows /\ \A c \in Dispatchers : SameLoop(c) \/ OffLoop(c)
  BY <1>1, <1>2, <1>3 DEF RanGrows, SameLoop, OffLoop
<1> QED
  BY <1>1, <1>4, PartsKept, TypesKept, LoopKept, EffectsStillRan, OnceKept
  DEF DInv, Harmless

LEMMA StopStep ==
    ASSUME DInv, DeliveryNext, NEW d \in Dispatchers, Stop(d)
    PROVE  DInv'
<1>1. /\ pc' = [pc EXCEPT ![d] = "idle"] /\ cur' = [cur EXCEPT ![d] = NoOne]
      /\ UNCHANGED <<subs, snapshot, next, ran>>
  BY DEF Stop, Interrupt, Abandon, publisher
<1>2. at' = [at EXCEPT ![d] = "idle"] /\ UNCHANGED <<rec, call, effects>>
  <2>1. at \in [Dispatchers -> C!Stages]
    BY DEF DInv, CInv, C!ConsumptionTypeOK
  <2>2. CASE at[d] = "idle"
    BY <2>1, <2>2 DEF Stop, consumed
  <2>3. CASE at[d] # "idle"
    BY <2>3 DEF Stop, C!Fail, C!Return, C!Goto
  <2> QED
    BY <2>2, <2>3
<1>3. /\ pc \in [Dispatchers -> Places] /\ cur \in [Dispatchers -> Events \cup {NoOne}]
      /\ at \in [Dispatchers -> C!Stages]
  BY DEF DInv, IInv, TypeOK, CInv, C!ConsumptionTypeOK
<1>4. RanGrows /\ \A c \in Dispatchers : SameLoop(c) \/ OffLoop(c)
  BY <1>1, <1>2, <1>3 DEF RanGrows, SameLoop, OffLoop
<1>5. \A c \in Dispatchers : Harmless(c)
  BY <1>2, <1>3 DEF Harmless
<1> QED
  BY <1>1, <1>2, <1>4, <1>5, PartsKept, TypesKept, LoopKept, EffectsStillRan, OnceKept
  DEF DInv, Harmless

\* As long as nothing is late, two dispatchers never consume the same event.
LEMMA Alone ==
    ASSUME DInv, ~ disturbed, NEW c \in Dispatchers, NEW d \in Dispatchers, c # d,
           at[c] # "idle", at[d] # "idle"
    PROVE  call[c] # call[d]
<1>1. ASSUME NEW x \in Dispatchers, at[x] # "idle"
      PROVE  call[x] = <<Current(x).code, cur[x]>> /\ lockToken[cur[x]] = x
  <2>1. pc[x] = "publishing" /\ call[x] = <<Current(x).code, cur[x]>>
    BY <1>1 DEF DInv, Place
  <2>2. cur[x] \in Events /\ cur[x] \in batch[x] /\ Working(x)
    BY <2>1, InHand DEF Working
  <2>3. elapsed[x] \in Nat /\ elapsed[x] <= LockTimeout
    BY DEF DInv, OnceInv, IInv, TypeOK
  <2>4. HoldsClaim(x, cur[x])
    <3>1. IF HoldsClaim(x, cur[x]) THEN lockAge[cur[x]] = elapsed[x] ELSE elapsed[x] > LockTimeout
      BY <2>2 DEF DInv, IInv, LeaseInv
    <3> QED
      BY <2>3, <3>1, TimingAssumption
  <2> QED
    BY <2>1, <2>4 DEF HoldsClaim
<1> QED
  BY <1>1

\* What a statement of a consumption does, by its kind: it moves on, commits
\* the callback, or records a failure.
Moved(d) ==
    /\ UNCHANGED <<rec, effects>>
    /\ \/ at'[d] = "insert" /\ rec[call[d]] = "absent"
       \/ at'[d] = "callback" /\ (rec[call[d]] = "absent" \/ rec[call[d]] # "completed")
       \/ at'[d] = "failing" /\ at[d] \in {"insert", "callback"}
       \/ at'[d] = "failing" /\ holder[call[d]] # NoOne /\ at[d] # "callback"
       \/ at'[d] = "idle"

Committed(d) ==
    /\ at[d] = "callback" /\ at'[d] \in {"idle", "failing"}
    /\ rec' = [rec EXCEPT ![call[d]] = "completed"]
    /\ effects' = [effects EXCEPT ![call[d]] = @ + 1]

FailureRecorded(d) ==
    /\ at[d] = "failing" /\ at'[d] = "idle"
    /\ rec' = [rec EXCEPT ![call[d]] = "failed"] /\ UNCHANGED effects

LEMMA StepKinds ==
    ASSUME DInv, NEW d \in Dispatchers, C!Step(d)
    PROVE  /\ at[d] # "idle" /\ UNCHANGED call
           /\ \A c \in Dispatchers \ {d} : at'[c] = at[c]
           /\ Moved(d) \/ Committed(d) \/ FailureRecorded(d)
<1>0. at \in [Dispatchers -> C!Stages]
  BY DEF DInv, CInv, C!ConsumptionTypeOK
<1> USE <1>0 DEF C!Goto, C!Return
<1>1. CASE C!SelectMissing(d)
  BY <1>1 DEF C!SelectMissing, Moved
<1>2. CASE C!SelectCompleted(d)
  BY <1>2 DEF C!SelectCompleted, Moved
<1>3. CASE C!SelectUnfinished(d)
  BY <1>3 DEF C!SelectUnfinished, C!Finished, Moved
<1>4. CASE C!InsertRow(d)
  BY <1>4 DEF C!InsertRow, Moved
<1>5. CASE C!InsertDuplicate(d)
  BY <1>5 DEF C!InsertDuplicate, Moved
<1>6. CASE C!WaitFails(d)
  BY <1>6 DEF C!WaitFails, Moved
<1>7. CASE C!CommitEffect(d)
  BY <1>7 DEF C!CommitEffect, Committed
<1>8. CASE C!CommitUnconfirmed(d)
  BY <1>8 DEF C!CommitUnconfirmed, Committed
<1>9. CASE C!RollBack(d)
  BY <1>9 DEF C!RollBack, Moved
<1>10. CASE C!RecordFailure(d)
  BY <1>10 DEF C!RecordFailure, C!FailureRecord, FailureRecorded
<1> QED
  BY <1>1, <1>2, <1>3, <1>4, <1>5, <1>6, <1>7, <1>8, <1>9, <1>10 DEF C!Step

\* Of the event it has in hand, a dispatcher in time finds no other's lock.
LEMMA NoWait ==
    ASSUME DInv, ~ disturbed, NEW d \in Dispatchers, at[d] \notin {"idle", "callback"}
    PROVE  holder[call[d]] = NoOne
<1>1. call[d] \in Consumptions
  BY DEF DInv, CInv, CallInv, Consumptions, Codes
<1>2. ASSUME holder[call[d]] # NoOne PROVE FALSE
  <2> DEFINE h == holder[call[d]]
  <2>1. h \in Dispatchers /\ at[h] = "callback" /\ call[h] = call[d]
    BY <1>1, <1>2 DEF DInv, CInv, C!ConsumptionTypeOK, HoldInv, Consumptions, Codes
  <2> QED
    BY <2>1, Alone
<1> QED
  BY <1>2

LEMMA OnceStep ==
    ASSUME DInv, DeliveryNext, NEW d \in Dispatchers, C!Step(d)
    PROVE  OnceInv'
<1> SUFFICES ASSUME ~ disturbed'
             PROVE  /\ \A c \in Dispatchers : elapsed'[c] <= LockTimeout
                    /\ \A k \in Consumptions :
                          effects'[k] <= 1 /\ (effects'[k] > 0 => rec'[k] = "completed")
                    /\ \A c \in Dispatchers : at'[c] \in {"insert", "callback", "failing"}
                                              => rec'[call'[c]] # "completed"
  BY DEF OnceInv
<1>1. ~ disturbed /\ ~ Disturbs /\ \A c \in Dispatchers : elapsed'[c] <= LockTimeout
  BY InTimeYet
<1>2. /\ \A k \in Consumptions : effects[k] <= 1 /\ (effects[k] > 0 => rec[k] = "completed")
      /\ \A c \in Dispatchers :
            at[c] \in {"insert", "callback", "failing"} => rec[call[c]] # "completed"
  BY <1>1 DEF DInv, OnceInv
<1>3. /\ call[d] \in Consumptions /\ effects \in [Consumptions -> Nat]
      /\ DOMAIN rec = Consumptions
  BY StepKinds DEF DInv, CInv, CallInv, C!ConsumptionTypeOK, Consumptions, Codes
<1>4. /\ at[d] # "idle" /\ UNCHANGED call
      /\ \A c \in Dispatchers \ {d} : at'[c] = at[c]
  BY StepKinds
<1>5. CASE Moved(d)
  <2>1. at'[d] \in {"insert", "callback", "failing"} => rec[call[d]] # "completed"
    BY <1>1, <1>2, <1>4, <1>5, NoWait DEF Moved
  <2> QED
    BY <1>1, <1>2, <1>4, <1>5, <2>1 DEF Moved
<1>6. CASE Committed(d)
  <2>1. effects[call[d]] = 0
    BY <1>2, <1>3, <1>6 DEF Committed
  <2>2. effects' # effects
    BY <1>3, <1>6, <2>1 DEF Committed
  <2>3. at'[d] = "idle"
    BY <1>1, <1>6, <2>2 DEF Committed, Disturbs
  <2>4. \A k \in Consumptions : effects'[k] <= 1 /\ (effects'[k] > 0 => rec'[k] = "completed")
    BY <1>2, <1>3, <1>6, <2>1 DEF Committed
  <2>5. ASSUME NEW c \in Dispatchers, at'[c] \in {"insert", "callback", "failing"}
        PROVE  rec'[call'[c]] # "completed"
    <3>1. c # d /\ at[c] = at'[c]
      BY <1>4, <2>3, <2>5
    <3>2. call[c] # call[d]
      BY <1>1, <1>4, <2>5, <3>1, Alone
    <3>3. rec'[call[c]] = rec[call[c]]
      BY <1>6, <3>2 DEF Committed
    <3> QED
      BY <1>2, <1>4, <2>5, <3>1, <3>3
  <2> QED
    BY <1>1, <2>4, <2>5
<1>7. CASE FailureRecorded(d)
  <2>1. effects[call[d]] = 0
    BY <1>2, <1>3, <1>7 DEF FailureRecorded
  <2>2. \A k \in Consumptions : effects'[k] <= 1 /\ (effects'[k] > 0 => rec'[k] = "completed")
    BY <1>2, <1>3, <1>7, <2>1 DEF FailureRecorded
  <2>3. \A c \in Dispatchers : at'[c] \in {"insert", "callback", "failing"}
                               => rec'[call'[c]] # "completed"
    BY <1>2, <1>3, <1>4, <1>7 DEF FailureRecorded
  <2> QED
    BY <1>1, <2>2, <2>3
<1> QED
  BY <1>5, <1>6, <1>7, StepKinds

LEMMA ConsumeStep ==
    ASSUME DInv, DeliveryNext, NEW d \in Dispatchers, Consume(d)
    PROVE  DInv'
<1>1. /\ C!Step(d)
      /\ ran' = IF effects' # effects THEN [ran EXCEPT ![cur[d]] = @ \cup {Current(d)}] ELSE ran
      /\ UNCHANGED <<pc, cur, subs, snapshot, next>>
  BY DEF Consume, vars
<1>2. /\ at[d] # "idle" /\ UNCHANGED call
      /\ \A c \in Dispatchers \ {d} : at'[c] = at[c]
      /\ Moved(d) \/ Committed(d) \/ FailureRecorded(d)
  BY <1>1, StepKinds
<1>3. /\ next[d] \in Matched(d) /\ call[d] = <<Current(d).code, cur[d]>>
      /\ pc[d] = "publishing"
  BY <1>2 DEF DInv, Place
<1>4. /\ Current(d) \in Subscriptions /\ Current(d).code \in Codes /\ cur[d] \in Events
      /\ ran \in [Events -> SUBSET Subscriptions]
      /\ effects \in [Consumptions -> Nat] /\ call[d] \in Consumptions
  BY <1>3, CodeOf, InHand DEF Current, DInv, DTyped, DeliveryTypeOK, CInv,
                              C!ConsumptionTypeOK, Consumptions, Codes
<1>5. ran' \in [Events -> SUBSET Subscriptions] /\ RanGrows
  BY <1>1, <1>4 DEF RanGrows
<1>6. DTyped'
  BY <1>1, <1>5 DEF DInv, DTyped, DeliveryTypeOK, DeliveryNext
<1>7. \A c \in Dispatchers : Place(c)' /\ Passed(c)' /\ Confirmed(c)'
  <2>1. \A c \in Dispatchers : SameLoop(c)
    BY <1>1, <1>2 DEF SameLoop
  <2> QED
    BY <1>5, <2>1, LoopKept
<1>8. EffectsRan'
  <2>1. CASE UNCHANGED effects
    BY <1>5, <2>1, EffectsStillRan
  <2>2. CASE Committed(d)
    <3> SUFFICES ASSUME NEW code \in Codes, NEW e \in Events, effects'[<<code, e>>] > 0
                 PROVE  RanFor(code, e)'
      BY DEF EffectsRan
    <3>1. effects' # effects
      BY <1>4, <2>2 DEF Committed
    <3>2. ran' = [ran EXCEPT ![cur[d]] = @ \cup {Current(d)}]
      BY <1>1, <3>1
    <3>3. CASE <<code, e>> = call[d]
      <4>1. code = Current(d).code /\ e = cur[d]
        BY <1>3, <3>3
      <4> QED
        BY <1>4, <3>2, <4>1 DEF RanFor
    <3>4. CASE <<code, e>> # call[d]
      <4>1. effects[<<code, e>>] > 0
        BY <1>4, <2>2, <3>4 DEF Committed, Consumptions
      <4> QED
        BY <1>5, <4>1 DEF DInv, EffectsRan, RanFor, RanGrows
    <3> QED
      BY <3>3, <3>4
  <2> QED
    BY <1>2, <2>1, <2>2 DEF Moved, FailureRecorded
<1>9. OnceInv'
  BY <1>1, OnceStep
<1> QED
  BY <1>6, <1>7, <1>8, <1>9, PartsKept DEF DInv

LEMMA DeliveryInvStep == DInv /\ [DeliveryNext]_delivery => DInv'
<1> SUFFICES ASSUME DInv, [DeliveryNext]_delivery PROVE DInv'
  OBVIOUS
<1>1. CASE UNCHANGED delivery
  <2>1. UNCHANGED <<subs, snapshot, next, ran, disturbed, rec, effects, at, call, pc, cur, elapsed>>
    BY <1>1 DEF delivery, vars, consumed, publisher
  <2>2. DTyped' /\ OnceInv'
    BY <2>1 DEF DInv, DTyped, DeliveryTypeOK, OnceInv
  <2>3. RanGrows /\ \A d \in Dispatchers : SameLoop(d)
    BY <2>1 DEF RanGrows, SameLoop
  <2> QED
    BY <2>1, <2>2, <2>3, PartsKept, LoopKept, EffectsStillRan DEF DInv
<1>2. CASE DeliveryNext
  <2>1. DeliveryStep
    BY <1>2 DEF DeliveryNext
  <2> QED
    BY <1>2, <2>1, OutboxOnlyStep, SubscribeStep, BeginPublishStep, ConsumeNextStep,
       ConsumeStep, PublishReturnsNilStep, PublishReturnsErrStep, StopStep DEF DeliveryStep
<1> QED
  BY <1>1, <1>2

-----------------------------------------------------------------------------
(* The theorems *)

LEMMA DeliveryInvariance == DeliverySpec => []DInv
BY DeliveryInit_Inv, DeliveryInvStep, PTL DEF DeliverySpec

\* Every reachable state of the delivery is well typed.
THEOREM DeliveryTypeCorrect == DeliverySpec => []DeliveryTypeOK
<1>1. DInv => DeliveryTypeOK
  BY DEF DInv, DTyped
<1> QED
  BY DeliveryInvariance, <1>1, PTL

\* Each consumer executes each event at most once while no batch outlives
\* lockTimeout and no commit's answer is lost, whatever crashes, for any
\* number of processes, events and subscriptions.
THEOREM OnceInTime == DeliverySpec => []ExactlyOnceInTime
<1>1. DInv => ExactlyOnceInTime
  BY DEF DInv, OnceInv, ExactlyOnceInTime, Consumptions, Codes
<1> QED
  BY DeliveryInvariance, <1>1, PTL

\* An event that Publish confirms has run in every consumer that matched when
\* the attempt began, and there was one (publisher.go, Publish).
THEOREM ConfirmedHasRun == DeliverySpec => []EveryConsumerRan
<1>1. DInv => EveryConsumerRan
  BY DEF DInv, Confirmed, EveryConsumerRan
<1> QED
  BY DeliveryInvariance, <1>1, PTL
=============================================================================
