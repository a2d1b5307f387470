------------------------------- MODULE AiCalls -------------------------------
(***************************************************************************)
(* src/aiobs: every call of a model leaves a record, which is priced,      *)
(* counted, and handed to the observers; MySQLStore buffers the records,   *)
(* drops what does not fit, and writes them in batches.                    *)
(***************************************************************************)
EXTENDS Naturals, FiniteSetsExt

CONSTANTS
    Requesters,     \* goroutines that call models
    Records,        \* what a call leaves: scenario, model, outcome, tokens, cost
    Models, Known,  \* Known: models with a builtin price
    BufferCap, BatchSize,
    MaxRecords      \* bound: records in all

ASSUME AiCallsAssumption ==
    /\ BatchSize \in Nat \ {0} /\ BufferCap \in Nat
    /\ IsFiniteSet(Requesters) /\ IsFiniteSet(Records)
    /\ Records \subseteq [scenario : STRING, model : STRING, outcome : STRING, tokens : Nat,
                         cost : STRING, priced : BOOLEAN]

VARIABLES
    prices,     \* models priced by SetModelPrices
    observers,  \* how often the store is registered
    calls,      \* calls[q]: an Observe in progress
    stats,      \* stats[s]: calls and failures of a scenario
    totals,     \* totalCalls, failedCalls
    channel, batch, flusher,    \* lengths of the store's buffer and batch; its loop
    counts,     \* dropped, written
    offered,    \* records the store was offered
    closing,    \* closeCh is closed
    closers,    \* calls of Close about to close it
    late        \* records accepted after the loop had found the buffer empty

callVars == <<prices, observers, calls, stats, totals>>
storeVars == <<channel, batch, flusher, counts, offered, closing, closers, late>>
aiVars == <<callVars, storeVars>>

NoCall == [at |-> "none", rec |-> 0, left |-> 0]
Zero == [calls |-> 0, failures |-> 0]

Normalized(r) ==
    [r EXCEPT !.outcome = IF @ = "" THEN "failed" ELSE @,
              !.scenario = IF @ = "" THEN "unspecified" ELSE @]

AiInit ==
    /\ prices = {} /\ observers = 0 /\ calls = [q \in Requesters |-> NoCall]
    /\ stats = [s \in {Normalized(r).scenario : r \in Records} |-> Zero] /\ totals = Zero
    /\ channel = 0 /\ batch = 0 /\ flusher = "loop" /\ offered = 0 /\ late = 0
    /\ counts = [dropped |-> 0, written |-> 0]
    /\ closing = FALSE /\ closers = 0

\* LookupModelPrice, and applyPricing: an explicit cost stays, also when the
\* model has no price.
LookupModelPrice(m) == m \in prices \cup Known
ApplyPricing(r) ==
    IF r.tokens = 0 THEN r
    ELSE IF ~LookupModelPrice(r.model) THEN [r EXCEPT !.priced = FALSE]
    ELSE [r EXCEPT !.priced = TRUE, !.cost = IF @ = "" THEN "price" ELSE @]

SetModelPrices(m) == /\ prices' = prices \cup {m}
                     /\ UNCHANGED <<observers, calls, stats, totals, storeVars>>
RegisterObserver == /\ observers < 2 /\ observers' = observers + 1
            /\ UNCHANGED <<prices, calls, stats, totals, storeVars>>

\* Observe: normalise and price,
Observe(q, r) ==
    /\ calls[q].at = "none"
    /\ calls' = [calls EXCEPT ![q] =
                    [at |-> "stat", rec |-> ApplyPricing(Normalized(r)), left |-> 0]]
    /\ UNCHANGED <<prices, observers, stats, totals, storeVars>>

\* accumulate: the scenario's counters and then the totals,
AccumulateScenario(q) ==
    LET r == calls[q].rec
        n == IF r.outcome = "success" THEN 0 ELSE 1 IN
    /\ calls[q].at = "stat"
    /\ stats' = [stats EXCEPT ![r.scenario] = [calls |-> @.calls + 1, failures |-> @.failures + n]]
    /\ calls' = [calls EXCEPT ![q].at = "total"]
    /\ UNCHANGED <<prices, observers, totals, storeVars>>
AccumulateTotal(q) ==
    LET n == IF calls[q].rec.outcome = "success" THEN 0 ELSE 1 IN
    /\ calls[q].at = "total"
    /\ totals' = [calls |-> totals.calls + 1, failures |-> totals.failures + n]
    /\ calls' = [calls EXCEPT ![q].at = "observers"]
    /\ UNCHANGED <<prices, observers, stats, storeVars>>

\* and the observers that are registered by now, one after the other.
CopyObservers(q) ==
    /\ calls[q].at = "observers"
    /\ calls' = [calls EXCEPT ![q] = IF observers = 0 THEN NoCall
                                     ELSE [@ EXCEPT !.at = "offer", !.left = observers]]
    /\ UNCHANGED <<prices, observers, stats, totals, storeVars>>

\* MySQLStore.Observe: never waits, also when the loop has ended.
StoreObserve(q) ==
    /\ calls[q].at = "offer"
    /\ offered' = offered + 1
    /\ IF channel < BufferCap
       THEN channel' = channel + 1 /\ UNCHANGED counts
       ELSE counts' = [counts EXCEPT !.dropped = @ + 1] /\ UNCHANGED channel
    /\ late' = IF flusher \in {"last", "ended"} /\ channel < BufferCap THEN late + 1 ELSE late
    /\ calls' = [calls EXCEPT ![q] = IF calls[q].left = 1 THEN NoCall
                                     ELSE [calls[q] EXCEPT !.left = calls[q].left - 1]]
    /\ UNCHANGED <<prices, observers, stats, totals, batch, flusher, closing, closers>>

-----------------------------------------------------------------------------
\* Mutant: a batch that failed is kept, and counted again.
FlushKeeping ==
    \/ counts' = [counts EXCEPT !.dropped = @ + batch] /\ UNCHANGED batch
    \/ counts' = [counts EXCEPT !.written = @ + batch] /\ batch' = 0

\* flush: the batch is written, or counted as dropped, and emptied.
Flush ==
    /\ batch' = 0
    /\ \/ counts' = [counts EXCEPT !.dropped = @ + batch]
       \/ counts' = [counts EXCEPT !.written = @ + batch]

\* loop: take one, or flush a full batch before the next; a tick flushes.
LoopTake ==
    /\ flusher = "loop" /\ channel > 0 /\ batch < BatchSize
    /\ batch' = batch + 1 /\ channel' = channel - 1
    /\ UNCHANGED <<callVars, flusher, counts, offered, closing, closers, late>>
LoopFlush ==
    /\ flusher = "loop" /\ batch > 0 /\ Flush
    /\ UNCHANGED <<callVars, channel, flusher, offered, closing, closers, late>>
LoopDrain ==
    /\ flusher = "loop" /\ closing /\ batch < BatchSize /\ flusher' = "drain"
    /\ UNCHANGED <<callVars, channel, batch, counts, offered, closing, closers, late>>

\* After Close: all that is in the buffer until it is found empty, one last
\* flush, and the end; what is accepted during that flush stays in the buffer.
Drain ==
    /\ flusher = "drain"
    /\ IF channel > 0 THEN batch' = batch + 1 /\ channel' = channel - 1 /\ UNCHANGED flusher
                      ELSE flusher' = "last" /\ UNCHANGED <<batch, channel>>
    /\ UNCHANGED <<callVars, counts, offered, closing, closers, late>>
LastFlush ==
    /\ flusher = "last" /\ Flush /\ flusher' = "ended"
    /\ UNCHANGED <<callVars, channel, offered, closing, closers, late>>

\* Close looks whether closeCh is closed, and closes it; when another Close
\* has done so in between, this one panics.
CloseCheck ==
    /\ ~closing /\ closers < 2 /\ closers' = closers + 1
    /\ UNCHANGED <<callVars, channel, batch, flusher, counts, offered, closing, late>>
CloseChannel ==
    /\ closers > 0 /\ closers' = closers - 1
    /\ closing' = TRUE
    /\ UNCHANGED <<callVars, channel, batch, flusher, counts, offered, late>>

AiNext ==
    \/ \E m \in Models : SetModelPrices(m)
    \/ RegisterObserver \/ LoopTake \/ LoopFlush \/ LoopDrain \/ Drain \/ LastFlush
    \/ CloseCheck \/ CloseChannel
    \/ \E q \in Requesters :
        \/ /\ totals.calls + Cardinality({p \in Requesters : calls[p].at \in {"stat", "total"}})
                < MaxRecords
           /\ \E r \in Records : Observe(q, r)
        \/ AccumulateScenario(q) \/ AccumulateTotal(q) \/ CopyObservers(q) \/ StoreObserve(q)

-----------------------------------------------------------------------------
Between(x) == Cardinality({q \in Requesters : calls[q].at = "total"
                                /\ (x = "failures" => calls[q].rec.outcome # "success")})

\* Each record offered to the store is in its buffer or batch or was counted
\* once, as written or as dropped; what the loop leaves behind, neither written
\* nor counted, is what was accepted after it had found the buffer empty, during
\* its last flush or later.  Totals lag behind the scenarios by the calls in
\* between, and what has a price is priced (src/aiobs/store.go:125, aiobs.go:116).
AiCallsHold ==
    /\ counts.dropped + counts.written + channel + batch = offered
    /\ flusher \in {"last", "ended"} => closing /\ channel = late
    /\ flusher = "ended" => batch = 0
    /\ \A f \in {"calls", "failures"} :
         MapThenSumSet(LAMBDA s : stats[s][f], DOMAIN stats) = totals[f] + Between(f)
    /\ \A q \in Requesters : LET r == calls[q].rec IN calls[q].at # "none" =>
         /\ r.tokens > 0 /\ r.model \in Known => r.priced /\ r.cost # ""
         /\ r.outcome # "" /\ r.scenario # ""
=============================================================================
