---------------------------- MODULE Consumption ----------------------------
(***************************************************************************)
(* Idempotent consumption of src/event: Service.ConsumeOnce with the       *)
(* EventConsumption row it keeps per consumer and event                    *)
(* (Repository.ConsumeOnce, MarkConsumptionFailed).                        *)
(*                                                                         *)
(* A caller runs one transaction per call: it selects the row FOR UPDATE,  *)
(* inserts or updates it, runs the callback inside the transaction and     *)
(* commits.  What the transaction writes is invisible, and undone by a     *)
(* rollback, until the commit; only row locks and the uncommitted insert   *)
(* of the unique (consumer, event) key are felt by the others.  After an   *)
(* error a second, separate statement records the failure.                 *)
(***************************************************************************)
EXTENDS Naturals

CONSTANTS
    Keys,       \* pairs of a consumer and an event
    Callers,    \* goroutines that may call ConsumeOnce
    NoCaller,   \* no lock holder
    NoKey,      \* no call in progress
    MaxCalls,   \* bound: calls of ConsumeOnce per key
    LostAcks    \* TRUE: a commit may succeed and still be reported as failed

ASSUME CallersAssumption == NoCaller \notin Callers

VARIABLES
    rec,        \* rec[k]: the committed status of the row, or "absent"
    holder,     \* holder[k]: the transaction that locked or inserted the row
    at,         \* at[c]: where the caller's ConsumeOnce is
    call,       \* call[c]: the key of its call, or of its last call
    result,     \* result[c]: what its last call returned
    effects,    \* history: committed executions of the callback, per key
    calls       \* calls of ConsumeOnce so far, per key

consumption == <<rec, holder, at, call, result, effects, calls>>

Records  == {"absent", "processing", "completed", "failed"}
Stages   == {"idle", "select", "insert", "callback", "failing"}
Results  == {"none", "processed", "skipped", "error"}

ConsumptionTypeOK ==
    /\ rec \in [Keys -> Records]
    /\ holder \in [Keys -> Callers \cup {NoCaller}]
    /\ at \in [Callers -> Stages]
    /\ call \in [Callers -> Keys \cup {NoKey}]
    /\ result \in [Callers -> Results]
    /\ effects \in [Keys -> Nat]
    /\ calls \in [Keys -> Nat]

ConsumptionInit ==
    /\ rec = [k \in Keys |-> "absent"]
    /\ holder = [k \in Keys |-> NoCaller]
    /\ at = [c \in Callers |-> "idle"]
    /\ call = [c \in Callers |-> NoKey]
    /\ result = [c \in Callers |-> "none"]
    /\ effects = [k \in Keys |-> 0]
    /\ calls = [k \in Keys |-> 0]

-----------------------------------------------------------------------------
Goto(c, stage) == at' = [at EXCEPT ![c] = stage]

\* Mutant: SELECT without FOR UPDATE.
LockFree(c, k) == holder' = [holder EXCEPT ![k] = c]

Lock(c, k) == holder[k] = NoCaller /\ holder' = [holder EXCEPT ![k] = c]

\* Mutant: the transaction is left open.
StillLocked(c) == holder

\* The transaction ends, by commit or rollback.
Unlocked(c) == [k \in Keys |-> IF holder[k] = c THEN NoCaller ELSE holder[k]]

\* ConsumeOnce returns to its caller.
Return(c, value) ==
    /\ Goto(c, "idle")
    /\ result' = [result EXCEPT ![c] = value]

Begin(c, k) ==
    /\ at[c] = "idle"
    /\ calls[k] < MaxCalls
    /\ Goto(c, "select")
    /\ call' = [call EXCEPT ![c] = k]
    /\ result' = [result EXCEPT ![c] = "none"]
    /\ calls' = [calls EXCEPT ![k] = @ + 1]
    /\ UNCHANGED <<rec, holder, effects>>

\* Mutants: a failed row counts as finished; the completed check is missing.
FinishedOnFailure(k) == rec[k] \in {"completed", "failed"}
FinishedNever(k)     == FALSE

Finished(k) == rec[k] = "completed"

(* SELECT ... FOR UPDATE.  It waits for a transaction that locked or       *)
(* inserted the row.  A completed row ends the call; any other row is updated to *)
(* processing inside the transaction, a missing row has to be inserted.    *)
SelectMissing(c) ==
    /\ at[c] = "select"
    /\ rec[call[c]] = "absent"
    /\ holder[call[c]] = NoCaller
    /\ Goto(c, "insert")
    /\ UNCHANGED <<rec, holder, call, result, effects, calls>>

SelectCompleted(c) ==
    /\ at[c] = "select"
    /\ Finished(call[c])
    /\ holder[call[c]] = NoCaller
    /\ Return(c, "skipped")
    /\ UNCHANGED <<rec, holder, call, effects, calls>>

SelectUnfinished(c) ==
    /\ at[c] = "select"
    /\ rec[call[c]] # "absent"
    /\ ~Finished(call[c])
    /\ Lock(c, call[c])
    /\ Goto(c, "callback")
    /\ UNCHANGED <<rec, call, result, effects, calls>>

(* INSERT under the unique index: it waits for another uncommitted insert  *)
(* of the key and fails as a duplicate once a row is committed.            *)
InsertRow(c) ==
    /\ at[c] = "insert"
    /\ rec[call[c]] = "absent"
    /\ Lock(c, call[c])
    /\ Goto(c, "callback")
    /\ UNCHANGED <<rec, call, result, effects, calls>>

InsertDuplicate(c) ==
    /\ at[c] = "insert"
    /\ rec[call[c]] # "absent"
    /\ Goto(c, "failing")
    /\ UNCHANGED <<rec, holder, call, result, effects, calls>>

\* A statement that waits for another transaction fails: its wait times out,
\* or it is the victim of a deadlock between two inserts of the key.
WaitFails(c) ==
    /\ at[c] \in {"select", "insert"}
    /\ holder[call[c]] # NoCaller
    /\ Goto(c, "failing")
    /\ UNCHANGED <<rec, holder, call, result, effects, calls>>

(* The callback returned nil: the row becomes completed and the commit     *)
(* makes it and the callback's own writes visible.                         *)
CommitEffect(c) ==
    LET k == call[c] IN
    /\ at[c] = "callback"
    /\ rec' = [rec EXCEPT ![k] = "completed"]
    /\ effects' = [effects EXCEPT ![k] = @ + 1]
    /\ holder' = Unlocked(c)
    /\ Return(c, "processed")
    /\ UNCHANGED <<call, calls>>

(* The commit went through but its answer was lost: the transaction helper *)
(* reports an error and ConsumeOnce takes the failure path.                *)
CommitUnconfirmed(c) ==
    LET k == call[c] IN
    /\ LostAcks
    /\ at[c] = "callback"
    /\ rec' = [rec EXCEPT ![k] = "completed"]
    /\ effects' = [effects EXCEPT ![k] = @ + 1]
    /\ holder' = Unlocked(c)
    /\ Goto(c, "failing")
    /\ UNCHANGED <<call, result, calls>>

(* The callback or a statement after it failed: everything is rolled back. *)
RollBack(c) ==
    /\ at[c] = "callback"
    /\ holder' = Unlocked(c)
    /\ Goto(c, "failing")
    /\ UNCHANGED <<rec, call, result, effects, calls>>

FailureRecord == "failed"

RecordFailure(c) ==
    LET k == call[c] IN
    /\ at[c] = "failing"
    /\ holder[k] = NoCaller
    /\ rec' = [rec EXCEPT ![k] = FailureRecord]
    /\ Return(c, "error")
    /\ UNCHANGED <<holder, call, effects, calls>>

(* The caller dies, or its context is cancelled so that every statement    *)
(* fails, MarkConsumptionFailed included.                                  *)
Fail(c) ==
    /\ at[c] # "idle"
    /\ holder' = Unlocked(c)
    /\ Return(c, "error")
    /\ UNCHANGED <<rec, call, effects, calls>>

-----------------------------------------------------------------------------
\* The statements of a call once it has begun, failures outside it excepted.
Step(c) ==
    \/ SelectMissing(c)
    \/ SelectCompleted(c)
    \/ SelectUnfinished(c)
    \/ InsertRow(c)
    \/ InsertDuplicate(c)
    \/ WaitFails(c)
    \/ CommitEffect(c)
    \/ CommitUnconfirmed(c)
    \/ RollBack(c)
    \/ RecordFailure(c)

ConsumptionNext ==
    \E c \in Callers : (\E k \in Keys : Begin(c, k)) \/ Step(c) \/ Fail(c)

ConsumptionSpec ==
    /\ ConsumptionInit
    /\ [][ConsumptionNext]_consumption
    /\ \A c \in Callers : WF_consumption(Step(c))

-----------------------------------------------------------------------------
(* Properties *)

\* A call that reports success, by running the callback or by skipping it,
\* leaves an executed callback behind: no event is acknowledged unconsumed.
SuccessMeansEffect ==
    \A c \in Callers : result[c] \in {"processed", "skipped"} => effects[call[c]] > 0

\* Two callers are never inside the callback of one key at the same time,
\* neither over an existing row nor over one that nobody has committed yet.
CallbackExclusive ==
    \A c1, c2 \in Callers :
        c1 # c2 /\ at[c1] = "callback" /\ at[c2] = "callback" => call[c1] # call[c2]

\* Whoever waits for a row lock or for another's insert gets an answer: no
\* call blocks forever as long as callbacks return.
CallsReturn == \A c \in Callers : at[c] # "idle" ~> at[c] = "idle"
=============================================================================
