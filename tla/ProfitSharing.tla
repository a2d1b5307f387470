--------------------------- MODULE ProfitSharing ----------------------------
(***************************************************************************)
(* src/tenantpay/executor.go: the platform's commission on an order is     *)
(* shared at WeChat by one of several concurrent tasks (the order's        *)
(* completion, a manual retry, the synchronisation) and returned before a  *)
(* refund.  A task works on its own copy of the row and saves all of it.   *)
(*                                                                         *)
(* share, amount and back are WeChat's: it takes a repeated number for the *)
(* same request, settles a share and a return on its own, and any call of  *)
(* it may fail before or after its effect.  Whether the setup (receiver,   *)
(* merchant number, client, appid) is there is open at every call.         *)
(***************************************************************************)
EXTENDS Integers, FiniteSets

CONSTANTS
    Orders, Tasks,
    Paid,           \* Paid[o]: the amount paid, in cents
    Commissions,    \* what the platform asks to save as commission
    MaxCalls        \* bound: calls of WeChat that change something there or fail

ASSUME PaidAssumption == Paid \in [Orders -> Nat]
ASSUME CommissionAssumption ==
    Commissions \subseteq [enabled : BOOLEAN, rate : Int, min : Int]
ASSUME CallsAssumption == MaxCalls \in Nat

VARIABLES
    row,        \* row[o]: the profit_sharing_orders row
    config,     \* the tenant's commission
    task,       \* task[k]: what a task does
    share, amount, back,    \* at WeChat: the share, its amount, its return
    cleared,    \* cleared[o]: how the last refund of the order was let through (history)
    calls

psVars == <<row, config, task, share, amount, back, cleared, calls>>

Statuses == {"pending", "processing", "succeeded", "failed", "refunded"}
Settling == {"none", "processing", "success", "closed"}

ProfitSharingOrder == [status : Statuses \cup {"absent"}, commission : Nat]
TenantCommission == [enabled : BOOLEAN, rate : Nat, min : Nat]

Absent == [status |-> "absent", commission |-> 0]
NoTask ==
    [at |-> "idle", op |-> "none", order |-> CHOOSE o \in Orders : TRUE, ps |-> Absent,
     answer |-> "unasked"]

PSTypeOK ==
    /\ row \in [Orders -> ProfitSharingOrder]
    /\ config \in TenantCommission
    /\ share \in [Orders -> Settling] /\ back \in [Orders -> Settling]
    /\ amount \in [Orders -> Nat]
    /\ cleared \in [Orders -> {"not", "returned", "unshared"} \X {"unasked", "unshared", "shared"}]
    /\ calls \in 0..MaxCalls

PSInit ==
    /\ row = [o \in Orders |-> Absent]
    /\ config = [enabled |-> FALSE, rate |-> 0, min |-> 0]
    /\ task = [k \in Tasks |-> NoTask]
    /\ share = [o \in Orders |-> "none"] /\ back = [o \in Orders |-> "none"]
    /\ amount = [o \in Orders |-> 0]
    /\ cleared = [o \in Orders |-> <<"not", "unasked">>]
    /\ calls = 0

-----------------------------------------------------------------------------
(* The commission *)

Least(a, b) == IF a < b THEN a ELSE b
Most(a, b) == IF a > b THEN a ELSE b

CalcCommission(paid, c) ==
    IF ~ c.enabled \/ paid <= 0 THEN 0
    ELSE Least(Most((paid * c.rate) \div 10000, c.min), paid)

\* Mutant: the minimum is not looked at.
AnyMinimum(c) == c.rate \in 0..3000

CommissionAccepted(c) == c.rate \in 0..3000 /\ c.min >= 0

SaveCommission(c) ==
    /\ CommissionAccepted(c)
    /\ config' = c
    /\ UNCHANGED <<row, task, share, amount, back, cleared, calls>>

-----------------------------------------------------------------------------
(* Tasks *)

Do(k, at, op, o, ps) ==
    task' = [task EXCEPT ![k] = [at |-> at, op |-> op, order |-> o, ps |-> ps,
                                 answer |-> "unasked"]]
Go(k, at) == task' = [task EXCEPT ![k].at = at]
End(k) == task' = [task EXCEPT ![k] = NoTask]

\* Submit finds no row; one that is there is returned.
SubmitFind(k, o) ==
    /\ task[k] = NoTask
    /\ Paid[o] > 0
    /\ row[o] = Absent
    /\ Do(k, "create", "submit", o, Absent)
    /\ UNCHANGED <<row, config, share, amount, back, cleared, calls>>

\* Nothing to share, or another Submit has created the row (OutOrderNo is unique).
SubmitCreate(k) ==
    LET o == task[k].order
        ps == [status |-> "pending", commission |-> CalcCommission(Paid[o], config)]
        creates == ps.commission > 0 /\ row[o] = Absent
    IN  /\ task[k].at = "create"
        /\ row' = [row EXCEPT ![o] = IF creates THEN ps ELSE @]
        /\ IF creates THEN Do(k, "launch", "submit", o, ps) ELSE End(k)
        /\ UNCHANGED <<config, share, amount, back, cleared, calls>>

Retry(k, o) ==
    /\ task[k] = NoTask
    /\ row[o].status \notin {"absent", "succeeded", "refunded"}
    /\ Do(k, "launch", "again", o, row[o])
    /\ UNCHANGED <<row, config, share, amount, back, cleared, calls>>

\* One row of the list Sync reads; its turn comes any time later.
Sync(k, o) ==
    /\ task[k] = NoTask
    /\ \/ row[o].status \in {"pending", "failed"} /\ Do(k, "launch", "again", o, row[o])
       \/ row[o].status = "processing" /\ Do(k, "query", "again", o, row[o])
    /\ UNCHANGED <<row, config, share, amount, back, cleared, calls>>

Cleared(o, how, answer) == cleared' = [cleared EXCEPT ![o] = <<how, answer>>]

\* ReturnForRefund: no row and a returned commission let the refund through.
ReturnForRefund(k, o) ==
    /\ task[k] = NoTask
    /\ CASE row[o] = Absent -> Cleared(o, "unshared", "unasked") /\ UNCHANGED task
         [] row[o].status = "refunded" -> Cleared(o, "returned", "unasked") /\ UNCHANGED task
         [] row[o].status = "succeeded" -> Do(k, "return", "refund", o, row[o]) /\ UNCHANGED cleared
         [] OTHER -> Do(k, "query", "refund", o, row[o]) /\ UNCHANGED cleared
    /\ UNCHANGED <<row, config, share, amount, back, calls>>

-----------------------------------------------------------------------------
(* launch *)

\* Mutant: what WeChat has accepted is taken for a success.
AcceptedIsShared(state) == IF state = "closed" THEN "failed" ELSE "succeeded"

\* Finished and Succeeded, as launch reads them.
Outcome(state) ==
    CASE state = "success" -> "succeeded"
      [] state = "closed"  -> "failed"
      [] OTHER             -> "processing"

\* What the client refuses before it asks WeChat.
Acceptable(ps) == ps.commission > 0

\* CreateProfitSharingOrder: the number makes a repeated call find the first.
LaunchCall(k) ==
    LET o == task[k].order IN
    /\ task[k].at = "launch"
    /\ Acceptable(task[k].ps)
    /\ calls < MaxCalls
    /\ calls' = calls + 1
    /\ \E state \in IF share[o] = "none" THEN {"processing", "success", "closed"} ELSE {share[o]} :
          /\ share' = [share EXCEPT ![o] = state]
          /\ amount' = [amount EXCEPT ![o] = IF share[o] = "none" THEN task[k].ps.commission ELSE @]
          /\ \/ task' = [task EXCEPT ![k].at = "save", ![k].ps.status = Outcome(state)]
             \/ Go(k, "failed")     \* the answer is lost
    /\ UNCHANGED <<row, config, back, cleared>>

\* The setup is incomplete or WeChat refuses.
LaunchRefused(k) ==
    /\ task[k].at = "launch"
    /\ Go(k, "failed")
    /\ UNCHANGED <<row, config, share, amount, back, cleared, calls>>

LaunchSave(k) ==
    /\ task[k].at = "save"
    /\ \/ row' = [row EXCEPT ![task[k].order] = task[k].ps] /\ End(k)
       \/ Go(k, "failed") /\ UNCHANGED row
    /\ UNCHANGED <<config, share, amount, back, cleared, calls>>

\* The reason is saved with the rest of the copy, best effort; Submit's
\* copy goes back to pending.
LaunchFailed(k) ==
    LET ps == IF task[k].op = "submit" THEN [task[k].ps EXCEPT !.status = "pending"]
                                       ELSE task[k].ps
    IN  /\ task[k].at = "failed"
        /\ \/ row' = [row EXCEPT ![task[k].order] = ps]
           \/ UNCHANGED row
        /\ End(k)
        /\ UNCHANGED <<config, share, amount, back, cleared, calls>>

-----------------------------------------------------------------------------
(* queryAndUpdate and the return *)

AfterQuery(k) == IF task[k].op = "refund" THEN Go(k, "decide") ELSE End(k)

Query(k) ==
    LET o == task[k].order
        final == share[o] \in {"success", "closed"}
        known == IF share[o] = "success" THEN "shared" ELSE "unshared"
    IN  /\ task[k].at = "query"
        /\ \/ /\ final
              /\ task' = [task EXCEPT ![k].at = "update", ![k].ps.status = Outcome(share[o]),
                                      ![k].answer = known]
           \/ /\ ~ final
              /\ IF task[k].op = "refund"
                 THEN task' = [task EXCEPT ![k].at = "decide", ![k].answer = known]
                 ELSE End(k)
           \/ AfterQuery(k)        \* no client, or no answer
        /\ UNCHANGED <<row, config, share, amount, back, cleared, calls>>

Update(k) ==
    /\ task[k].at = "update"
    /\ \/ row' = [row EXCEPT ![task[k].order] = task[k].ps]
       \/ UNCHANGED row
    /\ AfterQuery(k)
    /\ UNCHANGED <<config, share, amount, back, cleared, calls>>

\* Mutant: only a share that is known to be processing is returned.
MustReturnProcessing(ps) == ps.status = "processing"

MustReturn(ps) == ps.status = "succeeded"

\* Not shared, for all that is known: a pending record is cancelled.
RefundUnshared(k) ==
    LET o == task[k].order IN
    /\ task[k].at = "decide"
    /\ ~ MustReturn(task[k].ps)
    /\ \/ task[k].ps.status = "pending"
          /\ row' = [row EXCEPT ![o] = [task[k].ps EXCEPT !.status = "failed"]]
       \/ UNCHANGED row     \* nothing to mark, or it is not saved
    /\ Cleared(o, "unshared", task[k].answer)
    /\ End(k)
    /\ UNCHANGED <<config, share, amount, back, calls>>

RefundShared(k) ==
    /\ task[k].at = "decide"
    /\ MustReturn(task[k].ps)
    /\ Go(k, "return")
    /\ UNCHANGED <<row, config, share, amount, back, cleared, calls>>

\* CreateProfitSharingReturn, by its own number.
ReturnCall(k) ==
    LET o == task[k].order IN
    /\ task[k].at = "return"
    /\ calls < MaxCalls
    /\ calls' = calls + 1
    /\ share[o] = "success"
    /\ \E state \in IF back[o] = "none" THEN {"processing", "success", "closed"} ELSE {back[o]} :
          /\ back' = [back EXCEPT ![o] = state]
          /\ \/ state = "success" /\ task' = [task EXCEPT ![k].at = "returned",
                                                          ![k].ps.status = "refunded"]
             \/ state = "closed" /\ Go(k, "refused")
             \/ End(k)              \* processing, or the answer is lost
    /\ UNCHANGED <<row, config, share, amount, cleared>>

ReturnRefused(k) ==
    /\ task[k].at = "return"
    /\ End(k)
    /\ UNCHANGED <<row, config, share, amount, back, cleared, calls>>

\* The refund is let through even when the row is not saved.
Returned(k) ==
    /\ task[k].at = "returned"
    /\ \/ row' = [row EXCEPT ![task[k].order] = task[k].ps]
       \/ UNCHANGED row
    /\ Cleared(task[k].order, "returned", "unasked")
    /\ End(k)
    /\ UNCHANGED <<config, share, amount, back, calls>>

\* WeChat refused the return: the reason is saved with the copy.
NotReturned(k) ==
    /\ task[k].at = "refused"
    /\ \/ row' = [row EXCEPT ![task[k].order] = task[k].ps]
       \/ UNCHANGED row
    /\ End(k)
    /\ UNCHANGED <<config, share, amount, back, cleared, calls>>

\* WeChat finishes what it has accepted.
Settle(o) ==
    /\ \/ /\ share[o] = "processing"
          /\ \E s \in {"success", "closed"} : share' = [share EXCEPT ![o] = s]
          /\ UNCHANGED back
       \/ /\ back[o] = "processing"
          /\ \E s \in {"success", "closed"} : back' = [back EXCEPT ![o] = s]
          /\ UNCHANGED share
    /\ UNCHANGED <<row, config, task, amount, cleared, calls>>

\* The process stops: its tasks are gone.
Crash ==
    /\ \E k \in Tasks : task[k] # NoTask
    /\ task' = [k \in Tasks |-> NoTask]
    /\ UNCHANGED <<row, config, share, amount, back, cleared, calls>>

Step(k) ==
    \/ \E o \in Orders : SubmitFind(k, o) \/ Retry(k, o) \/ Sync(k, o) \/ ReturnForRefund(k, o)
    \/ SubmitCreate(k)
    \/ LaunchCall(k) \/ LaunchRefused(k) \/ LaunchSave(k) \/ LaunchFailed(k)
    \/ Query(k) \/ Update(k)
    \/ RefundUnshared(k) \/ RefundShared(k)
    \/ ReturnCall(k) \/ ReturnRefused(k) \/ Returned(k) \/ NotReturned(k)

PSNext ==
    \/ \E k \in Tasks : Step(k)
    \/ \E c \in Commissions : SaveCommission(c)
    \/ \E o \in Orders : Settle(o)
    \/ Crash

PSSpec == PSInit /\ [][PSNext]_psVars

-----------------------------------------------------------------------------
\* Whatever stale copies are saved, a record says succeeded only of a share
\* and refunded only of a return that WeChat has completed; and what is
\* shared is the recorded commission, within what was paid.
SharesAreBacked ==
    \A o \in Orders :
        /\ row[o].status \in {"succeeded", "refunded"} => share[o] = "success"
        /\ row[o].status = "refunded" => back[o] = "success"
        /\ share[o] # "none" => /\ amount[o] = row[o].commission
                                /\ amount[o] \in 1..Paid[o]

\* A refund let through as returned has been returned; one let through as
\* unshared was not known to be shared: WeChat was not asked, or did not
\* answer, or had not completed the share.
RefundsKeepWhatIsKnown ==
    \A o \in Orders :
        /\ cleared[o][1] = "returned" => back[o] = "success"
        /\ cleared[o][1] = "unshared" => cleared[o][2] # "shared"
=============================================================================
