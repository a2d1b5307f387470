----------------------------- MODULE PayNotify ------------------------------
(***************************************************************************)
(* src/paynotify: the template that answers WeChat's payment and refund    *)
(* notifications.  WeChat repeats a notification until it is acknowledged, *)
(* may repeat an acknowledged one, and sends them in any order; the host   *)
(* settles in hooks, which may fail after their work is done.              *)
(***************************************************************************)
EXTENDS Naturals, FiniteSets

CONSTANTS
    Trades,         \* payments
    ClosedStates,   \* WithClosedStates
    MaxAttempts     \* bound: deliveries of one notification

ASSUME ClosedAssumption == ClosedStates \subseteq {"CLOSED", "REVOKED", "PAYERROR"}
ASSUME AttemptsAssumption == MaxAttempts \in Nat

VARIABLES
    hooks,      \* those NewHandler was given
    route,      \* route[x]: the routes that notices of x and of its refund are addressed to
    trade,      \* trade[x]: its state at WeChat
    sent,       \* sent[x]: notifications sent, with the attempts made and the last answer
    booked      \* booked[x]: what the hooks have settled

notifyVars == <<hooks, route, trade, sent, booked>>

TradeStates == {"USERPAYING", "SUCCESS", "CLOSED", "PAYERROR", "REFUND"}
Hooks == {"paid", "close", "refund"}
Routes == {"HandlePayment", "HandleRefund"}     \* as RegisterHertz binds them

NotifyTypeOK ==
    /\ hooks \subseteq Hooks
    /\ route \in [Trades -> [trade : Routes, refund : Routes]]
    /\ trade \in [Trades -> TradeStates]
    /\ sent \in [Trades -> [TradeStates -> [tries : 0..MaxAttempts, acked : BOOLEAN]]]
    /\ booked \in [Trades -> SUBSET {"paid", "closed", "refunded"}]

\* An order names its address; a refund that names none has that of the
\* configuration, which is the one for payments (wechat/pay.go:315).
NotifyInit ==
    /\ hooks \in SUBSET Hooks
    /\ route \in [Trades -> [trade : Routes, refund : Routes]]
    /\ trade = [x \in Trades |-> "USERPAYING"]
    /\ sent = [x \in Trades |-> [s \in TradeStates |-> [tries |-> 0, acked |-> FALSE]]]
    /\ booked = [x \in Trades |-> {}]

\* The payer pays, the order is closed, a payment is refunded.
TradeStep(x) ==
    /\ \/ trade[x] = "USERPAYING" /\ \E s \in {"SUCCESS", "CLOSED", "PAYERROR"} :
                                         trade' = [trade EXCEPT ![x] = s]
       \/ trade[x] = "PAYERROR" /\ trade' = [trade EXCEPT ![x] = "SUCCESS"]
       \/ trade[x] = "SUCCESS" /\ trade' = [trade EXCEPT ![x] = "REFUND"]
    /\ UNCHANGED <<hooks, route, sent, booked>>

\* What WeChat has had reason to notify of; "REFUND" is the notice of a refund.
Notifiable(x) ==
    {trade[x]} \cup (IF trade[x] = "REFUND" THEN {"SUCCESS"} ELSE {})
               \cup (IF trade[x] \in {"SUCCESS", "REFUND"} THEN {"PAYERROR"} ELSE {})
RouteOf(x, s) == IF s = "REFUND" THEN route[x].refund ELSE route[x].trade

\* notifySuccess and notifyFail.
Answered(x, s, ok) ==
    sent' = [sent EXCEPT ![x][s] = [tries |-> @.tries + 1, acked |-> @.acked \/ ok]]

\* HandlePayment: the work a notification stands for.  That of a refund has no
\* trade_state, and is nothing to it.
HandlePayment(s) ==
    CASE s = "SUCCESS" -> IF "paid" \in hooks THEN "paid" ELSE "error"
      [] s \in ClosedStates /\ "close" \in hooks -> "closed"
      [] OTHER -> "nothing"

\* Mutant: a refund notice is acknowledged although no hook books it.
HandleRefundAny(s) == IF "refund" \in hooks /\ s = "REFUND" THEN "refunded" ELSE "nothing"

\* HandleRefund: the hook is called with whatever came, and for a payment with
\* an event that names no refund, which it can book nothing for.
HandleRefund(s) ==
    IF "refund" \notin hooks THEN "error" ELSE IF s = "REFUND" THEN "refunded" ELSE "nothing"

WorkOf(x, s) == IF RouteOf(x, s) = "HandlePayment" THEN HandlePayment(s) ELSE HandleRefund(s)

\* The hook settles (again, which changes nothing), and answers nil or an error.
Handle(x, s) ==
    LET work == WorkOf(x, s) IN
    /\ s \in Notifiable(x)
    /\ sent[x][s].tries < MaxAttempts
    /\ \/ work = "nothing" /\ Answered(x, s, TRUE) /\ UNCHANGED booked
       \/ /\ work \notin {"nothing", "error"}
          /\ booked' = [booked EXCEPT ![x] = @ \cup {work}]
          /\ \E ok \in BOOLEAN : Answered(x, s, ok)
    /\ UNCHANGED <<hooks, route, trade>>

\* No tenant in the path, no client, no valid signature, no hook, or a
\* hook that fails before its work.
Refuse(x, s) ==
    /\ s \in Notifiable(x)
    /\ sent[x][s].tries < MaxAttempts
    /\ Answered(x, s, FALSE)
    /\ UNCHANGED <<hooks, route, trade, booked>>

NotifyNext ==
    \E x \in Trades :
        \/ TradeStep(x)
        \/ \E s \in TradeStates : Handle(x, s) \/ Refuse(x, s)

NotifySpec == NotifyInit /\ [][NotifyNext]_notifyVars

-----------------------------------------------------------------------------
\* WeChat stops repeating a payment or a refund that comes by its own route only
\* when its hook has done its work; what comes by the other one is answered too,
\* with success where HandlePayment finds no trade_state (paynotify.go:149), and
\* books nothing; and nothing is booked that has not happened.
AckedWasBooked ==
    \A x \in Trades :
        /\ route[x].trade = "HandlePayment" =>
             (sent[x]["SUCCESS"].acked => "paid" \in booked[x])
        /\ route[x].refund = "HandleRefund" =>
             (sent[x]["REFUND"].acked => "refunded" \in booked[x])
        /\ "paid" \in booked[x] =>
             trade[x] \in {"SUCCESS", "REFUND"} /\ route[x].trade = "HandlePayment"
        /\ "refunded" \in booked[x] =>
             trade[x] = "REFUND" /\ route[x].refund = "HandleRefund"
=============================================================================
