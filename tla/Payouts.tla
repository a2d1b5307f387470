------------------------------ MODULE Payouts ------------------------------
(***************************************************************************)
(* src/wechat/pay.go and profitsharing.go: money a merchant passes on.     *)
(* Transfers to users, with their confirmation or under an authorisation;  *)
(* shares of a payment, and their return.  All of it is asked for under    *)
(* numbers of the caller's, which WeChat keeps: a repeated number is the   *)
(* same request.  Requests and answers may be lost, notices arrive late,   *)
(* repeatedly and in any order.                                            *)
(***************************************************************************)
EXTENDS Integers, FiniteSetsExt

CONSTANTS
    TransferInputs, \* what callers ask for, valid or not
    AuthInputs,
    ShareInputs,
    ReturnInputs,
    Funds           \* Funds[p]: what may be shared of a payment

ASSUME AmountsAssumption ==
    \A in \in TransferInputs \cup ShareInputs \cup ReturnInputs : in.amount \in Int
ASSUME NamesAssumption == \A in \in AuthInputs : in.number # "nobody"
ASSUME FundsAssumption ==
    /\ IsFiniteSet(ShareInputs) /\ IsFiniteSet(ReturnInputs)
    /\ Funds \in [DOMAIN Funds -> Nat]
    /\ \A in \in ShareInputs : in.payment # "" => in.payment \in DOMAIN Funds

VARIABLES
    bill,           \* bill[n]: WeChat's transfer of a number
    authorization,  \* authorization[n]: its authorisation of a number
    shared,         \* shared[n]: its share of a number
    returned,       \* returned[n]: its return of a number
    partners,       \* merchants that may receive shares
    notes,          \* notices under way
    heard           \* a fact some caller was told at some time

payoutVars == <<bill, authorization, shared, returned, partners, notes, heard>>

Nothing == [state |-> "none"]
Bills == {in.number : in \in TransferInputs}
Authorizations == {in.number : in \in AuthInputs}
Shares == {in.number : in \in ShareInputs}
Returns == {in.number : in \in ReturnInputs}

PayoutTypeOK ==
    /\ \A n \in Bills : bill[n].state \in {"none", "WAIT_USER_CONFIRM", "SUCCESS", "FAIL"}
    /\ \A n \in Authorizations :
          authorization[n].state \in {"none", "WAIT", "EFFECTIVE", "CLOSED"}
    /\ \A n \in Shares : shared[n].state \in {"none", "PROCESSING", "FINISHED"}
    /\ \A n \in Returns : returned[n].state \in {"none", "PROCESSING", "SUCCESS", "FAILED"}

PayoutInit ==
    /\ bill = [n \in Bills |-> Nothing]
    /\ authorization = [n \in Authorizations |-> Nothing]
    /\ shared = [n \in Shares |-> Nothing]
    /\ returned = [n \in Returns |-> Nothing]
    /\ partners = {} /\ notes = {} /\ heard = [what |-> "nothing"]

\* The answer arrives or is lost; what arrives may be what a caller relies on.
Reply(fact) == heard' \in {heard, fact}

\* Under one number WeChat keeps the first request, and refuses another.
Once(kept, n, request, state) ==
    IF kept[n] = Nothing THEN [kept EXCEPT ![n] = [request |-> request, state |-> state]] ELSE kept
Repeats(kept, n, request) == kept[n] = Nothing \/ (kept[n] # Nothing /\ kept[n].request = request)

-----------------------------------------------------------------------------
(* Transfers *)

BillFact(n, state) == [what |-> "bill", number |-> n, state |-> state]

\* decodeMerchantTransferResponse
TransferToBalance(in) ==
    LET request == [to |-> in.openid, amount |-> in.amount, under |-> "nobody"] IN
    /\ in.openid # "" /\ in.amount > 0 /\ in.remark
    /\ Repeats(bill, in.number, request)
    /\ bill' = Once(bill, in.number, request, "WAIT_USER_CONFIRM")
    /\ Reply(BillFact(in.number, bill'[in.number].state))
    /\ UNCHANGED <<authorization, shared, returned, partners, notes>>

\* Mutant: the merchant's number wins over WeChat's.
OwnNumberFirst(in) ==
    {n \in Authorizations : authorization[n] # Nothing /\
        IF in.outAuth # "" THEN n = in.outAuth ELSE authorization[n].id = in.authId}

\* The authorisation's id, or else the merchant's number of it.
AuthorizationOf(in) ==
    {n \in Authorizations : authorization[n] # Nothing /\
        IF in.authId # "" THEN authorization[n].id = in.authId ELSE n = in.outAuth}

\* No openid is sent: the money goes to whoever gave the authorisation.
TransferWithAuthorization(in) ==
    /\ in.amount > 0 /\ in.remark
    /\ in.authId # "" \/ in.outAuth # ""
    /\ \E a \in AuthorizationOf(in) :
          LET request == [to |-> authorization[a].openid, amount |-> in.amount, under |-> a] IN
          /\ Repeats(bill, in.number, request)
          /\ bill[in.number] = Nothing => authorization[a].state = "EFFECTIVE"
          /\ bill' = Once(bill, in.number, request, "SUCCESS")
          /\ Reply(BillFact(in.number, bill'[in.number].state))
    /\ UNCHANGED <<authorization, shared, returned, partners, notes>>

AuthFact(n, state) == [what |-> "authorization", number |-> n, state |-> state,
                       bills |-> {b \in Bills : /\ bill[b].state = "SUCCESS"
                                                /\ bill[b].request.under = n}]

ApplyUserConfirmAuthorization(in) ==
    LET n == in.number IN
    /\ in.openid # "" /\ n # ""
    /\ \/ /\ authorization[n] = Nothing
          /\ authorization' = [authorization EXCEPT ![n] =
                [state |-> "WAIT", openid |-> in.openid, id |-> in.id]]
       \/ /\ authorization[n] # Nothing /\ authorization[n].openid = in.openid
          /\ UNCHANGED authorization
    /\ Reply(AuthFact(n, authorization'[n].state))
    /\ UNCHANGED <<bill, shared, returned, partners, notes>>

CloseUserConfirmAuthorization(n) ==
    /\ authorization[n].state \in {"WAIT", "EFFECTIVE"}
    /\ authorization' = [authorization EXCEPT ![n].state = "CLOSED"]
    /\ Reply(AuthFact(n, "CLOSED"))
    /\ UNCHANGED <<bill, shared, returned, partners, notes>>

\* The user agrees to a transfer, or lets it lapse; agrees to an authorisation.
EndBill(n, state) ==
    /\ bill[n].state = "WAIT_USER_CONFIRM"
    /\ bill' = [bill EXCEPT ![n].state = state]
    /\ \E field \in {"state", "transfer_state"} :
          notes' = notes \cup {[kind |-> "bill", number |-> n, field |-> field, state |-> state]}
    /\ UNCHANGED <<authorization, shared, returned, partners, heard>>

Agree(n) ==
    /\ authorization[n].state = "WAIT"
    /\ authorization' = [authorization EXCEPT ![n].state = "EFFECTIVE"]
    /\ notes' = notes \cup {[kind |-> "authorization", number |-> n, field |-> "state",
                             state |-> "EFFECTIVE"]}
    /\ UNCHANGED <<bill, shared, returned, partners, heard>>

\* A notice has its state in one of two fields.
ParseMerchantTransferNotify(l) ==
    /\ l.kind = "bill"
    /\ LET State == IF l.field = "state" THEN l.state ELSE ""
       IN  heard' = BillFact(l.number, IF State = "" THEN l.state ELSE State)
    /\ UNCHANGED <<bill, authorization, shared, returned, partners, notes>>

ParseAuthorizationNotify(l) ==
    /\ l.kind = "authorization"
    /\ heard' = AuthFact(l.number, l.state)
    /\ UNCHANGED <<bill, authorization, shared, returned, partners, notes>>

-----------------------------------------------------------------------------
(* Shares *)

AddProfitSharingReceiver(account) ==
    /\ account # ""
    /\ partners' = partners \cup {account}
    /\ UNCHANGED <<bill, authorization, shared, returned, notes, heard>>

SharedOf(payment) ==
    MapThenSumSet(LAMBDA n : shared[n].request.amount,
                  {n \in Shares : /\ shared[n] # Nothing /\ shared[n].request.payment = payment
                                  /\ shared[n].result # "CLOSED"})

\* decodeProfitSharingOrder
ShareFact(n) == [what |-> "share", number |-> n, state |-> shared'[n].state,
                 results |-> IF shared'[n].hidden THEN {} ELSE {shared'[n].result}]

CreateProfitSharingOrder(in) ==
    LET request == [payment |-> in.payment, to |-> in.receiver, amount |-> in.amount] IN
    /\ in.payment # "" /\ in.number # "" /\ in.receiver # "" /\ in.amount > 0
    /\ \/ /\ shared[in.number] = Nothing
          /\ in.receiver \in partners /\ SharedOf(in.payment) + in.amount <= Funds[in.payment]
          /\ shared' = [shared EXCEPT ![in.number] =
                [request |-> request, state |-> "PROCESSING", result |-> "PENDING",
                 hidden |-> FALSE]]
       \/ shared[in.number] # Nothing /\ shared[in.number].request = request /\ UNCHANGED shared
    /\ Reply(ShareFact(in.number))
    /\ UNCHANGED <<bill, authorization, returned, partners, notes>>

QueryProfitSharingOrder(n, payment) ==
    /\ n # "" /\ payment # ""
    /\ shared[n] # Nothing /\ shared[n].request.payment = payment
    /\ UNCHANGED shared /\ Reply(ShareFact(n))
    /\ UNCHANGED <<bill, authorization, returned, partners, notes>>

\* WeChat shares, or finishes without; it may leave the receivers out of an answer.
EndShare(n, result, hidden) ==
    /\ shared[n].state = "PROCESSING"
    /\ shared' = [shared EXCEPT ![n].state = "FINISHED", ![n].result = result, ![n].hidden = hidden]
    /\ UNCHANGED <<bill, authorization, returned, partners, notes, heard>>

Finished(f) == f.state = "FINISHED"
Succeeded(f) == f.results # {} /\ \A r \in f.results : r = "SUCCESS"

ReturnedOf(n) ==
    MapThenSumSet(LAMBDA r : returned[r].request.amount,
                  {r \in Returns : returned[r] # Nothing /\ returned[r].state # "FAILED"
                                   /\ returned[r].request.share = n})

\* WeChat's number of a share, or else the merchant's.
ShareOf(in) == IF in.orderId # "" THEN in.orderId ELSE in.outOrderNo

ReturnFact(n) == [what |-> "return", number |-> n, state |-> returned'[n].state]

\* WeChat knows a share by either number.
CreateProfitSharingReturn(in) ==
    LET share == ShareOf(in)
        request == [share |-> share, amount |-> in.amount]
    IN
    /\ share # "" /\ in.number # "" /\ in.from # "" /\ in.amount > 0
    /\ share \in Shares /\ shared[share] # Nothing /\ shared[share].result = "SUCCESS"
    /\ shared[share].request.to = in.from
    /\ Repeats(returned, in.number, request)
    /\ returned[in.number] = Nothing =>
          ReturnedOf(share) + in.amount <= shared[share].request.amount
    /\ returned' = Once(returned, in.number, request, "PROCESSING")
    /\ Reply(ReturnFact(in.number))
    /\ UNCHANGED <<bill, authorization, shared, partners, notes>>

QueryProfitSharingReturn(n, share) ==
    /\ n # "" /\ share # ""
    /\ returned[n] # Nothing /\ returned[n].request.share = share
    /\ UNCHANGED returned /\ Reply(ReturnFact(n))
    /\ UNCHANGED <<bill, authorization, shared, partners, notes>>

EndReturn(n, state) ==
    /\ returned[n].state = "PROCESSING"
    /\ returned' = [returned EXCEPT ![n].state = state]
    /\ UNCHANGED <<bill, authorization, shared, partners, notes, heard>>

-----------------------------------------------------------------------------
TransferNext ==
    \/ \E in \in TransferInputs : TransferToBalance(in) \/ TransferWithAuthorization(in)
    \/ \E in \in AuthInputs : ApplyUserConfirmAuthorization(in)
    \/ \E n \in Authorizations : CloseUserConfirmAuthorization(n) \/ Agree(n)
    \/ \E n \in Bills, s \in {"SUCCESS", "FAIL"} : EndBill(n, s)
    \/ \E l \in notes : ParseMerchantTransferNotify(l) \/ ParseAuthorizationNotify(l)

ShareNext ==
    \/ \E in \in ShareInputs : \/ AddProfitSharingReceiver(in.receiver)
                               \/ CreateProfitSharingOrder(in)
                               \/ QueryProfitSharingOrder(in.number, in.payment)
    \/ \E n \in Shares, r \in {"SUCCESS", "CLOSED"}, h \in BOOLEAN : EndShare(n, r, h)
    \/ \E in \in ReturnInputs : \/ CreateProfitSharingReturn(in)
                                \/ QueryProfitSharingReturn(in.number, in.outOrderNo)
    \/ \E n \in Returns, s \in {"SUCCESS", "FAILED"} : EndReturn(n, s)

-----------------------------------------------------------------------------
\* Whatever was lost, repeated or late: a transfer called made or failed is,
\* and nothing more is transferred under an authorisation called closed
\* (wechat/pay.go:541, 552).
TransfersHold ==
    /\ heard.what = "bill" /\ heard.state \in {"SUCCESS", "FAIL"} =>
          bill[heard.number].state = heard.state
    /\ heard.what = "authorization" /\ heard.state = "CLOSED" =>
          \A b \in Bills : bill[b].state = "SUCCESS" /\ bill[b].request.under = heard.number =>
              b \in heard.bills
    /\ \A b \in Bills : bill[b] # Nothing => bill[b].request.amount > 0

\* Every number has moved its money once: transfers under an authorisation go
\* to the user whose authorisation the caller named first, WeChat's number
\* before its own (wechat/pay.go:449).
TransfersGoWhereNamed ==
    \A b \in Bills : bill[b] # Nothing /\ bill[b].request.under # "nobody" =>
        \E in \in TransferInputs :
            /\ in.number = b /\ in.amount = bill[b].request.amount
            /\ in.authId # "" => authorization[bill[b].request.under].id = in.authId
            /\ in.authId = "" => bill[b].request.under = in.outAuth

\* A share called successful was paid, one finished without success never
\* will be, unless WeChat kept its receivers back; a return called done is
\* done (wechat/profitsharing.go:52, 57).
SharesHold ==
    /\ heard.what = "share" =>
          /\ Succeeded(heard) => shared[heard.number].result = "SUCCESS"
          /\ Finished(heard) /\ ~Succeeded(heard) =>
                shared[heard.number].result = "CLOSED" \/ shared[heard.number].hidden
    /\ heard.what = "return" /\ heard.state \in {"SUCCESS", "FAILED"} =>
          returned[heard.number].state = heard.state

\* Shares never exceed the payment, nor returns the share.
SharesFit ==
    /\ \A p \in DOMAIN Funds : SharedOf(p) <= Funds[p]
    /\ \A n \in Shares : ReturnedOf(n) > 0 => ReturnedOf(n) <= shared[n].request.amount

PayoutsHold ==
    PayoutTypeOK /\ TransfersHold /\ TransfersGoWhereNamed /\ SharesHold /\ SharesFit
=============================================================================
