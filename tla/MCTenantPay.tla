---------------------------- MODULE MCTenantPay -----------------------------
EXTENDS PayClients, AppBindings, ProfitSharing, PayNotify, WechatApi, Gateways, Payouts, TLC

VARIABLE part   \* the parts share no state: each is explored on its own

RequestsMC ==
    { [mch |-> "m1", secret |-> TRUE, public |-> FALSE, enabled |-> FALSE],
      [mch |-> "m1", secret |-> FALSE, public |-> TRUE, enabled |-> TRUE],
      [mch |-> "m1", secret |-> TRUE, public |-> TRUE, enabled |-> TRUE] }
PaidMC == [o \in Orders |-> 100]
CommissionsMC ==
    { [enabled |-> TRUE, rate |-> 3000, min |-> 0], [enabled |-> TRUE, rate |-> 50, min |-> 200],
      [enabled |-> TRUE, rate |-> 3001, min |-> 0],
      [enabled |-> TRUE, rate |-> 0, min |-> -1] }

TrimmedMC == ("n" :> "n") @@ (" n" :> "n") @@ ("" :> "")
Gate(platform, private, public, trusts, notify, encrypt) ==
    [platform |-> platform, complete |-> TRUE, private |-> private, public |-> public,
     trusts |-> trusts, notify |-> notify, encrypt |-> encrypt]
GateConfigMC ==
    ("w1" :> Gate("wechat", "pkcs8", "pkix", {"w1"}, <<"w1", "pay">>, FALSE)) @@
    ("a1" :> Gate("alipay", "pkcs1", "cert", {"a1", "a2"}, <<"a1", "pay">>, TRUE)) @@
    ("a2" :> Gate("alipay", "pkcs8", "pkix", {"a1", "a2"}, <<>>, FALSE))
OrderMC(number, price, notify, expire, openid) ==
    [number |-> number, price |-> price, notify |-> notify, expire |-> expire,
     openid |-> openid, subject |-> openid]
OrderInputsMC ==
    { OrderMC("n", 2, <<>>, "", TRUE), OrderMC(" n", 2, <<"a1", "pay">>, "later", TRUE),
      OrderMC("n", 3, <<"w1", "refund">>, "junk", TRUE), OrderMC("n", 0, <<>>, "", TRUE),
      OrderMC("", 1, <<>>, "", FALSE) }
RefundMC(r, number, sum, total, notify) ==
    [refundNo |-> r, number |-> number, part |-> sum, total |-> total, notify |-> notify]
RefundInputsMC ==
    { RefundMC("r1", "n", 1, 2, <<"w1", "refund">>), RefundMC("r1", "n", 2, 2, <<>>),
      RefundMC("r2", " n", 1, 2, <<>>), RefundMC("r3", "n", 1, 2, <<>>) }
EnvelopesMC ==
    [form : {"raw", "response", "encryptedData", "code", "broken"},
     text : {"cipher", "plain", "junk"}, sign : {"none", "good", "bad"},
     code : {"", "10000", "40001"}, mobile : {"m"}]

TransferMC(n, openid, cents, auth, out, remark) ==
    [number |-> n, openid |-> openid, amount |-> cents, authId |-> auth, outAuth |-> out,
     remark |-> remark]
TransferInputsMC ==
    { TransferMC("b1", "u1", 1, "i1", "", TRUE), TransferMC("b1", "u2", 2, "", "a2", TRUE),
      TransferMC("b2", "", 1, "i2", "a1", TRUE), TransferMC("b2", "u1", 0, "", "a1", TRUE),
      TransferMC("b2", "u1", 1, "", "", FALSE) }
AuthMC(n, openid, id) == [number |-> n, openid |-> openid, id |-> id]
AuthInputsMC == {AuthMC("a1", "u1", "i1"), AuthMC("a2", "u2", "i2"), AuthMC("", "u1", "i3")}
ShareMC(n, payment, receiver, cents) ==
    [number |-> n, payment |-> payment, receiver |-> receiver, amount |-> cents]
ShareInputsMC ==
    { ShareMC("s1", "p", "m", 2), ShareMC("s1", "p", "m", 1), ShareMC("s2", "p", "m", 2),
      ShareMC("s2", "", "m", 1), ShareMC("s2", "p", "", 1) }
ReturnMC(n, id, out, cents) ==
    [number |-> n, orderId |-> id, outOrderNo |-> out, from |-> "m", amount |-> cents]
ReturnInputsMC ==
    { ReturnMC("r1", "s1", "s2", 1), ReturnMC("r1", "", "s1", 1), ReturnMC("r2", "", "s1", 2),
      ReturnMC("r2", "", "", 1) }
FundsMC == ("p" :> 3)

Symmetry == Permutations(Tasks) \cup Permutations(Savers) \cup Permutations(ApiCallers)

everything == <<payVars, notifyVars, bindVars, psVars, apiVars, gateVars, payoutVars, part>>

\* Choices of Init that a part does not use are fixed in the other parts.
Init ==
    /\ PayInit /\ NotifyInit /\ BindInit /\ PSInit /\ ApiInit /\ GateInit /\ PayoutInit
    /\ part \in {"clients", "bindings", "sharing", "notices", "tokens", "wechat", "alipay",
                 "transfers", "shares"}
    /\ part # "clients" => /\ masterKey = CHOOSE k \in Keys : TRUE
                           /\ \A t \in Tenants : rows[t] = <<>>
    /\ part # "bindings" => \A a \in Apps : app[a] = NoRow
    /\ part # "notices" =>
         hooks = {} /\ \A x \in Trades : route[x] = [trade |-> "HandlePayment",
                                                  refund |-> "HandleRefund"]

\* What a part leaves alone.
Still(p) ==
    /\ p # "clients" => UNCHANGED payVars
    /\ p # "bindings" => UNCHANGED bindVars
    /\ p # "sharing" => UNCHANGED psVars
    /\ p # "notices" => UNCHANGED notifyVars
    /\ p # "tokens" => UNCHANGED apiVars
    /\ p \notin {"wechat", "alipay"} => UNCHANGED gateVars
    /\ p \notin {"transfers", "shares"} => UNCHANGED payoutVars

Next ==
    /\ UNCHANGED part /\ Still(part)
    /\ \/ part = "clients" /\ PayNext
       \/ part = "bindings" /\ BindNext
       \/ part = "sharing" /\ PSNext
          /\ \/ UNCHANGED config                    \* bound: edits that matter
             \/ \E o \in Orders : row[o] = Absent
       \/ part = "notices" /\ NotifyNext
       \/ part = "tokens" /\ ApiNext
       \/ part \in {"wechat", "alipay"}
          /\ \E a \in Gates : GateConfig[a].platform = part /\ GateStep(a)
       \/ part = "transfers" /\ TransferNext
       \/ part = "shares" /\ ShareNext

PayTypes == PayTypeOK /\ BindTypeOK /\ PSTypeOK /\ NotifyTypeOK

Spec == Init /\ [][Next]_everything

-----------------------------------------------------------------------------
\* What is configured holds together: no configuration is switched on
\* incomplete, a client outlives what it was built of no longer than it may
\* (tenantpay/resolver.go), and the two tables of mini-programs name other
\* tenants only for the reasons there are (tenantpay/store.go).
ConfigsHold == PayTypes /\ EnabledIsComplete /\ StaleEnds /\ BindingsMeet

\* What the payment platforms answer and notify of is booked as it happened,
\* and money moves once, whatever is lost, repeated, late or misdirected
\* (paynotify/paynotify.go, wechat/pay.go, wechat/profitsharing.go,
\* alipay/client.go).  Each part is looked at where it moves.
PaymentsHold ==
    /\ part = "notices" => AckedWasBooked
    /\ part \in {"wechat", "alipay"} => GatewaysHold
    /\ part \in {"transfers", "shares"} => PayoutsHold
    /\ part = "tokens" => WechatApiHolds
=============================================================================
