------------------------------ MODULE Gateways ------------------------------
(***************************************************************************)
(* src/wechat/pay.go and src/alipay: orders and refunds at the two payment *)
(* platforms, as their clients place, query, close and refund them.  A     *)
(* request may be lost, or its answer after the platform has acted; the    *)
(* caller asks again under the same number.  Notices go to the address the *)
(* order was placed with, arrive late, repeatedly and in any order.        *)
(***************************************************************************)
EXTENDS Integers, Sequences, FiniteSetsExt

CONSTANTS
    Gates,          \* applications, each with its client
    GateConfig,     \* [Gates -> configuration]
    Numbers,        \* order numbers as callers write them
    Trimmed,        \* Trimmed[n]: strings.TrimSpace of a number
    OrderInputs,    \* what callers ask for, valid or not
    RefundInputs,
    Envelopes,      \* phone number authorisations as a mini-program hands them over
    MaxPlaced       \* bound: orders, beside one signed link

ASSUME NumbersAssumption ==
    /\ Trimmed \in [Numbers -> Numbers]
    /\ \A n \in Numbers : Trimmed[Trimmed[n]] = Trimmed[n]
ASSUME AddressesAssumption ==
    /\ \A a \in Gates : GateConfig[a].notify \in Seq(STRING)
    /\ \A in \in OrderInputs :
          in \in [number : Numbers, price : Int, notify : Seq(STRING), expire : STRING,
                 openid : BOOLEAN, subject : BOOLEAN]
    /\ \A in \in RefundInputs : /\ in.number \in Numbers /\ in.notify \in Seq(STRING)
                                /\ {in.part, in.total} \subseteq Int
    /\ IsFiniteSet(RefundInputs)
ASSUME EnvelopesAssumption ==
    \A e \in Envelopes :
        e.sign \in {"none", "good", "bad"} /\ e.code \in {"", "10000", "40001"}

VARIABLES
    order,          \* order[a][n]: the platform's order of a number
    refund,         \* refund[a][r]: its refund of a number
    links,          \* signed addresses of payment pages
    letters,        \* notices under way; one that has arrived may arrive again
    told            \* a fact some caller was told at some time

gateVars == <<order, refund, links, letters, told>>

NoOrder == [state |-> "none"]
NoURL == <<>>
NoFact == [what |-> "nothing"]
RefundNos == {r.refundNo : r \in RefundInputs}

GateTypeOK ==
    /\ \A a \in Gates, n \in Numbers :
          order[a][n].state \in {"none", "NOTPAY", "SUCCESS", "REFUND", "CLOSED"}
    /\ \A a \in Gates, r \in RefundNos :
          refund[a][r].state \in {"none", "PROCESSING", "SUCCESS", "CLOSED"}
    /\ \A l \in letters : l.kind \in {"trade", "refund", "return"} /\ l.gate \in Gates

GateInit ==
    /\ order = [a \in Gates |-> [n \in Numbers |-> NoOrder]]
    /\ refund = [a \in Gates |-> [r \in RefundNos |-> NoOrder]]
    /\ links = {} /\ letters = {} /\ told = NoFact

-----------------------------------------------------------------------------
(* The clients *)

\* NewPayClient: without all of the configuration and both keys it is disabled.
WechatReady(a) ==
    /\ GateConfig[a].platform = "wechat" /\ GateConfig[a].complete
    /\ GateConfig[a].private # "junk" /\ GateConfig[a].public # "junk"

\* privateKey, publicKey: PKCS8 or PKIX, then PKCS1, and a certificate for the latter.
PrivateKeyLoads(a) == GateConfig[a].private \in {"pkcs8", "pkcs1"}
PublicKeyLoads(a) == GateConfig[a].public \in {"pkix", "pkcs1", "cert"}

\* sign
AlipaySigns(a) ==
    GateConfig[a].platform = "alipay" /\ GateConfig[a].complete /\ PrivateKeyLoads(a)

\* verifySignature: one platform certificate may serve several applications.
AlipayVerifies(a, l) ==
    /\ GateConfig[a].platform = "alipay"
    /\ PublicKeyLoads(a) /\ l.gate \in GateConfig[a].trusts

\* The notice address of the request, or else the configured one.
Address(a, url) == IF url # NoURL THEN url ELSE GateConfig[a].notify

\* The answer arrives or is lost; what arrives may be what the caller relies on.
Answer(fact) == told' \in {told, fact}

\* The platform places an order; again under the same number, it is the same order.
Place(a, n, in, page) ==
    \/ /\ order[a][n] = NoOrder /\ in.price > 0
       /\ Cardinality({p \in Gates \X Numbers : order[p[1]][p[2]] # NoOrder}) < MaxPlaced
       /\ order' = [order EXCEPT ![a][n] =
             [state |-> "NOTPAY", price |-> in.price, to |-> Address(a, in.notify), page |-> page]]
    \/ /\ order[a][n].state = "NOTPAY" /\ order[a][n].price = in.price
       /\ UNCHANGED order

Prepaid(a, n, in) == [what |-> "prepaid", gate |-> a, number |-> n, price |-> in.price]

\* The amount is left to WeChat to judge.
PrepayMiniProgram(a, in) ==
    /\ WechatReady(a) /\ in.openid
    /\ Place(a, Trimmed[in.number], in, FALSE)
    /\ Answer(Prepaid(a, in.number, in))
    /\ UNCHANGED <<refund, links, letters>>

PrepayNative(a, in) ==
    /\ WechatReady(a) /\ in.expire # "junk"
    /\ Place(a, Trimmed[in.number], in, FALSE)
    /\ Answer(Prepaid(a, in.number, in))
    /\ UNCHANGED <<refund, links, letters>>

\* The number goes out as it was written.
CreateMiniProgramTrade(a, in) ==
    /\ AlipaySigns(a)
    /\ Trimmed[in.number] # "" /\ in.price > 0 /\ in.openid
    /\ Place(a, in.number, in, FALSE)
    /\ Answer(Prepaid(a, in.number, in))
    /\ UNCHANGED <<refund, links, letters>>

\* No request: the payer's browser places the order when it opens the address.
CreatePagePayURL(a, in) ==
    /\ AlipaySigns(a)
    /\ Trimmed[in.number] # "" /\ in.subject /\ in.price > 0
    /\ links = {}
    /\ links' = links \cup {[gate |-> a, in |-> [in EXCEPT !.number = Trimmed[@]]]}
    /\ UNCHANGED <<order, refund, letters, told>>

OpenLink(l) ==
    /\ Place(l.gate, l.in.number, l.in, TRUE)
    /\ UNCHANGED <<refund, links, letters, told>>

Looked(a, n, found) ==
    [what |-> "order", gate |-> a, number |-> Trimmed[n], state |-> found.state, by |-> "query"]

QueryOrderByOutTradeNo(a, n) ==
    /\ WechatReady(a)
    /\ order[a][Trimmed[n]] # NoOrder
    /\ Answer(Looked(a, n, order[a][Trimmed[n]]))
    /\ UNCHANGED <<order, refund, links, letters>>

\* Any code but 10000 is an error.
QueryTradeByOutTradeNo(a, n) ==
    /\ AlipaySigns(a) /\ Trimmed[n] # ""
    /\ order[a][Trimmed[n]] # NoOrder
    /\ Answer(Looked(a, n, order[a][Trimmed[n]]))
    /\ UNCHANGED <<order, refund, links, letters>>

CloseOrder(a, n) ==
    /\ WechatReady(a)
    /\ order[a][Trimmed[n]].state = "NOTPAY"
    /\ order' = [order EXCEPT ![a][Trimmed[n]].state = "CLOSED"]
    /\ Answer([what |-> "order", gate |-> a, number |-> Trimmed[n], state |-> "CLOSED",
               by |-> "close"])
    /\ UNCHANGED <<refund, links, letters>>

Refunded(a, n) ==
    MapThenSumSet(LAMBDA r : refund[a][r].part,
                  {r \in RefundNos : refund[a][r].state \in {"PROCESSING", "SUCCESS"}
                                     /\ refund[a][r].number = n})

\* A refund under a number that is known is that refund, if it asks for the same.
AcceptRefund(a, in) ==
    LET n == Trimmed[in.number] IN
    \/ /\ refund[a][in.refundNo] = NoOrder
       /\ order[a][n].state \in {"SUCCESS", "REFUND"} /\ in.total = order[a][n].price
       /\ in.part > 0 /\ Refunded(a, n) + in.part <= in.total
       /\ refund' = [refund EXCEPT ![a][in.refundNo] =
             [state |-> "PROCESSING", number |-> n, part |-> in.part, to |-> Address(a, in.notify)]]
       /\ order' = [order EXCEPT ![a][n].state = "REFUND"]
    \/ /\ refund[a][in.refundNo] # NoOrder
       /\ refund[a][in.refundNo].number = n /\ refund[a][in.refundNo].part = in.part
       /\ UNCHANGED <<refund, order>>

RefundFact(a, r, state, by) ==
    [what |-> "refund", gate |-> a, number |-> r, state |-> state, by |-> by]

CreateRefund(a, in) ==
    /\ WechatReady(a)
    /\ AcceptRefund(a, in)
    /\ Answer(RefundFact(a, in.refundNo, refund'[a][in.refundNo].state, "query"))
    /\ UNCHANGED <<links, letters>>

QueryRefundByOutRefundNo(a, r) ==
    /\ WechatReady(a) /\ refund[a][r] # NoOrder
    /\ Answer(RefundFact(a, r, refund[a][r].state, "query"))
    /\ UNCHANGED <<order, refund, links, letters>>

-----------------------------------------------------------------------------
(* Notices *)

\* The notice handler verifies and decrypts with the keys of one merchant.
NoticeOpens(a, l) == WechatReady(a) /\ l.gate = a

Learn(fact) == told' = fact /\ UNCHANGED <<order, refund, links, letters>>

\* A refund notice at this address has an order number and no state of the order.
ParseTransactionNotify(a, l) ==
    /\ l.to = <<a, "pay">> /\ NoticeOpens(a, l)
    /\ Learn([what |-> "order", gate |-> a, number |-> l.number, by |-> l.kind,
              state |-> IF l.kind = "trade" THEN l.state ELSE ""])

ParseRefundNotify(a, l) ==
    /\ l.to = <<a, "refund">> /\ NoticeOpens(a, l)
    /\ Learn(RefundFact(a, IF l.kind = "refund" THEN l.refundNo ELSE "",
                        IF l.kind = "refund" THEN l.state ELSE "", l.kind))

\* Mutant: whoever signs like the platform is believed.
AnyAppID(a, l) == TRUE

OwnAppID(a, l) == l.gate = a

ParseTradeNotify(a, l) ==
    /\ l.to = <<a, "pay">> /\ l.kind = "trade"
    /\ OwnAppID(a, l) /\ AlipayVerifies(a, l) /\ Trimmed[l.number] # ""
    /\ Learn([what |-> "order", gate |-> a, number |-> Trimmed[l.number], state |-> l.state,
              by |-> "trade"])

\* What the browser brings back is signed, and has no state.
ParsePagePayReturn(a, l) ==
    /\ l.kind = "return"
    /\ OwnAppID(a, l) /\ AlipayVerifies(a, l)
    /\ Learn([what |-> "order", gate |-> a, number |-> Trimmed[l.number], state |-> "",
              by |-> "return"])

-----------------------------------------------------------------------------
(* The platforms *)

Letter(a, n, kind, state) ==
    [gate |-> a, number |-> n, kind |-> kind, state |-> state, to |-> order[a][n].to]

Pay(a, n) ==
    /\ order[a][n].state = "NOTPAY"
    /\ order' = [order EXCEPT ![a][n].state = "SUCCESS"]
    /\ letters' = letters
          \cup (IF order[a][n].to # NoURL THEN {Letter(a, n, "trade", "SUCCESS")} ELSE {})
          \cup (IF order[a][n].page THEN {Letter(a, n, "return", "")} ELSE {})
    /\ UNCHANGED <<refund, links, told>>

\* The time of an unpaid order runs out; Alipay says so.
Lapse(a, n) ==
    /\ order[a][n].state = "NOTPAY"
    /\ order' = [order EXCEPT ![a][n].state = "CLOSED"]
    /\ letters' = letters
          \cup (IF order[a][n].to # NoURL /\ GateConfig[a].platform = "alipay"
                THEN {Letter(a, n, "trade", "CLOSED")} ELSE {})
    /\ UNCHANGED <<refund, links, told>>

EndRefund(a, r, state) ==
    /\ refund[a][r].state = "PROCESSING"
    /\ refund' = [refund EXCEPT ![a][r].state = state]
    /\ letters' = letters \cup
          (IF refund[a][r].to = NoURL THEN {}
           ELSE {[gate |-> a, number |-> refund[a][r].number, refundNo |-> r, kind |-> "refund",
                  state |-> state, to |-> refund[a][r].to]})
    /\ UNCHANGED <<order, links, told>>

\* What is asked of, sent to or decided for one application.
GateStep(a) ==
    \/ \E in \in OrderInputs :
          \/ PrepayMiniProgram(a, in) \/ PrepayNative(a, in)
          \/ CreateMiniProgramTrade(a, in) \/ CreatePagePayURL(a, in)
    \/ \E n \in Numbers :
          \/ QueryOrderByOutTradeNo(a, n) \/ QueryTradeByOutTradeNo(a, n)
          \/ CloseOrder(a, n) \/ Pay(a, n) \/ Lapse(a, n)
    \/ \E in \in RefundInputs : CreateRefund(a, in)
    \/ \E r \in RefundNos : \/ QueryRefundByOutRefundNo(a, r)
                            \/ \E s \in {"SUCCESS", "CLOSED"} : EndRefund(a, r, s)
    \/ \E l \in letters : \/ ParseTransactionNotify(a, l) \/ ParseRefundNotify(a, l)
                          \/ ParseTradeNotify(a, l) \/ ParsePagePayReturn(a, l)
    \/ \E l \in links : l.gate = a /\ OpenLink(l)

GateNext == \E a \in Gates : GateStep(a)

-----------------------------------------------------------------------------
(* Phone numbers of Alipay: an envelope is the bare text, or JSON with it in *)
(* the field "form" names.                                                   *)

\* normalizePhoneEncryptedData, and what the platform makes of it.
RemotePhone(e) ==
    IF e.form # "broken" /\ e.text = "cipher" /\ e.code \in {"", "10000"} THEN e.mobile ELSE ""

\* parseMiniPhonePayload; bare text that is JSON counts as an envelope, in which
\* there is no response.
Response(e) ==
    IF e.form = "response" \/ (e.form = "raw" /\ e.text # "plain") THEN e.text ELSE ""

\* verifyMiniPhonePayload: an envelope without a signature passes.
EnvelopeVerifies(a, e) ==
    e.form = "raw" \/ e.sign = "none" \/ (PublicKeyLoads(a) /\ e.sign = "good")

\* decryptMiniUserPhone
LocalPhone(a, e) ==
    IF /\ Response(e) \in {"cipher", "plain"} /\ EnvelopeVerifies(a, e)
       /\ e.code \in {"", "10000"}
    THEN e.mobile ELSE ""

\* QueryMiniUserPhone; "" stands for an error.
QueryMiniUserPhone(a, e) ==
    IF GateConfig[a].encrypt THEN LocalPhone(a, e)
    ELSE IF AlipaySigns(a) THEN RemotePhone(e) ELSE ""

Pkcs7Pad(data, size) ==
    LET n == size - (Len(data) % size) IN data \o [i \in 1..n |-> n]

\* pkcs7Unpad: the text, or a number for an error.
NotPadded == <<-1>>
Pkcs7Unpad(data, size) ==
    LET len == Len(data)
        n   == data[len]
    IN  IF len = 0 THEN NotPadded
        ELSE IF \/ len % size # 0 \/ n = 0 \/ n > size \/ n > len
                \/ \E i \in (len - n + 1)..len : data[i] # n
        THEN NotPadded
        ELSE SubSeq(data, 1, len - n)

-----------------------------------------------------------------------------
\* The number under which the platform knows an order a client has placed.
FiledUnder(f) == IF GateConfig[f.gate].platform = "alipay" THEN f.number ELSE Trimmed[f.number]

\* Two numbers that differ by blanks are two orders to Alipay, and one to the client.
CalledStates(f) == {order[f.gate][n].state : n \in {n \in Numbers : Trimmed[n] = f.number}}

\* Whatever was lost, repeated or misdirected: an order called paid is paid,
\* one called closed can no longer be paid, a refund called done is done, one
\* number has one price, and what came to the wrong address says nothing
\* (wechat/pay.go:352, 364, alipay/client.go:283, pagepay.go:70).
FactsHold ==
    /\ told.what = "prepaid" => order[told.gate][FiledUnder(told)].price = told.price
    /\ told.what = "order" =>
          /\ told.state = "SUCCESS" => CalledStates(told) \cap {"SUCCESS", "REFUND"} # {}
          /\ told.state = "CLOSED" => "CLOSED" \in CalledStates(told)
          /\ told.by \in {"refund", "return"} => told.state = ""
    /\ told.what = "refund" =>
          /\ told.by = "trade" => told.number = "" /\ told.state = ""
          /\ told.state \in {"SUCCESS", "CLOSED"} =>
                refund[told.gate][told.number].state = told.state

\* Refunds of an order never exceed it, however often they are asked for.
RefundsFit ==
    \A a \in Gates, n \in Numbers :
        Refunded(a, n) > 0 => Refunded(a, n) <= order[a][n].price /\ order[a][n].state = "REFUND"

\* An order that was placed is found again under the number it was placed
\* with, but for one Alipay was sent with blanks around it (alipay/client.go:215).
PlacedIsFound ==
    told.what = "prepaid" =>
        \/ order[told.gate][Trimmed[told.number]] # NoOrder
        \/ GateConfig[told.gate].platform = "alipay" /\ Trimmed[told.number] # told.number

\* The two routes to a phone number never disagree, and either takes an
\* envelope of the platform; only the remote one looks into the fields
\* encryptedData and code (alipay/client.go:167).
PhoneRoutesAgree ==
    \A a \in Gates, e \in Envelopes :
        /\ LocalPhone(a, e) # "" /\ RemotePhone(e) # "" => LocalPhone(a, e) = RemotePhone(e)
        /\ e.form \in {"encryptedData", "code"} /\ GateConfig[a].encrypt =>
              QueryMiniUserPhone(a, e) = ""
        /\ e.text = "cipher" /\ e.sign # "bad" /\ e.form \in {"raw", "response"} /\ AlipaySigns(a)
             /\ PublicKeyLoads(a) /\ e.code # "40001" => QueryMiniUserPhone(a, e) = e.mobile

\* Unpadding undoes padding, and accepts nothing else.
PaddingHolds ==
    \A size \in 1..2, len \in 0..4 : \A data \in [1..len -> 0..3] :
        /\ Pkcs7Unpad(Pkcs7Pad(data, size), size) = data
        /\ Pkcs7Unpad(data, size) # NotPadded => Pkcs7Pad(Pkcs7Unpad(data, size), size) = data

GatewaysHold ==
    /\ GateTypeOK /\ FactsHold /\ RefundsFit /\ PlacedIsFound
    /\ links = {} /\ (\A a \in Gates, n \in Numbers : order[a][n] = NoOrder) =>
          PhoneRoutesAgree /\ PaddingHolds
=============================================================================
