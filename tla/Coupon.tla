------------------------------- MODULE Coupon -------------------------------
(***************************************************************************)
(* src/coupon: coupon templates and the coupons issued from them, as       *)
(* transactions of concurrent callers on one tenant's rows.                *)
(*                                                                         *)
(* A transaction that reads before it writes takes two steps: the check    *)
(* reads without a lock, the commit re-checks only what its UPDATE says.   *)
(***************************************************************************)
EXTENDS Marketing, Paging

CONSTANTS
    Templates,      \* ids the template table can give out
    Offers,         \* what administrators ask for, valid or not
    Bills,          \* amounts that coupons are presented for
    NoRef,
    MaxTemplateAmount,
    MaxCoupons      \* bound: coupons

ASSUME OffersAssumption ==
    /\ Bills \subseteq Int
    /\ \A o \in Offers : /\ {o.amount, o.minSpend, o.days, o.total} \subseteq Int
                         /\ o.shop \in Shops
    /\ \E o \in Offers : \A p \in Offers : o.total >= p.total
ASSUME BoundsAssumption ==
    /\ {MaxTemplateAmount, MaxCoupons} \subseteq Nat /\ NoRef \notin Refs

VARIABLES
    template,   \* template[t]: a row; "absent" and "deleted" are no row
    coupon,     \* the coupons, in the order of their ids
    doing,      \* doing[c]: the transaction a caller has begun
    today,
    edits

couponVars == <<template, coupon, doing, today, edits>>

Idle == [op |-> "none"]

\* CouponTemplate and the columns the operations look at.
CouponTemplate ==
    [amount : Nat, minSpend : Nat, days : Nat, total : Nat, shop : Shops,
     status : {"absent", "enabled", "disabled", "deleted"}, issued : Nat, used : Nat]

CouponModel ==
    [template : Templates, holder : Holders \ {0}, amount : Nat, minSpend : Nat, shop : Shops,
     until : Nat, status : {"unused", "used", "expired"}, ref : Refs \cup {NoRef}]

Issuing  == [op : {"issue"}, template : Templates, row : CouponTemplate,
             holders : SUBSET Holders]
Deleting == [op : {"delete"}, template : Templates]
Claiming == [op : {"claim"}, coupon : 1..MaxCoupons, ref : Refs]

CouponTypeOK ==
    /\ template \in [Templates -> CouponTemplate]
    /\ coupon \in Seq(CouponModel) /\ Len(coupon) <= MaxCoupons
    /\ doing \in [Callers -> {Idle} \cup Issuing \cup Deleting \cup Claiming]
    /\ today \in 0..Horizon
    /\ edits \in 0..MaxEdits

CouponInit ==
    /\ template = [t \in Templates |->
          [amount |-> 0, minSpend |-> 0, days |-> 0, total |-> 0, shop |-> 0,
           status |-> "absent", issued |-> 0, used |-> 0]]
    /\ coupon = <<>>
    /\ doing = [c \in Callers |-> Idle]
    /\ today = 0
    /\ edits = 0

Exists(t) == template[t].status \in {"enabled", "disabled"}

Begin(c, transaction) ==
    /\ doing[c] = Idle
    /\ doing' = [doing EXCEPT ![c] = transaction]

Finish(c) == doing' = [doing EXCEPT ![c] = Idle]

-----------------------------------------------------------------------------
(* Templates *)

\* buildTemplate: what it accepts, and the shop it stores.
Accepts(o) ==
    /\ o.amount \in 1..MaxTemplateAmount
    /\ o.minSpend >= 0
    /\ o.days \in 1..MaxValidDays
    /\ o.total >= 0
    /\ o.scope \in {"", "tenant", "shop"}
    /\ o.scope = "shop" => o.shop # 0

StoredShop(o) == IF o.scope = "shop" THEN o.shop ELSE 0

Edited(row, o, s) ==
    [row EXCEPT !.amount = o.amount, !.minSpend = o.minSpend, !.days = o.days,
                !.total = o.total, !.shop = StoredShop(o), !.status = s]

CreateTemplate(t, o) ==
    /\ edits < MaxEdits
    /\ template[t].status = "absent"
    /\ Accepts(o)
    /\ template' = [template EXCEPT ![t] = Edited(@, o, "enabled")]
    /\ edits' = edits + 1
    /\ UNCHANGED <<coupon, doing, today>>

\* FindTemplateByID and the UPDATE look for the same row.
UpdateTemplate(t, o, s) ==
    /\ edits < MaxEdits
    /\ Exists(t)
    /\ Accepts(o)
    /\ s \in {"enabled", "disabled"}
    /\ template' = [template EXCEPT ![t] = Edited(@, o, s)]
    /\ edits' = edits + 1
    /\ UNCHANGED <<coupon, doing, today>>

CouponsOf(t) == {i \in DOMAIN coupon : coupon[i].template = t}

\* DeleteTemplate counts the coupons, then deletes in a statement of its own.
DeleteTemplate(c, t) ==
    /\ Exists(t)
    /\ CouponsOf(t) = {}
    /\ Begin(c, [op |-> "delete", template |-> t])
    /\ UNCHANGED <<template, coupon, today, edits>>

StoreDelete(c) ==
    /\ doing[c].op = "delete"
    /\ template' = [template EXCEPT ![doing[c].template].status =
                       IF Exists(doing[c].template) THEN "deleted" ELSE @]
    /\ Finish(c)
    /\ UNCHANGED <<coupon, today, edits>>

-----------------------------------------------------------------------------
(* Issuing *)

\* Mutant: the limit is not compared with what was issued before.
HasRoomForBatch(row, n) == row.total > 0 => n <= row.total

HasRoom(row, n) == row.total > 0 => row.issued + n <= row.total

\* The engine drops invalid and repeated holders and limits the batch.
Recipients(holders) == holders \ {0}

\* Issue reads the template, without a lock, and checks status and limit.
IssueCheck(c, t, holders) ==
    LET n == Cardinality(Recipients(holders)) IN
    /\ n \in 1..MaxIssueBatch
    /\ template[t].status = "enabled"
    /\ HasRoom(template[t], n)
    /\ Begin(c, [op |-> "issue", template |-> t, row |-> template[t],
                 holders |-> Recipients(holders)])
    /\ UNCHANGED <<template, coupon, today, edits>>

NewCoupon(t, row, h) ==
    [template |-> t, holder |-> h, amount |-> row.amount, minSpend |-> row.minSpend,
     shop |-> row.shop, until |-> today + row.days, status |-> "unused", ref |-> NoRef]

\* Mutant: the count that was read is written back.
IssuedAgain(t, row, n) == row.issued + n

\* issued_count + n, by the database.
Issued(t, row, n) == template[t].issued + n

\* The rows and the counter; the counter of a deleted template is no error.
IssueCommit(c) ==
    LET call == doing[c]
        rows == SetToSeq({NewCoupon(call.template, call.row, h) : h \in call.holders})
    IN  /\ call.op = "issue"
        /\ Len(coupon) + Len(rows) <= MaxCoupons
        /\ coupon' = coupon \o rows
        /\ template' = [template EXCEPT ![call.template].issued =
               IF Exists(call.template) THEN Issued(call.template, call.row, Len(rows))
                                        ELSE @]
        /\ Finish(c)
        /\ UNCHANGED <<today, edits>>

-----------------------------------------------------------------------------
(* Expiry and redemption *)

\* expireStaleCoupons
Stale(row) == row.status = "unused" /\ row.until < today

\* ListCoupons marks what is past its date before it reads.
ListCoupons ==
    /\ coupon' = [i \in DOMAIN coupon |->
                     IF Stale(coupon[i]) THEN [coupon[i] EXCEPT !.status = "expired"]
                                         ELSE coupon[i]]
    /\ UNCHANGED <<template, doing, today, edits>>

\* What ListCoupons then answers: holder 0 and status "" ask for all.
CouponsListed(h, s) ==
    {i \in DOMAIN coupon : (h > 0 => coupon[i].holder = h) /\ (s # "" => coupon[i].status = s)}

\* Claim does not look at the shop, ClaimInShop does.
AnyShop == -1

ShopMatches(row, s) == s # AnyShop /\ row.shop # 0 => row.shop = s

Redeemable(row, h, amount) ==
    /\ row.holder = h
    /\ row.status = "unused"
    /\ row.until >= today
    /\ row.minSpend <= amount

ClaimCheck(c, h, i, amount, s, ref) ==
    /\ i \in DOMAIN coupon
    /\ Redeemable(coupon[i], h, amount)
    /\ ShopMatches(coupon[i], s)
    /\ Begin(c, [op |-> "claim", coupon |-> i, ref |-> ref])
    /\ UNCHANGED <<template, coupon, today, edits>>

\* Mutant: the UPDATE does not compare the status again.
StillThere(i) == i \in DOMAIN coupon

\* WHERE status = 'unused'
StillUnused(i) == coupon[i].status = "unused"

ClaimCommit(c) ==
    LET i == doing[c].coupon  t == coupon[i].template IN
    /\ doing[c].op = "claim"
    /\ StillUnused(i)
    /\ coupon' = [coupon EXCEPT ![i].status = "used", ![i].ref = doing[c].ref]
    /\ template' = [template EXCEPT ![t].used = IF Exists(t) THEN @ + 1 ELSE @]
    /\ Finish(c)
    /\ UNCHANGED <<today, edits>>

\* ErrCouponNotAvailable: another caller was faster, or the coupon expired.
ClaimRefused(c) ==
    /\ doing[c].op = "claim"
    /\ ~StillUnused(doing[c].coupon)
    /\ Finish(c)
    /\ UNCHANGED <<template, coupon, today, edits>>

\* A transaction ends without writing: cancelled, or a statement failed.
CouponAbort(c) ==
    /\ doing[c] # Idle
    /\ Finish(c)
    /\ UNCHANGED <<template, coupon, today, edits>>

NextDay ==
    /\ today < Horizon
    /\ today' = today + 1
    /\ UNCHANGED <<template, coupon, doing, edits>>

\* What administrators and the passing of time do.
Administration ==
    \/ \E t \in Templates, o \in Offers : CreateTemplate(t, o)
    \/ \E t \in Templates, o \in Offers, s \in {"enabled", "disabled"} : UpdateTemplate(t, o, s)
    \/ \E c \in Callers, t \in Templates : DeleteTemplate(c, t)
    \/ \E c \in Callers, t \in Templates, hs \in SUBSET Holders : IssueCheck(c, t, hs)
    \/ \E c \in Callers : StoreDelete(c) \/ IssueCommit(c)
    \/ ListCoupons
    \/ NextDay

\* What holders do.
Redemptions ==
    \E c \in Callers :
        \/ \E h \in Holders, i \in 1..MaxCoupons, a \in Bills, s \in Shops \cup {AnyShop},
             r \in Refs : ClaimCheck(c, h, i, a, s, r)
        \/ ClaimCommit(c) \/ ClaimRefused(c) \/ CouponAbort(c)

CouponNext == Administration \/ Redemptions

CouponSpec == CouponInit /\ [][CouponNext]_couponVars

-----------------------------------------------------------------------------
(* Properties *)

\* A template's counters are the numbers of its issued and redeemed coupons,
\* although they are columns of another row (store.go:176, 273).
CountersAreRows ==
    /\ CouponTypeOK
    /\ \A t \in Templates : Exists(t) =>
          /\ template[t].issued = Cardinality(CouponsOf(t))
          /\ template[t].used =
             Cardinality({i \in CouponsOf(t) : coupon[i].status = "used"})

\* A redeemed coupon keeps its document, an expired one is never redeemed:
\* concurrent redemptions and expiry race for the row (store.go:257).
OutcomeIsFinal ==
    [][\A i \in DOMAIN coupon : coupon[i].status # "unused" => coupon'[i] = coupon[i]]_coupon

HighestTotal == (CHOOSE o \in Offers : \A p \in Offers : o.total >= p.total).total

\* The limit is checked on what other issues have not yet counted: it is
\* exceeded by no more than the batches in flight (store.go:154).
OverIssueIsBounded ==
    \A t \in Templates : Exists(t) /\ (\A o \in Offers : o.total > 0) =>
        template[t].issued <= HighestTotal + (Cardinality(Callers) - 1) * MaxIssueBatch
=============================================================================
