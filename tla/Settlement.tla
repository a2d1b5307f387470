---------------------------- MODULE Settlement ----------------------------
(***************************************************************************)
(* src/settle: Apply settles a document by redeeming a coupon and then     *)
(* deducting the balance.  It composes the transactions of Coupon and      *)
(* Member, and is no transaction itself: other settlements, recharges and  *)
(* the expiry of coupons come between its steps, and what its first half   *)
(* did stays when its second half fails.                                   *)
(***************************************************************************)
EXTENDS Coupon, Member

CONSTANTS
    Totals,         \* amounts due
    MaxFailures     \* bound: failed attempts per document

ASSUME TotalsAssumption == Totals \subseteq Nat /\ MaxFailures \in Nat

\* A settlement's document is a reference of its own.
ASSUME DocumentsAssumption == Callers \subseteq Refs

VARIABLE settlement     \* settlement[d]: the settlement of document d, run by caller d

settleVars == <<couponVars, memberVars, settlement>>

NotSettled ==
    [stage |-> "idle", holder |-> 0, total |-> 0, coupon |-> 0, useBalance |-> FALSE,
     discount |-> 0, used |-> 0, lost |-> {}, failures |-> 0]

SettleInit == settlement = [d \in Callers |-> NotSettled]

\* Mutant: the balance is asked for the whole amount.
PayableInFull(d) == settlement[d].total

Payable(d) == settlement[d].total - settlement[d].discount

PaidAmount(d) == settlement[d].total - settlement[d].discount - settlement[d].used

Starts(d, h, total, i, b) ==
    /\ settlement[d].stage = "idle"
    /\ settlement' = [settlement EXCEPT ![d] =
          [@ EXCEPT !.stage = IF i > 0 THEN "claim" ELSE "pay", !.holder = h,
                    !.total = total, !.coupon = i, !.useBalance = b]]

ApplyWithCoupon(d, h, total, i, b) ==
    /\ i > 0
    /\ Starts(d, h, total, i, b)
    /\ ClaimCheck(d, h, i, total, AnyShop, d)
    /\ UNCHANGED memberVars

ApplyWithoutCoupon(d, h, total, b) ==
    /\ Starts(d, h, total, 0, b)
    /\ UNCHANGED <<couponVars, memberVars>>

ApplyClaimed(d) ==
    /\ settlement[d].stage = "claim"
    /\ ClaimCommit(d)
    /\ settlement' = [settlement EXCEPT ![d].stage = "pay",
                                        ![d].discount = coupon[settlement[d].coupon].amount]
    /\ UNCHANGED memberVars

ApplyDeducts(d) ==
    /\ settlement[d].stage = "pay"
    /\ settlement[d].useBalance
    /\ DeductRead(d, settlement[d].holder, Payable(d), d)
    /\ settlement' = [settlement EXCEPT ![d].stage = "deduct"]
    /\ UNCHANGED couponVars

ApplyDeducted(d) ==
    /\ settlement[d].stage = "deduct"
    /\ DeductCommit(d) \/ DeductNothing(d)
    /\ settlement' = [settlement EXCEPT ![d].stage = "done", ![d].used = Deducted(d)]
    /\ UNCHANGED couponVars

ApplyWithoutBalance(d) ==
    /\ settlement[d].stage = "pay"
    /\ ~(settlement[d].useBalance /\ Payable(d) > 0)
    /\ settlement' = [settlement EXCEPT ![d].stage = "done"]
    /\ UNCHANGED <<couponVars, memberVars>>

\* Apply returns an error; its caller may try again, with another coupon or none.
\* A coupon redeemed before a failing deduction is not given back.
ApplyFails(d) ==
    LET s == settlement[d] IN
    /\ s.failures < MaxFailures
    /\ \/ s.stage = "claim" /\ (ClaimRefused(d) \/ CouponAbort(d)) /\ UNCHANGED memberVars
       \/ s.stage = "deduct" /\ SavingFails(d) /\ UNCHANGED couponVars
    /\ settlement' = [settlement EXCEPT ![d] =
          [NotSettled EXCEPT !.failures = s.failures + 1,
              !.lost = s.lost \cup IF s.stage = "deduct" THEN {s.coupon} \ {0} ELSE {}]]

Settlements ==
    \/ \E d \in Callers, h \in Holders \ {0}, total \in Totals, b \in BOOLEAN :
          \/ ApplyWithoutCoupon(d, h, total, b)
          \/ \E i \in 1..MaxCoupons : ApplyWithCoupon(d, h, total, i, b)
    \/ \E d \in Callers :
          \/ ApplyClaimed(d) \/ ApplyDeducts(d) \/ ApplyDeducted(d)
          \/ ApplyWithoutBalance(d) \/ ApplyFails(d)
    \/ /\ \E d \in Callers, h \in Holders \ {0}, a \in Amounts :
             settlement[d].stage = "idle" /\ RechargeRead(d, h, a)
       /\ UNCHANGED <<couponVars, settlement>>
    \/ /\ \E d \in Callers : RechargeCommit(d) \/ (saving[d].op = "recharge" /\ SavingFails(d))
       /\ UNCHANGED <<couponVars, settlement>>

\* Coupons are issued and expire meanwhile.
SettleNext == Settlements \/ (Administration /\ UNCHANGED <<memberVars, settlement>>)

SettleSpec == CouponInit /\ MemberInit /\ SettleInit /\ [][SettleNext]_settleVars

-----------------------------------------------------------------------------
(* Properties *)

RedeemedFor(d) == {i \in DOMAIN coupon : coupon[i].status = "used" /\ coupon[i].ref = d}

SpentFor(d) == {k \in DOMAIN ledger : ledger[k].ref = d}

\* A settlement's discount is a coupon redeemed for its document and no other's,
\* and its balance part is one row of the ledger; the coupons that failed
\* attempts redeemed are the only others (settle.go:48, 58).
SettledIsBacked ==
    \A d \in Callers : settlement[d].stage = "done" =>
        LET s == settlement[d] IN
        /\ RedeemedFor(d) = s.lost \cup ({s.coupon} \ {0})
        /\ s.coupon # 0 => s.coupon \notin s.lost /\ coupon[s.coupon].amount = s.discount
        /\ IF s.used = 0 THEN SpentFor(d) = {}
           ELSE \E k \in DOMAIN ledger : /\ SpentFor(d) = {k}
                                         /\ ledger[k].amount = s.used
                                         /\ ledger[k].holder = s.holder

\* What is left to pay is negative only by what the coupon exceeds the amount
\* due: the balance never pays more than is due after it (settle.go:57).
BalancePaysAtMostTheRest ==
    \A d \in Callers : settlement[d].stage = "done" /\ settlement[d].used > 0 =>
        PaidAmount(d) >= 0

\* Completed settlements are backed by the rows they claim and collect no more
\* than is due.
SettlementsAreSound == SettledIsBacked /\ BalancePaysAtMostTheRest
=============================================================================
