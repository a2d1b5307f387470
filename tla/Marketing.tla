----------------------------- MODULE Marketing -----------------------------
(***************************************************************************)
(* What the models of src/coupon, src/sessioncard, src/member and          *)
(* src/settle share: who calls them and for whom.                          *)
(***************************************************************************)
EXTENDS Integers, Sequences, FiniteSets

CONSTANTS
    Callers,        \* requests in flight
    Holders,        \* holder ids, 0 being the invalid one
    Shops,          \* shop ids, 0 being the brand
    Refs,           \* documents coupons and balances are used for
    MaxValidDays, MaxIssueBatch,
    Horizon,        \* bound: the day
    MaxEdits        \* bound: template edits

ASSUME MarketingAssumption ==
    /\ IsFiniteSet(Callers) /\ Callers # {}
    /\ Holders \subseteq Nat /\ IsFiniteSet(Holders)
    /\ Shops \subseteq Nat /\ 0 \in Shops
    /\ {MaxValidDays, MaxIssueBatch, Horizon, MaxEdits} \subseteq Nat
=============================================================================
