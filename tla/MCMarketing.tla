---------------------------- MODULE MCMarketing ----------------------------
EXTENDS Settlement, SessionCard, PlanCatalog, Goods

VARIABLE part   \* the parts share no rows: each is explored on its own

Symmetry == Permutations(Callers)

everything == <<settleVars, cardVars, catalogVars, goodsVars>>

OffersMC ==
    { [amount |-> 2, minSpend |-> 0, days |-> 1, total |-> 1, scope |-> "", shop |-> 1],
      [amount |-> 1, minSpend |-> 3, days |-> 0, total |-> 1, scope |-> "tenant", shop |-> 0],
      [amount |-> 1, minSpend |-> 3, days |-> 1, total |-> 1, scope |-> "shop", shop |-> 1] }

CardOffersMC ==
    { [times |-> 2, days |-> 1, total |-> 2, shop |-> 1],
      [times |-> 1, days |-> 0, total |-> 1, shop |-> 0],
      [times |-> 1, days |-> 1, total |-> 0, shop |-> 0] }

TrimmedMC == ("p" :> "p") @@ (" p" :> "p") @@ ("q" :> "q") @@ ("a" :> "a") @@ (" " :> "")
Ent(code, type, limit, enabled) ==
    [code |-> code, type |-> type, limit |-> limit, enabled |-> enabled]
PlanMC(code, price, default, status, ents_) ==
    [code |-> code, price |-> price, default |-> default, status |-> status, ents |-> ents_]
Counted == <<Ent("a", "count", 1, FALSE)>>
Switched == <<Ent("a", "boolean", 0, TRUE)>>
PlanInputsMC ==
    { PlanMC("p", 1, TRUE, 1, Counted), PlanMC(" p", 2, FALSE, 0, <<>>),
      PlanMC("q", 0, TRUE, 0, Switched), PlanMC(" ", 1, FALSE, 1, <<>>) }
SeedSetsMC == { {PlanMC("p", 3, TRUE, 2, Switched)},
                {PlanMC("p", 0, TRUE, 0, Counted), PlanMC("q", 1, FALSE, 1, Counted)} }

ItemMC(named, price, shop, status) ==
    [named |-> named, price |-> price, shop |-> shop, status |-> status]
ItemInputsMC == {ItemMC(TRUE, 1, 0, ""), ItemMC(TRUE, 2, 1, "disabled"), ItemMC(FALSE, 1, 1, "")}
DurationsMC == {-1, 0, 1, 62, 63, 360}
TierMC(days, price) == [days |-> days, price |-> price]
PriceListsMC ==
    [kind : {"plan", "addon"},
     tiers : UNION {[1..n -> {TierMC(d, p) : d \in Durations, p \in {-1, 1}}] : n \in 0..2}]

\* What one earlier issue has left: its limit and the bound on edits are reached,
\* so that while settlements run no coupon comes, though coupons expire.
Issued2 ==
    /\ template = [t \in Templates |->
          [amount |-> 2, minSpend |-> 1, days |-> 1, total |-> 2, shop |-> 0,
           status |-> "enabled", issued |-> 2, used |-> 0]]
    /\ coupon = [i \in 1..2 |-> [template |-> CHOOSE t \in Templates : TRUE, holder |-> 1,
                                 amount |-> i + 1, minSpend |-> 1, shop |-> 0, until |-> 1,
                                 status |-> "unused", ref |-> NoRef]]
    /\ doing = [c \in Callers |-> Idle] /\ today = 1 /\ edits = MaxEdits

Init ==
    /\ MemberInit /\ SettleInit /\ CardInit /\ CatalogInit /\ GoodsInit
    /\ \/ part = "coupon" /\ CouponInit
       \/ part \in {"card", "plans", "goods"} /\ CouponInit
       \/ part = "settle" /\ Issued2

\* What a part leaves alone.
Still(p) ==
    /\ p \notin {"coupon", "settle"} => UNCHANGED settleVars
    /\ p # "card" => UNCHANGED cardVars
    /\ p # "plans" => UNCHANGED catalogVars
    /\ p # "goods" => UNCHANGED goodsVars

Next ==
    /\ UNCHANGED part /\ Still(part)
    /\ \/ part = "coupon" /\ CouponNext /\ UNCHANGED <<memberVars, settlement>>
       \/ part = "card" /\ CardNext
       \/ part = "settle" /\ SettleNext
       \/ part = "plans" /\ CatalogNext
       \/ part = "goods" /\ GoodsNext

Spec == Init /\ [][Next]_<<part, everything>>

-----------------------------------------------------------------------------
\* The catalogues hold what was asked for, and the lists of the engines, page
\* by page, show all of it (plan/engine.go:69, catalog/engine.go:39,
\* member/member.go:93).  Each part is looked at where it moves.
CataloguesHold ==
    /\ part = "plans" => CatalogTypeOK /\ PlansHold
    /\ part = "goods" => GoodsHold /\ (goods = <<>> => RenewalsHold)
    /\ \A h \in Holders :
          /\ part = "coupon" => \A s \in {"", "used"} :
                PagesAreTheList(CouponsListed(h, s), 2)
          /\ part = "card" => \A s \in {"", "active"} :
                PagesAreTheList(CardsListed(h, s), 2)
          /\ part = "settle" => \A s \in {"", "spend"} :
                PagesAreTheList(TransactionsListed(h, s), 2)
=============================================================================
