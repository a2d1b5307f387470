------------------------------- MODULE Goods -------------------------------
(***************************************************************************)
(* src/catalog: what a shop sells, kept per tenant, and src/billing: price *)
(* tiers, expiry dates and their renewal.  Update takes the row and writes *)
(* it by its id in two statements of one transaction, and does not look at *)
(* how many rows it wrote.  Times are days; LongTerm stands for the year   *)
(* 9999.                                                                   *)
(***************************************************************************)
EXTENDS Integers, FiniteSets, SequencesExt, Paging

CONSTANTS
    Sellers,        \* tenants
    Clerks,         \* concurrent callers
    ItemInputs,     \* what they ask for, valid or not
    MaxItems,       \* bound: items
    PriceLists,     \* [kind, tiers] that administrators set up
    Durations,      \* durations, in days
    LongTerm,       \* a time later than any other
    MonthCycleMaxDays, YearCycleMinDays

\* Nothing that is sold for days reaches the long term, not even when renewed.
ASSUME TimesAssumption ==
    /\ Durations \subseteq Int /\ LongTerm \in Nat
    /\ \A d, e \in Durations : d + e + 1 < LongTerm
    /\ MonthCycleMaxDays \in Nat \ {0} /\ YearCycleMinDays \in Nat \ {0}
    /\ MonthCycleMaxDays < YearCycleMinDays
ASSUME PriceListsAssumption ==
    \A list \in PriceLists : list.tiers \in Seq([days : Durations, price : Int])

VARIABLES
    goods,          \* goods[i]: the row of the i-th item created, or NoItem
    handling,       \* handling[c]: the update a clerk has begun
    asked           \* asked[i]: the tenant and the input that were last accepted

goodsVars == <<goods, handling, asked>>

NoItem == [seller |-> 0]

GoodsInit ==
    /\ goods = <<>> /\ asked = <<>>
    /\ handling = [c \in Clerks |-> NoItem]

\* validateInput; a status that is left out means enabled.
ValidItem(in) ==
    /\ in.named /\ in.price >= 0
    /\ in.status \in {"", "enabled", "disabled"}
ItemStatus(in) == IF in.status = "" THEN "enabled" ELSE in.status

ItemRow(seller, in) ==
    [seller |-> seller, price |-> in.price, shop |-> in.shop, status |-> ItemStatus(in)]

CreateItem(c, seller, in) ==
    /\ handling[c] = NoItem /\ Len(goods) < MaxItems
    /\ seller # 0 /\ ValidItem(in)
    /\ goods' = Append(goods, ItemRow(seller, in))
    /\ asked' = Append(asked, [seller |-> seller, in |-> in])
    /\ UNCHANGED handling

\* Mutant: the item is taken by its id alone.
AnyonesItem(seller, i) == goods[i] # NoItem

OwnItem(seller, i) == goods[i].seller = seller

UpdateTake(c, seller, i, in) ==
    /\ handling[c] = NoItem
    /\ OwnItem(seller, i) /\ ValidItem(in)
    /\ handling' = [handling EXCEPT ![c] = [item |-> i, seller |-> seller, in |-> in]]
    /\ UNCHANGED <<goods, asked>>

\* Of a row that is gone meanwhile nothing is written, and the call succeeds.
UpdateWrite(c) ==
    /\ handling[c] # NoItem
    /\ LET i == handling[c].item
           in == handling[c].in
       IN  IF goods[i] = NoItem THEN UNCHANGED <<goods, asked>>
           ELSE /\ goods' = [goods EXCEPT ![i] = ItemRow(@.seller, in)]
                /\ asked' = [asked EXCEPT ![i] = [seller |-> handling[c].seller, in |-> in]]
    /\ handling' = [handling EXCEPT ![c] = NoItem]

DeleteItem(c, seller, i) ==
    /\ handling[c] = NoItem
    /\ OwnItem(seller, i)
    /\ goods' = [goods EXCEPT ![i] = NoItem]
    /\ UNCHANGED <<asked, handling>>

GoodsNext ==
    \E c \in Clerks :
        \/ \E s \in Sellers, in \in ItemInputs : CreateItem(c, s, in)
        \/ \E s \in Sellers, i \in DOMAIN goods, in \in ItemInputs : UpdateTake(c, s, i, in)
        \/ UpdateWrite(c)
        \/ \E s \in Sellers, i \in DOMAIN goods : DeleteItem(c, s, i)

\* Items: the tenant's rows that match, in the order of their ids, a page of them.
Matching(seller, shop, status) ==
    { i \in DOMAIN goods : /\ goods[i].seller = seller
                           /\ shop > 0 => goods[i].shop = shop
                           /\ status # "" => goods[i].status = status }

Items(seller, shop, status, page, size) ==
    LET rows == OldestFirst(Matching(seller, shop, status))
        from == (page - 1) * size
    IN  [items |-> SubSeq(rows, from + 1,
                                IF from + size < Len(rows) THEN from + size ELSE Len(rows)),
         total |-> Len(rows)]

-----------------------------------------------------------------------------
\* billing.

ValidatePriceTiers(kind, tiers) ==
    /\ \A i \in DOMAIN tiers :
          /\ tiers[i].price >= 0 /\ tiers[i].days >= 0
          /\ kind = "addon" => tiers[i].days = 0
          /\ \A j \in 1..(i - 1) : tiers[j].days # tiers[i].days
    /\ kind = "plan" => tiers # <<>>
    /\ kind = "addon" => Len(tiers) = 1

IsLongTerm(time) == time >= LongTerm

ExpiredAt(days, now) == IF days <= 0 THEN LongTerm ELSE now + days

ExtendExpiredAt(current, days) == IF IsLongTerm(current) THEN current ELSE current + days

CycleLabel(days) ==
    CASE days <= 0 -> ""
      [] days >= YearCycleMinDays -> "year"
      [] days > 0 /\ days <= MonthCycleMaxDays -> "month"
      [] OTHER -> "days"

-----------------------------------------------------------------------------
\* An item holds what its own tenant asked for last, however updates and
\* deletions cross (catalog/engine.go:39).
ItemsAreTheirTenants ==
    \A i \in DOMAIN goods : goods[i] # NoItem =>
        /\ goods[i] = ItemRow(asked[i].seller, asked[i].in)
        /\ ValidItem(asked[i].in)

\* The pages of a list are the list: every matching item once, in order, and
\* nobody else's (catalog/engine.go:83).
ItemPagesHold ==
    \A seller \in Sellers, status \in {"", "enabled"}, size \in 1..2 :
        LET page(n) == Items(seller, 0, status, n, size)
            all == FlattenSeq([n \in 1..(page(1).total \div size + 1) |-> page(n).items])
        IN  /\ Len(all) = page(1).total
            /\ Range(all) = {i \in DOMAIN goods : /\ goods[i].seller = seller
                                                  /\ status # "" => goods[i].status = status}
            /\ \A i, j \in DOMAIN all : i < j => all[i] < all[j]

\* Whatever valid tiers are bought, in whatever order, a renewal never
\* shortens what was paid; long terms stay long, and a tier of no days, which
\* makes a first purchase last for ever, adds nothing to a later one
\* (billing.go:66, 75).
RenewalsHold ==
    \A list \in PriceLists : ValidatePriceTiers(list.kind, list.tiers) =>
        \A i, j \in DOMAIN list.tiers :
            LET first == ExpiredAt(list.tiers[i].days, 1)
                next  == ExtendExpiredAt(first, list.tiers[j].days)
            IN  /\ next >= first
                /\ IsLongTerm(next) <=> list.tiers[i].days = 0
                /\ list.tiers[j].days = 0 => next = first
                /\ i # j => \/ CycleLabel(list.tiers[i].days) # ""
                            \/ CycleLabel(list.tiers[j].days) # ""
                /\ ExtendExpiredAt(next, list.tiers[i].days)
                     = ExtendExpiredAt(ExtendExpiredAt(first, list.tiers[i].days),
                                       list.tiers[j].days)

GoodsHold == ItemsAreTheirTenants /\ ItemPagesHold
=============================================================================
