---------------------------- MODULE SessionCard ----------------------------
(***************************************************************************)
(* src/sessioncard: session-card templates, the cards issued from them and *)
(* the consumption of their uses, as concurrent transactions on the rows   *)
(* of one tenant.  A transaction that reads before it writes is two steps. *)
(***************************************************************************)
EXTENDS Marketing, Paging

CONSTANTS
    CardTemplates,  \* ids the template table can give out
    CardOffers,     \* what administrators ask for, valid or not
    MaxTotalTimes,
    MaxCards        \* bound: cards

ASSUME CardOffersAssumption ==
    \A o \in CardOffers : /\ {o.times, o.days, o.total} \subseteq Int
                          /\ o.shop \in Shops
ASSUME CardBoundsAssumption ==
    /\ {MaxTotalTimes, MaxCards} \subseteq Nat

VARIABLES
    cardTemplate,   \* cardTemplate[t]: a row; "absent" and "deleted" are no row
    card,           \* the cards, in the order of their ids
    consumed,       \* the rows of session_card_consume_logs
    using,          \* using[c]: the transaction a caller has begun
    cardDay,
    cardEdits

cardVars == <<cardTemplate, card, consumed, using, cardDay, cardEdits>>

NoUse == [op |-> "none"]

\* SessionCardTemplate and the columns the operations look at; `used' is the
\* UsedTimes of model.go:34, which no operation of the package writes.
SessionCardTemplate ==
    [times : Nat, days : Nat, total : Nat, shop : Shops, issued : Nat, used : Nat,
     status : {"absent", "enabled", "disabled", "deleted"}]

SessionCardModel ==
    [template : CardTemplates, holder : Holders \ {0}, shop : Shops, times : Nat,
     remaining : Int, used : Nat, until : Nat, status : {"active", "exhausted", "expired"}]

SessionCardConsumeLog == [card : 1..MaxCards, holder : Holders, shop : Shops]

CardTypeOK ==
    /\ cardTemplate \in [CardTemplates -> SessionCardTemplate]
    /\ card \in Seq(SessionCardModel) /\ Len(card) <= MaxCards
    /\ consumed \in Seq(SessionCardConsumeLog)
    /\ using \in [Callers -> {NoUse}
          \cup [op : {"issue"}, template : CardTemplates, row : SessionCardTemplate,
                holders : SUBSET Holders]
          \cup [op : {"delete"}, template : CardTemplates]
          \cup [op : {"consume"}, card : 1..MaxCards, shop : Shops]]
    /\ cardDay \in 0..Horizon /\ cardEdits \in 0..MaxEdits

CardInit ==
    /\ cardTemplate = [t \in CardTemplates |->
          [times |-> 0, days |-> 0, total |-> 0, shop |-> 0, issued |-> 0,
           used |-> 0, status |-> "absent"]]
    /\ card = <<>> /\ consumed = <<>>
    /\ using = [c \in Callers |-> NoUse]
    /\ cardDay = 0 /\ cardEdits = 0

HasTemplate(t) == cardTemplate[t].status \in {"enabled", "disabled"}

Use(c, transaction) ==
    /\ using[c] = NoUse
    /\ using' = [using EXCEPT ![c] = transaction]

EndUse(c) == using' = [using EXCEPT ![c] = NoUse]

-----------------------------------------------------------------------------
(* Templates *)

\* What buildTemplate accepts.
Builds(o) ==
    /\ o.times \in 1..MaxTotalTimes
    /\ o.days \in 1..MaxValidDays
    /\ o.total >= 0

Rebuilt(row, o, s) ==
    [row EXCEPT !.times = o.times, !.days = o.days, !.total = o.total, !.shop = o.shop,
                !.status = s]

CreateCardTemplate(t, o) ==
    /\ cardEdits < MaxEdits
    /\ cardTemplate[t].status = "absent"
    /\ Builds(o)
    /\ cardTemplate' = [cardTemplate EXCEPT ![t] = Rebuilt(@, o, "enabled")]
    /\ cardEdits' = cardEdits + 1
    /\ UNCHANGED <<card, consumed, using, cardDay>>

UpdateCardTemplate(t, o, s) ==
    /\ cardEdits < MaxEdits
    /\ HasTemplate(t)
    /\ Builds(o)
    /\ s \in {"enabled", "disabled"}
    /\ cardTemplate' = [cardTemplate EXCEPT ![t] = Rebuilt(@, o, s)]
    /\ cardEdits' = cardEdits + 1
    /\ UNCHANGED <<card, consumed, using, cardDay>>

CardsOf(t) == {i \in DOMAIN card : card[i].template = t}

\* DeleteTemplate counts the cards, then deletes in a statement of its own.
DeleteCardTemplate(c, t) ==
    /\ HasTemplate(t)
    /\ CardsOf(t) = {}
    /\ Use(c, [op |-> "delete", template |-> t])
    /\ UNCHANGED <<cardTemplate, card, consumed, cardDay, cardEdits>>

StoreDeleteTemplate(c) ==
    LET t == using[c].template IN
    /\ using[c].op = "delete"
    /\ cardTemplate' = [cardTemplate EXCEPT ![t].status =
                           IF HasTemplate(t) THEN "deleted" ELSE @]
    /\ EndUse(c)
    /\ UNCHANGED <<card, consumed, cardDay, cardEdits>>

-----------------------------------------------------------------------------
(* Issuing, expiry and consumption *)

\* The engine drops invalid and repeated holders and limits the batch.
CardRecipients(holders) == holders \ {0}

IssueCardsCheck(c, t, holders) ==
    LET n == Cardinality(CardRecipients(holders)) IN
    /\ n \in 1..MaxIssueBatch
    /\ cardTemplate[t].status = "enabled"
    /\ cardTemplate[t].total > 0 => cardTemplate[t].issued + n <= cardTemplate[t].total
    /\ Use(c, [op |-> "issue", template |-> t, row |-> cardTemplate[t],
               holders |-> CardRecipients(holders)])
    /\ UNCHANGED <<cardTemplate, card, consumed, cardDay, cardEdits>>

NewCard(t, row, h) ==
    [template |-> t, holder |-> h, shop |-> row.shop, times |-> row.times,
     remaining |-> row.times, used |-> 0, until |-> cardDay + row.days, status |-> "active"]

IssuedNow(t, row, n) == cardTemplate[t].issued + n

IssueCardsCommit(c) ==
    LET call == using[c]
        rows == SetToSeq({NewCard(call.template, call.row, h) : h \in call.holders})
    IN  /\ call.op = "issue"
        /\ Len(card) + Len(rows) <= MaxCards
        /\ card' = card \o rows
        /\ cardTemplate' = [cardTemplate EXCEPT ![call.template].issued =
               IF HasTemplate(call.template)
               THEN IssuedNow(call.template, call.row, Len(rows)) ELSE @]
        /\ EndUse(c)
        /\ UNCHANGED <<consumed, cardDay, cardEdits>>

\* expireStaleCards
StaleCard(row) == row.status = "active" /\ row.until < cardDay

\* ListCards expires before it reads.
ListCards ==
    /\ card' = [i \in DOMAIN card |->
                   IF StaleCard(card[i]) THEN [card[i] EXCEPT !.status = "expired"]
                                         ELSE card[i]]
    /\ UNCHANGED <<cardTemplate, consumed, using, cardDay, cardEdits>>

\* What ListCards then answers: holder 0 and status "" ask for all.
CardsListed(h, s) ==
    {i \in DOMAIN card : (h > 0 => card[i].holder = h) /\ (s # "" => card[i].status = s)}

CardShopMatches(row, s) == row.shop > 0 => row.shop = s

\* Consume reads the card without a lock.
ConsumeCheck(c, h, i, s) ==
    /\ i \in DOMAIN card
    /\ card[i].holder = h
    /\ card[i].status = "active"
    /\ card[i].until >= cardDay
    /\ CardShopMatches(card[i], s)
    /\ Use(c, [op |-> "consume", card |-> i, shop |-> s])
    /\ UNCHANGED <<cardTemplate, card, consumed, cardDay, cardEdits>>

\* Mutant: the UPDATE trusts what was read.
AnyUseLeft(i) == i \in DOMAIN card

\* WHERE remaining_times > 0: neither the status nor the date again.
UseLeft(i) == card[i].remaining > 0

\* The second UPDATE: remaining_times = 0 AND status = 'active'.
Exhausted(row) ==
    IF row.remaining = 0 /\ row.status = "active" THEN [row EXCEPT !.status = "exhausted"]
                                                  ELSE row

OneUseLess(row) ==
    Exhausted([row EXCEPT !.remaining = row.remaining - 1, !.used = row.used + 1])

ConsumeCommit(c) ==
    LET i == using[c].card IN
    /\ using[c].op = "consume"
    /\ UseLeft(i)
    /\ card' = [card EXCEPT ![i] = OneUseLess(card[i])]
    /\ consumed' = Append(consumed, [card |-> i, holder |-> card[i].holder,
                                     shop |-> using[c].shop])
    /\ EndUse(c)
    /\ UNCHANGED <<cardTemplate, cardDay, cardEdits>>

\* A transaction that ends without writing: ErrCardNotAvailable, cancelled, failed.
CardAbort(c) ==
    /\ using[c] # NoUse
    /\ EndUse(c)
    /\ UNCHANGED <<cardTemplate, card, consumed, cardDay, cardEdits>>

CardNextDay ==
    /\ cardDay < Horizon
    /\ cardDay' = cardDay + 1
    /\ UNCHANGED <<cardTemplate, card, consumed, using, cardEdits>>

CardNext ==
    \/ \E t \in CardTemplates, o \in CardOffers : CreateCardTemplate(t, o)
    \/ \E t \in CardTemplates, o \in CardOffers, s \in {"enabled", "disabled"} :
          UpdateCardTemplate(t, o, s)
    \/ \E c \in Callers, t \in CardTemplates : DeleteCardTemplate(c, t)
    \/ \E c \in Callers : StoreDeleteTemplate(c) \/ IssueCardsCommit(c)
    \/ \E c \in Callers, t \in CardTemplates, hs \in SUBSET Holders : IssueCardsCheck(c, t, hs)
    \/ ListCards
    \/ \E c \in Callers, h \in Holders, i \in 1..MaxCards, s \in Shops :
          ConsumeCheck(c, h, i, s)
    \/ \E c \in Callers : ConsumeCommit(c) \/ CardAbort(c)
    \/ CardNextDay

CardSpec == CardInit /\ [][CardNext]_cardVars

-----------------------------------------------------------------------------
(* Properties *)

\* Every use of a card is counted once on the card and once in the log, and
\* concurrent consumptions never use up more than was bought (store.go:246).
UsesAddUp ==
    \A i \in DOMAIN card :
        /\ card[i].remaining >= 0
        /\ card[i].remaining + card[i].used = card[i].times
        /\ card[i].used = Cardinality({k \in DOMAIN consumed : consumed[k].card = i})

\* A card that is used up is never active, and no exhausted card has uses left,
\* however expiry and the last consumption interleave (store.go:259).
ExhaustedIsEmpty ==
    \A i \in DOMAIN card :
        /\ card[i].status = "active" => card[i].remaining > 0
        /\ card[i].status = "exhausted" => card[i].remaining = 0

\* A card bound to a shop is consumed in that shop only, whatever becomes of
\* its template meanwhile (store.go:242).
ConsumedInItsShop ==
    \A k \in DOMAIN consumed :
        card[consumed[k].card].shop \in {0, consumed[k].shop}

\* The template's counter is the number of its cards (store.go:173).
CardCounterIsRows ==
    \A t \in CardTemplates :
        HasTemplate(t) => cardTemplate[t].issued = Cardinality(CardsOf(t))

\* What a card says of itself agrees with its log, and the number of cards its
\* template counts with the cards there are, under concurrent issues,
\* consumptions, expiry and template edits.  The uses a template counts are not
\* among this: the comments of model.go:34 and sessioncard.go:70 say that they
\* are those of all its cards, and Consume (store.go:216) does not count them.
CardsAddUp ==
    CardTypeOK /\ UsesAddUp /\ ExhaustedIsEmpty /\ ConsumedInItsShop /\ CardCounterIsRows
=============================================================================
