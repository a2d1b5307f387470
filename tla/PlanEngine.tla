----------------------------- MODULE PlanEngine -----------------------------
(***************************************************************************)
(* The plan engine of src/plan: catalogue, purchase orders, subscriptions  *)
(* and monthly usage, as transactions of concurrent clients on one         *)
(* database.                                                               *)
(*                                                                         *)
(* A transaction is cut where it waits for or holds a row lock: the order  *)
(* row, then the subscription row of the tenant.  SELECT ... FOR UPDATE of *)
(* a missing subscription locks the gap, which two clients may share; each *)
(* then waits for the other to insert, and the database aborts one.        *)
(***************************************************************************)
EXTENDS Integers, FiniteSetsExt

CONSTANTS
    Tenants, Plans, Clients,
    Orders,         \* out_trade_no
    Asked,          \* Asked[o]: the [tenant, plan, cycle] of CreatePurchase
    Length,         \* Length[cycle]: the period a purchase of a cycle pays for
    Free,           \* plans whose price is 0
    Builtin,        \* the catalogue SeedPlans writes: plan -> limit
    Limits,         \* quotas an administrator may give a plan
    Keys,           \* source keys of ConsumeMonthly
    NoKey,          \* the empty source key
    Expiries,       \* expiry times AssignWithExpiry is called with
    MonthLength,    \* clock units in a calendar month
    None,           \* no subscription, entitlement, tenant, order, plan or lock
    Horizon,        \* bound: the clock
    MaxEdits,       \* bound: catalogue edits
    MaxAssigns,     \* bound: assignments and revocations
    MaxAborts       \* bound: transactions that fail for a reason of their own

\* A subscription row.
Sub == [plan : Plans, start : Nat, expire : Nat]

\* Clients are requests in progress.
ASSUME ClientsAssumption == Clients # {} /\ IsFiniteSet(Clients)

ASSUME OrdersAssumption ==
    \A o \in Orders : Asked[o].tenant \in Tenants /\ Asked[o].plan \in Plans
ASSUME CatalogueAssumption ==
    /\ Free \subseteq Plans
    /\ DOMAIN Builtin \subseteq Plans
    /\ Limits \subseteq Nat
    /\ \E most \in Limits : \A n \in Limits : n <= most
    /\ \A p \in DOMAIN Builtin : Builtin[p] \in Limits
ASSUME NoneAssumption ==
    /\ None \notin Nat \cup Tenants \cup Plans \cup Orders \cup Clients \cup Sub
    /\ None \notin [Plans -> Limits \cup {None}]
ASSUME TimeAssumption ==
    /\ MonthLength \in Nat \ {0}
    /\ Horizon \in Nat \ {0}
    /\ Expiries \subseteq Nat
    /\ \A o \in Orders : Length[Asked[o].cycle] \in Nat \ {0}
ASSUME LimitsAssumption == {MaxEdits, MaxAssigns, MaxAborts} \subseteq Nat

VARIABLES
    status,     \* status[p]: "absent", "on" or "off"
    limit,      \* limit[p]: the count entitlement of the plan, or None
    orphan,     \* an entitlement row of plan 0 exists
    sub,        \* sub[t]: the subscription row, or None
    order,      \* order[o]: "absent", "pending", "paid" or "closed"
    events,     \* usage events, numbered by their tenant, key and month
    items,      \* items[t]: rows of the business table that is counted
    now,
    at,         \* at[c]: where the client's transaction is
    tenant, pays, to, from, until,  \* its local variables: from is also the
    key,        \* time of a consumption, key its source
    used, seen, \* the business count, and the entitlements in its snapshot
    orderLock, subLock, gap,
    edits, assigns, aborts

catalogue == <<status, limit, orphan>>
tables    == <<sub, order, events, items>>
locals    == <<tenant, pays, to, from, until, key, used, seen>>
locks     == <<orderLock, subLock, gap>>
bounds    == <<edits, assigns, aborts>>
vars      == <<catalogue, tables, now, at, locals, locks, bounds>>

\* NULL in the table, the zero time in the program.
Permanent == 0

MonthOf(time) == time \div MonthLength

Months == 0..MonthOf(Horizon)

Usage == [tenant : Tenants, key : Keys, month : Months, number : Nat]

Stages == {"idle", "order", "assign", "assignUntil", "upsert",
           "consume", "record", "counted", "allowed"}

TypeOK ==
    /\ status \in [Plans -> {"absent", "on", "off"}]
    /\ limit \in [Plans -> Nat \cup {None}]
    /\ orphan \in BOOLEAN
    /\ sub \in [Tenants -> Sub \cup {None}]
    /\ order \in [Orders -> {"absent", "pending", "paid", "closed"}]
    /\ events \subseteq Usage
    /\ items \in [Tenants -> Nat]
    /\ now \in 1..Horizon
    /\ at \in [Clients -> Stages]
    /\ tenant \in [Clients -> Tenants \cup {None}]
    /\ pays \in [Clients -> Orders \cup {None}]
    /\ to \in [Clients -> Plans \cup {None}]
    /\ from \in [Clients -> Nat]
    /\ until \in [Clients -> Nat]
    /\ key \in [Clients -> Keys \cup {NoKey}]
    /\ used \in [Clients -> Nat]
    /\ seen \in [Clients -> [Plans -> Nat \cup {None}] \cup {None}]
    /\ orderLock \in [Orders -> Clients \cup {None}]
    /\ subLock \in [Tenants -> Clients \cup {None}]
    /\ gap \in [Tenants -> SUBSET Clients]
    /\ edits \in 0..MaxEdits
    /\ assigns \in 0..MaxAssigns
    /\ aborts \in 0..MaxAborts

Init ==
    /\ status = [p \in Plans |-> "absent"]
    /\ limit = [p \in Plans |-> None]
    /\ orphan = FALSE
    /\ sub = [t \in Tenants |-> None]
    /\ order = [o \in Orders |-> "absent"]
    /\ events = {}
    /\ items = [t \in Tenants |-> 0]
    /\ now = 1
    /\ at = [c \in Clients |-> "idle"]
    /\ tenant = [c \in Clients |-> None]
    /\ pays = [c \in Clients |-> None]
    /\ to = [c \in Clients |-> None]
    /\ from = [c \in Clients |-> 0]
    /\ until = [c \in Clients |-> 0]
    /\ key = [c \in Clients |-> NoKey]
    /\ used = [c \in Clients |-> 0]
    /\ seen = [c \in Clients |-> None]
    /\ orderLock = [o \in Orders |-> None]
    /\ subLock = [t \in Tenants |-> None]
    /\ gap = [t \in Tenants |-> {}]
    /\ edits = 0
    /\ assigns = 0
    /\ aborts = 0

-----------------------------------------------------------------------------
(* The catalogue *)

Edit == edits < MaxEdits /\ edits' = edits + 1

(* A zero status is stored as the column's default, enabled.  The          *)
(* entitlements are built before the plan has an id and are stored under   *)
(* plan 0, where the unique key admits one row per code.                   *)
CreatePlan(p, n) ==
    /\ Edit
    /\ status[p] = "absent"
    /\ n # None => ~orphan
    /\ status' = [status EXCEPT ![p] = "on"]
    /\ orphan' = (orphan \/ n # None)
    /\ UNCHANGED <<limit, tables, now, at, locals, locks, assigns, aborts>>

UpdatePlan(p, s, n) ==
    /\ Edit
    /\ status[p] # "absent"
    /\ status' = [status EXCEPT ![p] = s]
    /\ limit' = [limit EXCEPT ![p] = n]
    /\ UNCHANGED <<orphan, tables, now, at, locals, locks, assigns, aborts>>

\* The built-in plans are created or set back, by code.
SeedPlans ==
    /\ status' = [p \in Plans |-> IF p \in DOMAIN Builtin THEN "on" ELSE status[p]]
    /\ limit' = [p \in Plans |-> IF p \in DOMAIN Builtin THEN Builtin[p] ELSE limit[p]]
    /\ UNCHANGED <<orphan, tables, now, at, locals, locks, bounds>>

-----------------------------------------------------------------------------
(* Transactions and locks *)

Goto(c, stage) == at' = [at EXCEPT ![c] = stage]

\* Mutant: the order is read without FOR UPDATE.
OrderIsFree(o) == TRUE

OrderFree(o) == orderLock[o] = None

\* Mutant: the subscription is read without FOR UPDATE.
SubIsFree(t) == TRUE

SubFree(t) == subLock[t] = None

\* FOR UPDATE of a tenant's subscription: the row, or the gap.
LockSub(c, t) ==
    /\ SubFree(t)
    /\ IF sub[t] = None
       THEN gap' = [gap EXCEPT ![t] = @ \cup {c}] /\ UNCHANGED subLock
       ELSE subLock' = [subLock EXCEPT ![t] = c] /\ UNCHANGED gap

\* Mutant: the locks on subscriptions outlive the transaction.
StillLocked(lock, c) == lock

Released(lock, c) == [x \in DOMAIN lock |-> IF lock[x] = c THEN None ELSE lock[x]]

\* Commit or rollback.
End(c) ==
    /\ Goto(c, "idle")
    /\ orderLock' = Released(orderLock, c)
    /\ subLock' = Released(subLock, c)
    /\ gap' = [t \in Tenants |-> gap[t] \ {c}]
    /\ tenant' = [tenant EXCEPT ![c] = None]
    /\ pays' = [pays EXCEPT ![c] = None]
    /\ to' = [to EXCEPT ![c] = None]
    /\ from' = [from EXCEPT ![c] = 0]
    /\ until' = [until EXCEPT ![c] = 0]
    /\ key' = [key EXCEPT ![c] = NoKey]
    /\ used' = [used EXCEPT ![c] = 0]
    /\ seen' = [seen EXCEPT ![c] = None]

RollBack(c) ==
    /\ End(c)
    /\ UNCHANGED <<catalogue, tables, now, edits, assigns>>

Abort(c) ==
    /\ at[c] # "idle"
    /\ aborts < MaxAborts
    /\ aborts' = aborts + 1
    /\ RollBack(c)

-----------------------------------------------------------------------------
(* Purchase orders *)

\* The plan is read just before the insert; an order whose plan is disabled in
\* between is no different from one whose plan is disabled later.
CreatePurchase(o) ==
    /\ order[o] = "absent"
    /\ status[Asked[o].plan] = "on"
    /\ Asked[o].plan \notin Free
    /\ order' = [order EXCEPT ![o] = "pending"]
    /\ UNCHANGED <<catalogue, sub, events, items, now, at, locals, locks, bounds>>

ClosePurchase(o) ==
    /\ OrderFree(o)
    /\ order[o] = "pending"
    /\ order' = [order EXCEPT ![o] = "closed"]
    /\ UNCHANGED <<catalogue, sub, events, items, now, at, locals, locks, bounds>>

\* MarkPurchasePaid: a paid order is confirmed again, a closed one refused.
PayBegin(c, o, payTime) ==
    /\ at[c] = "idle"
    /\ OrderFree(o)
    /\ order[o] = "pending"
    /\ orderLock' = [orderLock EXCEPT ![o] = c]
    /\ Goto(c, "order")
    /\ tenant' = [tenant EXCEPT ![c] = Asked[o].tenant]
    /\ pays' = [pays EXCEPT ![c] = o]
    /\ to' = [to EXCEPT ![c] = Asked[o].plan]
    /\ from' = [from EXCEPT ![c] = payTime]
    /\ UNCHANGED <<catalogue, tables, now, until, key, used, seen, subLock, gap, bounds>>

\* Mutant: an early renewal does not count what is left.
RenewsNever(s, p, payTime) == FALSE

Renews(s, p, payTime) ==
    s # None /\ s.plan = p /\ s.expire # Permanent /\ s.expire > payTime

\* nextWindowTx
NextWindow(c) ==
    /\ at[c] = "order"
    /\ LockSub(c, tenant[c])
    /\ LET s     == sub[tenant[c]]
           start == IF Renews(s, to[c], from[c]) THEN s.expire ELSE from[c]
       IN  /\ from' = [from EXCEPT ![c] = start]
           /\ until' = [until EXCEPT ![c] = start + Length[Asked[pays[c]].cycle]]
    /\ Goto(c, "upsert")
    /\ UNCHANGED <<catalogue, tables, now, tenant, pays, to, key, used, seen, orderLock, bounds>>

(* upsertSubscriptionTx, the last writes of the transaction, and its       *)
(* commit.  Inserting waits for the other holders of the gap.              *)
Upsert(c) ==
    /\ at[c] = "upsert"
    /\ sub[tenant[c]] = None => gap[tenant[c]] \subseteq {c}
    /\ sub' = [sub EXCEPT ![tenant[c]] =
                  [plan |-> to[c], start |-> from[c], expire |-> until[c]]]
    /\ order' = IF pays[c] = None THEN order ELSE [order EXCEPT ![pays[c]] = "paid"]
    /\ End(c)
    /\ UNCHANGED <<catalogue, events, items, now, bounds>>

\* Two clients wait for each other's gap: the database aborts one of them.
Deadlock(c) ==
    /\ at[c] = "upsert"
    /\ sub[tenant[c]] = None
    /\ \E d \in gap[tenant[c]] \ {c} : at[d] = "upsert"
    /\ RollBack(c)
    /\ UNCHANGED aborts

-----------------------------------------------------------------------------
(* Assignments *)

\* Assign, or AssignWithExpiry: the plan must be enabled when it is read, and
\* the clock is read before the wait for the lock.
AssignBegin(c, t, p, stage, expireAt) ==
    /\ at[c] = "idle"
    /\ assigns < MaxAssigns
    /\ assigns' = assigns + 1
    /\ status[p] = "on"
    /\ Goto(c, stage)
    /\ tenant' = [tenant EXCEPT ![c] = t]
    /\ to' = [to EXCEPT ![c] = p]
    /\ until' = [until EXCEPT ![c] = expireAt]
    /\ from' = [from EXCEPT ![c] = now]
    /\ UNCHANGED <<catalogue, tables, now, pays, key, used, seen, locks, edits, aborts>>

\* A subscription of the same plan that ran at that time keeps its start; Assign
\* takes a new one.
AssignLock(c) ==
    /\ at[c] \in {"assign", "assignUntil"}
    /\ LockSub(c, tenant[c])
    /\ LET s     == sub[tenant[c]]
           keeps == /\ at[c] = "assignUntil"
                    /\ s # None
                    /\ s.plan = to[c]
                    /\ s.expire = Permanent \/ s.expire > from[c]
       IN  from' = [from EXCEPT ![c] = IF keeps THEN s.start ELSE @]
    /\ Goto(c, "upsert")
    /\ UNCHANGED <<catalogue, tables, now, tenant, pays, to, until, key, used, seen,
                   orderLock, bounds>>

Revoke(t) ==
    /\ assigns < MaxAssigns
    /\ sub[t] # None
    /\ SubFree(t)
    /\ sub' = [sub EXCEPT ![t] = None]
    /\ assigns' = assigns + 1
    /\ UNCHANGED <<catalogue, order, events, items, now, at, locals, locks, edits, aborts>>

-----------------------------------------------------------------------------
(* Quotas *)

UsedIn(t, month) == Cardinality({e \in events : e.tenant = t /\ e.month = month})

\* Mutant: one too many.
WithinLimitOrAt(quota, p, n) == quota[p] # None /\ n <= quota[p]

\* enforceCountEnt
WithinLimit(quota, p, n) == quota[p] # None /\ n < quota[p]

\* ConsumeMonthly locks the subscription first; without one it fails.
ConsumeLock(c, t) ==
    /\ at[c] = "idle"
    /\ sub[t] # None
    /\ LockSub(c, t)
    /\ tenant' = [tenant EXCEPT ![c] = t]
    /\ to' = [to EXCEPT ![c] = sub[t].plan]
    /\ Goto(c, "consume")
    /\ UNCHANGED <<catalogue, tables, now, pays, from, until, key, used, seen, orderLock, bounds>>

\* Mutant: no look for an event of the same source.
RecordedNever(t, k) == FALSE

\* An event of the source was recorded in some month.
Recorded(t, k) == k # NoKey /\ \E e \in events : e.tenant = t /\ e.key = k

\* The source is new and the plan's quota is not used up: the event is
\* inserted with the time that was read before the count.
Consume(c, k) ==
    /\ at[c] = "consume"
    /\ ~Recorded(tenant[c], k)
    /\ WithinLimit(limit, to[c], UsedIn(tenant[c], MonthOf(now)))
    /\ from' = [from EXCEPT ![c] = now]
    /\ key' = [key EXCEPT ![c] = k]
    /\ Goto(c, "record")
    /\ UNCHANGED <<catalogue, tables, now, tenant, pays, to, until, used, seen, locks, bounds>>

ConsumeNothing(c, k) ==
    /\ at[c] = "consume"
    /\ \/ Recorded(tenant[c], k)
       \/ ~WithinLimit(limit, to[c], UsedIn(tenant[c], MonthOf(now)))
    /\ RollBack(c)
    /\ UNCHANGED aborts

\* A new row: events without a key may have the same tenant and month.
NewEvent(t, k, month) ==
    [tenant |-> t, key |-> k, month |-> month,
     number |-> Cardinality({e \in events : e.tenant = t /\ e.key = k /\ e.month = month})]

Record(c) ==
    /\ at[c] = "record"
    /\ events' = events \cup {NewEvent(tenant[c], key[c], MonthOf(from[c]))}
    /\ End(c)
    /\ UNCHANGED <<catalogue, sub, order, items, now, bounds>>

(* A business transaction counts its rows and hands the number to          *)
(* EnforceCountTx, which locks the subscription.  Its plain reads see the  *)
(* snapshot of the first one.                                              *)
CountItems(c, t) ==
    /\ at[c] = "idle"
    /\ Goto(c, "counted")
    /\ tenant' = [tenant EXCEPT ![c] = t]
    /\ used' = [used EXCEPT ![c] = items[t]]
    /\ seen' = [seen EXCEPT ![c] = limit]
    /\ UNCHANGED <<catalogue, tables, now, pays, to, from, until, key, locks, bounds>>

Allowed(c) ==
    /\ sub[tenant[c]] # None
    /\ WithinLimit(seen[c], sub[tenant[c]].plan, used[c])

EnforceCountTx(c) ==
    /\ at[c] = "counted"
    /\ Allowed(c)
    /\ LockSub(c, tenant[c])
    /\ Goto(c, "allowed")
    /\ UNCHANGED <<catalogue, tables, now, locals, orderLock, bounds>>

Refuse(c) ==
    /\ at[c] = "counted"
    /\ SubFree(tenant[c])
    /\ ~Allowed(c)
    /\ RollBack(c)
    /\ UNCHANGED aborts

AddItem(c) ==
    /\ at[c] = "allowed"
    /\ items' = [items EXCEPT ![tenant[c]] = @ + 1]
    /\ End(c)
    /\ UNCHANGED <<catalogue, sub, order, events, now, bounds>>

-----------------------------------------------------------------------------
Tick ==
    /\ now < Horizon
    /\ now' = now + 1
    /\ UNCHANGED <<catalogue, tables, at, locals, locks, bounds>>

Catalogue ==
    \/ \E p \in Plans, n \in Limits \cup {None} : CreatePlan(p, n)
    \/ \E p \in Plans, s \in {"on", "off"}, n \in Limits \cup {None} : UpdatePlan(p, s, n)
    \/ SeedPlans

\* A client calls an operation of the engine.
Call(c) ==
    \/ \E o \in Orders, payTime \in 1..now : PayBegin(c, o, payTime)
    \/ \E t \in Tenants, p \in Plans : AssignBegin(c, t, p, "assign", Permanent)
    \/ \E t \in Tenants, p \in Plans, x \in Expiries : AssignBegin(c, t, p, "assignUntil",
        x)
    \/ \E t \in Tenants : ConsumeLock(c, t)
    \/ \E t \in Tenants : CountItems(c, t)

\* The next statement of a transaction.
Step(c) ==
    \/ NextWindow(c)
    \/ AssignLock(c)
    \/ Upsert(c)
    \/ Deadlock(c)
    \/ \E k \in Keys : Consume(c, k) \/ ConsumeNothing(c, k)
    \/ Record(c)
    \/ EnforceCountTx(c)
    \/ Refuse(c)
    \/ AddItem(c)

Next ==
    \/ Catalogue
    \/ \E o \in Orders : CreatePurchase(o) \/ ClosePurchase(o)
    \/ \E t \in Tenants : Revoke(t)
    \/ \E c \in Clients : Call(c) \/ Step(c) \/ Abort(c)
    \/ Tick

Spec == Init /\ [][Next]_vars

-----------------------------------------------------------------------------
(* Properties *)

HighestLimit == Max(Limits)

\* ConsumeMonthly never records more in a calendar month than the largest
\* quota, however many clients consume at once (engine.go:527).
MonthlyQuotaHolds ==
    \A t \in Tenants, month \in Months : UsedIn(t, month) <= HighestLimit

\* A source with a key is recorded once per tenant, although no unique key of
\* the table says so (engine.go:527).
RecordedOnce ==
    \A e, f \in events :
        e.key # NoKey /\ f.key = e.key /\ f.tenant = e.tenant => f = e

\* A paid order is not closed, a closed one never activates anything: callback
\* and closing race for the order's row.
OrderIsFinal ==
    [][\A o \in Orders : order[o] \in {"paid", "closed"} => order'[o] = order[o]]_vars

\* A renewal that is paid while the subscription runs adds its whole period to
\* what is left, whatever other payments and assignments run (plan.go:234).
PaidTimeIsAdded ==
    [][\A o \in Orders : order[o] # "paid" /\ order'[o] = "paid" =>
          LET a == Asked[o]  s == sub[a.tenant]  r == sub'[a.tenant]
          IN  /\ r # None
              /\ r.plan = a.plan
              /\ s # None /\ s.plan = a.plan /\ s.expire >= now
                 => r.expire = s.expire + Length[a.cycle]]_vars

\* EnforceCountTx is said to keep concurrent transactions from passing a quota
\* (plan.go:244, engine.go:508), and does not: the caller counts in the same
\* transaction before the lock is taken, and whoever waited for the lock compares
\* a count that is out of date by then.  What holds is a bound on the overrun: the
\* other clients that had counted already.
OverrunIsBounded ==
    \A t \in Tenants : items[t] <= HighestLimit + Cardinality(Clients) - 1

\* Clients never all wait for each other's orders, subscriptions and gaps.
SomebodyGoesOn ==
    (\E c \in Clients : at[c] # "idle") => \E c \in Clients : ENABLED Step(c)
=============================================================================
