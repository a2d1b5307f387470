---------------------------- MODULE PlanProofs ----------------------------
(***************************************************************************)
(* The row locks of PlanEngine make payments exact, for any number of      *)
(* clients, tenants and orders: an order is paid or closed once, and the   *)
(* period it pays for is added in full to what is left of the plan.        *)
(***************************************************************************)
EXTENDS PlanEngine, FiniteSetTheorems, TLAPS

\* The types of what locks protect and of what transactions remember.
Typed ==
    /\ sub \in [Tenants -> Sub \cup {None}]
    /\ order \in [Orders -> {"absent", "pending", "paid", "closed"}]
    /\ now \in Nat \ {0}
    /\ at \in [Clients -> Stages]
    /\ tenant \in [Clients -> Tenants \cup {None}]
    /\ pays \in [Clients -> Orders \cup {None}]
    /\ to \in [Clients -> Plans \cup {None}]
    /\ from \in [Clients -> Nat]
    /\ until \in [Clients -> Nat]
    /\ orderLock \in [Orders -> Clients \cup {None}]
    /\ subLock \in [Tenants -> Clients \cup {None}]
    /\ gap \in [Tenants -> SUBSET Clients]

\* A client that pays an order holds its lock, and the order is still pending.
OrderInv ==
    \A c \in Clients : pays[c] # None =>
        /\ orderLock[pays[c]] = c
        /\ order[pays[c]] = "pending"
        /\ tenant[c] = Asked[pays[c]].tenant
        /\ to[c] = Asked[pays[c]].plan

\* Which transactions pay, and which know their tenant and plan.
StageInv ==
    \A c \in Clients :
        /\ at[c] = "idle" => pays[c] = None
        /\ at[c] = "order" => pays[c] # None /\ from[c] <= now
        /\ at[c] \in {"assign", "assignUntil"} => pays[c] = None
        /\ at[c] # "idle" => tenant[c] \in Tenants
        /\ at[c] \in {"order", "assign", "assignUntil", "upsert", "consume"} => to[c] \in Plans

\* Before it writes a subscription, a client locks the row or, where there is
\* none, shares the gap.
LockInv ==
    \A c \in Clients : at[c] = "upsert" =>
        IF sub[tenant[c]] = None THEN c \in gap[tenant[c]] ELSE subLock[tenant[c]] = c

\* The period computed under the lock still continues the subscription.
WindowInv ==
    \A c \in Clients : at[c] = "upsert" /\ pays[c] # None =>
        /\ until[c] = from[c] + Length[Asked[pays[c]].cycle]
        /\ /\ sub[tenant[c]] # None
           /\ sub[tenant[c]].plan = to[c]
           /\ sub[tenant[c]].expire >= now
           => from[c] = sub[tenant[c]].expire

IInv == Typed /\ OrderInv /\ StageInv /\ LockInv /\ WindowInv

-----------------------------------------------------------------------------
LEMMA NoneFacts ==
    /\ None \notin Tenants /\ None \notin Plans /\ None \notin Orders /\ None \notin Clients
    /\ None \notin Sub
BY NoneAssumption

LEMMA InvInit == Init => IInv
<1> SUFFICES ASSUME Init PROVE IInv
  OBVIOUS
<1>1. Typed
  <2>1. now \in Nat \ {0} /\ 0 \in Nat
    BY DEF Init
  <2>2. /\ sub \in [Tenants -> Sub \cup {None}]
        /\ order \in [Orders -> {"absent", "pending", "paid", "closed"}]
        /\ orderLock \in [Orders -> Clients \cup {None}]
        /\ subLock \in [Tenants -> Clients \cup {None}]
        /\ gap \in [Tenants -> SUBSET Clients]
    BY DEF Init
  <2>3. /\ at \in [Clients -> Stages]
        /\ tenant \in [Clients -> Tenants \cup {None}]
        /\ pays \in [Clients -> Orders \cup {None}]
        /\ to \in [Clients -> Plans \cup {None}]
        /\ from \in [Clients -> Nat]
        /\ until \in [Clients -> Nat]
    BY <2>1 DEF Init, Stages
  <2> QED
    BY <2>1, <2>2, <2>3 DEF Typed
<1>2. OrderInv /\ StageInv /\ LockInv /\ WindowInv
  BY DEF Init, OrderInv, StageInv, LockInv, WindowInv
<1> QED
  BY <1>1, <1>2 DEF IInv

-----------------------------------------------------------------------------
(* Locks and the end of transactions *)

\* What the end of a transaction does, client by client and row by row.
Ended(c) ==
    /\ at' \in [Clients -> Stages]
    /\ tenant' \in [Clients -> Tenants \cup {None}]
    /\ pays' \in [Clients -> Orders \cup {None}]
    /\ to' \in [Clients -> Plans \cup {None}]
    /\ from' \in [Clients -> Nat]
    /\ until' \in [Clients -> Nat]
    /\ orderLock' \in [Orders -> Clients \cup {None}]
    /\ subLock' \in [Tenants -> Clients \cup {None}]
    /\ gap' \in [Tenants -> SUBSET Clients]
    /\ at'[c] = "idle" /\ pays'[c] = None
    /\ \A d \in Clients \ {c} :
          /\ at'[d] = at[d] /\ tenant'[d] = tenant[d] /\ pays'[d] = pays[d]
          /\ to'[d] = to[d] /\ from'[d] = from[d] /\ until'[d] = until[d]
    /\ \A o \in Orders : orderLock[o] # c => orderLock'[o] = orderLock[o]
    /\ \A t \in Tenants :
          /\ subLock[t] # c => subLock'[t] = subLock[t]
          /\ gap'[t] = gap[t] \ {c}

LEMMA EndEffect ==
    ASSUME Typed, NEW c \in Clients, End(c)
    PROVE  Ended(c)
<1>1. /\ at' = [at EXCEPT ![c] = "idle"] /\ at \in [Clients -> Stages] /\ "idle" \in Stages
      /\ tenant' = [tenant EXCEPT ![c] = None] /\ tenant \in [Clients -> Tenants \cup {None}]
      /\ pays' = [pays EXCEPT ![c] = None] /\ pays \in [Clients -> Orders \cup {None}]
  BY DEF End, Goto, Typed, Stages
<1>2. /\ to' = [to EXCEPT ![c] = None] /\ to \in [Clients -> Plans \cup {None}]
      /\ from' = [from EXCEPT ![c] = 0] /\ from \in [Clients -> Nat]
      /\ until' = [until EXCEPT ![c] = 0] /\ until \in [Clients -> Nat]
  BY DEF End, Typed
<1>3. /\ orderLock' = [o \in Orders |-> IF orderLock[o] = c THEN None ELSE orderLock[o]]
      /\ subLock' = [t \in Tenants |-> IF subLock[t] = c THEN None ELSE subLock[t]]
      /\ gap' = [t \in Tenants |-> gap[t] \ {c}]
      /\ orderLock \in [Orders -> Clients \cup {None}]
      /\ subLock \in [Tenants -> Clients \cup {None}]
      /\ gap \in [Tenants -> SUBSET Clients]
  BY DEF End, Released, Typed
<1>4. /\ orderLock' \in [Orders -> Clients \cup {None}]
      /\ subLock' \in [Tenants -> Clients \cup {None}]
      /\ gap' \in [Tenants -> SUBSET Clients]
      /\ \A o \in Orders : orderLock[o] # c => orderLock'[o] = orderLock[o]
      /\ \A t \in Tenants :
            /\ subLock[t] # c => subLock'[t] = subLock[t]
            /\ gap'[t] = gap[t] \ {c}
  BY ONLY <1>3
<1>5. /\ at' \in [Clients -> Stages]
      /\ tenant' \in [Clients -> Tenants \cup {None}]
      /\ pays' \in [Clients -> Orders \cup {None}]
      /\ at'[c] = "idle" /\ pays'[c] = None
      /\ \A d \in Clients \ {c} :
            at'[d] = at[d] /\ tenant'[d] = tenant[d] /\ pays'[d] = pays[d]
  BY ONLY <1>1
<1>6. /\ to' \in [Clients -> Plans \cup {None}]
      /\ from' \in [Clients -> Nat]
      /\ until' \in [Clients -> Nat]
      /\ \A d \in Clients \ {c} :
            to'[d] = to[d] /\ from'[d] = from[d] /\ until'[d] = until[d]
  BY ONLY <1>2
<1> QED
  BY ONLY <1>4, <1>5, <1>6 DEF Ended

\* Ending a transaction without writing keeps the invariant.
LEMMA RollBackKeeps ==
    ASSUME IInv, NEW c \in Clients, End(c), UNCHANGED <<sub, order, now>>
    PROVE  IInv'
<1>1. Ended(c)
  BY EndEffect DEF IInv
<1>2. Typed'
  BY <1>1 DEF IInv, Typed, Ended
<1>3. OrderInv'
  BY <1>1 DEF IInv, OrderInv, Ended, Typed
<1>4. StageInv'
  BY <1>1 DEF IInv, StageInv, Ended
<1>5. LockInv'
  <2> SUFFICES ASSUME NEW d \in Clients, at'[d] = "upsert"
               PROVE  IF sub'[tenant'[d]] = None THEN d \in gap'[tenant'[d]]
                                                 ELSE subLock'[tenant'[d]] = d
    BY DEF LockInv
  <2>1. d # c /\ at[d] = "upsert" /\ tenant'[d] = tenant[d] /\ tenant[d] \in Tenants
    BY <1>1 DEF IInv, Ended, StageInv
  <2> QED
    BY <1>1, <2>1 DEF IInv, LockInv, Ended
<1>6. WindowInv'
  BY <1>1 DEF IInv, WindowInv, Ended
<1> QED
  BY <1>2, <1>3, <1>4, <1>5, <1>6 DEF IInv

-----------------------------------------------------------------------------
(* The inductive step *)

LEMMA InvStep == IInv /\ [Next]_vars => IInv'
<1> SUFFICES ASSUME IInv, [Next]_vars PROVE IInv'
  OBVIOUS
<1>1. ASSUME Catalogue PROVE IInv'
  <2>1. UNCHANGED <<tables, now, at, locals, locks>>
    BY <1>1 DEF Catalogue, CreatePlan, UpdatePlan, SeedPlans
  <2> QED
    BY <2>1 DEF tables, locals, locks, IInv, Typed, OrderInv, StageInv, LockInv, WindowInv
<1>2. ASSUME NEW o \in Orders, CreatePurchase(o) PROVE IInv'
  <2>1. Typed'
    BY <1>2 DEF CreatePurchase, locals, locks, IInv, Typed
  <2>2. OrderInv'
    BY <1>2 DEF CreatePurchase, locals, locks, IInv, OrderInv
  <2>3. StageInv'
    BY <1>2 DEF CreatePurchase, locals, IInv, StageInv
  <2>4. LockInv'
    BY <1>2 DEF CreatePurchase, locals, locks, IInv, LockInv
  <2>5. WindowInv'
    BY <1>2 DEF CreatePurchase, locals, IInv, WindowInv
  <2> QED
    BY <2>1, <2>2, <2>3, <2>4, <2>5 DEF IInv
<1>3. ASSUME NEW o \in Orders, ClosePurchase(o) PROVE IInv'
  <2>1. Typed'
    BY <1>3 DEF ClosePurchase, locals, locks, IInv, Typed
  <2>2. OrderInv'
    BY <1>3, NoneFacts DEF ClosePurchase, OrderFree, locals, locks, IInv, OrderInv
  <2>3. StageInv'
    BY <1>3 DEF ClosePurchase, locals, IInv, StageInv
  <2>4. LockInv'
    BY <1>3 DEF ClosePurchase, locals, locks, IInv, LockInv
  <2>5. WindowInv'
    BY <1>3 DEF ClosePurchase, locals, IInv, WindowInv
  <2> QED
    BY <2>1, <2>2, <2>3, <2>4, <2>5 DEF IInv
<1>4. ASSUME NEW t \in Tenants, Revoke(t) PROVE IInv'
  <2>1. Typed'
    BY <1>4 DEF Revoke, locals, locks, IInv, Typed
  <2>2. OrderInv'
    BY <1>4 DEF Revoke, locals, locks, IInv, OrderInv
  <2>3. StageInv'
    BY <1>4 DEF Revoke, locals, IInv, StageInv
  <2>4. LockInv'
    BY <1>4, NoneFacts DEF Revoke, SubFree, locals, locks, IInv, LockInv
  <2>5. WindowInv'
    BY <1>4 DEF Revoke, locals, IInv, WindowInv
  <2> QED
    BY <2>1, <2>2, <2>3, <2>4, <2>5 DEF IInv
<1>5. ASSUME NEW c \in Clients, NEW o \in Orders, NEW p \in 1..now, PayBegin(c, o, p)
      PROVE  IInv'
  <2>1. Typed'
    BY <1>5, OrdersAssumption DEF PayBegin, Goto, tables, Stages, IInv, Typed
  <2>2. OrderInv'
    BY <1>5, NoneFacts DEF PayBegin, OrderFree, tables, IInv, Typed, OrderInv
  <2>3. StageInv'
    BY <1>5, NoneFacts, OrdersAssumption DEF PayBegin, Goto, IInv, Typed, StageInv
  <2>4. LockInv'
    BY <1>5 DEF PayBegin, Goto, tables, IInv, LockInv
  <2>5. WindowInv'
    BY <1>5 DEF PayBegin, Goto, tables, IInv, WindowInv
  <2> QED
    BY <2>1, <2>2, <2>3, <2>4, <2>5 DEF IInv
<1>6. ASSUME NEW c \in Clients, NextWindow(c) PROVE IInv'
  <2>1. tenant[c] \in Tenants /\ c \notin {None}
    BY <1>6, NoneFacts DEF NextWindow, StageInv, IInv
  <2>2. /\ subLock' \in [Tenants -> Clients \cup {None}]
        /\ gap' \in [Tenants -> SUBSET Clients]
        /\ \A t \in Tenants : /\ subLock[t] \in Clients => subLock'[t] = subLock[t]
                              /\ gap[t] \subseteq gap'[t]
        /\ IF sub[tenant[c]] = None THEN c \in gap'[tenant[c]] ELSE subLock'[tenant[c]] = c
    <3>1. LockSub(c, tenant[c]) /\ subLock \in [Tenants -> Clients \cup {None}]
          /\ gap \in [Tenants -> SUBSET Clients]
      BY <1>6 DEF NextWindow, IInv, Typed
    <3> QED
      BY ONLY <2>1, <3>1, NoneFacts, c \in Clients DEF LockSub, SubFree
  <2>3. pays[c] \in Orders /\ from[c] \in Nat /\ from[c] <= now /\ to[c] \in Plans
    BY <1>6, NoneFacts DEF NextWindow, IInv, StageInv, Typed
  <2> DEFINE s == sub[tenant[c]]
             start == IF Renews(s, to[c], from[c]) THEN s.expire ELSE from[c]
             length == Length[Asked[pays[c]].cycle]
  <2>4. s # None => s.expire \in Nat /\ s.plan \in Plans
    BY <2>1 DEF IInv, Typed, Sub
  <2>5. start \in Nat /\ length \in Nat /\ start + length \in Nat
    <3>1. length \in Nat
      BY <2>3, TimeAssumption
    <3>2. start \in Nat
      BY <2>3, <2>4 DEF Renews
    <3> QED
      BY ONLY <3>1, <3>2
  <2>6. /\ from' = [from EXCEPT ![c] = start]
        /\ until' = [until EXCEPT ![c] = start + length]
        /\ at' = [at EXCEPT ![c] = "upsert"]
        /\ UNCHANGED <<sub, order, now, tenant, pays, to, orderLock>>
    BY <1>6 DEF NextWindow, Goto, tables
  <2>7. /\ from' \in [Clients -> Nat] /\ until' \in [Clients -> Nat]
        /\ at' \in [Clients -> Stages]
        /\ from'[c] = start /\ until'[c] = start + length /\ at'[c] = "upsert"
        /\ \A d \in Clients \ {c} : from'[d] = from[d] /\ until'[d] = until[d] /\ at'[d] = at[d]
    <3>1. /\ from \in [Clients -> Nat] /\ until \in [Clients -> Nat]
          /\ at \in [Clients -> Stages] /\ "upsert" \in Stages
      BY DEF IInv, Typed, Stages
    <3> HIDE DEF start, length
    <3> QED
      BY ONLY <2>5, <2>6, <3>1, c \in Clients
  <2> HIDE DEF start, length, s
  <2>8. Typed'
    BY <2>2, <2>6, <2>7 DEF IInv, Typed
  <2>9. OrderInv'
    BY <2>6 DEF IInv, OrderInv
  <2>10. StageInv'
    <3> SUFFICES ASSUME NEW d \in Clients
                 PROVE  /\ at'[d] = "idle" => pays'[d] = None
                        /\ at'[d] = "order" => pays'[d] # None /\ from'[d] <= now'
                        /\ at'[d] \in {"assign", "assignUntil"} => pays'[d] = None
                        /\ at'[d] # "idle" => tenant'[d] \in Tenants
                        /\ at'[d] \in {"order", "assign", "assignUntil", "upsert", "consume"}
                           => to'[d] \in Plans
      BY DEF StageInv
    <3>1. CASE d = c
      BY <2>1, <2>3, <2>6, <2>7, <3>1
    <3>2. CASE d # c
      BY <2>6, <2>7, <3>2 DEF IInv, StageInv
    <3> QED
      BY <3>1, <3>2
  <2>11. LockInv'
    <3> SUFFICES ASSUME NEW d \in Clients, at'[d] = "upsert"
                 PROVE  IF sub'[tenant'[d]] = None THEN d \in gap'[tenant'[d]]
                                                   ELSE subLock'[tenant'[d]] = d
      BY DEF LockInv
    <3>1. CASE d = c
      BY <2>2, <2>6, <3>1
    <3>2. CASE d # c
      BY <2>2, <2>6, <2>7, <3>2 DEF IInv, LockInv, StageInv
    <3> QED
      BY <3>1, <3>2
  <2>12. WindowInv'
    <3> SUFFICES ASSUME NEW d \in Clients, at'[d] = "upsert", pays'[d] # None
                 PROVE  /\ until'[d] = from'[d] + Length[Asked[pays'[d]].cycle]
                        /\ /\ sub'[tenant'[d]] # None
                           /\ sub'[tenant'[d]].plan = to'[d]
                           /\ sub'[tenant'[d]].expire >= now'
                           => from'[d] = sub'[tenant'[d]].expire
      BY DEF WindowInv
    <3>1. CASE d = c
      <4>1. s # None /\ s.plan = to[c] /\ s.expire >= now => start = s.expire
        <5> SUFFICES ASSUME s # None, s.plan = to[c], s.expire >= now
                     PROVE  start = s.expire
          OBVIOUS
        <5>1. now \in Nat /\ now # 0
          BY DEF IInv, Typed
        <5> QED
          BY ONLY <2>3, <2>4, <5>1, s # None, s.plan = to[c], s.expire >= now
          DEF start, Renews, Permanent
      <4> QED
        BY <2>6, <2>7, <3>1, <4>1 DEF s, length
    <3>2. CASE d # c
      BY <2>6, <2>7, <3>2 DEF IInv, WindowInv
    <3> QED
      BY <3>1, <3>2
  <2> QED
    BY <2>8, <2>9, <2>10, <2>11, <2>12 DEF IInv
<1>7. ASSUME NEW c \in Clients, Upsert(c) PROVE IInv'
  <2> DEFINE t == tenant[c]
             new == [plan |-> to[c], start |-> from[c], expire |-> until[c]]
  <2>1. Ended(c)
    BY <1>7, EndEffect DEF Upsert, IInv
  <2>2. t \in Tenants /\ new \in Sub /\ new # None
    <3>1. t \in Tenants /\ to[c] \in Plans /\ from[c] \in Nat /\ until[c] \in Nat
      BY <1>7 DEF Upsert, IInv, StageInv, Typed
    <3>2. new \in Sub
      BY ONLY <3>1 DEF Sub
    <3> HIDE DEF new
    <3> QED
      BY <3>1, <3>2, NoneFacts
  <2>3. /\ sub' = [sub EXCEPT ![t] = new]
        /\ order' = IF pays[c] = None THEN order ELSE [order EXCEPT ![pays[c]] = "paid"]
        /\ now' = now
        /\ sub[t] = None => gap[t] \subseteq {c}
    BY <1>7 DEF Upsert
  <2> HIDE DEF new, t
  <2>4. /\ sub' \in [Tenants -> Sub \cup {None}] /\ sub'[t] # None
        /\ \A u \in Tenants \ {t} : sub'[u] = sub[u]
    <3>1. sub \in [Tenants -> Sub \cup {None}]
      BY DEF IInv, Typed
    <3> QED
      BY ONLY <2>2, <2>3, <3>1
  <2>5. /\ order' \in [Orders -> {"absent", "pending", "paid", "closed"}]
        /\ \A o \in Orders : o # pays[c] => order'[o] = order[o]
    <3>1. order \in [Orders -> {"absent", "pending", "paid", "closed"}]
      BY DEF IInv, Typed
    <3> QED
      BY ONLY <2>3, <3>1
  <2>6. Typed'
    BY <2>1, <2>3, <2>4, <2>5 DEF IInv, Typed, Ended
  <2>7. OrderInv'
    <3> SUFFICES ASSUME NEW d \in Clients, pays'[d] # None
                 PROVE  /\ orderLock'[pays'[d]] = d
                        /\ order'[pays'[d]] = "pending"
                        /\ tenant'[d] = Asked[pays'[d]].tenant
                        /\ to'[d] = Asked[pays'[d]].plan
      BY DEF OrderInv
    <3>1. d # c /\ pays'[d] = pays[d] /\ tenant'[d] = tenant[d] /\ to'[d] = to[d]
      BY <2>1 DEF Ended
    <3>2. pays[d] \in Orders /\ orderLock[pays[d]] = d /\ order[pays[d]] = "pending"
      BY <3>1 DEF IInv, Typed, OrderInv
    <3>3. pays[d] # pays[c]
      BY <3>1, <3>2 DEF IInv, OrderInv
    <3>4. orderLock'[pays[d]] = d
      BY <2>1, <3>1, <3>2 DEF Ended
    <3> QED
      BY <2>5, <3>1, <3>2, <3>3, <3>4 DEF IInv, OrderInv
  <2>8. StageInv'
    BY <2>1, <2>3 DEF IInv, StageInv, Ended
  <2>9. ASSUME NEW d \in Clients, at'[d] = "upsert"
        PROVE  /\ d # c /\ at[d] = "upsert" /\ tenant[d] \in Tenants \ {t}
               /\ tenant'[d] = tenant[d] /\ pays'[d] = pays[d] /\ to'[d] = to[d]
               /\ from'[d] = from[d] /\ until'[d] = until[d]
    <3>1. d # c
      BY <2>1, <2>9 DEF Ended
    <3>2. /\ at[d] = "upsert"
          /\ tenant'[d] = tenant[d] /\ pays'[d] = pays[d] /\ to'[d] = to[d]
          /\ from'[d] = from[d] /\ until'[d] = until[d]
      BY <2>1, <2>9, <3>1 DEF Ended
    <3>3. tenant[d] # t
      <4>1. IF sub[tenant[d]] = None THEN d \in gap[tenant[d]] ELSE subLock[tenant[d]] = d
        BY <3>2 DEF IInv, LockInv
      <4>2. IF sub[t] = None THEN c \in gap[t] ELSE subLock[t] = c
        BY <1>7 DEF Upsert, IInv, LockInv, t
      <4> QED
        BY <2>3, <3>1, <4>1, <4>2
    <3> QED
      BY <3>1, <3>2, <3>3 DEF IInv, StageInv
  <2>10. LockInv'
    <3> SUFFICES ASSUME NEW d \in Clients, at'[d] = "upsert"
                 PROVE  IF sub'[tenant'[d]] = None THEN d \in gap'[tenant'[d]]
                                                   ELSE subLock'[tenant'[d]] = d
      BY DEF LockInv
    <3>1. IF sub[tenant[d]] = None THEN d \in gap[tenant[d]] ELSE subLock[tenant[d]] = d
      BY <2>9 DEF IInv, LockInv
    <3> QED
      BY <2>1, <2>4, <2>9, <3>1 DEF Ended
  <2>11. WindowInv'
    BY <2>3, <2>4, <2>9 DEF IInv, WindowInv
  <2> QED
    BY <2>6, <2>7, <2>8, <2>10, <2>11 DEF IInv
<1>8. ASSUME NEW c \in Clients, Deadlock(c) PROVE IInv'
  BY <1>8, RollBackKeeps DEF Deadlock, RollBack, tables
<1>9. ASSUME NEW c \in Clients, NEW t \in Tenants, NEW p \in Plans,
           NEW stage \in {"assign", "assignUntil"}, NEW x \in Nat,
           AssignBegin(c, t, p, stage, x)
      PROVE  IInv'
  <2>1. Typed'
    BY <1>9 DEF AssignBegin, Goto, tables, locks, Stages, IInv, Typed
  <2>2. OrderInv'
    BY <1>9 DEF AssignBegin, tables, locks, IInv, OrderInv, StageInv
  <2>3. StageInv'
    BY <1>9 DEF AssignBegin, Goto, IInv, Typed, StageInv
  <2>4. LockInv'
    BY <1>9 DEF AssignBegin, Goto, tables, locks, IInv, LockInv
  <2>5. WindowInv'
    BY <1>9 DEF AssignBegin, Goto, tables, IInv, WindowInv
  <2> QED
    BY <2>1, <2>2, <2>3, <2>4, <2>5 DEF IInv
<1>10. ASSUME NEW c \in Clients, AssignLock(c) PROVE IInv'
  <2>1. tenant[c] \in Tenants /\ c \notin {None}
    BY <1>10, NoneFacts DEF AssignLock, StageInv, IInv
  <2>2. /\ subLock' \in [Tenants -> Clients \cup {None}]
        /\ gap' \in [Tenants -> SUBSET Clients]
        /\ \A t \in Tenants : /\ subLock[t] \in Clients => subLock'[t] = subLock[t]
                              /\ gap[t] \subseteq gap'[t]
        /\ IF sub[tenant[c]] = None THEN c \in gap'[tenant[c]] ELSE subLock'[tenant[c]] = c
    <3>1. LockSub(c, tenant[c]) /\ subLock \in [Tenants -> Clients \cup {None}]
          /\ gap \in [Tenants -> SUBSET Clients]
      BY <1>10 DEF AssignLock, IInv, Typed
    <3> QED
      BY ONLY <2>1, <3>1, NoneFacts, c \in Clients DEF LockSub, SubFree
  <2>3. pays[c] = None /\ to[c] \in Plans
    BY <1>10 DEF AssignLock, IInv, StageInv
  <2>4. /\ \E n \in Nat : from' = [from EXCEPT ![c] = n]
        /\ at' = [at EXCEPT ![c] = "upsert"]
        /\ UNCHANGED <<sub, order, now, tenant, pays, to, until, orderLock>>
    <3>1. from \in [Clients -> Nat] /\ (sub[tenant[c]] # None => sub[tenant[c]].start \in Nat)
      BY <2>1 DEF IInv, Typed, Sub
    <3> QED
      BY <1>10, <3>1 DEF AssignLock, Goto, tables
  <2>5. /\ from' \in [Clients -> Nat] /\ at' \in [Clients -> Stages] /\ at'[c] = "upsert"
        /\ \A d \in Clients \ {c} : from'[d] = from[d] /\ at'[d] = at[d]
    <3>1. from \in [Clients -> Nat] /\ at \in [Clients -> Stages] /\ "upsert" \in Stages
      BY DEF IInv, Typed, Stages
    <3> QED
      BY ONLY <2>4, <3>1, c \in Clients
  <2>6. Typed'
    BY <2>2, <2>4, <2>5 DEF IInv, Typed
  <2>7. OrderInv'
    BY <2>4 DEF IInv, OrderInv
  <2>8. StageInv'
    BY <2>1, <2>3, <2>4, <2>5 DEF IInv, StageInv
  <2>9. LockInv'
    BY <2>1, <2>2, <2>4, <2>5 DEF IInv, LockInv, StageInv
  <2>10. WindowInv'
    BY <2>3, <2>4, <2>5 DEF IInv, WindowInv
  <2> QED
    BY <2>6, <2>7, <2>8, <2>9, <2>10 DEF IInv
<1>11. ASSUME NEW c \in Clients, NEW t \in Tenants, ConsumeLock(c, t) PROVE IInv'
  <2>1. Typed'
    BY <1>11 DEF ConsumeLock, LockSub, Goto, Sub, tables, Stages, IInv, Typed
  <2>2. OrderInv'
    BY <1>11 DEF ConsumeLock, tables, IInv, OrderInv, StageInv
  <2>3. StageInv'
    BY <1>11 DEF ConsumeLock, Goto, Sub, IInv, Typed, StageInv
  <2>4. LockInv'
    BY <1>11, NoneFacts DEF ConsumeLock, LockSub, SubFree, Goto, tables, IInv, Typed,
                            StageInv, LockInv
  <2>5. WindowInv'
    BY <1>11 DEF ConsumeLock, Goto, tables, IInv, WindowInv
  <2> QED
    BY <2>1, <2>2, <2>3, <2>4, <2>5 DEF IInv
<1>12. ASSUME NEW c \in Clients, NEW k \in Keys, Consume(c, k) PROVE IInv'
  <2>1. Typed'
    BY <1>12 DEF Consume, Goto, tables, locks, Stages, IInv, Typed
  <2>2. OrderInv'
    BY <1>12 DEF Consume, tables, locks, IInv, OrderInv
  <2>3. StageInv'
    BY <1>12 DEF Consume, Goto, IInv, StageInv
  <2>4. LockInv'
    BY <1>12 DEF Consume, Goto, tables, locks, IInv, LockInv
  <2>5. WindowInv'
    BY <1>12 DEF Consume, Goto, tables, IInv, WindowInv
  <2> QED
    BY <2>1, <2>2, <2>3, <2>4, <2>5 DEF IInv
<1>13. ASSUME NEW c \in Clients, NEW k \in Keys, ConsumeNothing(c, k) PROVE IInv'
  BY <1>13, RollBackKeeps DEF ConsumeNothing, RollBack, tables
<1>14. ASSUME NEW c \in Clients, Record(c) PROVE IInv'
  BY <1>14, RollBackKeeps DEF Record, RollBack, tables
<1>15. ASSUME NEW c \in Clients, NEW t \in Tenants, CountItems(c, t) PROVE IInv'
  <2>1. Typed'
    BY <1>15 DEF CountItems, Goto, tables, locks, Stages, IInv, Typed
  <2>2. OrderInv'
    BY <1>15 DEF CountItems, tables, locks, IInv, OrderInv, StageInv
  <2>3. StageInv'
    BY <1>15 DEF CountItems, Goto, IInv, Typed, StageInv
  <2>4. LockInv'
    BY <1>15 DEF CountItems, Goto, tables, locks, IInv, LockInv
  <2>5. WindowInv'
    BY <1>15 DEF CountItems, Goto, tables, IInv, WindowInv
  <2> QED
    BY <2>1, <2>2, <2>3, <2>4, <2>5 DEF IInv
<1>16. ASSUME NEW c \in Clients, EnforceCountTx(c) PROVE IInv'
  <2>1. Typed'
    BY <1>16 DEF EnforceCountTx, LockSub, Goto, tables, locals, Stages, IInv, Typed
  <2>2. OrderInv'
    BY <1>16 DEF EnforceCountTx, tables, locals, IInv, OrderInv
  <2>3. StageInv'
    BY <1>16 DEF EnforceCountTx, Goto, locals, IInv, StageInv
  <2>4. LockInv'
    BY <1>16, NoneFacts DEF EnforceCountTx, LockSub, SubFree, Goto, tables, locals, IInv,
                            Typed, StageInv, LockInv
  <2>5. WindowInv'
    BY <1>16 DEF EnforceCountTx, Goto, tables, locals, IInv, WindowInv
  <2> QED
    BY <2>1, <2>2, <2>3, <2>4, <2>5 DEF IInv
<1>17. ASSUME NEW c \in Clients, Refuse(c) PROVE IInv'
  BY <1>17, RollBackKeeps DEF Refuse, RollBack, tables
<1>18. ASSUME NEW c \in Clients, AddItem(c) PROVE IInv'
  BY <1>18, RollBackKeeps DEF AddItem, RollBack, tables
<1>19. ASSUME NEW c \in Clients, Abort(c) PROVE IInv'
  BY <1>19, RollBackKeeps DEF Abort, RollBack, tables
<1>20. ASSUME Tick PROVE IInv'
  <2>1. now \in Nat /\ now' = now + 1 /\ UNCHANGED <<tables, at, locals, locks>>
    BY <1>20 DEF Tick, IInv, Typed
  <2>2. Typed' /\ OrderInv' /\ LockInv'
    BY <2>1 DEF IInv, Typed, OrderInv, LockInv, tables, locals, locks
  <2>3. StageInv'
    BY <2>1 DEF IInv, Typed, StageInv, locals
  <2>4. WindowInv'
    <3> SUFFICES ASSUME NEW c \in Clients, at[c] = "upsert", pays[c] # None
                 PROVE  /\ until[c] = from[c] + Length[Asked[pays[c]].cycle]
                        /\ /\ sub[tenant[c]] # None
                           /\ sub[tenant[c]].plan = to[c]
                           /\ sub[tenant[c]].expire >= now + 1
                           => from[c] = sub[tenant[c]].expire
      BY <2>1 DEF WindowInv, tables, locals
    <3>1. sub[tenant[c]] # None => sub[tenant[c]].expire \in Nat
      BY DEF IInv, Typed, StageInv, Sub
    <3>2. sub[tenant[c]] # None /\ sub[tenant[c]].expire >= now + 1
          => sub[tenant[c]].expire >= now
      BY ONLY <2>1, <3>1
    <3> QED
      BY <3>2 DEF IInv, WindowInv
  <2> QED
    BY <2>2, <2>3, <2>4 DEF IInv
<1>21. CASE UNCHANGED vars
  BY <1>21 DEF vars, tables, locals, locks, IInv, Typed, OrderInv, StageInv, LockInv,
               WindowInv
<1>22. Permanent \in Nat /\ Expiries \subseteq Nat
  BY TimeAssumption DEF Permanent
<1> QED
  BY <1>1, <1>2, <1>3, <1>4, <1>5, <1>6, <1>7, <1>8, <1>9, <1>10, <1>11, <1>12, <1>13,
     <1>14, <1>15, <1>16, <1>17, <1>18, <1>19, <1>20, <1>21, <1>22 DEF Next, Call, Step

LEMMA Invariance == Spec => []IInv
BY InvInit, InvStep, PTL DEF Spec

-----------------------------------------------------------------------------
(* The theorems *)

\* Only these steps write an order.
LEMMA OrderWriters ==
    ASSUME Next
    PROVE  \/ UNCHANGED order
           \/ \E o \in Orders : CreatePurchase(o) \/ ClosePurchase(o)
           \/ \E c \in Clients : Upsert(c)
<1>1. CASE Catalogue
  BY <1>1 DEF Catalogue, CreatePlan, UpdatePlan, SeedPlans, tables
<1>2. CASE \E t \in Tenants : Revoke(t)
  BY <1>2 DEF Revoke
<1>3. ASSUME NEW c \in Clients, Call(c) PROVE UNCHANGED order
  BY <1>3 DEF Call, PayBegin, AssignBegin, ConsumeLock, CountItems, tables
<1>4. ASSUME NEW c \in Clients, Step(c) PROVE UNCHANGED order \/ Upsert(c)
  BY <1>4 DEF Step, NextWindow, AssignLock, Deadlock, Consume, ConsumeNothing, Record,
              EnforceCountTx, Refuse, AddItem, RollBack, tables
<1>5. ASSUME NEW c \in Clients, Abort(c) PROVE UNCHANGED order
  BY <1>5 DEF Abort, RollBack, tables
<1>6. CASE Tick
  BY <1>6 DEF Tick, tables
<1> QED
  BY <1>1, <1>2, <1>3, <1>4, <1>5, <1>6 DEF Next

\* A callback and the closing of an order race for its row: whichever commits
\* first decides, and no later step of any client changes the outcome.
THEOREM OrderFinality == Spec => OrderIsFinal
<1> DEFINE Final == \A o \in Orders : order[o] \in {"paid",
    "closed"} => order'[o] = order[o]
<1>1. ASSUME IInv, [Next]_vars PROVE [Final]_vars
  <2> SUFFICES ASSUME IInv, Next PROVE Final
    BY <1>1
  <2>1. order \in [Orders -> {"absent", "pending", "paid", "closed"}]
    BY DEF IInv, Typed
  <2>2. CASE UNCHANGED order
    BY <2>2
  <2>3. ASSUME NEW o \in Orders, CreatePurchase(o) \/ ClosePurchase(o) PROVE Final
    <3>1. order[o] \in {"absent", "pending"} /\ \E x : order' = [order EXCEPT ![o] = x]
      BY <2>3 DEF CreatePurchase, ClosePurchase
    <3> QED
      BY ONLY <2>1, <3>1, o \in Orders DEF Final
  <2>4. ASSUME NEW c \in Clients, Upsert(c) PROVE Final
    <3>1. order' = IF pays[c] = None THEN order ELSE [order EXCEPT ![pays[c]] = "paid"]
      BY <2>4 DEF Upsert
    <3>2. pays[c] # None => pays[c] \in Orders /\ order[pays[c]] = "pending"
      BY DEF IInv, Typed, OrderInv
    <3> QED
      BY ONLY <2>1, <3>1, <3>2 DEF Final
  <2> QED
    BY <2>2, <2>3, <2>4, OrderWriters
<1> QED
  BY Invariance, <1>1, PTL DEF Spec, OrderIsFinal

\* Whatever payments, assignments, revocations and clock ticks interleave, the
\* commit that marks an order paid adds its whole period to a running plan.
THEOREM PaidTimeAdded == Spec => PaidTimeIsAdded
<1> DEFINE Added ==
      \A o \in Orders : order[o] # "paid" /\ order'[o] = "paid" =>
          LET a == Asked[o]  s == sub[a.tenant]  r == sub'[a.tenant]
          IN  /\ r # None
              /\ r.plan = a.plan
              /\ s # None /\ s.plan = a.plan /\ s.expire >= now
                 => r.expire = s.expire + Length[a.cycle]
<1>1. ASSUME IInv, [Next]_vars PROVE [Added]_vars
  <2> SUFFICES ASSUME IInv, Next PROVE Added
    BY <1>1
  <2>1. order \in [Orders -> {"absent", "pending", "paid", "closed"}]
    BY DEF IInv, Typed
  <2>2. CASE UNCHANGED order
    BY <2>2
  <2>3. ASSUME NEW o \in Orders, CreatePurchase(o) \/ ClosePurchase(o) PROVE Added
    <3>1. \E x \in {"pending", "closed"} : order' = [order EXCEPT ![o] = x]
      BY <2>3 DEF CreatePurchase, ClosePurchase
    <3>2. \A p \in Orders : ~(order[p] # "paid" /\ order'[p] = "paid")
      BY ONLY <2>1, <3>1, o \in Orders
    <3> QED
      BY <3>2 DEF Added
  <2>4. ASSUME NEW c \in Clients, Upsert(c) PROVE Added
    <3> SUFFICES ASSUME NEW o \in Orders, order[o] # "paid", order'[o] = "paid"
                 PROVE  /\ sub'[Asked[o].tenant] # None
                        /\ sub'[Asked[o].tenant].plan = Asked[o].plan
                        /\ /\ sub[Asked[o].tenant] # None
                           /\ sub[Asked[o].tenant].plan = Asked[o].plan
                           /\ sub[Asked[o].tenant].expire >= now
                           => sub'[Asked[o].tenant].expire
                              = sub[Asked[o].tenant].expire + Length[Asked[o].cycle]
      BY DEF Added
    <3>1. pays[c] = o
      <4>1. order' = IF pays[c] = None THEN order ELSE [order EXCEPT ![pays[c]] = "paid"]
        BY <2>4 DEF Upsert
      <4> QED
        BY ONLY <2>1, <4>1, o \in Orders, order[o] # "paid", order'[o] = "paid"
    <3>2. o # None /\ tenant[c] = Asked[o].tenant /\ to[c] = Asked[o].plan
      BY <3>1, NoneFacts DEF IInv, OrderInv
    <3> DEFINE t == tenant[c]
               new == [plan |-> to[c], start |-> from[c], expire |-> until[c]]
    <3>3. t \in Tenants /\ new \in Sub /\ sub' = [sub EXCEPT ![t] = new]
      <4>1. t \in Tenants /\ to[c] \in Plans /\ from[c] \in Nat /\ until[c] \in Nat
        BY <2>4 DEF Upsert, IInv, StageInv, Typed
      <4>2. new \in Sub
        BY ONLY <4>1 DEF Sub
      <4> QED
        BY <2>4, <4>1, <4>2 DEF Upsert
    <3>4. sub'[t] = new
      <4>1. sub \in [Tenants -> Sub \cup {None}]
        BY DEF IInv, Typed
      <4> HIDE DEF new, t
      <4> QED
        BY ONLY <3>3, <4>1
    <3>5. new # None
      BY <3>3, NoneFacts
    <3>6. /\ until[c] = from[c] + Length[Asked[o].cycle]
          /\ sub[t] # None /\ sub[t].plan = to[c] /\ sub[t].expire >= now
             => from[c] = sub[t].expire
      BY <2>4, <3>1, <3>2 DEF Upsert, IInv, WindowInv
    <3>7. sub'[t].plan = to[c] /\ sub'[t].expire = until[c]
      BY <3>4
    <3> HIDE DEF t, new
    <3>8. t = Asked[o].tenant
      BY <3>2 DEF t
    <3> QED
      BY ONLY <3>2, <3>4, <3>5, <3>6, <3>7, <3>8
  <2> QED
    BY <2>2, <2>3, <2>4, OrderWriters
<1> QED
  BY Invariance, <1>1, PTL DEF Spec, PaidTimeIsAdded

-----------------------------------------------------------------------------
(* Quotas.  A consumption is decided and recorded under one lock; a count  *)
(* is taken before the lock, and only what its client remembers bounds how *)
(* far the count can be overrun.                                           *)

\* The types of what quotas are decided from.
QuotaTyped ==
    /\ limit \in [Plans -> Limits \cup {None}]
    /\ IsFiniteSet(events) /\ \A e \in events : e.number \in Nat
    /\ items \in [Tenants -> Nat]
    /\ key \in [Clients -> Keys \cup {NoKey}]
    /\ used \in [Clients -> Nat]
    /\ seen \in [Clients -> [Plans -> Limits \cup {None}] \cup {None}]

\* A consumption holds the lock of its tenant; once it is decided, the source
\* is still new and the month still has room.
ConsumeInv ==
    \A c \in Clients :
        /\ at[c] \in {"consume", "record"} => subLock[tenant[c]] = c
        /\ at[c] = "record" =>
               /\ ~Recorded(tenant[c], key[c])
               /\ UsedIn(tenant[c], MonthOf(from[c])) < HighestLimit

\* The number of the next row is not in use.
Numbered ==
    \A e \in events :
        e.number < Cardinality({f \in events : /\ f.tenant = e.tenant
                                               /\ f.key = e.key
                                               /\ f.month = e.month})

ConsumePart == ConsumeInv /\ Numbered /\ RecordedOnce /\ MonthlyQuotaHolds

\* The clients that may still add a row for t: they counted when there was room.
Pending(t) ==
    {c \in Clients : at[c] \in {"counted", "allowed"} /\ tenant[c] = t /\ used[c] < HighestLimit}

\* Once a tenant has its highest quota, every further row takes a client out of
\* Pending and nothing puts one in.
OverrunInv ==
    \A t \in Tenants : items[t] >= HighestLimit =>
        items[t] + Cardinality(Pending(t)) <= HighestLimit + Cardinality(Clients) - 1

CountInv ==
    \A c \in Clients :
        /\ at[c] = "counted" => seen[c] # None
        /\ at[c] = "allowed" => used[c] < HighestLimit

CountPart == CountInv /\ OverrunInv

QuotaInv == QuotaTyped /\ ConsumePart /\ CountPart

-----------------------------------------------------------------------------
(* Lemmas about quotas *)

LEMMA HighestFacts ==
    HighestLimit \in Limits /\ HighestLimit \in Nat /\ \A n \in Limits : n <= HighestLimit
<1>1. Limits \subseteq Nat /\ \E most \in Limits : \A n \in Limits : n <= most
  BY CatalogueAssumption
<1>2. \E most \in Limits : \A n \in Limits : most >= n
  BY <1>1
<1> QED
  BY <1>1, <1>2 DEF HighestLimit, Max

\* A quota lets nothing pass that has reached the highest one.
LEMMA WithinHighest ==
    ASSUME NEW quota \in [Plans -> Limits \cup {None}], NEW p \in Plans, NEW n \in Nat,
           WithinLimit(quota, p, n)
    PROVE  n < HighestLimit
<1>1. quota[p] \in Limits /\ n < quota[p]
  BY DEF WithinLimit
<1>2. quota[p] \in Nat /\ quota[p] <= HighestLimit /\ HighestLimit \in Nat
  BY <1>1, HighestFacts, CatalogueAssumption
<1> QED
  BY ONLY <1>1, <1>2, n \in Nat

\* A table of quotas is not None: None is no function from plans.
LEMMA QuotaIsNotNone ==
    ASSUME NEW quota \in [Plans -> Limits \cup {None}]
    PROVE  quota # None
BY NoneAssumption

LEMMA UsedIsNatural ==
    ASSUME IsFiniteSet(events), NEW t, NEW month
    PROVE  UsedIn(t, month) \in Nat
BY FS_Subset, FS_CardinalityType DEF UsedIn

LEMMA LockEffect ==
    ASSUME Typed, NEW c \in Clients, NEW t \in Tenants, LockSub(c, t)
    PROVE  \A u \in Tenants : subLock[u] \in Clients => subLock'[u] = subLock[u]
<1>1. subLock \in [Tenants -> Clients \cup {None}] /\ None \notin Clients
  BY NoneFacts DEF Typed
<1> QED
  BY <1>1 DEF LockSub, SubFree

\* A step that writes no event and moves no client into a consumption, and that
\* takes no client's place, locks or memory in one.
KeepsConsumers ==
    /\ events' = events
    /\ \A d \in Clients : at'[d] \in {"consume", "record"} =>
          /\ at'[d] = at[d] /\ tenant'[d] = tenant[d]
          /\ key'[d] = key[d] /\ from'[d] = from[d]
          /\ subLock[tenant[d]] = d => subLock'[tenant[d]] = d

LEMMA ConsumersKept ==
    ASSUME ConsumePart, KeepsConsumers
    PROVE  ConsumePart'
<1>1. \A t, k : Recorded(t, k)' = Recorded(t, k)
  BY DEF Recorded, KeepsConsumers
<1>2. \A t, month : UsedIn(t, month)' = UsedIn(t, month)
  BY DEF UsedIn, KeepsConsumers
<1>3. Numbered' /\ RecordedOnce' /\ MonthlyQuotaHolds'
  <2>1. events' = events /\ Numbered /\ RecordedOnce /\ MonthlyQuotaHolds
    BY DEF ConsumePart, KeepsConsumers
  <2> QED
    BY <2>1 DEF Numbered, RecordedOnce, MonthlyQuotaHolds, UsedIn
<1>4. ConsumeInv'
  <2> SUFFICES ASSUME NEW d \in Clients, at'[d] \in {"consume", "record"}
               PROVE  /\ subLock'[tenant'[d]] = d
                      /\ at'[d] = "record" =>
                            /\ ~Recorded(tenant[d], key[d])'
                            /\ UsedIn(tenant[d], MonthOf(from[d]))' < HighestLimit
    BY DEF ConsumeInv
  <2>1. /\ at'[d] = at[d] /\ tenant'[d] = tenant[d]
        /\ key'[d] = key[d] /\ from'[d] = from[d]
        /\ events' = events
        /\ subLock[tenant[d]] = d => subLock'[tenant[d]] = d
    BY DEF KeepsConsumers
  <2> QED
    BY <2>1 DEF ConsumePart, ConsumeInv, Recorded, UsedIn
<1> QED
  BY <1>3, <1>4 DEF ConsumePart

\* A step that adds no row and lets no client count.
KeepsCounters ==
    /\ items' = items
    /\ \A d \in Clients : at'[d] \in {"counted", "allowed"} =>
          /\ at'[d] = at[d] /\ tenant'[d] = tenant[d]
          /\ used'[d] = used[d] /\ seen'[d] = seen[d]

\* Where rows are not added, no client may join those that still may.
LEMMA OverrunKept ==
    ASSUME OverrunInv, items \in [Tenants -> Nat], NEW t \in Tenants,
           items'[t] = items[t], Pending(t)' \subseteq Pending(t)
    PROVE  items'[t] >= HighestLimit =>
               items'[t] + Cardinality(Pending(t)') <= HighestLimit + Cardinality(Clients) - 1
<1>1. IsFiniteSet(Pending(t)) /\ IsFiniteSet(Clients)
  BY ClientsAssumption, FS_Subset DEF Pending
<1>2. /\ Cardinality(Pending(t)) \in Nat /\ Cardinality(Pending(t)') \in Nat
      /\ Cardinality(Clients) \in Nat
      /\ Cardinality(Pending(t)') <= Cardinality(Pending(t))
  BY <1>1, FS_Subset, FS_CardinalityType
<1>3. items[t] \in Nat /\ HighestLimit \in Nat
  BY HighestFacts
<1>4. items[t] >= HighestLimit =>
          items[t] + Cardinality(Pending(t)) <= HighestLimit + Cardinality(Clients) - 1
  BY DEF OverrunInv
<1> QED
  BY ONLY <1>2, <1>3, <1>4, items'[t] = items[t]

LEMMA CountersKept ==
    ASSUME QuotaTyped, CountPart, KeepsCounters
    PROVE  CountPart'
<1>1. CountInv'
  BY DEF CountPart, CountInv, KeepsCounters
<1>2. OverrunInv'
  <2> SUFFICES ASSUME NEW t \in Tenants
               PROVE  items'[t] >= HighestLimit =>
                          items'[t] + Cardinality(Pending(t)')
                          <= HighestLimit + Cardinality(Clients) - 1
    BY DEF OverrunInv
  <2>1. Pending(t)' \subseteq Pending(t) /\ items'[t] = items[t]
    BY DEF KeepsCounters, Pending
  <2> QED
    BY <2>1, OverrunKept DEF QuotaTyped, CountPart
<1> QED
  BY <1>1, <1>2 DEF CountPart

\* The end of a transaction, for the other clients.
LEMMA EndKeeps ==
    ASSUME IInv, QuotaInv, NEW c \in Clients, End(c)
    PROVE  /\ key' \in [Clients -> Keys \cup {NoKey}]
           /\ used' \in [Clients -> Nat]
           /\ seen' \in [Clients -> [Plans -> Limits \cup {None}] \cup {None}]
           /\ events' = events => KeepsConsumers
           /\ items' = items => KeepsCounters
           /\ \A d \in Clients \ {c} :
                 used'[d] = used[d] /\ seen'[d] = seen[d] /\ key'[d] = key[d]
<1>1. Ended(c)
  BY EndEffect DEF IInv
<1>2. /\ key' = [key EXCEPT ![c] = NoKey] /\ key \in [Clients -> Keys \cup {NoKey}]
      /\ used' = [used EXCEPT ![c] = 0] /\ used \in [Clients -> Nat]
      /\ seen' = [seen EXCEPT ![c] = None]
      /\ seen \in [Clients -> [Plans -> Limits \cup {None}] \cup {None}]
  BY DEF End, QuotaInv, QuotaTyped
<1>3. /\ key' \in [Clients -> Keys \cup {NoKey}]
      /\ used' \in [Clients -> Nat]
      /\ \A d \in Clients \ {c} : used'[d] = used[d] /\ key'[d] = key[d]
  BY ONLY <1>2
<1>4. /\ seen' \in [Clients -> [Plans -> Limits \cup {None}] \cup {None}]
      /\ \A d \in Clients \ {c} : seen'[d] = seen[d]
  BY ONLY <1>2
<1>5. events' = events => KeepsConsumers
  <2> SUFFICES ASSUME events' = events, NEW d \in Clients, at'[d] \in {"consume", "record"}
               PROVE  /\ at'[d] = at[d] /\ tenant'[d] = tenant[d]
                      /\ key'[d] = key[d] /\ from'[d] = from[d]
                      /\ subLock[tenant[d]] = d => subLock'[tenant[d]] = d
    BY DEF KeepsConsumers
  <2>1. d # c
    BY <1>1 DEF Ended
  <2>2. at'[d] = at[d] /\ tenant'[d] = tenant[d] /\ from'[d] = from[d]
    BY <1>1, <2>1 DEF Ended
  <2>3. tenant[d] \in Tenants
    BY <2>2 DEF IInv, StageInv
  <2> QED
    BY <1>1, <1>3, <2>1, <2>2, <2>3 DEF Ended
<1>6. items' = items => KeepsCounters
  BY <1>1, <1>3, <1>4 DEF Ended, KeepsCounters
<1> QED
  BY <1>3, <1>4, <1>5, <1>6

LEMMA QuotaRollBack ==
    ASSUME IInv, QuotaInv, NEW c \in Clients, RollBack(c)
    PROVE  QuotaInv'
<1>1. End(c) /\ UNCHANGED <<limit, events, items>>
  BY DEF RollBack, catalogue, tables
<1>2. QuotaTyped' /\ KeepsConsumers /\ KeepsCounters
  BY <1>1, EndKeeps DEF QuotaTyped, QuotaInv
<1> QED
  BY <1>2, ConsumersKept, CountersKept DEF QuotaInv

-----------------------------------------------------------------------------
(* The steps that write what quotas are decided from *)

\* Nothing but a consumption's own step moves it, and it keeps its lock.
LEMMA ConsumeLockKeeps ==
    ASSUME IInv, QuotaInv, NEW c \in Clients, NEW t \in Tenants, ConsumeLock(c, t)
    PROVE  QuotaInv'
<1>1. /\ at' = [at EXCEPT ![c] = "consume"] /\ tenant' = [tenant EXCEPT ![c] = t]
      /\ at[c] = "idle" /\ sub[t] # None /\ LockSub(c, t)
      /\ UNCHANGED <<limit, events, items, key, from, used, seen>>
  BY DEF ConsumeLock, Goto, catalogue, tables
<1>2. at \in [Clients -> Stages] /\ tenant \in [Clients -> Tenants \cup {None}]
  BY DEF IInv, Typed
<1>3. QuotaTyped'
  BY <1>1 DEF QuotaInv, QuotaTyped
<1>4. subLock'[t] = c /\ \A u \in Tenants : subLock[u] \in Clients => subLock'[u] = subLock[u]
  <2>1. subLock \in [Tenants -> Clients \cup {None}]
    BY DEF IInv, Typed
  <2> QED
    BY <1>1, <2>1, LockEffect DEF LockSub, IInv
<1>5. ConsumeInv'
  <2> SUFFICES ASSUME NEW d \in Clients, at'[d] \in {"consume", "record"}
               PROVE  /\ subLock'[tenant'[d]] = d
                      /\ at'[d] = "record" =>
                            /\ ~Recorded(tenant[d], key[d])'
                            /\ UsedIn(tenant[d], MonthOf(from[d]))' < HighestLimit
    BY DEF ConsumeInv
  <2>1. CASE d = c
    BY <1>1, <1>2, <1>4, <2>1
  <2>2. CASE d # c
    <3>1. at'[d] = at[d] /\ tenant'[d] = tenant[d]
      BY <1>1, <1>2, <2>2
    <3>2. tenant[d] \in Tenants /\ subLock[tenant[d]] = d
      BY <3>1 DEF IInv, StageInv, QuotaInv, ConsumePart, ConsumeInv
    <3>3. subLock'[tenant[d]] = d
      BY <1>4, <3>2
    <3> QED
      BY <1>1, <3>1, <3>3 DEF QuotaInv, ConsumePart, ConsumeInv, Recorded, UsedIn
  <2> QED
    BY <2>1, <2>2
<1>6. Numbered' /\ RecordedOnce' /\ MonthlyQuotaHolds'
  BY <1>1 DEF QuotaInv, ConsumePart, Numbered, RecordedOnce, MonthlyQuotaHolds, UsedIn
<1>7. KeepsCounters
  BY <1>1, <1>2 DEF KeepsCounters
<1> QED
  BY <1>3, <1>5, <1>6, <1>7, CountersKept DEF QuotaInv, ConsumePart

\* What is decided under the lock: the source is new and the quota has room.
LEMMA ConsumeKeeps ==
    ASSUME IInv, QuotaInv, NEW c \in Clients, NEW k \in Keys, Consume(c, k)
    PROVE  QuotaInv'
<1>1. /\ at' = [at EXCEPT ![c] = "record"] /\ key' = [key EXCEPT ![c] = k]
      /\ from' = [from EXCEPT ![c] = now]
      /\ at[c] = "consume" /\ ~Recorded(tenant[c], k)
      /\ WithinLimit(limit, to[c], UsedIn(tenant[c], MonthOf(now)))
      /\ UNCHANGED <<limit, events, items, tenant, used, seen, subLock>>
  BY DEF Consume, Goto, catalogue, tables, locks
<1>2. /\ at \in [Clients -> Stages] /\ key \in [Clients -> Keys \cup {NoKey}]
      /\ from \in [Clients -> Nat]
  BY DEF IInv, Typed, QuotaInv, QuotaTyped
<1>3. QuotaTyped'
  BY <1>1, <1>2 DEF QuotaInv, QuotaTyped
<1>4. UsedIn(tenant[c], MonthOf(now)) < HighestLimit
  <2>1. UsedIn(tenant[c], MonthOf(now)) \in Nat
    BY UsedIsNatural DEF QuotaInv, QuotaTyped
  <2>2. to[c] \in Plans
    BY <1>1 DEF IInv, StageInv
  <2> QED
    BY <1>1, <2>1, <2>2, WithinHighest DEF QuotaInv, QuotaTyped
<1>5. ConsumeInv'
  <2> SUFFICES ASSUME NEW d \in Clients, at'[d] \in {"consume", "record"}
               PROVE  /\ subLock'[tenant'[d]] = d
                      /\ at'[d] = "record" =>
                            /\ ~Recorded(tenant[d], key[d])'
                            /\ UsedIn(tenant[d], MonthOf(from[d]))' < HighestLimit
    BY DEF ConsumeInv
  <2>1. CASE d = c
    <3>1. /\ at'[c] = "record" /\ key'[c] = k /\ from'[c] = now
          /\ tenant' = tenant /\ events' = events /\ subLock' = subLock
      BY <1>1, <1>2
    <3>2. subLock[tenant[c]] = c
      BY <1>1 DEF QuotaInv, ConsumePart, ConsumeInv
    <3>3. ~Recorded(tenant[c], key[c])'
      BY <1>1, <3>1 DEF Recorded
    <3>4. MonthOf(from[c])' = MonthOf(now)
      BY <3>1 DEF MonthOf
    <3>5. UsedIn(tenant[c], MonthOf(from[c]))' = UsedIn(tenant[c], MonthOf(now))
      BY <3>1, <3>4 DEF UsedIn
    <3> QED
      BY <1>4, <2>1, <3>1, <3>2, <3>3, <3>5
  <2>2. CASE d # c
    <3>1. at'[d] = at[d] /\ key'[d] = key[d] /\ from'[d] = from[d]
      BY <1>1, <1>2, <2>2
    <3> QED
      BY <1>1, <3>1 DEF QuotaInv, ConsumePart, ConsumeInv, Recorded, UsedIn
  <2> QED
    BY <2>1, <2>2
<1>6. Numbered' /\ RecordedOnce' /\ MonthlyQuotaHolds'
  BY <1>1 DEF QuotaInv, ConsumePart, Numbered, RecordedOnce, MonthlyQuotaHolds, UsedIn
<1>7. KeepsCounters
  BY <1>1, <1>2 DEF KeepsCounters
<1> QED
  BY <1>3, <1>5, <1>6, <1>7, CountersKept DEF QuotaInv, ConsumePart

\* The insert: the lock is still held, so what was decided is still true, and
\* no other client has decided for the same tenant.
LEMMA RecordKeeps ==
    ASSUME IInv, QuotaInv, NEW c \in Clients, Record(c)
    PROVE  QuotaInv'
<1> DEFINE month == MonthOf(from[c])
<1>1. PICK t, k, m, new : /\ t = tenant[c] /\ k = key[c] /\ m = month
                          /\ new = NewEvent(t, k, m)
  OBVIOUS
<1>2. /\ at[c] = "record" /\ events' = events \cup {new} /\ End(c)
      /\ UNCHANGED <<limit, items, now>>
  BY <1>1 DEF Record, catalogue
<1> HIDE DEF month
<1>3. Ended(c)
  BY <1>2, EndEffect DEF IInv
<1>4. /\ new.tenant = t /\ new.key = k /\ new.month = m /\ new.number \in Nat
      /\ new.number = Cardinality({e \in events : e.tenant = t /\ e.key = k /\ e.month = m})
  <2>1. IsFiniteSet({e \in events : e.tenant = t /\ e.key = k /\ e.month = m})
    BY FS_Subset DEF QuotaInv, QuotaTyped
  <2>2. Cardinality({e \in events : e.tenant = t /\ e.key = k /\ e.month = m}) \in Nat
    BY <2>1, FS_CardinalityType
  <2> QED
    BY <1>1, <2>2 DEF NewEvent
<1>5. IsFiniteSet(events) /\ IsFiniteSet(events') /\ \A e \in events : e.number \in Nat
  BY <1>2, FS_AddElement DEF QuotaInv, QuotaTyped
<1>6. QuotaTyped'
  BY <1>2, <1>4, <1>5, EndKeeps DEF QuotaInv, QuotaTyped
<1>7. /\ subLock[t] = c /\ t \in Tenants
      /\ ~Recorded(t, k) /\ UsedIn(t, m) < HighestLimit
  BY <1>1, <1>2 DEF IInv, StageInv, QuotaInv, ConsumePart, ConsumeInv, month
<1>8. ASSUME NEW u, NEW n
      PROVE  IF u = t /\ n = m THEN UsedIn(u, n)' \in {UsedIn(u, n), UsedIn(u, n) + 1}
                               ELSE UsedIn(u, n)' = UsedIn(u, n)
  <2> DEFINE Rows == {e \in events : e.tenant = u /\ e.month = n}
             Rows2 == {e \in events' : e.tenant = u /\ e.month = n}
  <2>1. UsedIn(u, n) = Cardinality(Rows) /\ UsedIn(u, n)' = Cardinality(Rows2)
    BY DEF UsedIn
  <2>2. IsFiniteSet(Rows)
    BY <1>5, FS_Subset
  <2>3. CASE u = t /\ n = m
    <3>1. Rows2 = Rows \cup {new}
      BY <1>2, <1>4, <2>3
    <3> HIDE DEF Rows, Rows2
    <3> QED
      BY <2>1, <2>2, <2>3, <3>1, FS_AddElement, FS_CardinalityType
  <2>4. CASE ~(u = t /\ n = m)
    <3>1. Rows2 = Rows
      BY <1>2, <1>4, <2>4
    <3> QED
      BY <2>1, <2>4, <3>1
  <2> QED
    BY <2>3, <2>4
<1>9. MonthlyQuotaHolds'
  <2> SUFFICES ASSUME NEW u \in Tenants, NEW n \in Months
               PROVE  UsedIn(u, n)' <= HighestLimit
    BY DEF MonthlyQuotaHolds
  <2>1. UsedIn(u, n) \in Nat /\ UsedIn(u, n) <= HighestLimit /\ HighestLimit \in Nat
    BY <1>5, UsedIsNatural, HighestFacts DEF QuotaInv, ConsumePart, MonthlyQuotaHolds
  <2>2. u = t /\ n = m => UsedIn(u, n) < HighestLimit
    BY <1>7
  <2>3. PICK before, after : before = UsedIn(u, n) /\ after = UsedIn(u, n)'
    OBVIOUS
  <2>4. after = before \/ (before < HighestLimit /\ after = before + 1)
    BY <1>8, <2>2, <2>3
  <2>5. before \in Nat /\ before <= HighestLimit
    BY <2>1, <2>3
  <2>6. after <= HighestLimit
    BY ONLY <2>1, <2>4, <2>5
  <2> QED
    BY <2>3, <2>6
<1>10. RecordedOnce'
  <2> SUFFICES ASSUME NEW e \in events', NEW f \in events',
                      e.key # NoKey, f.key = e.key, f.tenant = e.tenant
               PROVE  f = e
    BY DEF RecordedOnce
  <2>1. CASE e \in events /\ f \in events
    BY <2>1 DEF QuotaInv, ConsumePart, RecordedOnce
  <2>2. CASE e = new \/ f = new
    <3>1. k # NoKey /\ e.tenant = t /\ f.tenant = t /\ e.key = k /\ f.key = k
      BY <1>4, <2>2
    <3>2. e \notin events /\ f \notin events
      BY <1>7, <3>1 DEF Recorded
    <3> QED
      BY <1>2, <3>2
  <2> QED
    BY <1>2, <2>1, <2>2
<1>11. Numbered'
  <2> SUFFICES ASSUME NEW e \in events'
               PROVE  e.number < Cardinality({f \in events' : /\ f.tenant = e.tenant
                                                              /\ f.key = e.key
                                                              /\ f.month = e.month})
    BY DEF Numbered
  <2> DEFINE Rows == {f \in events : f.tenant = e.tenant /\ f.key = e.key /\ f.month = e.month}
             Rows2 == {f \in events' : f.tenant = e.tenant /\ f.key = e.key /\ f.month = e.month}
  <2>1. Rows \subseteq Rows2 /\ IsFiniteSet(Rows) /\ IsFiniteSet(Rows2)
    BY <1>2, <1>5, FS_Subset
  <2>2. /\ Cardinality(Rows) \in Nat /\ Cardinality(Rows2) \in Nat
        /\ Cardinality(Rows) <= Cardinality(Rows2)
    BY <2>1, FS_Subset, FS_CardinalityType
  <2>3. CASE e \in events
    <3>1. e.number < Cardinality(Rows) /\ e.number \in Nat
      BY <1>5, <2>3 DEF QuotaInv, ConsumePart, Numbered
    <3> HIDE DEF Rows, Rows2
    <3>2. e.number < Cardinality(Rows2)
      BY <2>2, <3>1
    <3> QED
      BY <3>2 DEF Rows2
  <2>4. CASE e = new /\ e \notin events
    <3>1. Rows = {f \in events : f.tenant = t /\ f.key = k /\ f.month = m}
      BY <1>4, <2>4
    <3>2. Rows2 = Rows \cup {e} /\ e \notin Rows
      BY <1>2, <2>4
    <3>3. e.number = Cardinality(Rows)
      BY <1>4, <2>4, <3>1
    <3> HIDE DEF Rows, Rows2
    <3>4. Cardinality(Rows2) = Cardinality(Rows) + 1
      BY <2>1, <3>2, FS_AddElement
    <3>5. e.number < Cardinality(Rows2)
      BY <2>2, <3>3, <3>4
    <3> QED
      BY <3>5 DEF Rows2
  <2> QED
    BY <1>2, <2>3, <2>4
<1>12. ConsumeInv'
  <2> SUFFICES ASSUME NEW d \in Clients, at'[d] \in {"consume", "record"}
               PROVE  /\ subLock'[tenant'[d]] = d
                      /\ at'[d] = "record" =>
                            /\ ~Recorded(tenant[d], key[d])'
                            /\ UsedIn(tenant[d], MonthOf(from[d]))' < HighestLimit
    BY DEF ConsumeInv
  <2>1. d # c
    BY <1>3 DEF Ended
  <2>2. at'[d] = at[d] /\ tenant'[d] = tenant[d] /\ from'[d] = from[d] /\ key'[d] = key[d]
    BY <1>2, <1>3, <2>1, EndKeeps DEF Ended
  <2>3. PICK u, j, n : u = tenant[d] /\ j = key[d] /\ n = MonthOf(from[d])
    OBVIOUS
  <2>4. u \in Tenants /\ subLock[u] = d /\ u # t
    BY <1>7, <2>1, <2>2, <2>3 DEF IInv, StageInv, QuotaInv, ConsumePart, ConsumeInv
  <2>5. subLock'[u] = d
    BY <1>3, <2>1, <2>4 DEF Ended
  <2>6. at[d] = "record" => ~Recorded(u, j) /\ UsedIn(u, n) < HighestLimit
    BY <2>3 DEF QuotaInv, ConsumePart, ConsumeInv
  <2>7. Recorded(u, j)' => Recorded(u, j)
    BY <1>2, <1>4, <2>4 DEF Recorded
  <2>8. UsedIn(u, n)' = UsedIn(u, n)
    BY <1>8, <2>4
  <2>9. n = MonthOf(from[d])'
    BY <2>2, <2>3 DEF MonthOf
  <2> QED
    BY <2>2, <2>3, <2>5, <2>6, <2>7, <2>8, <2>9 DEF Recorded, UsedIn
<1>13. KeepsCounters
  BY <1>2, EndKeeps
<1> QED
  BY <1>6, <1>9, <1>10, <1>11, <1>12, <1>13, CountersKept DEF QuotaInv, ConsumePart

\* A client that counts where the highest quota is reached may not add a row.
LEMMA CountItemsKeeps ==
    ASSUME IInv, QuotaInv, NEW c \in Clients, NEW t \in Tenants, CountItems(c, t)
    PROVE  QuotaInv'
<1>1. /\ at' = [at EXCEPT ![c] = "counted"] /\ tenant' = [tenant EXCEPT ![c] = t]
      /\ used' = [used EXCEPT ![c] = items[t]] /\ seen' = [seen EXCEPT ![c] = limit]
      /\ at[c] = "idle"
      /\ UNCHANGED <<limit, events, items, key, from, subLock>>
  BY DEF CountItems, Goto, catalogue, tables, locks
<1>2. /\ at \in [Clients -> Stages] /\ tenant \in [Clients -> Tenants \cup {None}]
      /\ used \in [Clients -> Nat] /\ items[t] \in Nat
      /\ limit \in [Plans -> Limits \cup {None}]
      /\ seen \in [Clients -> [Plans -> Limits \cup {None}] \cup {None}]
  BY DEF IInv, Typed, QuotaInv, QuotaTyped
<1>3. QuotaTyped'
  BY <1>1, <1>2 DEF QuotaInv, QuotaTyped
<1>4. KeepsConsumers
  BY <1>1, <1>2 DEF KeepsConsumers
<1>5. CountInv'
  <2>1. limit # None
    BY <1>2, QuotaIsNotNone
  <2> QED
    BY <1>1, <1>2, <2>1 DEF QuotaInv, CountPart, CountInv
<1>6. OverrunInv'
  <2> SUFFICES ASSUME NEW u \in Tenants, items'[u] >= HighestLimit
               PROVE  items'[u] + Cardinality(Pending(u)')
                      <= HighestLimit + Cardinality(Clients) - 1
    BY DEF OverrunInv
  <2>1. ASSUME NEW d \in Clients, d \in Pending(u)' PROVE d \in Pending(u)
    <3>1. CASE d = c
      <4>1. tenant'[c] = t /\ used'[c] = items[t]
        BY <1>1, <1>2
      <4>2. u = t /\ items[u] < HighestLimit
        BY <2>1, <3>1, <4>1 DEF Pending
      <4>3. items[u] \in Nat /\ HighestLimit \in Nat /\ items[u] >= HighestLimit
        BY <1>1, <1>2, <4>2, HighestFacts
      <4> QED
        BY ONLY <4>2, <4>3
    <3>2. CASE d # c
      BY <1>1, <1>2, <2>1, <3>2 DEF Pending
    <3> QED
      BY <3>1, <3>2
  <2>2. Pending(u)' \subseteq Pending(u)
    BY <2>1 DEF Pending
  <2> QED
    BY <1>1, <2>2, OverrunKept DEF QuotaInv, QuotaTyped, CountPart
<1> QED
  BY <1>3, <1>4, <1>5, <1>6, ConsumersKept DEF QuotaInv, CountPart

\* Only a client that counted less than its quota may add a row.
LEMMA EnforceKeeps ==
    ASSUME IInv, QuotaInv, NEW c \in Clients, EnforceCountTx(c)
    PROVE  QuotaInv'
<1>1. /\ at' = [at EXCEPT ![c] = "allowed"] /\ at[c] = "counted" /\ Allowed(c)
      /\ LockSub(c, tenant[c])
      /\ UNCHANGED <<limit, events, items, tenant, key, from, used, seen>>
  BY DEF EnforceCountTx, Goto, catalogue, tables, locals
<1>2. at \in [Clients -> Stages] /\ tenant[c] \in Tenants
  BY <1>1 DEF IInv, Typed, StageInv
<1>3. QuotaTyped'
  BY <1>1 DEF QuotaInv, QuotaTyped
<1>4. KeepsConsumers
  <2> SUFFICES ASSUME NEW d \in Clients, at'[d] \in {"consume", "record"}
               PROVE  at'[d] = at[d] /\ (subLock[tenant[d]] = d => subLock'[tenant[d]] = d)
    BY <1>1 DEF KeepsConsumers
  <2>1. at'[d] = at[d]
    BY <1>1, <1>2
  <2>2. tenant[d] \in Tenants
    BY <2>1 DEF IInv, StageInv
  <2> QED
    BY <1>1, <1>2, <2>1, <2>2, LockEffect DEF IInv
<1>5. used[c] < HighestLimit
  <2>1. seen[c] \in [Plans -> Limits \cup {None}] /\ used[c] \in Nat
    BY <1>1 DEF QuotaInv, QuotaTyped, CountPart, CountInv
  <2>2. sub[tenant[c]].plan \in Plans /\ WithinLimit(seen[c], sub[tenant[c]].plan, used[c])
    BY <1>1, <1>2 DEF Allowed, IInv, Typed, Sub
  <2> QED
    BY <2>1, <2>2, WithinHighest
<1>6. CountInv'
  BY <1>1, <1>2, <1>5 DEF QuotaInv, CountPart, CountInv
<1>7. OverrunInv'
  <2> SUFFICES ASSUME NEW u \in Tenants
               PROVE  items'[u] >= HighestLimit =>
                          items'[u] + Cardinality(Pending(u)')
                          <= HighestLimit + Cardinality(Clients) - 1
    BY DEF OverrunInv
  <2>1. Pending(u)' \subseteq Pending(u)
    BY <1>1, <1>2 DEF Pending
  <2> QED
    BY <1>1, <2>1, OverrunKept DEF QuotaInv, QuotaTyped, CountPart
<1> QED
  BY <1>3, <1>4, <1>6, <1>7, ConsumersKept DEF QuotaInv, CountPart

\* The row that reaches the highest quota leaves at most the other clients
\* pending; every later one takes its own client out of them.
LEMMA AddItemKeeps ==
    ASSUME IInv, QuotaInv, NEW c \in Clients, AddItem(c)
    PROVE  QuotaInv'
<1>1. PICK t : t = tenant[c]
  OBVIOUS
<1>2. /\ at[c] = "allowed" /\ items' = [items EXCEPT ![t] = @ + 1] /\ End(c)
      /\ UNCHANGED <<limit, events>>
  BY <1>1 DEF AddItem, catalogue
<1>3. Ended(c)
  BY <1>2, EndEffect DEF IInv
<1>4. /\ t \in Tenants /\ items \in [Tenants -> Nat] /\ items[t] \in Nat
      /\ items' \in [Tenants -> Nat] /\ items'[t] = items[t] + 1
      /\ \A u \in Tenants \ {t} : items'[u] = items[u]
  <2>1. t \in Tenants /\ items \in [Tenants -> Nat]
    BY <1>1, <1>2 DEF IInv, StageInv, QuotaInv, QuotaTyped
  <2> QED
    BY ONLY <1>2, <2>1
<1>5. QuotaTyped'
  BY <1>2, <1>4, EndKeeps DEF QuotaInv, QuotaTyped
<1>6. KeepsConsumers
  BY <1>2, EndKeeps
<1>7. CountInv'
  <2> SUFFICES ASSUME NEW d \in Clients, at'[d] \in {"counted", "allowed"}
               PROVE  at'[d] = at[d] /\ used'[d] = used[d] /\ seen'[d] = seen[d]
    BY DEF QuotaInv, CountPart, CountInv
  <2> QED
    BY <1>2, <1>3, EndKeeps DEF Ended
<1>8. ASSUME NEW u \in Tenants PROVE Pending(u)' \subseteq Pending(u) \ {c}
  <2> SUFFICES ASSUME NEW d \in Clients, d \in Pending(u)' PROVE d # c /\ d \in Pending(u)
    BY DEF Pending
  <2>1. d # c
    BY <1>3 DEF Ended, Pending
  <2> QED
    BY <1>2, <1>3, <2>1, EndKeeps DEF Ended, Pending
<1>9. OverrunInv'
  <2> SUFFICES ASSUME NEW u \in Tenants, items'[u] >= HighestLimit
               PROVE  items'[u] + Cardinality(Pending(u)')
                      <= HighestLimit + Cardinality(Clients) - 1
    BY DEF OverrunInv
  <2>1. CASE u # t
    <3>1. items'[u] = items[u] /\ Pending(u)' \subseteq Pending(u)
      BY <1>4, <1>8, <2>1
    <3> QED
      BY <3>1, OverrunKept DEF QuotaInv, QuotaTyped, CountPart
  <2>2. CASE u = t
    <3>1. c \in Pending(t)
      BY <1>1, <1>2 DEF Pending, QuotaInv, CountPart, CountInv
    <3>2. /\ IsFiniteSet(Clients) /\ IsFiniteSet(Pending(t))
          /\ Pending(t)' \subseteq Pending(t) \ {c} /\ Pending(t)' \subseteq Clients \ {c}
      <4>1. Pending(t) \subseteq Clients /\ Pending(t)' \subseteq Pending(t) \ {c}
        BY <1>4, <1>8 DEF Pending
      <4> QED
        BY <4>1, ClientsAssumption, FS_Subset
    <3>3. /\ IsFiniteSet(Pending(t) \ {c}) /\ IsFiniteSet(Clients \ {c})
          /\ Cardinality(Pending(t) \ {c}) = Cardinality(Pending(t)) - 1
          /\ Cardinality(Clients \ {c}) = Cardinality(Clients) - 1
      BY <3>1, <3>2, FS_RemoveElement
    <3>4. PICK p, after, n : /\ p = Cardinality(Pending(t)) /\ n = Cardinality(Clients)
                             /\ after = Cardinality(Pending(t)')
      OBVIOUS
    <3>5. p \in Nat /\ n \in Nat /\ after \in Nat
      BY <3>2, <3>3, <3>4, FS_Subset, FS_CardinalityType
    <3>6. after <= p - 1 /\ after <= n - 1
      BY <3>2, <3>3, <3>4, FS_Subset
    <3>7. items[t] >= HighestLimit => items[t] + p <= HighestLimit + n - 1
      BY <1>4, <3>4 DEF QuotaInv, CountPart, OverrunInv
    <3>8. items[t] \in Nat /\ HighestLimit \in Nat /\ items[t] + 1 >= HighestLimit
      BY <1>4, <2>2, HighestFacts
    <3>9. items[t] + 1 + after <= HighestLimit + n - 1
      BY ONLY <3>5, <3>6, <3>7, <3>8
    <3> QED
      BY <1>4, <2>2, <3>4, <3>9
  <2> QED
    BY <2>1, <2>2
<1> QED
  BY <1>5, <1>6, <1>7, <1>9, ConsumersKept DEF QuotaInv, CountPart

LEMMA QuotaInit == Init => QuotaInv
<1> SUFFICES ASSUME Init PROVE QuotaInv
  OBVIOUS
<1>1. QuotaTyped
  BY FS_EmptySet DEF Init, QuotaTyped
<1>2. ConsumeInv /\ Numbered /\ RecordedOnce
  BY DEF Init, ConsumeInv, Numbered, RecordedOnce
<1>3. MonthlyQuotaHolds
  <2>1. \A t, month : UsedIn(t, month) = 0
    <3>1. \A t, month : {e \in events : e.tenant = t /\ e.month = month} = {}
      BY DEF Init
    <3> QED
      BY <3>1, FS_EmptySet DEF UsedIn
  <2> QED
    BY <2>1, HighestFacts DEF MonthlyQuotaHolds
<1>4. CountInv
  BY DEF Init, CountInv
<1>5. OverrunInv
  <2> SUFFICES ASSUME NEW t \in Tenants, items[t] >= HighestLimit
               PROVE  items[t] + Cardinality(Pending(t))
                      <= HighestLimit + Cardinality(Clients) - 1
    BY DEF OverrunInv
  <2>1. items[t] = 0 /\ Pending(t) = {}
    BY DEF Init, Pending
  <2>2. Cardinality(Pending(t)) = 0
    BY <2>1, FS_EmptySet
  <2>3. Cardinality(Clients) \in Nat /\ Cardinality(Clients) # 0
    BY ClientsAssumption, FS_EmptySet, FS_CardinalityType
  <2> QED
    BY <2>1, <2>2, <2>3, HighestFacts
<1> QED
  BY <1>1, <1>2, <1>3, <1>4, <1>5 DEF QuotaInv, ConsumePart, CountPart

LEMMA QuotaStep == IInv /\ QuotaInv /\ [Next]_vars => QuotaInv'
<1> SUFFICES ASSUME IInv, QuotaInv, [Next]_vars PROVE QuotaInv'
  OBVIOUS
<1>1. ASSUME QuotaTyped', KeepsConsumers, KeepsCounters PROVE QuotaInv'
  BY <1>1, ConsumersKept, CountersKept DEF QuotaInv
<1>2. ASSUME limit' \in [Plans -> Limits \cup {None}],
             UNCHANGED <<events, items, at, locals, locks>>
      PROVE  QuotaInv'
  <2>1. QuotaTyped' /\ KeepsConsumers /\ KeepsCounters
    BY <1>2 DEF locals, locks, QuotaInv, QuotaTyped, KeepsConsumers, KeepsCounters
  <2> QED
    BY <1>1, <2>1
<1>3. limit \in [Plans -> Limits \cup {None}]
  BY DEF QuotaInv, QuotaTyped
<1>4. ASSUME Catalogue PROVE QuotaInv'
  <2>1. UNCHANGED <<events, items, at, locals, locks>>
    BY <1>4 DEF Catalogue, CreatePlan, UpdatePlan, SeedPlans, tables
  <2>2. limit' \in [Plans -> Limits \cup {None}]
    <3>1. ASSUME NEW p \in Plans, NEW n \in Limits \cup {None}, CreatePlan(p, n)
          PROVE  limit' = limit
      BY <3>1 DEF CreatePlan
    <3>2. ASSUME NEW p \in Plans, NEW n \in Limits \cup {None}, NEW s, UpdatePlan(p, s, n)
          PROVE  limit' = [limit EXCEPT ![p] = n]
      BY <3>2 DEF UpdatePlan
    <3>3. ASSUME SeedPlans PROVE limit' \in [Plans -> Limits \cup {None}]
      BY <1>3, <3>3, CatalogueAssumption DEF SeedPlans
    <3> QED
      BY <1>3, <1>4, <3>1, <3>2, <3>3 DEF Catalogue
  <2> QED
    BY <1>2, <2>1, <2>2
<1>5. ASSUME NEW o \in Orders, CreatePurchase(o) \/ ClosePurchase(o) PROVE QuotaInv'
  BY <1>2, <1>3, <1>5 DEF CreatePurchase, ClosePurchase, catalogue
<1>6. ASSUME NEW t \in Tenants, Revoke(t) PROVE QuotaInv'
  BY <1>2, <1>3, <1>6 DEF Revoke, catalogue
<1>7. ASSUME NEW c \in Clients, NEW stage \in Stages \ {"consume", "record", "counted", "allowed"},
             at' = [at EXCEPT ![c] = stage],
             \A d \in Clients \ {c} : tenant'[d] = tenant[d] /\ from'[d] = from[d],
             UNCHANGED <<limit, events, items, key, used, seen>>,
             \A t \in Tenants : subLock[t] \in Clients => subLock'[t] = subLock[t]
      PROVE  QuotaInv'
  <2>1. QuotaTyped'
    BY <1>7 DEF QuotaInv, QuotaTyped
  <2>2. at'[c] = stage /\ \A d \in Clients \ {c} : at'[d] = at[d]
    BY <1>7 DEF IInv, Typed
  <2>3. KeepsCounters
    BY <1>7, <2>2 DEF KeepsCounters
  <2>4. KeepsConsumers
    <3> SUFFICES ASSUME NEW d \in Clients, at'[d] \in {"consume", "record"}
                 PROVE  /\ at'[d] = at[d] /\ tenant'[d] = tenant[d] /\ from'[d] = from[d]
                        /\ subLock[tenant[d]] = d => subLock'[tenant[d]] = d
      BY <1>7 DEF KeepsConsumers
    <3>1. d # c /\ at'[d] = at[d]
      BY <1>7, <2>2
    <3>2. tenant[d] \in Tenants
      BY <3>1 DEF IInv, StageInv
    <3> QED
      BY <1>7, <3>1, <3>2
  <2> QED
    BY <1>1, <2>1, <2>3, <2>4
<1>8. ASSUME NEW c \in Clients, NEW o \in Orders, NEW p, PayBegin(c, o, p) PROVE QuotaInv'
  <2>1. /\ at' = [at EXCEPT ![c] = "order"] /\ tenant' = [tenant EXCEPT ![c] = Asked[o].tenant]
        /\ from' = [from EXCEPT ![c] = p]
        /\ UNCHANGED <<limit, events, items, key, used, seen, subLock>>
    BY <1>8 DEF PayBegin, Goto, catalogue, tables
  <2> QED
    BY <1>7, <2>1 DEF Stages, IInv, Typed
<1>9. ASSUME NEW c \in Clients, NextWindow(c) PROVE QuotaInv'
  <2>1. /\ at' = [at EXCEPT ![c] = "upsert"] /\ LockSub(c, tenant[c])
        /\ \E start : from' = [from EXCEPT ![c] = start]
        /\ UNCHANGED <<limit, events, items, tenant, key, used, seen>>
    BY <1>9 DEF NextWindow, Goto, catalogue, tables
  <2>2. tenant[c] \in Tenants
    BY <1>9 DEF NextWindow, IInv, StageInv
  <2> QED
    BY <1>7, <2>1, <2>2, LockEffect DEF Stages, IInv, Typed
<1>10. ASSUME NEW c \in Clients, NEW t, NEW p, NEW stage \in {"assign", "assignUntil"}, NEW x,
              AssignBegin(c, t, p, stage, x)
       PROVE  QuotaInv'
  <2>1. /\ at' = [at EXCEPT ![c] = stage] /\ tenant' = [tenant EXCEPT ![c] = t]
        /\ \E start : from' = [from EXCEPT ![c] = start]
        /\ UNCHANGED <<limit, events, items, key, used, seen, subLock>>
    BY <1>10 DEF AssignBegin, Goto, catalogue, tables, locks
  <2> QED
    BY <1>7, <2>1 DEF Stages, IInv, Typed
<1>11. ASSUME NEW c \in Clients, AssignLock(c) PROVE QuotaInv'
  <2>1. /\ at' = [at EXCEPT ![c] = "upsert"] /\ LockSub(c, tenant[c])
        /\ \E start : from' = [from EXCEPT ![c] = start]
        /\ UNCHANGED <<limit, events, items, tenant, key, used, seen>>
    BY <1>11 DEF AssignLock, Goto, catalogue, tables
  <2>2. tenant[c] \in Tenants
    BY <1>11 DEF AssignLock, IInv, StageInv
  <2> QED
    BY <1>7, <2>1, <2>2, LockEffect DEF Stages, IInv, Typed
<1>12. ASSUME NEW c \in Clients, Upsert(c) PROVE QuotaInv'
  <2>1. End(c) /\ UNCHANGED <<limit, events, items>>
    BY <1>12 DEF Upsert, catalogue
  <2>2. QuotaTyped' /\ KeepsConsumers /\ KeepsCounters
    BY <2>1, EndKeeps DEF QuotaTyped, QuotaInv
  <2> QED
    BY <1>1, <2>2
<1>13. ASSUME NEW c \in Clients, Call(c) PROVE QuotaInv'
  BY <1>8, <1>10, <1>13, ConsumeLockKeeps, CountItemsKeeps DEF Call
<1>14. ASSUME NEW c \in Clients, Step(c) PROVE QuotaInv'
  BY <1>9, <1>11, <1>12, <1>14, ConsumeKeeps, RecordKeeps, EnforceKeeps, AddItemKeeps,
     QuotaRollBack DEF Step, Deadlock, ConsumeNothing, Refuse
<1>15. ASSUME NEW c \in Clients, Abort(c) PROVE QuotaInv'
  BY <1>15, QuotaRollBack DEF Abort
<1>16. CASE Tick
  BY <1>2, <1>3, <1>16 DEF Tick, catalogue, tables
<1>17. CASE UNCHANGED vars
  BY <1>2, <1>3, <1>17 DEF vars, catalogue, tables
<1> QED
  BY <1>4, <1>5, <1>6, <1>13, <1>14, <1>15, <1>16, <1>17 DEF Next

LEMMA QuotaInvariance == Spec => [](IInv /\ QuotaInv)
BY InvInit, InvStep, QuotaInit, QuotaStep, PTL DEF Spec

\* However many clients consume for a tenant at once, no month records more
\* than the highest quota any plan may have.
THEOREM MonthlyQuota == Spec => []MonthlyQuotaHolds
<1>1. QuotaInv => MonthlyQuotaHolds
  BY DEF QuotaInv, ConsumePart
<1> QED
  BY QuotaInvariance, <1>1, PTL

\* No source is recorded twice, although only the lock and a look at the table
\* stand between two clients that bring the same one.
THEOREM SourcesAreRecordedOnce == Spec => []RecordedOnce
<1>1. QuotaInv => RecordedOnce
  BY DEF QuotaInv, ConsumePart
<1> QED
  BY QuotaInvariance, <1>1, PTL

\* A count taken before the lock is overrun by at most the other clients.
THEOREM BoundedOverrun == Spec => []OverrunIsBounded
<1>1. QuotaInv => OverrunIsBounded
  <2> SUFFICES ASSUME QuotaInv, NEW t \in Tenants
               PROVE  items[t] <= HighestLimit + Cardinality(Clients) - 1
    BY DEF OverrunIsBounded
  <2>1. PICK pending, clients : /\ pending = Cardinality(Pending(t))
                                /\ clients = Cardinality(Clients)
    OBVIOUS
  <2>2. pending \in Nat /\ clients \in Nat /\ clients # 0
    BY <2>1, ClientsAssumption, FS_EmptySet, FS_Subset, FS_CardinalityType DEF Pending
  <2>3. items[t] \in Nat /\ HighestLimit \in Nat
    BY HighestFacts DEF QuotaInv, QuotaTyped
  <2>4. items[t] >= HighestLimit => items[t] + pending <= HighestLimit + clients - 1
    BY <2>1 DEF QuotaInv, CountPart, OverrunInv
  <2>5. items[t] <= HighestLimit + clients - 1
    BY ONLY <2>2, <2>3, <2>4
  <2> QED
    BY <2>1, <2>5
<1> QED
  BY QuotaInvariance, <1>1, PTL

=============================================================================
