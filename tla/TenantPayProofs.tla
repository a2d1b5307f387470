-------------------------- MODULE TenantPayProofs ---------------------------
(***************************************************************************)
(* What a tenant is paid through: its payment configuration and the        *)
(* clients built of it, the profit sharing of its orders, the notices and  *)
(* the calls of the platforms.  For any tenants, appids, orders, numbers   *)
(* and amounts, and any number of tasks and callers, what is configured    *)
(* holds together and what is told of money is so.                         *)
(*                                                                         *)
(* Each part has an inductive invariant of its own; the parts share no     *)
(* state, and their invariants together are that of MCTenantPay.           *)
(***************************************************************************)
EXTENDS MCTenantPay, SequenceTheorems, SumTheorems

-----------------------------------------------------------------------------
(* tenantpay/resolver.go, store.go: configurations and their clients. *)

\* What a save and a resolution know while they are under way.
SaverState ==
    {Idle} \cup [at : {"find", "update", "create", "invalidate"}, tenant : Tenants,
                 row : IntegrationConfig]
ResolverState ==
    {Idle} \cup [at : {"platform", "store"}, tenant : Tenants, from : Tenants, own : Nat,
                 platform : Nat]

\* How complete a configuration is that is switched on.
Whole(c) == c.enabled => c.secret # None /\ c.public

\* A save stores what it has found complete, and updates only a row it has
\* seen.
SaverOK(s) ==
    /\ saver[s].at \in {"find", "update", "create"} => Whole(saver[s].row)
    /\ saver[s].at = "update" => Configured(saver[s].tenant)

\* A client in the cache, expired or not, saw the last save of its tenant, or
\* one is still to drop it; the platform's saves it missed are later than the
\* ttl before its end.
Stale(t) ==
    LET c == cache[t] IN
    c # NoClient =>
        /\ c.until <= clock + Ttl
        /\ ~ c.overlapped =>
             /\ c.own < version[t] =>
                  \E s \in Savers : saver[s].at = "invalidate" /\ saver[s].tenant = t
             /\ c.from # t => \A i \in (c.platform + 1)..version[Platform] :
                                 c.until <= savedAt[Platform][i] + Ttl

PayInv ==
    /\ PayTypeOK
    /\ saver \in [Savers -> SaverState] /\ resolver \in [Resolvers -> ResolverState]
    /\ EnabledIsComplete
    /\ \A s \in Savers : SaverOK(s)
    /\ \A t \in Tenants : Stale(t)

LEMMA Versions ==
    ASSUME PayTypeOK, NEW t \in Tenants
    PROVE  /\ version[t] \in Nat /\ version[t] = Len(savedAt[t])
           /\ \A i \in 1..version[t] : savedAt[t][i] \in Nat
<1>1. PICK q \in Seq(0..MaxTime) : q = savedAt[t]
  BY DEF PayTypeOK
<1>2. version[t] = Len(q)
  BY <1>1 DEF version
<1>3. Len(q) \in Nat
  OBVIOUS
<1>5. \A i \in 1..Len(q) : q[i] \in 0..MaxTime
  <2>1. q \in [1..Len(q) -> 0..MaxTime]
    BY LenProperties
  <2> QED
    BY <2>1
<1>4. \A n \in 0..MaxTime : n \in Nat
  BY TtlAssumption
<1> QED
  BY <1>1, <1>2, <1>3, <1>4, <1>5

LEMMA FoundIsTyped ==
    ASSUME PayTypeOK, NEW t \in Tenants
    PROVE  /\ FindPayConfig(t) \in IntegrationConfig
           /\ Configured(t) => Len(rows[t]) \in Nat \ {0}
<1>1. rows[t] \in Seq(IntegrationConfig)
  BY DEF PayTypeOK
<1>2. Blank \in IntegrationConfig
  BY DEF Blank, IntegrationConfig, Merchants
<1>3. rows[t] # <<>> => Head(rows[t]) \in IntegrationConfig /\ Len(rows[t]) \in Nat \ {0}
  BY <1>1
<1> QED
  BY <1>2, <1>3 DEF FindPayConfig, Configured

LEMMA PayInitOK == PayInit => PayInv
<1> SUFFICES ASSUME PayInit PROVE PayInv
  OBVIOUS
<1>0. \A t \in Tenants : rows[t] = <<>> \/
         rows[t] = <<[mch |-> "m0", secret |-> "plain", public |-> TRUE, enabled |-> FALSE]>>
  BY DEF PayInit
<1>1. rows \in [Tenants -> Seq(IntegrationConfig)]
  <2> DEFINE c == [mch |-> "m0", secret |-> "plain", public |-> TRUE, enabled |-> FALSE]
  <2>1. c \in IntegrationConfig
    BY DEF IntegrationConfig, Merchants
  <2> HIDE DEF c
  <2>4. <<c>> \in Seq(IntegrationConfig) /\ <<>> \in Seq(IntegrationConfig)
    BY <2>1
  <2>2. \A t \in Tenants : rows[t] \in Seq(IntegrationConfig)
    BY <1>0, <2>4 DEF c
  <2>3. rows = [t \in Tenants |-> rows[t]]
    BY DEF PayInit
  <2> QED
    BY <2>2, <2>3
<1>2. PayTypeOK
  <2>1. <<>> \in Seq(0..MaxTime) /\ NoClient \in Client /\ 0 \in 0..MaxTime
    BY TtlAssumption DEF NoClient, Client
  <2> QED
    BY <1>1, <2>1 DEF PayInit, PayTypeOK
<1>3. saver \in [Savers -> SaverState] /\ resolver \in [Resolvers -> ResolverState]
  BY DEF PayInit, SaverState, ResolverState
<1>4. EnabledIsComplete
  BY <1>0 DEF EnabledIsComplete
<1>5. \A s \in Savers : SaverOK(s)
  BY DEF PayInit, SaverOK, Idle
<1>6. \A t \in Tenants : Stale(t)
  BY DEF PayInit, Stale
<1> QED
  BY <1>2, <1>3, <1>4, <1>5, <1>6 DEF PayInv

\* Only the table, the cache and the clock have types of their own.
LEMMA PayTypesStay ==
    ASSUME PayTypeOK, UNCHANGED <<rows, masterKey, savedAt, cache, clock>>
    PROVE  PayTypeOK'
BY DEF PayTypeOK

\* Where the tables, the cache and what is to be dropped stay, so does all
\* that is said of them.
LEMMA StaleStays ==
    ASSUME PayTypeOK, NEW t \in Tenants, Stale(t), UNCHANGED <<cache, savedAt>>,
           clock' \in Nat, clock <= clock',
           \A s \in Savers : saver[s].at = "invalidate" => saver'[s] = saver[s]
    PROVE  Stale(t)'
<1>1. version' = version
  BY DEF version
<1>2. cache[t].until <= clock + Ttl => cache[t].until <= clock' + Ttl
  <2>1. clock \in Nat /\ cache[t].until \in Nat
    BY TtlAssumption DEF PayTypeOK, Client
  <2> QED
    BY <2>1, TtlAssumption
<1> QED
  BY <1>1, <1>2 DEF Stale

LEMMA ClockIs == PayTypeOK => clock \in Nat /\ clock <= clock
BY TtlAssumption DEF PayTypeOK

LEMMA SaveReadStep ==
    ASSUME PayInv, NEW s \in Savers, NEW side, NEW own \in Tenants, NEW path, NEW req \in Requests,
           SaveRead(s, side, own, path, req)
    PROVE  PayInv'
<1> DEFINE t == Target(side, own, path)
           c == Merged(FindPayConfig(t), req)
           v == [at |-> "find", tenant |-> t, row |-> c]
<1>1. /\ saver[s] = Idle /\ req.mch # None /\ Complete(c, req)
      /\ saver' = [saver EXCEPT ![s] = v]
      /\ UNCHANGED <<rows, masterKey, resolver, cache, savedAt, clock>>
  BY DEF SaveRead
<1>2. t \in Tenants
  BY TenantsAssumption DEF Target, PathUint, Platform
<1>3. c \in IntegrationConfig /\ Whole(c)
  <2>1. req.mch \in Merchants /\ {req.secret, req.public, req.enabled} \subseteq BOOLEAN
    BY RequestsAssumption DEF Merchants
  <2>2. FindPayConfig(t) \in IntegrationConfig /\ masterKey \in Keys
    BY <1>2, FoundIsTyped DEF PayInv, PayTypeOK
  <2>3. PICK f \in IntegrationConfig : f = FindPayConfig(t)
    BY <2>2
  <2> HIDE DEF t
  <2>4. Merged(f, req) \in IntegrationConfig
    BY <2>1, <2>2 DEF Merged, IntegrationConfig
  <2>5. Merged(f, req).enabled = req.enabled
    BY DEF Merged
  <2>6. Complete(Merged(f, req), req)
    BY <1>1, <2>3
  <2> QED
    BY <2>3, <2>4, <2>5, <2>6 DEF Complete, Whole
<1> HIDE DEF t, c
<1>4. v \in SaverState /\ v.at = "find" /\ v.row = c
  BY <1>2, <1>3 DEF SaverState
<1> HIDE DEF v
<1>5. /\ saver' \in [Savers -> SaverState] /\ saver'[s] = v
      /\ \A x \in Savers \ {s} : saver'[x] = saver[x]
  BY <1>1, <1>4 DEF PayInv
<1>6. PayTypeOK' /\ EnabledIsComplete' /\ resolver' \in [Resolvers -> ResolverState]
  BY <1>1, PayTypesStay DEF PayInv, EnabledIsComplete
<1>7. \A x \in Savers : SaverOK(x)'
  BY <1>1, <1>3, <1>4, <1>5 DEF PayInv, SaverOK, Configured
<1>8. \A x \in Tenants : Stale(x)'
  <2>1. \A x \in Savers : saver[x].at = "invalidate" => saver'[x] = saver[x]
    BY <1>1, <1>5 DEF Idle
  <2> QED
    BY <1>1, <2>1, ClockIs, StaleStays DEF PayInv
<1> QED
  BY <1>5, <1>6, <1>7, <1>8 DEF PayInv

LEMMA SaveFindStep ==
    ASSUME PayInv, NEW s \in Savers, SaveFind(s)
    PROVE  PayInv'
<1> DEFINE b == saver[s]
           v == [at |-> IF Configured(b.tenant) THEN "update" ELSE "create",
                 tenant |-> b.tenant, row |-> b.row]
<1>1. /\ b.at = "find" /\ saver' = [saver EXCEPT ![s] = v]
      /\ UNCHANGED <<rows, masterKey, resolver, cache, savedAt, clock>>
  BY DEF SaveFind
<1>2. b \in SaverState /\ b # Idle /\ Whole(b.row)
  BY <1>1 DEF PayInv, SaverOK, Idle
<1>3. v \in SaverState /\ v.at \in {"update", "create"} /\ v.row = b.row /\ v.tenant = b.tenant
      /\ (v.at = "update" => Configured(b.tenant))
  BY <1>2 DEF SaverState
<1> HIDE DEF v, b
<1>5. /\ saver' \in [Savers -> SaverState] /\ saver'[s] = v
      /\ \A x \in Savers \ {s} : saver'[x] = saver[x]
  BY <1>1, <1>3 DEF PayInv
<1>6. PayTypeOK' /\ EnabledIsComplete' /\ resolver' \in [Resolvers -> ResolverState]
  BY <1>1, PayTypesStay DEF PayInv, EnabledIsComplete
<1>7. \A x \in Savers : SaverOK(x)'
  BY <1>1, <1>2, <1>3, <1>5 DEF PayInv, SaverOK, Configured
<1>8. \A x \in Tenants : Stale(x)'
  <2>1. \A x \in Savers : saver[x].at = "invalidate" => saver'[x] = saver[x]
    BY <1>1, <1>5 DEF b
  <2> QED
    BY <1>1, <2>1, ClockIs, StaleStays DEF PayInv
<1> QED
  BY <1>5, <1>6, <1>7, <1>8 DEF PayInv

LEMMA SaveFailsStep ==
    ASSUME PayInv, NEW s \in Savers, SaveFails(s)
    PROVE  PayInv'
<1>1. /\ saver[s].at # "invalidate" /\ saver' = [saver EXCEPT ![s] = Idle]
      /\ UNCHANGED <<rows, masterKey, resolver, cache, savedAt, clock>>
  BY DEF SaveFails
<1>5. /\ saver' \in [Savers -> SaverState] /\ saver'[s] = Idle
      /\ \A x \in Savers \ {s} : saver'[x] = saver[x]
  BY <1>1 DEF PayInv, SaverState
<1>6. PayTypeOK' /\ EnabledIsComplete' /\ resolver' \in [Resolvers -> ResolverState]
  BY <1>1, PayTypesStay DEF PayInv, EnabledIsComplete
<1>7. \A x \in Savers : SaverOK(x)'
  BY <1>1, <1>5 DEF PayInv, SaverOK, Configured, Idle
<1>8. \A x \in Tenants : Stale(x)'
  <2>1. \A x \in Savers : saver[x].at = "invalidate" => saver'[x] = saver[x]
    BY <1>1, <1>5
  <2> QED
    BY <1>1, <2>1, ClockIs, StaleStays DEF PayInv
<1> QED
  BY <1>5, <1>6, <1>7, <1>8 DEF PayInv

\* A write puts a whole configuration where the smallest row is, or after all.
LEMMA StoredRows ==
    ASSUME NEW old \in Seq(IntegrationConfig), NEW c \in IntegrationConfig, NEW new,
           \/ old # <<>> /\ new = [old EXCEPT ![1] = c]
           \/ new = Append(old, c),
           \A i \in DOMAIN old : Whole(old[i]), Whole(c)
    PROVE  new \in Seq(IntegrationConfig) /\ \A i \in DOMAIN new : Whole(new[i])
<1>1. CASE old # <<>> /\ new = [old EXCEPT ![1] = c]
  BY <1>1
<1>2. CASE new = Append(old, c)
  <2>1. new \in Seq(IntegrationConfig) /\ DOMAIN new = 1..Len(old) + 1 /\ DOMAIN old = 1..Len(old)
    BY <1>2
  <2>2. new[Len(old) + 1] = c /\ \A i \in 1..Len(old) : new[i] = old[i]
    BY <1>2
  <2>3. PICK n \in Nat : n = Len(old)
    OBVIOUS
  <2>4. \A i \in 1..n + 1 : i \in 1..n \/ i = n + 1
    OBVIOUS
  <2> QED
    BY <2>1, <2>2, <2>3, <2>4
<1> QED
  BY <1>1, <1>2

LEMMA SaveStoreStep ==
    ASSUME PayInv, NEW s \in Savers, SaveStore(s)
    PROVE  PayInv'
<1> DEFINE b == saver[s]
           t == b.tenant
           new == IF b.at = "update" THEN [rows[t] EXCEPT ![1] = b.row] ELSE Append(rows[t], b.row)
           v == [b EXCEPT !.at = "invalidate"]
<1>1. /\ b.at \in {"update", "create"}
      /\ rows' = [rows EXCEPT ![t] = new]
      /\ savedAt' = [savedAt EXCEPT ![t] = Append(@, clock)]
      /\ saver' = [saver EXCEPT ![s] = v]
      /\ UNCHANGED <<masterKey, resolver, cache, clock>>
  BY DEF SaveStore
<1>2. /\ b \in SaverState /\ b # Idle /\ t \in Tenants /\ b.row \in IntegrationConfig
      /\ Whole(b.row) /\ (b.at = "update" => rows[t] # <<>>)
  BY <1>1 DEF PayInv, SaverOK, Idle, SaverState, Configured
<1>3. /\ rows \in [Tenants -> Seq(IntegrationConfig)] /\ savedAt \in [Tenants -> Seq(0..MaxTime)]
      /\ \A u \in Tenants : \A i \in DOMAIN rows[u] : Whole(rows[u][i])
  BY DEF PayInv, PayTypeOK, EnabledIsComplete, Whole
<1>4. new \in Seq(IntegrationConfig) /\ \A i \in DOMAIN new : Whole(new[i])
  <2>1. PICK old \in Seq(IntegrationConfig), c \in IntegrationConfig : old = rows[t] /\ c = b.row
    BY <1>2, <1>3
  <2>2. \/ old # <<>> /\ new = [old EXCEPT ![1] = c]
        \/ new = Append(old, c)
    BY <1>1, <1>2, <2>1
  <2> HIDE DEF new, t, b
  <2>3. \A i \in DOMAIN old : Whole(old[i])
    BY <1>2, <1>3, <2>1
  <2> QED
    BY <1>2, <2>1, <2>2, <2>3, StoredRows
<1>5. v \in SaverState /\ v.at = "invalidate" /\ v.tenant = t
  BY <1>2 DEF SaverState
<1> HIDE DEF new, v, t
<1>6. /\ rows' \in [Tenants -> Seq(IntegrationConfig)]
      /\ \A u \in Tenants : \A i \in DOMAIN rows'[u] : Whole(rows'[u][i])
      /\ \A u \in Tenants : rows[u] # <<>> => rows'[u] # <<>>
  <2>1. rows' \in [Tenants -> Seq(IntegrationConfig)]
    BY <1>1, <1>2, <1>3, <1>4
  <2>2. \A u \in Tenants : rows'[u] = IF u = t THEN new ELSE rows[u]
    BY <1>1, <1>3
  <2>3. new # <<>>
    <3>1. PICK old \in Seq(IntegrationConfig) : old = rows[t]
      BY <1>2, <1>3
    <3>2. old # <<>> => [old EXCEPT ![1] = b.row] # <<>>
      OBVIOUS
    <3>3. Append(old, b.row) # <<>>
      BY <1>2
    <3> QED
      BY <3>1, <3>2, <3>3, <1>1, <1>2 DEF new
  <2> QED
    BY <2>1, <2>2, <2>3, <1>3, <1>4
<1>7. /\ savedAt' \in [Tenants -> Seq(0..MaxTime)]
      /\ \A u \in Tenants \ {t} : savedAt'[u] = savedAt[u]
      /\ savedAt'[t] = Append(savedAt[t], clock)
  <2>1. clock \in 0..MaxTime
    BY DEF PayInv, PayTypeOK
  <2>2. Append(savedAt[t], clock) \in Seq(0..MaxTime)
    BY <1>2, <1>3, <2>1
  <2> QED
    BY <1>1, <1>2, <1>3, <2>2
<1>8. /\ saver' \in [Savers -> SaverState] /\ saver'[s] = v
      /\ \A x \in Savers \ {s} : saver'[x] = saver[x]
  BY <1>1, <1>5 DEF PayInv
<1>9. PayTypeOK'
  BY <1>1, <1>6, <1>7 DEF PayInv, PayTypeOK
<1>10. EnabledIsComplete' /\ resolver' \in [Resolvers -> ResolverState]
  BY <1>1, <1>6 DEF PayInv, EnabledIsComplete, Whole
<1>11. \A x \in Savers : SaverOK(x)'
  <2> SUFFICES ASSUME NEW x \in Savers PROVE SaverOK(x)'
    OBVIOUS
  <2>1. SaverOK(x) /\ saver[x] \in SaverState
    BY DEF PayInv
  <2>2. saver[x].at = "update" => saver[x].tenant \in Tenants
    BY <2>1 DEF SaverState, Idle
  <2> QED
    BY <1>5, <1>6, <1>8, <2>1, <2>2 DEF SaverOK, Configured
<1>12. \A u \in Tenants : cache[u] # NoClient /\ ~ cache[u].overlapped /\ cache[u].from # u =>
          \A i \in (cache[u].platform + 1)..version'[Platform] :
              cache[u].until <= savedAt'[Platform][i] + Ttl
  <2> SUFFICES ASSUME NEW u \in Tenants, cache[u] # NoClient, ~ cache[u].overlapped,
                      cache[u].from # u,
                      NEW i \in (cache[u].platform + 1)..version'[Platform]
               PROVE  cache[u].until <= savedAt'[Platform][i] + Ttl
    OBVIOUS
  <2>1. /\ cache[u].until <= clock + Ttl
        /\ \A j \in (cache[u].platform + 1)..version[Platform] :
              cache[u].until <= savedAt[Platform][j] + Ttl
    BY DEF PayInv, Stale
  <2>2. CASE t # Platform
    <3>1. savedAt'[Platform] = savedAt[Platform]
      BY <1>7, <2>2, TenantsAssumption
    <3>2. version'[Platform] = version[Platform]
      BY <3>1, TenantsAssumption DEF version
    <3> QED
      BY <2>1, <3>1, <3>2
  <2>3. CASE t = Platform
    <3>1. PICK q \in Seq(0..MaxTime) : q = savedAt[Platform]
      BY <1>3, TenantsAssumption
    <3>2. savedAt'[Platform] = Append(q, clock)
      BY <1>7, <2>3, <3>1
    <3>3. version[Platform] = Len(q) /\ version'[Platform] = Len(q) + 1
      BY <3>1, <3>2, TenantsAssumption DEF version
    <3>4. PICK n \in Nat, m \in Nat : n = Len(q) /\ m = cache[u].platform
      BY DEF PayInv, PayTypeOK, Client
    <3>5. i \in (m + 1)..n \/ i = n + 1
      BY <3>3, <3>4
    <3>6. Append(q, clock)[n + 1] = clock /\ \A j \in 1..n : Append(q, clock)[j] = q[j]
      BY <3>4
    <3>7. i \in (m + 1)..n => i \in 1..n
      BY <3>4
    <3> QED
      BY <2>1, <3>1, <3>2, <3>3, <3>4, <3>5, <3>6, <3>7
  <2> QED
    BY <2>2, <2>3
<1>13. \A u \in Tenants : Stale(u)'
  <2> SUFFICES ASSUME NEW u \in Tenants, cache[u] # NoClient, ~ cache[u].overlapped
               PROVE  /\ cache[u].own < version'[u] =>
                            \E x \in Savers : saver'[x].at = "invalidate" /\ saver'[x].tenant = u
                      /\ cache[u].from # u => \A i \in (cache[u].platform + 1)..version'[Platform] :
                            cache[u].until <= savedAt'[Platform][i] + Ttl
    BY <1>1 DEF PayInv, Stale
  <2>1. cache[u] \in Client /\ clock \in Nat /\ Stale(u)
    BY ClockIs DEF PayInv, PayTypeOK
  <2>2. CASE u = t
    <3>1. \E x \in Savers : saver'[x].at = "invalidate" /\ saver'[x].tenant = u
      BY <2>2, <1>5, <1>8
    <3> QED
      BY <3>1, <1>12
  <2>3. CASE u # t
    <3>1. version'[u] = version[u]
      BY <1>7, <2>3 DEF version
    <3>2. saver[s].at # "invalidate"
      BY <1>1 DEF b
    <3> QED
      BY <1>8, <1>12, <2>1, <3>1, <3>2 DEF Stale
  <2> QED
    BY <2>2, <2>3
<1> QED
  BY <1>8, <1>9, <1>10, <1>11, <1>13 DEF PayInv

LEMMA SaveInvalidateStep ==
    ASSUME PayInv, NEW s \in Savers, SaveInvalidate(s)
    PROVE  PayInv'
<1> DEFINE t == saver[s].tenant
<1>1. /\ saver[s].at = "invalidate" /\ saver' = [saver EXCEPT ![s] = Idle]
      /\ cache' = [cache EXCEPT ![t] = NoClient]
      /\ UNCHANGED <<rows, masterKey, resolver, savedAt, clock>>
  BY DEF SaveInvalidate, Without
<1>2. saver[s] \in SaverState /\ saver[s] # Idle /\ t \in Tenants
  BY <1>1 DEF PayInv, SaverState, Idle
<1>3. /\ saver' \in [Savers -> SaverState] /\ saver'[s] = Idle
      /\ \A x \in Savers \ {s} : saver'[x] = saver[x]
  BY <1>1 DEF PayInv, SaverState
<1>4. PayTypeOK'
  BY <1>1, <1>2 DEF PayInv, PayTypeOK, NoClient, Client
<1>5. EnabledIsComplete' /\ resolver' \in [Resolvers -> ResolverState]
  BY <1>1 DEF PayInv, EnabledIsComplete
<1>6. \A x \in Savers : SaverOK(x)'
  BY <1>1, <1>3 DEF PayInv, SaverOK, Configured, Idle
<1>7. \A u \in Tenants : Stale(u)'
  <2> SUFFICES ASSUME NEW u \in Tenants PROVE Stale(u)'
    OBVIOUS
  <2>1. cache \in [Tenants -> Client] /\ Stale(u) /\ version' = version
    BY <1>1 DEF PayInv, PayTypeOK, version
  <2>2. CASE u = t
    BY <1>1, <2>1, <2>2 DEF Stale
  <2>3. CASE u # t
    BY <1>1, <1>3, <2>1, <2>3 DEF Stale
  <2> QED
    BY <2>2, <2>3
<1> QED
  BY <1>3, <1>4, <1>5, <1>6, <1>7 DEF PayInv

LEMMA RestartStep ==
    ASSUME PayInv, NEW k \in Keys, Restart(k)
    PROVE  PayInv'
<1>1. /\ masterKey' = k
      /\ saver' = [s \in Savers |-> Idle] /\ resolver' = [r \in Resolvers |-> Idle]
      /\ cache' = [t \in Tenants |-> NoClient]
      /\ UNCHANGED <<rows, savedAt, clock>>
  BY DEF Restart
<1>2. PayTypeOK'
  BY <1>1 DEF PayInv, PayTypeOK, NoClient, Client
<1>3. saver' \in [Savers -> SaverState] /\ resolver' \in [Resolvers -> ResolverState]
  BY <1>1 DEF SaverState, ResolverState
<1>4. EnabledIsComplete'
  BY <1>1 DEF PayInv, EnabledIsComplete
<1>5. (\A s \in Savers : SaverOK(s)') /\ \A t \in Tenants : Stale(t)'
  BY <1>1 DEF SaverOK, Idle, Stale
<1> QED
  BY <1>2, <1>3, <1>4, <1>5 DEF PayInv

\* What else moves leaves the savers alone.
LEMMA SaversStay ==
    ASSUME PayInv, UNCHANGED <<rows, masterKey, saver>>
    PROVE  /\ saver' \in [Savers -> SaverState] /\ EnabledIsComplete'
           /\ \A s \in Savers : SaverOK(s)'
BY DEF PayInv, EnabledIsComplete, SaverOK, Configured

LEMMA ResolveBuildStep ==
    ASSUME PayInv, NEW r \in Resolvers, NEW t \in Tenants, ResolveBuild(r, t)
    PROVE  PayInv'
<1> DEFINE v(at) == [at |-> at, tenant |-> t, from |-> IF at = "store" THEN t ELSE Platform,
                     own |-> version[t], platform |-> 0]
<1>1. /\ \/ resolver' = [resolver EXCEPT ![r] = v("store")]
         \/ resolver' = [resolver EXCEPT ![r] = v("platform")]
      /\ UNCHANGED <<rows, masterKey, saver, cache, savedAt, clock>>
  BY DEF ResolveBuild
<1>2. v("store") \in ResolverState /\ v("platform") \in ResolverState
  BY TenantsAssumption, Versions DEF PayInv, ResolverState, Platform
<1>3. resolver' \in [Resolvers -> ResolverState]
  BY <1>1, <1>2 DEF PayInv
<1>4. PayTypeOK' /\ \A u \in Tenants : Stale(u)'
  BY <1>1, PayTypesStay, ClockIs, StaleStays DEF PayInv
<1> QED
  BY <1>1, <1>3, <1>4, SaversStay DEF PayInv

LEMMA ResolveFallbackStep ==
    ASSUME PayInv, NEW r \in Resolvers, ResolveFallback(r)
    PROVE  PayInv'
<1> DEFINE b == resolver[r]
           v == [b EXCEPT !.at = "store", !.platform = version[Platform]]
<1>1. /\ b.at = "platform"
      /\ \/ resolver' = [resolver EXCEPT ![r] = v]
         \/ resolver' = [resolver EXCEPT ![r] = Idle]
      /\ UNCHANGED <<rows, masterKey, saver, cache, savedAt, clock>>
  BY DEF ResolveFallback
<1>2. b \in ResolverState /\ b # Idle /\ version[Platform] \in Nat
  BY <1>1, Versions, TenantsAssumption DEF PayInv, Idle
<1>3. v \in ResolverState /\ Idle \in ResolverState
  BY <1>2 DEF ResolverState
<1>4. resolver' \in [Resolvers -> ResolverState]
  BY <1>1, <1>3 DEF PayInv
<1>5. PayTypeOK' /\ \A u \in Tenants : Stale(u)'
  BY <1>1, PayTypesStay, ClockIs, StaleStays DEF PayInv
<1> QED
  BY <1>1, <1>4, <1>5, SaversStay DEF PayInv

LEMMA ResolveStoreStep ==
    ASSUME PayInv, NEW r \in Resolvers, ResolveStore(r)
    PROVE  PayInv'
<1> DEFINE b == resolver[r]
           t == b.tenant
           v == [from |-> b.from, own |-> b.own, platform |-> b.platform, until |-> clock + Ttl,
                 overlapped |-> Outdated(t, b)]
<1>1. /\ b.at = "store" /\ cache' = [cache EXCEPT ![t] = v]
      /\ resolver' = [resolver EXCEPT ![r] = Idle]
      /\ UNCHANGED <<rows, masterKey, saver, savedAt, clock>>
  BY DEF ResolveStore
<1>2. b \in [at : {"platform", "store"}, tenant : Tenants, from : Tenants, own : Nat,
             platform : Nat]
  BY <1>1 DEF PayInv, ResolverState, Idle
<1>3. /\ v \in Client /\ v.until = clock + Ttl /\ clock \in Nat
      /\ ~ v.overlapped => /\ v.own = version[t]
                           /\ v.from # t => v.platform = version[Platform]
  <2>1. Outdated(t, b) \in BOOLEAN /\ v.overlapped = Outdated(t, b)
    BY DEF Outdated
  <2>2. clock \in Nat /\ clock + Ttl \in Nat
    BY ClockIs, TtlAssumption DEF PayInv
  <2>3. v \in Client
    BY <1>2, <2>1, <2>2 DEF Client
  <2>4. ~ Outdated(t, b) => b.own = version[t] /\ (b.from # t => b.platform = version[Platform])
    BY DEF Outdated
  <2> QED
    BY <2>1, <2>2, <2>3, <2>4
<1>4. t \in Tenants
  BY <1>2
<1> HIDE DEF v, t
<1>5. /\ cache' \in [Tenants -> Client]
      /\ cache'[t] = v /\ \A u \in Tenants \ {t} : cache'[u] = cache[u]
  BY <1>1, <1>3, <1>4 DEF PayInv, PayTypeOK
<1>6. PayTypeOK' /\ resolver' \in [Resolvers -> ResolverState]
  BY <1>1, <1>5 DEF PayInv, PayTypeOK, ResolverState
<1>7. version' = version
  BY <1>1 DEF version
<1>8. \A u \in Tenants : Stale(u)'
  <2> SUFFICES ASSUME NEW u \in Tenants PROVE Stale(u)'
    OBVIOUS
  <2>1. CASE u = t
    <3>1. version[t] \in Nat /\ version[Platform] \in Nat
      BY <1>4, Versions, TenantsAssumption DEF PayInv
    <3>2. ~ v.overlapped => ~ (v.own < version[t])
      BY <1>3, <3>1
    <3>3. ~ v.overlapped /\ v.from # t => (v.platform + 1)..version[Platform] = {}
      BY <1>3, <3>1
    <3>4. v.until <= clock + Ttl
      BY <1>3, TtlAssumption
    <3> QED
      BY <1>1, <1>5, <1>7, <2>1, <3>2, <3>3, <3>4 DEF Stale
  <2>2. CASE u # t
    <3>1. Stale(u)
      BY DEF PayInv
    <3> QED
      BY <1>1, <1>5, <1>7, <2>2, <3>1 DEF Stale
  <2> QED
    BY <2>1, <2>2
<1> QED
  BY <1>1, <1>6, <1>8, SaversStay DEF PayInv

LEMMA TickStep ==
    ASSUME PayInv, Tick
    PROVE  PayInv'
<1>1. /\ clock < MaxTime /\ clock' = clock + 1
      /\ UNCHANGED <<rows, masterKey, saver, resolver, cache, savedAt>>
  BY DEF Tick
<1>2. PayTypeOK'
  BY <1>1, TtlAssumption DEF PayInv, PayTypeOK
<1>3. \A u \in Tenants : Stale(u)'
  <2>1. clock' \in Nat /\ clock <= clock'
    BY <1>1, ClockIs DEF PayInv
  <2> QED
    BY <1>1, <2>1, StaleStays DEF PayInv
<1> QED
  BY <1>1, <1>2, <1>3, SaversStay DEF PayInv

LEMMA PayStep == PayInv /\ [PayNext]_payVars => PayInv'
<1> SUFFICES ASSUME PayInv, [PayNext]_payVars PROVE PayInv'
  OBVIOUS
<1>1. ASSUME NEW s \in Savers, Saves(s) PROVE PayInv'
  <2>1. ASSUME NEW t \in Tenants \ {Platform}, NEW q \in Requests,
               saveMerchantWechatConfig(s, t, q)
        PROVE  PayInv'
    BY <2>1, SaveReadStep DEF saveMerchantWechatConfig
  <2>2. ASSUME NEW p \in Paths, NEW q \in Requests, saveWechatConfigOf(s, p, q)
        PROVE  PayInv'
    BY <2>2, SaveReadStep, TenantsAssumption DEF saveWechatConfigOf
  <2> QED
    BY <1>1, <2>1, <2>2, SaveFindStep, SaveStoreStep, SaveInvalidateStep, SaveFailsStep DEF Saves
<1>2. ASSUME NEW r \in Resolvers, Resolves(r) PROVE PayInv'
  BY <1>2, ResolveBuildStep, ResolveFallbackStep, ResolveStoreStep DEF Resolves
<1>3. CASE UNCHANGED payVars
  BY <1>3, PayTypesStay, ClockIs, StaleStays, SaversStay DEF PayInv, payVars
<1> QED
  BY <1>1, <1>2, <1>3, RestartStep, TickStep DEF PayNext

\* What is asked of the application, in terms of the invariant.
LEMMA ClientsHold == PayInv => PayTypeOK /\ EnabledIsComplete /\ StaleEnds
<1> SUFFICES ASSUME PayInv, NEW t \in Tenants, Cached(t)
             PROVE  LET c == cache[t] IN
                    /\ c.until <= clock + Ttl
                    /\ ~ c.overlapped =>
                         /\ c.own < version[t] =>
                              \E s \in Savers : saver[s].at = "invalidate" /\ saver[s].tenant = t
                         /\ c.from # t => \A i \in (c.platform + 1)..version[Platform] :
                                             clock < savedAt[Platform][i] + Ttl
  BY DEF PayInv, StaleEnds
<1>1. Stale(t) /\ cache[t] # NoClient /\ clock < cache[t].until
  BY DEF PayInv, Cached
<1>2. clock \in Nat /\ cache[t] \in Client
  BY ClockIs DEF PayInv, PayTypeOK
<1>3. ASSUME ~ cache[t].overlapped, cache[t].from # t,
             NEW i \in (cache[t].platform + 1)..version[Platform]
      PROVE  clock < savedAt[Platform][i] + Ttl
  <2>1. cache[t].until <= savedAt[Platform][i] + Ttl
    BY <1>1, <1>3 DEF Stale
  <2>2. PICK n \in Nat, m \in Nat : n = version[Platform] /\ m = cache[t].platform
    BY <1>2, Versions, TenantsAssumption DEF PayInv, Client
  <2>3. i \in 1..n
    BY <2>2
  <2>4. savedAt[Platform][i] \in Nat /\ cache[t].until \in Nat
    BY <1>2, <2>2, <2>3, Versions, TenantsAssumption DEF PayInv, Client
  <2> QED
    BY <1>1, <1>2, <2>1, <2>4, TtlAssumption
<1> QED
  BY <1>1, <1>3 DEF Stale

-----------------------------------------------------------------------------
(* tenantpay/store.go: who an appid belongs to. *)

\* Where the tables were not written apart, they name each other and are
\* switched on together.
Together(t, a) ==
    <<t, a>> \notin apart =>
        /\ wechat[t].app = a <=> app[a].tenant = t
        /\ app[a].tenant = t => wechat[t].enabled = app[a].enabled

\* A save that nothing overtook has a current copy of the appid's row.
CopyOK(x) == x.seen <= writes[x.appid] /\ (x.seen = writes[x.appid] => x.app = app[x.appid])

BindInv ==
    /\ BindTypeOK
    /\ \A t \in Owners, a \in Apps : Together(t, a)
    /\ \A b \in Binders : binder[b] # NotBinding => CopyOK(binder[b])
    /\ \A a \in Apps \ torn : app[a].secret = newest[a]

LEMMA BindInitOK == BindInit => BindInv
<1> SUFFICES ASSUME BindInit PROVE BindInv
  OBVIOUS
<1>1. PICK bound \in Apps \cup {NoApp}, t0 \in Owners :
         /\ app = [a \in Apps |-> IF a = bound THEN [NoRow EXCEPT !.tenant = t0, !.enabled = TRUE]
                                  ELSE NoRow]
         /\ wechat = [t \in Owners |-> IF t = t0 /\ bound # NoApp
                                       THEN [NoConfig EXCEPT !.app = bound, !.enabled = TRUE]
                                       ELSE NoConfig]
  BY Zenon DEF BindInit
<1>2. NoSecret \in 0..MaxBinds
  BY BindsAssumption DEF NoSecret
<1>3. \A a \in Apps : /\ app[a].tenant = IF a = bound THEN t0 ELSE NoOwner
                      /\ app[a].enabled = (a = bound) /\ app[a].secret = NoSecret
                      /\ app[a] \in TenantWechatApp
  BY <1>1, <1>2 DEF NoRow, TenantWechatApp
<1>4. \A t \in Owners : /\ wechat[t].app = IF t = t0 THEN bound ELSE NoApp
                        /\ wechat[t].enabled = (t = t0 /\ bound # NoApp)
                        /\ wechat[t] \in TenantWechatConfig
  BY <1>1, <1>2 DEF NoConfig, TenantWechatConfig
<1>5. BindTypeOK
  BY <1>1, <1>2, <1>3, <1>4, BindsAssumption DEF BindInit, BindTypeOK, NoSecret
<1>6. \A t \in Owners, a \in Apps : Together(t, a)
  <2> SUFFICES ASSUME NEW t \in Owners, NEW a \in Apps PROVE Together(t, a)
    OBVIOUS
  <2>1. a # NoApp /\ t # NoOwner
    BY NoAppAssumption, OwnersAssumption DEF NoOwner
  <2> QED
    BY <1>3, <1>4, <2>1 DEF Together
<1> QED
  BY <1>3, <1>5, <1>6 DEF BindInv, BindInit

LEMMA BindReadStep ==
    ASSUME BindInv, NEW b \in Binders, NEW T \in Tables, NEW t \in Owners, NEW a \in Apps,
           NEW gave \in BOOLEAN, NEW on \in BOOLEAN, BindRead(b, T, t, a, gave, on)
    PROVE  BindInv'
<1> DEFINE v == [tables |-> T, tenant |-> t, appid |-> a,
                 given |-> IF gave THEN begun + 1 ELSE NoSecret, enabled |-> on,
                 app |-> app[a], config |-> wechat[t], seen |-> writes[a]]
<1>1. /\ begun < MaxBinds /\ begun' = begun + 1 /\ binder' = [binder EXCEPT ![b] = v]
      /\ UNCHANGED <<app, wechat, newest, writes, torn, apart>>
  BY DEF BindRead
<1>2. begun \in 0..MaxBinds /\ MaxBinds \in Nat
  BY BindsAssumption DEF BindInv, BindTypeOK
<1>3. begun + 1 \in 0..MaxBinds /\ NoSecret \in 0..MaxBinds
  BY <1>1, <1>2 DEF NoSecret
<1>4. v \in Binding
  BY <1>3 DEF BindInv, BindTypeOK, Binding
<1>5. v.seen = writes[a] /\ v.app = app[a] /\ v.appid = a /\ writes[a] \in Nat
  BY DEF BindInv, BindTypeOK
<1> HIDE DEF v
<1>6. /\ binder' \in [Binders -> {NotBinding} \cup Binding]
      /\ binder'[b] = v /\ \A c \in Binders \ {b} : binder'[c] = binder[c]
  BY <1>1, <1>4 DEF BindInv, BindTypeOK
<1>7. BindTypeOK'
  BY <1>1, <1>3, <1>6 DEF BindInv, BindTypeOK
<1>8. \A c \in Binders : binder'[c] # NotBinding => CopyOK(binder[c])'
  <2> SUFFICES ASSUME NEW c \in Binders, binder'[c] # NotBinding PROVE CopyOK(binder[c])'
    OBVIOUS
  <2>1. CASE c = b
    BY <1>1, <1>5, <1>6, <2>1 DEF CopyOK
  <2>2. CASE c # b
    BY <1>1, <1>6, <2>2 DEF BindInv, CopyOK
  <2> QED
    BY <2>1, <2>2
<1> QED
  BY <1>1, <1>7, <1>8 DEF BindInv, Together

LEMMA BindFailsStep ==
    ASSUME BindInv, NEW b \in Binders, BindFails(b)
    PROVE  BindInv'
<1>1. /\ binder' = [binder EXCEPT ![b] = NotBinding]
      /\ UNCHANGED <<app, wechat, begun, newest, writes, torn, apart>>
  BY DEF BindFails
<1>2. /\ binder' \in [Binders -> {NotBinding} \cup Binding]
      /\ \A c \in Binders : binder'[c] \in {NotBinding, binder[c]}
  BY <1>1 DEF BindInv, BindTypeOK
<1> QED
  BY <1>1, <1>2 DEF BindInv, BindTypeOK, Together, CopyOK

\* What a save writes, and what is remembered of it.
LEMMA BindCommitStep ==
    ASSUME BindInv, NEW b \in Binders, BindCommit(b)
    PROVE  BindInv'
<1> DEFINE x == binder[b]
           t == x.tenant
           a == x.appid
           newRow == [tenant |-> t, enabled |-> x.enabled, secret |-> Kept(x.app.secret, x.given)]
           newConfig == [app |-> a, enabled |-> x.enabled,
                         secret |-> Kept(x.config.secret, x.given)]
           before == {<<app[a].tenant, a>> : i \in x.tables \ {"config"}}
                     \cup {<<t, wechat[t].app>> : i \in x.tables \ {"app"}}
<1>1. /\ x # NotBinding /\ binder' = [binder EXCEPT ![b] = NotBinding] /\ begun' = begun
      /\ app' = IF "app" \in x.tables THEN [app EXCEPT ![a] = newRow] ELSE app
      /\ wechat' = IF "config" \in x.tables THEN [wechat EXCEPT ![t] = newConfig] ELSE wechat
      /\ IF "app" \in x.tables
         THEN /\ writes' = [writes EXCEPT ![a] = @ + 1]
              /\ newest' = [newest EXCEPT ![a] = Kept(@, x.given)]
              /\ torn' = IF x.given # NoSecret THEN torn \ {a}
                         ELSE IF x.seen # writes[a] THEN torn \cup {a}
                         ELSE torn
         ELSE UNCHANGED <<writes, newest, torn>>
      /\ apart' = IF x.tables = {"app", "config"}
                  THEN (apart \cup before) \ {<<t, a>>}
                  ELSE apart \cup before \cup {<<t, a>>}
  BY Zenon DEF BindCommit, WriteRows, Remember
<1>2. x \in Binding
  BY <1>1 DEF BindInv, BindTypeOK
<1>3. /\ x.tables \in Tables /\ t \in Owners /\ a \in Apps /\ x.given \in 0..MaxBinds
      /\ x.enabled \in BOOLEAN /\ x.app \in TenantWechatApp /\ x.config \in TenantWechatConfig
      /\ x.seen \in Nat
  BY <1>2 DEF Binding
<1>4. newRow \in TenantWechatApp /\ newConfig \in TenantWechatConfig
  BY <1>3 DEF TenantWechatApp, TenantWechatConfig, Kept
<1>5. /\ newRow.tenant = t /\ newRow.enabled = x.enabled
      /\ newRow.secret = Kept(x.app.secret, x.given)
      /\ newConfig.app = a /\ newConfig.enabled = x.enabled
  OBVIOUS
<1>6. /\ app \in [Apps -> TenantWechatApp] /\ wechat \in [Owners -> TenantWechatConfig]
      /\ newest \in [Apps -> 0..MaxBinds] /\ writes \in [Apps -> Nat] /\ torn \subseteq Apps
  BY DEF BindInv, BindTypeOK
<1> HIDE DEF newRow, newConfig
<1>7. /\ app' \in [Apps -> TenantWechatApp]
      /\ \A c \in Apps : app'[c] = IF "app" \in x.tables /\ c = a THEN newRow ELSE app[c]
  BY <1>1, <1>3, <1>4, <1>6
<1>8. /\ wechat' \in [Owners -> TenantWechatConfig]
      /\ \A u \in Owners : wechat'[u] = IF "config" \in x.tables /\ u = t
                                        THEN newConfig ELSE wechat[u]
  BY <1>1, <1>3, <1>4, <1>6
<1>9. /\ writes' \in [Apps -> Nat]
      /\ \A c \in Apps : writes'[c] = IF "app" \in x.tables /\ c = a
                                      THEN writes[c] + 1 ELSE writes[c]
  BY <1>1, <1>3, <1>6
<1>10. /\ newest' \in [Apps -> 0..MaxBinds]
       /\ \A c \in Apps : newest'[c] = IF "app" \in x.tables /\ c = a
                                       THEN Kept(newest[c], x.given) ELSE newest[c]
  BY <1>1, <1>3, <1>6 DEF Kept
<1>11. /\ binder' \in [Binders -> {NotBinding} \cup Binding]
       /\ \A c \in Binders : binder'[c] \in {NotBinding, binder[c]}
  BY <1>1 DEF BindInv, BindTypeOK
<1>12. BindTypeOK'
  BY <1>1, <1>3, <1>6, <1>7, <1>8, <1>9, <1>10, <1>11 DEF BindInv, BindTypeOK
<1>13. \A u \in Owners, c \in Apps : Together(u, c)'
  <2> SUFFICES ASSUME NEW u \in Owners, NEW c \in Apps, <<u, c>> \notin apart'
               PROVE  /\ wechat'[u].app = c <=> app'[c].tenant = u
                      /\ app'[c].tenant = u => wechat'[u].enabled = app'[c].enabled
    BY DEF Together
  <2>1. /\ <<u, c>> \notin apart =>
             /\ wechat[u].app = c <=> app[c].tenant = u
             /\ app[c].tenant = u => wechat[u].enabled = app[c].enabled
        /\ <<u, c>> \in apart => x.tables = {"app", "config"} /\ u = t /\ c = a
    BY <1>1 DEF BindInv, Together
  <2>2. CASE u = t /\ c = a
    <3>1. x.tables = {"app", "config"}
      BY <1>1, <2>2
    <3> QED
      BY <1>5, <1>7, <1>8, <2>2, <3>1
  <2>3. CASE u = t /\ c # a
    <3>1. "config" \in x.tables => wechat[t].app # c
      BY <1>1, <2>3
    <3> QED
      BY <1>5, <1>7, <1>8, <2>1, <2>3, <3>1
  <2>4. CASE u # t /\ c = a
    <3>1. "app" \in x.tables => app[a].tenant # u
      BY <1>1, <2>4
    <3> QED
      BY <1>5, <1>7, <1>8, <2>1, <2>4, <3>1
  <2>5. CASE u # t /\ c # a
    BY <1>7, <1>8, <2>1, <2>5
  <2> QED
    BY <2>2, <2>3, <2>4, <2>5
<1>14. \A c \in Binders : binder'[c] # NotBinding => CopyOK(binder[c])'
  <2> SUFFICES ASSUME NEW c \in Binders, binder'[c] # NotBinding PROVE CopyOK(binder[c])'
    OBVIOUS
  <2>1. binder'[c] = binder[c] /\ CopyOK(binder[c]) /\ binder[c] \in Binding
    BY <1>11 DEF BindInv, BindTypeOK
  <2>2. PICK y \in Binding : y = binder[c]
    BY <2>1
  <2>3. y.appid \in Apps /\ y.seen \in Nat
    BY DEF Binding
  <2>4. PICK n \in Nat : n = writes[y.appid]
    BY <1>6, <2>3
  <2>5. y.seen <= n /\ (y.seen = n => y.app = app[y.appid])
    BY <2>1, <2>2, <2>4 DEF CopyOK
  <2>6. CASE "app" \in x.tables /\ y.appid = a
    <3>1. writes'[y.appid] = n + 1
      BY <1>9, <2>3, <2>4, <2>6
    <3>2. y.seen <= n + 1 /\ y.seen # n + 1
      BY <2>3, <2>5
    <3> QED
      BY <2>1, <2>2, <3>1, <3>2 DEF CopyOK
  <2>7. CASE ~ ("app" \in x.tables /\ y.appid = a)
    BY <1>7, <1>9, <2>1, <2>2, <2>3, <2>7 DEF CopyOK
  <2> QED
    BY <2>6, <2>7
<1>15. \A c \in Apps \ torn' : app'[c].secret = newest'[c]
  <2> SUFFICES ASSUME NEW c \in Apps, c \notin torn' PROVE app'[c].secret = newest'[c]
    OBVIOUS
  <2>1. CASE "app" \in x.tables /\ c = a
    <3>1. app'[c].secret = Kept(x.app.secret, x.given) /\ newest'[c] = Kept(newest[a], x.given)
      BY <1>5, <1>7, <1>10, <2>1
    <3>2. CASE x.given # NoSecret
      BY <3>1, <3>2 DEF Kept
    <3>3. CASE x.given = NoSecret
      <4>1. x.seen = writes[a] /\ a \notin torn
        BY <1>1, <2>1, <3>3
      <4>2. x.app = app[a]
        BY <1>1, <4>1 DEF BindInv, CopyOK
      <4> QED
        BY <1>3, <3>1, <3>3, <4>1, <4>2 DEF BindInv, Kept
    <3> QED
      BY <3>2, <3>3
  <2>2. CASE ~ ("app" \in x.tables /\ c = a)
    <3>1. c \notin torn
      BY <1>1, <2>2
    <3> QED
      BY <1>7, <1>10, <2>2, <3>1 DEF BindInv
  <2> QED
    BY <2>1, <2>2
<1> QED
  BY <1>12, <1>13, <1>14, <1>15 DEF BindInv

LEMMA BindStep == BindInv /\ [BindNext]_bindVars => BindInv'
<1> SUFFICES ASSUME BindInv, [BindNext]_bindVars PROVE BindInv'
  OBVIOUS
<1>1. CASE UNCHANGED bindVars
  BY <1>1 DEF bindVars, BindInv, BindTypeOK, Together, CopyOK
<1>2. ASSUME NEW b \in Binders, NEW t \in Owners, NEW a \in Apps, NEW gave \in BOOLEAN,
             NEW on \in BOOLEAN
      PROVE  /\ SaveWechatBinding(b, t, a, gave, on) => BindInv'
             /\ SaveWechatApp(b, t, a, gave, on) => BindInv'
             /\ SaveWechatConfig(b, t, a, gave, on) => BindInv'
  BY BindReadStep DEF SaveWechatBinding, SaveWechatApp, SaveWechatConfig, Tables
<1> QED
  BY <1>1, <1>2, BindCommitStep, BindFailsStep DEF BindNext

LEMMA BindingsAgree == BindInv => BindTypeOK /\ BindingsMeet
<1> SUFFICES ASSUME BindInv, NEW a \in Apps
             PROVE  /\ \A t \in Owners : <<t, a>> \notin apart =>
                          (t \in FindEnabledWechatConfigByAppID(a) <=> FindTenantIDByAppID(a) = t)
                    /\ a \notin torn /\ app[a].enabled => WechatAppForLogin(a).secret = newest[a]
  BY DEF BindInv, BindingsMeet
<1>1. ASSUME NEW t \in Owners, <<t, a>> \notin apart
      PROVE  t \in FindEnabledWechatConfigByAppID(a) <=> FindTenantIDByAppID(a) = t
  <2>1. t # NoOwner /\ app[a].enabled \in BOOLEAN
    BY OwnersAssumption DEF NoOwner, BindInv, BindTypeOK, TenantWechatApp
  <2>2. /\ wechat[t].app = a <=> app[a].tenant = t
        /\ app[a].tenant = t => wechat[t].enabled = app[a].enabled
    BY <1>1 DEF BindInv, Together
  <2> QED
    BY <2>1, <2>2 DEF FindEnabledWechatConfigByAppID, FindTenantIDByAppID
<1>2. ASSUME a \notin torn, app[a].enabled PROVE WechatAppForLogin(a).secret = newest[a]
  BY <1>2 DEF BindInv, WechatAppForLogin
<1> QED
  BY <1>1, <1>2

-----------------------------------------------------------------------------
(* paynotify/paynotify.go: notices are booked before they are answered. *)

LEMMA NotifyInitOK == NotifyInit => NotifyTypeOK /\ AckedWasBooked
BY AttemptsAssumption DEF NotifyInit, NotifyTypeOK, AckedWasBooked, TradeStates

LEMMA AnsweredSent ==
    ASSUME NotifyTypeOK, NEW x \in Trades, NEW s \in TradeStates, NEW ok \in BOOLEAN,
           Answered(x, s, ok), sent[x][s].tries < MaxAttempts
    PROVE  /\ sent' \in [Trades -> [TradeStates -> [tries : 0..MaxAttempts, acked : BOOLEAN]]]
           /\ \A y \in Trades, r \in TradeStates :
                 sent'[y][r].acked => sent[y][r].acked \/ (y = x /\ r = s /\ ok)
<1> DEFINE e == sent[x][s]
           v == [tries |-> e.tries + 1, acked |-> e.acked \/ ok]
<1>1. e \in [tries : 0..MaxAttempts, acked : BOOLEAN]
  BY DEF NotifyTypeOK
<1>2. v \in [tries : 0..MaxAttempts, acked : BOOLEAN]
  BY <1>1, AttemptsAssumption
<1>3. sent' = [sent EXCEPT ![x] = [sent[x] EXCEPT ![s] = v]]
  BY DEF Answered, NotifyTypeOK
<1>4. v.acked = (e.acked \/ ok)
  OBVIOUS
<1> HIDE DEF v
<1>5. [sent[x] EXCEPT ![s] = v] \in [TradeStates -> [tries : 0..MaxAttempts, acked : BOOLEAN]]
  BY <1>2 DEF NotifyTypeOK
<1>6. \A y \in Trades, r \in TradeStates :
         sent'[y][r] = IF y = x /\ r = s THEN v ELSE sent[y][r]
  BY <1>3 DEF NotifyTypeOK
<1> QED
  BY <1>3, <1>4, <1>5, <1>6 DEF NotifyTypeOK

LEMMA HandleStep ==
    ASSUME NotifyTypeOK, AckedWasBooked, NEW x \in Trades, NEW s \in TradeStates, Handle(x, s)
    PROVE  NotifyTypeOK' /\ AckedWasBooked'
<1> DEFINE work == WorkOf(x, s)
<1>1. /\ s \in Notifiable(x) /\ sent[x][s].tries < MaxAttempts
      /\ UNCHANGED <<hooks, route, trade>>
      /\ \/ work = "nothing" /\ Answered(x, s, TRUE) /\ UNCHANGED booked
         \/ /\ work \notin {"nothing", "error"}
            /\ booked' = [booked EXCEPT ![x] = @ \cup {work}]
            /\ \E ok \in BOOLEAN : Answered(x, s, ok)
  BY DEF Handle
<1>2. /\ work \in {"paid", "refunded", "closed", "error", "nothing"}
      /\ s = "SUCCESS" /\ route[x].trade = "HandlePayment" => work \in {"paid", "error"}
      /\ s = "REFUND" /\ route[x].refund = "HandleRefund" => work \in {"refunded", "error"}
      /\ work = "paid" => s = "SUCCESS" /\ route[x].trade = "HandlePayment"
      /\ work = "refunded" => s = "REFUND" /\ route[x].refund = "HandleRefund"
  <2>1. /\ HandlePayment(s) \in {"paid", "closed", "error", "nothing"}
        /\ s = "SUCCESS" => HandlePayment(s) \in {"paid", "error"}
        /\ HandlePayment(s) = "paid" => s = "SUCCESS"
    <3>1. CASE s = "SUCCESS"
      BY <3>1, ClosedAssumption DEF HandlePayment
    <3>2. CASE s # "SUCCESS" /\ s \in ClosedStates /\ "close" \in hooks
      BY <3>2 DEF HandlePayment
    <3>3. CASE s # "SUCCESS" /\ ~ (s \in ClosedStates /\ "close" \in hooks)
      BY <3>3 DEF HandlePayment
    <3> QED
      BY <3>1, <3>2, <3>3
  <2>2. /\ HandleRefund(s) \in {"refunded", "error", "nothing"}
        /\ s = "REFUND" => HandleRefund(s) \in {"refunded", "error"}
        /\ HandleRefund(s) = "refunded" => s = "REFUND"
    BY DEF HandleRefund
  <2>3. RouteOf(x, s) \in Routes
    BY DEF RouteOf, NotifyTypeOK
  <2>4. CASE RouteOf(x, s) = "HandlePayment"
    BY <2>1, <2>4 DEF WorkOf, RouteOf
  <2>5. CASE RouteOf(x, s) # "HandlePayment"
    BY <2>2, <2>3, <2>5 DEF WorkOf, RouteOf, Routes
  <2> QED
    BY <2>4, <2>5
<1>3. /\ s = "SUCCESS" => trade[x] \in {"SUCCESS", "REFUND"}
      /\ s = "REFUND" => trade[x] = "REFUND"
  BY <1>1 DEF Notifiable
<1> HIDE DEF work
<1>4. PICK ok \in BOOLEAN : Answered(x, s, ok)
  BY <1>1
<1>5. /\ booked' \in [Trades -> SUBSET {"paid", "closed", "refunded"}]
      /\ \A y \in Trades : booked'[y] = booked[y] \/ (y = x /\ booked'[y] = booked[y] \cup {work})
      /\ work \notin {"nothing", "error"} => booked'[x] = booked[x] \cup {work}
  <2>1. CASE booked' = booked /\ work = "nothing"
    BY <2>1 DEF NotifyTypeOK
  <2>2. CASE work \notin {"nothing", "error"} /\ booked' = [booked EXCEPT ![x] = @ \cup {work}]
    <3>1. booked[x] \cup {work} \in SUBSET {"paid", "closed", "refunded"}
      BY <1>2, <2>2 DEF NotifyTypeOK
    <3> QED
      BY <2>2, <3>1 DEF NotifyTypeOK
  <2> QED
    BY <1>1, <2>1, <2>2
<1>6. /\ sent' \in [Trades -> [TradeStates -> [tries : 0..MaxAttempts, acked : BOOLEAN]]]
      /\ \A y \in Trades, r \in TradeStates :
            sent'[y][r].acked => sent[y][r].acked \/ (y = x /\ r = s)
  BY <1>1, <1>4, AnsweredSent
<1>7. NotifyTypeOK'
  BY <1>1, <1>5, <1>6 DEF NotifyTypeOK
<1>8. AckedWasBooked'
  <2> SUFFICES ASSUME NEW y \in Trades
               PROVE  /\ route[y].trade = "HandlePayment" =>
                           (sent'[y]["SUCCESS"].acked => "paid" \in booked'[y])
                      /\ route[y].refund = "HandleRefund" =>
                           (sent'[y]["REFUND"].acked => "refunded" \in booked'[y])
                      /\ "paid" \in booked'[y] => /\ trade'[y] \in {"SUCCESS", "REFUND"}
                                                  /\ route[y].trade = "HandlePayment"
                      /\ "refunded" \in booked'[y] => /\ trade'[y] = "REFUND"
                                                      /\ route[y].refund = "HandleRefund"
    BY <1>1 DEF AckedWasBooked
  <2>1. /\ route[y].trade = "HandlePayment" => (sent[y]["SUCCESS"].acked => "paid" \in booked[y])
        /\ route[y].refund = "HandleRefund" =>
             (sent[y]["REFUND"].acked => "refunded" \in booked[y])
        /\ "paid" \in booked[y] => /\ trade[y] \in {"SUCCESS", "REFUND"}
                                   /\ route[y].trade = "HandlePayment"
        /\ "refunded" \in booked[y] => /\ trade[y] = "REFUND"
                                       /\ route[y].refund = "HandleRefund"
    BY DEF AckedWasBooked
  <2>2. work # "error"
    BY <1>1
  <2>3. "SUCCESS" \in TradeStates /\ "REFUND" \in TradeStates
    BY DEF TradeStates
  <2>4. booked[y] \subseteq booked'[y]
    BY <1>5
  <2>5. \A w \in booked'[y] : w \in booked[y] \/ (y = x /\ w = work)
    BY <1>5
  <2>6. route[y].trade = "HandlePayment" => (sent'[y]["SUCCESS"].acked => "paid" \in booked'[y])
    <3>1. CASE y = x /\ s = "SUCCESS"
      BY <3>1, <1>2, <1>5, <2>2
    <3>2. CASE ~ (y = x /\ s = "SUCCESS")
      BY <3>2, <1>6, <2>1, <2>3, <2>4
    <3> QED
      BY <3>1, <3>2
  <2>7. route[y].refund = "HandleRefund" =>
          (sent'[y]["REFUND"].acked => "refunded" \in booked'[y])
    <3>1. CASE y = x /\ s = "REFUND"
      BY <3>1, <1>2, <1>5, <2>2
    <3>2. CASE ~ (y = x /\ s = "REFUND")
      BY <3>2, <1>6, <2>1, <2>3, <2>4
    <3> QED
      BY <3>1, <3>2
  <2>8. /\ "paid" \in booked'[y] => /\ trade'[y] \in {"SUCCESS", "REFUND"}
                                    /\ route[y].trade = "HandlePayment"
        /\ "refunded" \in booked'[y] => /\ trade'[y] = "REFUND"
                                        /\ route[y].refund = "HandleRefund"
    BY <1>1, <1>2, <1>3, <2>1, <2>5
  <2> QED
    BY <2>6, <2>7, <2>8
<1> QED
  BY <1>7, <1>8

LEMMA RefuseStep ==
    ASSUME NotifyTypeOK, AckedWasBooked, NEW x \in Trades, NEW s \in TradeStates, Refuse(x, s)
    PROVE  NotifyTypeOK' /\ AckedWasBooked'
<1>1. /\ sent[x][s].tries < MaxAttempts /\ Answered(x, s, FALSE)
      /\ UNCHANGED <<hooks, route, trade, booked>>
  BY DEF Refuse
<1>2. /\ sent' \in [Trades -> [TradeStates -> [tries : 0..MaxAttempts, acked : BOOLEAN]]]
      /\ \A y \in Trades, r \in TradeStates : sent'[y][r].acked => sent[y][r].acked
  BY <1>1, AnsweredSent
<1> QED
  BY <1>1, <1>2 DEF NotifyTypeOK, AckedWasBooked, TradeStates

LEMMA TradeMoves ==
    ASSUME NotifyTypeOK, AckedWasBooked, NEW x \in Trades, TradeStep(x)
    PROVE  NotifyTypeOK' /\ AckedWasBooked'
<1>1. UNCHANGED <<hooks, route, sent, booked>>
  BY DEF TradeStep
<1>2. /\ trade' \in [Trades -> TradeStates]
      /\ \A y \in Trades :
            /\ trade[y] \in {"SUCCESS", "REFUND"} => trade'[y] \in {"SUCCESS", "REFUND"}
            /\ trade[y] = "REFUND" => trade'[y] = "REFUND"
  BY DEF TradeStep, NotifyTypeOK, TradeStates
<1> QED
  BY <1>1, <1>2 DEF NotifyTypeOK, AckedWasBooked

LEMMA NotifyStep ==
    NotifyTypeOK /\ AckedWasBooked /\ [NotifyNext]_notifyVars => NotifyTypeOK' /\ AckedWasBooked'
<1> SUFFICES ASSUME NotifyTypeOK, AckedWasBooked, [NotifyNext]_notifyVars
             PROVE  NotifyTypeOK' /\ AckedWasBooked'
  OBVIOUS
<1>1. CASE UNCHANGED notifyVars
  BY <1>1 DEF notifyVars, NotifyTypeOK, AckedWasBooked
<1> QED
  BY <1>1, HandleStep, RefuseStep, TradeMoves DEF NotifyNext

-----------------------------------------------------------------------------
(* tenantpay/executor.go: tasks save stale copies over each other. *)

TaskStages ==
    {"idle", "create", "launch", "save", "failed", "query", "update", "decide", "return",
     "returned", "refused"}

TaskRecord ==
    [at : TaskStages, op : {"none", "submit", "again", "refund"},
     order : Orders \cup {NoTask.order}, ps : ProfitSharingOrder,
     answer : {"unasked", "unshared", "shared"}]

SharingTyped == PSTypeOK /\ task \in [Tasks -> TaskRecord]

\* What a record, in the table or in a copy of a task, says of an order is
\* what WeChat has completed.
Backed(ps, o) ==
    /\ ps.status \in {"succeeded", "refunded"} => share[o] = "success"
    /\ ps.status = "refunded" => back[o] = "success"

\* A row that is there asks for something, and for no more than was paid.
SharingRowOK(o) ==
    /\ Backed(row[o], o)
    /\ row[o] # Absent => row[o].status # "absent" /\ row[o].commission \in 1..Paid[o]

\* A share is of the row's commission: nobody can change that any more.
RowShareOK(o) ==
    share[o] # "none" => row[o].status # "absent" /\ amount[o] = row[o].commission

\* A copy agrees with the row on the commission, though not on the status.
Copied(ps, o) ==
    /\ ps.status # "absent" /\ row[o].status # "absent"
    /\ ps.commission = row[o].commission
    /\ Backed(ps, o)

\* Whoever is past the creation works on a copy; a task that WeChat told of
\* the completed share has noted it before it decides on the refund.
TaskOK(k) ==
    /\ task[k].at # "idle" => task[k].order \in Orders
    /\ task[k].at \notin {"idle", "create"} => Copied(task[k].ps, task[k].order)
    /\ task[k].at = "query" => task[k].answer = "unasked"
    /\ task[k].at \in {"update", "decide"} /\ task[k].answer = "shared"
       => task[k].ps.status = "succeeded"
    /\ task[k].at = "returned" => task[k].ps.status = "refunded"

SharingInv ==
    /\ SharingTyped
    /\ \A o \in Orders : SharingRowOK(o) /\ RowShareOK(o)
    /\ \A k \in Tasks : TaskOK(k)
    /\ RefundsKeepWhatIsKnown

(* What the actions are made of. *)

LEMMA NoTaskFacts ==
    /\ NoTask \in TaskRecord /\ NoTask.at = "idle"
    /\ Absent \in ProfitSharingOrder /\ Absent.status = "absent"
BY DEF NoTask, Absent, TaskRecord, TaskStages, ProfitSharingOrder, Statuses

\* One task has changed, and is now t.
Becomes(k, t) ==
    /\ task' \in [Tasks -> TaskRecord]
    /\ task'[k] = t
    /\ \A j \in Tasks \ {k} : task'[j] = task[j]

LEMMA DoEffect ==
    ASSUME SharingTyped, NEW k \in Tasks, NEW at \in TaskStages,
           NEW op \in {"submit", "again", "refund"}, NEW o \in Orders,
           NEW ps \in ProfitSharingOrder, Do(k, at, op, o, ps)
    PROVE  Becomes(k, [at |-> at, op |-> op, order |-> o, ps |-> ps, answer |-> "unasked"])
<1> DEFINE t == [at |-> at, op |-> op, order |-> o, ps |-> ps, answer |-> "unasked"]
<1>1. t \in TaskRecord
  BY DEF TaskRecord
<1>2. task' = [task EXCEPT ![k] = t] /\ task \in [Tasks -> TaskRecord]
  BY DEF Do, SharingTyped
<1> QED
  BY <1>1, <1>2 DEF Becomes

LEMMA GoEffect ==
    ASSUME SharingTyped, NEW k \in Tasks, NEW at \in TaskStages, Go(k, at)
    PROVE  Becomes(k, [task[k] EXCEPT !.at = at])
<1>1. task' = [task EXCEPT ![k].at = at] /\ task \in [Tasks -> TaskRecord]
  BY DEF Go, SharingTyped
<1>2. [task[k] EXCEPT !.at = at] \in TaskRecord
  BY <1>1 DEF TaskRecord
<1> QED
  BY <1>1, <1>2 DEF Becomes

LEMMA EndEffect ==
    ASSUME SharingTyped, NEW k \in Tasks, End(k)
    PROVE  Becomes(k, NoTask) /\ TaskOK(k)'
<1>1. Becomes(k, NoTask)
  BY NoTaskFacts DEF End, SharingTyped, Becomes
<1>2. task'[k].at = "idle"
  BY <1>1, NoTaskFacts DEF Becomes
<1> QED
  BY <1>1, <1>2 DEF TaskOK

\* What a step may do to an order: a row stays and keeps its commission, and
\* what WeChat has completed stays so.
Grows(o) ==
    /\ row[o].status # "absent"
       => row'[o].status # "absent" /\ row'[o].commission = row[o].commission
    /\ share[o] = "success" => share'[o] = "success"
    /\ back[o] = "success" => back'[o] = "success"

LEMMA SharingFrame ==
    ASSUME NEW k \in Tasks, TaskOK(k), task'[k] = task[k], \A o \in Orders : Grows(o)
    PROVE  TaskOK(k)'
<1>1. CASE task[k].at = "idle"
  BY <1>1 DEF TaskOK
<1>2. CASE task[k].at # "idle"
  <2>1. task[k].order \in Orders /\ Grows(task[k].order)
    BY <1>2 DEF TaskOK
  <2>2. Copied(task[k].ps, task[k].order) => Copied(task[k].ps, task[k].order)'
    BY <2>1 DEF Copied, Backed, Grows
  <2> QED
    BY <2>1, <2>2 DEF TaskOK
<1> QED
  BY <1>1, <1>2

LEMMA OneTask ==
    ASSUME NEW k \in Tasks, \A j \in Tasks : TaskOK(j), \A o \in Orders : Grows(o),
           \A j \in Tasks \ {k} : task'[j] = task[j], TaskOK(k)'
    PROVE  \A j \in Tasks : TaskOK(j)'
<1> SUFFICES ASSUME NEW j \in Tasks, j # k PROVE TaskOK(j)'
  OBVIOUS
<1> QED
  BY SharingFrame

\* The order a busy task works on.
LEMMA Busy ==
    ASSUME SharingInv, NEW k \in Tasks, task[k].at \notin {"idle", "create"}
    PROVE  /\ task[k] \in TaskRecord /\ task[k].order \in Orders
           /\ task[k].ps \in ProfitSharingOrder /\ Copied(task[k].ps, task[k].order)
           /\ task[k].ps.commission \in 1..Paid[task[k].order]
<1>1. task[k] \in TaskRecord /\ TaskOK(k)
  BY DEF SharingInv, SharingTyped
<1>2. task[k].order \in Orders /\ Copied(task[k].ps, task[k].order)
  BY <1>1 DEF TaskOK
<1>3. SharingRowOK(task[k].order)
  BY <1>2 DEF SharingInv
<1> QED
  BY <1>1, <1>2, <1>3, NoTaskFacts DEF TaskRecord, Copied, SharingRowOK

\* Saving a copy over the row of its order.
SavedRow(o, ps) == row' = [row EXCEPT ![o] = ps]

LEMMA SaveEffect ==
    ASSUME SharingInv, NEW o \in Orders, NEW ps \in ProfitSharingOrder, Copied(ps, o),
           SavedRow(o, ps) \/ UNCHANGED row, UNCHANGED <<share, amount, back>>
    PROVE  /\ row' \in [Orders -> ProfitSharingOrder]
           /\ \A p \in Orders : Grows(p) /\ SharingRowOK(p)' /\ RowShareOK(p)'
<1>1. row \in [Orders -> ProfitSharingOrder]
  BY DEF SharingInv, SharingTyped, PSTypeOK
<1>2. row' \in [Orders -> ProfitSharingOrder]
  BY <1>1 DEF SavedRow
<1> SUFFICES ASSUME NEW p \in Orders PROVE Grows(p) /\ SharingRowOK(p)' /\ RowShareOK(p)'
  BY <1>2
<1>3. SharingRowOK(p) /\ RowShareOK(p)
  BY DEF SharingInv
<1>4. CASE row'[p] = row[p]
  BY <1>3, <1>4 DEF Grows, SharingRowOK, RowShareOK, Backed
<1>5. CASE p = o /\ row'[p] = ps
  BY <1>3, <1>5, NoTaskFacts DEF Grows, SharingRowOK, RowShareOK, Backed, Copied
<1> QED
  BY <1>1, <1>4, <1>5 DEF SavedRow

LEMMA StillRows ==
    ASSUME SharingInv, UNCHANGED <<row, share, amount, back>>
    PROVE  \A p \in Orders : Grows(p) /\ SharingRowOK(p)' /\ RowShareOK(p)'
BY DEF SharingInv, Grows, SharingRowOK, RowShareOK, Backed

\* The commission is between what is worth sharing and what was paid.
LEMMA CommissionBounds ==
    ASSUME NEW paid \in Nat, NEW c \in TenantCommission
    PROVE  CalcCommission(paid, c) \in 0..paid
<1> DEFINE cut == (paid * c.rate) \div 10000
<1>1. c.rate \in Nat /\ c.min \in Nat
  BY DEF TenantCommission
<1>2. paid * c.rate \in Nat
  BY <1>1
<1>3. cut \in Nat
  BY <1>2
<1> HIDE DEF cut
<1>4. Most(cut, c.min) \in Nat
  BY <1>1, <1>3 DEF Most
<1>5. Least(Most(cut, c.min), paid) \in 0..paid
  BY <1>4 DEF Least
<1>6. CalcCommission(paid, c) \in {0, Least(Most(cut, c.min), paid)}
  BY DEF CalcCommission, cut
<1> QED
  BY <1>5, <1>6

LEMMA SharingInitOK == PSInit => SharingInv
<1> SUFFICES ASSUME PSInit PROVE SharingInv
  OBVIOUS
<1>1. SharingTyped
  <2>1. row \in [Orders -> ProfitSharingOrder] /\ task \in [Tasks -> TaskRecord]
    BY NoTaskFacts DEF PSInit
  <2>2. config \in TenantCommission /\ calls \in 0..MaxCalls
    BY CallsAssumption DEF PSInit, TenantCommission
  <2>3. /\ share \in [Orders -> Settling] /\ back \in [Orders -> Settling]
        /\ amount \in [Orders -> Nat]
        /\ cleared \in [Orders -> {"not", "returned", "unshared"}
                                  \X {"unasked", "unshared", "shared"}]
    BY DEF PSInit, Settling
  <2> QED
    BY <2>1, <2>2, <2>3 DEF SharingTyped, PSTypeOK
<1>2. \A o \in Orders : SharingRowOK(o) /\ RowShareOK(o)
  BY NoTaskFacts DEF PSInit, SharingRowOK, RowShareOK, Backed
<1>3. \A k \in Tasks : TaskOK(k)
  BY NoTaskFacts DEF PSInit, TaskOK
<1>4. RefundsKeepWhatIsKnown
  BY DEF PSInit, RefundsKeepWhatIsKnown
<1> QED
  BY <1>1, <1>2, <1>3, <1>4 DEF SharingInv

(* Every step preserves the invariant *)

\* A step of one task: what is left to show once its effects are known.
LEMMA StepOfTask ==
    ASSUME SharingInv, NEW k \in Tasks, NEW t, Becomes(k, t), PSTypeOK',
           \A o \in Orders : Grows(o) /\ SharingRowOK(o)' /\ RowShareOK(o)',
           TaskOK(k)', RefundsKeepWhatIsKnown'
    PROVE  SharingInv'
<1>1. \A j \in Tasks : TaskOK(j)'
  BY OneTask DEF SharingInv, Becomes
<1>2. SharingTyped'
  BY DEF SharingTyped, Becomes
<1> QED
  BY <1>1, <1>2 DEF SharingInv

\* The types of a step that saves a row at most.
LEMMA SharingTypes ==
    ASSUME SharingInv, row' \in [Orders -> ProfitSharingOrder],
           UNCHANGED <<config, share, amount, back, calls>>, UNCHANGED cleared
    PROVE  PSTypeOK' /\ RefundsKeepWhatIsKnown'
BY DEF SharingInv, SharingTyped, PSTypeOK, RefundsKeepWhatIsKnown

LEMMA ClearedStep ==
    ASSUME SharingInv, row' \in [Orders -> ProfitSharingOrder], NEW o \in Orders,
           UNCHANGED <<config, share, amount, back, calls>>,
           NEW how \in {"returned", "unshared"}, NEW answer \in {"unasked", "unshared", "shared"},
           Cleared(o, how, answer),
           how = "returned" => back[o] = "success",
           how = "unshared" => answer # "shared"
    PROVE  PSTypeOK' /\ RefundsKeepWhatIsKnown'
<1> DEFINE Ways == {"not", "returned", "unshared"} \X {"unasked", "unshared", "shared"}
<1>1. /\ cleared \in [Orders -> Ways] /\ <<how, answer>> \in Ways
      /\ cleared' = [cleared EXCEPT ![o] = <<how, answer>>]
  BY DEF SharingInv, SharingTyped, PSTypeOK, Cleared
<1>2. cleared' \in [Orders -> Ways]
  BY <1>1
<1>3. PSTypeOK'
  BY <1>2 DEF SharingInv, SharingTyped, PSTypeOK
<1>4. ASSUME NEW p \in Orders
      PROVE  /\ cleared'[p][1] = "returned" => back'[p] = "success"
             /\ cleared'[p][1] = "unshared" => cleared'[p][2] # "shared"
  <2>1. CASE p = o
    BY <1>1, <2>1
  <2>2. CASE p # o
    BY <1>1, <2>2 DEF SharingInv, RefundsKeepWhatIsKnown
  <2> QED
    BY <2>1, <2>2
<1> QED
  BY <1>3, <1>4 DEF RefundsKeepWhatIsKnown

LEMMA FreeTask ==
    ASSUME SharingInv, NEW k \in Tasks, NEW at \in TaskStages \ {"returned"},
           NEW op \in {"submit", "again", "refund"}, NEW o \in Orders,
           Do(k, at, op, o, row[o]), row[o].status # "absent",
           UNCHANGED <<row, config, share, amount, back, cleared, calls>>
    PROVE  SharingInv'
<1> DEFINE t == [at |-> at, op |-> op, order |-> o, ps |-> row[o], answer |-> "unasked"]
<1>1. row \in [Orders -> ProfitSharingOrder] /\ SharingRowOK(o)
  BY DEF SharingInv, SharingTyped, PSTypeOK
<1>2. Becomes(k, t)
  BY <1>1, DoEffect DEF SharingInv
<1>3. Copied(t.ps, o)'
  BY <1>1 DEF Copied, SharingRowOK, Backed
<1>4. TaskOK(k)'
  BY <1>2, <1>3 DEF TaskOK, Becomes
<1>5. PSTypeOK' /\ RefundsKeepWhatIsKnown'
  BY <1>1, SharingTypes
<1> QED
  BY <1>2, <1>4, <1>5, StillRows, StepOfTask

\* A task that has ended, whatever it saved.
LEMMA EndStep ==
    ASSUME SharingInv, NEW k \in Tasks, End(k), PSTypeOK', RefundsKeepWhatIsKnown',
           \A o \in Orders : Grows(o) /\ SharingRowOK(o)' /\ RowShareOK(o)'
    PROVE  SharingInv'
<1>1. Becomes(k, NoTask) /\ TaskOK(k)'
  BY EndEffect DEF SharingInv
<1> QED
  BY <1>1, StepOfTask

LEMMA SubmitFindStep ==
    ASSUME SharingInv, NEW k \in Tasks, NEW o \in Orders, SubmitFind(k, o)
    PROVE  SharingInv'
<1> DEFINE t == [at |-> "create", op |-> "submit", order |-> o, ps |-> Absent,
                 answer |-> "unasked"]
<1>1. Becomes(k, t)
  BY DoEffect, NoTaskFacts DEF SubmitFind, SharingInv, TaskStages
<1>2. TaskOK(k)'
  BY <1>1 DEF TaskOK, Becomes
<1>3. PSTypeOK' /\ RefundsKeepWhatIsKnown'
  BY SharingTypes DEF SubmitFind, SharingInv, SharingTyped, PSTypeOK
<1> QED
  BY <1>1, <1>2, <1>3, StillRows, StepOfTask DEF SubmitFind

LEMMA NewRow ==
    ASSUME SharingInv, NEW k \in Tasks, NEW o \in Orders, row[o] = Absent,
           NEW ps \in ProfitSharingOrder, ps.status = "pending", ps.commission \in 1..Paid[o],
           row' = [row EXCEPT ![o] = ps], Do(k, "launch", "submit", o, ps),
           UNCHANGED <<config, share, amount, back, cleared, calls>>
    PROVE  SharingInv'
<1> DEFINE t == [at |-> "launch", op |-> "submit", order |-> o, ps |-> ps,
                 answer |-> "unasked"]
<1>1. row \in [Orders -> ProfitSharingOrder] /\ row' \in [Orders -> ProfitSharingOrder]
  BY DEF SharingInv, SharingTyped, PSTypeOK
<1>2. PSTypeOK' /\ RefundsKeepWhatIsKnown'
  BY <1>1, SharingTypes
<1>3. share[o] = "none"
  BY NoTaskFacts DEF SharingInv, RowShareOK
<1>4. ASSUME NEW p \in Orders PROVE Grows(p) /\ SharingRowOK(p)' /\ RowShareOK(p)'
  <2>1. CASE p = o
    BY <1>1, <1>3, <2>1, NoTaskFacts DEF Grows, SharingRowOK, RowShareOK, Backed
  <2>2. CASE p # o
    BY <1>1, <2>2 DEF SharingInv, Grows, SharingRowOK, RowShareOK, Backed
  <2> QED
    BY <2>1, <2>2
<1>5. Becomes(k, t)
  BY DoEffect DEF SharingInv, TaskStages
<1>6. Copied(ps, o)'
  BY <1>1 DEF Copied, Backed
<1>7. TaskOK(k)'
  BY <1>5, <1>6 DEF TaskOK, Becomes
<1> QED
  BY <1>2, <1>4, <1>5, <1>7, StepOfTask

LEMMA SubmitCreateStep ==
    ASSUME SharingInv, NEW k \in Tasks, SubmitCreate(k)
    PROVE  SharingInv'
<1> DEFINE o == task[k].order
           ps == [status |-> "pending", commission |-> CalcCommission(Paid[o], config)]
           creates == ps.commission > 0 /\ row[o] = Absent
<1>1. /\ o \in Orders /\ row \in [Orders -> ProfitSharingOrder]
      /\ config \in TenantCommission /\ Paid[o] \in Nat
  BY PaidAssumption DEF SubmitCreate, SharingInv, SharingTyped, TaskOK, PSTypeOK
<1>2. ps.commission \in 0..Paid[o] /\ ps \in ProfitSharingOrder
  BY <1>1, CommissionBounds DEF ProfitSharingOrder, Statuses
<1>3. /\ row' = [row EXCEPT ![o] = IF creates THEN ps ELSE @]
      /\ IF creates THEN Do(k, "launch", "submit", o, ps) ELSE End(k)
      /\ UNCHANGED <<config, share, amount, back, cleared, calls>>
  BY DEF SubmitCreate
<1>4. CASE ~ creates
  <2>1. row' = row /\ End(k)
    BY <1>1, <1>3, <1>4
  <2>2. PSTypeOK' /\ RefundsKeepWhatIsKnown'
    BY <1>1, <1>3, <2>1, SharingTypes
  <2> QED
    BY <1>3, <2>1, <2>2, StillRows, EndStep
<1>5. CASE creates
  <2>1. /\ row' = [row EXCEPT ![o] = ps] /\ Do(k, "launch", "submit", o, ps)
        /\ ps.commission \in 1..Paid[o] /\ row[o] = Absent
    BY <1>1, <1>2, <1>3, <1>5
  <2>2. ps.status = "pending"
    OBVIOUS
  <2> HIDE DEF ps
  <2> QED
    BY <1>1, <1>2, <1>3, <2>1, <2>2, NewRow
<1> QED
  BY <1>4, <1>5

LEMMA ReturnForRefundStep ==
    ASSUME SharingInv, NEW k \in Tasks, NEW o \in Orders, ReturnForRefund(k, o)
    PROVE  SharingInv'
<1>1. /\ row \in [Orders -> ProfitSharingOrder]
      /\ UNCHANGED <<row, config, share, amount, back, calls>>
  BY DEF ReturnForRefund, SharingInv, SharingTyped, PSTypeOK
<1>2. CASE UNCHANGED task /\ \/ row[o] = Absent /\ Cleared(o, "unshared", "unasked")
                             \/ row[o].status = "refunded" /\ Cleared(o, "returned", "unasked")
  <2>1. row[o].status = "refunded" => back[o] = "success"
    BY DEF SharingInv, SharingRowOK, Backed
  <2>2. PSTypeOK' /\ RefundsKeepWhatIsKnown'
    BY <1>1, <1>2, <2>1, ClearedStep
  <2>3. Becomes(k, task[k])
    BY <1>2 DEF Becomes, SharingInv, SharingTyped
  <2>4. \A p \in Orders : Grows(p) /\ SharingRowOK(p)' /\ RowShareOK(p)'
    BY <1>1, StillRows
  <2>5. TaskOK(k)'
    BY <1>2, <2>4, SharingFrame DEF SharingInv
  <2> QED
    BY <2>2, <2>3, <2>4, <2>5, StepOfTask
<1>3. CASE /\ row[o] # Absent /\ UNCHANGED cleared
           /\ \/ Do(k, "return", "refund", o, row[o])
              \/ Do(k, "query", "refund", o, row[o])
  <2>1. row[o].status # "absent"
    BY <1>1, <1>3 DEF SharingInv, SharingRowOK
  <2> QED
    BY <1>1, <1>3, <2>1, FreeTask DEF TaskStages
<1>4. CASE row[o] = Absent
  <2>1. Cleared(o, "unshared", "unasked") /\ UNCHANGED task
    BY <1>4, NoTaskFacts, SMT DEF ReturnForRefund, Cleared
  <2> QED
    BY <1>2, <1>4, <2>1
<1>5. CASE row[o] # Absent /\ row[o].status = "refunded"
  BY <1>2, <1>5 DEF ReturnForRefund, Cleared
<1>6. CASE row[o] # Absent /\ row[o].status # "refunded"
  BY <1>3, <1>6 DEF ReturnForRefund, Do
<1> QED
  BY <1>4, <1>5, <1>6

\* A busy task goes on with its copy, after whatever happened at WeChat.
LEMMA NoteStep ==
    ASSUME SharingInv, NEW k \in Tasks, task[k].at \notin {"idle", "create"},
           NEW t \in TaskRecord, Becomes(k, t), t.order = task[k].order, t.at # "query",
           t.ps.commission = task[k].ps.commission, t.ps.status # "absent",
           Backed(t.ps, t.order)',
           t.at \in {"update", "decide"} /\ t.answer = "shared" => t.ps.status = "succeeded",
           t.at = "returned" => t.ps.status = "refunded",
           \A o \in Orders : Grows(o) /\ SharingRowOK(o)' /\ RowShareOK(o)',
           PSTypeOK', RefundsKeepWhatIsKnown'
    PROVE  SharingInv'
<1>1. /\ t.order \in Orders /\ Grows(t.order)
      /\ task[k].ps.commission = row[t.order].commission /\ row[t.order].status # "absent"
  BY Busy DEF Copied
<1>2. Copied(t.ps, t.order)'
  BY <1>1 DEF Copied, Grows
<1>3. task'[k] = t
  BY DEF Becomes
<1>4. TaskOK(k)'
  BY <1>1, <1>2, <1>3 DEF TaskOK
<1> QED
  BY <1>4, StepOfTask

LEMMA GoStep ==
    ASSUME SharingInv, NEW k \in Tasks, task[k].at \notin {"idle", "create"},
           NEW at \in TaskStages \ {"query", "returned"}, Go(k, at),
           at \in {"update", "decide"} /\ task[k].answer = "shared"
           => task[k].ps.status = "succeeded",
           \A o \in Orders : Grows(o) /\ SharingRowOK(o)' /\ RowShareOK(o)',
           PSTypeOK', RefundsKeepWhatIsKnown'
    PROVE  SharingInv'
<1> DEFINE t == [task[k] EXCEPT !.at = at]
<1>1. Becomes(k, t)
  BY GoEffect DEF SharingInv
<1>2. /\ task[k] \in TaskRecord /\ task[k].order \in Orders /\ Grows(task[k].order)
      /\ Copied(task[k].ps, task[k].order)
  BY Busy
<1>3. /\ t \in TaskRecord /\ t.at = at /\ t.order = task[k].order /\ t.ps = task[k].ps
      /\ t.answer = task[k].answer
  BY <1>2 DEF TaskRecord
<1> HIDE DEF t
<1>4. PICK u \in TaskRecord : u = t
  BY <1>3
<1>5. Backed(u.ps, u.order)'
  BY <1>2, <1>3, <1>4 DEF Copied, Backed, Grows
<1>6. u.ps.status # "absent"
  BY <1>2, <1>3, <1>4 DEF Copied
<1> QED
  BY <1>1, <1>3, <1>4, <1>5, <1>6, NoteStep

\* A busy task saves its copy, or fails to, and ends.
LEMMA SaveStep ==
    ASSUME SharingInv, NEW k \in Tasks, task[k].at \notin {"idle", "create"},
           NEW ps \in ProfitSharingOrder, Copied(ps, task[k].order),
           SavedRow(task[k].order, ps) \/ UNCHANGED row,
           End(k), UNCHANGED <<config, share, amount, back, cleared, calls>>
    PROVE  SharingInv'
<1>1. task[k].order \in Orders
  BY Busy
<1>2. /\ row' \in [Orders -> ProfitSharingOrder]
      /\ \A o \in Orders : Grows(o) /\ SharingRowOK(o)' /\ RowShareOK(o)'
  BY <1>1, SaveEffect
<1> QED
  BY <1>2, SharingTypes, EndStep

LEMMA LaunchCallStep ==
    ASSUME SharingInv, NEW k \in Tasks, LaunchCall(k)
    PROVE  SharingInv'
<1> DEFINE o == task[k].order
<1>1. /\ task[k].at = "launch" /\ task[k] \in TaskRecord /\ o \in Orders
      /\ Copied(task[k].ps, o) /\ task[k].ps.commission \in 1..Paid[o]
  BY Busy DEF LaunchCall
<1>2. /\ row \in [Orders -> ProfitSharingOrder] /\ share \in [Orders -> Settling]
      /\ amount \in [Orders -> Nat] /\ calls \in 0..MaxCalls /\ MaxCalls \in Nat
      /\ task \in [Tasks -> TaskRecord] /\ Paid[o] \in Nat
  BY <1>1, CallsAssumption, PaidAssumption DEF SharingInv, SharingTyped, PSTypeOK
<1>3. PICK state \in Settling :
         /\ share[o] # "none" => state = share[o]
         /\ state # "none"
         /\ share' = [share EXCEPT ![o] = state]
         /\ amount' = [amount EXCEPT ![o] = IF share[o] = "none" THEN task[k].ps.commission
                                                                 ELSE @]
         /\ \/ task' = [task EXCEPT ![k].at = "save", ![k].ps.status = Outcome(state)]
            \/ Go(k, "failed")
  <2> DEFINE states == IF share[o] = "none" THEN {"processing", "success", "closed"}
                                            ELSE {share[o]}
  <2>1. PICK s \in states :
           /\ share' = [share EXCEPT ![o] = s]
           /\ amount' = [amount EXCEPT ![o] = IF share[o] = "none" THEN task[k].ps.commission
                                                                   ELSE @]
           /\ \/ task' = [task EXCEPT ![k].at = "save", ![k].ps.status = Outcome(s)]
              \/ Go(k, "failed")
    BY DEF LaunchCall
  <2>2. s \in Settling /\ s # "none" /\ (share[o] # "none" => s = share[o])
    BY <1>1, <1>2, <2>1 DEF Settling
  <2> QED
    BY <2>1, <2>2
<1>4. calls' = calls + 1 /\ calls < MaxCalls /\ UNCHANGED <<row, config, back, cleared>>
  BY DEF LaunchCall
<1>5. PSTypeOK'
  <2>1. share' \in [Orders -> Settling]
    BY <1>1, <1>2, <1>3
  <2>2. amount' \in [Orders -> Nat]
    BY <1>1, <1>2, <1>3
  <2>3. calls' \in 0..MaxCalls
    BY <1>2, <1>4
  <2> QED
    BY <1>4, <2>1, <2>2, <2>3 DEF SharingInv, SharingTyped, PSTypeOK
<1>6. ASSUME NEW p \in Orders PROVE Grows(p) /\ SharingRowOK(p)' /\ RowShareOK(p)'
  <2>1. CASE p # o
    BY <1>1, <1>2, <1>3, <1>4, <2>1 DEF SharingInv, Grows, SharingRowOK, RowShareOK, Backed
  <2>2. CASE p = o
    <3>1. Grows(p) /\ SharingRowOK(p)'
      BY <1>1, <1>2, <1>3, <1>4, <2>2 DEF SharingInv, Grows, SharingRowOK, Backed
    <3>2. RowShareOK(p)'
      BY <1>1, <1>2, <1>3, <1>4, <2>2 DEF SharingInv, RowShareOK, Copied
    <3> QED
      BY <3>1, <3>2
  <2> QED
    BY <2>1, <2>2
<1>7. RefundsKeepWhatIsKnown'
  BY <1>4 DEF SharingInv, RefundsKeepWhatIsKnown
<1>8. CASE Go(k, "failed")
  BY <1>1, <1>5, <1>6, <1>7, <1>8, GoStep DEF TaskStages
<1>9. CASE task' = [task EXCEPT ![k].at = "save", ![k].ps.status = Outcome(state)]
  <2> DEFINE t == [task[k] EXCEPT !.at = "save", !.ps.status = Outcome(state)]
  <2>1. /\ Outcome(state) \in {"processing", "succeeded", "failed"}
        /\ Outcome(state) = "succeeded" => state = "success"
    BY DEF Outcome
  <2>2. /\ t \in TaskRecord /\ t.at = "save" /\ t.order = o
        /\ t.ps.commission = task[k].ps.commission /\ t.ps.status = Outcome(state)
    BY <1>1, <2>1 DEF TaskRecord, ProfitSharingOrder, Statuses, TaskStages
  <2>3. Becomes(k, t)
    BY <1>2, <1>9, <2>2 DEF Becomes
  <2> HIDE DEF t
  <2>4. PICK u \in TaskRecord : u = t
    BY <2>2
  <2>5. share'[o] = state
    BY <1>1, <1>2, <1>3
  <2>6. Backed(u.ps, u.order)'
    BY <2>1, <2>2, <2>4, <2>5 DEF Backed
  <2> QED
    BY <1>1, <1>5, <1>6, <1>7, <2>1, <2>2, <2>3, <2>4, <2>6, NoteStep
<1> QED
  BY <1>3, <1>8, <1>9

LEMMA QueryShareStep ==
    ASSUME SharingInv, NEW k \in Tasks, Query(k)
    PROVE  SharingInv'
<1> DEFINE o == task[k].order
           known == IF share[o] = "success" THEN "shared" ELSE "unshared"
<1>1. /\ task[k].at = "query" /\ task[k] \in TaskRecord /\ o \in Orders
      /\ Copied(task[k].ps, o) /\ task[k].answer = "unasked"
      /\ task \in [Tasks -> TaskRecord] /\ row \in [Orders -> ProfitSharingOrder]
  BY Busy DEF Query, SharingInv, SharingTyped, PSTypeOK, TaskOK
<1>2. UNCHANGED <<row, config, share, amount, back, cleared, calls>>
  BY DEF Query
<1>3. PSTypeOK' /\ RefundsKeepWhatIsKnown'
  BY <1>1, <1>2, SharingTypes
<1>4. \A p \in Orders : Grows(p) /\ SharingRowOK(p)' /\ RowShareOK(p)'
  BY <1>2, StillRows
<1>5. CASE /\ share[o] \in {"success", "closed"}
           /\ task' = [task EXCEPT ![k].at = "update", ![k].ps.status = Outcome(share[o]),
                                   ![k].answer = known]
  <2> DEFINE t == [task[k] EXCEPT !.at = "update", !.ps.status = Outcome(share[o]),
                                  !.answer = known]
  <2>1. /\ Outcome(share[o]) \in {"succeeded", "failed"}
        /\ Outcome(share[o]) = "succeeded" <=> share[o] = "success"
    BY <1>5 DEF Outcome
  <2>2. /\ t \in TaskRecord /\ t.at = "update" /\ t.order = o
        /\ t.ps.commission = task[k].ps.commission /\ t.ps.status = Outcome(share[o])
        /\ t.answer = known
    BY <1>1, <2>1 DEF TaskRecord, ProfitSharingOrder, Statuses, TaskStages
  <2>3. Becomes(k, t)
    BY <1>1, <1>5, <2>2 DEF Becomes
  <2> HIDE DEF t
  <2>4. PICK u \in TaskRecord : u = t
    BY <2>2
  <2>5. Backed(u.ps, u.order)'
    BY <1>2, <2>1, <2>2, <2>4 DEF Backed
  <2>6. u.answer = "shared" => u.ps.status = "succeeded"
    BY <2>1, <2>2, <2>4
  <2> QED
    BY <1>1, <1>3, <1>4, <2>1, <2>2, <2>3, <2>4, <2>5, <2>6, NoteStep
<1>6. CASE /\ share[o] \notin {"success", "closed"}
           /\ task' = [task EXCEPT ![k].at = "decide", ![k].answer = known]
  <2> DEFINE t == [task[k] EXCEPT !.at = "decide", !.answer = known]
  <2>1. /\ t \in TaskRecord /\ t.at = "decide" /\ t.order = o /\ t.ps = task[k].ps
        /\ t.answer = "unshared"
    BY <1>1, <1>6 DEF TaskRecord, TaskStages
  <2>2. Becomes(k, t)
    BY <1>1, <1>6, <2>1 DEF Becomes
  <2> HIDE DEF t
  <2>3. PICK u \in TaskRecord : u = t
    BY <2>1
  <2>4. Backed(u.ps, u.order)' /\ u.ps.status # "absent"
    BY <1>1, <1>2, <2>1, <2>3 DEF Backed, Copied
  <2> QED
    BY <1>1, <1>3, <1>4, <2>1, <2>2, <2>3, <2>4, NoteStep
<1>7. CASE Go(k, "decide")
  BY <1>1, <1>3, <1>4, <1>7, GoStep DEF TaskStages
<1>8. CASE End(k)
  BY <1>3, <1>4, <1>8, EndStep
<1> QED
  BY <1>5, <1>6, <1>7, <1>8 DEF Query, AfterQuery

LEMMA LaunchRefusedStep ==
    ASSUME SharingInv, NEW k \in Tasks, LaunchRefused(k)
    PROVE  SharingInv'
<1>1. /\ PSTypeOK' /\ RefundsKeepWhatIsKnown'
      /\ \A p \in Orders : Grows(p) /\ SharingRowOK(p)' /\ RowShareOK(p)'
  BY SharingTypes, StillRows DEF LaunchRefused, SharingInv, SharingTyped, PSTypeOK
<1> QED
  BY <1>1, GoStep DEF LaunchRefused, TaskStages

\* A copy that is saved as it is.
LEMMA SaveCopyStep ==
    ASSUME SharingInv, NEW k \in Tasks, task[k].at \notin {"idle", "create"},
           SavedRow(task[k].order, task[k].ps) \/ UNCHANGED row,
           End(k), UNCHANGED <<config, share, amount, back, cleared, calls>>
    PROVE  SharingInv'
BY Busy, SaveStep

LEMMA LaunchSaveStep ==
    ASSUME SharingInv, NEW k \in Tasks, LaunchSave(k)
    PROVE  SharingInv'
<1>1. CASE SavedRow(task[k].order, task[k].ps) /\ End(k)
  BY <1>1, SaveCopyStep DEF LaunchSave
<1>2. CASE Go(k, "failed") /\ UNCHANGED row
  <2>1. /\ PSTypeOK' /\ RefundsKeepWhatIsKnown'
        /\ \A p \in Orders : Grows(p) /\ SharingRowOK(p)' /\ RowShareOK(p)'
    BY <1>2, SharingTypes, StillRows DEF LaunchSave, SharingInv, SharingTyped, PSTypeOK
  <2> QED
    BY <1>2, <2>1, GoStep DEF LaunchSave, TaskStages
<1> QED
  BY <1>1, <1>2 DEF LaunchSave, SavedRow

LEMMA LaunchFailedStep ==
    ASSUME SharingInv, NEW k \in Tasks, LaunchFailed(k)
    PROVE  SharingInv'
<1> DEFINE ps == IF task[k].op = "submit" THEN [task[k].ps EXCEPT !.status = "pending"]
                                          ELSE task[k].ps
<1>1. task[k].ps \in ProfitSharingOrder /\ Copied(task[k].ps, task[k].order)
  BY Busy DEF LaunchFailed
<1>2. ps \in ProfitSharingOrder /\ Copied(ps, task[k].order)
  BY <1>1 DEF ProfitSharingOrder, Statuses, Copied, Backed
<1>3. SavedRow(task[k].order, ps) \/ UNCHANGED row
  BY DEF LaunchFailed, SavedRow
<1> HIDE DEF ps
<1> QED
  BY <1>2, <1>3, SaveStep DEF LaunchFailed

LEMMA UpdateStep ==
    ASSUME SharingInv, NEW k \in Tasks, Update(k)
    PROVE  SharingInv'
<1>1. /\ task[k].at = "update"
      /\ SavedRow(task[k].order, task[k].ps) \/ UNCHANGED row
      /\ UNCHANGED <<config, share, amount, back, cleared, calls>>
  BY DEF Update, SavedRow
<1>2. CASE End(k)
  BY <1>1, <1>2, SaveCopyStep
<1>3. CASE Go(k, "decide")
  <2>1. /\ task[k].ps \in ProfitSharingOrder /\ Copied(task[k].ps, task[k].order)
        /\ task[k].order \in Orders
    BY <1>1, Busy
  <2>2. /\ row' \in [Orders -> ProfitSharingOrder]
        /\ \A p \in Orders : Grows(p) /\ SharingRowOK(p)' /\ RowShareOK(p)'
    BY <1>1, <2>1, SaveEffect
  <2>3. task[k].answer = "shared" => task[k].ps.status = "succeeded"
    BY <1>1 DEF SharingInv, TaskOK
  <2> QED
    BY <1>1, <1>3, <2>2, <2>3, SharingTypes, GoStep DEF TaskStages
<1> QED
  BY <1>2, <1>3 DEF Update, AfterQuery

\* A refund that is let through: the copy is saved, or not, and the task ends.
LEMMA LetThrough ==
    ASSUME SharingInv, NEW k \in Tasks, task[k].at \notin {"idle", "create"},
           NEW ps \in ProfitSharingOrder, Copied(ps, task[k].order),
           SavedRow(task[k].order, ps) \/ UNCHANGED row, End(k),
           NEW how \in {"returned", "unshared"}, NEW answer \in {"unasked", "unshared", "shared"},
           Cleared(task[k].order, how, answer),
           how = "returned" => back[task[k].order] = "success",
           how = "unshared" => answer # "shared",
           UNCHANGED <<config, share, amount, back, calls>>
    PROVE  SharingInv'
<1>1. task[k].order \in Orders
  BY Busy
<1>2. /\ row' \in [Orders -> ProfitSharingOrder]
      /\ \A o \in Orders : Grows(o) /\ SharingRowOK(o)' /\ RowShareOK(o)'
  BY <1>1, SaveEffect
<1>3. PSTypeOK' /\ RefundsKeepWhatIsKnown'
  BY <1>1, <1>2, ClearedStep
<1> QED
  BY <1>2, <1>3, EndStep

LEMMA RefundUnsharedStep ==
    ASSUME SharingInv, NEW k \in Tasks, RefundUnshared(k)
    PROVE  SharingInv'
<1> DEFINE ps == [task[k].ps EXCEPT !.status = "failed"]
<1>1. /\ task[k] \in TaskRecord /\ task[k].ps \in ProfitSharingOrder
      /\ Copied(task[k].ps, task[k].order)
  BY Busy DEF RefundUnshared
<1>2. ps \in ProfitSharingOrder /\ Copied(ps, task[k].order)
  BY <1>1 DEF ProfitSharingOrder, Statuses, Copied, Backed
<1>3. SavedRow(task[k].order, ps) \/ UNCHANGED row
  BY DEF RefundUnshared, SavedRow
<1>4. task[k].answer # "shared" /\ task[k].answer \in {"unasked", "unshared", "shared"}
  BY <1>1 DEF RefundUnshared, MustReturn, SharingInv, TaskOK, TaskRecord
<1> HIDE DEF ps
<1> QED
  BY <1>2, <1>3, <1>4, LetThrough DEF RefundUnshared

LEMMA RefundSharedStep ==
    ASSUME SharingInv, NEW k \in Tasks, RefundShared(k)
    PROVE  SharingInv'
<1>1. /\ PSTypeOK' /\ RefundsKeepWhatIsKnown'
      /\ \A p \in Orders : Grows(p) /\ SharingRowOK(p)' /\ RowShareOK(p)'
  BY SharingTypes, StillRows DEF RefundShared, SharingInv, SharingTyped, PSTypeOK
<1> QED
  BY <1>1, GoStep DEF RefundShared, TaskStages

LEMMA ReturnCallStep ==
    ASSUME SharingInv, NEW k \in Tasks, ReturnCall(k)
    PROVE  SharingInv'
<1> DEFINE o == task[k].order
<1>1. /\ task[k].at = "return" /\ task[k] \in TaskRecord /\ o \in Orders
      /\ Copied(task[k].ps, o) /\ share[o] = "success"
  BY Busy DEF ReturnCall
<1>2. /\ back \in [Orders -> Settling] /\ calls \in 0..MaxCalls /\ MaxCalls \in Nat
      /\ task \in [Tasks -> TaskRecord]
  BY CallsAssumption DEF SharingInv, SharingTyped, PSTypeOK
<1>3. PICK state \in Settling :
         /\ back[o] # "none" => state = back[o]
         /\ back' = [back EXCEPT ![o] = state]
         /\ \/ state = "success" /\ task' = [task EXCEPT ![k].at = "returned",
                                                         ![k].ps.status = "refunded"]
            \/ state = "closed" /\ Go(k, "refused")
            \/ End(k)
  BY <1>1, <1>2 DEF ReturnCall, Settling
<1>4. calls' = calls + 1 /\ calls < MaxCalls /\ UNCHANGED <<row, config, share, amount, cleared>>
  BY DEF ReturnCall
<1>5. PSTypeOK'
  <2>1. back' \in [Orders -> Settling] /\ calls' \in 0..MaxCalls
    BY <1>1, <1>2, <1>3, <1>4
  <2> QED
    BY <1>4, <2>1 DEF SharingInv, SharingTyped, PSTypeOK
<1>6. ASSUME NEW p \in Orders PROVE back[p] = "success" => back'[p] = "success"
  BY <1>1, <1>2, <1>3
<1>7. RefundsKeepWhatIsKnown'
  BY <1>4, <1>6 DEF SharingInv, RefundsKeepWhatIsKnown
<1>8. \A p \in Orders : Grows(p) /\ SharingRowOK(p)' /\ RowShareOK(p)'
  BY <1>4, <1>6 DEF SharingInv, Grows, SharingRowOK, RowShareOK, Backed
<1>9. CASE state = "success" /\ task' = [task EXCEPT ![k].at = "returned",
                                                     ![k].ps.status = "refunded"]
  <2> DEFINE t == [task[k] EXCEPT !.at = "returned", !.ps.status = "refunded"]
  <2>1. /\ t \in TaskRecord /\ t.at = "returned" /\ t.order = o
        /\ t.ps.commission = task[k].ps.commission /\ t.ps.status = "refunded"
    BY <1>1 DEF TaskRecord, ProfitSharingOrder, Statuses, TaskStages
  <2>2. Becomes(k, t)
    BY <1>2, <1>9, <2>1 DEF Becomes
  <2> HIDE DEF t
  <2>3. PICK u \in TaskRecord : u = t
    BY <2>1
  <2>4. back'[o] = "success"
    BY <1>1, <1>2, <1>3, <1>9
  <2>5. Backed(u.ps, u.order)'
    BY <1>1, <1>4, <2>1, <2>3, <2>4 DEF Backed
  <2> QED
    BY <1>1, <1>5, <1>7, <1>8, <2>1, <2>2, <2>3, <2>5, NoteStep
<1>10. CASE Go(k, "refused")
  BY <1>1, <1>5, <1>7, <1>8, <1>10, GoStep DEF TaskStages
<1>11. CASE End(k)
  BY <1>5, <1>7, <1>8, <1>11, EndStep
<1> QED
  BY <1>3, <1>9, <1>10, <1>11

LEMMA ReturnRefusedStep ==
    ASSUME SharingInv, NEW k \in Tasks, ReturnRefused(k)
    PROVE  SharingInv'
BY SaveCopyStep DEF ReturnRefused

LEMMA ReturnedStep ==
    ASSUME SharingInv, NEW k \in Tasks, Returned(k)
    PROVE  SharingInv'
<1>1. /\ task[k].ps \in ProfitSharingOrder /\ Copied(task[k].ps, task[k].order)
      /\ task[k].ps.status = "refunded"
  BY Busy DEF Returned, SharingInv, TaskOK
<1>2. back[task[k].order] = "success"
  BY <1>1 DEF Copied, Backed
<1> QED
  BY <1>1, <1>2, LetThrough DEF Returned, SavedRow

LEMMA NotReturnedStep ==
    ASSUME SharingInv, NEW k \in Tasks, NotReturned(k)
    PROVE  SharingInv'
BY SaveCopyStep DEF NotReturned, SavedRow

LEMMA SettleStep ==
    ASSUME SharingInv, NEW o \in Orders, Settle(o)
    PROVE  SharingInv'
<1>1. /\ share \in [Orders -> Settling] /\ back \in [Orders -> Settling]
      /\ UNCHANGED <<row, config, task, amount, cleared, calls>>
  BY DEF Settle, SharingInv, SharingTyped, PSTypeOK
<1>2. /\ share' \in [Orders -> Settling] /\ back' \in [Orders -> Settling]
      /\ \A p \in Orders : /\ share[p] = "success" => share'[p] = "success"
                           /\ back[p] = "success" => back'[p] = "success"
                           /\ share'[p] # "none" => share[p] # "none"
  BY <1>1 DEF Settle, Settling
<1>3. SharingTyped'
  BY <1>1, <1>2 DEF SharingInv, SharingTyped, PSTypeOK
<1>4. \A p \in Orders : Grows(p) /\ SharingRowOK(p)' /\ RowShareOK(p)'
  BY <1>1, <1>2 DEF SharingInv, Grows, SharingRowOK, RowShareOK, Backed
<1>5. RefundsKeepWhatIsKnown'
  BY <1>1, <1>2 DEF SharingInv, RefundsKeepWhatIsKnown
<1>6. \A k \in Tasks : TaskOK(k)'
  BY <1>1, <1>4, SharingFrame DEF SharingInv
<1> QED
  BY <1>3, <1>4, <1>5, <1>6 DEF SharingInv

LEMMA AcceptedCommission ==
    ASSUME NEW c \in [enabled : BOOLEAN, rate : Int, min : Int], CommissionAccepted(c)
    PROVE  c \in TenantCommission
<1>1. c.rate \in Int /\ c.min \in Int
  OBVIOUS
<1>2. PICK rate \in Int, min \in Int : rate = c.rate /\ min = c.min
  BY <1>1
<1>3. rate \in 0..3000 /\ min >= 0
  BY <1>2, SMTT(30) DEF CommissionAccepted
<1>4. rate \in Nat /\ min \in Nat
  BY <1>3
<1> QED
  BY <1>2, <1>4 DEF TenantCommission

LEMMA SaveCommissionStep ==
    ASSUME SharingInv, NEW c \in Commissions, SaveCommission(c)
    PROVE  SharingInv'
<1>1. c \in TenantCommission
  BY CommissionAssumption, AcceptedCommission DEF SaveCommission
<1>2. SharingTyped' /\ RefundsKeepWhatIsKnown'
  BY <1>1 DEF SaveCommission, SharingInv, SharingTyped, PSTypeOK, RefundsKeepWhatIsKnown
<1>3. \A p \in Orders : Grows(p) /\ SharingRowOK(p)' /\ RowShareOK(p)'
  BY StillRows DEF SaveCommission
<1>4. \A k \in Tasks : TaskOK(k)'
  BY <1>3, SharingFrame DEF SaveCommission, SharingInv
<1> QED
  BY <1>2, <1>3, <1>4 DEF SharingInv

LEMMA CrashStep ==
    ASSUME SharingInv, Crash
    PROVE  SharingInv'
<1>1. /\ task' = [k \in Tasks |-> NoTask]
      /\ UNCHANGED <<row, config, share, amount, back, cleared, calls>>
  BY DEF Crash
<1>2. SharingTyped' /\ RefundsKeepWhatIsKnown'
  BY <1>1, NoTaskFacts DEF SharingInv, SharingTyped, PSTypeOK, RefundsKeepWhatIsKnown
<1>3. \A p \in Orders : Grows(p) /\ SharingRowOK(p)' /\ RowShareOK(p)'
  BY <1>1, StillRows
<1>4. \A k \in Tasks : TaskOK(k)'
  BY <1>1, NoTaskFacts DEF TaskOK
<1> QED
  BY <1>2, <1>3, <1>4 DEF SharingInv

LEMMA SharingStep == SharingInv /\ [PSNext]_psVars => SharingInv'
<1> SUFFICES ASSUME SharingInv, [PSNext]_psVars PROVE SharingInv'
  OBVIOUS
<1>1. ASSUME NEW k \in Tasks, Step(k) PROVE SharingInv'
  <2>1. ASSUME NEW o \in Orders, Retry(k, o) PROVE SharingInv'
    BY <2>1, FreeTask DEF Retry, TaskStages
  <2>2. ASSUME NEW o \in Orders, Sync(k, o) PROVE SharingInv'
    BY <2>2, FreeTask DEF Sync, TaskStages
  <2> QED
    BY <1>1, <2>1, <2>2, SubmitFindStep, ReturnForRefundStep, SubmitCreateStep,
       LaunchCallStep, LaunchRefusedStep, LaunchSaveStep, LaunchFailedStep, QueryShareStep,
       UpdateStep, RefundUnsharedStep, RefundSharedStep, ReturnCallStep,
       ReturnRefusedStep, ReturnedStep, NotReturnedStep DEF Step
<1>2. CASE UNCHANGED psVars
  <2>1. \A p \in Orders : Grows(p) /\ SharingRowOK(p)' /\ RowShareOK(p)'
    BY <1>2, StillRows DEF psVars
  <2>2. \A k \in Tasks : TaskOK(k)'
    BY <1>2, <2>1, SharingFrame DEF SharingInv, psVars
  <2>3. SharingTyped' /\ RefundsKeepWhatIsKnown'
    BY <1>2 DEF psVars, SharingInv, SharingTyped, PSTypeOK, RefundsKeepWhatIsKnown
  <2> QED
    BY <2>1, <2>2, <2>3 DEF SharingInv
<1> QED
  BY <1>1, <1>2, SettleStep, SaveCommissionStep, CrashStep DEF PSNext

-----------------------------------------------------------------------------
(* wechat: access tokens, and what is asked with them. *)

Token == [life : Nat, since : Nat, ends : Nat]
Asking ==
    [at : {"idle", "fetch", "store", "call"}, op : {"none", "message", "phone"}, token : Nat]

ApiTyped ==
    /\ given \in Seq(Token) /\ Len(given) <= MaxTokens
    /\ kept \in [token : Nat, until : Nat] /\ kept.token <= Len(given)
    /\ asking \in [ApiCallers -> Asking]
    /\ \A c \in ApiCallers : asking[c].token <= Len(given)
    /\ tick \in Nat
    /\ messages \in [sent : Nat, told : Nat]
    /\ exchanged \subseteq PhoneAuths \cup LoginCodes
    /\ learnt \in [ApiCallers -> SUBSET (PhoneAuths \cup LoginCodes)]

\* A token that is being stored was given out at this tick.
StoringOK(c) ==
    asking[c].at = "store" => asking[c].token # 0 /\ given[asking[c].token].since = tick

\* The cache is behind the platform only while somebody stores a newer token,
\* or where one has been lost.
CacheFollows ==
    kept.token # 0 /\ kept.token < Len(given) =>
        \/ overtaken
        \/ \E c \in ApiCallers : asking[c].at = "store" /\ asking[c].token > kept.token

ApiInv ==
    /\ ApiTyped
    /\ \A i \in 1..Len(given) : given[i].ends = given[i].since + given[i].life
    /\ \A c \in ApiCallers : StoringOK(c)
    /\ CacheFollows /\ KeptTokensEnd
    /\ AnswersHappened

LEMMA ApiHolds == ApiInv => WechatApiHolds
<1> SUFFICES ASSUME ApiInv PROVE WechatApiHolds
  OBVIOUS
<1>1. ApiTypeOK
  BY DEF ApiInv, ApiTyped, ApiTypeOK, Asking
<1>2. KeptTokensWork
  <2> SUFFICES ASSUME Hit, given[kept.token].life > RefreshWindow, ~ overtaken,
                      ~ \E c \in ApiCallers : asking[c].at = "store" /\ asking[c].token > kept.token
               PROVE  Works(kept.token)
    <3>1. Hit => kept.token \in 1..Len(given) /\ given \in Seq(Token)
      BY DEF ApiInv, ApiTyped, Hit
    <3>2. Hit => given[kept.token] \in Token
      BY <3>1
    <3>3. Hit => given[kept.token].life \in Nat
      BY <3>2 DEF Token
    <3> QED
      BY <3>3, ApiAssumption DEF KeptTokensWork
  <2>1. kept.token # 0 /\ tick < kept.until /\ kept.until <= given[kept.token].ends - RefreshWindow
    BY DEF Hit, ApiInv, KeptTokensEnd
  <2>2. kept.token \in 1..Len(given) /\ given \in Seq(Token) /\ kept.until \in Nat /\ tick \in Nat
    BY <2>1 DEF ApiInv, ApiTyped
  <2>3. given[kept.token] \in Token
    BY <2>2
  <2>4. given[kept.token].ends \in Nat
    BY <2>3 DEF Token
  <2>5. tick < given[kept.token].ends
    BY <2>1, <2>2, <2>4, ApiAssumption
  <2>6. ~ (kept.token < Len(given))
    BY <2>1 DEF ApiInv, CacheFollows
  <2> QED
    BY <2>1, <2>5, <2>6 DEF Works
<1> QED
  BY <1>1, <1>2 DEF ApiInv, WechatApiHolds

LEMMA ApiInitOK == ApiInit => ApiInv
<1> SUFFICES ASSUME ApiInit PROVE ApiInv
  OBVIOUS
<1>1. given = <<>> /\ Len(given) = 0 /\ given \in Seq(Token)
  BY DEF ApiInit
<1>2. ApiTyped
  <2>1. Len(given) <= MaxTokens
    BY <1>1, ApiAssumption
  <2>2. kept \in [token : Nat, until : Nat] /\ kept.token <= Len(given)
    BY <1>1 DEF ApiInit
  <2>3. asking \in [ApiCallers -> Asking] /\ \A c \in ApiCallers : asking[c].token <= Len(given)
    BY <1>1 DEF ApiInit, NotAsking, Asking
  <2>4. /\ tick \in Nat /\ messages \in [sent : Nat, told : Nat]
        /\ exchanged \subseteq PhoneAuths \cup LoginCodes
        /\ learnt \in [ApiCallers -> SUBSET (PhoneAuths \cup LoginCodes)]
    BY DEF ApiInit
  <2> QED
    BY <1>1, <2>1, <2>2, <2>3, <2>4 DEF ApiTyped
<1> QED
  BY <1>1, <1>2
     DEF ApiInit, ApiInv, StoringOK, CacheFollows, KeptTokensEnd, AnswersHappened, NotAsking

\* What a call in progress becomes.
LEMMA AskingBecomes ==
    ASSUME ApiInv, NEW c \in ApiCallers, NEW v \in Asking, asking' = [asking EXCEPT ![c] = v],
           asking[c].at # "store", v.at # "store", v.token <= Len(given),
           UNCHANGED <<given, kept, tick>>, overtaken' = overtaken \/ overtaken' = TRUE
    PROVE  /\ asking' \in [ApiCallers -> Asking]
           /\ \A d \in ApiCallers : asking'[d].token <= Len(given)
           /\ \A d \in ApiCallers : StoringOK(d)'
           /\ CacheFollows' /\ KeptTokensEnd'
           /\ \A i \in 1..Len(given') : given'[i].ends = given'[i].since + given'[i].life
<1>1. /\ asking' \in [ApiCallers -> Asking] /\ asking'[c] = v
      /\ \A d \in ApiCallers \ {c} : asking'[d] = asking[d]
  BY DEF ApiInv, ApiTyped
<1>2. CacheFollows'
  BY <1>1 DEF ApiInv, CacheFollows
<1>3. KeptTokensEnd'
  BY DEF ApiInv, KeptTokensEnd
<1> QED
  BY <1>1, <1>2, <1>3 DEF ApiInv, ApiTyped, StoringOK

\* A code that nobody has exchanged becomes known to one caller at most.
LEMMA ExchangeStep ==
    ASSUME ApiInv, NEW c \in ApiCallers, NEW code \in PhoneAuths \cup LoginCodes,
           Exchange(c, code) \/ UNCHANGED <<exchanged, learnt>>,
           messages' \in [sent : Nat, told : Nat], messages'.told <= messages'.sent
    PROVE  /\ exchanged' \subseteq PhoneAuths \cup LoginCodes
           /\ learnt' \in [ApiCallers -> SUBSET (PhoneAuths \cup LoginCodes)]
           /\ AnswersHappened'
<1>0. /\ exchanged \subseteq PhoneAuths \cup LoginCodes
      /\ learnt \in [ApiCallers -> SUBSET (PhoneAuths \cup LoginCodes)]
      /\ \A d \in ApiCallers : learnt[d] \subseteq exchanged
      /\ \A d, e \in ApiCallers : d # e => learnt[d] \cap learnt[e] = {}
  BY DEF ApiInv, ApiTyped, AnswersHappened
<1>1. CASE UNCHANGED <<exchanged, learnt>>
  BY <1>0, <1>1 DEF AnswersHappened
<1>2. CASE /\ code \notin exchanged /\ exchanged' = exchanged \cup {code}
           /\ learnt' \in {learnt, [learnt EXCEPT ![c] = @ \cup {code}]}
  <2>1. learnt' \in [ApiCallers -> SUBSET (PhoneAuths \cup LoginCodes)]
    BY <1>0, <1>2
  <2>2. \A d \in ApiCallers :
           learnt'[d] = learnt[d] \/ (d = c /\ learnt'[d] = learnt[d] \cup {code})
    BY <1>0, <1>2
  <2>3. \A d \in ApiCallers : code \notin learnt[d]
    BY <1>0, <1>2
  <2>4. \A d \in ApiCallers : learnt'[d] \subseteq exchanged'
    BY <1>0, <1>2, <2>2
  <2>5. \A d, e \in ApiCallers : d # e => learnt'[d] \cap learnt'[e] = {}
    BY <1>0, <2>2, <2>3
  <2> QED
    BY <1>0, <1>2, <2>1, <2>4, <2>5 DEF AnswersHappened
<1> QED
  BY <1>1, <1>2 DEF Exchange

LEMMA AnswersStay ==
    ASSUME ApiInv, UNCHANGED <<exchanged, learnt, messages>>
    PROVE  /\ exchanged' \subseteq PhoneAuths \cup LoginCodes
           /\ learnt' \in [ApiCallers -> SUBSET (PhoneAuths \cup LoginCodes)]
           /\ messages' \in [sent : Nat, told : Nat]
           /\ AnswersHappened'
BY DEF ApiInv, ApiTyped, AnswersHappened

LEMMA IdleAsking == NotAsking \in Asking /\ NotAsking.at = "idle" /\ NotAsking.token = 0
BY DEF NotAsking, Asking

LEMMA AskStep ==
    ASSUME ApiInv, NEW c \in ApiCallers, NEW op \in {"message", "phone"}, Ask(c, op)
    PROVE  ApiInv'
<1>1. PICK v \in Asking : /\ asking' = [asking EXCEPT ![c] = v]
                          /\ v.at # "store" /\ v.token <= Len(given)
  <2>1. kept.token \in Nat /\ kept.token <= Len(given) /\ 0 <= Len(given)
    BY DEF ApiInv, ApiTyped
  <2>2. [at |-> "call", op |-> op, token |-> kept.token] \in Asking
        /\ [at |-> "fetch", op |-> op, token |-> 0] \in Asking
    BY <2>1 DEF Asking
  <2> QED
    BY <2>1, <2>2 DEF Ask
<1>2. /\ asking[c].at # "store"
      /\ UNCHANGED <<given, kept, exchanged, learnt, messages, tick, overtaken>>
  BY IdleAsking DEF Ask
<1> QED
  BY <1>1, <1>2, AskingBecomes, AnswersStay DEF ApiInv, ApiTyped

LEMMA FinishStep ==
    ASSUME ApiInv, NEW c \in ApiCallers, FinishCall(c), asking[c].at = "call",
           messages' \in [sent : Nat, told : Nat],
           exchanged' \subseteq PhoneAuths \cup LoginCodes,
           learnt' \in [ApiCallers -> SUBSET (PhoneAuths \cup LoginCodes)], AnswersHappened'
    PROVE  ApiInv'
<1>1. /\ asking' = [asking EXCEPT ![c] = NotAsking] /\ UNCHANGED <<given, kept, tick, overtaken>>
      /\ 0 <= Len(given)
  BY DEF FinishCall, ApiInv, ApiTyped
<1> QED
  BY <1>1, AskingBecomes, IdleAsking DEF ApiInv, ApiTyped

LEMMA SendStep ==
    ASSUME ApiInv, NEW c \in ApiCallers, SendSubscribeMessage(c)
    PROVE  ApiInv'
<1>1. PICK s \in Nat, t \in Nat : messages = [sent |-> s, told |-> t] /\ t <= s
  BY DEF ApiInv, ApiTyped, AnswersHappened
<1>2. /\ messages' \in {messages, [sent |-> s + 1, told |-> t + 1], [sent |-> s + 1, told |-> t]}
      /\ asking[c].at = "call" /\ FinishCall(c) /\ UNCHANGED <<exchanged, learnt>>
  BY <1>1 DEF SendSubscribeMessage, Sent
<1>3. messages' \in [sent : Nat, told : Nat] /\ messages'.told <= messages'.sent
  BY <1>1, <1>2
<1>4. /\ exchanged' \subseteq PhoneAuths \cup LoginCodes
      /\ learnt' \in [ApiCallers -> SUBSET (PhoneAuths \cup LoginCodes)] /\ AnswersHappened'
  BY <1>2, <1>3 DEF ApiInv, ApiTyped, AnswersHappened
<1> QED
  BY <1>2, <1>3, <1>4, FinishStep

LEMMA PhoneStep ==
    ASSUME ApiInv, NEW c \in ApiCallers, NEW code \in PhoneAuths, FetchPhoneNumber(c, code)
    PROVE  ApiInv'
<1>1. /\ asking[c].at = "call" /\ FinishCall(c) /\ UNCHANGED messages
      /\ Exchange(c, code) \/ UNCHANGED <<exchanged, learnt>>
  BY DEF FetchPhoneNumber
<1>2. messages' \in [sent : Nat, told : Nat] /\ messages'.told <= messages'.sent
  BY <1>1 DEF ApiInv, ApiTyped, AnswersHappened
<1> QED
  BY <1>1, <1>2, ExchangeStep, FinishStep

LEMMA SessionStep ==
    ASSUME ApiInv, NEW c \in ApiCallers, NEW code \in LoginCodes, Session(c, code)
    PROVE  ApiInv'
<1>1. Exchange(c, code) /\ UNCHANGED <<given, kept, asking, messages, tick, overtaken>>
  BY DEF Session
<1>2. messages' \in [sent : Nat, told : Nat] /\ messages'.told <= messages'.sent
  BY <1>1 DEF ApiInv, ApiTyped, AnswersHappened
<1>3. /\ exchanged' \subseteq PhoneAuths \cup LoginCodes
      /\ learnt' \in [ApiCallers -> SUBSET (PhoneAuths \cup LoginCodes)] /\ AnswersHappened'
  BY <1>1, <1>2, ExchangeStep
<1> QED
  BY <1>1, <1>2, <1>3 DEF ApiInv, ApiTyped, StoringOK, CacheFollows, KeptTokensEnd

LEMMA TokenGiven ==
    ASSUME ApiInv, NEW life \in Lives, GiveOut(life), Len(given) < MaxTokens
    PROVE  /\ given' \in Seq(Token) /\ Len(given') = Len(given) + 1 /\ Len(given') <= MaxTokens
           /\ \A i \in 1..Len(given) : given'[i] = given[i]
           /\ given'[Len(given) + 1].since = tick
           /\ \A i \in 1..Len(given') : given'[i].ends = given'[i].since + given'[i].life
<1> DEFINE v == [life |-> life, since |-> tick, ends |-> tick + life]
<1>1. v \in Token /\ v.since = tick /\ v.ends = v.since + v.life
  BY ApiAssumption DEF ApiInv, ApiTyped, Token
<1>2. given' = Append(given, v) /\ given \in Seq(Token)
  BY DEF GiveOut, ApiInv, ApiTyped
<1> HIDE DEF v
<1>3. /\ given' \in Seq(Token) /\ Len(given') = Len(given) + 1
      /\ \A i \in 1..Len(given) : given'[i] = given[i]
      /\ given'[Len(given) + 1] = v
  BY <1>1, <1>2
<1>4. PICK n \in Nat : n = Len(given)
  BY <1>2
<1>5. \A i \in 1..n + 1 : i \in 1..n \/ i = n + 1
  OBVIOUS
<1>6. \A i \in 1..Len(given') : given'[i].ends = given'[i].since + given'[i].life
  BY <1>1, <1>3, <1>4, <1>5 DEF ApiInv
<1> QED
  BY <1>1, <1>3, <1>4, <1>6, ApiAssumption

LEMMA FetchStep ==
    ASSUME ApiInv, NEW c \in ApiCallers, NEW life \in Lives, Fetch(c, life)
    PROVE  ApiInv'
<1> DEFINE v == [asking[c] EXCEPT !.at = "store", !.token = Len(given) + 1]
<1>1. /\ asking[c].at = "fetch" /\ Len(given) < MaxTokens /\ GiveOut(life)
      /\ UNCHANGED <<kept, exchanged, learnt, messages, tick, overtaken>>
  BY DEF Fetch
<1>2. asking' = [asking EXCEPT ![c] = v]
  BY DEF Fetch, ApiInv, ApiTyped, Asking
<1>3. PICK n \in Nat : n = Len(given)
  BY DEF ApiInv, ApiTyped
<1>4. v \in Asking /\ v.at = "store" /\ v.token = n + 1
  <2>1. PICK a \in Asking : a = asking[c]
    BY DEF ApiInv, ApiTyped
  <2>2. PICK m \in Nat : m = n + 1
    OBVIOUS
  <2>3. v = [a EXCEPT !.at = "store", !.token = m]
    BY <1>3, <2>1, <2>2
  <2>4. [a EXCEPT !.at = "store", !.token = m] \in Asking
    BY DEF Asking
  <2> HIDE DEF v
  <2>5. v.at = "store" /\ v.token = m
    BY <2>3 DEF Asking
  <2> QED
    BY <2>2, <2>3, <2>4, <2>5
<1> HIDE DEF v
<1>5. /\ asking' \in [ApiCallers -> Asking] /\ asking'[c] = v
      /\ \A d \in ApiCallers \ {c} : asking'[d] = asking[d]
  BY <1>2, <1>4 DEF ApiInv, ApiTyped
<1>6. /\ given' \in Seq(Token) /\ Len(given') = n + 1 /\ Len(given') <= MaxTokens
      /\ \A i \in 1..n : given'[i] = given[i]
      /\ given'[n + 1].since = tick
      /\ \A i \in 1..n + 1 : given'[i].ends = given'[i].since + given'[i].life
  BY <1>1, <1>3, TokenGiven
<1>7. \A d \in ApiCallers : asking[d].token \in Nat /\ asking[d].token <= n
  BY <1>3 DEF ApiInv, ApiTyped, Asking
<1>8. kept.token \in Nat /\ kept.token <= n
  BY <1>3 DEF ApiInv, ApiTyped
<1>9. \A d \in ApiCallers : asking'[d].token <= n + 1
  BY <1>4, <1>5, <1>7
<1>10. \A d \in ApiCallers : StoringOK(d)'
  <2> SUFFICES ASSUME NEW d \in ApiCallers PROVE StoringOK(d)'
    OBVIOUS
  <2>1. CASE d = c
    BY <2>1, <1>1, <1>4, <1>5, <1>6 DEF StoringOK
  <2>2. CASE d # c
    <3>1. StoringOK(d) /\ (asking[d].token # 0 => asking[d].token \in 1..n)
      BY <1>7 DEF ApiInv
    <3> QED
      BY <2>2, <3>1, <1>1, <1>5, <1>6 DEF StoringOK
  <2> QED
    BY <2>1, <2>2
<1>11. CacheFollows'
  BY <1>1, <1>4, <1>5, <1>8 DEF CacheFollows
<1>12. KeptTokensEnd'
  <2>1. kept.token # 0 => given'[kept.token] = given[kept.token]
    BY <1>6, <1>8
  <2> QED
    BY <1>1, <2>1 DEF ApiInv, KeptTokensEnd
<1>13. ApiTyped'
  BY <1>1, <1>5, <1>6, <1>8, <1>9, AnswersStay DEF ApiInv, ApiTyped
<1> QED
  BY <1>1, <1>6, <1>10, <1>11, <1>12, <1>13, AnswersStay DEF ApiInv

LEMMA FetchFailsStep ==
    ASSUME ApiInv, NEW c \in ApiCallers, FetchFails(c)
    PROVE  ApiInv'
<1>1. /\ asking[c].at = "fetch" /\ asking' = [asking EXCEPT ![c] = NotAsking]
      /\ UNCHANGED <<kept, exchanged, learnt, messages, tick>>
      /\ \/ UNCHANGED <<given, overtaken>>
         \/ /\ Len(given) < MaxTokens
            /\ \E life \in Lives : GiveOut(life)
            /\ overtaken' = TRUE
  BY DEF FetchFails
<1>2. CASE UNCHANGED <<given, overtaken>>
  <2>1. 0 <= Len(given)
    BY DEF ApiInv, ApiTyped
  <2> QED
    BY <1>1, <1>2, <2>1, AskingBecomes, IdleAsking, AnswersStay DEF ApiInv, ApiTyped
<1>3. ASSUME Len(given) < MaxTokens, NEW life \in Lives, GiveOut(life), overtaken' = TRUE
      PROVE  ApiInv'
  <2>1. PICK n \in Nat : n = Len(given)
    BY DEF ApiInv, ApiTyped
  <2>2. /\ given' \in Seq(Token) /\ Len(given') = n + 1 /\ Len(given') <= MaxTokens
        /\ \A i \in 1..n : given'[i] = given[i]
        /\ \A i \in 1..n + 1 : given'[i].ends = given'[i].since + given'[i].life
    BY <1>3, <2>1, TokenGiven
  <2>3. /\ asking' \in [ApiCallers -> Asking] /\ asking'[c] = NotAsking
        /\ \A d \in ApiCallers \ {c} : asking'[d] = asking[d]
    BY <1>1, IdleAsking DEF ApiInv, ApiTyped
  <2>4. \A d \in ApiCallers : asking[d].token \in Nat /\ asking[d].token <= n
    BY <2>1 DEF ApiInv, ApiTyped, Asking
  <2>5. kept.token \in Nat /\ kept.token <= n
    BY <2>1 DEF ApiInv, ApiTyped
  <2>6. \A d \in ApiCallers : asking'[d].token <= n + 1
    BY <2>3, <2>4, IdleAsking
  <2>7. \A d \in ApiCallers : StoringOK(d)'
    <3> SUFFICES ASSUME NEW d \in ApiCallers, d # c PROVE StoringOK(d)'
      BY <2>3, IdleAsking DEF StoringOK
    <3>1. StoringOK(d) /\ (asking[d].token # 0 => asking[d].token \in 1..n)
      BY <2>4 DEF ApiInv
    <3> QED
      BY <3>1, <1>1, <2>2, <2>3 DEF StoringOK
  <2>8. CacheFollows'
    BY <1>3 DEF CacheFollows
  <2>9. KeptTokensEnd'
    <3>1. kept.token # 0 => given'[kept.token] = given[kept.token]
      BY <2>2, <2>5
    <3> QED
      BY <1>1, <3>1 DEF ApiInv, KeptTokensEnd
  <2>10. ApiTyped'
    BY <1>1, <1>3, <2>2, <2>3, <2>5, <2>6, AnswersStay DEF ApiInv, ApiTyped
  <2> QED
    BY <1>1, <2>2, <2>7, <2>8, <2>9, <2>10, AnswersStay DEF ApiInv
<1> QED
  BY <1>1, <1>2, <1>3

LEMMA StoreStep ==
    ASSUME ApiInv, NEW c \in ApiCallers, Store(c)
    PROVE  ApiInv'
<1> DEFINE token == asking[c].token
           v == [asking[c] EXCEPT !.at = "call"]
           k == [token |-> token, until |-> tick + AccessTokenTTL(given[token].life)]
<1>1. /\ asking[c].at = "store"
      /\ \/ kept' = k /\ overtaken' = (token < Len(given))
         \/ UNCHANGED kept /\ overtaken' = TRUE
      /\ UNCHANGED <<given, exchanged, learnt, messages, tick>>
  BY DEF Store
<1>2. asking' = [asking EXCEPT ![c] = v]
  BY DEF Store, ApiInv, ApiTyped, Asking
<1>3. PICK n \in Nat : n = Len(given)
  BY DEF ApiInv, ApiTyped
<1>4. v \in Asking /\ v.at = "call" /\ v.token = token
  BY DEF ApiInv, ApiTyped, Asking
<1> HIDE DEF v
<1>5. /\ asking' \in [ApiCallers -> Asking] /\ asking'[c] = v
      /\ \A d \in ApiCallers \ {c} : asking'[d] = asking[d]
  BY <1>2, <1>4 DEF ApiInv, ApiTyped
<1>6. token \in 1..n /\ given[token].since = tick /\ given[token] \in Token
  <2>1. token \in Nat /\ token <= n /\ given \in Seq(Token)
    BY <1>3 DEF ApiInv, ApiTyped, Asking
  <2>2. token # 0 /\ given[token].since = tick
    BY <1>1 DEF ApiInv, StoringOK
  <2>3. token \in 1..Len(given)
    BY <1>3, <2>1, <2>2
  <2> QED
    BY <1>3, <2>1, <2>2, <2>3
<1>7. PICK life \in Nat, ends \in Nat : /\ life = given[token].life /\ ends = given[token].ends
                                        /\ ends = tick + life
  BY <1>3, <1>6 DEF ApiInv, Token
<1>8. /\ AccessTokenTTL(life) \in Nat
      /\ life > RefreshWindow => AccessTokenTTL(life) = life - RefreshWindow
  BY ApiAssumption DEF AccessTokenTTL
<1>9. /\ k \in [token : Nat, until : Nat] /\ k.token = token
      /\ life > RefreshWindow => k.until <= ends - RefreshWindow
  <2>1. PICK ttl \in Nat : ttl = AccessTokenTTL(life)
    BY <1>8
  <2>2. tick \in Nat /\ RefreshWindow \in Nat
    BY ApiAssumption DEF ApiInv, ApiTyped
  <2>3. k.token = token /\ k.until = tick + ttl
    BY <1>7, <2>1
  <2>4. k = [token |-> token, until |-> tick + ttl]
    BY <1>7, <2>1
  <2> HIDE DEF k, token
  <2>5. tick + ttl \in Nat /\ (life > RefreshWindow => tick + ttl <= ends - RefreshWindow)
    BY <1>7, <1>8, <2>1, <2>2
  <2> QED
    BY <1>6, <2>3, <2>4, <2>5
<1> HIDE DEF k
<1>10. kept' \in [token : Nat, until : Nat] /\ kept'.token <= n
  BY <1>1, <1>3, <1>6, <1>9 DEF ApiInv, ApiTyped
<1>11. \A d \in ApiCallers : asking'[d].token <= n /\ StoringOK(d)'
  BY <1>1, <1>3, <1>4, <1>5, <1>6 DEF ApiInv, ApiTyped, StoringOK
<1>12. CacheFollows'
  BY <1>1, <1>9 DEF CacheFollows
<1>13. KeptTokensEnd'
  BY <1>1, <1>7, <1>9 DEF ApiInv, KeptTokensEnd
<1>15. ApiTyped'
  BY <1>1, <1>3, <1>5, <1>10, <1>11, AnswersStay DEF ApiInv, ApiTyped
<1> QED
  BY <1>1, <1>11, <1>12, <1>13, <1>15, AnswersStay DEF ApiInv

LEMMA ApiTickStep ==
    ASSUME ApiInv, ApiTick
    PROVE  ApiInv'
<1>1. /\ \A c \in ApiCallers : asking[c].at # "store"
      /\ tick' = tick + 1
      /\ UNCHANGED <<given, kept, asking, exchanged, learnt, messages, overtaken>>
  BY DEF ApiTick
<1>2. ApiTyped'
  BY <1>1, AnswersStay DEF ApiInv, ApiTyped
<1> QED
  BY <1>1, <1>2, AnswersStay DEF ApiInv, StoringOK, CacheFollows, KeptTokensEnd

LEMMA ApiStep == ApiInv /\ [ApiNext]_apiVars => ApiInv'
<1> SUFFICES ASSUME ApiInv, [ApiNext]_apiVars PROVE ApiInv'
  OBVIOUS
<1>1. CASE UNCHANGED apiVars
  BY <1>1, AnswersStay DEF apiVars, ApiInv, ApiTyped, StoringOK, CacheFollows, KeptTokensEnd
<1> QED
  BY <1>1, ApiTickStep, AskStep, FetchStep, FetchFailsStep, StoreStep, SendStep, PhoneStep,
     SessionStep DEF ApiNext

-----------------------------------------------------------------------------
(* wechat/pay.go, alipay: orders and refunds, asked for and told of. *)

OrderRecord == [state : {"NOTPAY", "SUCCESS", "REFUND", "CLOSED"}, price : Nat \ {0},
                to : Seq(STRING), page : BOOLEAN]
RefundRecord == [state : {"PROCESSING", "SUCCESS", "CLOSED"}, number : Numbers,
                 part : Nat \ {0}, to : Seq(STRING)]

GateTyped ==
    /\ order \in [Gates -> [Numbers -> {NoOrder} \cup OrderRecord]]
    /\ refund \in [Gates -> [RefundNos -> {NoOrder} \cup RefundRecord]]

\* WeChat is never sent a number with blanks around it.
NumberOK(a, n) ==
    order[a][n] # NoOrder /\ GateConfig[a].platform = "wechat" => Trimmed[n] = n

\* Only Alipay has signed addresses.
LinkOK(l) ==
    /\ l.gate \in Gates /\ GateConfig[l.gate].platform = "alipay"
    /\ l.in.number \in Numbers /\ l.in.price \in Int /\ l.in.notify \in Seq(STRING)

\* A notice tells of what no longer changes, or only from paid to refunded.
LetterOK(l) ==
    /\ l.kind \in {"trade", "refund", "return"} /\ l.gate \in Gates
    /\ l.number \in Numbers
    /\ l.kind = "trade" =>
          /\ GateConfig[l.gate].platform = "wechat" => Trimmed[l.number] = l.number
          /\ l.state = "SUCCESS" => order[l.gate][l.number].state \in {"SUCCESS", "REFUND"}
          /\ l.state = "CLOSED" => order[l.gate][l.number].state = "CLOSED"
    /\ l.kind = "refund" =>
          /\ l.refundNo \in RefundNos
          /\ l.state \in {"SUCCESS", "CLOSED"} => refund[l.gate][l.refundNo].state = l.state

\* And so does what a caller was told.
PrepaidTold ==
    told.what = "prepaid" =>
        /\ told.gate \in Gates /\ told.number \in Numbers
        /\ order[told.gate][FiledUnder(told)] # NoOrder
        /\ order[told.gate][FiledUnder(told)].price = told.price
OrderTold ==
    told.what = "order" =>
        /\ told.gate \in Gates
        /\ told.state = "SUCCESS" =>
              \E n \in Numbers : /\ Trimmed[n] = told.number
                                 /\ order[told.gate][n].state \in {"SUCCESS", "REFUND"}
        /\ told.state = "CLOSED" =>
              \E n \in Numbers : Trimmed[n] = told.number /\ order[told.gate][n].state = "CLOSED"
        /\ told.by \in {"refund", "return"} => told.state = ""
RefundTold ==
    told.what = "refund" =>
        /\ told.by = "trade" => told.number = "" /\ told.state = ""
        /\ told.state \in {"SUCCESS", "CLOSED"} =>
              /\ told.gate \in Gates /\ told.number \in RefundNos
              /\ refund[told.gate][told.number].state = told.state
ToldOK == PrepaidTold /\ OrderTold /\ RefundTold

\* What one refund takes of an order.
Repays(rf, n) ==
    [r \in RefundNos |-> IF rf[r].state \in {"PROCESSING", "SUCCESS"} /\ rf[r].number = n
                         THEN rf[r].part ELSE 0]
OrderFits(a, n) ==
    Total(Repays(refund[a], n)) <= IF order[a][n] = NoOrder THEN 0 ELSE order[a][n].price
RefundOK(a, r) ==
    refund[a][r] # NoOrder => order[a][refund[a][r].number].state = "REFUND"

GateInv ==
    /\ GateTyped
    /\ \A a \in Gates, n \in Numbers : NumberOK(a, n) /\ OrderFits(a, n)
    /\ \A a \in Gates, r \in RefundNos : RefundOK(a, r)
    /\ \A l \in links : LinkOK(l)
    /\ \A l \in letters : LetterOK(l)
    /\ ToldOK

LEMMA RefundNosFinite == IsFiniteSet(RefundNos)
<1>1. [in \in RefundInputs |-> in.refundNo] \in Surjection(RefundInputs, RefundNos)
  BY DEF Surjection, RefundNos
<1> QED
  BY <1>1, AddressesAssumption, FS_Surjection

LEMMA NoOrderIsNoRecord ==
    NoOrder.state = "none" /\ NoOrder \notin OrderRecord /\ NoOrder \notin RefundRecord
BY DEF NoOrder, OrderRecord, RefundRecord

LEMMA RepaysTyped ==
    ASSUME NEW rf \in [RefundNos -> {NoOrder} \cup RefundRecord], NEW n
    PROVE  Repays(rf, n) \in [RefundNos -> Nat] /\ Repays(rf, n) \in [RefundNos -> Int]
<1>1. \A r \in RefundNos : rf[r].state # "none" => rf[r].part \in Nat
  BY NoOrderIsNoRecord DEF RefundRecord
<1> QED
  BY <1>1 DEF Repays

LEMMA RefundedIs ==
    ASSUME GateTyped, NEW a \in Gates, NEW n
    PROVE  Refunded(a, n) = Total(Repays(refund[a], n))
<1> DEFINE T == {r \in RefundNos : refund[a][r].state \in {"PROCESSING", "SUCCESS"}
                                   /\ refund[a][r].number = n}
           F == [r \in T |-> refund[a][r].part]
           Eq(iter) == iter = [s \in SUBSET T |-> IF s = {} THEN 0
                          ELSE refund[a][CHOOSE x \in s : TRUE].part
                                  + iter[s \ {CHOOSE x \in s : TRUE}]]
           g == CHOOSE iter : Eq(iter)
<1>1. Refunded(a, n) = g[T]
  BY Zenon DEF Refunded, MapThenSumSet, MapThenFoldSet
<1>2. refund[a] \in [RefundNos -> {NoOrder} \cup RefundRecord]
  BY DEF GateTyped
<1>3. F \in [T -> Int]
  BY <1>2, NoOrderIsNoRecord DEF RefundRecord
<1>4. T \in SUBSET RefundNos /\ IsFiniteSet(T)
  BY RefundNosFinite, FS_Subset
<1>5. /\ \A r \in T : Repays(refund[a], n)[r] = F[r]
      /\ \A r \in RefundNos \ T : Repays(refund[a], n)[r] = 0
  BY DEF Repays
<1>6. \A h : Adds(h, F, T) <=> Eq(h)
  <2> HIDE DEF T
  <2> QED
    BY PickIn DEF Adds, Pick
<1>7. Adds(g, F, T)
  <2> HIDE DEF Eq, F, T
  <2>1. \E h : Eq(h)
    BY <1>4, <1>6, SumsExist
  <2> QED
    BY <2>1, <1>6
<1> HIDE DEF g, F, T
<1>8. Total(F) = g[T]
  BY <1>3, <1>4, <1>7, TotalOf
<1>9. Total(Repays(refund[a], n)) = Total(F)
  BY <1>2, <1>3, <1>4, <1>5, RepaysTyped, RefundNosFinite, TotalWhere
<1> QED
  BY <1>1, <1>8, <1>9

LEMMA GateInitOK == GateInit => GateInv
<1> SUFFICES ASSUME GateInit PROVE GateInv
  OBVIOUS
<1>1. GateTyped
  BY DEF GateInit, GateTyped
<1>2. /\ \A a \in Gates, n \in Numbers : NumberOK(a, n)
      /\ \A a \in Gates, r \in RefundNos : RefundOK(a, r)
      /\ (\A l \in links : LinkOK(l)) /\ (\A l \in letters : LetterOK(l))
  BY DEF GateInit, NumberOK, RefundOK
<1>3. ToldOK
  BY DEF GateInit, ToldOK, PrepaidTold, OrderTold, RefundTold, NoFact
<1>4. \A a \in Gates, n \in Numbers : OrderFits(a, n)
  <2> SUFFICES ASSUME NEW a \in Gates, NEW n \in Numbers PROVE OrderFits(a, n)
    OBVIOUS
  <2>1. \A r \in RefundNos : Repays(refund[a], n)[r] = 0
    BY NoOrderIsNoRecord DEF GateInit, Repays
  <2>2. refund[a] \in [RefundNos -> {NoOrder} \cup RefundRecord]
    BY <1>1 DEF GateTyped
  <2>3. Total(Repays(refund[a], n)) = 0
    BY <2>1, <2>2, RepaysTyped, RefundNosFinite, TotalZero
  <2> QED
    BY <2>3 DEF OrderFits, GateInit
<1> QED
  BY <1>1, <1>2, <1>3, <1>4 DEF GateInv

\* What the platforms never take back.
Onward ==
    /\ \A a \in Gates, n \in Numbers :
          /\ order[a][n] # NoOrder =>
                order'[a][n] # NoOrder /\ order'[a][n].price = order[a][n].price
          /\ order[a][n].state = "SUCCESS" => order'[a][n].state \in {"SUCCESS", "REFUND"}
          /\ order[a][n].state \in {"REFUND", "CLOSED"} => order'[a][n].state = order[a][n].state
    /\ \A a \in Gates, r \in RefundNos :
          refund[a][r].state \in {"SUCCESS", "CLOSED"} => refund'[a][r] = refund[a][r]

LEMMA OnwardKeeps ==
    ASSUME GateInv, Onward
    PROVE  /\ \A l \in letters : LetterOK(l)'
           /\ told' = told => ToldOK'
<1>1. ASSUME NEW l \in letters PROVE LetterOK(l)'
  <2>1. LetterOK(l)
    BY DEF GateInv
  <2> QED
    BY <2>1 DEF LetterOK, Onward
<1>2. ASSUME told' = told PROVE ToldOK'
  <2>1. ToldOK
    BY DEF GateInv
  <2>2. PrepaidTold'
    <3>1. told.number \in Numbers => FiledUnder(told) \in Numbers
      BY NumbersAssumption DEF FiledUnder
    <3>2. FiledUnder(told)' = FiledUnder(told)
      BY <1>2 DEF FiledUnder
    <3> QED
      BY <1>2, <2>1, <3>1, <3>2 DEF ToldOK, PrepaidTold, Onward
  <2>3. OrderTold'
    <3>1. OrderTold
      BY <2>1 DEF ToldOK
    <3>2. ASSUME told.what = "order", told.state = "SUCCESS"
          PROVE  \E n \in Numbers : /\ Trimmed[n] = told.number
                                    /\ order'[told.gate][n].state \in {"SUCCESS", "REFUND"}
      <4>1. PICK n \in Numbers : /\ Trimmed[n] = told.number
                                 /\ order[told.gate][n].state \in {"SUCCESS", "REFUND"}
        BY <3>1, <3>2 DEF OrderTold
      <4> QED
        BY <3>1, <3>2, <4>1 DEF OrderTold, Onward
    <3>3. ASSUME told.what = "order", told.state = "CLOSED"
          PROVE  \E n \in Numbers : /\ Trimmed[n] = told.number
                                    /\ order'[told.gate][n].state = "CLOSED"
      <4>1. PICK n \in Numbers : Trimmed[n] = told.number /\ order[told.gate][n].state = "CLOSED"
        BY <3>1, <3>3 DEF OrderTold
      <4> QED
        BY <3>1, <3>3, <4>1 DEF OrderTold, Onward
    <3> QED
      BY <1>2, <3>1, <3>2, <3>3 DEF OrderTold
  <2>4. RefundTold'
    BY <1>2, <2>1 DEF ToldOK, RefundTold, Onward
  <2> QED
    BY <2>2, <2>3, <2>4 DEF ToldOK
<1> QED
  BY <1>1, <1>2

\* Refunds keep to orders that keep their price.
LEMMA OrdersFrame ==
    ASSUME GateInv, Onward, GateTyped', UNCHANGED refund
    PROVE  /\ \A a \in Gates, n \in Numbers : OrderFits(a, n)'
           /\ \A a \in Gates, r \in RefundNos : RefundOK(a, r)'
<1>1. ASSUME NEW a \in Gates, NEW n \in Numbers PROVE OrderFits(a, n)'
  <2>1. OrderFits(a, n)
    BY DEF GateInv
  <2>2. refund[a] \in [RefundNos -> {NoOrder} \cup RefundRecord]
    BY DEF GateInv, GateTyped
  <2>3. PICK z \in Nat : z = Total(Repays(refund[a], n))
    BY <2>2, RepaysTyped, RefundNosFinite, TotalNat
  <2>4. z = Total(Repays(refund'[a], n))
    BY <2>3
  <2>5. z <= IF order'[a][n] = NoOrder THEN 0 ELSE order'[a][n].price
    <3>1. CASE order[a][n] # NoOrder
      BY <2>1, <2>3, <3>1 DEF OrderFits, Onward
    <3>2. CASE order[a][n] = NoOrder
      <4>1. z <= 0
        BY <2>1, <2>3, <3>2 DEF OrderFits
      <4>2. order'[a][n] # NoOrder => order'[a][n].price \in Nat
        BY DEF GateTyped, OrderRecord
      <4> QED
        BY <4>1, <4>2
    <3> QED
      BY <3>1, <3>2
  <2> QED
    BY <2>4, <2>5 DEF OrderFits, Repays
<1>2. ASSUME NEW a \in Gates, NEW r \in RefundNos PROVE RefundOK(a, r)'
  <2>1. RefundOK(a, r)
    BY DEF GateInv
  <2>2. refund[a][r] # NoOrder => refund[a][r].number \in Numbers
    BY DEF GateInv, GateTyped, RefundRecord
  <2> QED
    BY <2>1, <2>2 DEF RefundOK, Onward
<1> QED
  BY <1>1, <1>2

\* One order is placed or changed, or one refund.
With(f, a, n, new) == [f EXCEPT ![a][n] = new]

LEMMA OrderPut ==
    ASSUME GateTyped, NEW a \in Gates, NEW n \in Numbers, NEW new \in OrderRecord,
           order' = With(order, a, n, new)
    PROVE  /\ order' \in [Gates -> [Numbers -> {NoOrder} \cup OrderRecord]]
           /\ order'[a][n] = new
           /\ \A b \in Gates, m \in Numbers : b # a \/ m # n => order'[b][m] = order[b][m]
<1>1. order \in [Gates -> [Numbers -> {NoOrder} \cup OrderRecord]]
  BY DEF GateTyped
<1>2. order' = [order EXCEPT ![a] = [order[a] EXCEPT ![n] = new]]
  BY <1>1 DEF With
<1>3. [order[a] EXCEPT ![n] = new] \in [Numbers -> {NoOrder} \cup OrderRecord]
  BY <1>1
<1> QED
  BY <1>1, <1>2, <1>3

Moves(a, n, s) == order' = [order EXCEPT ![a][n].state = s]

LEMMA OrderMoved ==
    ASSUME GateTyped, NEW a \in Gates, NEW n \in Numbers,
           NEW s \in {"SUCCESS", "REFUND", "CLOSED"},
           order[a][n].state # "none", Moves(a, n, s)
    PROVE  /\ order' \in [Gates -> [Numbers -> {NoOrder} \cup OrderRecord]]
           /\ order'[a][n].state = s /\ order'[a][n] # NoOrder
           /\ order'[a][n].price = order[a][n].price /\ order[a][n] # NoOrder
           /\ \A b \in Gates, m \in Numbers : b # a \/ m # n => order'[b][m] = order[b][m]
<1> DEFINE new == [order[a][n] EXCEPT !.state = s]
<1>1. order \in [Gates -> [Numbers -> {NoOrder} \cup OrderRecord]]
  BY DEF GateTyped
<1>2. order[a][n] \in OrderRecord
  BY <1>1, NoOrderIsNoRecord
<1>3. new \in OrderRecord /\ new.state = s /\ new.price = order[a][n].price
  BY <1>2 DEF OrderRecord
<1>4. order' = [order EXCEPT ![a][n] = new]
  BY <1>1 DEF Moves
<1>5. /\ order' \in [Gates -> [Numbers -> {NoOrder} \cup OrderRecord]]
      /\ order'[a][n] = new
      /\ \A b \in Gates, m \in Numbers : b # a \/ m # n => order'[b][m] = order[b][m]
  <2>1. PICK v \in OrderRecord : v = new
    BY <1>3
  <2>2. order' = With(order, a, n, v)
    BY <1>4, <2>1 DEF With
  <2>3. /\ order' \in [Gates -> [Numbers -> {NoOrder} \cup OrderRecord]]
        /\ order'[a][n] = v
        /\ \A b \in Gates, m \in Numbers : b # a \/ m # n => order'[b][m] = order[b][m]
    BY <2>1, <2>2, OrderPut
  <2> QED
    BY <2>1, <2>3
<1> HIDE DEF new
<1>6. new # NoOrder /\ order[a][n] # NoOrder
  BY <1>2, <1>3, NoOrderIsNoRecord
<1> QED
  BY <1>3, <1>5, <1>6

LEMMA RefundPut ==
    ASSUME GateTyped, NEW a \in Gates, NEW r \in RefundNos, NEW new \in RefundRecord,
           refund' = With(refund, a, r, new)
    PROVE  /\ refund' \in [Gates -> [RefundNos -> {NoOrder} \cup RefundRecord]]
           /\ refund'[a][r] = new
           /\ \A b \in Gates, m \in RefundNos : b # a \/ m # r => refund'[b][m] = refund[b][m]
<1>1. refund \in [Gates -> [RefundNos -> {NoOrder} \cup RefundRecord]]
  BY DEF GateTyped
<1>2. refund' = [refund EXCEPT ![a] = [refund[a] EXCEPT ![r] = new]]
  BY <1>1 DEF With
<1>3. [refund[a] EXCEPT ![r] = new] \in [RefundNos -> {NoOrder} \cup RefundRecord]
  BY <1>1
<1> QED
  BY <1>1, <1>2, <1>3

\* What is told, when it is true.
LEMMA ToldPrepaid ==
    ASSUME NEW a \in Gates, NEW in, in.number \in Numbers, told' = Prepaid(a, in.number, in),
           NEW n, n = IF GateConfig[a].platform = "alipay" THEN in.number ELSE Trimmed[in.number],
           order'[a][n] # NoOrder, order'[a][n].price = in.price
    PROVE  ToldOK'
<1>1. /\ told'.what = "prepaid" /\ told'.gate = a /\ told'.number = in.number
      /\ told'.price = in.price
  BY DEF Prepaid
<1>2. FiledUnder(told)' = n
  BY <1>1 DEF FiledUnder
<1> QED
  BY <1>1, <1>2 DEF ToldOK, PrepaidTold, OrderTold, RefundTold

OrderFact(a, m, s, by) ==
    [what |-> "order", gate |-> a, number |-> m, state |-> s, by |-> by]

LEMMA ToldOrder ==
    ASSUME NEW a \in Gates, NEW m, NEW s, NEW by,
           told' = OrderFact(a, m, s, by),
           s = "SUCCESS" => \E n \in Numbers : /\ Trimmed[n] = m
                                               /\ order'[a][n].state \in {"SUCCESS", "REFUND"},
           s = "CLOSED" => \E n \in Numbers : Trimmed[n] = m /\ order'[a][n].state = "CLOSED",
           by \in {"refund", "return"} => s = ""
    PROVE  ToldOK'
BY DEF ToldOK, PrepaidTold, OrderTold, RefundTold, OrderFact

LEMMA ToldRefund ==
    ASSUME NEW a \in Gates, NEW r, NEW s, NEW by, told' = RefundFact(a, r, s, by),
           by = "trade" => r = "" /\ s = "",
           s \in {"SUCCESS", "CLOSED"} => r \in RefundNos /\ refund'[a][r].state = s
    PROVE  ToldOK'
BY DEF ToldOK, PrepaidTold, OrderTold, RefundTold, RefundFact

\* One step at a time.
LEMMA Placed ==
    ASSUME GateInv, NEW a \in Gates, NEW n \in Numbers, NEW in, NEW page \in BOOLEAN,
           in.price \in Int, in.notify \in Seq(STRING),
           GateConfig[a].platform = "wechat" => Trimmed[n] = n,
           Place(a, n, in, page), UNCHANGED refund
    PROVE  /\ Onward /\ GateTyped'
           /\ \A b \in Gates, m \in Numbers : NumberOK(b, m)'
           /\ order'[a][n] # NoOrder /\ order'[a][n].price = in.price
<1> DEFINE new == [state |-> "NOTPAY", price |-> in.price, to |-> Address(a, in.notify),
                   page |-> page]
<1>1. GateTyped
  BY DEF GateInv
<1>2. CASE order[a][n].state = "NOTPAY" /\ order[a][n].price = in.price /\ UNCHANGED order
  BY <1>1, <1>2, NoOrderIsNoRecord DEF GateTyped, Onward, GateInv, NumberOK
<1>3. CASE /\ order[a][n] = NoOrder /\ in.price > 0
           /\ order' = [order EXCEPT ![a][n] = new]
  <2>1. new \in OrderRecord
    <3>1. PICK p \in Nat \ {0} : p = in.price
      BY <1>3
    <3>2. PICK to \in Seq(STRING) : to = Address(a, in.notify)
      BY AddressesAssumption DEF Address
    <3>3. [state |-> "NOTPAY", price |-> p, to |-> to, page |-> page] \in OrderRecord
      BY DEF OrderRecord
    <3> QED
      BY <3>1, <3>2, <3>3
  <2>2. new.price = in.price
    OBVIOUS
  <2> HIDE DEF new
  <2>3. /\ order' \in [Gates -> [Numbers -> {NoOrder} \cup OrderRecord]]
        /\ order'[a][n] = new
        /\ \A b \in Gates, m \in Numbers : b # a \/ m # n => order'[b][m] = order[b][m]
    <3>1. order' = With(order, a, n, new)
      BY <1>3 DEF With
    <3> QED
      BY <1>1, <2>1, <3>1, OrderPut
  <2>4. Onward
    BY <1>3, <2>3, NoOrderIsNoRecord DEF Onward
  <2>5. GateTyped'
    BY <1>1, <2>3 DEF GateTyped
  <2>6. \A b \in Gates, m \in Numbers : NumberOK(b, m)'
    BY <2>3 DEF GateInv, NumberOK
  <2> QED
    BY <2>1, <2>2, <2>3, <2>4, <2>5, <2>6, NoOrderIsNoRecord
<1> QED
  BY <1>2, <1>3 DEF Place

LEMMA PrepayStep ==
    ASSUME GateInv, NEW a \in Gates, NEW in \in OrderInputs,
           PrepayMiniProgram(a, in) \/ PrepayNative(a, in) \/ CreateMiniProgramTrade(a, in)
    PROVE  GateInv'
<1> DEFINE n == IF GateConfig[a].platform = "alipay" THEN in.number ELSE Trimmed[in.number]
<1>1. /\ in.number \in Numbers /\ in.price \in Int /\ in.notify \in Seq(STRING)
      /\ Trimmed[in.number] \in Numbers /\ n \in Numbers
      /\ GateConfig[a].platform = "wechat" => Trimmed[n] = n
  BY AddressesAssumption, NumbersAssumption
<1>2. Place(a, n, in, FALSE)
  BY DEF PrepayMiniProgram, PrepayNative, CreateMiniProgramTrade, WechatReady, AlipaySigns
<1>3. UNCHANGED <<refund, links, letters>> /\ Answer(Prepaid(a, in.number, in))
  BY DEF PrepayMiniProgram, PrepayNative, CreateMiniProgramTrade
<1> HIDE DEF n
<1>4. /\ Onward /\ GateTyped'
      /\ \A b \in Gates, m \in Numbers : NumberOK(b, m)'
      /\ order'[a][n] # NoOrder /\ order'[a][n].price = in.price
  BY <1>1, <1>2, <1>3, Placed
<1>5. ToldOK'
  <2>1. CASE told' = told
    BY <1>4, <2>1, OnwardKeeps
  <2>2. CASE told' = Prepaid(a, in.number, in)
    BY <1>1, <1>4, <2>2, ToldPrepaid DEF n
  <2> QED
    BY <1>3, <2>1, <2>2 DEF Answer
<1>6. (\A l \in letters' : LetterOK(l)') /\ \A l \in links' : LinkOK(l)'
  BY <1>3, <1>4, OnwardKeeps DEF GateInv, LinkOK
<1> QED
  BY <1>3, <1>4, <1>5, <1>6, OrdersFrame DEF GateInv

LEMMA LinkStep ==
    ASSUME GateInv, NEW a \in Gates, NEW in \in OrderInputs, CreatePagePayURL(a, in)
    PROVE  GateInv'
<1> DEFINE new == [gate |-> a, in |-> [in EXCEPT !.number = Trimmed[@]]]
<1>1. in \in [number : Numbers, price : Int, notify : Seq(STRING), expire : STRING,
              openid : BOOLEAN, subject : BOOLEAN]
  BY AddressesAssumption
<1>2. UNCHANGED <<order, refund, letters, told>> /\ links' = links \cup {new}
  BY DEF CreatePagePayURL
<1>3. LinkOK(new)
  <2>1. PICK m \in Numbers : m = Trimmed[in.number]
    BY <1>1, NumbersAssumption
  <2>2. new.gate = a /\ new.in = [in EXCEPT !.number = m]
    BY <2>1
  <2>3. [in EXCEPT !.number = m] \in [number : Numbers, price : Int, notify : Seq(STRING),
                                      expire : STRING, openid : BOOLEAN, subject : BOOLEAN]
    BY <1>1
  <2> QED
    BY <2>2, <2>3 DEF LinkOK, CreatePagePayURL, AlipaySigns
<1> HIDE DEF new
<1>4. Onward /\ GateTyped'
  BY <1>2 DEF Onward, GateInv, GateTyped
<1>5. \A b \in Gates, m \in Numbers : NumberOK(b, m)'
  BY <1>2 DEF GateInv, NumberOK
<1>6. \A l \in links' : LinkOK(l)'
  BY <1>2, <1>3 DEF GateInv, LinkOK
<1> QED
  BY <1>2, <1>4, <1>5, <1>6, OnwardKeeps, OrdersFrame DEF GateInv

LEMMA OpenLinkStep ==
    ASSUME GateInv, NEW l \in links, OpenLink(l)
    PROVE  GateInv'
<1>1. LinkOK(l)
  BY DEF GateInv
<1>2. /\ l.gate \in Gates /\ l.in.number \in Numbers /\ l.in.price \in Int
      /\ l.in.notify \in Seq(STRING) /\ GateConfig[l.gate].platform # "wechat"
  BY <1>1 DEF LinkOK
<1>3. Place(l.gate, l.in.number, l.in, TRUE) /\ UNCHANGED <<refund, links, letters, told>>
  BY DEF OpenLink
<1>4. Onward /\ GateTyped' /\ \A b \in Gates, m \in Numbers : NumberOK(b, m)'
  BY <1>2, <1>3, Placed
<1>5. (\A k \in letters' : LetterOK(k)') /\ ToldOK' /\ \A k \in links' : LinkOK(k)'
  BY <1>3, <1>4, OnwardKeeps DEF GateInv, LinkOK
<1> QED
  BY <1>3, <1>4, <1>5, OrdersFrame DEF GateInv

\* An order moves on.
LEMMA Moved ==
    ASSUME GateInv, NEW a \in Gates, NEW n \in Numbers, NEW s \in {"SUCCESS", "CLOSED"},
           order[a][n].state = "NOTPAY", order' = [order EXCEPT ![a][n].state = s],
           UNCHANGED refund
    PROVE  /\ Onward /\ GateTyped'
           /\ \A b \in Gates, m \in Numbers : NumberOK(b, m)'
           /\ order'[a][n].state = s
           /\ order[a][n] # NoOrder
<1>1. /\ order' \in [Gates -> [Numbers -> {NoOrder} \cup OrderRecord]]
      /\ order'[a][n].state = s /\ order'[a][n] # NoOrder
      /\ order'[a][n].price = order[a][n].price /\ order[a][n] # NoOrder
      /\ \A b \in Gates, m \in Numbers : b # a \/ m # n => order'[b][m] = order[b][m]
  BY OrderMoved DEF GateInv, Moves
<1>2. Onward
  BY <1>1 DEF Onward
<1>3. \A b \in Gates, m \in Numbers : NumberOK(b, m)'
  BY <1>1 DEF GateInv, NumberOK
<1> QED
  BY <1>1, <1>2, <1>3 DEF GateInv, GateTyped

LEMMA CloseStep ==
    ASSUME GateInv, NEW a \in Gates, NEW m \in Numbers, CloseOrder(a, m)
    PROVE  GateInv'
<1> DEFINE n == Trimmed[m]
<1>1. n \in Numbers /\ Trimmed[n] = n
  BY NumbersAssumption
<1>2. /\ order[a][n].state = "NOTPAY" /\ order' = [order EXCEPT ![a][n].state = "CLOSED"]
      /\ UNCHANGED <<refund, links, letters>>
      /\ Answer([what |-> "order", gate |-> a, number |-> n, state |-> "CLOSED", by |-> "close"])
  BY DEF CloseOrder
<1> HIDE DEF n
<1>3. /\ Onward /\ GateTyped' /\ order'[a][n].state = "CLOSED"
      /\ \A b \in Gates, k \in Numbers : NumberOK(b, k)'
  BY <1>1, <1>2, Moved
<1>4. ToldOK'
  <2>1. CASE told' = told
    BY <1>3, <2>1, OnwardKeeps
  <2>2. CASE told' = OrderFact(a, n, "CLOSED", "close")
    <3>1. \E k \in Numbers : Trimmed[k] = n /\ order'[a][k].state = "CLOSED"
      BY <1>1, <1>3
    <3> QED
      BY <2>2, <3>1, ToldOrder
  <2> QED
    BY <1>2, <2>1, <2>2 DEF Answer, OrderFact
<1>5. (\A l \in letters' : LetterOK(l)') /\ \A l \in links' : LinkOK(l)'
  BY <1>2, <1>3, OnwardKeeps DEF GateInv, LinkOK
<1> QED
  BY <1>2, <1>3, <1>4, <1>5, OrdersFrame DEF GateInv

LEMMA PayOrLapseStep ==
    ASSUME GateInv, NEW a \in Gates, NEW n \in Numbers, Pay(a, n) \/ Lapse(a, n)
    PROVE  GateInv'
<1>1. PICK s \in {"SUCCESS", "CLOSED"} :
         /\ order[a][n].state = "NOTPAY" /\ order' = [order EXCEPT ![a][n].state = s]
         /\ letters' \subseteq letters \cup {Letter(a, n, "trade", s), Letter(a, n, "return", "")}
         /\ UNCHANGED <<refund, links, told>>
  <2>1. CASE Pay(a, n)
    BY <2>1 DEF Pay
  <2>2. CASE Lapse(a, n)
    BY <2>2 DEF Lapse
  <2> QED
    BY <2>1, <2>2
<1>2. /\ Onward /\ GateTyped' /\ order'[a][n].state = s /\ order[a][n] # NoOrder
      /\ \A b \in Gates, m \in Numbers : NumberOK(b, m)'
  BY <1>1, Moved
<1>3. GateConfig[a].platform = "wechat" => Trimmed[n] = n
  BY <1>2 DEF GateInv, NumberOK
<1>4. ASSUME NEW to
      PROVE  /\ LetterOK([gate |-> a, number |-> n, kind |-> "trade", state |-> s, to |-> to])'
             /\ LetterOK([gate |-> a, number |-> n, kind |-> "return", state |-> "", to |-> to])'
  BY <1>2, <1>3 DEF LetterOK
<1>5. \A l \in letters' : LetterOK(l)'
  <2>1. \A l \in letters : LetterOK(l)'
    BY <1>2, OnwardKeeps
  <2>2. PICK to : to = order[a][n].to
    OBVIOUS
  <2>3. letters' \subseteq letters \cup
           {[gate |-> a, number |-> n, kind |-> "trade", state |-> s, to |-> to],
            [gate |-> a, number |-> n, kind |-> "return", state |-> "", to |-> to]}
    BY <1>1, <2>2 DEF Letter
  <2> QED
    BY <1>4, <2>1, <2>3
<1>6. (\A l \in links' : LinkOK(l)') /\ ToldOK'
  BY <1>1, <1>2, OnwardKeeps DEF GateInv, LinkOK
<1> QED
  BY <1>1, <1>2, <1>5, <1>6, OrdersFrame DEF GateInv

LEMMA RepaysChange ==
    ASSUME NEW rf \in [RefundNos -> {NoOrder} \cup RefundRecord],
           NEW to \in [RefundNos -> {NoOrder} \cup RefundRecord],
           NEW r \in RefundNos, NEW n, \A m \in RefundNos \ {r} : to[m] = rf[m]
    PROVE  /\ Total(Repays(to, n)) = Total(Repays(rf, n)) - Repays(rf, n)[r] + Repays(to, n)[r]
           /\ {Total(Repays(to, n)), Total(Repays(rf, n)), Repays(to, n)[r], Repays(rf, n)[r]}
                 \subseteq Nat
<1>1. PICK F \in [RefundNos -> Int] : F = Repays(rf, n) /\ F \in [RefundNos -> Nat]
  BY RepaysTyped
<1>2. PICK G \in [RefundNos -> Int] : G = Repays(to, n) /\ G \in [RefundNos -> Nat]
  BY RepaysTyped
<1>3. \A m \in RefundNos \ {r} : G[m] = F[m]
  BY <1>1, <1>2 DEF Repays
<1>4. Total(G) = Total(F) - F[r] + G[r]
  BY <1>3, RefundNosFinite, TotalChange
<1>5. Total(F) \in Nat /\ Total(G) \in Nat
  BY <1>1, <1>2, RefundNosFinite, TotalNat
<1> QED
  BY <1>1, <1>2, <1>4, <1>5

LEMMA NewRefund ==
    ASSUME GateInv, NEW a \in Gates, NEW in \in RefundInputs, NEW n, n = Trimmed[in.number],
           refund[a][in.refundNo] = NoOrder,
           order[a][n].state \in {"SUCCESS", "REFUND"}, in.total = order[a][n].price,
           in.part > 0, Refunded(a, n) + in.part <= in.total,
           refund' = [refund EXCEPT ![a][in.refundNo] =
             [state |-> "PROCESSING", number |-> n, part |-> in.part,
              to |-> Address(a, in.notify)]],
           Moves(a, n, "REFUND")
    PROVE  /\ Onward /\ GateTyped'
           /\ \A b \in Gates, m \in Numbers : NumberOK(b, m)' /\ OrderFits(b, m)'
           /\ \A b \in Gates, k \in RefundNos : RefundOK(b, k)'
           /\ refund'[a][in.refundNo].state = "PROCESSING"
<1> DEFINE r == in.refundNo
           new == [state |-> "PROCESSING", number |-> n, part |-> in.part,
                   to |-> Address(a, in.notify)]
<1>1. n \in Numbers /\ r \in RefundNos /\ GateTyped
  BY AddressesAssumption, NumbersAssumption DEF RefundNos, GateInv
<1>2. PICK p \in Nat \ {0} : p = in.part
  <2>1. PICK p \in Int : p = in.part
    BY AddressesAssumption
  <2> QED
    BY <2>1
<1>3. new \in RefundRecord
  <2>1. PICK to \in Seq(STRING) : to = Address(a, in.notify)
    BY AddressesAssumption DEF Address
  <2>2. [state |-> "PROCESSING", number |-> n, part |-> p, to |-> to] \in RefundRecord
    BY <1>1 DEF RefundRecord
  <2> QED
    BY <1>2, <2>1, <2>2
<1>4. new.state = "PROCESSING" /\ new.number = n /\ new.part = p
  BY <1>2
<1>5. refund' = With(refund, a, r, new)
  BY DEF With
<1> HIDE DEF new, r
<1>6. /\ refund' \in [Gates -> [RefundNos -> {NoOrder} \cup RefundRecord]]
      /\ refund'[a][r] = new
      /\ \A b \in Gates, m \in RefundNos : b # a \/ m # r => refund'[b][m] = refund[b][m]
  BY <1>1, <1>3, <1>5, RefundPut
<1>7. /\ order' \in [Gates -> [Numbers -> {NoOrder} \cup OrderRecord]]
      /\ order'[a][n].state = "REFUND" /\ order'[a][n] # NoOrder
      /\ order'[a][n].price = order[a][n].price /\ order[a][n] # NoOrder
      /\ \A b \in Gates, m \in Numbers : b # a \/ m # n => order'[b][m] = order[b][m]
  BY <1>1, OrderMoved
<1>8. refund[a][r] = NoOrder
  BY DEF r
<1>9. Onward
  <2>1. \A b \in Gates, m \in Numbers :
          /\ order[b][m] # NoOrder =>
                order'[b][m] # NoOrder /\ order'[b][m].price = order[b][m].price
          /\ order[b][m].state = "SUCCESS" => order'[b][m].state \in {"SUCCESS", "REFUND"}
          /\ order[b][m].state \in {"REFUND", "CLOSED"} => order'[b][m].state = order[b][m].state
    BY <1>7
  <2>2. \A b \in Gates, k \in RefundNos :
          refund[b][k].state \in {"SUCCESS", "CLOSED"} => refund'[b][k] = refund[b][k]
    BY <1>6, <1>8, NoOrderIsNoRecord
  <2> QED
    BY <2>1, <2>2 DEF Onward
<1>10. GateTyped'
  BY <1>6, <1>7 DEF GateTyped
<1>11. \A b \in Gates, m \in Numbers : NumberOK(b, m)'
  BY <1>7 DEF GateInv, NumberOK
<1>12. \A b \in Gates, k \in RefundNos : RefundOK(b, k)'
  <2> SUFFICES ASSUME NEW b \in Gates, NEW k \in RefundNos PROVE RefundOK(b, k)'
    OBVIOUS
  <2>1. CASE b = a /\ k = r
    BY <1>4, <1>6, <1>7, <2>1 DEF RefundOK
  <2>2. CASE b # a \/ k # r
    <3>1. refund'[b][k] = refund[b][k] /\ RefundOK(b, k)
      BY <1>6, <2>2 DEF GateInv
    <3>2. refund[b][k] # NoOrder => refund[b][k].number \in Numbers
      BY <1>1 DEF GateTyped, RefundRecord
    <3> QED
      BY <1>9, <3>1, <3>2, SMTT(30) DEF RefundOK, Onward
  <2> QED
    BY <2>1, <2>2
<1>13. \A b \in Gates, m \in Numbers : OrderFits(b, m)'
  <2> SUFFICES ASSUME NEW b \in Gates, NEW m \in Numbers PROVE OrderFits(b, m)'
    OBVIOUS
  <2>1. OrderFits(b, m)
    BY DEF GateInv
  <2>2. PICK rf \in [RefundNos -> {NoOrder} \cup RefundRecord] : rf = refund[b]
    BY <1>1 DEF GateTyped
  <2>3. PICK to \in [RefundNos -> {NoOrder} \cup RefundRecord] : to = refund'[b]
    BY <1>6
  <2>4. PICK z \in Nat : z = Total(Repays(rf, m))
    BY RepaysTyped, RefundNosFinite, TotalNat
  <2>5. PICK q \in Nat : q = IF order[b][m] = NoOrder THEN 0 ELSE order[b][m].price
    BY <1>1 DEF GateTyped, OrderRecord
  <2>6. z <= q
    BY <2>1, <2>2, <2>4, <2>5 DEF OrderFits
  <2>7. q = IF order'[b][m] = NoOrder THEN 0 ELSE order'[b][m].price
    BY <1>7, <2>5
  <2>8. Total(Repays(to, m)) <= q
    <3>1. CASE b # a
      <4>1. to = rf
        BY <1>6, <2>2, <2>3, <3>1
      <4> QED
        BY <2>4, <2>6, <4>1
    <3>2. CASE b = a
      <4>1. \A k \in RefundNos \ {r} : to[k] = rf[k]
        BY <1>6, <2>2, <2>3
      <4>2. r \in RefundNos
        BY <1>1
      <4>3. /\ Total(Repays(to, m)) = Total(Repays(rf, m)) - Repays(rf, m)[r] + Repays(to, m)[r]
            /\ {Total(Repays(to, m)), Total(Repays(rf, m)), Repays(to, m)[r],
                Repays(rf, m)[r]} \subseteq Nat
        BY <4>1, <4>2, RepaysChange
      <4>4. Repays(rf, m)[r] = 0
        BY <1>8, <2>2, <3>2, <4>2, NoOrderIsNoRecord DEF Repays
      <4>5. Repays(to, m)[r] = IF m = n THEN p ELSE 0
        BY <1>4, <1>6, <2>3, <3>2, <4>2 DEF Repays
      <4>6. m = n => z + p <= q
        <5> SUFFICES ASSUME m = n PROVE z + p <= q
          OBVIOUS
        <5>1. q = in.total
          BY <1>7, <2>5, <3>2
        <5>2. z = Refunded(a, n)
          BY <1>1, <2>2, <2>4, <3>2, RefundedIs
        <5> QED
          BY <1>2, <5>1, <5>2
      <4> QED
        BY <2>4, <2>6, <4>3, <4>4, <4>5, <4>6
    <3> QED
      BY <3>1, <3>2
  <2> QED
    <3>1. Repays(refund[b], m)' = Repays(to, m)
      BY <2>3 DEF Repays
    <3> QED
      BY <2>7, <2>8, <3>1 DEF OrderFits
<1>14. refund'[a][in.refundNo].state = "PROCESSING"
  BY <1>4, <1>6 DEF r
<1> QED
  BY <1>9, <1>10, <1>11, <1>12, <1>13, <1>14

LEMMA CreateRefundStep ==
    ASSUME GateInv, NEW a \in Gates, NEW in \in RefundInputs, CreateRefund(a, in)
    PROVE  GateInv'
<1> DEFINE r == in.refundNo
<1>1. UNCHANGED <<links, letters>> /\ Answer(RefundFact(a, r, refund'[a][r].state, "query"))
  BY DEF CreateRefund
<1>2. /\ Onward /\ GateTyped'
      /\ \A b \in Gates, m \in Numbers : NumberOK(b, m)' /\ OrderFits(b, m)'
      /\ \A b \in Gates, k \in RefundNos : RefundOK(b, k)'
  <2>1. CASE UNCHANGED <<refund, order>>
    <3>1. Onward /\ GateTyped'
      BY <2>1 DEF Onward, GateInv, GateTyped
    <3> QED
      BY <2>1, <3>1, OrdersFrame DEF GateInv, NumberOK
  <2>2. CASE ~ UNCHANGED <<refund, order>>
    BY <2>2, NewRefund DEF CreateRefund, AcceptRefund, Moves
  <2> QED
    BY <2>1, <2>2
<1>3. ToldOK'
  <2>1. CASE told' = told
    BY <1>2, <2>1, OnwardKeeps
  <2>2. CASE told' = RefundFact(a, r, refund'[a][r].state, "query")
    <3>1. r \in RefundNos
      BY DEF RefundNos
    <3> QED
      BY <2>2, <3>1, ToldRefund
  <2> QED
    BY <1>1, <2>1, <2>2 DEF Answer
<1>4. (\A l \in letters' : LetterOK(l)') /\ \A l \in links' : LinkOK(l)'
  BY <1>1, <1>2, OnwardKeeps DEF GateInv, LinkOK
<1> QED
  BY <1>2, <1>3, <1>4 DEF GateInv

LEMMA EndRefundStep ==
    ASSUME GateInv, NEW a \in Gates, NEW r \in RefundNos, NEW s \in {"SUCCESS", "CLOSED"},
           EndRefund(a, r, s)
    PROVE  GateInv'
<1> DEFINE new == [refund[a][r] EXCEPT !.state = s]
<1>1. GateTyped /\ refund \in [Gates -> [RefundNos -> {NoOrder} \cup RefundRecord]]
  BY DEF GateInv, GateTyped
<1>2. refund[a][r].state = "PROCESSING" /\ refund[a][r] \in RefundRecord
  BY <1>1, NoOrderIsNoRecord DEF EndRefund
<1>3. /\ new \in RefundRecord /\ new.state = s /\ new.number = refund[a][r].number
      /\ new.part = refund[a][r].part
  BY <1>2 DEF RefundRecord
<1>4. UNCHANGED <<order, links, told>> /\ refund' = With(refund, a, r, new)
  BY <1>1 DEF EndRefund, With
<1> HIDE DEF new
<1>5. /\ refund' \in [Gates -> [RefundNos -> {NoOrder} \cup RefundRecord]]
      /\ refund'[a][r] = new
      /\ \A b \in Gates, m \in RefundNos : b # a \/ m # r => refund'[b][m] = refund[b][m]
  BY <1>1, <1>3, <1>4, RefundPut
<1>6. GateTyped' /\ \A b \in Gates, m \in Numbers : NumberOK(b, m)'
  BY <1>1, <1>4, <1>5 DEF GateTyped, GateInv, NumberOK
<1>7. Onward
  BY <1>2, <1>4, <1>5 DEF Onward
<1>8. \A b \in Gates, k \in RefundNos : RefundOK(b, k)'
  <2> SUFFICES ASSUME NEW b \in Gates, NEW k \in RefundNos PROVE RefundOK(b, k)'
    OBVIOUS
  <2>1. RefundOK(b, k) /\ RefundOK(a, r)
    BY DEF GateInv
  <2>2. refund[a][r] # NoOrder
    BY <1>2, NoOrderIsNoRecord
  <2> QED
    BY <1>3, <1>4, <1>5, <2>1, <2>2 DEF RefundOK
<1>9. \A b \in Gates, m \in Numbers : OrderFits(b, m)'
  <2> SUFFICES ASSUME NEW b \in Gates, NEW m \in Numbers PROVE OrderFits(b, m)'
    OBVIOUS
  <2>1. OrderFits(b, m)
    BY DEF GateInv
  <2>2. PICK rf \in [RefundNos -> {NoOrder} \cup RefundRecord] : rf = refund[b]
    BY <1>1
  <2>3. PICK to \in [RefundNos -> {NoOrder} \cup RefundRecord] : to = refund'[b]
    BY <1>5
  <2>4. PICK z \in Nat : z = Total(Repays(rf, m))
    BY RepaysTyped, RefundNosFinite, TotalNat
  <2>5. PICK q \in Nat : q = IF order[b][m] = NoOrder THEN 0 ELSE order[b][m].price
    BY <1>1 DEF GateTyped, OrderRecord
  <2>6. z <= q
    BY <2>1, <2>2, <2>4, <2>5 DEF OrderFits
  <2>7. q = IF order'[b][m] = NoOrder THEN 0 ELSE order'[b][m].price
    BY <1>4, <2>5
  <2>8. Total(Repays(to, m)) <= q
    <3>1. \A k \in RefundNos \ {r} : to[k] = rf[k]
      BY <1>5, <2>2, <2>3
    <3>2. /\ Total(Repays(to, m)) = Total(Repays(rf, m)) - Repays(rf, m)[r] + Repays(to, m)[r]
          /\ {Total(Repays(to, m)), Total(Repays(rf, m)), Repays(to, m)[r],
              Repays(rf, m)[r]} \subseteq Nat
      BY <3>1, RepaysChange
    <3>3. Repays(to, m)[r] = 0 \/ Repays(to, m)[r] = Repays(rf, m)[r]
      <4>1. CASE b = a
        BY <1>2, <1>3, <1>5, <2>2, <2>3, <4>1 DEF Repays
      <4>2. CASE b # a
        BY <1>5, <2>2, <2>3, <4>2 DEF Repays
      <4> QED
        BY <4>1, <4>2
    <3> QED
      BY <2>4, <2>6, <3>2, <3>3
  <2> QED
    BY <2>3, <2>7, <2>8 DEF OrderFits, Repays
<1>10. \A l \in letters' : LetterOK(l)'
  <2>1. PICK to, n : to = refund[a][r].to /\ n = refund[a][r].number
    OBVIOUS
  <2>2. n \in Numbers
    BY <1>2, <2>1 DEF RefundRecord
  <2>3. letters' \subseteq letters \cup
           {[gate |-> a, number |-> n, refundNo |-> r, kind |-> "refund", state |-> s,
             to |-> to]}
    BY <2>1 DEF EndRefund
  <2>4. LetterOK([gate |-> a, number |-> n, refundNo |-> r, kind |-> "refund", state |-> s,
                  to |-> to])'
    BY <1>3, <1>5, <2>2 DEF LetterOK
  <2>5. \A l \in letters : LetterOK(l)'
    BY <1>7, OnwardKeeps
  <2> QED
    BY <2>3, <2>4, <2>5
<1>11. ToldOK' /\ \A l \in links' : LinkOK(l)'
  BY <1>4, <1>7, OnwardKeeps DEF GateInv, LinkOK
<1> QED
  BY <1>6, <1>8, <1>9, <1>10, <1>11 DEF GateInv

\* Whoever asks or listens changes nothing but what was told.
LEMMA ToldStep ==
    ASSUME GateInv, UNCHANGED <<order, refund, links, letters>>, told' = told \/ ToldOK'
    PROVE  GateInv'
<1>1. Onward /\ GateTyped'
  BY DEF Onward, GateInv, GateTyped
<1>2. ToldOK'
  BY <1>1, OnwardKeeps
<1>3. /\ \A b \in Gates, m \in Numbers : NumberOK(b, m)'
      /\ \A l \in links' : LinkOK(l)'
  BY DEF GateInv, NumberOK, LinkOK
<1> QED
  BY <1>1, <1>2, <1>3, OnwardKeeps, OrdersFrame DEF GateInv

LEMMA QueryStep ==
    ASSUME GateInv, NEW a \in Gates,
           \/ \E n \in Numbers : QueryOrderByOutTradeNo(a, n) \/ QueryTradeByOutTradeNo(a, n)
           \/ \E r \in RefundNos : QueryRefundByOutRefundNo(a, r)
    PROVE  GateInv'
<1>1. CASE \E n \in Numbers : QueryOrderByOutTradeNo(a, n) \/ QueryTradeByOutTradeNo(a, n)
  <2>1. PICK n \in Numbers : QueryOrderByOutTradeNo(a, n) \/ QueryTradeByOutTradeNo(a, n)
    BY <1>1
  <2>2. /\ UNCHANGED <<order, refund, links, letters>>
        /\ Answer(Looked(a, n, order[a][Trimmed[n]]))
    BY <2>1 DEF QueryOrderByOutTradeNo, QueryTradeByOutTradeNo
  <2>3. ASSUME told' = Looked(a, n, order[a][Trimmed[n]])
        PROVE  ToldOK'
    <3>1. told' = OrderFact(a, Trimmed[n], order[a][Trimmed[n]].state, "query")
      BY <2>3 DEF Looked, OrderFact
    <3>2. Trimmed[n] \in Numbers /\ Trimmed[Trimmed[n]] = Trimmed[n]
      BY NumbersAssumption
    <3>3. order[a][Trimmed[n]].state = "SUCCESS" =>
            \E m \in Numbers : /\ Trimmed[m] = Trimmed[n]
                               /\ order'[a][m].state \in {"SUCCESS", "REFUND"}
      BY <2>2, <3>2
    <3>4. order[a][Trimmed[n]].state = "CLOSED" =>
            \E m \in Numbers : Trimmed[m] = Trimmed[n] /\ order'[a][m].state = "CLOSED"
      BY <2>2, <3>2
    <3> QED
      BY <3>1, <3>3, <3>4, ToldOrder
  <2> QED
    BY <2>2, <2>3, ToldStep DEF Answer
<1>2. CASE \E r \in RefundNos : QueryRefundByOutRefundNo(a, r)
  <2>1. PICK r \in RefundNos : QueryRefundByOutRefundNo(a, r)
    BY <1>2
  <2>2. /\ UNCHANGED <<order, refund, links, letters>>
        /\ Answer(RefundFact(a, r, refund'[a][r].state, "query"))
    BY <2>1 DEF QueryRefundByOutRefundNo
  <2>3. ASSUME told' = RefundFact(a, r, refund'[a][r].state, "query")
        PROVE  ToldOK'
    BY <2>3, ToldRefund
  <2> QED
    BY <2>2, <2>3, ToldStep DEF Answer
<1> QED
  BY <1>1, <1>2

LEMMA LetterStep ==
    ASSUME GateInv, NEW a \in Gates, NEW l \in letters,
           \/ ParseTransactionNotify(a, l) \/ ParseRefundNotify(a, l)
           \/ ParseTradeNotify(a, l) \/ ParsePagePayReturn(a, l)
    PROVE  GateInv'
<1>1. LetterOK(l)
  BY DEF GateInv
<1>2. UNCHANGED <<order, refund, links, letters>>
  BY DEF ParseTransactionNotify, ParseRefundNotify, ParseTradeNotify, ParsePagePayReturn, Learn
<1>3. /\ l.gate \in Gates /\ l.number \in Numbers /\ l.kind \in {"trade", "refund", "return"}
      /\ l.kind = "trade" =>
          /\ GateConfig[l.gate].platform = "wechat" => Trimmed[l.number] = l.number
          /\ l.state = "SUCCESS" => order'[l.gate][l.number].state \in {"SUCCESS", "REFUND"}
          /\ l.state = "CLOSED" => order'[l.gate][l.number].state = "CLOSED"
      /\ l.kind = "refund" =>
          /\ l.refundNo \in RefundNos
          /\ l.state \in {"SUCCESS", "CLOSED"} => refund'[l.gate][l.refundNo].state = l.state
  BY <1>1, <1>2 DEF LetterOK
<1>4. CASE ParseTransactionNotify(a, l)
  <2> DEFINE s == IF l.kind = "trade" THEN l.state ELSE ""
  <2>1. /\ l.gate = a /\ GateConfig[a].platform = "wechat"
        /\ told' = OrderFact(a, l.number, s, l.kind)
    BY <1>4 DEF ParseTransactionNotify, NoticeOpens, WechatReady, Learn, OrderFact
  <2>2. s = "SUCCESS" => \E n \in Numbers : /\ Trimmed[n] = l.number
                                            /\ order'[a][n].state \in {"SUCCESS", "REFUND"}
    BY <1>3, <2>1
  <2>3. s = "CLOSED" => \E n \in Numbers : Trimmed[n] = l.number /\ order'[a][n].state = "CLOSED"
    BY <1>3, <2>1
  <2>4. l.kind \in {"refund", "return"} => s = ""
    OBVIOUS
  <2> HIDE DEF s
  <2> QED
    BY <1>2, <2>1, <2>2, <2>3, <2>4, ToldOrder, ToldStep
<1>5. CASE ParseRefundNotify(a, l)
  <2> DEFINE r == IF l.kind = "refund" THEN l.refundNo ELSE ""
             s == IF l.kind = "refund" THEN l.state ELSE ""
  <2>1. l.gate = a /\ told' = RefundFact(a, r, s, l.kind)
    BY <1>5 DEF ParseRefundNotify, NoticeOpens, Learn
  <2>2. /\ l.kind = "trade" => r = "" /\ s = ""
        /\ s \in {"SUCCESS", "CLOSED"} => r \in RefundNos /\ refund'[a][r].state = s
    BY <1>3, <2>1
  <2> HIDE DEF r, s
  <2> QED
    BY <1>2, <2>1, <2>2, ToldRefund, ToldStep
<1>6. CASE ParseTradeNotify(a, l)
  <2>1. /\ l.gate = a /\ l.kind = "trade"
        /\ told' = OrderFact(a, Trimmed[l.number], l.state, "trade")
    BY <1>6 DEF ParseTradeNotify, OwnAppID, Learn, OrderFact
  <2>2. l.state = "SUCCESS" =>
          \E n \in Numbers : /\ Trimmed[n] = Trimmed[l.number]
                             /\ order'[a][n].state \in {"SUCCESS", "REFUND"}
    BY <1>3, <2>1
  <2>3. l.state = "CLOSED" =>
          \E n \in Numbers : Trimmed[n] = Trimmed[l.number] /\ order'[a][n].state = "CLOSED"
    BY <1>3, <2>1
  <2> QED
    BY <1>2, <2>1, <2>2, <2>3, ToldOrder, ToldStep
<1>7. CASE ParsePagePayReturn(a, l)
  <2>1. told' = OrderFact(a, Trimmed[l.number], "", "return")
    BY <1>7 DEF ParsePagePayReturn, Learn, OrderFact
  <2>2. ToldOK'
    BY <2>1 DEF ToldOK, PrepaidTold, OrderTold, RefundTold, OrderFact
  <2> QED
    BY <1>2, <2>2, ToldStep
<1> QED
  BY <1>4, <1>5, <1>6, <1>7

LEMMA GateStepKeeps == ASSUME GateInv, NEW a \in Gates, GateStep(a) PROVE GateInv'
BY PrepayStep, LinkStep, OpenLinkStep, CloseStep, PayOrLapseStep, CreateRefundStep,
   EndRefundStep, QueryStep, LetterStep DEF GateStep

\* What does not depend on the orders: phone numbers and padding.
LEMMA RoutesAgree == PhoneRoutesAgree
<1> SUFFICES ASSUME NEW a \in Gates, NEW e \in Envelopes
             PROVE  /\ LocalPhone(a, e) # "" /\ RemotePhone(e) # "" =>
                          LocalPhone(a, e) = RemotePhone(e)
                    /\ e.form \in {"encryptedData", "code"} /\ GateConfig[a].encrypt =>
                          QueryMiniUserPhone(a, e) = ""
                    /\ /\ e.text = "cipher" /\ e.sign # "bad" /\ e.form \in {"raw", "response"}
                       /\ AlipaySigns(a) /\ PublicKeyLoads(a) /\ e.code # "40001"
                       => QueryMiniUserPhone(a, e) = e.mobile
  BY DEF PhoneRoutesAgree
<1>1. LocalPhone(a, e) \in {"", e.mobile} /\ RemotePhone(e) \in {"", e.mobile}
  BY DEF LocalPhone, RemotePhone
<1>2. ASSUME e.form \in {"encryptedData", "code"}, GateConfig[a].encrypt
      PROVE  QueryMiniUserPhone(a, e) = ""
  BY <1>2 DEF QueryMiniUserPhone, LocalPhone, Response
<1>3. ASSUME e.text = "cipher", e.sign # "bad", e.form \in {"raw", "response"},
             AlipaySigns(a), PublicKeyLoads(a), e.code # "40001"
      PROVE  QueryMiniUserPhone(a, e) = e.mobile
  <2>1. e.sign \in {"none", "good"} /\ e.code \in {"", "10000"}
    BY <1>3, EnvelopesAssumption
  <2>2. LocalPhone(a, e) = e.mobile
    BY <1>3, <2>1 DEF LocalPhone, Response, EnvelopeVerifies
  <2>3. RemotePhone(e) = e.mobile
    BY <1>3, <2>1 DEF RemotePhone
  <2> QED
    BY <1>3, <2>2, <2>3 DEF QueryMiniUserPhone
<1> QED
  BY <1>1, <1>2, <1>3

LEMMA PadLength ==
    ASSUME NEW size \in 1..2, NEW len \in 0..4
    PROVE  /\ size - (len % size) \in 1..size
           /\ (len + (size - (len % size))) % size = 0
           /\ \A n \in 1..size : n <= len /\ len % size = 0 =>
                 size - ((len - n) % size) = n
<1>1. CASE size = 1
  <2>1. \A k \in 0..6 : k % 1 = 0
    OBVIOUS
  <2> QED
    BY <1>1, <2>1
<1>2. CASE size = 2
  <2>1. /\ 0 % 2 = 0 /\ 1 % 2 = 1 /\ 2 % 2 = 0 /\ 3 % 2 = 1 /\ 4 % 2 = 0 /\ 5 % 2 = 1
        /\ 6 % 2 = 0
    OBVIOUS
  <2>2. len = 0 \/ len = 1 \/ len = 2 \/ len = 3 \/ len = 4
    OBVIOUS
  <2> QED
    BY <1>2, <2>1, <2>2
<1> QED
  BY <1>1, <1>2

PadOK(p, data, len, n) ==
    /\ p \in Seq(Int) /\ Len(p) = len + n
    /\ \A i \in 1..len : p[i] = data[i]
    /\ \A i \in (len + 1)..(len + n) : p[i] = n

LEMMA Padded ==
    ASSUME NEW size \in 1..2, NEW len \in 0..4, NEW data \in [1..len -> 0..3]
    PROVE  PadOK(Pkcs7Pad(data, size), data, len, size - (len % size))
<1> DEFINE n == size - (len % size)
           tail == [i \in 1..n |-> n]
<1>1. data \in Seq(Int) /\ Len(data) = len
  OBVIOUS
<1>2. n \in 1..2
  BY PadLength
<1> HIDE DEF n
<1>3. tail \in Seq(Int) /\ Len(tail) = n /\ \A i \in 1..n : tail[i] = n
  BY <1>2
<1>4. Pkcs7Pad(data, size) = data \o tail
  BY <1>1 DEF Pkcs7Pad, n
<1> HIDE DEF tail
<1>5. /\ data \o tail \in Seq(Int) /\ Len(data \o tail) = len + n
      /\ \A i \in 1..len : (data \o tail)[i] = data[i]
      /\ \A i \in (len + 1)..(len + n) : (data \o tail)[i] = tail[i - len]
  BY <1>1, <1>2, <1>3, ConcatProperties
<1>6. \A i \in (len + 1)..(len + n) : i - len \in 1..n
  BY <1>2
<1>7. PadOK(Pkcs7Pad(data, size), data, len, n)
  BY <1>3, <1>4, <1>5, <1>6 DEF PadOK
<1> QED
  BY <1>7 DEF n

LEMMA Unpads == PaddingHolds
<1> SUFFICES ASSUME NEW size \in 1..2, NEW len \in 0..4, NEW data \in [1..len -> 0..3]
             PROVE  /\ Pkcs7Unpad(Pkcs7Pad(data, size), size) = data
                    /\ Pkcs7Unpad(data, size) # NotPadded =>
                          Pkcs7Pad(Pkcs7Unpad(data, size), size) = data
  BY DEF PaddingHolds
<1>1. data \in Seq(Int) /\ Len(data) = len
  OBVIOUS
<1>2. Pkcs7Unpad(Pkcs7Pad(data, size), size) = data
  <2> DEFINE n == size - (len % size)
             p == Pkcs7Pad(data, size)
  <2>1. /\ p \in Seq(Int) /\ Len(p) = len + n
        /\ \A i \in 1..len : p[i] = data[i]
        /\ \A i \in (len + 1)..(len + n) : p[i] = n
    <3>1. PadOK(p, data, len, n)
      BY Padded
    <3> HIDE DEF n, p
    <3> QED
      BY <3>1 DEF PadOK
  <2>2. n \in 1..size /\ (len + n) % size = 0
    BY PadLength
  <2> HIDE DEF n, p
  <2>3. p[len + n] = n /\ len + n # 0 /\ n <= len + n
    BY <2>1, <2>2
  <2>4. \A i \in (len + n - n + 1)..(len + n) : p[i] = n
    BY <2>1, <2>2
  <2>5. Pkcs7Unpad(p, size) = SubSeq(p, 1, len + n - n)
    BY <2>1, <2>2, <2>3, <2>4 DEF Pkcs7Unpad
  <2>6. SubSeq(p, 1, len) = data
    BY <1>1, <2>1, <2>2
  <2>7. len + n - n = len
    BY <2>2
  <2> QED
    BY <2>5, <2>6, <2>7 DEF p
<1>3. ASSUME Pkcs7Unpad(data, size) # NotPadded
      PROVE  Pkcs7Pad(Pkcs7Unpad(data, size), size) = data
  <2>1. PICK n : n = data[len]
    OBVIOUS
  <2>2. /\ len # 0 /\ len % size = 0 /\ n # 0 /\ ~ (n > size) /\ ~ (n > len)
        /\ \A i \in (len - n + 1)..len : data[i] = n
        /\ Pkcs7Unpad(data, size) = SubSeq(data, 1, len - n)
    BY <1>1, <1>3, <2>1 DEF Pkcs7Unpad
  <2>3. n \in 1..size /\ n <= len
    <3>1. n \in 0..3
      BY <2>1, <2>2
    <3> QED
      BY <2>2, <3>1
  <2>4. PICK m \in 0..4 : m = len - n
    BY <2>3
  <2>5. PICK s \in [1..m -> 0..3] :
           s = SubSeq(data, 1, m) /\ \A i \in 1..m : s[i] = data[i]
    <3>1. m <= len
      BY <2>3, <2>4
    <3>2. SubSeq(data, 1, m) = [i \in 1..m |-> data[i]]
      BY <1>1, <2>4, <3>1
    <3>3. [i \in 1..m |-> data[i]] \in [1..m -> 0..3]
      BY <3>1
    <3> QED
      BY <3>2, <3>3
  <2>6. size - (m % size) = n
    BY <2>2, <2>3, <2>4, PadLength
  <2> DEFINE p == Pkcs7Pad(s, size)
  <2>7. /\ p \in Seq(Int) /\ Len(p) = m + n
        /\ \A i \in 1..m : p[i] = s[i]
        /\ \A i \in (m + 1)..(m + n) : p[i] = n
    <3>1. PadOK(p, s, m, size - (m % size))
      BY <2>5, Padded
    <3> HIDE DEF p
    <3> QED
      BY <2>6, <3>1 DEF PadOK
  <2> HIDE DEF p
  <2>8. m + n = len
    BY <2>3, <2>4
  <2>9. \A i \in 1..len : p[i] = data[i]
    <3> SUFFICES ASSUME NEW i \in 1..len PROVE p[i] = data[i]
      OBVIOUS
    <3>1. CASE i \in 1..m
      BY <2>5, <2>7, <3>1
    <3>2. CASE i \in (m + 1)..len
      BY <2>2, <2>4, <2>7, <2>8, <3>2
    <3> QED
      BY <2>4, <3>1, <3>2
  <2>10. p = data
    BY <1>1, <2>7, <2>8, <2>9
  <2> QED
    BY <2>2, <2>4, <2>5, <2>10 DEF p
<1> QED
  BY <1>2, <1>3

LEMMA GatewaysAreHeld == GateInv => GatewaysHold
<1> SUFFICES ASSUME GateInv PROVE GatewaysHold
  OBVIOUS
<1>1. GateTypeOK
  BY NoOrderIsNoRecord
     DEF GateInv, GateTyped, GateTypeOK, OrderRecord, RefundRecord, LetterOK
<1>2. ToldOK
  BY DEF GateInv
<1>3. FactsHold
  <2>1. told.what = "prepaid" => order[told.gate][FiledUnder(told)].price = told.price
    BY <1>2 DEF ToldOK, PrepaidTold
  <2>2. told.what = "order" =>
          /\ told.state = "SUCCESS" => CalledStates(told) \cap {"SUCCESS", "REFUND"} # {}
          /\ told.state = "CLOSED" => "CLOSED" \in CalledStates(told)
          /\ told.by \in {"refund", "return"} => told.state = ""
    BY <1>2 DEF ToldOK, OrderTold, CalledStates
  <2>3. told.what = "refund" =>
          /\ told.by = "trade" => told.number = "" /\ told.state = ""
          /\ told.state \in {"SUCCESS", "CLOSED"} =>
                refund[told.gate][told.number].state = told.state
    BY <1>2 DEF ToldOK, RefundTold
  <2> QED
    BY <2>1, <2>2, <2>3 DEF FactsHold
<1>4. RefundsFit
  <2> SUFFICES ASSUME NEW a \in Gates, NEW n \in Numbers, Refunded(a, n) > 0
               PROVE  Refunded(a, n) <= order[a][n].price /\ order[a][n].state = "REFUND"
    BY DEF RefundsFit
  <2>1. GateTyped /\ OrderFits(a, n)
    BY DEF GateInv
  <2>2. PICK rf \in [RefundNos -> {NoOrder} \cup RefundRecord] : rf = refund[a]
    BY <2>1 DEF GateTyped
  <2>3. PICK z \in Nat : z = Total(Repays(rf, n))
    BY RepaysTyped, RefundNosFinite, TotalNat
  <2>4. Refunded(a, n) = z /\ z > 0
    BY <2>1, <2>2, <2>3, RefundedIs
  <2>5. z <= IF order[a][n] = NoOrder THEN 0 ELSE order[a][n].price
    BY <2>1, <2>2, <2>3 DEF OrderFits
  <2>6. order[a][n] # NoOrder /\ z <= order[a][n].price
    BY <2>4, <2>5
  <2>7. \E r \in RefundNos : Repays(rf, n)[r] # 0
    <3> SUFFICES ASSUME \A r \in RefundNos : Repays(rf, n)[r] = 0 PROVE FALSE
      OBVIOUS
    <3>1. Total(Repays(rf, n)) = 0
      BY RepaysTyped, RefundNosFinite, TotalZero
    <3> QED
      BY <2>3, <2>4, <3>1
  <2>8. PICK r \in RefundNos : refund[a][r].state # "none" /\ refund[a][r].number = n
    BY <2>2, <2>7 DEF Repays
  <2>9. order[a][n].state = "REFUND"
    BY <2>8, NoOrderIsNoRecord DEF GateInv, RefundOK
  <2> QED
    BY <2>4, <2>6, <2>9
<1>5. PlacedIsFound
  BY <1>2 DEF PlacedIsFound, ToldOK, PrepaidTold, FiledUnder
<1> QED
  BY <1>1, <1>3, <1>4, <1>5, RoutesAgree, Unpads DEF GatewaysHold

-----------------------------------------------------------------------------
(* wechat/pay.go, profitsharing.go: transfers, shares and returns. *)

Users == {in.openid : in \in TransferInputs} \cup {in.openid : in \in AuthInputs}

BillRecord ==
    [request : [to : Users, amount : Nat \ {0}, under : Authorizations \cup {"nobody"}],
     state : {"WAIT_USER_CONFIRM", "SUCCESS", "FAIL"}]
AuthorizationRecord ==
    [state : {"WAIT", "EFFECTIVE", "CLOSED"}, openid : Users, id : {in.id : in \in AuthInputs}]
SharedRecord ==
    [request : [payment : DOMAIN Funds, to : {in.receiver : in \in ShareInputs},
                amount : Nat \ {0}],
     state : {"PROCESSING", "FINISHED"}, result : {"PENDING", "SUCCESS", "CLOSED"},
     hidden : BOOLEAN]
ReturnedRecord ==
    [request : [share : Shares, amount : Nat \ {0}],
     state : {"PROCESSING", "SUCCESS", "FAILED"}]

PayoutTyped ==
    /\ bill \in [Bills -> {Nothing} \cup BillRecord]
    /\ authorization \in [Authorizations -> {Nothing} \cup AuthorizationRecord]
    /\ shared \in [Shares -> {Nothing} \cup SharedRecord]
    /\ returned \in [Returns -> {Nothing} \cup ReturnedRecord]

\* A transfer that waits for its user needs no authorisation; the others were
\* made under one that the caller named.
BillOK(b) ==
    bill[b] # Nothing =>
        /\ bill[b].state = "WAIT_USER_CONFIRM" => bill[b].request.under = "nobody"
        /\ bill[b].request.under # "nobody" =>
              /\ authorization[bill[b].request.under] # Nothing
              /\ \E in \in TransferInputs :
                    /\ in.number = b /\ in.amount = bill[b].request.amount
                    /\ in.authId # "" => authorization[bill[b].request.under].id = in.authId
                    /\ in.authId = "" => bill[b].request.under = in.outAuth

\* A share has its result when it is finished.
ShareOK(n) ==
    shared[n] # Nothing =>
        /\ shared[n].state = "PROCESSING" <=> shared[n].result = "PENDING"
        /\ shared[n].state = "PROCESSING" => ~ shared[n].hidden

\* Notices tell of what no longer changes.
NoteOK(l) ==
    /\ l.kind \in {"bill", "authorization"}
    /\ l.kind = "bill" =>
          l.number \in Bills /\ l.state \in {"SUCCESS", "FAIL"} /\ bill[l.number].state = l.state
    /\ l.kind = "authorization" => l.state = "EFFECTIVE"

\* And so do the callers: what has ended ended as they were told.
BillHeard ==
    heard.what = "bill" =>
        /\ heard.number \in Bills
        /\ heard.state \in {"SUCCESS", "FAIL"} => bill[heard.number].state = heard.state
AuthorizationHeard ==
    heard.what = "authorization" /\ heard.state = "CLOSED" =>
        /\ heard.number \in Authorizations /\ authorization[heard.number].state = "CLOSED"
        /\ \A b \in Bills : bill[b].state = "SUCCESS" /\ bill[b].request.under = heard.number =>
              b \in heard.bills
ShareHeard ==
    heard.what = "share" =>
        /\ heard.number \in Shares /\ heard.state \in {"PROCESSING", "FINISHED"}
        /\ heard.state = "PROCESSING" => heard.results = {"PENDING"}
        /\ heard.state = "FINISHED" =>
              /\ shared[heard.number].state = "FINISHED"
              /\ heard.results = IF shared[heard.number].hidden
                                 THEN {} ELSE {shared[heard.number].result}
ReturnHeard ==
    heard.what = "return" =>
        /\ heard.number \in Returns
        /\ heard.state \in {"SUCCESS", "FAILED"} => returned[heard.number].state = heard.state
HeardOK == BillHeard /\ AuthorizationHeard /\ ShareHeard /\ ReturnHeard

\* What one share takes of a payment, and one return of a share.
Takes(sh, p) ==
    [n \in Shares |-> IF sh[n] # Nothing /\ sh[n].request.payment = p /\ sh[n].result # "CLOSED"
                      THEN sh[n].request.amount ELSE 0]
Gives(rt, n) ==
    [r \in Returns |-> IF rt[r] # Nothing /\ rt[r].state # "FAILED" /\ rt[r].request.share = n
                       THEN rt[r].request.amount ELSE 0]

PaymentFits(p) == Total(Takes(shared, p)) <= Funds[p]
ShareFits(n) ==
    Total(Gives(returned, n)) <= IF shared[n] = Nothing THEN 0 ELSE shared[n].request.amount

PayoutInv ==
    /\ PayoutTyped
    /\ \A b \in Bills : BillOK(b)
    /\ \A n \in Shares : ShareOK(n) /\ ShareFits(n)
    /\ \A p \in DOMAIN Funds : PaymentFits(p)
    /\ \A l \in notes : NoteOK(l)
    /\ HeardOK

LEMMA NumbersFinite == IsFiniteSet(Shares) /\ IsFiniteSet(Returns)
<1>1. [in \in ShareInputs |-> in.number] \in Surjection(ShareInputs, Shares)
  BY DEF Surjection, Shares
<1>2. [in \in ReturnInputs |-> in.number] \in Surjection(ReturnInputs, Returns)
  BY DEF Surjection, Returns
<1> QED
  BY <1>1, <1>2, FundsAssumption, FS_Surjection

LEMMA NothingIsNoRecord ==
    /\ Nothing.state = "none"
    /\ Nothing \notin BillRecord /\ Nothing \notin AuthorizationRecord
    /\ Nothing \notin SharedRecord /\ Nothing \notin ReturnedRecord
BY DEF Nothing, BillRecord, AuthorizationRecord, SharedRecord, ReturnedRecord

LEMMA TakesTyped ==
    ASSUME NEW sh \in [Shares -> {Nothing} \cup SharedRecord], NEW p
    PROVE  Takes(sh, p) \in [Shares -> Nat] /\ Takes(sh, p) \in [Shares -> Int]
<1>1. \A n \in Shares : sh[n] # Nothing => sh[n].request.amount \in Nat
  BY DEF SharedRecord
<1> QED
  BY <1>1 DEF Takes

LEMMA GivesTyped ==
    ASSUME NEW rt \in [Returns -> {Nothing} \cup ReturnedRecord], NEW n
    PROVE  Gives(rt, n) \in [Returns -> Nat] /\ Gives(rt, n) \in [Returns -> Int]
<1>1. \A r \in Returns : rt[r] # Nothing => rt[r].request.amount \in Nat
  BY DEF ReturnedRecord
<1> QED
  BY <1>1 DEF Gives

\* The sums of the specification are those of the invariant.
LEMMA SharedOfIs ==
    ASSUME PayoutTyped, NEW p
    PROVE  SharedOf(p) = Total(Takes(shared, p))
<1> DEFINE T == {n \in Shares : /\ shared[n] # Nothing /\ shared[n].request.payment = p
                                /\ shared[n].result # "CLOSED"}
           F == [n \in T |-> shared[n].request.amount]
           Eq(iter) == iter = [s \in SUBSET T |-> IF s = {} THEN 0
                          ELSE shared[CHOOSE x \in s : TRUE].request.amount
                                  + iter[s \ {CHOOSE x \in s : TRUE}]]
           g == CHOOSE iter : Eq(iter)
<1>1. SharedOf(p) = g[T]
  BY Zenon DEF SharedOf, MapThenSumSet, MapThenFoldSet
<1>2. F \in [T -> Int]
  BY DEF PayoutTyped, SharedRecord
<1>3. T \in SUBSET Shares /\ IsFiniteSet(T)
  BY NumbersFinite, FS_Subset
<1>4. (\A n \in T : Takes(shared, p)[n] = F[n]) /\ \A n \in Shares \ T : Takes(shared, p)[n] = 0
  BY DEF Takes
<1>5. \A h : Adds(h, F, T) <=> Eq(h)
  <2> HIDE DEF T
  <2> QED
    BY PickIn DEF Adds, Pick
<1>6. Adds(g, F, T)
  <2> HIDE DEF Eq, F, T
  <2>1. \E h : Eq(h)
    BY <1>3, <1>5, SumsExist
  <2> QED
    BY <2>1, <1>5
<1> HIDE DEF g, F, T
<1>7. Total(F) = g[T]
  BY <1>2, <1>3, <1>6, TotalOf
<1>8. Total(Takes(shared, p)) = Total(F)
  BY <1>2, <1>3, <1>4, TakesTyped, NumbersFinite, TotalWhere DEF PayoutTyped
<1> QED
  BY <1>1, <1>7, <1>8

LEMMA ReturnedOfIs ==
    ASSUME PayoutTyped, NEW n
    PROVE  ReturnedOf(n) = Total(Gives(returned, n))
<1> DEFINE T == {r \in Returns : /\ returned[r] # Nothing /\ returned[r].state # "FAILED"
                                 /\ returned[r].request.share = n}
           F == [r \in T |-> returned[r].request.amount]
           Eq(iter) == iter = [s \in SUBSET T |-> IF s = {} THEN 0
                          ELSE returned[CHOOSE x \in s : TRUE].request.amount
                                  + iter[s \ {CHOOSE x \in s : TRUE}]]
           g == CHOOSE iter : Eq(iter)
<1>1. ReturnedOf(n) = g[T]
  BY Zenon DEF ReturnedOf, MapThenSumSet, MapThenFoldSet
<1>2. F \in [T -> Int]
  BY DEF PayoutTyped, ReturnedRecord
<1>3. T \in SUBSET Returns /\ IsFiniteSet(T)
  BY NumbersFinite, FS_Subset
<1>4. /\ \A r \in T : Gives(returned, n)[r] = F[r]
      /\ \A r \in Returns \ T : Gives(returned, n)[r] = 0
  BY DEF Gives
<1>5. \A h : Adds(h, F, T) <=> Eq(h)
  <2> HIDE DEF T
  <2> QED
    BY PickIn DEF Adds, Pick
<1>6. Adds(g, F, T)
  <2> HIDE DEF Eq, F, T
  <2>1. \E h : Eq(h)
    BY <1>3, <1>5, SumsExist
  <2> QED
    BY <2>1, <1>5
<1> HIDE DEF g, F, T
<1>7. Total(F) = g[T]
  BY <1>2, <1>3, <1>6, TotalOf
<1>8. Total(Gives(returned, n)) = Total(F)
  BY <1>2, <1>3, <1>4, GivesTyped, NumbersFinite, TotalWhere DEF PayoutTyped
<1> QED
  BY <1>1, <1>7, <1>8

LEMMA PayoutInitOK == PayoutInit => PayoutInv
<1> SUFFICES ASSUME PayoutInit PROVE PayoutInv
  OBVIOUS
<1>1. PayoutTyped
  BY DEF PayoutInit, PayoutTyped
<1>2. /\ \A b \in Bills : BillOK(b)
      /\ \A n \in Shares : ShareOK(n)
      /\ \A l \in notes : NoteOK(l)
      /\ HeardOK
  BY DEF PayoutInit, BillOK, ShareOK, HeardOK, BillHeard, AuthorizationHeard, ShareHeard,
         ReturnHeard
<1>3. \A n \in Shares : ShareFits(n)
  <2> SUFFICES ASSUME NEW n \in Shares PROVE ShareFits(n)
    OBVIOUS
  <2>1. \A r \in Returns : Gives(returned, n)[r] = 0
    BY DEF PayoutInit, Gives
  <2>2. Total(Gives(returned, n)) = 0
    BY <1>1, <2>1, GivesTyped, NumbersFinite, TotalZero DEF PayoutTyped
  <2> QED
    BY <2>2 DEF ShareFits, PayoutInit
<1>4. \A p \in DOMAIN Funds : PaymentFits(p)
  <2> SUFFICES ASSUME NEW p \in DOMAIN Funds PROVE PaymentFits(p)
    OBVIOUS
  <2>1. \A n \in Shares : Takes(shared, p)[n] = 0
    BY DEF PayoutInit, Takes
  <2>2. Total(Takes(shared, p)) = 0
    BY <1>1, <2>1, TakesTyped, NumbersFinite, TotalZero DEF PayoutTyped
  <2> QED
    <3>1. Funds[p] \in Nat
      BY FundsAssumption
    <3> QED
      BY <2>2, <3>1 DEF PaymentFits
<1> QED
  BY <1>1, <1>2, <1>3, <1>4 DEF PayoutInv

LEMMA PayoutsAreHeld == PayoutInv => PayoutsHold
<1> SUFFICES ASSUME PayoutInv PROVE PayoutsHold
  OBVIOUS
<1>1. PayoutTypeOK
  BY NothingIsNoRecord DEF PayoutInv, PayoutTyped, PayoutTypeOK, BillRecord, AuthorizationRecord,
                           SharedRecord, ReturnedRecord
<1>2. TransfersHold
  <2>1. \A b \in Bills : bill[b] # Nothing => bill[b].request.amount > 0
    BY DEF PayoutInv, PayoutTyped, BillRecord
  <2> QED
    BY <2>1 DEF PayoutInv, HeardOK, BillHeard, AuthorizationHeard, TransfersHold
<1>3. TransfersGoWhereNamed
  BY DEF PayoutInv, BillOK, TransfersGoWhereNamed
<1>4. SharesHold
  <2>1. ReturnHeard
    BY DEF PayoutInv, HeardOK
  <2>2. ASSUME heard.what = "share"
        PROVE  /\ Succeeded(heard) => shared[heard.number].result = "SUCCESS"
               /\ Finished(heard) /\ ~Succeeded(heard) =>
                     shared[heard.number].result = "CLOSED" \/ shared[heard.number].hidden
    <3>1. ShareHeard
      BY DEF PayoutInv, HeardOK
    <3>2. PICK n \in Shares : n = heard.number
      BY <2>2, <3>1 DEF ShareHeard
    <3>3. heard.state = "FINISHED" => shared[n] \in SharedRecord /\ shared[n].result # "PENDING"
      BY <2>2, <3>1, <3>2, NothingIsNoRecord DEF ShareHeard, PayoutInv, PayoutTyped, ShareOK
    <3>4. heard.state = "FINISHED" =>
             shared[n].result \in {"SUCCESS", "CLOSED"} /\ shared[n].hidden \in BOOLEAN
      BY <3>3 DEF SharedRecord
    <3> QED
      BY <2>2, <3>1, <3>2, <3>4 DEF ShareHeard, Succeeded, Finished
  <2> QED
    BY <2>1, <2>2 DEF SharesHold, ReturnHeard
<1>5. SharesFit
  <2>1. \A p \in DOMAIN Funds : SharedOf(p) <= Funds[p]
    BY SharedOfIs DEF PayoutInv, PaymentFits
  <2>2. ASSUME NEW n \in Shares, ReturnedOf(n) > 0 PROVE ReturnedOf(n) <= shared[n].request.amount
    <3>1. PICK z \in Nat : z = Total(Gives(returned, n))
      BY GivesTyped, NumbersFinite, TotalNat DEF PayoutInv, PayoutTyped
    <3>2. z > 0 /\ ReturnedOf(n) = z
      BY <2>2, <3>1, ReturnedOfIs DEF PayoutInv
    <3>3. z <= IF shared[n] = Nothing THEN 0 ELSE shared[n].request.amount
      BY <3>1 DEF PayoutInv, ShareFits
    <3> QED
      BY <3>2, <3>3
  <2> QED
    BY <2>1, <2>2 DEF SharesFit
<1> QED
  BY <1>1, <1>2, <1>3, <1>4, <1>5 DEF PayoutsHold

\* What ends stays as it ended; nothing is transferred under a closed
\* authorisation, and an authorisation stays whose it is.
Later ==
    /\ \A b \in Bills : bill[b].state \in {"SUCCESS", "FAIL"} => bill'[b] = bill[b]
    /\ \A b \in Bills : bill'[b].state = "SUCCESS" /\ bill[b].state # "SUCCESS" =>
          \/ bill'[b].request.under = "nobody"
          \/ authorization[bill'[b].request.under].state # "CLOSED"
    /\ \A a \in Authorizations : authorization[a] # Nothing =>
          authorization'[a] # Nothing /\ authorization'[a].id = authorization[a].id
    /\ \A a \in Authorizations :
          authorization[a].state = "CLOSED" => authorization'[a].state = "CLOSED"
    /\ \A n \in Shares : shared[n].state = "FINISHED" => shared'[n] = shared[n]
    /\ \A r \in Returns : returned[r].state \in {"SUCCESS", "FAILED"} => returned'[r] = returned[r]

LEMMA LaterHeard ==
    ASSUME PayoutInv, Later, heard' = heard
    PROVE  HeardOK'
<1>1. HeardOK
  BY DEF PayoutInv
<1>2. BillHeard'
  BY <1>1 DEF HeardOK, BillHeard, Later
<1>3. AuthorizationHeard'
  <2> SUFFICES ASSUME heard.what = "authorization", heard.state = "CLOSED"
               PROVE  /\ heard.number \in Authorizations
                      /\ authorization'[heard.number].state = "CLOSED"
                      /\ \A b \in Bills : bill'[b].state = "SUCCESS"
                                          /\ bill'[b].request.under = heard.number =>
                            b \in heard.bills
    BY DEF AuthorizationHeard
  <2>1. heard.number \in Authorizations /\ authorization[heard.number].state = "CLOSED"
    BY <1>1 DEF HeardOK, AuthorizationHeard
  <2>2. heard.number # "nobody"
    BY <2>1, NamesAssumption DEF Authorizations
  <2>3. ASSUME NEW b \in Bills, bill'[b].state = "SUCCESS",
               bill'[b].request.under = heard.number
        PROVE  b \in heard.bills
    <3>1. bill[b].state = "SUCCESS"
      BY <2>1, <2>2, <2>3 DEF Later
    <3>2. bill'[b] = bill[b]
      BY <3>1 DEF Later
    <3> QED
      BY <1>1, <2>3, <3>1, <3>2 DEF HeardOK, AuthorizationHeard
  <2> QED
    BY <2>1, <2>3 DEF Later
<1>4. ShareHeard'
  BY <1>1 DEF HeardOK, ShareHeard, Later
<1>5. ReturnHeard'
  BY <1>1 DEF HeardOK, ReturnHeard, Later
<1> QED
  BY <1>2, <1>3, <1>4, <1>5 DEF HeardOK

LEMMA LaterKept ==
    ASSUME PayoutInv, Later
    PROVE  /\ \A l \in notes : NoteOK(l)'
           /\ \A b \in Bills : bill'[b] = bill[b] => BillOK(b)'
<1>1. ASSUME NEW l \in notes PROVE NoteOK(l)'
  <2>1. NoteOK(l)
    BY DEF PayoutInv
  <2> QED
    BY <2>1 DEF NoteOK, Later
<1>2. ASSUME NEW b \in Bills, bill'[b] = bill[b] PROVE BillOK(b)'
  <2>1. BillOK(b)
    BY DEF PayoutInv
  <2>2. bill[b] # Nothing => bill[b].request.under \in Authorizations \cup {"nobody"}
    BY DEF PayoutInv, PayoutTyped, BillRecord
  <2>3. bill[b] # Nothing /\ bill[b].request.under # "nobody" =>
          /\ authorization'[bill[b].request.under] # Nothing
          /\ authorization'[bill[b].request.under].id = authorization[bill[b].request.under].id
    BY <2>1, <2>2 DEF BillOK, Later
  <2> QED
    BY <1>2, <2>1, <2>3 DEF BillOK
<1> QED
  BY <1>1, <1>2

\* What a caller is told, when it is true.
LEMMA BillHeardIs ==
    ASSUME NEW n \in Bills, NEW s, heard' = BillFact(n, s), bill'[n].state = s
    PROVE  HeardOK'
BY DEF HeardOK, BillHeard, AuthorizationHeard, ShareHeard, ReturnHeard, BillFact

LEMMA AuthorizationHeardIs ==
    ASSUME NEW n \in Authorizations, NEW s, heard' = AuthFact(n, s), bill' = bill,
           s = "CLOSED" => authorization'[n].state = "CLOSED"
    PROVE  HeardOK'
BY DEF HeardOK, BillHeard, AuthorizationHeard, ShareHeard, ReturnHeard, AuthFact

LEMMA ReturnHeardIs ==
    ASSUME NEW n \in Returns, heard' = ReturnFact(n)
    PROVE  HeardOK'
BY DEF HeardOK, BillHeard, AuthorizationHeard, ShareHeard, ReturnHeard, ReturnFact

LEMMA ShareHeardIs ==
    ASSUME NEW n \in Shares, heard' = ShareFact(n), shared'[n] \in SharedRecord, ShareOK(n)'
    PROVE  HeardOK'
<1>1. /\ heard'.what = "share" /\ heard'.number = n /\ heard'.state = shared'[n].state
      /\ heard'.results = IF shared'[n].hidden THEN {} ELSE {shared'[n].result}
  BY DEF ShareFact
<1>2. shared'[n].state \in {"PROCESSING", "FINISHED"} /\ shared'[n] # Nothing
  BY NothingIsNoRecord DEF SharedRecord
<1>3. shared'[n].state = "PROCESSING" => shared'[n].result = "PENDING" /\ ~ shared'[n].hidden
  BY <1>2 DEF ShareOK
<1>4. ShareHeard'
  BY <1>1, <1>2, <1>3 DEF ShareHeard
<1> QED
  BY <1>1, <1>4 DEF HeardOK, BillHeard, AuthorizationHeard, ReturnHeard

\* One transfer's step at a time.
LEMMA SharesFrame ==
    ASSUME PayoutInv, UNCHANGED <<shared, returned>>
    PROVE  /\ \A n \in Shares : ShareOK(n)' /\ ShareFits(n)'
           /\ \A p \in DOMAIN Funds : PaymentFits(p)'
BY DEF PayoutInv, ShareOK, ShareFits, PaymentFits, Gives, Takes

LEMMA TransferToBalanceStep ==
    ASSUME PayoutInv, NEW in \in TransferInputs, TransferToBalance(in)
    PROVE  PayoutInv'
<1> DEFINE n == in.number
           request == [to |-> in.openid, amount |-> in.amount, under |-> "nobody"]
           new == [request |-> request, state |-> "WAIT_USER_CONFIRM"]
<1>1. n \in Bills /\ in.openid \in Users
  BY DEF Bills, Users
<1>2. new \in BillRecord
  <2>1. PICK m \in Nat \ {0} : m = in.amount
    <3>1. PICK m \in Int : m = in.amount
      BY AmountsAssumption
    <3>2. m > 0
      BY <3>1 DEF TransferToBalance
    <3> QED
      BY <3>1, <3>2
  <2> QED
    BY <1>1, <2>1 DEF BillRecord
<1>3. UNCHANGED <<authorization, shared, returned, partners, notes>>
  BY DEF TransferToBalance
<1>4. bill' = IF bill[n] = Nothing THEN [bill EXCEPT ![n] = new] ELSE bill
  BY DEF TransferToBalance, Once
<1>5. PayoutTyped'
  BY <1>1, <1>2, <1>3, <1>4 DEF PayoutInv, PayoutTyped
<1>6. bill \in [Bills -> {Nothing} \cup BillRecord]
  BY DEF PayoutInv, PayoutTyped
<1>7. \A b \in Bills : bill'[b] = IF b = n /\ bill[n] = Nothing THEN new ELSE bill[b]
  BY <1>1, <1>4, <1>6
<1>8. new.state = "WAIT_USER_CONFIRM" /\ new.request.under = "nobody"
  OBVIOUS
<1> HIDE DEF new
<1>9. Later
  BY <1>3, <1>7, <1>8, NothingIsNoRecord DEF Later
<1>10. (\A l \in notes' : NoteOK(l)') /\ \A b \in Bills : BillOK(b)'
  BY <1>3, <1>7, <1>8, <1>9, LaterKept DEF BillOK
<1>11. HeardOK'
  <2>1. CASE heard' = heard
    BY <1>9, <2>1, LaterHeard
  <2>2. CASE heard' = BillFact(n, bill'[n].state)
    BY <1>1, <2>2, BillHeardIs
  <2> QED
    BY <2>1, <2>2 DEF TransferToBalance, Reply
<1> QED
  BY <1>3, <1>5, <1>10, <1>11, SharesFrame DEF PayoutInv

LEMMA TransferWithAuthorizationStep ==
    ASSUME PayoutInv, NEW in \in TransferInputs, TransferWithAuthorization(in)
    PROVE  PayoutInv'
<1> DEFINE n == in.number
<1>1. n \in Bills
  BY DEF Bills
<1>2. UNCHANGED <<authorization, shared, returned, partners, notes>>
  BY DEF TransferWithAuthorization
<1>3. PICK a \in AuthorizationOf(in) :
         LET request == [to |-> authorization[a].openid, amount |-> in.amount, under |-> a] IN
         /\ bill[n] = Nothing => authorization[a].state = "EFFECTIVE"
         /\ bill' = Once(bill, n, request, "SUCCESS")
         /\ Reply(BillFact(n, bill'[n].state))
  BY DEF TransferWithAuthorization
<1> DEFINE request == [to |-> authorization[a].openid, amount |-> in.amount, under |-> a]
           new == [request |-> request, state |-> "SUCCESS"]
<1>4. /\ a \in Authorizations /\ authorization[a] # Nothing
      /\ in.authId # "" => authorization[a].id = in.authId
      /\ in.authId = "" => a = in.outAuth
  BY DEF AuthorizationOf
<1>5. authorization[a] \in AuthorizationRecord
  BY <1>4 DEF PayoutInv, PayoutTyped
<1>6. new \in BillRecord
  <2>1. PICK m \in Nat \ {0} : m = in.amount
    <3>1. PICK m \in Int : m = in.amount
      BY AmountsAssumption
    <3>2. m > 0
      BY <3>1 DEF TransferWithAuthorization
    <3> QED
      BY <3>1, <3>2
  <2> QED
    BY <1>4, <1>5, <2>1 DEF BillRecord, AuthorizationRecord
<1>7. bill \in [Bills -> {Nothing} \cup BillRecord]
  BY DEF PayoutInv, PayoutTyped
<1>8. /\ bill' = IF bill[n] = Nothing THEN [bill EXCEPT ![n] = new] ELSE bill
      /\ bill[n] = Nothing => authorization[a].state = "EFFECTIVE"
  BY <1>3 DEF Once
<1>9. \A b \in Bills : bill'[b] = IF b = n /\ bill[n] = Nothing THEN new ELSE bill[b]
  BY <1>1, <1>7, <1>8
<1>10. PayoutTyped'
  BY <1>1, <1>2, <1>6, <1>8 DEF PayoutInv, PayoutTyped
<1>11. new.state = "SUCCESS" /\ new.request.under = a /\ new.request.amount = in.amount
  OBVIOUS
<1> HIDE DEF new
<1>12. Later
  BY <1>2, <1>8, <1>9, <1>11, NothingIsNoRecord DEF Later
<1>13. \A b \in Bills : BillOK(b)'
  <2> SUFFICES ASSUME NEW b \in Bills PROVE BillOK(b)'
    OBVIOUS
  <2>1. CASE bill'[b] = bill[b]
    BY <1>12, <2>1, LaterKept
  <2>2. CASE b = n /\ bill'[b] = new
    BY <1>2, <1>4, <1>11, <2>2 DEF BillOK
  <2> QED
    BY <1>9, <2>1, <2>2
<1>14. \A l \in notes' : NoteOK(l)'
  BY <1>2, <1>12, LaterKept
<1>15. HeardOK'
  <2>1. CASE heard' = heard
    BY <1>12, <2>1, LaterHeard
  <2>2. CASE heard' = BillFact(n, bill'[n].state)
    BY <1>1, <2>2, BillHeardIs
  <2> QED
    BY <1>3, <2>1, <2>2 DEF Reply
<1> QED
  BY <1>2, <1>10, <1>13, <1>14, <1>15, SharesFrame DEF PayoutInv

LEMMA ApplyStep ==
    ASSUME PayoutInv, NEW in \in AuthInputs, ApplyUserConfirmAuthorization(in)
    PROVE  PayoutInv'
<1> DEFINE n == in.number
           new == [state |-> "WAIT", openid |-> in.openid, id |-> in.id]
<1>1. n \in Authorizations /\ new \in AuthorizationRecord
  BY DEF Authorizations, AuthorizationRecord, Users
<1>2. UNCHANGED <<bill, shared, returned, partners, notes>>
  BY DEF ApplyUserConfirmAuthorization
<1>3. /\ authorization' = [authorization EXCEPT ![n] = new] \/ authorization' = authorization
      /\ authorization' # authorization => authorization[n] = Nothing
      /\ Reply(AuthFact(n, authorization'[n].state))
  BY DEF ApplyUserConfirmAuthorization
<1>4. authorization \in [Authorizations -> {Nothing} \cup AuthorizationRecord]
  BY DEF PayoutInv, PayoutTyped
<1>5. PayoutTyped'
  BY <1>1, <1>2, <1>3, <1>4 DEF PayoutInv, PayoutTyped
<1>6. \A a \in Authorizations : authorization[a] # Nothing => authorization'[a] = authorization[a]
  BY <1>1, <1>3, <1>4
<1>7. Later
  BY <1>2, <1>6, NothingIsNoRecord DEF Later
<1>8. HeardOK'
  <2>1. CASE heard' = heard
    BY <1>7, <2>1, LaterHeard
  <2>2. CASE heard' = AuthFact(n, authorization'[n].state)
    BY <1>1, <1>2, <2>2, AuthorizationHeardIs
  <2> QED
    BY <1>3, <2>1, <2>2 DEF Reply
<1> QED
  BY <1>2, <1>5, <1>7, <1>8, LaterKept, SharesFrame DEF PayoutInv

LEMMA CloseOrAgreeStep ==
    ASSUME PayoutInv, NEW n \in Authorizations, CloseUserConfirmAuthorization(n) \/ Agree(n)
    PROVE  PayoutInv'
<1>1. UNCHANGED <<bill, shared, returned, partners>>
  BY DEF CloseUserConfirmAuthorization, Agree
<1>2. PICK s \in {"EFFECTIVE", "CLOSED"} : authorization' = [authorization EXCEPT ![n].state = s]
  BY DEF CloseUserConfirmAuthorization, Agree
<1>3. authorization[n].state \in {"WAIT", "EFFECTIVE"}
  BY DEF CloseUserConfirmAuthorization, Agree
<1>4. authorization \in [Authorizations -> {Nothing} \cup AuthorizationRecord]
  BY DEF PayoutInv, PayoutTyped
<1>5. authorization[n] \in AuthorizationRecord
  BY <1>3, <1>4, NothingIsNoRecord
<1>6. [authorization[n] EXCEPT !.state = s] \in AuthorizationRecord
  BY <1>5 DEF AuthorizationRecord
<1>7. \A a \in Authorizations : /\ a # n => authorization'[a] = authorization[a]
                                /\ authorization'[n] = [authorization[n] EXCEPT !.state = s]
  BY <1>2, <1>4
<1>8. PayoutTyped'
  BY <1>1, <1>2, <1>4, <1>6 DEF PayoutInv, PayoutTyped
<1>9. /\ authorization'[n] # Nothing /\ authorization'[n].id = authorization[n].id
      /\ authorization'[n].state = s
  BY <1>5, <1>6, <1>7, NothingIsNoRecord DEF AuthorizationRecord
<1>10. Later
  <2>1. \A a \in Authorizations : authorization[a] # Nothing =>
           authorization'[a] # Nothing /\ authorization'[a].id = authorization[a].id
    BY <1>7, <1>9
  <2>2. \A a \in Authorizations :
           authorization[a].state = "CLOSED" => authorization'[a].state = "CLOSED"
    BY <1>3, <1>7
  <2> QED
    BY <1>1, <2>1, <2>2 DEF Later
<1>11. HeardOK'
  <2>1. CASE heard' = heard
    BY <1>10, <2>1, LaterHeard
  <2>2. CASE heard' = AuthFact(n, "CLOSED") /\ s = "CLOSED"
    BY <1>1, <1>9, <2>2, AuthorizationHeardIs
  <2>3. CASE CloseUserConfirmAuthorization(n)
    <3>1. [authorization[n] EXCEPT !.state = s].state = s
      BY <1>5 DEF AuthorizationRecord
    <3>2. [authorization[n] EXCEPT !.state = "CLOSED"].state = "CLOSED"
      BY <1>5 DEF AuthorizationRecord
    <3>3. authorization'[n] = [authorization[n] EXCEPT !.state = "CLOSED"]
      BY <2>3, <1>4 DEF CloseUserConfirmAuthorization
    <3>4. s = "CLOSED"
      BY <1>7, <3>1, <3>2, <3>3
    <3> QED
      BY <2>1, <2>2, <2>3, <3>4 DEF CloseUserConfirmAuthorization, Reply
  <2>4. CASE Agree(n)
    BY <2>1, <2>4 DEF Agree
  <2> QED
    BY <2>3, <2>4
<1>12. \A l \in notes' : NoteOK(l)'
  <2>1. notes' \subseteq notes \cup {[kind |-> "authorization", number |-> n, field |-> "state",
                                      state |-> "EFFECTIVE"]}
    BY DEF CloseUserConfirmAuthorization, Agree
  <2> QED
    BY <1>10, <2>1, LaterKept DEF NoteOK
<1> QED
  BY <1>1, <1>8, <1>10, <1>11, <1>12, LaterKept, SharesFrame DEF PayoutInv

LEMMA EndBillStep ==
    ASSUME PayoutInv, NEW n \in Bills, NEW s \in {"SUCCESS", "FAIL"}, EndBill(n, s)
    PROVE  PayoutInv'
<1>1. UNCHANGED <<authorization, shared, returned, partners, heard>>
  BY DEF EndBill
<1>2. bill[n].state = "WAIT_USER_CONFIRM" /\ bill' = [bill EXCEPT ![n].state = s]
  BY DEF EndBill
<1>3. bill \in [Bills -> {Nothing} \cup BillRecord]
  BY DEF PayoutInv, PayoutTyped
<1>4. bill[n] \in BillRecord
  BY <1>2, <1>3, NothingIsNoRecord
<1>5. /\ [bill[n] EXCEPT !.state = s] \in BillRecord
      /\ [bill[n] EXCEPT !.state = s].state = s
      /\ [bill[n] EXCEPT !.state = s].request = bill[n].request
  BY <1>4 DEF BillRecord
<1>6. PayoutTyped'
  BY <1>1, <1>2, <1>3, <1>5 DEF PayoutInv, PayoutTyped
<1>7. \A b \in Bills : /\ b # n => bill'[b] = bill[b]
                       /\ bill'[n].state = s /\ bill'[n].request = bill[n].request
  BY <1>2, <1>3, <1>5
<1>8. bill[n].request.under = "nobody"
  BY <1>2, <1>4, NothingIsNoRecord DEF PayoutInv, BillOK
<1>9. Later
  BY <1>1, <1>2, <1>7, <1>8 DEF Later
<1>10. \A b \in Bills : BillOK(b)'
  BY <1>7, <1>8, <1>9, LaterKept DEF BillOK
<1>11. \A l \in notes' : NoteOK(l)'
  <2>1. PICK field \in {"state", "transfer_state"} :
           notes' = notes \cup {[kind |-> "bill", number |-> n, field |-> field, state |-> s]}
    BY DEF EndBill
  <2> QED
    BY <1>7, <1>9, <2>1, LaterKept DEF NoteOK
<1> QED
  BY <1>1, <1>6, <1>9, <1>10, <1>11, LaterHeard, SharesFrame DEF PayoutInv

LEMMA NoticeStep ==
    ASSUME PayoutInv, NEW l \in notes,
           ParseMerchantTransferNotify(l) \/ ParseAuthorizationNotify(l)
    PROVE  PayoutInv'
<1>1. UNCHANGED <<bill, authorization, shared, returned, partners, notes>>
  BY DEF ParseMerchantTransferNotify, ParseAuthorizationNotify
<1>2. PayoutTyped' /\ Later
  BY <1>1 DEF PayoutInv, PayoutTyped, Later
<1>3. NoteOK(l)
  BY DEF PayoutInv
<1>4. HeardOK'
  <2>1. CASE ParseMerchantTransferNotify(l)
    <3>1. heard' = BillFact(l.number, l.state)
      BY <2>1 DEF ParseMerchantTransferNotify
    <3>2. l.number \in Bills /\ bill'[l.number].state = l.state
      BY <1>1, <1>3, <2>1 DEF ParseMerchantTransferNotify, NoteOK
    <3> QED
      BY <3>1, <3>2, BillHeardIs
  <2>2. CASE ParseAuthorizationNotify(l)
    <3>1. heard' = AuthFact(l.number, l.state) /\ l.state = "EFFECTIVE"
      BY <1>3, <2>2 DEF ParseAuthorizationNotify, NoteOK
    <3> QED
      BY <3>1 DEF HeardOK, BillHeard, AuthorizationHeard, ShareHeard, ReturnHeard, AuthFact
  <2> QED
    BY <2>1, <2>2
<1> QED
  BY <1>1, <1>2, <1>4, LaterKept, SharesFrame DEF PayoutInv

LEMMA TransferStep == PayoutInv /\ TransferNext => PayoutInv'
BY TransferToBalanceStep, TransferWithAuthorizationStep, ApplyStep, CloseOrAgreeStep,
   EndBillStep, NoticeStep DEF TransferNext

\* One share's step at a time.  What a share or a return no longer takes makes
\* room for others, and a new one is let in where it fits.
LEMMA TakesChange ==
    ASSUME NEW sh \in [Shares -> {Nothing} \cup SharedRecord],
           NEW to \in [Shares -> {Nothing} \cup SharedRecord],
           NEW n \in Shares, NEW p, \A m \in Shares \ {n} : to[m] = sh[m]
    PROVE  /\ Total(Takes(to, p)) = Total(Takes(sh, p)) - Takes(sh, p)[n] + Takes(to, p)[n]
           /\ {Total(Takes(to, p)), Total(Takes(sh, p)), Takes(to, p)[n], Takes(sh, p)[n]}
                 \subseteq Nat
<1>1. PICK F \in [Shares -> Int] : F = Takes(sh, p) /\ F \in [Shares -> Nat]
  BY TakesTyped
<1>2. PICK G \in [Shares -> Int] : G = Takes(to, p) /\ G \in [Shares -> Nat]
  BY TakesTyped
<1>3. \A m \in Shares \ {n} : G[m] = F[m]
  BY <1>1, <1>2 DEF Takes
<1>4. Total(G) = Total(F) - F[n] + G[n]
  BY <1>3, NumbersFinite, TotalChange
<1>5. Total(F) \in Nat /\ Total(G) \in Nat
  BY <1>1, <1>2, NumbersFinite, TotalNat
<1> QED
  BY <1>1, <1>2, <1>4, <1>5

LEMMA GivesChange ==
    ASSUME NEW rt \in [Returns -> {Nothing} \cup ReturnedRecord],
           NEW to \in [Returns -> {Nothing} \cup ReturnedRecord],
           NEW r \in Returns, NEW n, \A m \in Returns \ {r} : to[m] = rt[m]
    PROVE  /\ Total(Gives(to, n)) = Total(Gives(rt, n)) - Gives(rt, n)[r] + Gives(to, n)[r]
           /\ {Total(Gives(to, n)), Total(Gives(rt, n)), Gives(to, n)[r], Gives(rt, n)[r]}
                 \subseteq Nat
<1>1. PICK F \in [Returns -> Int] : F = Gives(rt, n) /\ F \in [Returns -> Nat]
  BY GivesTyped
<1>2. PICK G \in [Returns -> Int] : G = Gives(to, n) /\ G \in [Returns -> Nat]
  BY GivesTyped
<1>3. \A m \in Returns \ {r} : G[m] = F[m]
  BY <1>1, <1>2 DEF Gives
<1>4. Total(G) = Total(F) - F[r] + G[r]
  BY <1>3, NumbersFinite, TotalChange
<1>5. Total(F) \in Nat /\ Total(G) \in Nat
  BY <1>1, <1>2, NumbersFinite, TotalNat
<1> QED
  BY <1>1, <1>2, <1>4, <1>5

\* Steps that leave the transfers alone.
LEMMA TransfersFrame ==
    ASSUME PayoutInv, UNCHANGED <<bill, authorization, notes>>,
           \A n \in Shares : shared[n].state = "FINISHED" => shared'[n] = shared[n],
           \A r \in Returns :
              returned[r].state \in {"SUCCESS", "FAILED"} => returned'[r] = returned[r]
    PROVE  /\ Later
           /\ \A b \in Bills : BillOK(b)'
           /\ \A l \in notes' : NoteOK(l)'
           /\ heard' = heard => HeardOK'
<1>1. Later
  BY DEF Later
<1> QED
  BY <1>1, LaterKept, LaterHeard

LEMMA CreateShareStep ==
    ASSUME PayoutInv, NEW in \in ShareInputs, CreateProfitSharingOrder(in)
    PROVE  PayoutInv'
<1> DEFINE n == in.number
           request == [payment |-> in.payment, to |-> in.receiver, amount |-> in.amount]
           new == [request |-> request, state |-> "PROCESSING", result |-> "PENDING",
                   hidden |-> FALSE]
<1>1. n \in Shares
  BY DEF Shares
<1>2. UNCHANGED <<bill, authorization, returned, partners, notes>> /\ Reply(ShareFact(n))
  BY DEF CreateProfitSharingOrder
<1>3. shared \in [Shares -> {Nothing} \cup SharedRecord]
  BY DEF PayoutInv, PayoutTyped
<1>4. CASE shared[n] # Nothing /\ UNCHANGED shared
  <2>1. PayoutTyped' /\ ShareOK(n)' /\ shared'[n] \in SharedRecord
    BY <1>1, <1>2, <1>3, <1>4 DEF PayoutInv, PayoutTyped, ShareOK
  <2>2. HeardOK'
    BY <1>1, <1>2, <1>4, <2>1, TransfersFrame, ShareHeardIs DEF Reply
  <2> QED
    BY <1>2, <1>4, <2>1, <2>2, TransfersFrame, SharesFrame DEF PayoutInv
<1>5. CASE /\ shared[n] = Nothing /\ SharedOf(in.payment) + in.amount <= Funds[in.payment]
           /\ shared' = [shared EXCEPT ![n] = new]
  <2>1. PICK m \in Nat \ {0} : m = in.amount
    <3>1. PICK m \in Int : m = in.amount
      BY AmountsAssumption
    <3>2. m > 0
      BY <3>1 DEF CreateProfitSharingOrder
    <3> QED
      BY <3>1, <3>2
  <2>2. in.payment \in DOMAIN Funds
    BY FundsAssumption DEF CreateProfitSharingOrder
  <2>3. new \in SharedRecord
    BY <2>1, <2>2 DEF SharedRecord
  <2>4. shared' \in [Shares -> {Nothing} \cup SharedRecord]
    BY <1>1, <1>3, <1>5, <2>3
  <2>5. PayoutTyped'
    BY <1>2, <2>4 DEF PayoutInv, PayoutTyped
  <2>6. shared'[n] = new /\ \A k \in Shares \ {n} : shared'[k] = shared[k]
    BY <1>1, <1>3, <1>5
  <2>7. /\ new.state = "PROCESSING" /\ new.result = "PENDING" /\ new.hidden = FALSE
        /\ new.request.payment = in.payment /\ new.request.amount = m
    BY <2>1
  <2> HIDE DEF new
  <2>8. \A k \in Shares : ShareOK(k)'
    BY <2>6, <2>7 DEF PayoutInv, ShareOK
  <2>9. \A k \in Shares : shared[k].state = "FINISHED" => shared'[k] = shared[k]
    BY <1>5, <2>6, NothingIsNoRecord
  <2>10. \A k \in Shares : ShareFits(k)'
    <3> SUFFICES ASSUME NEW k \in Shares PROVE ShareFits(k)'
      OBVIOUS
    <3>1. ShareFits(k)
      BY DEF PayoutInv
    <3>2. CASE k # n
      BY <1>2, <2>6, <3>1, <3>2 DEF ShareFits
    <3>3. CASE k = n
      <4>1. PICK z \in Nat : z = Total(Gives(returned, n))
        BY GivesTyped, NumbersFinite, TotalNat DEF PayoutInv, PayoutTyped
      <4>2. z <= 0
        BY <1>5, <3>1, <3>3, <4>1 DEF ShareFits
      <4>3. Total(Gives(returned, n))' = z
        BY <1>2, <4>1
      <4>4. shared'[n] # Nothing
        BY <2>3, <2>6, NothingIsNoRecord
      <4> QED
        BY <2>1, <2>6, <2>7, <3>3, <4>2, <4>3, <4>4 DEF ShareFits
    <3> QED
      BY <3>2, <3>3
  <2>11. \A p \in DOMAIN Funds : PaymentFits(p)'
    <3> SUFFICES ASSUME NEW p \in DOMAIN Funds PROVE PaymentFits(p)'
      OBVIOUS
    <3>1. PICK to \in [Shares -> {Nothing} \cup SharedRecord] : to = shared'
      BY <2>4
    <3>2. /\ Total(Takes(to, p)) = Total(Takes(shared, p)) - Takes(shared, p)[n] + Takes(to, p)[n]
          /\ {Total(Takes(to, p)), Total(Takes(shared, p)), Takes(to, p)[n],
              Takes(shared, p)[n]} \subseteq Nat
      BY <1>1, <1>3, <2>6, <3>1, TakesChange
    <3>3. Takes(shared, p)[n] = 0
      BY <1>1, <1>5 DEF Takes
    <3>4. Takes(to, p)[n] = IF p = in.payment THEN m ELSE 0
      BY <1>1, <2>3, <2>6, <2>7, <3>1, NothingIsNoRecord DEF Takes
    <3>5. PICK f \in Nat : f = Funds[p]
      BY FundsAssumption
    <3>6. PICK z \in Nat : z = Total(Takes(shared, p))
      BY <3>2
    <3>7. z <= f
      BY <3>5, <3>6 DEF PayoutInv, PaymentFits
    <3>8. p = in.payment => z + m <= f
      BY <1>5, <2>1, <3>5, <3>6, SharedOfIs DEF PayoutInv
    <3>9. Total(Takes(to, p)) <= f
      BY <3>2, <3>3, <3>4, <3>6, <3>7, <3>8
    <3> QED
      BY <3>1, <3>5, <3>9 DEF PaymentFits, Takes
  <2>12. HeardOK'
    <3>1. CASE heard' = heard
      BY <1>2, <2>9, <3>1, TransfersFrame
    <3>2. CASE heard' = ShareFact(n)
      BY <1>1, <2>3, <2>6, <2>8, <3>2, ShareHeardIs
    <3> QED
      BY <1>2, <3>1, <3>2 DEF Reply
  <2> QED
    BY <1>2, <2>5, <2>8, <2>9, <2>10, <2>11, <2>12, TransfersFrame DEF PayoutInv
<1> QED
  BY <1>4, <1>5 DEF CreateProfitSharingOrder

LEMMA EndShareStep ==
    ASSUME PayoutInv, NEW n \in Shares, NEW r \in {"SUCCESS", "CLOSED"}, NEW h \in BOOLEAN,
           EndShare(n, r, h)
    PROVE  PayoutInv'
<1> DEFINE new == [shared[n] EXCEPT !.state = "FINISHED", !.result = r, !.hidden = h]
<1>1. UNCHANGED <<bill, authorization, returned, partners, notes, heard>>
  BY DEF EndShare
<1>2. shared \in [Shares -> {Nothing} \cup SharedRecord]
  BY DEF PayoutInv, PayoutTyped
<1>3. shared[n].state = "PROCESSING" /\ shared[n] \in SharedRecord
  BY <1>2, NothingIsNoRecord DEF EndShare
<1>4. shared' = [shared EXCEPT ![n] = new]
  BY <1>2 DEF EndShare
<1>5. /\ new \in SharedRecord /\ new.state = "FINISHED" /\ new.result = r
      /\ new.request = shared[n].request
  BY <1>3 DEF SharedRecord
<1> HIDE DEF new
<1>6. shared' \in [Shares -> {Nothing} \cup SharedRecord]
  BY <1>2, <1>4, <1>5
<1>7. shared'[n] = new /\ \A k \in Shares \ {n} : shared'[k] = shared[k]
  BY <1>2, <1>4
<1>8. \A k \in Shares : shared[k].state = "FINISHED" => shared'[k] = shared[k]
  BY <1>3, <1>7
<1>9. \A k \in Shares : ShareOK(k)'
  BY <1>5, <1>7 DEF PayoutInv, ShareOK
<1>10. shared[n] # Nothing /\ shared'[n] # Nothing
  BY <1>3, <1>5, <1>7, NothingIsNoRecord
<1>11. \A k \in Shares : ShareFits(k)'
  BY <1>1, <1>5, <1>7, <1>10 DEF PayoutInv, ShareFits
<1>12. \A p \in DOMAIN Funds : PaymentFits(p)'
  <2> SUFFICES ASSUME NEW p \in DOMAIN Funds PROVE PaymentFits(p)'
    OBVIOUS
  <2>1. PICK to \in [Shares -> {Nothing} \cup SharedRecord] : to = shared'
    BY <1>6
  <2>2. /\ Total(Takes(to, p)) = Total(Takes(shared, p)) - Takes(shared, p)[n] + Takes(to, p)[n]
        /\ {Total(Takes(to, p)), Total(Takes(shared, p)), Takes(to, p)[n],
            Takes(shared, p)[n]} \subseteq Nat
    BY <1>2, <1>7, <2>1, TakesChange
  <2>3. Takes(to, p)[n] = 0 \/ Takes(to, p)[n] = Takes(shared, p)[n]
    <3>1. shared[n].result # "CLOSED"
      BY <1>3, NothingIsNoRecord DEF PayoutInv, ShareOK
    <3> QED
      BY <1>5, <1>7, <1>10, <2>1, <3>1 DEF Takes
  <2>4. PICK f \in Nat : f = Funds[p]
    BY FundsAssumption
  <2>5. Total(Takes(shared, p)) <= f
    BY <2>4 DEF PayoutInv, PaymentFits
  <2>6. Total(Takes(to, p)) <= f
    BY <2>2, <2>3, <2>5
  <2> QED
    BY <2>1, <2>4, <2>6 DEF PaymentFits, Takes
<1> QED
  BY <1>1, <1>6, <1>8, <1>9, <1>11, <1>12, TransfersFrame DEF PayoutInv, PayoutTyped

LEMMA CreateReturnStep ==
    ASSUME PayoutInv, NEW in \in ReturnInputs, CreateProfitSharingReturn(in)
    PROVE  PayoutInv'
<1> DEFINE n == in.number
           whole == ShareOf(in)
           request == [share |-> whole, amount |-> in.amount]
           new == [request |-> request, state |-> "PROCESSING"]
<1>1. n \in Returns
  BY DEF Returns
<1>2. UNCHANGED <<bill, authorization, shared, partners, notes>> /\ Reply(ReturnFact(n))
  BY DEF CreateProfitSharingReturn
<1>3. returned \in [Returns -> {Nothing} \cup ReturnedRecord]
  BY DEF PayoutInv, PayoutTyped
<1>4. whole \in Shares /\ shared[whole] \in SharedRecord
  BY DEF CreateProfitSharingReturn, PayoutInv, PayoutTyped
<1>5. returned' = IF returned[n] = Nothing THEN [returned EXCEPT ![n] = new] ELSE returned
  BY DEF CreateProfitSharingReturn, Once
<1>6. PICK m \in Nat \ {0} : m = in.amount
  <2>1. PICK m \in Int : m = in.amount
    BY AmountsAssumption
  <2>2. m > 0
    BY <2>1 DEF CreateProfitSharingReturn
  <2> QED
    BY <2>1, <2>2
<1>7. new \in ReturnedRecord
  BY <1>4, <1>6 DEF ReturnedRecord
<1>8. /\ new.state = "PROCESSING" /\ new.request.share = whole /\ new.request.amount = m
  BY <1>6
<1>9. returned[n] = Nothing => ReturnedOf(whole) + m <= shared[whole].request.amount
  BY <1>6 DEF CreateProfitSharingReturn
<1> HIDE DEF new, whole
<1>10. returned' \in [Returns -> {Nothing} \cup ReturnedRecord]
  BY <1>1, <1>3, <1>5, <1>7
<1>11. \A k \in Returns :
          returned'[k] = IF k = n /\ returned[n] = Nothing THEN new ELSE returned[k]
  BY <1>1, <1>3, <1>5
<1>12. \A k \in Returns :
          returned[k].state \in {"SUCCESS", "FAILED"} => returned'[k] = returned[k]
  BY <1>11, NothingIsNoRecord
<1>13. PayoutTyped'
  BY <1>2, <1>10 DEF PayoutInv, PayoutTyped
<1>14. \A k \in Shares : ShareFits(k)'
  <2> SUFFICES ASSUME NEW k \in Shares PROVE ShareFits(k)'
    OBVIOUS
  <2>1. ShareFits(k)
    BY DEF PayoutInv
  <2>2. CASE returned[n] # Nothing
    <3>1. returned' = returned
      BY <1>5, <2>2
    <3> QED
      BY <1>2, <2>1, <3>1 DEF ShareFits, Gives
  <2>3. CASE returned[n] = Nothing
    <3>1. PICK to \in [Returns -> {Nothing} \cup ReturnedRecord] : to = returned'
      BY <1>10
    <3>2. /\ Total(Gives(to, k)) =
                Total(Gives(returned, k)) - Gives(returned, k)[n] + Gives(to, k)[n]
          /\ {Total(Gives(to, k)), Total(Gives(returned, k)), Gives(to, k)[n],
              Gives(returned, k)[n]} \subseteq Nat
      BY <1>1, <1>3, <1>11, <3>1, GivesChange
    <3>3. Gives(returned, k)[n] = 0
      BY <1>1, <2>3 DEF Gives
    <3>4. Gives(to, k)[n] = IF k = whole THEN m ELSE 0
      BY <1>1, <1>7, <1>8, <1>11, <2>3, <3>1, NothingIsNoRecord DEF Gives
    <3>5. PICK z \in Nat : z = Total(Gives(returned, k))
      BY <3>2
    <3>6. CASE k = whole
      <4>1. PICK f \in Nat : f = shared[k].request.amount
        BY <1>4, <3>6 DEF SharedRecord
      <4>2. z + m <= f
        BY <1>9, <2>3, <3>5, <3>6, <4>1, ReturnedOfIs DEF PayoutInv
      <4>3. Total(Gives(to, k)) <= f
        BY <3>2, <3>3, <3>4, <3>5, <3>6, <4>2
      <4>4. shared'[k] # Nothing /\ shared'[k].request.amount = f
        BY <1>2, <1>4, <3>6, <4>1, NothingIsNoRecord
      <4> QED
        BY <3>1, <4>3, <4>4 DEF ShareFits, Gives
    <3>7. CASE k # whole
      <4>1. Total(Gives(to, k)) = Total(Gives(returned, k))
        BY <3>2, <3>3, <3>4, <3>5, <3>7
      <4> QED
        BY <1>2, <2>1, <3>1, <4>1 DEF ShareFits, Gives
    <3> QED
      BY <3>6, <3>7
  <2> QED
    BY <2>2, <2>3
<1>15. HeardOK'
  BY <1>1, <1>2, <1>12, TransfersFrame, ReturnHeardIs DEF Reply
<1>16. /\ \A k \in Shares : ShareOK(k)'
       /\ \A p \in DOMAIN Funds : PaymentFits(p)'
  BY <1>2 DEF PayoutInv, ShareOK, PaymentFits, Takes
<1> QED
  BY <1>2, <1>12, <1>13, <1>14, <1>15, <1>16, TransfersFrame DEF PayoutInv

LEMMA EndReturnStep ==
    ASSUME PayoutInv, NEW n \in Returns, NEW s \in {"SUCCESS", "FAILED"}, EndReturn(n, s)
    PROVE  PayoutInv'
<1> DEFINE new == [returned[n] EXCEPT !.state = s]
<1>1. UNCHANGED <<bill, authorization, shared, partners, notes, heard>>
  BY DEF EndReturn
<1>2. returned \in [Returns -> {Nothing} \cup ReturnedRecord]
  BY DEF PayoutInv, PayoutTyped
<1>3. returned[n].state = "PROCESSING" /\ returned[n] \in ReturnedRecord
  BY <1>2, NothingIsNoRecord DEF EndReturn
<1>4. returned' = [returned EXCEPT ![n] = new]
  BY <1>2 DEF EndReturn
<1>5. new \in ReturnedRecord /\ new.state = s /\ new.request = returned[n].request
  BY <1>3 DEF ReturnedRecord
<1> HIDE DEF new
<1>6. returned' \in [Returns -> {Nothing} \cup ReturnedRecord]
  BY <1>2, <1>4, <1>5
<1>7. returned'[n] = new /\ \A k \in Returns \ {n} : returned'[k] = returned[k]
  BY <1>2, <1>4
<1>8. \A k \in Returns :
         returned[k].state \in {"SUCCESS", "FAILED"} => returned'[k] = returned[k]
  BY <1>3, <1>7
<1>9. returned[n] # Nothing /\ returned'[n] # Nothing
  BY <1>3, <1>5, <1>7, NothingIsNoRecord
<1>10. \A k \in Shares : ShareFits(k)'
  <2> SUFFICES ASSUME NEW k \in Shares PROVE ShareFits(k)'
    OBVIOUS
  <2>1. PICK to \in [Returns -> {Nothing} \cup ReturnedRecord] : to = returned'
    BY <1>6
  <2>2. /\ Total(Gives(to, k)) = Total(Gives(returned, k)) - Gives(returned, k)[n] + Gives(to, k)[n]
        /\ {Total(Gives(to, k)), Total(Gives(returned, k)), Gives(to, k)[n],
            Gives(returned, k)[n]} \subseteq Nat
    BY <1>2, <1>7, <2>1, GivesChange
  <2>3. Gives(to, k)[n] = 0 \/ Gives(to, k)[n] = Gives(returned, k)[n]
    BY <1>3, <1>5, <1>7, <1>9, <2>1 DEF Gives
  <2>4. PICK f \in Nat : f = IF shared[k] = Nothing THEN 0 ELSE shared[k].request.amount
    BY DEF PayoutInv, PayoutTyped, SharedRecord
  <2>5. Total(Gives(returned, k)) <= f
    BY <2>4 DEF PayoutInv, ShareFits
  <2>6. Total(Gives(to, k)) <= f
    BY <2>2, <2>3, <2>5
  <2> QED
    BY <1>1, <2>1, <2>4, <2>6 DEF ShareFits, Gives
<1>11. /\ \A k \in Shares : ShareOK(k)'
       /\ \A p \in DOMAIN Funds : PaymentFits(p)'
  BY <1>1 DEF PayoutInv, ShareOK, PaymentFits, Takes
<1> QED
  BY <1>1, <1>6, <1>8, <1>10, <1>11, TransfersFrame DEF PayoutInv, PayoutTyped

LEMMA AskPayoutStep ==
    ASSUME PayoutInv,
           \/ \E account : AddProfitSharingReceiver(account)
           \/ \E in \in ShareInputs : QueryProfitSharingOrder(in.number, in.payment)
           \/ \E in \in ReturnInputs : QueryProfitSharingReturn(in.number, in.outOrderNo)
    PROVE  PayoutInv'
<1>1. UNCHANGED <<bill, authorization, shared, returned, notes>>
  BY DEF AddProfitSharingReceiver, QueryProfitSharingOrder, QueryProfitSharingReturn
<1>2. PayoutTyped'
  BY <1>1 DEF PayoutInv, PayoutTyped
<1>3. HeardOK'
  <2>1. CASE heard' = heard
    BY <1>1, <2>1, TransfersFrame
  <2>2. ASSUME NEW in \in ShareInputs, QueryProfitSharingOrder(in.number, in.payment),
               heard' = ShareFact(in.number)
        PROVE  HeardOK'
    <3>1. in.number \in Shares /\ shared[in.number] # Nothing
      BY <2>2 DEF Shares, QueryProfitSharingOrder
    <3>2. shared'[in.number] \in SharedRecord
      BY <1>1, <3>1 DEF PayoutInv, PayoutTyped
    <3> QED
      BY <1>1, <2>2, <3>1, <3>2, SharesFrame, ShareHeardIs
  <2>3. ASSUME NEW in \in ReturnInputs, heard' = ReturnFact(in.number)
        PROVE  HeardOK'
    BY <2>3, ReturnHeardIs DEF Returns
  <2> QED
    BY <2>1, <2>2, <2>3 DEF AddProfitSharingReceiver, QueryProfitSharingOrder,
                            QueryProfitSharingReturn, Reply
<1> QED
  BY <1>1, <1>2, <1>3, TransfersFrame, SharesFrame DEF PayoutInv

LEMMA ShareStep == PayoutInv /\ ShareNext => PayoutInv'
BY CreateShareStep, EndShareStep, CreateReturnStep, EndReturnStep, AskPayoutStep DEF ShareNext

-----------------------------------------------------------------------------
(* The theorems. *)

LEMMA SharingInvariance == PSSpec => []SharingInv
BY SharingInitOK, SharingStep, PTL DEF PSSpec

\* Every reachable state of the executor is well typed.
THEOREM SharingTypeCorrect == PSSpec => []PSTypeOK
<1>1. SharingInv => PSTypeOK
  BY DEF SharingInv, SharingTyped
<1> QED
  BY SharingInvariance, <1>1, PTL

\* Whatever stale copies concurrent tasks save over each other, whatever is
\* lost and wherever the process stops, a record says succeeded or refunded
\* only of money WeChat has moved, and WeChat shares what the record says
\* (executor.go, launch and ReturnForRefund).
THEOREM SharesStayBacked == PSSpec => []SharesAreBacked
<1>1. SharingInv => SharesAreBacked
  <2> SUFFICES ASSUME SharingInv, NEW o \in Orders
               PROVE  /\ Backed(row[o], o)
                      /\ share[o] # "none" => /\ amount[o] = row[o].commission
                                              /\ amount[o] \in 1..Paid[o]
    BY DEF SharesAreBacked, Backed
  <2>1. SharingRowOK(o) /\ RowShareOK(o)
    BY DEF SharingInv
  <2> QED
    BY <2>1, NoTaskFacts DEF SharingRowOK, RowShareOK
<1> QED
  BY SharingInvariance, <1>1, PTL

\* A refund is let through as returned only after WeChat has returned the
\* commission, and as unshared only by a task that WeChat has not told of the
\* completed share.
THEOREM RefundsAreInformed == PSSpec => []RefundsKeepWhatIsKnown
<1>1. SharingInv => RefundsKeepWhatIsKnown
  BY DEF SharingInv
<1> QED
  BY SharingInvariance, <1>1, PTL

\* Every part's invariant.
TenantPayInv ==
    /\ PayInv /\ BindInv /\ SharingInv /\ NotifyTypeOK /\ AckedWasBooked
    /\ ApiInv /\ GateInv /\ PayoutInv

LEMMA TenantPayInitOK == Init => TenantPayInv
BY PayInitOK, BindInitOK, SharingInitOK, NotifyInitOK, ApiInitOK, GateInitOK, PayoutInitOK
   DEF Init, TenantPayInv

LEMMA GatesMove == GateInv /\ (GateNext \/ UNCHANGED gateVars) => GateInv'
BY GateStepKeeps, ToldStep DEF GateNext, gateVars

LEMMA PayoutsMove ==
    PayoutInv /\ (TransferNext \/ ShareNext \/ UNCHANGED payoutVars) => PayoutInv'
<1> SUFFICES ASSUME PayoutInv, UNCHANGED payoutVars PROVE PayoutInv'
  BY TransferStep, ShareStep
<1>1. UNCHANGED <<bill, authorization, shared, returned, partners, notes, heard>>
  BY DEF payoutVars
<1>2. PayoutTyped'
  BY <1>1 DEF PayoutInv, PayoutTyped
<1> QED
  BY <1>1, <1>2, TransfersFrame, SharesFrame DEF PayoutInv

LEMMA TenantPayStep == TenantPayInv /\ [Next]_everything => TenantPayInv'
<1> SUFFICES ASSUME TenantPayInv, [Next]_everything PROVE TenantPayInv'
  OBVIOUS
<1>1. PayNext \/ UNCHANGED payVars
  BY DEF Next, Still, everything
<1>2. BindNext \/ UNCHANGED bindVars
  BY DEF Next, Still, everything
<1>3. PSNext \/ UNCHANGED psVars
  BY DEF Next, Still, everything
<1>4. NotifyNext \/ UNCHANGED notifyVars
  BY DEF Next, Still, everything
<1>5. ApiNext \/ UNCHANGED apiVars
  BY DEF Next, Still, everything
<1>6. GateNext \/ UNCHANGED gateVars
  BY DEF Next, Still, everything, GateNext
<1>7. TransferNext \/ ShareNext \/ UNCHANGED payoutVars
  BY DEF Next, Still, everything
<1>8. PayInv' /\ BindInv' /\ SharingInv'
  BY <1>1, <1>2, <1>3, PayStep, BindStep, SharingStep DEF TenantPayInv
<1>9. NotifyTypeOK' /\ AckedWasBooked' /\ ApiInv'
  BY <1>4, <1>5, NotifyStep, ApiStep DEF TenantPayInv
<1>10. GateInv' /\ PayoutInv'
  BY <1>6, <1>7, GatesMove, PayoutsMove DEF TenantPayInv
<1> QED
  BY <1>8, <1>9, <1>10 DEF TenantPayInv

LEMMA TenantPayInvariance == Spec => []TenantPayInv
BY TenantPayInitOK, TenantPayStep, PTL DEF Spec

\* Whatever is saved, resolved, cached or bound by whom and in which order: no
\* configuration is switched on incomplete; a client not built while its
\* configuration changed outlives a change of its tenant's by what the change
\* needs to drop it, and one of the platform's by less than the ttl; and the
\* two tables of mini-programs differ, and login has not the last secret, only
\* for the reasons BindingsMeet names (resolver.go, store.go).
THEOREM ConfigurationsHold == Spec => []ConfigsHold
<1>1. TenantPayInv => ConfigsHold
  <2> SUFFICES ASSUME TenantPayInv PROVE ConfigsHold
    OBVIOUS
  <2>1. PSTypeOK
    BY DEF TenantPayInv, SharingInv, SharingTyped
  <2> QED
    BY <2>1, ClientsHold, BindingsAgree DEF TenantPayInv, ConfigsHold, PayTypes
<1> QED
  BY TenantPayInvariance, <1>1, PTL

\* Whatever requests, answers and notices are lost, repeated, late or sent to
\* the wrong address: what a caller is told of an order, a refund, a transfer,
\* a share or a return is so, refunds keep to what was paid and shares and
\* returns to what there is to share; a notice that comes by its own route is
\* answered with success only when it is booked, one that comes by the other
\* books nothing; and a token is never used beyond its life (paynotify.go,
\* wechat/pay.go, wechat/profitsharing.go, alipay/client.go).
THEOREM PaymentsAreBooked == Spec => []PaymentsHold
<1>1. TenantPayInv => PaymentsHold
  BY ApiHolds, GatewaysAreHeld, PayoutsAreHeld DEF TenantPayInv, PaymentsHold
<1> QED
  BY TenantPayInvariance, <1>1, PTL
=============================================================================
