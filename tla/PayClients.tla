----------------------------- MODULE PayClients -----------------------------
(***************************************************************************)
(* src/tenantpay: the payment configuration of tenants, and the cache of   *)
(* payment clients built from it.                                          *)
(*                                                                         *)
(* A configuration is reduced to its merchant number, its secrets (the     *)
(* master key they are encrypted under), whether its public parts are      *)
(* filled in, and the switch.  Row numbers stand for what was saved when.  *)
(***************************************************************************)
EXTENDS Integers, Sequences, FiniteSets, Functions

CONSTANTS
    Tenants,        \* tenant ids; 0 is the platform
    Paths,          \* what a request may name as :tenantID
    Keys,           \* master keys a deployment may be started with
    Savers, Resolvers,  \* concurrent requests
    Requests,       \* what administrators ask to save
    OpenFallback,   \* Resolver.OpenFallback
    AppIDPassed,    \* does the client configuration carry an appid
    NotifyTemplate, \* is NotifyURLTemplate set
    Ttl,
    MaxSaves, MaxTime   \* bounds: saves, clock

Platform == 0
None == "none"

ASSUME TenantsAssumption ==
    Tenants \subseteq Nat /\ IsFiniteSet(Tenants) /\ Platform \in Tenants
ASSUME RequestsAssumption ==
    \A q \in Requests : {q.secret, q.public, q.enabled} \subseteq BOOLEAN
ASSUME SwitchesAssumption == {OpenFallback, AppIDPassed, NotifyTemplate} \subseteq BOOLEAN
ASSUME TtlAssumption == Ttl \in Nat \ {0} /\ {MaxSaves, MaxTime} \subseteq Nat

VARIABLES
    rows,       \* rows[t]: the integration_configs rows of a tenant by id
    masterKey,  \* of the running process
    saver,      \* saver[s]: a save in progress
    resolver,   \* resolver[r]: a Resolve outside the lock
    cache,      \* cache[t]: a cached client
    savedAt,    \* savedAt[t]: when the rows of t were written, in order (history)
    clock

payVars == <<rows, masterKey, saver, resolver, cache, savedAt, clock>>

\* How often the rows of a tenant were written.
version == [t \in Tenants |-> Len(savedAt[t])]

Merchants == {None, "m0"} \cup {q.mch : q \in Requests}
IntegrationConfig ==
    [mch : Merchants, secret : {None, "plain"} \cup Keys, public : BOOLEAN, enabled : BOOLEAN]

Blank == [mch |-> None, secret |-> None, public |-> FALSE, enabled |-> FALSE]
NoClient == [from |-> -1, own |-> 0, platform |-> 0, until |-> 0, overlapped |-> FALSE]
Idle == [at |-> "idle"]

\* Which saves a client has seen (history): own those of its tenant's rows,
\* platform those of the platform's, where it stands in for the tenant's.
Client ==
    [from : Tenants \cup {-1}, own : Nat, platform : Nat, until : Nat, overlapped : BOOLEAN]

PayTypeOK ==
    /\ rows \in [Tenants -> Seq(IntegrationConfig)]
    /\ masterKey \in Keys
    /\ savedAt \in [Tenants -> Seq(0..MaxTime)]
    /\ cache \in [Tenants -> Client]
    /\ clock \in 0..MaxTime

\* A history row may hold a secret from before encryption.
PayInit ==
    /\ rows \in [Tenants -> {<<>>}] \cup
         {[t \in Tenants |-> IF t = Platform
              THEN <<[mch |-> "m0", secret |-> "plain", public |-> TRUE, enabled |-> FALSE]>>
              ELSE <<>>]}
    /\ masterKey \in Keys
    /\ saver = [s \in Savers |-> Idle] /\ resolver = [r \in Resolvers |-> Idle]
    /\ cache = [t \in Tenants |-> NoClient] /\ savedAt = [t \in Tenants |-> <<>>]
    /\ clock = 0

\* The row with the smallest id; the table has no unique index.
FindPayConfig(t) == IF rows[t] = <<>> THEN Blank ELSE Head(rows[t])
Configured(t) == rows[t] # <<>>

-----------------------------------------------------------------------------
(* Who may save what *)

\* pathUint: what is no number is 0.
PathUint(p) == IF p \in Tenants THEN p ELSE 0

\* A merchant's routes act on its own tenant, the platform's on the path's.
Target(side, own, path) == IF side = "merchant" THEN own ELSE PathUint(path)

Merged(old, req) ==
    [mch     |-> req.mch,
     secret  |-> IF req.secret THEN masterKey ELSE old.secret,
     public  |-> old.public \/ req.public,
     enabled |-> req.enabled]

\* Mutant: only the request is looked at.
CompleteRequest(c, req) == req.enabled => c.mch # None

Complete(c, req) == req.enabled => c.secret # None /\ c.public

\* How often configurations were written.
Saved == FoldFunction(+, 0, version)

\* SaveWechatPayConfig: merges into what it reads and validates the result.
SaveRead(s, side, own, path, req) ==
    LET t == Target(side, own, path)
        c == Merged(FindPayConfig(t), req)
    IN  /\ saver[s] = Idle
        /\ req.mch # None
        /\ Saved < MaxSaves
        /\ Complete(c, req)
        /\ saver' = [saver EXCEPT ![s] = [at |-> "find", tenant |-> t, row |-> c]]
        /\ UNCHANGED <<rows, masterKey, resolver, cache, savedAt, clock>>

\* SavePayConfig looks for the row and then updates it or creates one.
SaveFind(s) ==
    /\ saver[s].at = "find"
    /\ saver' = [saver EXCEPT ![s] =
           [at |-> IF Configured(@.tenant) THEN "update" ELSE "create",
            tenant |-> @.tenant, row |-> @.row]]
    /\ UNCHANGED <<rows, masterKey, resolver, cache, savedAt, clock>>

SaveStore(s) ==
    LET t == saver[s].tenant IN
    /\ saver[s].at \in {"update", "create"}
    /\ Saved < MaxSaves
    /\ rows' = [rows EXCEPT ![t] =
           IF saver[s].at = "update" THEN [@ EXCEPT ![1] = saver[s].row]
                                     ELSE Append(@, saver[s].row)]
    /\ savedAt' = [savedAt EXCEPT ![t] = Append(@, clock)]
    /\ saver' = [saver EXCEPT ![s].at = "invalidate"]
    /\ UNCHANGED <<masterKey, resolver, cache, clock>>

\* Mutant: the clients of all tenants but the one saved are dropped.
WithoutOthers(t) == [u \in Tenants |-> IF u = t THEN cache[u] ELSE NoClient]

Without(t) == [cache EXCEPT ![t] = NoClient]

\* Resolver.Invalidate, the last step of a save.
SaveInvalidate(s) ==
    /\ saver[s].at = "invalidate"
    /\ cache' = Without(saver[s].tenant)
    /\ saver' = [saver EXCEPT ![s] = Idle]
    /\ UNCHANGED <<rows, masterKey, resolver, savedAt, clock>>

\* The transaction fails, or the process does: a restart may change the key.
SaveFails(s) ==
    /\ saver[s].at \in {"find", "update", "create"}
    /\ saver' = [saver EXCEPT ![s] = Idle]
    /\ UNCHANGED <<rows, masterKey, resolver, cache, savedAt, clock>>

Restart(k) ==
    /\ k # masterKey
    /\ masterKey' = k
    /\ saver' = [s \in Savers |-> Idle] /\ resolver' = [r \in Resolvers |-> Idle]
    /\ cache' = [t \in Tenants |-> NoClient]
    /\ UNCHANGED <<rows, savedAt, clock>>

-----------------------------------------------------------------------------
(* Clients *)

\* Decrypt: a value without the prefix is returned as it is.
Decrypts(secret) == secret \in {"plain", masterKey}

\* What the resolver hands to NewPayClient.
ClientConfig(t, c) ==
    [AppID |-> AppIDPassed, MchID |-> c.mch # None, APIKeyV3 |-> c.secret # None,
     CertPath |-> c.secret # None, CertSerialNo |-> c.public, PublicKeyPath |-> c.public,
     PublicKeyID |-> c.public, NotifyURL |-> NotifyTemplate]

HasPayConfig(cfg) == \A field \in DOMAIN cfg : cfg[field]

\* NewPayClient and Enabled, for keys and certificates that parse.
Enabled(cfg) == HasPayConfig(cfg)

NotConfigured(t) ==
    LET c == FindPayConfig(t) IN
    \/ ~ c.enabled
    \/ Decrypts(c.secret) /\ ~ (c.mch # None /\ c.public)
    \/ c.secret = None

\* build returns a client.
Builds(t) ==
    LET c == FindPayConfig(t) IN
    /\ ~ NotConfigured(t)
    /\ Decrypts(c.secret)
    /\ Enabled(ClientConfig(t, c))

Cached(t) == cache[t] # NoClient /\ clock < cache[t].until

\* Resolve misses the cache and builds outside the lock, of the tenant's own
\* configuration first; that of the platform is read after it, if the tenant
\* has none.
ResolveBuild(r, t) ==
    LET found(at) == [at |-> at, tenant |-> t, from |-> IF at = "store" THEN t ELSE Platform,
                      own |-> version[t], platform |-> 0]
    IN  /\ resolver[r] = Idle
        /\ ~ Cached(t)
        /\ \/ Builds(t) /\ resolver' = [resolver EXCEPT ![r] = found("store")]
           \/ /\ NotConfigured(t) /\ OpenFallback /\ t # Platform
              /\ resolver' = [resolver EXCEPT ![r] = found("platform")]
        /\ UNCHANGED <<rows, masterKey, saver, cache, savedAt, clock>>

ResolveFallback(r) ==
    /\ resolver[r].at = "platform"
    /\ resolver' = [resolver EXCEPT ![r] =
           IF Builds(Platform)
           THEN [@ EXCEPT !.at = "store", !.platform = version[Platform]]
           ELSE Idle]
    /\ UNCHANGED <<rows, masterKey, saver, cache, savedAt, clock>>

\* Was what a client was built of saved again since?
Outdated(t, b) ==
    b.own # version[t] \/ (b.from # t /\ b.platform # version[Platform])

ResolveStore(r) ==
    LET b == resolver[r] IN
    /\ b.at = "store"
    /\ cache' = [cache EXCEPT ![b.tenant] =
           [from |-> b.from, own |-> b.own, platform |-> b.platform, until |-> clock + Ttl,
            overlapped |-> Outdated(b.tenant, b)]]
    /\ resolver' = [resolver EXCEPT ![r] = Idle]
    /\ UNCHANGED <<rows, masterKey, saver, savedAt, clock>>

Tick ==
    /\ clock < MaxTime
    /\ clock' = clock + 1
    /\ UNCHANGED <<rows, masterKey, saver, resolver, cache, savedAt>>

\* A merchant saves its own configuration; the platform its own and anybody's.
saveMerchantWechatConfig(s, t, req) == SaveRead(s, "merchant", t, t, req)
saveWechatConfigOf(s, p, req) == SaveRead(s, "platform", Platform, p, req)

Saves(s) ==
    \/ \E t \in Tenants \ {Platform}, q \in Requests : saveMerchantWechatConfig(s, t, q)
    \/ \E p \in Paths, q \in Requests : saveWechatConfigOf(s, p, q)
    \/ SaveFind(s) \/ SaveStore(s) \/ SaveInvalidate(s) \/ SaveFails(s)

Resolves(r) ==
    \/ \E t \in Tenants : ResolveBuild(r, t)
    \/ ResolveFallback(r) \/ ResolveStore(r)

PayNext ==
    \/ \E s \in Savers : Saves(s)
    \/ \E r \in Resolvers : Resolves(r)
    \/ \E k \in Keys : Restart(k)
    \/ Tick

PaySpec == PayInit /\ [][PayNext]_payVars

-----------------------------------------------------------------------------
\* However saves interleave, no configuration is switched on incomplete.
EnabledIsComplete ==
    \A t \in Tenants : \A i \in DOMAIN rows[t] :
        rows[t][i].enabled => rows[t][i].secret # None /\ rows[t][i].public

\* A client is used no longer than the ttl.  If no save came between its build
\* and its entry in the cache, it is older than the last save of its tenant
\* only while that save is on its way to Invalidate; and one built of the
\* platform's configuration, which a save of the platform's does not drop
\* (resolver.go:101), outlives such a save by less than the ttl.
StaleEnds ==
    \A t \in Tenants : Cached(t) =>
        LET c == cache[t] IN
        /\ c.until <= clock + Ttl
        /\ ~ c.overlapped =>
             /\ c.own < version[t] =>
                  \E s \in Savers : saver[s].at = "invalidate" /\ saver[s].tenant = t
             /\ c.from # t => \A i \in (c.platform + 1)..version[Platform] :
                                 clock < savedAt[Platform][i] + Ttl

\* resolver.go:76: a tenant with a working configuration gets a client.
ConfiguredTenantsResolve ==
    \A t \in Tenants :
        LET c == FindPayConfig(t) IN
        c.enabled /\ c.mch # None /\ Decrypts(c.secret) /\ c.public /\ NotifyTemplate => Builds(t)
=============================================================================
