----------------------------- MODULE MCServices -----------------------------
EXTENDS Accounts, Sessions, Guards, Storage, Hub, Dispatcher, AiCalls, Requests, TLC

VARIABLE part   \* the parts share no state: each is explored on its own

UnionMC(o) == IF o = "dev" THEN "" ELSE "n"
BaseMC(k) == IF k \in {"a/x", "b/x"} THEN "x" ELSE k
KeysMC == {<<"session", "t1">>, <<"code", "p1">>, <<"rate", "p1">>}

RecordMC(s, m, o, t, c) == [scenario |-> s, model |-> m, outcome |-> o, tokens |-> t,
                            cost |-> c, priced |-> FALSE]
RecordsMC == {RecordMC("s", "m1", "success", 1, ""), RecordMC("", "m2", "", 1, "own"),
              RecordMC("s", "m2", "success", 0, "")}

AllInputs ==
    [method : {"GET"}, auth : {"", "alone", "tenant", "admin", "stale", "down"},
     tenant : {"", "0", "1", "2"}, domain : {"", "d1"}, app : {"", "a1"}, length : {-1}, body : {0},
     origin : {""}, id : {""}, panics : BOOLEAN, skipped : {FALSE},
     members : {"asked", "remembered", "down"}]
    \cup
    [method : {"GET", "OPTIONS"}, auth : {"admin"}, tenant : {"1"}, domain : {""}, app : {"a1"},
     length : {-1, 0, 3}, body : 0..4, origin : {"", "o1", "o2"}, id : {"", "i", "bad id"},
     panics : BOOLEAN, skipped : BOOLEAN, members : {"asked"}]
InputsMC == {r \in AllInputs : r.length \in {-1, r.body}}
ChainsMC ==
    { <<"RequestID", "AccessLog", "Recovery", "CORS", "SecurityHeaders", "BodyLimit",
        "TenantFromRequest", "TenantFromAppID", "RequireSessionAuth", "RequireTenantMember">>,
      <<"Recovery", "AccessLog", "BodyLimit", "RequireSessionAuth", "TenantFromAppID",
        "RequireRoles", "RequireDataScope">>,
      <<"AccessLog", "Recovery", "TenantFromRequest", "RequireSessionAuth", "PermissionRequired">>,
      <<"RequireTenantMember", "PermissionRequired">> }
MemberMC(u, t) == u = 1 /\ t = 1
FallbackMC(u) == 1
AppMC(a) == IF a = "a1" THEN 1 ELSE 0
DomainMC(d) == IF d = "d1" THEN 1 ELSE 0
RoleMC(u) == IF u = 2 THEN "owner" ELSE "staff"
AllowedMC(r) == r = "owner"

Symmetry == Permutations(Workers) \cup Permutations(Phones)

kvAll == <<cacheVars, sessVars, smsVars>>
everything == <<part, accountVars, kvAll, guardVars, storageVars, hubVars, workerVars, aiVars,
                requestVars>>

\* Choices of Init that a part does not use are fixed in the other parts.
Init ==
    /\ part \in {"accounts", "sessions", "codes", "lists", "members", "apps", "rates", "objects",
                 "copies", "cleaners", "hub", "worker", "calls", "requests"}
    /\ IF part \in {"sessions", "codes", "lists"} THEN backend \in Backends ELSE backend = "redis"
    /\ IF part = "sessions" THEN store \in SessionStores ELSE store = "cache"
    /\ IF part = "codes" THEN enabled \in BOOLEAN ELSE enabled = TRUE
    /\ IF part = "objects" THEN kind \in Stores /\ bucket \in {"none", "public"}
                           ELSE kind = "s3" /\ bucket = "public"
    /\ IF part = "requests" THEN request \in Inputs /\ chain \in Chains
       ELSE request = (CHOOSE r \in Inputs : TRUE) /\ chain = (CHOOSE c \in Chains : TRUE)
    /\ AccountInit /\ CacheInit /\ SessInit /\ GuardInit /\ StorageInit
    /\ HubInit /\ DispatcherInit /\ AiInit /\ RequestsInit

\* What a part leaves alone.
Still(p) ==
    /\ p # "accounts" => UNCHANGED accountVars
    /\ p \notin {"sessions", "codes", "lists"} => UNCHANGED kvAll
    /\ p \notin {"members", "apps", "rates"} => UNCHANGED guardVars
    /\ p \notin {"objects", "copies", "cleaners"} => UNCHANGED storageVars
    /\ p # "hub" => UNCHANGED hubVars
    /\ p # "worker" => UNCHANGED workerVars
    /\ p # "calls" => UNCHANGED aiVars
    /\ p # "requests" => UNCHANGED requestVars

Next ==
    /\ UNCHANGED part /\ Still(part)
    /\ \/ part = "accounts" /\ AccountNext
       \/ part = "sessions" /\ SessionNext
       \/ part = "codes" /\ CodeNext
       \/ part = "lists" /\ ListNext /\ UNCHANGED <<sessVars, smsVars>>
       \/ part = "members" /\ MemberNext /\ UNCHANGED <<appVars, rateVars>>
       \/ part = "apps" /\ AppNext /\ UNCHANGED <<memberVars, rateVars>>
       \/ part = "rates" /\ RateNext /\ UNCHANGED <<memberVars, appVars>>
       \/ part = "objects" /\ ObjectNext /\ UNCHANGED <<kind, fileVars>>
       \/ part = "copies" /\ CopyNext /\ UNCHANGED kind
       \/ part = "cleaners" /\ CleanerNext /\ UNCHANGED kind
       \/ part = "hub" /\ HubNext
       \/ part = "worker" /\ DispatcherNext
       \/ part = "calls" /\ AiNext
       \/ part = "requests" /\ RequestsNext

Spec == Init /\ [][Next]_everything

-----------------------------------------------------------------------------
\* Who somebody is: accounts are found again and belong to what was shown,
\* and a request is let through for that identity alone, within the time to
\* live of what the guards remember (identity/login.go, middleware/http.go).
\* Each part is looked at where it moves.
IdentityHolds ==
    /\ part = "accounts" => AccountTypeOK /\ AccountsHold
    /\ part \in {"members", "apps", "rates"} => GuardsHold
    /\ part = "requests" => RequestsHold

\* What is stored: sessions, codes, lists, objects and local copies last as
\* long as they should and not longer (auth/session.go, sms/sms.go,
\* cache/cache.go, storage/storage.go).
StoresHold ==
    /\ part = "sessions" => SessionsHold
    /\ part = "codes" => CodesHold
    /\ part = "lists" => ListsHold
    /\ part \in {"objects", "copies", "cleaners"} => StorageHolds

\* What runs beside the requests: streams, the dispatcher's loop and the
\* records of model calls (events/hub.go, event/worker.go, aiobs/store.go).
BackgroundHolds ==
    /\ part = "hub" => HubHolds
    /\ part = "worker" => DispatcherHolds
    /\ part = "calls" => AiCallsHold
=============================================================================
