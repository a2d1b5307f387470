------------------------------- MODULE Requests -------------------------------
(***************************************************************************)
(* src/middleware, src/rbac, src/auth/token.go: one request on its way in  *)
(* and out of a chain of filters.  What the filters remember from request  *)
(* to request is in Guards and Sessions.                                   *)
(***************************************************************************)
EXTENDS Integers, Sequences

CONSTANTS
    Chains,         \* orders in which a host installs the filters
    Inputs,         \* requests: method, length (-1 when chunked), body, auth, tenant, ...
                    \* and members: what memberCache or the database has to say
    MemberOf(_, _), \* org.IsMember of a user in a tenant
    FallbackOf(_),  \* TenantFallbackResolver: a tenant, 0, or -1 for an error
    AppOf(_), DomainOf(_),  \* the tenant of an appid or a domain, or 0
    RoleNow(_),     \* RoleResolver: the role now, or "" for an error
    Allowed(_),     \* Checker, by role
    Admins,         \* PlatformAdmin
    Origins, Credentials,   \* CORSConfig
    MaxBytes        \* BodyLimitConfig; 0 when it is not enabled

\* The filters by name, and those that never answer instead of going on.
Filters == {"RequestID", "AccessLog", "Recovery", "CORS", "SecurityHeaders", "BodyLimit",
            "TenantFromRequest", "TenantFromAppID", "RequireSessionAuth", "RequireTenantMember",
            "PermissionRequired", "RequireRoles", "RequireDataScope"}
Harmless == {"RequestID", "AccessLog", "Recovery", "SecurityHeaders", "TenantFromRequest"}

\* The host installs the filters that identify once, a tenant is not taken from
\* the request again once its membership is checked, and what may refuse comes
\* after an access log outside of Recovery.
ASSUME ChainsAssumption ==
    \A c \in Chains :
       /\ c \in Seq(Filters)
       /\ \A i, j \in DOMAIN c :
            /\ c[i] = c[j] /\ c[i] \in {"RequireSessionAuth", "TenantFromRequest", "AccessLog"}
                 => i = j
            /\ c[i] = "RequireTenantMember" /\ c[j] = "TenantFromRequest" => j < i
            /\ c[i] = "AccessLog" /\ c[j] = "Recovery" /\ i < j
                 => \A k \in 1..i : c[k] \in Harmless

\* A body has the length that is announced; tenants are numbers.
ASSUME InputsAssumption ==
    /\ MaxBytes \in Nat /\ \A u \in 0..2 : FallbackOf(u) \in Nat \cup {-1}
    /\ \A r \in Inputs : /\ r.body \in Nat /\ r.length \in {-1, r.body}
                         /\ {r.panics, r.skipped} \subseteq BOOLEAN
                         /\ r.members \in {"asked", "remembered", "down"}
                         /\ AppOf(r.app) \in Nat /\ DomainOf(r.domain) \in Nat

VARIABLES
    request, chain,
    at,         \* the filter that is next, 1..Len(chain) + 1, or 0 at the end
    inward,     \* on the way in
    context,    \* the keys that are set
    panicking, status, headers,
    handled,    \* what the handler saw, or <<>>
    reader,     \* limitedBodyReader, and the bytes it has given
    requests    \* what metrics and the access log were told

requestVars == <<request, chain, at, inward, context, panicking, status, headers, handled, reader,
                 requests>>

Unset == -1     \* a key that nobody has set
RequestsInit ==
    /\ request \in Inputs /\ chain \in Chains /\ at = 1 /\ inward = TRUE
    /\ context = [user |-> Unset, tenant |-> Unset, role |-> "", app |-> "", id |-> ""]
    /\ panicking = FALSE /\ status = 0 /\ headers = {} /\ handled = <<>> /\ requests = <<>>
    /\ reader = [on |-> FALSE, remaining |-> 0, exceeded |-> FALSE, given |-> 0]

\* Claims of a token that ParseToken or ResolveClaims accepts: user, tenant,
\* role.  "stale" and "forged" are refused, and "down" is a store in trouble.
Claims(token) == CASE token = "alone"  -> <<1, 0, "staff">>
                   [] token = "tenant" -> <<1, 1, "staff">>
                   [] token = "admin"  -> <<2, 0, "owner">>
Valid(token) == token \in {"alone", "tenant", "admin"}

UserIDFromContext == IF context.user > 0 THEN context.user ELSE 0
TenantIDFromContext == context.tenant # Unset       \* a tenant 0 counts as set

\* parseTenantID: a number, 0 included, or nothing.
ParseTenantID == IF request.tenant = "" \/ request.tenant = "x" THEN Unset
                 ELSE CASE request.tenant = "0" -> 0 [] request.tenant = "1" -> 1 [] OTHER -> 2
NormalizeRequestID == IF request.id \in {"", "bad id"} THEN "random" ELSE request.id
ResolveAllowedOrigin ==
    IF Origins = {} THEN "*"
    ELSE IF "*" \in Origins THEN IF Credentials /\ request.origin # "" THEN request.origin ELSE "*"
    ELSE IF request.origin \in Origins \ {""} THEN request.origin ELSE ""

-----------------------------------------------------------------------------
\* What a filter answers instead of going on (0 to go on).
RequireAuth ==
    IF Valid(request.auth) THEN 0 ELSE IF request.auth = "down" THEN 500 ELSE 401

\* The tenant of the header, or else of the fallback.
MemberTenant == IF ParseTenantID > 0 THEN ParseTenantID ELSE FallbackOf(UserIDFromContext)

\* Mutant: a tenant is believed without a membership.
MemberUnchecked ==
    IF UserIDFromContext = 0 THEN 401
    ELSE IF MemberTenant = -1 THEN 500
    ELSE IF MemberTenant # 0 THEN 0 ELSE 403

\* memberAllowed: an entry of the cache that has not expired lets through, also
\* one of a refusal; without one the database is asked, which may be in trouble.
MemberAnswer(user, tenant) ==
    IF request.members = "remembered" THEN 0
    ELSE IF request.members = "down" THEN 500
    ELSE IF MemberOf(user, tenant) THEN 0 ELSE 403

\* RequireTenantMember; an identity in the Go context alone is not seen.
RequireTenantMember ==
    IF UserIDFromContext = 0 THEN 401
    ELSE IF MemberTenant = -1 THEN 500
    ELSE IF MemberTenant = 0 THEN 403
    ELSE IF UserIDFromContext \in Admins THEN 0
    ELSE MemberAnswer(UserIDFromContext, MemberTenant)

TenantFromAppID == IF TenantIDFromContext \/ AppOf(request.app) # 0 THEN 0 ELSE 404
PermissionRequired ==
    IF UserIDFromContext = 0 THEN 401
    ELSE IF RoleNow(UserIDFromContext) # "" /\ Allowed(RoleNow(UserIDFromContext)) THEN 0 ELSE 403
RequireRoles == IF UserIDFromContext = 0 THEN 401 ELSE IF context.role = "owner" THEN 0 ELSE 403
RequireDataScope == IF Allowed(context.role) THEN 0 ELSE 403
Limits == MaxBytes > 0 /\ request.method # "OPTIONS"
BodyLimit == IF Limits /\ request.length > MaxBytes THEN 413 ELSE 0
CORS == IF request.method = "OPTIONS" THEN 204 ELSE 0

Verdict(f) ==
    CASE f = "RequireSessionAuth"   -> RequireAuth
      [] f = "RequireTenantMember"  -> RequireTenantMember
      [] f = "TenantFromAppID"      -> TenantFromAppID
      [] f = "PermissionRequired"   -> PermissionRequired
      [] f = "RequireRoles"         -> RequireRoles
      [] f = "RequireDataScope"     -> RequireDataScope
      [] f = "BodyLimit"            -> BodyLimit
      [] f = "CORS"                 -> CORS
      [] OTHER                      -> 0

\* What a filter that goes on writes into the context.
WriteIdentity == [context EXCEPT !.user = Claims(request.auth)[1],
                    !.tenant = Claims(request.auth)[2], !.role = Claims(request.auth)[3]]
TenantFromRequest ==
    IF ParseTenantID # Unset THEN [context EXCEPT !.tenant = ParseTenantID]
    ELSE IF DomainOf(request.domain) # 0
    THEN [context EXCEPT !.tenant = DomainOf(request.domain)] ELSE context
Written(f) ==
    CASE f = "RequestID"            -> [context EXCEPT !.id = NormalizeRequestID]
      [] f = "RequireSessionAuth"   -> WriteIdentity
      [] f = "RequireTenantMember"  -> [context EXCEPT !.tenant = MemberTenant]
      [] f = "TenantFromRequest"    -> TenantFromRequest
      [] f = "TenantFromAppID"      -> IF TenantIDFromContext THEN context
                                       ELSE [context EXCEPT !.tenant = AppOf(request.app),
                                                            !.app = request.app]
      [] OTHER                      -> context

HeadersOf(f) == CASE f = "CORS" -> {<<"origin", ResolveAllowedOrigin>>}
                  [] f = "SecurityHeaders" -> {<<"security", "on">>}
                  [] f = "RequestID" -> {<<"id", NormalizeRequestID>>}
                  [] OTHER -> {}

Enter ==
    LET f == chain[at] IN
    /\ inward /\ at \in DOMAIN chain
    /\ headers' = headers \cup HeadersOf(f)
    /\ IF Verdict(f) # 0
       THEN status' = Verdict(f) /\ inward' = FALSE /\ UNCHANGED <<at, context, reader>>
       ELSE /\ at' = at + 1 /\ context' = Written(f) /\ UNCHANGED <<status, inward>>
            /\ reader' = IF f = "BodyLimit" /\ request.length < 0 /\ Limits
                         THEN [reader EXCEPT !.on = TRUE, !.remaining = MaxBytes] ELSE reader
    /\ UNCHANGED <<request, chain, panicking, handled, requests>>

\* limitedBodyReader.Read: at the limit one more byte is asked for, to tell a
\* body of that size from a longer one.
Read(n) ==
    LET rest == request.body - reader.given
        m    == IF n < rest THEN n ELSE rest
        k    == IF reader.on /\ m > reader.remaining THEN reader.remaining ELSE m IN
    /\ inward /\ at = Len(chain) + 1 /\ ~reader.exceeded /\ rest > 0
    /\ reader' = IF reader.on /\ reader.remaining <= 0 THEN [reader EXCEPT !.exceeded = TRUE]
                 ELSE [reader EXCEPT !.given = @ + k, !.remaining = @ - k]
    /\ UNCHANGED <<request, chain, at, inward, context, panicking, status, headers, handled,
                   requests>>

\* The handler: it answers, answers an error of a body too large, or panics.
Handle ==
    /\ inward /\ at = Len(chain) + 1
    /\ reader.exceeded \/ reader.given = request.body
    /\ handled' = <<context, reader.given>>
    /\ panicking' = request.panics
    /\ status' = IF request.panics THEN status ELSE IF reader.exceeded THEN 400 ELSE 200
    /\ inward' = FALSE /\ at' = at - 1
    /\ UNCHANGED <<request, chain, context, headers, reader, requests>>

\* The way out, also of an abort: AccessLog counts what returns to it, and
\* Recovery turns a panic into an answer.
Leave ==
    LET f == chain[at] IN
    /\ ~inward /\ at \in DOMAIN chain /\ at' = at - 1
    /\ requests' = IF f = "AccessLog" /\ ~panicking /\ ~request.skipped
                   THEN Append(requests, status) ELSE requests
    /\ IF f = "Recovery" /\ panicking THEN status' = 500 /\ panicking' = FALSE
       ELSE UNCHANGED <<status, panicking>>
    /\ UNCHANGED <<request, chain, inward, context, headers, handled, reader>>

RequestsNext == Enter \/ Handle \/ Leave \/ \E n \in 1..2 : Read(n)

-----------------------------------------------------------------------------
Has(f) == \E i \in DOMAIN chain : chain[i] = f
Before(f, g) == \E i, j \in DOMAIN chain : i < j /\ chain[i] = f /\ chain[j] = g
Ended == ~inward /\ at = 0

\* What a handler sees was let through by every filter before it: the user is
\* the token's, the tenant one that the user is a member of, or was asked about
\* within a ttl, whatever the headers say, and the body no longer than the
\* limit.  Of a request that was not let through the handler sees nothing, and
\* every request is answered and counted once, a panicking one too where
\* Recovery is inside AccessLog (src/middleware/http.go:125, 167,
\* tenant_member.go:40, body_limit.go:43).
RequestsHold ==
    /\ handled # <<>> =>
        LET c == handled[1] IN
        /\ Has("RequireSessionAuth") => Valid(request.auth) /\ c.user = Claims(request.auth)[1]
        /\ Has("RequireTenantMember") =>
             /\ c.tenant > 0
             /\ c.user \in Admins \/ request.members = "remembered" \/ MemberOf(c.user, c.tenant)
        /\ Before("TenantFromRequest", "RequireSessionAuth") /\ ~Has("RequireTenantMember") =>
             c.tenant = Claims(request.auth)[2]
        /\ Has("TenantFromAppID") /\ c.tenant <= 0 =>
             request.tenant = "0" \/ Claims(request.auth)[2] = 0
        /\ Has("BodyLimit") /\ Limits => handled[2] <= MaxBytes
        /\ Has("RequireRoles") => c.role = "owner"
    /\ Ended =>
        /\ panicking \/ status > 0
        /\ Before("AccessLog", "Recovery") /\ ~request.skipped => requests = <<status>>
        /\ status = 200 => handled # <<>> /\ handled[2] = request.body
=============================================================================
