-------------------------------- MODULE Guards --------------------------------
(***************************************************************************)
(* src/middleware and src/org: who is a member of an organisation, the     *)
(* request guard that remembers it, the cache of appids, and the rate      *)
(* limiter with its fallback.  The caches forget by time alone.            *)
(***************************************************************************)
EXTENDS Naturals, FiniteSetsExt

CONSTANTS
    Members,        \* pairs of an organisation and a user
    Guards,         \* requests running at one time
    AppIds, Owners, \* mini-programs; the tenants that may own them, 0 for none
    Instances,      \* processes that share the Redis of the limiter
    MemberTtl, NegativeTtl, AppTtl,     \* NegativeTtl is ttl / 6
    RateWindow, Limit,
    TranslatesErrors,   \* gorm reports duplicate keys as ErrDuplicatedKey
    MaxClock, MaxRequests   \* bounds

ASSUME GuardsAssumption ==
    /\ {MemberTtl, AppTtl, RateWindow, Limit} \subseteq Nat \ {0}
    /\ NegativeTtl \in Nat /\ TranslatesErrors \in BOOLEAN
    /\ 0 \notin Instances /\ 0 \notin AppIds /\ MaxClock \in Nat \ {0}

VARIABLES
    member,     \* member[m]: the row of org_members
    guard,      \* guard[g]: an EnsureMember or a request in progress
    items,      \* items[m]: when the cached decision expires, and (kept for
                \* the properties) the decision, and whether it was late
    changed,    \* changed[m]: when the membership last changed
    owner,      \* owner[a]: what the host's resolver answers
    known,      \* known[a]: the cached answer
    ownerAt,    \* ownerAt[a]: when it last changed
    lookup,     \* lookup[g]: an answer about to be cached
    counter,    \* the key in Redis: count and expiry, 0 for none
    expiring,   \* instances that have yet to send EXPIRE
    windows,    \* windows[i]: the window of an instance
    passed,     \* passed[s][t]: requests let through by Redis (0) or instance s
    time

memberVars == <<member, guard, items, changed>>
appVars == <<owner, known, ownerAt, lookup>>
rateVars == <<counter, expiring, windows, passed>>
guardVars == <<memberVars, appVars, rateVars, time>>

NoRow == [role |-> "", on |-> FALSE, found |-> FALSE]
Rest == [at |-> "rest", m |-> 0, row |-> NoRow, role |-> "", late |-> FALSE]
NoItem == [until |-> 0, allowed |-> FALSE, late |-> FALSE]

GuardInit ==
    /\ member = [m \in Members |-> NoRow] /\ guard = [g \in Guards |-> Rest]
    /\ items = [m \in Members |-> NoItem] /\ changed = [m \in Members |-> 0]
    /\ owner = [a \in AppIds |-> 0] /\ ownerAt = [a \in AppIds |-> 0]
    /\ known = [a \in AppIds |-> [tenant |-> 0, until |-> 0, late |-> FALSE]]
    /\ lookup = [g \in Guards |-> [app |-> 0, tenant |-> 0, late |-> FALSE]]
    /\ counter = [count |-> 0, until |-> 0] /\ expiring = {}
    /\ windows = [i \in Instances |-> [start |-> 0, count |-> 0]]
    /\ passed = [s \in Instances \cup {0} |-> [t \in 1..MaxClock |-> 0]]
    /\ time = 1

IsMember(m) == member[m].on /\ member[m].role # ""

\* Mutant: both answers are cached for the same time.
OneTtl(allowed) == MemberTtl
Ttl(allowed) == IF allowed THEN MemberTtl ELSE NegativeTtl

Tick1 == time < MaxClock /\ time' = time + 1

\* A change of membership: requests in progress may have read the old row.
Write(m, row) ==
    /\ member' = [member EXCEPT ![m] = row]
    /\ changed' = [changed EXCEPT ![m] = time]
Outdated(m) == [g \in Guards |-> IF guard[g].at = "cache" /\ guard[g].m = m
                                 THEN [guard[g] EXCEPT !.late = TRUE] ELSE guard[g]]

-----------------------------------------------------------------------------
\* EnsureMember finds the row,
EnsureMember(g, m, role) ==
    /\ guard[g].at = "rest"
    /\ guard' = [guard EXCEPT ![g] = [Rest EXCEPT !.at = "ensure", !.m = m, !.role = role,
                                                  !.row = member[m]]]
    /\ UNCHANGED <<member, items, changed>>

\* and leaves a row that is disabled, or has the role, as it is; saves every
\* column of its copy with the new role; or inserts, and reads again when
\* another insertion was first and the error says so.
EnsureWrite1(g) ==
    LET r == guard[g] IN
    /\ r.at = "ensure"
    /\ CASE r.row.found /\ (~r.row.on \/ r.row.role = r.role) ->
              guard' = [guard EXCEPT ![g] = Rest] /\ UNCHANGED <<member, changed>>
         [] r.row.found /\ r.row.on /\ r.row.role # r.role ->
              /\ Write(r.m, [r.row EXCEPT !.role = r.role])
              /\ guard' = [Outdated(r.m) EXCEPT ![g] = Rest]
         [] ~r.row.found /\ ~member[r.m].found ->
              /\ Write(r.m, [role |-> r.role, on |-> TRUE, found |-> TRUE])
              /\ guard' = [Outdated(r.m) EXCEPT ![g] = Rest]
         [] ~r.row.found /\ member[r.m].found ->
              /\ guard' = [guard EXCEPT ![g] = IF TranslatesErrors
                             THEN [r EXCEPT !.row = member[r.m]] ELSE Rest]
              /\ UNCHANGED <<member, changed>>
    /\ UNCHANGED items

\* The host disables or enables a member: the row's status alone.
SetStatus(m, on) ==
    /\ member[m].found /\ member[m].on # on
    /\ Write(m, [member[m] EXCEPT !.on = on])
    /\ guard' = Outdated(m)
    /\ UNCHANGED items

\* memberCache.get: an unexpired item is a hit, and every hit allows.
CacheGet(m) == [hit |-> time <= items[m].until, allowed |-> time <= items[m].until]

\* RequireTenantMember, for a logged-in user with a tenant: a hit decides
\* (which changes nothing); a miss asks the database,
MemberAllowed(g, m) ==
    /\ guard[g].at = "rest" /\ ~CacheGet(m).hit
    /\ guard' = [guard EXCEPT ![g] = [Rest EXCEPT !.at = "cache", !.m = m, !.row = member[m],
                                        !.role = IF IsMember(m) THEN "yes" ELSE "no"]]
    /\ UNCHANGED <<member, items, changed>>

\* and caches either answer, a refusal for a sixth of the time.
CacheSet(g) ==
    LET allowed == guard[g].role = "yes" IN
    /\ guard[g].at = "cache"
    /\ items' = [items EXCEPT ![guard[g].m] =
            [until |-> time + Ttl(allowed), allowed |-> allowed, late |-> guard[g].late]]
    /\ guard' = [guard EXCEPT ![g] = Rest]
    /\ UNCHANGED <<member, changed>>

MemberNext ==
    \/ Tick1 /\ UNCHANGED memberVars
    \/ /\ UNCHANGED time
       /\ \/ \E g \in Guards :
              \/ EnsureWrite1(g) \/ CacheSet(g)
              \/ \E m \in Members :
                   MemberAllowed(g, m) \/ \E r \in {"owner", "staff"} : EnsureMember(g, m, r)
          \/ \E m \in Members, on \in BOOLEAN : SetStatus(m, on)

-----------------------------------------------------------------------------
\* The host binds a mini-program to a tenant.
BindApp(a, t) ==
    /\ owner[a] # t
    /\ owner' = [owner EXCEPT ![a] = t] /\ ownerAt' = [ownerAt EXCEPT ![a] = time]
    /\ lookup' = [g \in Guards |-> IF lookup[g].app = a THEN [lookup[g] EXCEPT !.late = TRUE]
                                   ELSE lookup[g]]
    /\ UNCHANGED known

\* CachedAppIDResolver: an expired or missing answer is looked up without the
\* lock, and cached, found or not.
Resolve1(g, a) ==
    /\ lookup[g].app = 0 /\ time >= known[a].until
    /\ lookup' = [lookup EXCEPT ![g] = [app |-> a, tenant |-> owner[a], late |-> FALSE]]
    /\ UNCHANGED <<owner, known, ownerAt>>
CacheApp(g) ==
    /\ lookup[g].app # 0
    /\ known' = [known EXCEPT ![lookup[g].app] = [tenant |-> lookup[g].tenant,
                                until |-> time + AppTtl, late |-> lookup[g].late]]
    /\ lookup' = [lookup EXCEPT ![g] = [app |-> 0, tenant |-> 0, late |-> FALSE]]
    /\ UNCHANGED <<owner, ownerAt>>

AppNext ==
    \/ Tick1 /\ UNCHANGED appVars
    \/ /\ UNCHANGED time
       /\ \/ \E g \in Guards : CacheApp(g) \/ \E a \in AppIds : Resolve1(g, a)
          \/ \E a \in AppIds, t \in Owners : BindApp(a, t)

-----------------------------------------------------------------------------
Live == counter.until = 0 \/ time < counter.until
Count == IF Live THEN counter.count ELSE 0
Let(s) == passed' = [passed EXCEPT ![s][time] = @ + 1]
Bounded == \A s \in DOMAIN passed : passed[s][time] < MaxRequests

\* fixedWindowLimiter.allow: the fallback counts within the process.
Fallback(i) ==
    LET w == windows[i] IN
    IF w.start = 0 \/ time - w.start >= RateWindow
    THEN windows' = [windows EXCEPT ![i] = [start |-> time, count |-> 1]] /\ Let(i)
    ELSE IF w.count >= Limit THEN UNCHANGED <<windows, passed>>
    ELSE windows' = [windows EXCEPT ![i].count = @ + 1] /\ Let(i)

\* RateLimit: INCR, which makes a key that does not expire, and EXPIRE by
\* whoever counted one.  Beyond Limit + 1 the count no longer matters.
RateLimit(i) ==
    /\ Bounded /\ i \notin expiring
    /\ counter' = [count |-> IF Count > Limit THEN Count ELSE Count + 1,
                   until |-> IF Live THEN counter.until ELSE 0]
    /\ IF Count = 0 THEN expiring' = expiring \cup {i} /\ UNCHANGED passed
       ELSE UNCHANGED expiring /\ IF Count < Limit THEN Let(0) ELSE UNCHANGED passed
    /\ UNCHANGED windows

Expire(i) ==
    /\ i \in expiring /\ expiring' = expiring \ {i}
    /\ counter' = [counter EXCEPT !.until = time + RateWindow]
    /\ Let(0) /\ UNCHANGED windows

\* INCR or EXPIRE fails: the fallback decides, and a key without EXPIRE stays.
RedisFails(i) ==
    /\ Bounded
    /\ expiring' = expiring \ {i}
    /\ Fallback(i) /\ UNCHANGED counter

RateNext ==
    \/ Tick1 /\ UNCHANGED rateVars
    \/ UNCHANGED time /\ \E i \in Instances : RateLimit(i) \/ Expire(i) \/ RedisFails(i)

-----------------------------------------------------------------------------
\* A decision or an appid that is out of date was cached before the change and
\* lasts no longer than its time to live, unless it was read before the change
\* and cached after it; a refusal lasts shorter (middleware/tenant_member.go:111).
StaleAnswersEnd ==
    /\ \A m \in Members : items[m].allowed # IsMember(m) /\ ~items[m].late
         => items[m].until <= changed[m] + (IF items[m].allowed THEN MemberTtl ELSE NegativeTtl)
    /\ \A a \in AppIds : known[a].tenant # owner[a] /\ ~known[a].late
         => known[a].until <= ownerAt[a] + AppTtl

\* Redis, and every process that falls back, lets less than twice the limit
\* through in any time as long as a window (middleware/rate_limit.go:70).
WindowsAreBounded ==
    \A s \in DOMAIN passed, t \in 1..MaxClock :
        MapThenSumSet(LAMBDA u : passed[s][u], {u \in t..MaxClock : u < t + RateWindow})
            < 2 * Limit

GuardsHold == StaleAnswersEnd /\ WindowsAreBounded

\* A cached refusal refuses (middleware/tenant_member.go:111: both results are
\* cached); the cache keeps only the expiry.
RefusalsAreKept == \A m \in Members : CacheGet(m).hit => CacheGet(m).allowed = items[m].allowed
=============================================================================
