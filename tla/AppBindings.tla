---------------------------- MODULE AppBindings -----------------------------
(***************************************************************************)
(* src/tenantpay: which tenant a mini-program belongs to, kept in two      *)
(* tables: tenant_wechat_apps, one row for an appid, and                   *)
(* tenant_wechat_configs, one row for a tenant.                            *)
(*                                                                         *)
(* A save is a transaction that reads the rows it is about and writes them *)
(* back whole.  What it read is what was committed when it began; it waits *)
(* for the row locks of others, so that the writes of one follow those of  *)
(* the other.  A secret is the number of the save that gave it.            *)
(***************************************************************************)
EXTENDS Naturals, FiniteSets

CONSTANTS
    Owners, Apps, NoApp,    \* tenants, appids
    Binders,                \* concurrent saves
    MaxBinds                \* bound: saves

ASSUME NoAppAssumption == NoApp \notin Apps
ASSUME OwnersAssumption == "nobody" \notin Owners
ASSUME BindsAssumption == MaxBinds \in Nat

VARIABLES
    app,        \* app[a]: the row of an appid
    wechat,     \* wechat[t]: the row of a tenant
    binder,     \* binder[b]: a save in progress
    begun,      \* how many saves began
    newest,     \* newest[a]: the last secret saved for an appid (history)
    writes,     \* writes[a]: how often the row of an appid was written (history)
    torn,       \* appids a save wrote back as they were before another (history)
    apart       \* pairs the tables were written apart for (history)

bindVars == <<app, wechat, binder, begun, newest, writes, torn, apart>>

NoOwner == "nobody"
NoSecret == 0
NotBinding == [tables |-> {}]

\* A row nobody owns, or of no appid, is not there.
TenantWechatApp == [tenant : Owners \cup {NoOwner}, secret : 0..MaxBinds, enabled : BOOLEAN]
TenantWechatConfig == [app : Apps \cup {NoApp}, secret : 0..MaxBinds, enabled : BOOLEAN]

Tables == {{"app"}, {"config"}, {"app", "config"}}
Binding ==
    [tables : Tables, tenant : Owners, appid : Apps, given : 0..MaxBinds, enabled : BOOLEAN,
     app : TenantWechatApp, config : TenantWechatConfig, seen : Nat]

BindTypeOK ==
    /\ app \in [Apps -> TenantWechatApp] /\ wechat \in [Owners -> TenantWechatConfig]
    /\ binder \in [Binders -> {NotBinding} \cup Binding]
    /\ begun \in 0..MaxBinds
    /\ newest \in [Apps -> 0..MaxBinds] /\ writes \in [Apps -> Nat]
    /\ torn \subseteq Apps

NoRow == [tenant |-> NoOwner, secret |-> NoSecret, enabled |-> FALSE]
NoConfig == [app |-> NoApp, secret |-> NoSecret, enabled |-> FALSE]

\* Nothing is bound, or an appid in both tables.
BindInit ==
    /\ \E bound \in Apps \cup {NoApp}, t0 \in Owners :
         /\ app = [a \in Apps |-> IF a = bound THEN [NoRow EXCEPT !.tenant = t0, !.enabled = TRUE]
                                  ELSE NoRow]
         /\ wechat = [t \in Owners |-> IF t = t0 /\ bound # NoApp
                                       THEN [NoConfig EXCEPT !.app = bound, !.enabled = TRUE]
                                       ELSE NoConfig]
    /\ binder = [b \in Binders |-> NotBinding] /\ begun = 0
    /\ newest = [a \in Apps |-> NoSecret] /\ writes = [a \in Apps |-> 0]
    /\ torn = {} /\ apart = {}

\* A blank secret keeps the old one.
Kept(old, given) == IF given = NoSecret THEN old ELSE given

BindRead(b, tables, t, a, given, on) ==
    /\ binder[b] = NotBinding
    /\ begun < MaxBinds
    /\ begun' = begun + 1
    /\ binder' = [binder EXCEPT ![b] =
           [tables |-> tables, tenant |-> t, appid |-> a,
            given |-> IF given THEN begun + 1 ELSE NoSecret, enabled |-> on,
            app |-> app[a], config |-> wechat[t], seen |-> writes[a]]]
    /\ UNCHANGED <<app, wechat, newest, writes, torn, apart>>

\* Store.SaveWechatBinding, which the routes call: both tables.
SaveWechatBinding(b, t, a, given, on) == BindRead(b, {"app", "config"}, t, a, given, on)

\* Store.SaveWechatApp: the appid's row alone.
SaveWechatApp(b, t, a, given, on) == BindRead(b, {"app"}, t, a, given, on)

\* SaveWechatConfig: the tenant's row alone.
SaveWechatConfig(b, t, a, given, on) == BindRead(b, {"config"}, t, a, given, on)

\* A row found absent is created; the unique index allows one.
MayWrite(x) ==
    /\ "app" \in x.tables /\ x.app.tenant = NoOwner => app[x.appid].tenant = NoOwner
    /\ "config" \in x.tables /\ x.config.app = NoApp => wechat[x.tenant].app = NoApp

WriteRows(x) ==
    /\ app' = IF "app" \in x.tables
              THEN [app EXCEPT ![x.appid] = [tenant |-> x.tenant, enabled |-> x.enabled,
                                             secret |-> Kept(x.app.secret, x.given)]]
              ELSE app
    /\ wechat' = IF "config" \in x.tables
                 THEN [wechat EXCEPT ![x.tenant] = [app |-> x.appid, enabled |-> x.enabled,
                                                    secret |-> Kept(x.config.secret, x.given)]]
                 ELSE wechat

\* What the histories make of a save: which secret is the newest, whether one
\* given meanwhile was written over, and for whom the tables now differ: who
\* the appid was taken from, what the tenant had before, and where one table
\* was saved without the other.
Remember(x) ==
    LET a == x.appid
        before == {<<app[a].tenant, a>> : i \in x.tables \ {"config"}}
                  \cup {<<x.tenant, wechat[x.tenant].app>> : i \in x.tables \ {"app"}}
    IN  /\ IF "app" \in x.tables
           THEN /\ writes' = [writes EXCEPT ![a] = @ + 1]
                /\ newest' = [newest EXCEPT ![a] = Kept(@, x.given)]
                /\ torn' = IF x.given # NoSecret THEN torn \ {a}
                           ELSE IF x.seen # writes[a] THEN torn \cup {a}
                           ELSE torn
           ELSE UNCHANGED <<writes, newest, torn>>
        /\ apart' = IF x.tables = {"app", "config"}
                    THEN (apart \cup before) \ {<<x.tenant, a>>}
                    ELSE apart \cup before \cup {<<x.tenant, a>>}

BindCommit(b) ==
    /\ binder[b] # NotBinding
    /\ MayWrite(binder[b])
    /\ WriteRows(binder[b]) /\ Remember(binder[b])
    /\ binder' = [binder EXCEPT ![b] = NotBinding]
    /\ UNCHANGED begun

\* The unique index, the database or the process: all of it is rolled back.
BindFails(b) ==
    /\ binder[b] # NotBinding
    /\ binder' = [binder EXCEPT ![b] = NotBinding]
    /\ UNCHANGED <<app, wechat, begun, newest, writes, torn, apart>>

FindTenantIDByAppID(a) == IF app[a].enabled THEN app[a].tenant ELSE NoOwner
FindEnabledWechatConfigByAppID(a) == {t \in Owners : wechat[t].app = a /\ wechat[t].enabled}

\* WechatAppForLogin: whose login an appid is, and with which secret.
WechatAppForLogin(a) ==
    [tenant |-> FindTenantIDByAppID(a),
     secret |-> IF app[a].enabled THEN app[a].secret ELSE NoSecret]

BindNext ==
    \E b \in Binders :
        \/ \E t \in Owners, a \in Apps, given, on \in BOOLEAN :
              \/ SaveWechatBinding(b, t, a, given, on)
              \/ SaveWechatApp(b, t, a, given, on)
              \/ SaveWechatConfig(b, t, a, given, on)
        \/ BindCommit(b) \/ BindFails(b)

-----------------------------------------------------------------------------
\* However saves interleave, the two tables name the same tenant for an appid,
\* except one it was taken from since, one that took another appid since, and
\* where one table was saved alone.  Login uses the last secret saved, unless
\* a save that gave none overlapped another of the same appid.
BindingsMeet ==
    \A a \in Apps :
        /\ \A t \in Owners : <<t, a>> \notin apart =>
              (t \in FindEnabledWechatConfigByAppID(a) <=> FindTenantIDByAppID(a) = t)
        /\ a \notin torn /\ app[a].enabled => WechatAppForLogin(a).secret = newest[a]
=============================================================================
