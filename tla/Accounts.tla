------------------------------- MODULE Accounts -------------------------------
(***************************************************************************)
(* src/identity: registration, logins by password, SMS code and WeChat,    *)
(* the mini-program flow up to the session, and the default administrator. *)
(* Neither users.phone, users.username nor user_oauths.open_id is unique:  *)
(* an account is looked up and created in separate statements.             *)
(***************************************************************************)
EXTENDS Naturals, Sequences, FiniteSets

CONSTANTS
    Workers,        \* requests running at one time
    Phones, Opens,  \* phone numbers; openids
    UnionOf(_),     \* the unionid WeChat gives with an openid, or ""
    Creds,          \* what the host's credential source answers: see Exchange
    SavesPhone,     \* a WechatPhoneNotifier is injected
    SelfIssues,     \* a MiniAppSessionIssuer is injected
    MaxLogins       \* bound: requests in all

ASSUME AccountsAssumption ==
    /\ {SavesPhone, SelfIssues} \subseteq BOOLEAN
    /\ IsFiniteSet(Workers) /\ "" \notin Phones /\ MaxLogins \in Nat

VARIABLES
    users,      \* users: the rows of users, by id
    oauths,     \* oauths: the rows of user_oauths, by id
    req,        \* req[w]: the request of a worker and where it is
    issued,     \* sessions issued: account, openid, what was presented
    replaced,   \* phones of accounts that another was written over (history)
    logins      \* requests started

accountVars == <<users, oauths, req, issued, replaced, logins>>

User(name, phone, pw) == [name |-> name, phone |-> phone, pw |-> pw, on |-> TRUE]
UserOAuth(u, open, union) == [user |-> u, open |-> open, union |-> union]

\* on, blank: what the copy of the account shows that the lookup returned, its
\* status and that it has no phone.
Idle == [at |-> "idle", how |-> "", open |-> "", phone |-> "", user |-> 0, on |-> FALSE,
         blank |-> FALSE]
Places == {"idle", "phone", "open", "union", "create", "bind", "phoneOf", "issue", "admin"}

\* The names that are registered and the passwords that are set here.
Names == {"admin", "ann"}
Passwords == {"good1", "good2", "secret"}
Openids == Opens \cup {"dev"}

AccountTypeOK ==
    /\ users \in Seq([name : Names \cup {""}, phone : Phones \cup {""},
                      pw : Passwords \cup {""}, on : BOOLEAN])
    /\ oauths \in Seq([user : DOMAIN users, open : Openids,
                       union : {UnionOf(o) : o \in Openids}])
    /\ \A w \in Workers : req[w].at \in Places /\ req[w].user \in 0..Len(users)
    /\ replaced \subseteq (DOMAIN users) \X Phones
    /\ logins \in 0..MaxLogins

AccountInit ==
    /\ users = <<>> /\ oauths = <<>> /\ issued = {} /\ replaced = {} /\ logins = 0
    /\ req = [w \in Workers |-> Idle]

\* gorm's First: the row of the lowest id, or 0 for ErrRecordNotFound.
FirstOf(ids) == IF ids = {} THEN 0 ELSE CHOOSE i \in ids : \A j \in ids : i <= j

ByAccount(a) == FirstOf({i \in DOMAIN users : a # "" /\ a \in {users[i].name, users[i].phone}})
ByPhone(p)   == FirstOf({i \in DOMAIN users : users[i].phone = p})
ByOpen(o)    == FirstOf({i \in DOMAIN oauths : oauths[i].open = o})
ByUnion(n)   == FirstOf({i \in DOMAIN oauths : oauths[i].union = n})

\* Mutant: the latest binding, of whichever account.
LatestOfAll(u) == IF oauths = <<>> THEN "" ELSE oauths[Len(oauths)].open

LatestOpenID(u) ==
    LET S == {i \in DOMAIN oauths : oauths[i].user = u}
    IN IF S = {} THEN "" ELSE oauths[CHOOSE i \in S : \A j \in S : j <= i].open

Go(w, r) == req' = [req EXCEPT ![w] = r]
Ends(w) == Go(w, Idle)
Copied(w, u, next) ==
    Go(w, [req[w] EXCEPT !.at = next, !.user = u, !.on = users[u].on,
                         !.blank = (users[u].phone = "")])
Found(w, u, next) == IF users[u].on THEN Copied(w, u, next) ELSE Ends(w)

Starts(w, r) == /\ req[w].at = "idle"
                /\ logins < MaxLogins
                /\ logins' = logins + 1
                /\ Go(w, r)

\* RegisterPassword: passwords shorter than six are refused; nothing asks
\* whether the name is taken.
RegisterPassword(w, name, pw) ==
    /\ Starts(w, Idle)
    /\ users' = IF pw = "weak" THEN users ELSE Append(users, User(name, "", pw))
    /\ UNCHANGED <<oauths, issued, replaced>>

\* PasswordLogin: the first account with that name or phone.
PasswordLogin(w, a, pw) ==
    LET u == ByAccount(a) IN
    /\ IF u # 0 /\ users[u].on /\ users[u].pw = pw
       THEN Starts(w, [Idle EXCEPT !.at = "issue", !.how = "password", !.phone = a, !.user = u])
       ELSE Starts(w, Idle)
    /\ UNCHANGED <<users, oauths, issued, replaced>>

\* SMSCodeLogin, after the code has been verified.
SMSCodeLogin(w, p) ==
    /\ Starts(w, [Idle EXCEPT !.at = "phone", !.how = "sms", !.phone = p])
    /\ UNCHANGED <<users, oauths, issued, replaced>>

\* The code is exchanged: a usable client asks WeChat, an unusable one
\* accepts a development code, which names an openid of its own.
Exchange(cred, code) ==
    CASE cred = "error"                         -> "error"
      [] cred = "unbound" /\ code # "dev"       -> "error"
      [] cred \in {"unbound", "no secret"}      -> IF code = "dev" THEN "dev" ELSE "error"
      [] OTHER                                  -> IF code = "dev" THEN "error" ELSE code

\* MiniAppFlow.Login to the end of the exchange; with a phone code the login
\* needs a usable client, and a host that issues its own sessions refuses it.
MiniAppLogin(w, cred, code, p) ==
    LET open == IF p # "" /\ (SelfIssues \/ cred # "ready") THEN "error"
                ELSE Exchange(cred, code) IN
    /\ IF open = "error"
       THEN Starts(w, Idle) /\ UNCHANGED issued
       ELSE IF SelfIssues
       THEN /\ Starts(w, Idle)
            /\ issued' = issued \cup {[user |-> 0, open |-> open, shown |-> open]}
       ELSE /\ Starts(w, [Idle EXCEPT !.at = "open", !.how = "wechat", !.open = open,
                                   !.phone = p])
            /\ UNCHANGED issued
    /\ UNCHANGED <<users, oauths, replaced>>

\* findOrCreateByPhone and the three lookups of findOrCreateByWechat.
LookUpPhone(w) ==
    LET u == ByPhone(req[w].phone) IN
    /\ req[w].at = "phone"
    /\ IF u # 0 THEN Found(w, u, "issue") ELSE Go(w, [req[w] EXCEPT !.at = "create"])
    /\ UNCHANGED <<users, oauths, issued, replaced, logins>>

LookUpOpen(w) ==
    LET b == ByOpen(req[w].open) IN
    /\ req[w].at = "open"
    /\ IF b # 0 THEN Found(w, oauths[b].user, "phoneOf")
       ELSE LET next == IF UnionOf(req[w].open) # "" THEN "union" ELSE "create"
            IN  Go(w, [req[w] EXCEPT !.at = next])
    /\ UNCHANGED <<users, oauths, issued, replaced, logins>>

LookUpUnion(w) ==
    LET b == ByUnion(UnionOf(req[w].open)) IN
    /\ req[w].at = "union"
    /\ IF b = 0 THEN Go(w, [req[w] EXCEPT !.at = "create"]) ELSE Copied(w, oauths[b].user, "bind")
    /\ UNCHANGED <<users, oauths, issued, replaced, logins>>

\* The new openid is bound even when the account turns out to be disabled.
Bind(w) ==
    /\ req[w].at = "bind"
    /\ oauths' = Append(oauths, UserOAuth(req[w].user, req[w].open, UnionOf(req[w].open)))
    /\ IF req[w].on THEN Go(w, [req[w] EXCEPT !.at = "phoneOf"]) ELSE Ends(w)
    /\ UNCHANGED <<users, issued, replaced, logins>>

\* register: the account, its binding and the host's hook in one transaction,
\* which the hook may refuse.
Register(w) ==
    LET r == req[w]
        u == Len(users) + 1 IN
    /\ r.at = "create"
    /\ \/ Ends(w) /\ UNCHANGED <<users, oauths>>
       \/ /\ users' = Append(users, User("", IF r.how = "sms" THEN r.phone ELSE "", ""))
          /\ oauths' = IF r.how = "sms" THEN oauths
                       ELSE Append(oauths, UserOAuth(u, r.open, UnionOf(r.open)))
          /\ Go(w, [r EXCEPT !.at = IF r.how = "sms" THEN "issue" ELSE "phoneOf", !.user = u,
                             !.blank = (r.how # "sms")])
    /\ UNCHANGED <<issued, replaced, logins>>

\* WechatPhoneLogin: the phone is stored when the copy that was looked up shows
\* none, whatever the row shows by now; nobody asks whether another account has
\* it.
BindPhone(w) ==
    LET r == req[w]
        old == users[r.user].phone
        writes == r.phone # "" /\ r.blank /\ SavesPhone
    IN  /\ r.at = "phoneOf"
        /\ users' = IF writes THEN [users EXCEPT ![r.user].phone = r.phone] ELSE users
        /\ replaced' = IF writes /\ old # "" THEN replaced \cup {<<r.user, old>>} ELSE replaced
        /\ Go(w, [r EXCEPT !.at = "issue"])
        /\ UNCHANGED <<oauths, issued, logins>>

\* The openid of the session is the account's latest, whichever was shown;
\* the host's customizer or role resolver, or the store, may refuse.
Issue(w) ==
    LET r == req[w] IN
    /\ r.at = "issue"
    /\ \/ UNCHANGED issued
       \/ issued' = issued \cup {[user |-> r.user, open |-> LatestOpenID(r.user),
                                  shown |-> IF r.how = "wechat" THEN r.open ELSE r.phone]}
    /\ Ends(w)
    /\ UNCHANGED <<users, oauths, replaced, logins>>

\* EnsureSuperAdmin finds the configured account, and then creates it or
\* overwrites its password and status.
EnsureFind(w) ==
    LET u == FirstOf({i \in DOMAIN users : users[i].name = "admin"}) IN
    /\ Starts(w, [Idle EXCEPT !.at = "admin", !.how = "admin", !.user = u])
    /\ UNCHANGED <<users, oauths, issued, replaced>>

EnsureWrite(w) ==
    LET u == req[w].user IN
    /\ req[w].at = "admin"
    /\ users' = IF u = 0 THEN Append(users, User("admin", "", "secret"))
                ELSE [users EXCEPT ![u].pw = "secret", ![u].on = TRUE]
    /\ Ends(w)
    /\ UNCHANGED <<oauths, issued, replaced, logins>>

\* The host disables an account, or somebody changes a password.
Disable(u) == /\ users[u].on
              /\ users' = [users EXCEPT ![u].on = FALSE]
              /\ UNCHANGED <<oauths, req, issued, replaced, logins>>
ChangePassword(u, old, pw) == /\ users[u].pw = old /\ pw # "weak"
                              /\ users' = [users EXCEPT ![u].pw = pw]
                              /\ UNCHANGED <<oauths, req, issued, replaced, logins>>

AccountNext ==
    \/ \E w \in Workers :
        \/ \E name \in Names, pw \in {"weak", "good1"} : RegisterPassword(w, name, pw)
        \/ PasswordLogin(w, "admin", "secret") \/ PasswordLogin(w, "ann", "good1")
        \/ \E p \in Phones : SMSCodeLogin(w, p)
        \/ \E c \in Creds, o \in Openids, p \in Phones \cup {""} :
              MiniAppLogin(w, c, o, p)
        \/ LookUpPhone(w) \/ LookUpOpen(w) \/ LookUpUnion(w) \/ Bind(w)
        \/ Register(w) \/ BindPhone(w) \/ Issue(w)
        \/ EnsureFind(w) \/ EnsureWrite(w)
    \/ \E u \in DOMAIN users :
        Disable(u) \/ ChangePassword(u, "good1", "good2") \/ ChangePassword(u, "good2", "good1")

AccountSpec == AccountInit /\ [][AccountNext]_accountVars

-----------------------------------------------------------------------------
\* Accounts of one phone that logins made, and of one openid or unionid, come
\* from logins that ran at one time: never more than there are workers
\* (src/identity/login.go:169, 241).
DuplicatesAreBounded ==
    /\ \A o \in Opens : Cardinality({oauths[i].user : i \in {j \in DOMAIN oauths :
                                        oauths[j].open = o}}) <= Cardinality(Workers)
    /\ \A n \in {UnionOf(o) : o \in Opens} \ {""} :
         Cardinality({oauths[i].user : i \in {j \in DOMAIN oauths : oauths[j].union = n}})
             <= Cardinality(Workers)
    /\ \A p \in Phones :
         Cardinality({u \in DOMAIN users : users[u].phone = p
                        /\ \A i \in DOMAIN oauths : oauths[i].user # u}) <= Cardinality(Workers)

\* A session is for an account of the identity that was shown, unless its phone
\* was written over since by a login that had found the account without one
\* (src/identity/login.go:231); the openid it carries is one of that account's,
\* and every account can be found again by something (src/identity/minapp.go:168).
SessionsMatch ==
    /\ \A s \in {x \in issued : x.user # 0} :
        /\ \/ s.shown \in {users[s.user].phone, users[s.user].name}
           \/ <<s.user, s.shown>> \in replaced
           \/ \E i \in DOMAIN oauths : oauths[i].user = s.user /\ oauths[i].open = s.shown
        /\ \/ s.open = ""
           \/ \E i \in DOMAIN oauths : oauths[i].user = s.user /\ oauths[i].open = s.open
    /\ \A u \in DOMAIN users :
        \/ users[u].name # "" \/ users[u].phone # ""
        \/ \E i \in DOMAIN oauths : oauths[i].user = u

AccountsHold == DuplicatesAreBounded /\ SessionsMatch
=============================================================================
