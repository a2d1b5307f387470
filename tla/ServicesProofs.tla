--------------------------- MODULE ServicesProofs ---------------------------
(***************************************************************************)
(* Who somebody is, for any number of processes, people and requests: an   *)
(* account is found again and belongs to what was shown; what the guards   *)
(* remember is no older than they promise, and the limiter lets no more    *)
(* through than it says; and a request is handled for the identity, tenant *)
(* and role that its chain of filters has established.  And what runs      *)
(* beside the requests: no stream is offered an event after it is closed,  *)
(* the dispatcher's loop and the records of model calls account for all.   *)
(***************************************************************************)
EXTENDS MCServices, SumTheorems, FiniteSetTheorems, FunctionTheorems, SequenceTheorems

-----------------------------------------------------------------------------
(* Registration and login *)

UserRow == [name : Names \cup {""}, phone : Phones \cup {""}, pw : Passwords \cup {""},
            on : BOOLEAN]
OptPhones == Phones \cup {""}
UserOAuthRow == [user : Nat, open : Openids, union : {UnionOf(o) : o \in Openids}]
Request ==
    [at : Places, how : {"", "password", "sms", "wechat", "admin"}, open : Openids \cup {""},
     phone : Phones \cup Names \cup {""}, user : Nat, on : BOOLEAN, blank : BOOLEAN]

AccountsTyped ==
    /\ users \in Seq(UserRow) /\ oauths \in Seq(UserOAuthRow) /\ logins \in 0..MaxLogins
    /\ req \in [Workers -> Request]

\* What finds an account, or did before it was written over.
Shows(u, p) ==
    p # "" /\ (p \in {users[u].phone, users[u].name} \/ <<u, p>> \in replaced)

\* Where a request is, and what it found on the way there.
RequestOK(w) ==
    LET r == req[w]
    IN  /\ r.user \in 0..Len(users)
        /\ r.at = "phone" => r.how = "sms"
        /\ r.at \in {"open", "union", "bind", "phoneOf"} => r.how = "wechat"
        /\ r.at = "create" => r.how \in {"sms", "wechat"}
        /\ r.at = "issue" => r.how \in {"password", "sms", "wechat"}
        /\ r.how = "sms" => r.phone \in Phones
        /\ r.how = "wechat" => r.open \in Openids /\ r.phone \in OptPhones
        /\ r.at \in {"union", "bind"} => UnionOf(r.open) # ""
        /\ r.at = "bind" => \E i \in DOMAIN oauths : /\ oauths[i].user = r.user
                                                     /\ oauths[i].union = UnionOf(r.open)
        /\ r.at \in {"phoneOf", "issue"} => r.user # 0
        /\ r.at \in {"phoneOf", "issue"} /\ r.how = "wechat" =>
              \E i \in DOMAIN oauths : oauths[i].user = r.user /\ oauths[i].open = r.open
        /\ r.at = "issue" /\ r.how \in {"password", "sms"} =>
              Shows(r.user, r.phone)

\* Every account can be found again, every binding is of an account.
RowsOK ==
    /\ replaced \subseteq (DOMAIN users) \X Phones
    /\ \A i \in DOMAIN oauths : oauths[i].user \in DOMAIN users
    /\ \A u \in DOMAIN users : \/ users[u].name # "" \/ users[u].phone # ""
                               \/ \E i \in DOMAIN oauths : oauths[i].user = u

SessionOK(s) ==
    s.user # 0 =>
        /\ s.user \in DOMAIN users
        /\ \/ Shows(s.user, s.shown)
           \/ \E i \in DOMAIN oauths : oauths[i].user = s.user /\ oauths[i].open = s.shown
        /\ \/ s.open = ""
           \/ \E i \in DOMAIN oauths : oauths[i].user = s.user /\ oauths[i].open = s.open

\* The accounts of an openid, a unionid and a phone, and the requests that have
\* seen none and may make one.
OfOpen(o)  == {oauths[i].user : i \in {j \in DOMAIN oauths : oauths[j].open = o}}
OfUnion(n) == {oauths[i].user : i \in {j \in DOMAIN oauths : oauths[j].union = n}}
OfPhone(p) == {u \in DOMAIN users : users[u].phone = p
                                    /\ \A i \in DOMAIN oauths : oauths[i].user # u}
ForOpen(o)  == {w \in Workers : req[w].at \in {"union", "create", "bind"}
                                /\ req[w].how = "wechat" /\ req[w].open = o}
ForUnion(n) == {w \in Workers : req[w].at = "create" /\ req[w].how = "wechat"
                                /\ UnionOf(req[w].open) = n}
ForPhone(p) == {w \in Workers : req[w].at = "create" /\ req[w].how = "sms" /\ req[w].phone = p}

Few(B, P) ==
    /\ IsFiniteSet(B) /\ P \subseteq Workers
    /\ Cardinality(B) + Cardinality(P) <= Cardinality(Workers)

CountsOK ==
    /\ \A o \in Opens : Few(OfOpen(o), ForOpen(o))
    /\ \A n \in {UnionOf(o) : o \in Opens} \ {""} : Few(OfUnion(n), ForUnion(n))
    /\ \A p \in Phones : Few(OfPhone(p), ForPhone(p))

AccInv ==
    /\ AccountsTyped /\ RowsOK /\ CountsOK
    /\ \A w \in Workers : RequestOK(w)
    /\ \A s \in issued : SessionOK(s)

-----------------------------------------------------------------------------
\* An account is made by a request that saw none, or none is made.
LEMMA FewStay ==
    ASSUME NEW B, NEW P, Few(B, P), NEW C, NEW Q, C \subseteq B, Q \subseteq P
    PROVE  Few(C, Q)
<1>1. IsFiniteSet(B) /\ P \subseteq Workers /\ IsFiniteSet(Workers)
  BY AccountsAssumption DEF Few
<1>2. IsFiniteSet(P)
  BY <1>1, FS_Subset
<1>3. PICK b \in Nat, p \in Nat, c \in Nat, q \in Nat, n \in Nat :
          /\ b = Cardinality(B) /\ p = Cardinality(P) /\ c = Cardinality(C)
          /\ q = Cardinality(Q) /\ n = Cardinality(Workers) /\ c <= b /\ q <= p
  BY <1>1, <1>2, FS_CardinalityType, FS_Subset
<1>4. IsFiniteSet(C) /\ Q \subseteq Workers
  BY <1>1, FS_Subset
<1>5. b + p <= n
  BY <1>3 DEF Few
<1>6. c + q <= n
  BY <1>3, <1>5
<1> QED BY <1>3, <1>4, <1>6 DEF Few

LEMMA OneMore ==
    ASSUME NEW B, NEW P, Few(B, P), NEW C, NEW Q, NEW w \in P, NEW u,
           C \subseteq B \cup {u}, Q \subseteq P \ {w}
    PROVE  Few(C, Q)
<1>1. IsFiniteSet(B) /\ P \subseteq Workers /\ IsFiniteSet(Workers)
  BY AccountsAssumption DEF Few
<1>2. IsFiniteSet(P)
  BY <1>1, FS_Subset
<1>3. PICK b \in Nat, p \in Nat, n \in Nat :
          b = Cardinality(B) /\ p = Cardinality(P) /\ n = Cardinality(Workers)
  BY <1>1, <1>2, FS_CardinalityType
<1>4. b + p <= n
  BY <1>3 DEF Few
<1>5. IsFiniteSet(P \ {w}) /\ Cardinality(P \ {w}) = p - 1
  BY <1>2, <1>3, FS_RemoveElement
<1>6. IsFiniteSet(B \cup {u}) /\ Cardinality(B \cup {u}) \in {b, b + 1}
  BY <1>1, <1>3, FS_AddElement
<1>7. P \ {w} \subseteq Workers
  BY <1>1
<1>8. Cardinality(B \cup {u}) + Cardinality(P \ {w}) <= n
  BY <1>3, <1>4, <1>5, <1>6
<1>9. Few(B \cup {u}, P \ {w})
  BY <1>3, <1>6, <1>7, <1>8 DEF Few
<1> QED BY <1>9, FewStay

LEMMA NoneYet ==
    ASSUME NEW Q, Q \subseteq Workers
    PROVE  Few({}, Q)
<1>1. IsFiniteSet(Workers)
  BY AccountsAssumption
<1>2. PICK q \in Nat, n \in Nat : q = Cardinality(Q) /\ n = Cardinality(Workers) /\ q <= n
  BY <1>1, FS_Subset, FS_CardinalityType
<1>3. IsFiniteSet({}) /\ Cardinality({}) = 0
  BY FS_EmptySet
<1> QED BY <1>2, <1>3 DEF Few

LEMMA FirstIs ==
    ASSUME NEW ids, IsFiniteSet(ids), Numbered(ids)
    PROVE  /\ ids = {} => FirstOf(ids) = 0
           /\ ids # {} => FirstOf(ids) \in ids
<1>1. CASE ids # {}
  <2>1. \E m \in ids : \A x \in ids : m <= x
    BY <1>1, LeastNumber
  <2> QED BY <1>1, <2>1 DEF FirstOf
<1>2. CASE ids = {}
  BY <1>2 DEF FirstOf
<1> QED BY <1>1, <1>2

\* The first of the rows of a list that fit.
LEMMA FirstRow ==
    ASSUME NEW S, NEW s \in Seq(S), NEW T \in SUBSET DOMAIN s
    PROVE  /\ T = {} => FirstOf(T) = 0
           /\ T # {} => FirstOf(T) \in T
           /\ FirstOf(T) # 0 => FirstOf(T) \in T
           /\ IsFiniteSet(T) /\ Numbered(T)
<1>1. PICK n \in Nat : DOMAIN s = 1..n
  OBVIOUS
<1>2. IsFiniteSet(T)
  BY <1>1, FS_Interval, FS_Subset
<1>3. Numbered(T)
  BY <1>1 DEF Numbered
<1> QED BY <1>2, <1>3, FirstIs

\* Rows are added, names stay, and phones that are set, or they are noted.
RowsGrow ==
    /\ Len(users) <= Len(users')
    /\ \A u \in DOMAIN users :
          /\ u \in DOMAIN users' /\ users'[u].name = users[u].name
          /\ users[u].phone # "" =>
                /\ users'[u].phone # ""
                /\ users'[u].phone = users[u].phone \/ <<u, users[u].phone>> \in replaced'
    /\ \A i \in DOMAIN oauths : i \in DOMAIN oauths' /\ oauths'[i] = oauths[i]
    /\ replaced \subseteq replaced'

LEMMA ShowsStays ==
    ASSUME RowsGrow, NEW u \in DOMAIN users, NEW p, Shows(u, p)
    PROVE  Shows(u, p)'
BY DEF RowsGrow, Shows

LEMMA AccTypes ==
    AccInv => /\ users \in Seq(UserRow) /\ oauths \in Seq(UserOAuthRow) /\ logins \in 0..MaxLogins
              /\ req \in [Workers -> Request] /\ AccountsTyped /\ RowsOK /\ CountsOK
BY DEF AccInv, AccountsTyped

LEMMA SameRows ==
    ASSUME AccInv, UNCHANGED <<users, oauths, replaced>>
    PROVE  RowsGrow
<1>1. PICK n \in Nat : n = Len(users)
  BY AccTypes
<1>2. n <= n /\ Len(users') = n
  BY <1>1
<1> QED BY <1>1, <1>2 DEF RowsGrow

LEMMA RequestStays ==
    ASSUME AccInv, AccountsTyped', RowsGrow, NEW w \in Workers, req'[w] = req[w]
    PROVE  RequestOK(w)'
<1>1. PICK r : r = req[w]
  OBVIOUS
<1>2. RequestOK(w)
  BY DEF AccInv
<1>3. users \in Seq(UserRow) /\ users' \in Seq(UserRow) /\ r.user \in 0..Len(users)
  BY <1>1, <1>2 DEF AccInv, AccountsTyped, RequestOK
<1>4. r.user \in 0..Len(users')
  <2>1. PICK m \in Nat, n \in Nat : m = Len(users) /\ n = Len(users')
    BY <1>3
  <2>2. r.user \in 0..m /\ m <= n
    BY <1>3, <2>1 DEF RowsGrow
  <2> QED BY <2>1, <2>2
<1>5. r.user # 0 => r.user \in DOMAIN users
  BY <1>3
<1>6. r.at \in {"phoneOf", "issue"} => r.user # 0
  BY <1>1, <1>2 DEF RequestOK
<1>7. r.at = "issue" /\ r.how \in {"password", "sms"} => Shows(r.user, r.phone)'
  BY <1>1, <1>2, <1>5, <1>6, ShowsStays DEF RequestOK, Shows
<1>8. r.at = "bind" => \E i \in DOMAIN oauths' : /\ oauths'[i].user = r.user
                                                 /\ oauths'[i].union = UnionOf(r.open)
  BY <1>1, <1>2 DEF RequestOK, RowsGrow
<1>9. r.at \in {"phoneOf", "issue"} /\ r.how = "wechat" =>
          \E i \in DOMAIN oauths' : oauths'[i].user = r.user /\ oauths'[i].open = r.open
  BY <1>1, <1>2 DEF RequestOK, RowsGrow
<1> QED BY <1>1, <1>2, <1>4, <1>7, <1>8, <1>9 DEF RequestOK

LEMMA SessionStays ==
    ASSUME RowsGrow, NEW s, SessionOK(s)
    PROVE  SessionOK(s)'
BY ShowsStays DEF RowsGrow, SessionOK, Shows

\* The accounts C that were B, and the requests Q that were P.
Turn(B, P, C, Q, w) ==
    \/ C = {}
    \/ C \subseteq B /\ Q \subseteq P
    \/ w \in P /\ w \notin Q /\ Q \subseteq P /\ \E u : C \subseteq B \cup {u}

LEMMA FewAfter ==
    ASSUME NEW B, NEW P, NEW C, NEW Q, NEW w, Few(B, P), Turn(B, P, C, Q, w), Q \subseteq Workers
    PROVE  Few(C, Q)
<1>1. CASE C = {}
  BY <1>1, NoneYet
<1>2. CASE C \subseteq B /\ Q \subseteq P
  BY <1>2, FewStay
<1>3. CASE w \in P /\ w \notin Q /\ Q \subseteq P /\ \E u : C \subseteq B \cup {u}
  <2>1. PICK u : C \subseteq B \cup {u}
    BY <1>3
  <2>2. w \in P /\ Q \subseteq P \ {w}
    BY <1>3
  <2> QED BY <2>1, <2>2, OneMore
<1> QED BY <1>1, <1>2, <1>3 DEF Turn

LEMMA CountsAfter ==
    ASSUME CountsOK, NEW w,
           \A o \in Opens : Turn(OfOpen(o), ForOpen(o), OfOpen(o)', ForOpen(o)', w),
           \A n \in {UnionOf(o) : o \in Opens} \ {""} :
              Turn(OfUnion(n), ForUnion(n), OfUnion(n)', ForUnion(n)', w),
           \A p \in Phones : Turn(OfPhone(p), ForPhone(p), OfPhone(p)', ForPhone(p)', w)
    PROVE  CountsOK'
<1>1. ASSUME NEW o \in Opens PROVE Few(OfOpen(o), ForOpen(o))'
  <2>1. Few(OfOpen(o), ForOpen(o)) /\ Turn(OfOpen(o), ForOpen(o), OfOpen(o)', ForOpen(o)', w)
    BY DEF CountsOK
  <2>2. ForOpen(o)' \subseteq Workers
    BY DEF ForOpen
  <2>3. PICK B, P, C, Q : B = OfOpen(o) /\ P = ForOpen(o) /\ C = OfOpen(o)' /\ Q = ForOpen(o)'
    OBVIOUS
  <2>4. Few(C, Q)
    BY <2>1, <2>2, <2>3, FewAfter
  <2> QED BY <2>3, <2>4 DEF Few
<1>2. ASSUME NEW n \in {UnionOf(o) : o \in Opens} \ {""} PROVE Few(OfUnion(n), ForUnion(n))'
  <2>1. Few(OfUnion(n), ForUnion(n)) /\ Turn(OfUnion(n), ForUnion(n), OfUnion(n)', ForUnion(n)', w)
    BY DEF CountsOK
  <2>2. ForUnion(n)' \subseteq Workers
    BY DEF ForUnion
  <2>3. PICK B, P, C, Q : B = OfUnion(n) /\ P = ForUnion(n) /\ C = OfUnion(n)' /\ Q = ForUnion(n)'
    OBVIOUS
  <2>4. Few(C, Q)
    BY <2>1, <2>2, <2>3, FewAfter
  <2> QED BY <2>3, <2>4 DEF Few
<1>3. ASSUME NEW p \in Phones PROVE Few(OfPhone(p), ForPhone(p))'
  <2>1. Few(OfPhone(p), ForPhone(p)) /\ Turn(OfPhone(p), ForPhone(p), OfPhone(p)', ForPhone(p)', w)
    BY DEF CountsOK
  <2>2. ForPhone(p)' \subseteq Workers
    BY DEF ForPhone
  <2>3. PICK B, P, C, Q : B = OfPhone(p) /\ P = ForPhone(p) /\ C = OfPhone(p)' /\ Q = ForPhone(p)'
    OBVIOUS
  <2>4. Few(C, Q)
    BY <2>1, <2>2, <2>3, FewAfter
  <2> QED BY <2>3, <2>4 DEF Few
<1> QED BY <1>1, <1>2, <1>3 DEF CountsOK

\* One request moves on.
Moves(w, r) ==
    r \in Request /\ req' = [req EXCEPT ![w] = r]

LEMMA Moved ==
    ASSUME AccountsTyped, NEW w \in Workers, NEW r, Moves(w, r)
    PROVE  /\ req' \in [Workers -> Request] /\ req'[w] = r
           /\ \A v \in Workers \ {w} : req'[v] = req[v]
BY DEF AccountsTyped, Moves

\* Where no request that may make an account is added, and no account.
LEMMA QuietCounts ==
    ASSUME AccInv, NEW w \in Workers, NEW r, Moves(w, r), r.at \notin {"union", "create", "bind"},
           UNCHANGED oauths, \A p \in Phones : OfPhone(p)' \subseteq OfPhone(p)
    PROVE  CountsOK'
<1>1. req'[w] = r /\ \A v \in Workers \ {w} : req'[v] = req[v]
  BY Moved DEF AccInv
<1>2. \A o : ForOpen(o)' \subseteq ForOpen(o) /\ OfOpen(o)' \subseteq OfOpen(o)
  BY <1>1 DEF ForOpen, OfOpen
<1>3. \A n : ForUnion(n)' \subseteq ForUnion(n) /\ OfUnion(n)' \subseteq OfUnion(n)
  BY <1>1 DEF ForUnion, OfUnion
<1>4. \A p : ForPhone(p)' \subseteq ForPhone(p)
  BY <1>1 DEF ForPhone
<1>5. /\ \A o \in Opens : Turn(OfOpen(o), ForOpen(o), OfOpen(o)', ForOpen(o)', w)
      /\ \A n \in {UnionOf(o) : o \in Opens} \ {""} :
             Turn(OfUnion(n), ForUnion(n), OfUnion(n)', ForUnion(n)', w)
      /\ \A p \in Phones : Turn(OfPhone(p), ForPhone(p), OfPhone(p)', ForPhone(p)', w)
  BY <1>2, <1>3, <1>4 DEF Turn
<1> QED BY <1>5, CountsAfter DEF AccInv

\* What is left to show of a step of one request.
LEMMA RequestMoves ==
    ASSUME AccInv, AccountsTyped', RowsGrow, RowsOK', CountsOK', UNCHANGED issued,
           NEW w \in Workers, NEW r, Moves(w, r), RequestOK(w)'
    PROVE  AccInv'
<1>1. \A v \in Workers \ {w} : req'[v] = req[v]
  BY Moved DEF AccInv
<1>2. \A v \in Workers : RequestOK(v)'
  BY <1>1, RequestStays
<1>3. \A s \in issued' : SessionOK(s)'
  BY SessionStays DEF AccInv
<1> QED BY <1>2, <1>3 DEF AccInv

\* A step that changes no row.
LEMMA QuietStep ==
    ASSUME AccInv, UNCHANGED <<users, oauths, issued, replaced>>, logins' \in 0..MaxLogins,
           NEW w \in Workers, NEW r, Moves(w, r), r.at \notin {"union", "create", "bind"},
           RequestOK(w)'
    PROVE  AccInv'
<1>1. AccountsTyped' /\ RowsOK'
  BY Moved DEF AccInv, AccountsTyped, RowsOK
<1>2. RowsGrow
  BY SameRows
<1>3. \A p \in Phones : OfPhone(p)' \subseteq OfPhone(p)
  BY DEF OfPhone
<1>4. CountsOK'
  BY <1>3, QuietCounts
<1> QED BY <1>1, <1>2, <1>4, RequestMoves

LEMMA IdleIs ==
    Idle \in Request
BY DEF Idle, Request, Places

LEMMA IdleOK ==
    ASSUME NEW w \in Workers, req'[w] = Idle, AccountsTyped'
    PROVE  RequestOK(w)'
<1>1. Len(users') \in Nat
  BY DEF AccountsTyped
<1>2. PICK r : r = Idle
  OBVIOUS
<1>3. r.at = "idle" /\ r.how = "" /\ r.user = 0
  BY <1>2 DEF Idle
<1>4. r.user \in 0..Len(users')
  <2>1. PICK n \in Nat : n = Len(users')
    BY <1>1
  <2>2. 0 \in 0..n
    OBVIOUS
  <2> QED BY <1>3, <2>1, <2>2
<1> HIDE <1>2
<1>5. req'[w] = r
  BY <1>2
<1> QED BY <1>3, <1>4, <1>5 DEF RequestOK

\* Appending a row.
LEMMA RowAppended ==
    ASSUME NEW S, NEW s \in Seq(S), NEW x \in S
    PROVE  /\ Append(s, x) \in Seq(S) /\ Len(Append(s, x)) = Len(s) + 1
           /\ DOMAIN Append(s, x) = 1..(Len(s) + 1) /\ DOMAIN s = 1..Len(s) /\ Len(s) \in Nat
           /\ \A i \in 1..Len(s) : Append(s, x)[i] = s[i]
           /\ Append(s, x)[Len(s) + 1] = x
OBVIOUS

LEMMA Bounded1 ==
    MaxLogins \in Nat
BY AccountsAssumption

\* What the logins set of a request.
LEMMA BySMS ==
    ASSUME NEW r \in Request, NEW p \in Phones
    PROVE  LET q == [r EXCEPT !.at = "phone", !.how = "sms", !.phone = p]
           IN  /\ q \in Request /\ q.at = "phone" /\ q.how = "sms"
               /\ q.phone = p /\ q.user = r.user /\ q.open = r.open
BY DEF Request, Places

LEMMA IdleUser ==
    Idle \in Request /\ Idle.user = 0
BY DEF Idle, Request, Places

LEMMA StartsIs ==
    ASSUME AccInv, NEW w \in Workers, NEW r \in Request, Starts(w, r)
    PROVE  Moves(w, r) /\ logins' \in 0..MaxLogins /\ req'[w] = r
<1>1. PICK n \in Nat, m \in Nat : n = logins /\ m = MaxLogins /\ n < m
  BY AccTypes, Bounded1 DEF Starts
<1>2. logins' \in 0..MaxLogins
  BY <1>1 DEF Starts
<1>3. Moves(w, r)
  BY DEF Starts, Go, Moves
<1> QED BY <1>2, <1>3, Moved DEF AccInv

LEMMA EndsIs ==
    ASSUME AccInv, NEW w \in Workers, Ends(w)
    PROVE  Moves(w, Idle) /\ req'[w] = Idle
<1>1. Moves(w, Idle)
  BY IdleIs DEF Ends, Go, Moves
<1> QED BY <1>1, Moved DEF AccInv

\* A request that starts and ends at once.
LEMMA NothingStarts ==
    ASSUME AccInv, UNCHANGED <<users, oauths, issued, replaced>>, NEW w \in Workers, Starts(w, Idle)
    PROVE  AccInv'
<1>1. Moves(w, Idle) /\ logins' \in 0..MaxLogins /\ req'[w] = Idle
  BY StartsIs, IdleIs
<1>2. AccountsTyped'
  BY <1>1, Moved DEF AccInv, AccountsTyped
<1>3. RequestOK(w)'
  BY <1>1, <1>2, IdleOK
<1>4. Idle.at \notin {"union", "create", "bind"}
  BY DEF Idle
<1> QED BY <1>1, <1>3, <1>4, QuietStep

LEMMA EndsQuietly ==
    ASSUME AccInv, UNCHANGED <<users, oauths, issued, replaced, logins>>, NEW w \in Workers, Ends(w)
    PROVE  AccInv'
<1>1. Moves(w, Idle) /\ req'[w] = Idle
  BY EndsIs
<1>2. AccountsTyped'
  BY <1>1, Moved DEF AccInv, AccountsTyped
<1>3. RequestOK(w)'
  BY <1>1, <1>2, IdleOK
<1>4. Idle.at \notin {"union", "create", "bind"}
  BY DEF Idle
<1>5. logins' \in 0..MaxLogins
  BY DEF AccInv, AccountsTyped
<1> QED BY <1>1, <1>3, <1>4, <1>5, QuietStep

\* An account with a name, which no phone finds.
Named(row) == row \in UserRow /\ row.name # "" /\ row.phone = ""

LEMMA NamedAccount ==
    ASSUME AccInv, NEW row, Named(row),
           users' = Append(users, row), UNCHANGED <<oauths, issued, replaced>>,
           logins' \in 0..MaxLogins, NEW w \in Workers, Moves(w, Idle)
    PROVE  AccInv'
<1>1. row \in UserRow
  BY DEF Named
<1>3. PICK us \in Seq(UserRow), n \in Nat : us = users /\ n = Len(us)
  BY AccTypes
<1>4. /\ Append(us, row) \in Seq(UserRow) /\ Len(Append(us, row)) = n + 1
      /\ DOMAIN Append(us, row) = 1..(n + 1) /\ DOMAIN us = 1..n
      /\ \A i \in 1..n : Append(us, row)[i] = us[i]
      /\ Append(us, row)[n + 1] = row
  <2>1. n = Len(us)
    BY <1>3
  <2> HIDE <1>3
  <2> QED BY <1>1, <2>1, RowAppended
<1>5. /\ users' \in Seq(UserRow) /\ Len(users') = n + 1
      /\ DOMAIN users' = 1..(n + 1) /\ DOMAIN users = 1..n /\ Len(users) = n
      /\ \A i \in 1..n : users'[i] = users[i]
      /\ users'[n + 1] = row
  BY <1>1, <1>3, <1>4
<1>6. req' \in [Workers -> Request] /\ req'[w] = Idle
  BY Moved DEF AccInv
<1>7. AccountsTyped'
  BY <1>5, <1>6 DEF AccInv, AccountsTyped
<1>8. RowsGrow
  <2>1. Len(users) <= Len(users') /\ \A u \in 1..n : u \in 1..(n + 1)
    BY <1>5
  <2> QED BY <1>5, <2>1 DEF RowsGrow
<1>9. RowsOK'
  <2>1. \A u \in DOMAIN users' : u \in DOMAIN users \/ u = n + 1
    BY <1>5
  <2> QED
    <3>1. \A i \in DOMAIN oauths' : oauths'[i].user \in DOMAIN users'
      BY <1>8 DEF AccInv, RowsOK, RowsGrow
    <3>2. users'[n + 1].name # ""
      BY <1>5 DEF Named
    <3>3. \A u \in DOMAIN users : users'[u].name = users[u].name /\ users'[u].phone = users[u].phone
      BY <1>5
    <3>4. DOMAIN users \subseteq DOMAIN users' /\ replaced' = replaced
      BY <1>5
    <3>5. replaced' \subseteq (DOMAIN users') \X Phones
      BY <3>4 DEF AccInv, RowsOK
    <3>6. ASSUME NEW u \in DOMAIN users'
          PROVE  \/ users'[u].name # "" \/ users'[u].phone # ""
                 \/ \E i \in DOMAIN oauths' : oauths'[i].user = u
      BY <2>1, <3>2, <3>3 DEF AccInv, RowsOK
    <3> QED BY <3>1, <3>5, <3>6 DEF RowsOK
<1>10. \A p \in Phones : OfPhone(p)' \subseteq OfPhone(p)
  <2>1. \A u \in DOMAIN users' : u \in DOMAIN users \/ u = n + 1
    BY <1>5
  <2>2. "" \notin Phones
    BY AccountsAssumption
  <2> QED BY <1>5, <2>1, <2>2 DEF Named, OfPhone
<1>11. Idle.at \notin {"union", "create", "bind"}
  BY DEF Idle
<1>12. CountsOK'
  BY <1>10, <1>11, QuietCounts
<1>13. RequestOK(w)'
  BY <1>6, <1>7, IdleOK
<1> QED BY <1>7, <1>8, <1>9, <1>12, <1>13, RequestMoves

\* An account that keeps its name, and its phone if it has one.
Keeps(u, row) ==
    /\ row \in UserRow /\ row.name = users[u].name
    /\ users[u].phone # "" =>
          row.phone # "" /\ (row.phone = users[u].phone \/ <<u, users[u].phone>> \in replaced')
    /\ row.phone = users[u].phone \/ \E i \in DOMAIN oauths : oauths[i].user = u

LEMMA EditedAccount ==
    ASSUME AccInv, NEW u \in DOMAIN users, NEW row, Keeps(u, row),
           users' = [users EXCEPT ![u] = row], UNCHANGED oauths, replaced \subseteq replaced',
           replaced' \subseteq replaced \cup ({u} \X Phones)
    PROVE  /\ users' \in Seq(UserRow) /\ Len(users') = Len(users) /\ RowsGrow /\ RowsOK'
           /\ users'[u] = row
           /\ \A p \in Phones : OfPhone(p)' \subseteq OfPhone(p)
<1>1. PICK us \in Seq(UserRow), n \in Nat : us = users /\ n = Len(us)
  BY AccTypes
<1>0. row \in UserRow
  BY DEF Keeps
<1>2. /\ [us EXCEPT ![u] = row] \in Seq(UserRow) /\ Len([us EXCEPT ![u] = row]) = n
      /\ DOMAIN [us EXCEPT ![u] = row] = 1..n /\ DOMAIN us = 1..n
      /\ \A i \in 1..n : i # u => [us EXCEPT ![u] = row][i] = us[i]
      /\ [us EXCEPT ![u] = row][u] = row
  BY <1>0, <1>1
<1>3. /\ users' \in Seq(UserRow) /\ Len(users') = n /\ Len(users) = n
      /\ DOMAIN users' = 1..n /\ DOMAIN users = 1..n
      /\ \A i \in 1..n : i # u => users'[i] = users[i]
      /\ users'[u] = row
  BY <1>1, <1>2
<1>4. RowsGrow
  <2>1. Len(users) <= Len(users')
    BY <1>3
  <2> QED BY <1>3, <2>1 DEF RowsGrow, Keeps
<1>5. RowsOK'
  <2>1. replaced' \subseteq (DOMAIN users') \X Phones
    BY <1>3 DEF AccInv, RowsOK
  <2>2. ASSUME NEW v \in DOMAIN users'
        PROVE  \/ users'[v].name # "" \/ users'[v].phone # ""
               \/ \E i \in DOMAIN oauths : oauths[i].user = v
    <3>1. CASE v = u
      BY <1>3, <3>1 DEF AccInv, RowsOK, Keeps
    <3>2. CASE v # u
      BY <1>3, <3>2 DEF AccInv, RowsOK
    <3> QED BY <3>1, <3>2
  <2>3. \A i \in DOMAIN oauths : oauths[i].user \in DOMAIN users'
    BY <1>3 DEF AccInv, RowsOK
  <2> QED BY <2>1, <2>2, <2>3 DEF RowsOK
<1>6. \A p \in Phones : OfPhone(p)' \subseteq OfPhone(p)
  BY <1>3 DEF OfPhone, Keeps
<1> QED BY <1>3, <1>4, <1>5, <1>6

LEMMA RegisterPasswordStep ==
    ASSUME AccInv, NEW w \in Workers, NEW name \in Names, NEW pw \in {"weak", "good1"},
           RegisterPassword(w, name, pw)
    PROVE  AccInv'
<1>1. CASE pw = "weak"
  BY <1>1, NothingStarts DEF RegisterPassword
<1>2. CASE pw # "weak"
  <2>1. pw \in Passwords
    BY <1>2 DEF Passwords
  <2>2. Moves(w, Idle) /\ logins' \in 0..MaxLogins
    BY StartsIs, IdleIs DEF RegisterPassword
  <2> QED
    <3>1. Named(User(name, "", pw))
      BY <2>1 DEF Named, User, UserRow, Names
    <3>2. users' = Append(users, User(name, "", pw)) /\ UNCHANGED <<oauths, issued, replaced>>
      BY <1>2 DEF RegisterPassword
    <3> QED BY <2>2, <3>1, <3>2, NamedAccount
<1> QED BY <1>1, <1>2

LEMMA PasswordLoginStep ==
    ASSUME AccInv, NEW w \in Workers, NEW a \in Names, NEW pw, PasswordLogin(w, a, pw)
    PROVE  AccInv'
<1> DEFINE u == ByAccount(a)
           T == {i \in DOMAIN users : a # "" /\ a \in {users[i].name, users[i].phone}}
<1>1. CASE ~ (u # 0 /\ users[u].on /\ users[u].pw = pw)
  BY <1>1, NothingStarts DEF PasswordLogin
<1>2. CASE u # 0 /\ users[u].on /\ users[u].pw = pw
  <2>1. u \in T
    <3>1. users \in Seq(UserRow) /\ T \in SUBSET DOMAIN users
      BY AccTypes
    <3>2. u = FirstOf(T)
      BY DEF ByAccount
    <3> HIDE DEF T, u
    <3> QED BY <1>2, <3>1, <3>2, FirstRow
  <2>2. u \in DOMAIN users /\ a # "" /\ a \in {users[u].name, users[u].phone}
    BY <2>1
  <2>3. PICK n \in Nat : n = Len(users) /\ DOMAIN users = 1..n
    BY AccTypes
  <2>4. u \in 0..n /\ u # 0 /\ u \in Nat
    <3>1. u \in DOMAIN users
      BY <2>2
    <3> HIDE DEF u, T
    <3> QED BY <3>1, <2>3, <1>2
  <2>5. PICK r : r = [Idle EXCEPT !.at = "issue", !.how = "password", !.phone = a, !.user = u]
    OBVIOUS
  <2>6. Starts(w, r)
    BY <1>2, <2>5 DEF PasswordLogin
  <2> HIDE DEF u
  <2>7. /\ r \in Request
        /\ r.at = "issue" /\ r.how = "password" /\ r.phone = a /\ r.user = u
    <3>1. u \in Nat
      BY <2>4
    <3>2. LET q == [Idle EXCEPT !.at = "issue", !.how = "password", !.phone = a, !.user = u]
          IN  /\ q \in Request /\ q.at = "issue" /\ q.how = "password"
              /\ q.phone = a /\ q.user = u /\ q.open = Idle.open
      <4>1. PICK ask \in Request : ask = Idle
        BY IdleUser
      <4>2. LET q == [ask EXCEPT !.at = "issue", !.how = "password", !.phone = a, !.user = u]
            IN  /\ q \in Request /\ q.at = "issue" /\ q.how = "password"
                /\ q.phone = a /\ q.user = u /\ q.open = ask.open
        BY <3>1 DEF Request, Places
      <4> QED BY <4>1, <4>2
    <3> QED BY <2>5, <3>2
  <2>8. Moves(w, r) /\ logins' \in 0..MaxLogins /\ req'[w] = r
    BY <2>6, <2>7, StartsIs
  <2>9. UNCHANGED <<users, oauths, issued, replaced>>
    BY DEF PasswordLogin
  <2>10. RequestOK(w)'
    BY <2>2, <2>3, <2>4, <2>7, <2>8, <2>9 DEF RequestOK, Shows
  <2> QED BY <2>7, <2>8, <2>9, <2>10, QuietStep
<1> QED BY <1>1, <1>2

\* A login that starts with nothing found yet.
LEMMA LoginStarts ==
    ASSUME AccInv, NEW w \in Workers, NEW r \in Request, Starts(w, r), r.user = 0,
           UNCHANGED <<users, oauths, issued, replaced>>,
           \/ r.at = "phone" /\ r.how = "sms" /\ r.phone \in Phones
           \/ r.at = "open" /\ r.how = "wechat" /\ r.open \in Openids /\ r.phone \in OptPhones
    PROVE  AccInv'
<1>1. Moves(w, r) /\ logins' \in 0..MaxLogins /\ req'[w] = r
  BY StartsIs
<1>2. PICK n \in Nat : n = Len(users)
  BY AccTypes
<1>3. r.user \in 0..n
  BY <1>2
<1>4. RequestOK(w)'
  BY <1>1, <1>2, <1>3 DEF RequestOK
<1> QED BY <1>1, <1>4, QuietStep

LEMMA SMSCodeLoginStep ==
    ASSUME AccInv, NEW w \in Workers, NEW p \in Phones, SMSCodeLogin(w, p)
    PROVE  AccInv'
<1>1. PICK r : r = [Idle EXCEPT !.at = "phone", !.how = "sms", !.phone = p]
  OBVIOUS
<1>3. Starts(w, r) /\ UNCHANGED <<users, oauths, issued, replaced>>
  BY <1>1 DEF SMSCodeLogin
<1>4. /\ r \in Request
      /\ r.at = "phone" /\ r.how = "sms" /\ r.phone \in Phones /\ r.user = 0
  BY <1>1, IdleUser, BySMS
<1> QED BY <1>3, <1>4, LoginStarts

LEMMA MiniAppLoginStep ==
    ASSUME AccInv, NEW w \in Workers, NEW c, NEW o \in Openids, NEW p \in Phones \cup {""},
           MiniAppLogin(w, c, o, p)
    PROVE  AccInv'
<1> DEFINE open == IF p # "" /\ (SelfIssues \/ c # "ready") THEN "error" ELSE Exchange(c, o)
<1>1. open = "error" \/ open \in Openids
  BY DEF Exchange, Openids
<1>2. CASE open = "error"
  BY <1>2, NothingStarts DEF MiniAppLogin
<1>3. CASE open # "error" /\ SelfIssues
  <2>1. Starts(w, Idle) /\ UNCHANGED <<users, oauths, replaced>>
        /\ issued' = issued \cup {[user |-> 0, open |-> open, shown |-> open]}
    BY <1>3 DEF MiniAppLogin
  <2>2. Moves(w, Idle) /\ logins' \in 0..MaxLogins /\ req'[w] = Idle
    BY <2>1, StartsIs, IdleIs
  <2>3. AccountsTyped' /\ RowsOK'
    BY <2>1, <2>2, Moved DEF AccInv, AccountsTyped, RowsOK
  <2>4. RequestOK(w)'
    BY <2>2, <2>3, IdleOK
  <2>5. RowsGrow
    BY <2>1, SameRows
  <2>6. Idle.at \notin {"union", "create", "bind"}
        /\ \A q \in Phones : OfPhone(q)' \subseteq OfPhone(q)
    BY <2>1 DEF Idle, OfPhone
  <2>7. CountsOK'
    BY <2>1, <2>2, <2>6, QuietCounts
  <2>8. \A v \in Workers : RequestOK(v)'
    <3>1. \A v \in Workers \ {w} : req'[v] = req[v]
      BY <2>2, Moved DEF AccInv
    <3> QED BY <2>3, <2>4, <2>5, <3>1, RequestStays
  <2>9. \A s \in issued' : SessionOK(s)'
    <3>1. ASSUME NEW s \in issued PROVE SessionOK(s)'
      BY <2>5, SessionStays DEF AccInv
    <3>2. ASSUME NEW s, s.user = 0 PROVE SessionOK(s)'
      BY <3>2 DEF SessionOK
    <3>3. [user |-> 0, open |-> open, shown |-> open].user = 0
      OBVIOUS
    <3> HIDE DEF open
    <3> QED BY <2>1, <3>1, <3>2, <3>3
  <2> QED BY <2>3, <2>7, <2>8, <2>9 DEF AccInv
<1>4. CASE open # "error" /\ ~ SelfIssues
  <2>1. PICK r : r = [Idle EXCEPT !.at = "open", !.how = "wechat", !.open = open, !.phone = p]
    OBVIOUS
  <2>3. Starts(w, r) /\ UNCHANGED <<users, oauths, issued, replaced>>
    BY <1>4, <2>1 DEF MiniAppLogin
  <2>4. open \in Openids
    BY <1>1, <1>4
  <2> HIDE DEF open
  <2>5. /\ r \in Request
        /\ r.at = "open" /\ r.how = "wechat" /\ r.open \in Openids /\ r.user = 0
        /\ r.phone \in OptPhones
    <3>1. LET q == [Idle EXCEPT !.at = "open", !.how = "wechat", !.open = open, !.phone = p]
          IN  /\ q \in Request /\ q.at = "open" /\ q.how = "wechat"
              /\ q.open = open /\ q.phone = p /\ q.user = Idle.user
      <4>1. PICK e \in Request : e = Idle
        BY IdleUser
      <4>2. LET q == [e EXCEPT !.at = "open", !.how = "wechat", !.open = open, !.phone = p]
            IN  /\ q \in Request /\ q.at = "open" /\ q.how = "wechat"
                /\ q.open = open /\ q.phone = p /\ q.user = e.user
        BY <2>4 DEF Request, Places
      <4> QED BY <4>1, <4>2
    <3> QED BY <2>1, <2>4, <3>1, IdleUser DEF OptPhones
  <2> QED BY <2>3, <2>5, LoginStarts
<1> QED BY <1>2, <1>3, <1>4

\* A request that goes on to a place, and one that found an account.
Goes(w, q, next) ==
    /\ Moves(w, q) /\ req'[w] = q /\ q.at = next
    /\ q.how = req[w].how /\ q.open = req[w].open /\ q.phone = req[w].phone

LEMMA GoesOn ==
    ASSUME AccInv, NEW w \in Workers, NEW next \in Places, Go(w, [req[w] EXCEPT !.at = next])
    PROVE  \E q : Goes(w, q, next) /\ q.user = req[w].user
<1>1. PICK r \in Request : r = req[w]
  BY AccTypes
<1>2. PICK q : q = [r EXCEPT !.at = next]
  OBVIOUS
<1>3. /\ q \in Request /\ q.at = next /\ q.how = r.how /\ q.open = r.open /\ q.phone = r.phone
      /\ q.user = r.user
  BY <1>2 DEF Request
<1>4. Moves(w, q)
  BY <1>1, <1>2, <1>3 DEF Go, Moves
<1>5. req'[w] = q
  BY <1>4, Moved DEF AccInv
<1> QED BY <1>1, <1>3, <1>4, <1>5 DEF Goes

LEMMA GoesOnFor ==
    ASSUME AccInv, NEW w \in Workers, NEW next \in Places, NEW u \in DOMAIN users,
           Copied(w, u, next)
    PROVE  \E q : Goes(w, q, next) /\ q.user = u
<1>1. PICK r \in Request : r = req[w]
  BY AccTypes
<1>0. PICK on \in BOOLEAN, blank \in BOOLEAN :
          u \in Nat /\ on = users[u].on /\ blank = (users[u].phone = "")
  <2>1. PICK us \in Seq(UserRow) : us = users
    BY AccTypes
  <2>2. u \in Nat /\ us[u] \in UserRow
    BY <2>1
  <2> QED BY <2>1, <2>2 DEF UserRow
<1>2. PICK q : q = [r EXCEPT !.at = next, !.user = u, !.on = on, !.blank = blank]
  OBVIOUS
<1>3. /\ q \in Request /\ q.at = next /\ q.how = r.how /\ q.open = r.open /\ q.phone = r.phone
      /\ q.user = u
  BY <1>0, <1>2 DEF Request
<1>4. Moves(w, q)
  BY <1>0, <1>1, <1>2, <1>3 DEF Copied, Go, Moves
<1>5. req'[w] = q
  BY <1>4, Moved DEF AccInv
<1> QED BY <1>1, <1>3, <1>4, <1>5 DEF Goes

LEMMA AccountIs ==
    ASSUME AccInv, NEW u \in DOMAIN users
    PROVE  u # 0 /\ u \in 0..Len(users)
<1>1. PICK n \in Nat : n = Len(users) /\ DOMAIN users = 1..n
  BY AccTypes
<1> QED BY <1>1

\* A step that changes no row, and where the numbers of accounts still hold.
LEMMA LookUpStep ==
    ASSUME AccInv, UNCHANGED <<users, oauths, issued, replaced, logins>>, NEW w \in Workers, NEW q,
           Moves(w, q), RequestOK(w)', CountsOK'
    PROVE  AccInv'
<1>1. AccountsTyped' /\ RowsOK'
  BY Moved DEF AccInv, AccountsTyped, RowsOK
<1>2. RowsGrow
  BY SameRows
<1> QED BY <1>1, <1>2, RequestMoves

LEMMA FoundStep ==
    ASSUME AccInv, UNCHANGED <<users, oauths, issued, replaced, logins>>, NEW w \in Workers,
           NEW u \in DOMAIN users,
           NEW next \in {"issue", "phoneOf"}, Found(w, u, next),
           \/ next = "issue" /\ req[w].how = "sms" /\ users[u].phone = req[w].phone
              /\ req[w].phone \in Phones
           \/ next = "phoneOf" /\ req[w].how = "wechat"
              /\ \E i \in DOMAIN oauths : oauths[i].user = u /\ oauths[i].open = req[w].open
    PROVE  AccInv'
<1>1. CASE ~ users[u].on
  BY <1>1, EndsQuietly DEF Found
<1>2. CASE users[u].on
  <2>1. next \in Places
    BY DEF Places
  <2>2. PICK q : Goes(w, q, next) /\ q.user = u
    BY <1>2, <2>1, GoesOnFor DEF Found
  <2>3. Moves(w, q) /\ req'[w] = q /\ q.at = next /\ q.user = u /\ q.how = req[w].how
        /\ q.open = req[w].open /\ q.phone = req[w].phone
    BY <2>2 DEF Goes
  <2>4. u # 0 /\ u \in 0..Len(users)
    BY AccountIs
  <2>5. RequestOK(w)
    BY DEF AccInv
  <2>6. "" \notin Phones
    BY AccountsAssumption
  <2>7. RequestOK(w)'
    BY <2>3, <2>4, <2>5, <2>6 DEF RequestOK, Shows
  <2>8. logins' \in 0..MaxLogins
    BY AccTypes
  <2> QED BY <2>3, <2>7, <2>8, QuietStep
<1> QED BY <1>1, <1>2

LEMMA LookUpPhoneStep ==
    ASSUME AccInv, NEW w \in Workers, LookUpPhone(w)
    PROVE  AccInv'
<1>0. PICK p : p = req[w].phone
  OBVIOUS
<1> DEFINE T == {i \in DOMAIN users : users[i].phone = p}
           u == ByPhone(p)
<1>1. RequestOK(w) /\ req[w].at = "phone" /\ UNCHANGED <<users, oauths, issued, replaced, logins>>
  BY DEF AccInv, LookUpPhone
<1>2. req[w].how = "sms" /\ p \in Phones
  BY <1>0, <1>1 DEF RequestOK
<1>3. /\ T = {} => u = 0
      /\ T # {} => u # 0
      /\ u # 0 => u \in T
  <2>1. users \in Seq(UserRow) /\ T \in SUBSET DOMAIN users
    BY AccTypes
  <2>2. u = FirstOf(T)
    BY DEF ByPhone
  <2>3. \A i \in T : i # 0
    BY AccountIs
  <2> HIDE DEF T, u
  <2> QED BY <2>1, <2>2, <2>3, FirstRow
<1>4. CASE u # 0
  <2>1. u \in DOMAIN users /\ users[u].phone = req[w].phone
    BY <1>0, <1>3, <1>4
  <2>2. Found(w, u, "issue")
    BY <1>0, <1>4 DEF LookUpPhone
  <2> HIDE DEF u, T
  <2> QED BY <1>0, <1>1, <1>2, <2>1, <2>2, FoundStep
<1>5. CASE u = 0
  <2>1. Go(w, [req[w] EXCEPT !.at = "create"])
    BY <1>0, <1>5 DEF LookUpPhone
  <2>2. PICK q : Goes(w, q, "create") /\ q.user = req[w].user
    BY <2>1, GoesOn DEF Places
  <2>3. Moves(w, q) /\ req'[w] = q /\ q.at = "create" /\ q.how = "sms" /\ q.user = req[w].user
        /\ q.open = req[w].open /\ q.phone = p /\ \A v \in Workers \ {w} : req'[v] = req[v]
    BY <1>0, <1>2, <2>2, Moved DEF Goes, AccInv
  <2>4. OfPhone(p)' = {}
    <3>1. T = {} /\ UNCHANGED users
      BY <1>1, <1>3, <1>5
    <3> QED BY <3>1 DEF OfPhone
  <2>5. RequestOK(w)'
    BY <1>0, <1>1, <1>2, <2>3 DEF RequestOK
  <2>6. \A o \in Opens : Turn(OfOpen(o), ForOpen(o), OfOpen(o)', ForOpen(o)', w)
    BY <1>1, <2>3 DEF Turn, OfOpen, ForOpen
  <2>7. \A n \in {UnionOf(o) : o \in Opens} \ {""} :
           Turn(OfUnion(n), ForUnion(n), OfUnion(n)', ForUnion(n)', w)
    BY <1>1, <2>3 DEF Turn, OfUnion, ForUnion
  <2>8. \A x \in Phones : Turn(OfPhone(x), ForPhone(x), OfPhone(x)', ForPhone(x)', w)
    <3> SUFFICES ASSUME NEW x \in Phones
                 PROVE  Turn(OfPhone(x), ForPhone(x), OfPhone(x)', ForPhone(x)', w)
      OBVIOUS
    <3>1. CASE x = p
      BY <2>4, <3>1 DEF Turn
    <3>2. CASE x # p
      <4>1. ForPhone(x)' \subseteq ForPhone(x)
        BY <2>3, <3>2 DEF ForPhone
      <4>2. OfPhone(x)' \subseteq OfPhone(x)
        BY <1>1 DEF OfPhone
      <4> QED BY <4>1, <4>2 DEF Turn
    <3> QED BY <3>1, <3>2
  <2>9. CountsOK'
    BY <2>6, <2>7, <2>8, CountsAfter DEF AccInv
  <2> QED BY <1>1, <2>3, <2>5, <2>9, LookUpStep
<1> QED BY <1>4, <1>5

\* The first binding that fits.
LEMMA FirstBinding ==
    ASSUME AccInv, NEW T \in SUBSET DOMAIN oauths
    PROVE  /\ T # {} => FirstOf(T) # 0
           /\ FirstOf(T) # 0 => FirstOf(T) \in T /\ oauths[FirstOf(T)].user \in DOMAIN users
<1>1. oauths \in Seq(UserOAuthRow)
  BY AccTypes
<1>2. PICK n \in Nat : n = Len(oauths) /\ DOMAIN oauths = 1..n
  BY <1>1
<1>3. \A i \in T : i # 0
  BY <1>2
<1>4. PICK b : b = FirstOf(T)
  OBVIOUS
<1>5. (T = {} => b = 0) /\ (T # {} => b \in T)
  BY <1>1, <1>4, FirstRow
<1>6. b # 0 => oauths[b].user \in DOMAIN users
  BY <1>5 DEF AccInv, RowsOK
<1> QED BY <1>3, <1>4, <1>5, <1>6

LEMMA LookUpOpenStep ==
    ASSUME AccInv, NEW w \in Workers, LookUpOpen(w)
    PROVE  AccInv'
<1>0. PICK x : x = req[w].open
  OBVIOUS
<1> DEFINE T == {i \in DOMAIN oauths : oauths[i].open = x}
<1>a. PICK b : b = FirstOf(T)
  OBVIOUS
<1>1. /\ RequestOK(w) /\ req[w].at = "open" /\ UNCHANGED <<users, oauths, issued, replaced, logins>>
      /\ b = ByOpen(x)
  BY <1>a DEF AccInv, LookUpOpen, ByOpen
<1>2. req[w].how = "wechat" /\ x \in Openids /\ req[w].phone \in OptPhones
  BY <1>0, <1>1 DEF RequestOK
<1>3. /\ T # {} => b # 0
      /\ b # 0 => b \in T /\ oauths[b].user \in DOMAIN users
  BY <1>a, FirstBinding
<1>4. CASE b # 0
  <2>1. PICK u \in DOMAIN users : u = oauths[b].user
    BY <1>3, <1>4
  <2>2. Found(w, u, "phoneOf")
    BY <1>0, <1>1, <1>4, <2>1 DEF LookUpOpen
  <2>3. \E i \in DOMAIN oauths : oauths[i].user = u /\ oauths[i].open = req[w].open
    BY <1>0, <1>3, <1>4, <2>1
  <2> HIDE DEF T
  <2> QED BY <1>1, <1>2, <2>2, <2>3, FoundStep
<1>5. CASE b = 0
  <2>0. PICK next \in {"union", "create"} :
            /\ Go(w, [req[w] EXCEPT !.at = next])
            /\ next = "union" => UnionOf(x) # ""
            /\ next = "create" => UnionOf(x) = ""
    <3>1. CASE UnionOf(x) # ""
      BY <1>0, <1>1, <1>5, <3>1 DEF LookUpOpen
    <3>2. CASE UnionOf(x) = ""
      BY <1>0, <1>1, <1>5, <3>2 DEF LookUpOpen
    <3> QED BY <3>1, <3>2
  <2>2. PICK q : Goes(w, q, next) /\ q.user = req[w].user
    BY <2>0, GoesOn DEF Places
  <2>3. Moves(w, q) /\ req'[w] = q /\ q.at = next /\ q.how = "wechat" /\ q.user = req[w].user
        /\ q.open = x /\ q.phone = req[w].phone /\ \A v \in Workers \ {w} : req'[v] = req[v]
    BY <1>0, <1>2, <2>2, Moved DEF Goes, AccInv
  <2>4. OfOpen(x)' = {}
    <3>1. T = {} /\ UNCHANGED oauths
      BY <1>1, <1>3, <1>5
    <3> QED BY <3>1 DEF OfOpen
  <2>5. RequestOK(w)'
    BY <1>1, <1>2, <2>0, <2>3 DEF RequestOK
  <2>6. \A o \in Opens : Turn(OfOpen(o), ForOpen(o), OfOpen(o)', ForOpen(o)', w)
    <3> SUFFICES ASSUME NEW o \in Opens
                 PROVE  Turn(OfOpen(o), ForOpen(o), OfOpen(o)', ForOpen(o)', w)
      OBVIOUS
    <3>1. CASE o = x
      BY <2>4, <3>1 DEF Turn
    <3>2. CASE o # x
      <4>1. ForOpen(o)' \subseteq ForOpen(o)
        BY <2>3, <3>2 DEF ForOpen
      <4>2. OfOpen(o)' \subseteq OfOpen(o)
        BY <1>1 DEF OfOpen
      <4> QED BY <4>1, <4>2 DEF Turn
    <3> QED BY <3>1, <3>2
  <2>7. \A n \in {UnionOf(o) : o \in Opens} \ {""} :
           Turn(OfUnion(n), ForUnion(n), OfUnion(n)', ForUnion(n)', w)
    BY <1>1, <2>0, <2>3 DEF Turn, OfUnion, ForUnion
  <2>8. \A y \in Phones : Turn(OfPhone(y), ForPhone(y), OfPhone(y)', ForPhone(y)', w)
    BY <1>1, <2>3 DEF Turn, OfPhone, ForPhone
  <2>9. CountsOK'
    BY <2>6, <2>7, <2>8, CountsAfter DEF AccInv
  <2> QED BY <1>1, <2>3, <2>5, <2>9, LookUpStep
<1> QED BY <1>4, <1>5

LEMMA LookUpUnionStep ==
    ASSUME AccInv, NEW w \in Workers, LookUpUnion(w)
    PROVE  AccInv'
<1>0. PICK x, y : x = req[w].open /\ y = UnionOf(x)
  OBVIOUS
<1> DEFINE T == {i \in DOMAIN oauths : oauths[i].union = y}
<1>a. PICK b : b = FirstOf(T)
  OBVIOUS
<1>1. /\ RequestOK(w) /\ req[w].at = "union"
      /\ UNCHANGED <<users, oauths, issued, replaced, logins>>
      /\ b = ByUnion(y)
  BY <1>a DEF AccInv, LookUpUnion, ByUnion
<1>2. req[w].how = "wechat" /\ x \in Openids /\ y # "" /\ req[w].phone \in OptPhones
  BY <1>0, <1>1 DEF RequestOK
<1>3. /\ T # {} => b # 0
      /\ b # 0 => b \in T /\ oauths[b].user \in DOMAIN users
  BY <1>a, FirstBinding
<1>5. CASE b = 0
  <2>1. Go(w, [req[w] EXCEPT !.at = "create"])
    BY <1>0, <1>1, <1>5 DEF LookUpUnion
  <2>2. PICK q : Goes(w, q, "create") /\ q.user = req[w].user
    BY <2>1, GoesOn DEF Places
  <2>3. Moves(w, q) /\ req'[w] = q /\ q.at = "create" /\ q.how = "wechat" /\ q.user = req[w].user
        /\ q.open = x /\ q.phone = req[w].phone /\ \A v \in Workers \ {w} : req'[v] = req[v]
    BY <1>0, <1>2, <2>2, Moved DEF Goes, AccInv
  <2>4. OfUnion(y)' = {}
    <3>1. T = {} /\ UNCHANGED oauths
      BY <1>1, <1>3, <1>5
    <3> QED BY <3>1 DEF OfUnion
  <2>5. RequestOK(w)'
    BY <1>1, <1>2, <2>3 DEF RequestOK
  <2>6. \A o \in Opens : Turn(OfOpen(o), ForOpen(o), OfOpen(o)', ForOpen(o)', w)
    <3>1. \A o : ForOpen(o)' \subseteq ForOpen(o)
      <4> SUFFICES ASSUME NEW o, NEW v \in ForOpen(o)' PROVE v \in ForOpen(o)
        OBVIOUS
      <4>1. CASE v = w
        <5>1. o = x
          BY <2>3, <4>1 DEF ForOpen
        <5> QED BY <1>0, <1>1, <1>2, <4>1, <5>1 DEF ForOpen
      <4>2. CASE v # w
        <5>1. v \in Workers /\ req'[v] = req[v]
          BY <2>3, <4>2 DEF ForOpen
        <5> QED BY <5>1 DEF ForOpen
      <4> QED BY <4>1, <4>2
    <3>2. \A o : OfOpen(o)' \subseteq OfOpen(o)
      BY <1>1 DEF OfOpen
    <3> QED BY <3>1, <3>2 DEF Turn
  <2>7. \A n \in {UnionOf(o) : o \in Opens} \ {""} :
           Turn(OfUnion(n), ForUnion(n), OfUnion(n)', ForUnion(n)', w)
    <3> SUFFICES ASSUME NEW n \in {UnionOf(o) : o \in Opens} \ {""}
                 PROVE  Turn(OfUnion(n), ForUnion(n), OfUnion(n)', ForUnion(n)', w)
      OBVIOUS
    <3>1. CASE n = y
      BY <2>4, <3>1 DEF Turn
    <3>2. CASE n # y
      <4>1. ForUnion(n)' \subseteq ForUnion(n)
        BY <1>0, <2>3, <3>2 DEF ForUnion
      <4>2. OfUnion(n)' \subseteq OfUnion(n)
        BY <1>1 DEF OfUnion
      <4> QED BY <4>1, <4>2 DEF Turn
    <3> QED BY <3>1, <3>2
  <2>8. \A z \in Phones : Turn(OfPhone(z), ForPhone(z), OfPhone(z)', ForPhone(z)', w)
    BY <1>1, <2>3 DEF Turn, OfPhone, ForPhone
  <2>9. CountsOK'
    BY <2>6, <2>7, <2>8, CountsAfter DEF AccInv
  <2> QED BY <1>1, <2>3, <2>5, <2>9, LookUpStep
<1>4. CASE b # 0
  <2>0. PICK u \in DOMAIN users : u = oauths[b].user
    BY <1>3, <1>4
  <2>1. Copied(w, u, "bind")
    BY <1>0, <1>1, <1>4, <2>0 DEF LookUpUnion
  <2>2. PICK q : Goes(w, q, "bind") /\ q.user = u
    BY <2>1, GoesOnFor DEF Places
  <2>3. Moves(w, q) /\ req'[w] = q /\ q.at = "bind" /\ q.how = "wechat" /\ q.user = u
        /\ q.open = x /\ q.phone = req[w].phone /\ \A v \in Workers \ {w} : req'[v] = req[v]
    BY <1>0, <1>2, <2>2, Moved DEF Goes, AccInv
  <2>4. \E i \in DOMAIN oauths : oauths[i].user = u /\ oauths[i].union = UnionOf(x)
    BY <1>0, <1>3, <1>4, <2>0
  <2>5. RequestOK(w)'
    <3>1. u \in 0..Len(users)
      BY AccountIs
    <3> HIDE DEF T
    <3> QED BY <1>0, <1>1, <1>2, <2>3, <2>4, <3>1 DEF RequestOK
  <2>6. \A o \in Opens : Turn(OfOpen(o), ForOpen(o), OfOpen(o)', ForOpen(o)', w)
    <3>1. \A o : ForOpen(o)' \subseteq ForOpen(o)
      <4> SUFFICES ASSUME NEW o, NEW v \in ForOpen(o)' PROVE v \in ForOpen(o)
        OBVIOUS
      <4>1. CASE v = w
        <5>1. o = x
          BY <2>3, <4>1 DEF ForOpen
        <5> QED BY <1>0, <1>1, <1>2, <4>1, <5>1 DEF ForOpen
      <4>2. CASE v # w
        <5>1. v \in Workers /\ req'[v] = req[v]
          BY <2>3, <4>2 DEF ForOpen
        <5> QED BY <5>1 DEF ForOpen
      <4> QED BY <4>1, <4>2
    <3>2. \A o : OfOpen(o)' \subseteq OfOpen(o)
      BY <1>1 DEF OfOpen
    <3> QED BY <3>1, <3>2 DEF Turn
  <2>7. \A n \in {UnionOf(o) : o \in Opens} \ {""} :
           Turn(OfUnion(n), ForUnion(n), OfUnion(n)', ForUnion(n)', w)
    BY <1>1, <2>3 DEF Turn, OfUnion, ForUnion
  <2>8. \A z \in Phones : Turn(OfPhone(z), ForPhone(z), OfPhone(z)', ForPhone(z)', w)
    BY <1>1, <2>3 DEF Turn, OfPhone, ForPhone
  <2>9. CountsOK'
    BY <2>6, <2>7, <2>8, CountsAfter DEF AccInv
  <2> QED BY <1>1, <2>3, <2>5, <2>9, LookUpStep
<1> QED BY <1>4, <1>5

\* A binding is added.
LEMMA BindingAdded ==
    ASSUME AccInv, NEW row \in UserOAuthRow, oauths' = Append(oauths, row)
    PROVE  /\ oauths' \in Seq(UserOAuthRow)
           /\ \A i \in DOMAIN oauths : i \in DOMAIN oauths' /\ oauths'[i] = oauths[i]
           /\ Len(oauths) + 1 \in DOMAIN oauths' /\ oauths'[Len(oauths) + 1] = row
           /\ \A i \in DOMAIN oauths' : i \in DOMAIN oauths \/ i = Len(oauths) + 1
<1>1. PICK oa \in Seq(UserOAuthRow), n \in Nat : oa = oauths /\ n = Len(oa)
  BY AccTypes
<1>2. n = Len(oa)
  BY <1>1
<1>3. /\ Append(oa, row) \in Seq(UserOAuthRow) /\ Len(Append(oa, row)) = n + 1
      /\ DOMAIN Append(oa, row) = 1..(n + 1) /\ DOMAIN oa = 1..n
      /\ \A i \in 1..n : Append(oa, row)[i] = oa[i]
      /\ Append(oa, row)[n + 1] = row
  <2> HIDE <1>1
  <2> QED BY <1>2, RowAppended
<1>4. n + 1 \in 1..(n + 1) /\ \A i \in 1..(n + 1) : i \in 1..n \/ i = n + 1
  OBVIOUS
<1>5. \A i \in 1..n : i \in 1..(n + 1)
  OBVIOUS
<1> QED BY <1>1, <1>3, <1>4, <1>5

LEMMA BindStep ==
    ASSUME AccInv, NEW w \in Workers, Bind(w)
    PROVE  AccInv'
<1>0. PICK x, u, row : /\ x = req[w].open /\ u = req[w].user
                       /\ row = UserOAuth(u, x, UnionOf(x))
  OBVIOUS
<1>1. /\ RequestOK(w) /\ req[w].at = "bind" /\ UNCHANGED <<users, issued, replaced, logins>>
      /\ oauths' = Append(oauths, row)
  BY <1>0 DEF AccInv, Bind
<1>2. /\ req[w].how = "wechat" /\ x \in Openids /\ req[w].phone \in OptPhones
      /\ \E i \in DOMAIN oauths : oauths[i].user = u /\ oauths[i].union = UnionOf(x)
  BY <1>0, <1>1 DEF RequestOK
<1>3. u \in DOMAIN users
  BY <1>2 DEF AccInv, RowsOK
<1>4. u # 0 /\ u \in 0..Len(users) /\ u \in Nat
  BY <1>3, AccountIs, AccTypes
<1>5. row \in UserOAuthRow /\ row.user = u /\ row.open = x /\ row.union = UnionOf(x)
  BY <1>0, <1>2, <1>4 DEF UserOAuth, UserOAuthRow
<1>6. PICK n : n = Len(oauths) + 1
  OBVIOUS
<1>7. /\ oauths' \in Seq(UserOAuthRow)
      /\ \A i \in DOMAIN oauths : i \in DOMAIN oauths' /\ oauths'[i] = oauths[i]
      /\ n \in DOMAIN oauths' /\ oauths'[n] = row
      /\ \A i \in DOMAIN oauths' : i \in DOMAIN oauths \/ i = n
  BY <1>1, <1>5, <1>6, BindingAdded
<1>8. PICK q : /\ Moves(w, q) /\ req'[w] = q
               /\ \/ q = Idle
                  \/ q.at = "phoneOf" /\ q.user = u /\ q.open = x /\ q.how = "wechat"
                     /\ q.phone = req[w].phone
  <2>1. CASE req[w].on
    <3>1. PICK q : Goes(w, q, "phoneOf") /\ q.user = u
      BY <1>0, <2>1, GoesOn DEF Bind, Places
    <3> QED BY <1>0, <1>2, <3>1 DEF Goes
  <2>2. CASE ~ req[w].on
    <3>1. Ends(w)
      BY <2>2 DEF Bind
    <3> QED BY <3>1, EndsIs
  <2> QED BY <2>1, <2>2
<1>9. /\ req' \in [Workers -> Request] /\ \A v \in Workers \ {w} : req'[v] = req[v]
      /\ q.at \notin {"union", "create", "bind"}
  <2>1. q.at \notin {"union", "create", "bind"}
    <3>1. Idle.at \notin {"union", "create", "bind"}
      BY DEF Idle
    <3> QED BY <1>8, <3>1
  <2> QED BY <1>8, <2>1, Moved DEF AccInv
<1>10. AccountsTyped'
  BY <1>1, <1>7, <1>9 DEF AccInv, AccountsTyped
<1>11. RowsGrow
  <2>1. Len(users) <= Len(users')
    BY <1>1, AccTypes
  <2> QED BY <1>1, <1>7, <2>1 DEF RowsGrow
<1>12. RowsOK'
  <2>1. \A i \in DOMAIN oauths' : oauths'[i].user \in DOMAIN users'
    <3> SUFFICES ASSUME NEW i \in DOMAIN oauths' PROVE oauths'[i].user \in DOMAIN users'
      OBVIOUS
    <3>1. CASE i \in DOMAIN oauths
      BY <1>1, <1>7, <3>1 DEF AccInv, RowsOK
    <3>2. CASE i = n
      BY <1>1, <1>3, <1>5, <1>7, <3>2
    <3> QED BY <1>7, <3>1, <3>2
  <2> QED
    <3>1. \A v \in DOMAIN users : \/ users[v].name # "" \/ users[v].phone # ""
                                  \/ \E i \in DOMAIN oauths : oauths[i].user = v
      BY DEF AccInv, RowsOK
    <3>2. \A v \in DOMAIN users : \/ users[v].name # "" \/ users[v].phone # ""
                                  \/ \E i \in DOMAIN oauths' : oauths'[i].user = v
      BY <1>7, <3>1
    <3>3. replaced' \subseteq (DOMAIN users') \X Phones
      BY <1>1 DEF AccInv, RowsOK
    <3> QED BY <1>1, <2>1, <3>2, <3>3 DEF RowsOK
<1>13. RequestOK(w)'
  <2>1. CASE q = Idle
    BY <1>8, <1>10, <2>1, IdleOK
  <2>2. CASE q # Idle
    BY <1>1, <1>2, <1>4, <1>5, <1>7, <1>8, <2>2 DEF RequestOK
  <2> QED BY <2>1, <2>2
<1>14. \A o \in Opens : Turn(OfOpen(o), ForOpen(o), OfOpen(o)', ForOpen(o)', w)
  <2> SUFFICES ASSUME NEW o \in Opens
               PROVE  Turn(OfOpen(o), ForOpen(o), OfOpen(o)', ForOpen(o)', w)
    OBVIOUS
  <2>1. CASE o = x
    <3>1. w \in ForOpen(o)
      BY <1>0, <1>1, <1>2, <2>1 DEF ForOpen
    <3>2. w \notin ForOpen(o)' /\ ForOpen(o)' \subseteq ForOpen(o)
      BY <1>8, <1>9 DEF ForOpen
    <3>3. OfOpen(o)' \subseteq OfOpen(o) \cup {u}
      BY <1>5, <1>7 DEF OfOpen
    <3> QED BY <3>1, <3>2, <3>3 DEF Turn
  <2>2. CASE o # x
    <3>1. ForOpen(o)' \subseteq ForOpen(o)
      BY <1>8, <1>9 DEF ForOpen
    <3>2. OfOpen(o)' \subseteq OfOpen(o)
      BY <1>5, <1>7, <2>2 DEF OfOpen
    <3> QED BY <3>1, <3>2 DEF Turn
  <2> QED BY <2>1, <2>2
<1>15. \A n1 \in {UnionOf(o) : o \in Opens} \ {""} :
           Turn(OfUnion(n1), ForUnion(n1), OfUnion(n1)', ForUnion(n1)', w)
  <2> SUFFICES ASSUME NEW n1 \in {UnionOf(o) : o \in Opens} \ {""}
               PROVE  Turn(OfUnion(n1), ForUnion(n1), OfUnion(n1)', ForUnion(n1)', w)
    OBVIOUS
  <2>1. ForUnion(n1)' \subseteq ForUnion(n1)
    BY <1>8, <1>9 DEF ForUnion
  <2>2. OfUnion(n1)' \subseteq OfUnion(n1)
    <3>1. ASSUME NEW i \in DOMAIN oauths', oauths'[i].union = n1
          PROVE  oauths'[i].user \in OfUnion(n1)
      <4>1. CASE i \in DOMAIN oauths
        BY <1>7, <3>1, <4>1 DEF OfUnion
      <4>2. CASE i = n
        BY <1>2, <1>5, <1>7, <3>1, <4>2 DEF OfUnion
      <4> QED BY <1>7, <4>1, <4>2
    <3> QED BY <3>1 DEF OfUnion
  <2> QED BY <2>1, <2>2 DEF Turn
<1>16. \A z \in Phones : Turn(OfPhone(z), ForPhone(z), OfPhone(z)', ForPhone(z)', w)
  <2>1. \A z \in Phones : ForPhone(z)' \subseteq ForPhone(z)
    BY <1>8, <1>9 DEF ForPhone
  <2>2. \A z \in Phones : OfPhone(z)' \subseteq OfPhone(z)
    BY <1>1, <1>7 DEF OfPhone
  <2> QED BY <2>1, <2>2 DEF Turn
<1>17. CountsOK'
  BY <1>14, <1>15, <1>16, CountsAfter DEF AccInv
<1> QED BY <1>1, <1>8, <1>10, <1>11, <1>12, <1>13, <1>17, RequestMoves

\* A request that found nothing, and its transaction is rolled back.
LEMMA RegisterStep ==
    ASSUME AccInv, NEW w \in Workers, Register(w)
    PROVE  AccInv'
<1>0. PICK x, p, how : x = req[w].open /\ p = req[w].phone /\ how = req[w].how
  OBVIOUS
<1>1. RequestOK(w) /\ req[w].at = "create" /\ UNCHANGED <<issued, replaced, logins>>
  BY DEF AccInv, Register
<1>2. /\ how = "sms" \/ how = "wechat"
      /\ how = "sms" => p \in Phones
      /\ how = "wechat" => x \in Openids /\ p \in OptPhones
  BY <1>0, <1>1 DEF RequestOK
<1>3. CASE Ends(w) /\ UNCHANGED <<users, oauths>>
  BY <1>1, <1>3, EndsQuietly
<1>4. ASSUME ~ (Ends(w) /\ UNCHANGED <<users, oauths>>) PROVE AccInv'
  <2>1. PICK us \in Seq(UserRow), n \in Nat : us = users /\ n = Len(us)
    BY AccTypes
  <2>0. n = Len(us)
    BY <2>1
  <2>2. PICK m \in Nat : m = n + 1
    OBVIOUS
  <2>3. PICK row : row = User("", IF how = "sms" THEN p ELSE "", "")
    OBVIOUS
  <2>4. PICK next \in {"issue", "phoneOf"} : next = IF how = "sms" THEN "issue" ELSE "phoneOf"
    OBVIOUS
  <2>5. /\ users' = Append(users, row)
        /\ oauths' = IF how = "sms" THEN oauths
                     ELSE Append(oauths, UserOAuth(m, x, UnionOf(x)))
        /\ Go(w, [req[w] EXCEPT !.at = next, !.user = m, !.blank = (how # "sms")])
    BY <1>0, <1>4, <2>1, <2>2, <2>3, <2>4 DEF Register
  <2>6. /\ row \in UserRow
        /\ how = "sms" => row.phone = p
        /\ how = "wechat" => \A z \in Phones : row.phone # z
    <3>1. "" \notin Phones
      BY AccountsAssumption
    <3> QED BY <1>2, <2>3, <3>1 DEF User, UserRow
  <2>7. /\ users' \in Seq(UserRow) /\ Len(users') = m
        /\ DOMAIN users' = 1..m /\ DOMAIN users = 1..n /\ Len(users) = n
        /\ \A i \in 1..n : users'[i] = users[i]
        /\ users'[m] = row
    <3>1. /\ Append(us, row) \in Seq(UserRow) /\ Len(Append(us, row)) = n + 1
          /\ DOMAIN Append(us, row) = 1..(n + 1) /\ DOMAIN us = 1..n
          /\ \A i \in 1..n : Append(us, row)[i] = us[i]
          /\ Append(us, row)[n + 1] = row
      <4> HIDE <2>1
      <4> QED BY <2>0, <2>6, RowAppended
    <3> QED BY <2>1, <2>2, <2>5, <3>1
  <2>8. /\ \A i \in DOMAIN users : i \in DOMAIN users'
        /\ \A i \in DOMAIN users' : i \in DOMAIN users \/ i = m
        /\ m \in DOMAIN users' /\ m # 0 /\ n <= m /\ m \in 0..Len(users') /\ m \notin DOMAIN users
    <3>1. /\ \A i \in 1..n : i \in 1..m
          /\ \A i \in 1..m : i \in 1..n \/ i = m
          /\ m \in 1..m /\ m # 0 /\ n <= m /\ m \in 0..m /\ m \notin 1..n
      BY <2>2
    <3> QED BY <2>7, <3>1
  <2>9. PICK ob \in UserOAuthRow, k \in Nat :
            how = "wechat" => /\ ob.user = m /\ ob.open = x /\ ob.union = UnionOf(x)
                              /\ oauths' = Append(oauths, ob) /\ k = Len(oauths) + 1
    <3>1. CASE how = "wechat"
      <4>1. UserOAuth(m, x, UnionOf(x)) \in UserOAuthRow
        BY <1>2, <3>1 DEF UserOAuth, UserOAuthRow
      <4>2. /\ UserOAuth(m, x, UnionOf(x)).user = m /\ UserOAuth(m, x, UnionOf(x)).open = x
            /\ UserOAuth(m, x, UnionOf(x)).union = UnionOf(x)
        BY DEF UserOAuth
      <4>3. oauths' = Append(oauths, UserOAuth(m, x, UnionOf(x)))
        BY <2>5, <3>1
      <4>4. Len(oauths) + 1 \in Nat
        BY AccTypes
      <4> QED BY <4>1, <4>2, <4>3, <4>4
    <3>2. CASE how # "wechat"
      <4>1. UserOAuth(0, "dev", UnionOf("dev")) \in UserOAuthRow
        BY DEF UserOAuth, UserOAuthRow, Openids
      <4> QED BY <3>2, <4>1
    <3> QED BY <3>1, <3>2
  <2>10. /\ how = "wechat" =>
                /\ oauths' \in Seq(UserOAuthRow)
                /\ k \in DOMAIN oauths' /\ oauths'[k] = ob
                /\ \A i \in DOMAIN oauths' : i \in DOMAIN oauths \/ i = k
         /\ how = "sms" => UNCHANGED oauths
         /\ \A i \in DOMAIN oauths : i \in DOMAIN oauths' /\ oauths'[i] = oauths[i]
    <3>1. CASE how = "wechat"
      <4>1. PICK row2 \in UserOAuthRow : row2 = ob
        OBVIOUS
      <4>2. oauths' = Append(oauths, row2) /\ k = Len(oauths) + 1
        BY <2>9, <3>1, <4>1
      <4>3. /\ oauths' \in Seq(UserOAuthRow)
            /\ \A i \in DOMAIN oauths : i \in DOMAIN oauths' /\ oauths'[i] = oauths[i]
            /\ Len(oauths) + 1 \in DOMAIN oauths' /\ oauths'[Len(oauths) + 1] = row2
            /\ \A i \in DOMAIN oauths' : i \in DOMAIN oauths \/ i = Len(oauths) + 1
        BY <4>2, BindingAdded
      <4> QED BY <3>1, <4>1, <4>2, <4>3
    <3>2. CASE how = "sms"
      BY <2>5, <3>2
    <3> QED BY <1>2, <3>1, <3>2
  <2>11. PICK r \in Request : r = req[w]
    BY AccTypes
  <2>12. PICK q : q = [r EXCEPT !.at = next, !.user = m, !.blank = (how # "sms")]
    OBVIOUS
  <2>13. /\ q \in Request /\ q.at = next /\ q.how = how /\ q.open = x /\ q.phone = p /\ q.user = m
    <3>1. next \in Places
      BY DEF Places
    <3> QED BY <1>0, <2>11, <2>12, <3>1 DEF Request
  <2>14. Moves(w, q)
    BY <2>5, <2>11, <2>12, <2>13 DEF Go, Moves
  <2>15. req' \in [Workers -> Request] /\ req'[w] = q /\ \A v \in Workers \ {w} : req'[v] = req[v]
    BY <2>14, Moved DEF AccInv
  <2>16. oauths' \in Seq(UserOAuthRow)
    BY <1>2, <2>10, AccTypes
  <2>17. AccountsTyped'
    BY <1>1, <2>7, <2>15, <2>16 DEF AccInv, AccountsTyped
  <2>18. RowsGrow
    <3>1. \A i \in DOMAIN users : users'[i] = users[i]
      BY <2>7
    <3>2. Len(users) <= Len(users')
      BY <2>7, <2>8
    <3> QED BY <1>1, <2>8, <2>10, <3>1, <3>2 DEF RowsGrow
  <2>19. RowsOK'
    <3>1. \A i \in DOMAIN oauths' : oauths'[i].user \in DOMAIN users'
      <4>1. \A i \in DOMAIN oauths : oauths'[i].user \in DOMAIN users'
        BY <2>8, <2>10 DEF AccInv, RowsOK
      <4>2. CASE how = "wechat"
        BY <2>8, <2>9, <2>10, <4>1, <4>2
      <4>3. CASE how = "sms"
        BY <2>10, <4>1, <4>3
      <4> QED BY <1>2, <4>2, <4>3
    <3>2. \A v \in DOMAIN users : \/ users'[v].name # "" \/ users'[v].phone # ""
                                  \/ \E i \in DOMAIN oauths' : oauths'[i].user = v
      <4>1. \A i \in DOMAIN users : users'[i] = users[i]
        BY <2>7
      <4> QED BY <2>10, <4>1 DEF AccInv, RowsOK
    <3>3. \/ users'[m].name # "" \/ users'[m].phone # ""
          \/ \E i \in DOMAIN oauths' : oauths'[i].user = m
      <4>1. CASE how = "wechat"
        BY <2>9, <2>10, <4>1
      <4>2. CASE how = "sms"
        <5>1. "" \notin Phones
          BY AccountsAssumption
        <5> QED BY <1>2, <2>6, <2>7, <4>2, <5>1
      <4> QED BY <1>2, <4>1, <4>2
    <3>4. replaced' \subseteq (DOMAIN users') \X Phones
      BY <1>1, <2>8 DEF AccInv, RowsOK
    <3> QED BY <2>8, <3>1, <3>2, <3>3, <3>4 DEF RowsOK
  <2>20. RequestOK(w)'
    <3>1. CASE how = "sms"
      <4>1. p # "" /\ p \in {users'[m].phone, users'[m].name}
        <5>1. "" \notin Phones
          BY AccountsAssumption
        <5> QED BY <1>2, <2>6, <2>7, <3>1, <5>1
      <4>2. next = "issue"
        BY <2>4, <3>1
      <4>3. Shows(m, p)'
        BY <4>1 DEF Shows
      <4> QED BY <1>2, <2>8, <2>13, <2>15, <3>1, <4>2, <4>3 DEF RequestOK
    <3>2. CASE how = "wechat"
      <4>1. \E i \in DOMAIN oauths' : oauths'[i].user = m /\ oauths'[i].open = x
        BY <2>9, <2>10, <3>2
      <4>2. next = "phoneOf"
        BY <2>4, <3>2
      <4> QED BY <1>2, <2>8, <2>13, <2>15, <3>2, <4>1, <4>2 DEF RequestOK
    <3> QED BY <1>2, <3>1, <3>2
  <2>21. /\ \A o : ForOpen(o)' \subseteq ForOpen(o) /\ w \notin ForOpen(o)'
         /\ \A o : ForUnion(o)' \subseteq ForUnion(o) /\ w \notin ForUnion(o)'
         /\ \A o : ForPhone(o)' \subseteq ForPhone(o) /\ w \notin ForPhone(o)'
    BY <2>13, <2>15 DEF ForOpen, ForUnion, ForPhone
  <2>22. \A o \in Opens : Turn(OfOpen(o), ForOpen(o), OfOpen(o)', ForOpen(o)', w)
    <3> SUFFICES ASSUME NEW o \in Opens
                 PROVE  Turn(OfOpen(o), ForOpen(o), OfOpen(o)', ForOpen(o)', w)
      OBVIOUS
    <3>1. CASE how = "wechat" /\ o = x
      <4>1. w \in ForOpen(o)
        BY <1>0, <1>1, <3>1 DEF ForOpen
      <4>2. OfOpen(o)' \subseteq OfOpen(o) \cup {m}
        BY <2>9, <2>10, <3>1 DEF OfOpen
      <4> QED BY <2>21, <4>1, <4>2 DEF Turn
    <3>2. CASE how = "wechat" /\ o # x
      <4>1. OfOpen(o)' \subseteq OfOpen(o)
        BY <2>9, <2>10, <3>2 DEF OfOpen
      <4> QED BY <2>21, <4>1 DEF Turn
    <3>3. CASE how = "sms"
      <4>1. OfOpen(o)' \subseteq OfOpen(o)
        BY <2>10, <3>3 DEF OfOpen
      <4> QED BY <2>21, <4>1 DEF Turn
    <3> QED BY <1>2, <3>1, <3>2, <3>3
  <2>23. \A n1 \in {UnionOf(o) : o \in Opens} \ {""} :
             Turn(OfUnion(n1), ForUnion(n1), OfUnion(n1)', ForUnion(n1)', w)
    <3> SUFFICES ASSUME NEW n1 \in {UnionOf(o) : o \in Opens} \ {""}
                 PROVE  Turn(OfUnion(n1), ForUnion(n1), OfUnion(n1)', ForUnion(n1)', w)
      OBVIOUS
    <3>1. CASE how = "wechat" /\ n1 = UnionOf(x)
      <4>1. w \in ForUnion(n1)
        BY <1>0, <1>1, <3>1 DEF ForUnion
      <4>2. OfUnion(n1)' \subseteq OfUnion(n1) \cup {m}
        BY <2>9, <2>10, <3>1 DEF OfUnion
      <4> QED BY <2>21, <4>1, <4>2 DEF Turn
    <3>2. CASE how = "wechat" /\ n1 # UnionOf(x)
      <4>1. OfUnion(n1)' \subseteq OfUnion(n1)
        BY <2>9, <2>10, <3>2 DEF OfUnion
      <4> QED BY <2>21, <4>1 DEF Turn
    <3>3. CASE how = "sms"
      <4>1. OfUnion(n1)' \subseteq OfUnion(n1)
        BY <2>10, <3>3 DEF OfUnion
      <4> QED BY <2>21, <4>1 DEF Turn
    <3> QED BY <1>2, <3>1, <3>2, <3>3
  <2>24. \A z \in Phones : Turn(OfPhone(z), ForPhone(z), OfPhone(z)', ForPhone(z)', w)
    <3> SUFFICES ASSUME NEW z \in Phones
                 PROVE  Turn(OfPhone(z), ForPhone(z), OfPhone(z)', ForPhone(z)', w)
      OBVIOUS
    <3>0. OfPhone(z)' \subseteq OfPhone(z) \cup {m}
      <4>1. \A i \in DOMAIN users : users'[i] = users[i]
        BY <2>7
      <4> QED BY <2>8, <2>10, <4>1 DEF OfPhone
    <3>1. CASE how = "sms" /\ z = p
      <4>1. w \in ForPhone(z)
        BY <1>0, <1>1, <3>1 DEF ForPhone
      <4> QED BY <2>21, <3>0, <4>1 DEF Turn
    <3>2. CASE ~ (how = "sms" /\ z = p)
      <4>1. users'[m].phone # z
        BY <1>2, <2>6, <2>7, <3>2
      <4>2. OfPhone(z)' \subseteq OfPhone(z)
        BY <3>0, <4>1 DEF OfPhone
      <4> QED BY <2>21, <4>2 DEF Turn
    <3> QED BY <3>1, <3>2
  <2>25. CountsOK'
    BY <2>22, <2>23, <2>24, CountsAfter DEF AccInv
  <2> QED BY <1>1, <2>14, <2>17, <2>18, <2>19, <2>20, <2>25, RequestMoves
<1> QED BY <1>3, <1>4

LEMMA BindPhoneStep ==
    ASSUME AccInv, NEW w \in Workers, BindPhone(w)
    PROVE  AccInv'
<1>0. PICK x, p, u : x = req[w].open /\ p = req[w].phone /\ u = req[w].user
  OBVIOUS
<1>1. RequestOK(w) /\ req[w].at = "phoneOf" /\ UNCHANGED <<oauths, issued, logins>>
  BY DEF AccInv, BindPhone
<1>2. /\ req[w].how = "wechat" /\ x \in Openids /\ p \in OptPhones /\ u # 0
      /\ \E i \in DOMAIN oauths : oauths[i].user = u /\ oauths[i].open = x
  BY <1>0, <1>1 DEF RequestOK
<1>3. u \in DOMAIN users
  BY <1>2 DEF AccInv, RowsOK
<1>4. PICK q : Goes(w, q, "issue") /\ q.user = u
  <2>1. Go(w, [req[w] EXCEPT !.at = "issue"])
    BY DEF BindPhone
  <2> QED BY <1>0, <2>1, GoesOn DEF Places
<1>5. /\ Moves(w, q) /\ req'[w] = q /\ q.at = "issue" /\ q.how = "wechat" /\ q.open = x
      /\ q.phone = p /\ q.user = u /\ req' \in [Workers -> Request]
  BY <1>0, <1>2, <1>4, Moved DEF Goes, AccInv
<1>6. PICK row : /\ Keeps(u, row) /\ users' = [users EXCEPT ![u] = row]
                 /\ replaced \subseteq replaced'
                 /\ replaced' \subseteq replaced \cup ({u} \X Phones)
  <2>1. CASE p # "" /\ req[w].blank /\ SavesPhone
    <3>1. PICK old \in UserRow : old = users[u]
      BY <1>3, AccTypes
    <3>0. replaced' = IF old.phone # "" THEN replaced \cup {<<u, old.phone>>} ELSE replaced
      BY <1>0, <2>1, <3>1 DEF BindPhone
    <3>6. old.phone = "" \/ old.phone \in Phones
      BY DEF UserRow
    <3>2. PICK row : row = [old EXCEPT !.phone = p]
      OBVIOUS
    <3>3. row \in UserRow /\ row.name = old.name
      BY <1>2, <3>2 DEF UserRow, OptPhones
    <3>4. users' = [users EXCEPT ![u] = row]
      BY <1>0, <2>1, <3>1, <3>2 DEF BindPhone
    <3>5. Keeps(u, row)
      BY <1>2, <2>1, <3>0, <3>1, <3>2, <3>3 DEF Keeps, UserRow
    <3>7. ASSUME old.phone # "" PROVE <<u, old.phone>> \in {u} \X Phones
      <4>1. PICK z \in Phones : z = old.phone
        BY <3>6, <3>7
      <4>2. <<u, z>> \in {u} \X Phones
        OBVIOUS
      <4> QED BY <4>1, <4>2
    <3>8. replaced \subseteq replaced' /\ replaced' \subseteq replaced \cup ({u} \X Phones)
      BY <3>0, <3>7
    <3> QED BY <3>4, <3>5, <3>8
  <2>2. CASE ~ (p # "" /\ req[w].blank /\ SavesPhone)
    <3>1. users' = users /\ replaced' = replaced
      BY <1>0, <2>2 DEF BindPhone
    <3>2. users = [users EXCEPT ![u] = users[u]]
      <4>1. PICK us \in Seq(UserRow) : us = users
        BY AccTypes
      <4>2. us = [us EXCEPT ![u] = us[u]]
        OBVIOUS
      <4> QED BY <4>1, <4>2
    <3>3. Keeps(u, users[u])
      <4>1. users[u] \in UserRow
        BY <1>3, AccTypes
      <4> QED BY <4>1 DEF Keeps
    <3> QED BY <3>1, <3>2, <3>3
  <2> QED BY <2>1, <2>2
<1>7. /\ users' \in Seq(UserRow) /\ Len(users') = Len(users) /\ RowsGrow /\ RowsOK'
      /\ \A z \in Phones : OfPhone(z)' \subseteq OfPhone(z)
  BY <1>1, <1>3, <1>6, EditedAccount
<1>8. AccountsTyped'
  BY <1>1, <1>5, <1>7 DEF AccInv, AccountsTyped
<1>9. u \in 0..Len(users')
  BY <1>3, <1>7, AccountIs
<1>10. RequestOK(w)'
  BY <1>1, <1>2, <1>5, <1>9 DEF RequestOK
<1>11. CountsOK'
  <2>1. q.at \notin {"union", "create", "bind"}
    BY <1>5
  <2> QED BY <1>1, <1>5, <1>7, <2>1, QuietCounts
<1> QED BY <1>1, <1>5, <1>7, <1>8, <1>10, <1>11, RequestMoves

LEMMA IssueStep ==
    ASSUME AccInv, NEW w \in Workers, Issue(w)
    PROVE  AccInv'
<1>0. PICK r : r = req[w]
  OBVIOUS
<1>1. RequestOK(w) /\ r.at = "issue" /\ UNCHANGED <<users, oauths, replaced, logins>> /\ Ends(w)
  BY <1>0 DEF AccInv, Issue
<1>2. CASE UNCHANGED issued
  BY <1>1, <1>2, EndsQuietly
<1>3. ASSUME issued' # issued PROVE AccInv'
  <2> DEFINE S == {i \in DOMAIN oauths : oauths[i].user = r.user}
  <2>0. PICK s : s = [user |-> r.user, open |-> LatestOpenID(r.user),
                      shown |-> IF r.how = "wechat" THEN r.open ELSE r.phone]
    OBVIOUS
  <2>1. issued' = issued \cup {s}
    BY <1>0, <1>3, <2>0 DEF Issue
  <2>2. Moves(w, Idle) /\ req'[w] = Idle
    BY <1>1, EndsIs
  <2>3. AccountsTyped' /\ RowsOK'
    BY <1>1, <2>2, Moved DEF AccInv, AccountsTyped, RowsOK
  <2>4. RowsGrow
    BY <1>1, SameRows
  <2>5. CountsOK'
    <3>1. Idle.at \notin {"union", "create", "bind"}
      BY DEF Idle
    <3>2. \A p \in Phones : OfPhone(p)' \subseteq OfPhone(p)
      BY <1>1 DEF OfPhone
    <3> QED BY <1>1, <2>2, <3>1, <3>2, QuietCounts
  <2>6. \A v \in Workers : RequestOK(v)'
    <3>1. RequestOK(w)'
      BY <2>2, <2>3, IdleOK
    <3>2. \A v \in Workers \ {w} : req'[v] = req[v]
      BY <2>2, Moved DEF AccInv
    <3> QED BY <2>3, <2>4, <3>1, <3>2, RequestStays
  <2>7. /\ r.user # 0 /\ r.how \in {"password", "sms", "wechat"}
        /\ r.how = "wechat" => \E i \in DOMAIN oauths : oauths[i].user = r.user
                                                        /\ oauths[i].open = r.open
        /\ r.how \in {"password", "sms"} =>
              Shows(r.user, r.phone)
        /\ r.user \in 0..Len(users)
    BY <1>0, <1>1 DEF RequestOK
  <2>8. r.user \in DOMAIN users
    <3>1. PICK n \in Nat : n = Len(users) /\ DOMAIN users = 1..n
      BY AccTypes
    <3>2. PICK u : u = r.user
      OBVIOUS
    <3>3. u \in 0..n /\ u # 0
      BY <2>7, <3>1, <3>2
    <3>4. u \in 1..n
      <4> HIDE <2>1, <2>7 DEF S
      <4> QED BY <3>3
    <3> QED BY <3>1, <3>2, <3>4
  <2>9. LatestOpenID(r.user) = "" \/ \E i \in DOMAIN oauths :
            oauths[i].user = r.user /\ oauths[i].open = LatestOpenID(r.user)
    <3>1. CASE S = {}
      BY <3>1 DEF LatestOpenID
    <3>2. CASE S # {}
      <4>1. \E m \in S : \A j \in S : j <= m
        <5>1. oauths \in Seq(UserOAuthRow) /\ S \in SUBSET DOMAIN oauths
          BY AccTypes
        <5>2. IsFiniteSet(S) /\ Numbered(S)
          <6> HIDE DEF S
          <6> QED BY <5>1, FirstRow
        <5> HIDE DEF S
        <5> QED BY <3>2, <5>2, GreatestNumber
      <4>2. PICK m : m = CHOOSE i \in S : \A j \in S : j <= i
        OBVIOUS
      <4>3. m \in S
        BY <4>1, <4>2
      <4>4. LatestOpenID(r.user) = oauths[m].open
        BY <3>2, <4>2 DEF LatestOpenID
      <4> QED BY <4>3, <4>4
    <3> QED BY <3>1, <3>2
  <2>10. SessionOK(s)
    <3>1. /\ s.user = r.user /\ s.open = LatestOpenID(r.user)
          /\ r.how = "wechat" => s.shown = r.open
          /\ r.how # "wechat" => s.shown = r.phone
      BY <2>0
    <3> HIDE DEF S
    <3>2. CASE r.how = "wechat"
      BY <2>7, <2>8, <2>9, <3>1, <3>2 DEF SessionOK
    <3>3. CASE r.how # "wechat"
      BY <2>7, <2>8, <2>9, <3>1, <3>3 DEF SessionOK
    <3> QED BY <3>2, <3>3
  <2>11. \A x \in issued' : SessionOK(x)'
    <3>1. SessionOK(s)'
      BY <2>4, <2>10, SessionStays
    <3>2. \A x \in issued : SessionOK(x)'
      BY <2>4, SessionStays DEF AccInv
    <3> QED BY <2>1, <3>1, <3>2
  <2> QED BY <2>3, <2>5, <2>6, <2>11 DEF AccInv
<1> QED BY <1>2, <1>3

LEMMA EnsureFindStep ==
    ASSUME AccInv, NEW w \in Workers, EnsureFind(w)
    PROVE  AccInv'
<1> DEFINE T == {i \in DOMAIN users : users[i].name = "admin"}
<1>1. PICK u : u = FirstOf(T)
  OBVIOUS
<1>2. users \in Seq(UserRow) /\ T \in SUBSET DOMAIN users
  BY AccTypes
<1>3. u = 0 \/ u \in DOMAIN users
  <2> HIDE DEF T
  <2> QED BY <1>1, <1>2, FirstRow
<1>4. PICK n \in Nat : n = Len(users)
  BY AccTypes
<1>5. u \in 0..n /\ u \in Nat
  <2>1. CASE u = 0
    BY <2>1
  <2>2. CASE u \in DOMAIN users
    BY <1>4, <2>2, AccountIs
  <2> QED BY <1>3, <2>1, <2>2
<1>6. PICK q : q = [Idle EXCEPT !.at = "admin", !.how = "admin", !.user = u]
  OBVIOUS
<1>7. Starts(w, q) /\ UNCHANGED <<users, oauths, issued, replaced>>
  BY <1>1, <1>6 DEF EnsureFind
<1> HIDE DEF T
<1>8. q \in Request /\ q.at = "admin" /\ q.how = "admin" /\ q.user = u
  <2>1. PICK ask \in Request : ask = Idle
    BY IdleUser
  <2>2. LET x == [ask EXCEPT !.at = "admin", !.how = "admin", !.user = u]
        IN  x \in Request /\ x.at = "admin" /\ x.how = "admin" /\ x.user = u
    BY <1>5 DEF Request, Places
  <2> QED BY <1>6, <2>1, <2>2
<1>9. Moves(w, q) /\ logins' \in 0..MaxLogins /\ req'[w] = q
  BY <1>7, <1>8, StartsIs
<1>10. RequestOK(w)'
  BY <1>4, <1>5, <1>7, <1>8, <1>9 DEF RequestOK
<1> QED BY <1>7, <1>8, <1>9, <1>10, QuietStep

\* An account is changed, and its name and phone are not.
LEMMA AccountChanges ==
    ASSUME AccInv, NEW u \in DOMAIN users, NEW row \in UserRow,
           row.name = users[u].name, row.phone = users[u].phone,
           users' = [users EXCEPT ![u] = row], UNCHANGED <<oauths, replaced>>
    PROVE  /\ users' \in Seq(UserRow) /\ Len(users') = Len(users) /\ RowsGrow /\ RowsOK'
           /\ \A z \in Phones : OfPhone(z)' \subseteq OfPhone(z)
<1>1. Keeps(u, row)
  BY DEF Keeps
<1> QED BY <1>1, EditedAccount

LEMMA EnsureWriteStep ==
    ASSUME AccInv, NEW w \in Workers, EnsureWrite(w)
    PROVE  AccInv'
<1>0. PICK u : u = req[w].user
  OBVIOUS
<1>1. /\ RequestOK(w) /\ req[w].at = "admin" /\ UNCHANGED <<oauths, issued, replaced, logins>>
      /\ Ends(w)
      /\ users' = IF u = 0 THEN Append(users, User("admin", "", "secret"))
                  ELSE [users EXCEPT ![u].pw = "secret", ![u].on = TRUE]
  BY <1>0 DEF AccInv, EnsureWrite
<1>2. Moves(w, Idle) /\ req'[w] = Idle /\ logins' \in 0..MaxLogins
  BY <1>1, EndsIs, AccTypes
<1>3. CASE u = 0
  <2>1. Named(User("admin", "", "secret"))
    BY DEF Named, User, UserRow, Names, Passwords
  <2>2. users' = Append(users, User("admin", "", "secret"))
    BY <1>1, <1>3
  <2> QED BY <1>1, <1>2, <2>1, <2>2, NamedAccount
<1>4. CASE u # 0
  <2>1. u \in DOMAIN users
    <3>1. PICK n \in Nat : n = Len(users) /\ DOMAIN users = 1..n
      BY AccTypes
    <3>2. u \in 0..Len(users)
      BY <1>0, <1>1 DEF RequestOK
    <3> HIDE <1>1
    <3> QED BY <1>4, <3>1, <3>2
  <2>2. PICK us \in Seq(UserRow), old \in UserRow : us = users /\ old = users[u]
    BY <2>1, AccTypes
  <2>3. PICK row : row = [old EXCEPT !.pw = "secret", !.on = TRUE]
    OBVIOUS
  <2>4. row \in UserRow /\ row.name = old.name /\ row.phone = old.phone
    BY <2>3 DEF UserRow, Passwords
  <2>5. users' = [users EXCEPT ![u] = row]
    <3>1. users' = [us EXCEPT ![u].pw = "secret", ![u].on = TRUE]
      BY <1>1, <1>4, <2>2
    <3>2. PICK mid \in UserRow : mid = [old EXCEPT !.pw = "secret"]
      BY DEF UserRow, Passwords
    <3>3. [us EXCEPT ![u].pw = "secret"] = [us EXCEPT ![u] = mid]
      BY <2>1, <2>2, <3>2
    <3>4. [[us EXCEPT ![u] = mid] EXCEPT ![u].on = TRUE] = [us EXCEPT ![u] = row]
      BY <2>1, <2>2, <2>3, <3>2
    <3> QED BY <2>2, <3>1, <3>3, <3>4
  <2>6. /\ users' \in Seq(UserRow) /\ Len(users') = Len(users) /\ RowsGrow /\ RowsOK'
        /\ \A z \in Phones : OfPhone(z)' \subseteq OfPhone(z)
    BY <1>1, <2>1, <2>2, <2>4, <2>5, AccountChanges
  <2>7. AccountsTyped'
    BY <1>1, <1>2, <2>6, Moved DEF AccInv, AccountsTyped
  <2>8. RequestOK(w)'
    BY <1>2, <2>7, IdleOK
  <2>9. CountsOK'
    <3>1. Idle.at \notin {"union", "create", "bind"}
      BY DEF Idle
    <3> QED BY <1>1, <1>2, <2>6, <3>1, QuietCounts
  <2> QED BY <1>1, <1>2, <2>6, <2>7, <2>8, <2>9, RequestMoves
<1> QED BY <1>3, <1>4

\* The host's changes of an account, which no request takes part in.
LEMMA HostStep ==
    ASSUME AccInv, NEW u \in DOMAIN users, NEW row \in UserRow,
           row.name = users[u].name, row.phone = users[u].phone,
           users' = [users EXCEPT ![u] = row], UNCHANGED <<oauths, req, issued, replaced, logins>>
    PROVE  AccInv'
<1>1. /\ users' \in Seq(UserRow) /\ Len(users') = Len(users) /\ RowsGrow /\ RowsOK'
      /\ \A z \in Phones : OfPhone(z)' \subseteq OfPhone(z)
  BY AccountChanges
<1>2. AccountsTyped'
  BY <1>1 DEF AccInv, AccountsTyped
<1>3. \A v \in Workers : RequestOK(v)'
  BY <1>1, <1>2, RequestStays
<1>4. \A s \in issued' : SessionOK(s)'
  BY <1>1, SessionStays DEF AccInv
<1>5. CountsOK'
  <2>1. \A o : OfOpen(o)' \subseteq OfOpen(o) /\ ForOpen(o)' \subseteq ForOpen(o)
    BY DEF OfOpen, ForOpen
  <2>2. \A o : OfUnion(o)' \subseteq OfUnion(o) /\ ForUnion(o)' \subseteq ForUnion(o)
    BY DEF OfUnion, ForUnion
  <2>3. \A o : ForPhone(o)' \subseteq ForPhone(o)
    BY DEF ForPhone
  <2>4. PICK w : TRUE
    OBVIOUS
  <2>5. /\ \A o \in Opens : Turn(OfOpen(o), ForOpen(o), OfOpen(o)', ForOpen(o)', w)
        /\ \A n \in {UnionOf(o) : o \in Opens} \ {""} :
               Turn(OfUnion(n), ForUnion(n), OfUnion(n)', ForUnion(n)', w)
        /\ \A p \in Phones : Turn(OfPhone(p), ForPhone(p), OfPhone(p)', ForPhone(p)', w)
    BY <1>1, <2>1, <2>2, <2>3 DEF Turn
  <2> QED BY <2>5, CountsAfter DEF AccInv
<1> QED BY <1>1, <1>2, <1>3, <1>4, <1>5 DEF AccInv

LEMMA DisableStep ==
    ASSUME AccInv, NEW u \in DOMAIN users, Disable(u)
    PROVE  AccInv'
<1>1. PICK us \in Seq(UserRow), old \in UserRow : us = users /\ old = users[u]
  BY AccTypes
<1>2. PICK row : row = [old EXCEPT !.on = FALSE]
  OBVIOUS
<1>3. row \in UserRow /\ row.name = old.name /\ row.phone = old.phone
  BY <1>2 DEF UserRow
<1>4. users' = [users EXCEPT ![u] = row] /\ UNCHANGED <<oauths, req, issued, replaced, logins>>
  BY <1>1, <1>2 DEF Disable
<1> QED BY <1>1, <1>3, <1>4, HostStep

LEMMA ChangePasswordStep ==
    ASSUME AccInv, NEW u \in DOMAIN users, NEW old, NEW pw \in Passwords, ChangePassword(u, old, pw)
    PROVE  AccInv'
<1>1. PICK us \in Seq(UserRow), was \in UserRow : us = users /\ was = users[u]
  BY AccTypes
<1>2. PICK row : row = [was EXCEPT !.pw = pw]
  OBVIOUS
<1>3. row \in UserRow /\ row.name = was.name /\ row.phone = was.phone
  BY <1>2 DEF UserRow
<1>4. users' = [users EXCEPT ![u] = row] /\ UNCHANGED <<oauths, req, issued, replaced, logins>>
  BY <1>1, <1>2 DEF ChangePassword
<1> QED BY <1>1, <1>3, <1>4, HostStep

LEMMA AccountStep ==
    ASSUME AccInv, AccountNext
    PROVE  AccInv'
<1>1. ASSUME NEW w \in Workers, NEW name \in Names, NEW pw \in {"weak", "good1"},
             RegisterPassword(w, name, pw)
      PROVE  AccInv'
  BY <1>1, RegisterPasswordStep
<1>2. ASSUME NEW w \in Workers,
             PasswordLogin(w, "admin", "secret") \/ PasswordLogin(w, "ann", "good1")
      PROVE  AccInv'
  BY <1>2, PasswordLoginStep DEF Names
<1>3. ASSUME NEW w \in Workers, NEW p \in Phones, SMSCodeLogin(w, p) PROVE AccInv'
  BY <1>3, SMSCodeLoginStep
<1>4. ASSUME NEW w \in Workers, NEW c \in Creds, NEW o \in Openids, NEW p \in Phones \cup {""},
             MiniAppLogin(w, c, o, p)
      PROVE  AccInv'
  BY <1>4, MiniAppLoginStep
<1>5. ASSUME NEW w \in Workers,
             \/ LookUpPhone(w) \/ LookUpOpen(w) \/ LookUpUnion(w) \/ Bind(w) \/ Register(w)
             \/ BindPhone(w) \/ Issue(w) \/ EnsureFind(w) \/ EnsureWrite(w)
      PROVE  AccInv'
  BY <1>5, LookUpPhoneStep, LookUpOpenStep, LookUpUnionStep, BindStep, RegisterStep,
     BindPhoneStep, IssueStep, EnsureFindStep, EnsureWriteStep
<1>6. ASSUME NEW u \in DOMAIN users,
             \/ Disable(u) \/ ChangePassword(u, "good1", "good2")
             \/ ChangePassword(u, "good2", "good1")
      PROVE  AccInv'
  <2>1. {"good1", "good2"} \subseteq Passwords
    BY DEF Passwords
  <2> QED BY <1>6, <2>1, DisableStep, ChangePasswordStep
<1> QED BY <1>1, <1>2, <1>3, <1>4, <1>5, <1>6 DEF AccountNext

LEMMA AccountStutters ==
    ASSUME AccInv, UNCHANGED accountVars
    PROVE  AccInv'
<1>1. UNCHANGED <<users, oauths, req, issued, replaced, logins>>
  BY DEF accountVars
<1>2. AccountsTyped' /\ RowsOK'
  BY <1>1 DEF AccInv, AccountsTyped, RowsOK
<1>3. RowsGrow
  BY <1>1, SameRows
<1>4. \A v \in Workers : RequestOK(v)'
  BY <1>1, <1>2, <1>3, RequestStays
<1>5. \A s \in issued' : SessionOK(s)'
  BY <1>1, <1>3, SessionStays DEF AccInv
<1>6. CountsOK'
  <2>1. \A o : OfOpen(o)' = OfOpen(o) /\ ForOpen(o)' = ForOpen(o)
    BY <1>1 DEF OfOpen, ForOpen
  <2>2. \A o : OfUnion(o)' = OfUnion(o) /\ ForUnion(o)' = ForUnion(o)
    BY <1>1 DEF OfUnion, ForUnion
  <2>3. \A o : OfPhone(o)' = OfPhone(o) /\ ForPhone(o)' = ForPhone(o)
    BY <1>1 DEF OfPhone, ForPhone
  <2> QED BY <2>1, <2>2, <2>3 DEF AccInv, CountsOK, Few
<1> QED BY <1>2, <1>4, <1>5, <1>6 DEF AccInv

LEMMA AccountsStart ==
    AccountInit => AccInv
<1> SUFFICES ASSUME AccountInit PROVE AccInv
  OBVIOUS
<1>1. /\ users = <<>> /\ oauths = <<>> /\ issued = {} /\ replaced = {} /\ logins = 0
      /\ DOMAIN users = {}
      /\ DOMAIN oauths = {} /\ Len(users) = 0
      /\ \A w \in Workers : req[w] = Idle
  BY DEF AccountInit
<1>2. AccountsTyped
  <2>1. 0 \in 0..MaxLogins
    BY Bounded1
  <2>2. req \in [Workers -> Request]
    BY IdleIs DEF AccountInit
  <2> QED BY <1>1, <2>1, <2>2 DEF AccountsTyped
<1>3. RowsOK
  BY <1>1 DEF RowsOK
<1>4. CountsOK
  <2>1. \A o : OfOpen(o) = {} /\ OfUnion(o) = {} /\ OfPhone(o) = {}
    BY <1>1 DEF OfOpen, OfUnion, OfPhone
  <2>2. \A o : /\ ForOpen(o) \subseteq Workers /\ ForUnion(o) \subseteq Workers
               /\ ForPhone(o) \subseteq Workers
    BY DEF ForOpen, ForUnion, ForPhone
  <2> QED BY <2>1, <2>2, NoneYet DEF CountsOK
<1>5. \A w \in Workers : RequestOK(w)
  <2> SUFFICES ASSUME NEW w \in Workers PROVE RequestOK(w)
    OBVIOUS
  <2>0. PICK r : r = req[w]
    OBVIOUS
  <2>1. r = req[w] /\ r.at = "idle" /\ r.how = "" /\ r.user = 0
    <3>1. r = Idle
      BY <1>1, <2>0
    <3>2. Idle.at = "idle" /\ Idle.how = "" /\ Idle.user = 0
      BY DEF Idle
    <3> QED BY <2>0, <3>1, <3>2
  <2>2. 0 \in 0..Len(users)
    BY <1>1
  <2> QED BY <2>1, <2>2 DEF RequestOK
<1> QED BY <1>1, <1>2, <1>3, <1>4, <1>5 DEF AccInv

LEMMA AccountsAreRight ==
    AccInv => AccountTypeOK /\ AccountsHold
<1> SUFFICES ASSUME AccInv PROVE AccountTypeOK /\ AccountsHold
  OBVIOUS
<1>1. AccountTypeOK
  <2>1. oauths \in Seq([user : DOMAIN users, open : Openids, union : {UnionOf(o) : o \in Openids}])
    <3>1. PICK n \in Nat : n = Len(oauths) /\ DOMAIN oauths = 1..n
      BY AccTypes
    <3>2. \A i \in 1..n : oauths[i] \in [user : DOMAIN users, open : Openids,
                                         union : {UnionOf(o) : o \in Openids}]
      <4> SUFFICES ASSUME NEW i \in 1..n
                   PROVE  oauths[i] \in [user : DOMAIN users, open : Openids,
                                         union : {UnionOf(o) : o \in Openids}]
        OBVIOUS
      <4>1. oauths[i] \in UserOAuthRow
        BY <3>1, AccTypes
      <4>2. oauths[i].user \in DOMAIN users
        BY <3>1 DEF AccInv, RowsOK
      <4> QED BY <4>1, <4>2 DEF UserOAuthRow
    <3>6. PICK T :
              T = [user : DOMAIN users, open : Openids, union : {UnionOf(o) : o \in Openids}]
      OBVIOUS
    <3>3. PICK oa \in Seq(UserOAuthRow) : oa = oauths /\ Len(oa) = n
      BY <3>1, AccTypes
    <3>4. Len(oa) = n /\ \A i \in 1..n : oa[i] \in T
      BY <3>2, <3>3, <3>6
    <3>5. oa \in Seq(T)
      <4> HIDE <3>3, <3>6
      <4> QED BY <3>4
    <3> QED BY <3>3, <3>5, <3>6
  <2>2. \A w \in Workers : req[w].at \in Places /\ req[w].user \in 0..Len(users)
    BY DEF AccInv, AccountsTyped, Request, RequestOK
  <2> QED BY <2>1, <2>2, AccTypes DEF AccountTypeOK, UserRow, RowsOK
<1>2. DuplicatesAreBounded
  <2>1. ASSUME NEW B, NEW P, Few(B, P) PROVE Cardinality(B) <= Cardinality(Workers)
    <3>1. IsFiniteSet(B) /\ P \subseteq Workers /\ IsFiniteSet(Workers)
      BY <2>1, AccountsAssumption DEF Few
    <3>2. PICK b \in Nat, p \in Nat, n \in Nat :
              b = Cardinality(B) /\ p = Cardinality(P) /\ n = Cardinality(Workers)
      BY <3>1, FS_Subset, FS_CardinalityType
    <3> QED BY <2>1, <3>2 DEF Few
  <2>2. \A o \in Opens : Cardinality(OfOpen(o)) <= Cardinality(Workers)
    BY <2>1 DEF AccInv, CountsOK
  <2>3. \A n \in {UnionOf(o) : o \in Opens} \ {""} : Cardinality(OfUnion(n)) <= Cardinality(Workers)
    BY <2>1 DEF AccInv, CountsOK
  <2>4. \A p \in Phones : Cardinality(OfPhone(p)) <= Cardinality(Workers)
    BY <2>1 DEF AccInv, CountsOK
  <2> QED BY <2>2, <2>3, <2>4 DEF DuplicatesAreBounded, OfOpen, OfUnion, OfPhone
<1>3. SessionsMatch
  <2>1. \A s \in {x \in issued : x.user # 0} :
          /\ \/ s.shown \in {users[s.user].phone, users[s.user].name}
             \/ <<s.user, s.shown>> \in replaced
             \/ \E i \in DOMAIN oauths : oauths[i].user = s.user /\ oauths[i].open = s.shown
          /\ \/ s.open = ""
             \/ \E i \in DOMAIN oauths : oauths[i].user = s.user /\ oauths[i].open = s.open
    BY DEF AccInv, SessionOK, Shows
  <2> QED BY <2>1 DEF SessionsMatch, AccInv, RowsOK
<1> QED BY <1>1, <1>2, <1>3 DEF AccountsHold

-----------------------------------------------------------------------------
(* Memberships, apps and limits that are remembered *)

\* What was let through from a to b.
Within(P, a, b) == [u \in 1..MaxClock |-> IF a <= u /\ u <= b THEN P[u] ELSE 0]
Passes(P, a, b) == Total(Within(P, a, b))

LEMMA ClockIs ==
    /\ MaxClock \in Nat /\ MaxClock >= 1 /\ RateWindow \in Nat /\ RateWindow >= 1
    /\ Limit \in Nat /\ Limit >= 1 /\ IsFiniteSet(1..MaxClock)
<1>1. MaxClock \in Nat /\ MaxClock # 0 /\ RateWindow \in Nat /\ RateWindow # 0
      /\ Limit \in Nat /\ Limit # 0
  BY GuardsAssumption
<1> QED BY <1>1, FS_Interval

LEMMA WithinIs ==
    ASSUME NEW P \in [1..MaxClock -> Nat], NEW a \in Int, NEW b \in Int
    PROVE  /\ Within(P, a, b) \in [1..MaxClock -> Nat]
           /\ Within(P, a, b) \in [1..MaxClock -> Int]
           /\ \A u \in 1..MaxClock : /\ a <= u /\ u <= b => Within(P, a, b)[u] = P[u]
                                     /\ ~ (a <= u /\ u <= b) => Within(P, a, b)[u] = 0
BY DEF Within

LEMMA PassesNat ==
    ASSUME NEW P \in [1..MaxClock -> Nat], NEW a \in Int, NEW b \in Int
    PROVE  /\ Passes(P, a, b) \in Nat
           /\ \A e \in 1..MaxClock : a <= e /\ e <= b => P[e] <= Passes(P, a, b)
<1> DEFINE F == Within(P, a, b)
<1>1. F \in [1..MaxClock -> Nat] /\ \A e \in 1..MaxClock : a <= e /\ e <= b => F[e] = P[e]
  BY WithinIs
<1>2. IsFiniteSet(1..MaxClock)
  BY ClockIs
<1>3. Passes(P, a, b) = Total(F)
  BY DEF Passes
<1> HIDE DEF F
<1>4. Total(F) \in Nat /\ \A e \in 1..MaxClock : F[e] <= Total(F)
  BY <1>1, <1>2, TotalNat
<1>5. ASSUME NEW e \in 1..MaxClock, a <= e, e <= b PROVE P[e] <= Total(F)
  BY <1>1, <1>4, <1>5
<1> QED BY <1>3, <1>4, <1>5

LEMMA PassesNone ==
    ASSUME NEW P \in [1..MaxClock -> Nat], NEW a \in Int, NEW b \in Int,
           \A u \in 1..MaxClock : a <= u /\ u <= b => P[u] = 0
    PROVE  Passes(P, a, b) = 0
<1> DEFINE F == Within(P, a, b)
<1>1. F \in [1..MaxClock -> Int] /\ \A u \in 1..MaxClock : F[u] = 0
  <2>1. ASSUME NEW u \in 1..MaxClock PROVE F[u] = 0
    <3>1. CASE a <= u /\ u <= b
      BY <3>1, WithinIs
    <3>2. CASE ~ (a <= u /\ u <= b)
      BY <3>2, WithinIs
    <3> QED BY <3>1, <3>2
  <2> QED BY <2>1, WithinIs
<1>2. IsFiniteSet(1..MaxClock)
  BY ClockIs
<1>3. Passes(P, a, b) = Total(F)
  BY DEF Passes
<1> HIDE DEF F
<1> QED BY <1>1, <1>2, <1>3, TotalZero

LEMMA PlusTotal ==
    ASSUME NEW S, IsFiniteSet(S), NEW F, NEW G, NEW H, Plus(H, F, G, S)
    PROVE  Total(H) = Total(F) + Total(G)
<1>1. /\ F \in [S -> Int] /\ G \in [S -> Int] /\ H \in [S -> Int]
      /\ \A x \in S : H[x] = F[x] + G[x]
  BY DEF Plus
<1> QED BY ONLY <1>1, IsFiniteSet(S), TotalPlus

\* c follows d.
LEMMA PassesSplit ==
    ASSUME NEW P \in [1..MaxClock -> Nat], NEW a \in Int, NEW d \in Int, NEW c \in Int,
           NEW b \in Int,
           c = d + 1, a <= c, d <= b
    PROVE  Passes(P, a, b) = Passes(P, a, d) + Passes(P, c, b)
<1> DEFINE F == Within(P, a, d)
           G == Within(P, c, b)
           H == Within(P, a, b)
<1>1. F \in [1..MaxClock -> Int] /\ G \in [1..MaxClock -> Int] /\ H \in [1..MaxClock -> Int]
  BY WithinIs
<1>2. ASSUME NEW u \in 1..MaxClock PROVE H[u] = F[u] + G[u]
  <2>1. PICK p \in Nat : p = P[u]
    OBVIOUS
  <2>2. /\ F[u] = IF a <= u /\ u <= d THEN p ELSE 0
        /\ G[u] = IF c <= u /\ u <= b THEN p ELSE 0
        /\ H[u] = IF a <= u /\ u <= b THEN p ELSE 0
    BY <2>1 DEF Within
  <2> QED BY <2>2
<1>3. IsFiniteSet(1..MaxClock)
  BY ClockIs
<1>4. Passes(P, a, b) = Total(H) /\ Passes(P, a, d) = Total(F) /\ Passes(P, c, b) = Total(G)
  BY DEF Passes
<1> HIDE DEF F, G, H
<1>5. PICK S : S = 1..MaxClock
  OBVIOUS
<1>6. IsFiniteSet(S) /\ Plus(H, F, G, S)
  BY <1>1, <1>2, <1>3, <1>5 DEF Plus
<1>7. Total(H) = Total(F) + Total(G)
  BY ONLY <1>6, PlusTotal
<1> QED BY <1>4, <1>7

LEMMA PassesMore ==
    ASSUME NEW P \in [1..MaxClock -> Nat], NEW a \in Int, NEW b \in Int, NEW c \in Int,
           NEW d \in Int,
           c <= a, b <= d
    PROVE  Passes(P, a, b) <= Passes(P, c, d)
<1>1. PICK a0 \in Int, b1 \in Int : a = a0 + 1 /\ b1 = b + 1
  <2>1. a - 1 \in Int /\ a = (a - 1) + 1 /\ b + 1 \in Int
    OBVIOUS
  <2> QED BY <2>1
<1>2. CASE a0 <= b
  <2>1. Passes(P, c, d) = Passes(P, c, a0) + Passes(P, a, d)
    <3>1. c <= a /\ a0 <= d
      BY <1>1, <1>2
    <3> QED
      BY ONLY <1>1, <3>1, PassesSplit, P \in [1..MaxClock -> Nat], c \in Int, a0 \in Int,
              a \in Int, d \in Int
  <2>2. Passes(P, a, d) = Passes(P, a, b) + Passes(P, b1, d)
    <3>1. a <= b1
      BY <1>1, <1>2
    <3> QED
      BY ONLY <1>1, <3>1, b <= d, PassesSplit, P \in [1..MaxClock -> Nat], b \in Int, b1 \in Int,
              a \in Int, d \in Int
  <2>3. PICK x \in Nat, y \in Nat, z \in Nat :
            x = Passes(P, c, a0) /\ y = Passes(P, a, b) /\ z = Passes(P, b1, d)
    BY PassesNat
  <2> QED BY <2>1, <2>2, <2>3
<1>3. CASE ~ (a0 <= b)
  <2>1. \A u \in 1..MaxClock : ~ (a <= u /\ u <= b)
    BY <1>1, <1>3
  <2>2. Passes(P, a, b) = 0
    BY <2>1, PassesNone
  <2> QED BY <2>2, PassesNat
<1> QED BY <1>2, <1>3

\* Nothing is let through after the last moment, nor more from later on.
LEMMA PassesTo ==
    ASSUME NEW P \in [1..MaxClock -> Nat], NEW a \in Int, NEW b \in Int, NEW c \in Int, c <= a
    PROVE  Passes(P, a, b) <= Passes(P, c, MaxClock)
<1> USE ClockIs
<1>1. CASE b <= MaxClock
  BY <1>1, PassesMore
<1>2. CASE MaxClock < b
  <2>1. Within(P, a, b) = Within(P, a, MaxClock)
    <3>1. \A u \in 1..MaxClock : (a <= u /\ u <= b) <=> (a <= u /\ u <= MaxClock)
      BY <1>2
    <3> QED BY <3>1 DEF Within
  <2>2. Passes(P, a, b) = Passes(P, a, MaxClock)
    BY <2>1 DEF Passes
  <2>3. Passes(P, a, MaxClock) <= Passes(P, c, MaxClock)
    BY PassesMore
  <2> QED BY <2>2, <2>3
<1> QED BY <1>1, <1>2

\* One more is let through at one time.
OneAt(P, Q, tm) ==
    /\ Q \in [1..MaxClock -> Nat] /\ Q[tm] = P[tm] + 1
    /\ \A u \in (1..MaxClock) \ {tm} : Q[u] = P[u]

LEMMA PassesPlus ==
    ASSUME NEW P \in [1..MaxClock -> Nat], NEW Q, NEW tm \in 1..MaxClock, OneAt(P, Q, tm),
           NEW a \in Int, NEW b \in Int
    PROVE  Passes(Q, a, b) = Passes(P, a, b) + (IF a <= tm /\ tm <= b THEN 1 ELSE 0)
<1>1. Q \in [1..MaxClock -> Nat] /\ Q[tm] = P[tm] + 1
      /\ \A u \in (1..MaxClock) \ {tm} : Q[u] = P[u]
  BY DEF OneAt
<1>2. PICK F \in [1..MaxClock -> Int], G \in [1..MaxClock -> Int] :
          F = Within(P, a, b) /\ G = Within(Q, a, b)
  <2>1. Within(P, a, b) \in [1..MaxClock -> Int]
    BY WithinIs
  <2>2. Within(Q, a, b) \in [1..MaxClock -> Int]
    BY <1>1, WithinIs
  <2> QED BY ONLY <2>1, <2>2
<1>3. \A u \in (1..MaxClock) \ {tm} : G[u] = F[u]
  BY <1>1, <1>2 DEF Within
<1>4. Total(G) = Total(F) - F[tm] + G[tm]
  BY <1>2, <1>3, ClockIs, TotalChange
<1>5. PICK p \in Nat : p = P[tm]
  OBVIOUS
<1>6. /\ F[tm] = IF a <= tm /\ tm <= b THEN p ELSE 0
      /\ G[tm] = IF a <= tm /\ tm <= b THEN p + 1 ELSE 0
  BY <1>1, <1>2, <1>5 DEF Within
<1>7. PICK x \in Nat, y \in Nat : x = Total(F) /\ y = Total(G)
  BY <1>1, <1>2, PassesNat DEF Passes
<1>8. Total(G) = Total(F) + (IF a <= tm /\ tm <= b THEN 1 ELSE 0)
  BY <1>4, <1>5, <1>6, <1>7
<1> QED BY <1>2, <1>8 DEF Passes

-----------------------------------------------------------------------------
\* In no time as long as a window is twice the limit let through; before a
\* counter was set, less than the limit in a time that reaches it.
Fits(P) ==
    \A t \in 1..MaxClock : Passes(P, t, t + RateWindow - 1) < 2 * Limit
Led(P, s) ==
    \A t \in 1..MaxClock : t < s /\ s < t + RateWindow => Passes(P, t, s - 1) <= Limit - 1

LEMMA LedFits ==
    ASSUME NEW P \in [1..MaxClock -> Nat], NEW Q, NEW tm \in 1..MaxClock, OneAt(P, Q, tm),
           NEW s \in 1..MaxClock, s <= tm, Fits(P), Led(P, s), Passes(Q, s, MaxClock) <= Limit
    PROVE  Fits(Q) /\ Led(Q, s)
<1>1. Q \in [1..MaxClock -> Nat]
  BY DEF OneAt
<1>2. PICK w \in Nat, l \in Nat : w = RateWindow /\ l = Limit /\ w >= 1 /\ l >= 1
  BY ClockIs
<1>3. PICK r \in Int : s = r + 1
  <2>1. s - 1 \in Int /\ s = (s - 1) + 1
    OBVIOUS
  <2> QED BY <2>1
<1>4. r = s - 1
  BY <1>3
<1>5. ASSUME NEW t \in 1..MaxClock, NEW e \in Int, e < tm PROVE Passes(Q, t, e) = Passes(P, t, e)
  <2>1. Passes(P, t, e) \in Nat
    BY PassesNat
  <2>2. ~ (tm <= e)
    BY <1>5
  <2> QED BY <2>1, <2>2, PassesPlus
<1>6. ASSUME NEW t \in 1..MaxClock, t < s, s < t + RateWindow PROVE Passes(Q, t, r) <= Limit - 1
  <2>1. Passes(P, t, r) <= Limit - 1
    BY <1>4, <1>6 DEF Led
  <2>2. r < tm
    BY <1>4
  <2> QED BY <1>5, <2>1, <2>2
<1>7. Led(Q, s)
  BY <1>4, <1>6 DEF Led
<1>8. ASSUME NEW t \in 1..MaxClock, NEW e \in Int, e = t + w - 1 PROVE Passes(Q, t, e) < 2 * l
  <2>1. PICK all \in Nat : all = Passes(Q, s, MaxClock) /\ all <= l
    <3>1. Passes(Q, s, MaxClock) \in Nat
      BY ONLY <1>1, ClockIs, PassesNat, s \in Int
    <3> QED BY <1>2, <3>1
  <2>2. CASE s <= t
    <3>1. Passes(Q, t, e) <= all
      BY <1>1, <2>1, <2>2, PassesTo
    <3>2. Passes(Q, t, e) \in Nat
      BY <1>1, PassesNat
    <3> QED BY <1>2, <2>1, <3>1, <3>2
  <2>3. CASE t < s /\ s <= e
    <3>1. Passes(Q, t, e) = Passes(Q, t, r) + Passes(Q, s, e)
      <4>1. t <= s /\ r <= e
        BY <1>4, <2>3
      <4> QED
        BY ONLY <1>1, <1>3, <4>1, PassesSplit, t \in Int, s \in Int, e \in Int, r \in Int
    <3>2. PICK x \in Nat, y \in Nat : x = Passes(Q, t, r) /\ y = Passes(Q, s, e)
      <4>1. Passes(Q, t, r) \in Nat /\ Passes(Q, s, e) \in Nat
        BY <1>1, PassesNat
      <4> QED BY <4>1
    <3>3. x <= l - 1
      <4>1. s < t + w
        BY <1>8, <2>3
      <4> QED BY <1>2, <1>6, <2>3, <3>2, <4>1
    <3>4. y <= all
      BY <1>1, <2>1, <3>2, PassesTo
    <3> QED BY ONLY <1>2, <2>1, <3>1, <3>2, <3>3, <3>4
  <2>4. CASE e < s
    <3>1. Passes(P, t, e) < 2 * l
      BY <1>2, <1>8 DEF Fits
    <3>2. e < tm
      BY <2>4
    <3> QED BY <1>5, <3>1, <3>2
  <2> QED BY <2>2, <2>3, <2>4
<1>9. Fits(Q)
  <2>1. \A t \in 1..MaxClock : t + w - 1 \in Int
    OBVIOUS
  <2> QED BY <1>2, <1>8, <2>1 DEF Fits
<1> QED BY <1>7, <1>9

\* A counter is set a window after another let the first through.
LEMMA LedAgain ==
    ASSUME NEW P \in [1..MaxClock -> Nat], NEW s \in 1..MaxClock, NEW e \in 1..MaxClock,
           NEW tm \in 1..MaxClock, s <= e, e + RateWindow <= tm, P[e] >= 1,
           Passes(P, s, MaxClock) <= Limit
    PROVE  Led(P, tm)
<1>1. PICK w \in Nat, l \in Nat : w = RateWindow /\ l = Limit /\ w >= 1 /\ l >= 1
  BY ClockIs
<1>2. ASSUME NEW t \in 1..MaxClock, t < tm, tm < t + w, NEW n \in Int, n = tm - 1
      PROVE  Passes(P, t, n) <= l - 1
  <2>1. e < t
    BY <1>1, <1>2
  <2>2. PICK d \in Int : t = d + 1 /\ e <= d
    <3>1. t - 1 \in Int /\ t = (t - 1) + 1 /\ e <= t - 1
      BY <2>1
    <3> QED BY <3>1
  <2>3. Passes(P, s, MaxClock) = Passes(P, s, d) + Passes(P, t, MaxClock)
    <3>1. s <= t /\ d <= MaxClock /\ MaxClock \in Int
      BY <2>1, <2>2, ClockIs
    <3> QED
      BY ONLY <2>2, <3>1, PassesSplit, P \in [1..MaxClock -> Nat], s \in Int, t \in Int
  <2>4. Passes(P, s, d) \in Nat /\ Passes(P, t, MaxClock) \in Nat /\ P[e] <= Passes(P, s, d)
    BY <2>2, ClockIs, PassesNat
  <2>5. Passes(P, t, n) \in Nat
    BY PassesNat
  <2>6. Passes(P, t, n) <= Passes(P, t, MaxClock)
    BY PassesTo
  <2>7. P[e] \in Nat
    OBVIOUS
  <2>8. Passes(P, s, MaxClock) <= l
    BY <1>1
  <2>9. P[e] >= 1
    OBVIOUS
  <2> QED BY ONLY l \in Nat, <2>3, <2>4, <2>5, <2>6, <2>7, <2>8, <2>9
<1>3. tm - 1 \in Int
  OBVIOUS
<1> QED BY <1>1, <1>2, <1>3 DEF Led

LEMMA LedAtFirst ==
    ASSUME NEW P \in [1..MaxClock -> Nat], NEW s \in 1..MaxClock, \A u \in 1..MaxClock : P[u] = 0
    PROVE  Led(P, s) /\ Fits(P) /\ \A a \in Int, b \in Int : Passes(P, a, b) = 0
<1>1. \A a \in Int, b \in Int : Passes(P, a, b) = 0
  BY PassesNone
<1>2. PICK w \in Nat, l \in Nat : w = RateWindow /\ l = Limit /\ w >= 1 /\ l >= 1
  BY ClockIs
<1>3. \A t \in 1..MaxClock : Passes(P, t, s - 1) = 0
  BY <1>1
<1>4. \A t \in 1..MaxClock : Passes(P, t, t + w - 1) = 0
  BY <1>1
<1> QED BY <1>1, <1>2, <1>3, <1>4 DEF Led, Fits

TtlsAre == {MemberTtl, NegativeTtl, AppTtl} \subseteq Nat

\* What is remembered of a membership was true when it was read, and a change
\* since then is known to whoever still has to write it down.
GuardRows == [role : {"", "owner", "staff"}, on : BOOLEAN, found : BOOLEAN]
Asked == [at : {"rest", "ensure", "cache"}, m : Members \cup {0}, row : GuardRows,
          role : {"", "owner", "staff", "yes", "no"}, late : BOOLEAN]
Remembered == [until : Nat, allowed : BOOLEAN, late : BOOLEAN]
MemberTypes ==
    /\ member \in [Members -> GuardRows] /\ guard \in [Guards -> Asked]
    /\ items \in [Members -> Remembered] /\ changed \in [Members -> Nat]
    /\ \A g \in Guards :
          /\ guard[g].at # "rest" => guard[g].m \in Members
          /\ guard[g].at = "ensure" => guard[g].role \in {"owner", "staff"}
MemberTimes ==
    \A m \in Members : /\ changed[m] <= time
                       /\ items[m].until <= time + Ttl(items[m].allowed)
ItemsHold ==
    \A m \in Members :
       items[m].allowed # IsMember(m) /\ ~items[m].late
         => items[m].until <= changed[m] + Ttl(items[m].allowed)
AnswersHold ==
    \A g \in Guards : guard[g].at = "cache" /\ ~guard[g].late
         => (guard[g].role = "yes" <=> IsMember(guard[g].m))
MemberInv == MemberTypes /\ MemberTimes /\ ItemsHold /\ AnswersHold

LEMMA TtlNat == TtlsAre /\ \A b : Ttl(b) \in Nat
BY GuardsAssumption DEF TtlsAre, Ttl

LEMMA MembersStart == GuardInit => MemberInv
<1> SUFFICES ASSUME GuardInit PROVE MemberInv
  OBVIOUS
<1>1. /\ member = [m \in Members |-> NoRow] /\ guard = [g \in Guards |-> Rest]
      /\ items = [m \in Members |-> NoItem] /\ changed = [m \in Members |-> 0] /\ time = 1
  BY DEF GuardInit
<1>2. NoRow \in GuardRows /\ NoItem \in Remembered
  BY DEF NoRow, GuardRows, NoItem, Remembered
<1>3. Rest \in Asked /\ Rest.at = "rest"
  BY <1>2 DEF Rest, Asked
<1>4. MemberTypes
  BY <1>1, <1>2, <1>3 DEF MemberTypes
<1>5. NoItem.until = 0 /\ NoItem.allowed = FALSE
  BY DEF NoItem
<1>6. MemberTimes
  BY <1>1, <1>5, TtlNat DEF MemberTimes
<1>7. ItemsHold
  BY <1>1, <1>5, TtlNat DEF ItemsHold
<1>8. AnswersHold
  BY <1>1, <1>3 DEF AnswersHold
<1> QED BY <1>4, <1>6, <1>7, <1>8 DEF MemberInv

\* Time passes.
LEMMA MembersLater ==
    ASSUME MemberInv, UNCHANGED memberVars, time \in Nat, time' \in Nat, time <= time'
    PROVE  MemberInv'
<1>1. UNCHANGED <<member, guard, items, changed>>
  BY DEF memberVars
<1>2. MemberTypes' /\ ItemsHold' /\ AnswersHold'
  BY <1>1 DEF MemberInv, MemberTypes, ItemsHold, AnswersHold, IsMember, Ttl
<1>3. ASSUME NEW m \in Members
      PROVE  changed'[m] <= time' /\ items'[m].until <= time' + Ttl(items'[m].allowed)
  <2>1. PICK c \in Nat, u \in Nat, b \in BOOLEAN : /\ c = changed[m] /\ u = items[m].until
                                                   /\ b = items[m].allowed
    BY DEF MemberInv, MemberTypes, Remembered
  <2>2. c <= time /\ u <= time + Ttl(b)
    BY <2>1 DEF MemberInv, MemberTimes
  <2> QED BY <1>1, <2>1, <2>2, TtlNat
<1> QED BY <1>2, <1>3 DEF MemberInv, MemberTimes, Ttl

\* A membership changes tm: what was cached lasts from tm on at most, and the
\* answers read before are late.
LEMMA MembersWrite ==
    ASSUME MemberInv, time \in Nat, UNCHANGED time, UNCHANGED items,
           NEW m \in Members, NEW row \in GuardRows, Write(m, row),
           guard' \in [Guards -> Asked],
           \A g \in Guards :
              /\ guard'[g].at = guard[g].at \/ guard'[g].at = "rest"
              /\ guard'[g].at # "rest" => /\ guard'[g].m = guard[g].m
                                          /\ guard'[g].role = guard[g].role
                                          /\ guard'[g].at = "cache" /\ guard'[g].m # m
                                               => guard'[g].late = guard[g].late
                                          /\ guard'[g].at = "cache" /\ guard'[g].m = m
                                               => guard'[g].late
    PROVE  MemberInv'
<1>1. /\ member' = [member EXCEPT ![m] = row] /\ changed' = [changed EXCEPT ![m] = time]
      /\ items' = items /\ time' = time
  BY DEF Write
<1>2. MemberTypes'
  BY <1>1 DEF MemberInv, MemberTypes
<1>3. \A x \in Members : x # m => (IsMember(x)' <=> IsMember(x)) /\ changed'[x] = changed[x]
  BY <1>1 DEF MemberInv, MemberTypes, IsMember
<1>4. changed'[m] = time
  BY <1>1 DEF MemberInv, MemberTypes
<1>5. MemberTimes'
  BY <1>1, <1>3, <1>4 DEF MemberInv, MemberTimes, Ttl
<1>6. ASSUME NEW x \in Members, items'[x].allowed # IsMember(x)', ~ items'[x].late
      PROVE  items'[x].until <= changed'[x] + Ttl(items'[x].allowed)
  <2>1. CASE x = m
    BY <1>1, <1>4, <2>1 DEF MemberInv, MemberTimes
  <2>2. CASE x # m
    <3>1. IsMember(x)' <=> IsMember(x)
      BY <1>3, <2>2
    <3>2. IsMember(x)' = IsMember(x)
      BY <3>1 DEF IsMember
    <3>3. items[x].allowed # IsMember(x) /\ ~ items[x].late
      BY <1>1, <1>6, <3>2
    <3> QED BY <1>1, <1>3, <2>2, <3>3 DEF MemberInv, ItemsHold
  <2> QED BY <2>1, <2>2
<1>7. ItemsHold'
  BY <1>6 DEF ItemsHold, Ttl
<1>8. ASSUME NEW g \in Guards, guard'[g].at = "cache", ~guard'[g].late
      PROVE  guard'[g].role = "yes"
               <=> member'[guard'[g].m].on /\ member'[guard'[g].m].role # ""
  <2>1. guard[g].at = "cache" /\ guard'[g].role = guard[g].role
    BY <1>8
  <2>2. PICK x \in Members : x = guard[g].m
    BY <2>1 DEF MemberInv, MemberTypes
  <2>3. guard'[g].m = x /\ x # m /\ ~guard[g].late
    BY <1>8, <2>1, <2>2
  <2>4. guard[g].role = "yes" <=> IsMember(x)
    BY <2>1, <2>2, <2>3 DEF MemberInv, AnswersHold
  <2>5. guard'[g].role = "yes" <=> IsMember(x)'
    BY <1>3, <2>1, <2>3, <2>4
  <2> QED BY <2>3, <2>5 DEF IsMember
<1>9. AnswersHold'
  BY <1>8 DEF AnswersHold, IsMember
<1> QED BY <1>2, <1>5, <1>7, <1>9 DEF MemberInv

\* Nothing is written: one request starts, or ends.
LEMMA MembersAsk ==
    ASSUME MemberInv, UNCHANGED <<time, member, items, changed>>, NEW h \in Guards, NEW r \in Asked,
           guard' = [guard EXCEPT ![h] = r],
           r.at # "rest" => r.m \in Members,
           r.at = "ensure" => r.role \in {"owner", "staff"},
           r.at = "cache" => (r.role = "yes" <=> IsMember(r.m))
    PROVE  MemberInv'
<1>1. guard'[h] = r /\ \A g \in Guards : g # h => guard'[g] = guard[g]
  BY DEF MemberInv, MemberTypes
<1>2. MemberTypes'
  BY <1>1 DEF MemberInv, MemberTypes
<1>3. MemberTimes' /\ ItemsHold'
  BY DEF MemberInv, MemberTimes, ItemsHold, IsMember, Ttl
<1>4. ASSUME NEW g \in Guards, guard'[g].at = "cache", ~guard'[g].late
      PROVE  guard'[g].role = "yes" <=> IsMember(guard'[g].m)
  BY <1>1, <1>4 DEF MemberInv, AnswersHold
<1>5. AnswersHold'
  BY <1>4 DEF AnswersHold, IsMember
<1> QED BY <1>2, <1>3, <1>5 DEF MemberInv

LEMMA OutdatedIs ==
    ASSUME MemberTypes, NEW m \in Members
    PROVE  /\ Outdated(m) \in [Guards -> Asked]
           /\ \A g \in Guards :
                 /\ Outdated(m)[g].at = guard[g].at /\ Outdated(m)[g].m = guard[g].m
                 /\ Outdated(m)[g].role = guard[g].role
                 /\ guard[g].at = "cache" /\ guard[g].m = m => Outdated(m)[g].late
                 /\ guard[g].m # m => Outdated(m)[g].late = guard[g].late
<1> SUFFICES ASSUME NEW g \in Guards
             PROVE  /\ Outdated(m)[g] \in Asked
                    /\ Outdated(m)[g].at = guard[g].at /\ Outdated(m)[g].m = guard[g].m
                    /\ Outdated(m)[g].role = guard[g].role
                    /\ guard[g].at = "cache" /\ guard[g].m = m => Outdated(m)[g].late
                    /\ guard[g].m # m => Outdated(m)[g].late = guard[g].late
  <2>1. Outdated(m) = [g \in Guards |-> Outdated(m)[g]]
    BY DEF Outdated
  <2> QED BY <2>1
<1>1. guard[g] \in Asked
  BY DEF MemberTypes
<1>2. CASE guard[g].at = "cache" /\ guard[g].m = m
  <2>1. Outdated(m)[g] = [guard[g] EXCEPT !.late = TRUE]
    BY <1>2 DEF Outdated
  <2> QED BY <1>1, <1>2, <2>1 DEF Asked
<1>3. CASE ~ (guard[g].at = "cache" /\ guard[g].m = m)
  <2>1. Outdated(m)[g] = guard[g]
    BY <1>3 DEF Outdated
  <2> QED BY <1>1, <1>3, <2>1
<1> QED BY <1>2, <1>3

LEMMA RestIs == Rest \in Asked /\ Rest.at = "rest"
<1>1. NoRow \in GuardRows
  BY DEF NoRow, GuardRows
<1> QED BY <1>1 DEF Rest, Asked

LEMMA MembersRest ==
    ASSUME MemberInv, UNCHANGED <<time, member, items, changed>>, NEW h \in Guards,
           guard' = [guard EXCEPT ![h] = Rest]
    PROVE  MemberInv'
BY RestIs, MembersAsk

\* A write, when the request that made it ends with it.
LEMMA MembersWriteRest ==
    ASSUME MemberInv, time \in Nat, UNCHANGED time, UNCHANGED items,
           NEW m \in Members, NEW row \in GuardRows, Write(m, row), NEW h \in Guards,
           guard' = [Outdated(m) EXCEPT ![h] = Rest]
    PROVE  MemberInv'
<1>1. PICK o \in [Guards -> Asked] : o = Outdated(m)
  BY OutdatedIs DEF MemberInv
<1>2. \A g \in Guards : /\ o[g].at = guard[g].at /\ o[g].m = guard[g].m /\ o[g].role = guard[g].role
                        /\ guard[g].at = "cache" /\ guard[g].m = m => o[g].late
                        /\ guard[g].m # m => o[g].late = guard[g].late
  BY <1>1, OutdatedIs DEF MemberInv
<1>3. guard' = [o EXCEPT ![h] = Rest]
  BY <1>1
<1>4. guard' \in [Guards -> Asked] /\ guard'[h].at = "rest"
      /\ \A g \in Guards : g # h => guard'[g] = o[g]
  BY <1>3, RestIs
<1>5. ASSUME NEW g \in Guards
      PROVE  /\ guard'[g].at = guard[g].at \/ guard'[g].at = "rest"
             /\ guard'[g].at # "rest" => /\ guard'[g].m = guard[g].m
                                         /\ guard'[g].role = guard[g].role
                                         /\ guard'[g].at = "cache" /\ guard'[g].m # m
                                              => guard'[g].late = guard[g].late
                                         /\ guard'[g].at = "cache" /\ guard'[g].m = m
                                              => guard'[g].late
  <2>1. CASE g = h
    BY <1>4, <2>1
  <2>2. CASE g # h
    BY <1>2, <1>4, <2>2
  <2> QED BY <2>1, <2>2
<1> QED BY <1>4, <1>5, MembersWrite

LEMMA EnsureKeeps ==
    ASSUME MemberInv, UNCHANGED time, NEW g \in Guards, NEW m \in Members,
           NEW role \in {"owner", "staff"},
           EnsureMember(g, m, role)
    PROVE  MemberInv'
<1>1. PICK row \in GuardRows : row = member[m]
  BY DEF MemberInv, MemberTypes
<1>2. PICK r : r = [Rest EXCEPT !.at = "ensure", !.m = m, !.role = role, !.row = member[m]]
  OBVIOUS
<1>3. r \in Asked /\ r.at = "ensure" /\ r.m = m /\ r.role = role
  BY <1>1, <1>2, RestIs DEF Asked
<1>4. guard' = [guard EXCEPT ![g] = r] /\ UNCHANGED <<member, items, changed>>
  BY <1>2 DEF EnsureMember
<1> QED BY <1>3, <1>4, MembersAsk

LEMMA EnsureWriteKeeps ==
    ASSUME MemberInv, time \in Nat, UNCHANGED time, NEW g \in Guards, EnsureWrite1(g)
    PROVE  MemberInv'
<1>1. PICK r \in Asked : r = guard[g]
  BY DEF MemberInv, MemberTypes
<1>2. r.at = "ensure" /\ items' = items
  BY <1>1 DEF EnsureWrite1
<1>3. PICK m \in Members : m = r.m
  BY <1>1, <1>2 DEF MemberInv, MemberTypes
<1>4. r.role \in {"owner", "staff"} /\ r.row \in GuardRows /\ member[m] \in GuardRows
  BY <1>1, <1>2 DEF MemberInv, MemberTypes, Asked
<1>5. CASE r.row.found /\ (~r.row.on \/ r.row.role = r.role)
  <2>1. guard' = [guard EXCEPT ![g] = Rest] /\ UNCHANGED <<member, changed>>
    BY <1>1, <1>5 DEF EnsureWrite1
  <2> QED BY <1>2, <2>1, MembersRest
<1>6. CASE r.row.found /\ r.row.on /\ r.row.role # r.role
  <2>1. Write(m, [r.row EXCEPT !.role = r.role]) /\ guard' = [Outdated(m) EXCEPT ![g] = Rest]
    BY <1>1, <1>3, <1>6 DEF EnsureWrite1
  <2>2. PICK row \in GuardRows : row = [r.row EXCEPT !.role = r.role]
    BY <1>4 DEF GuardRows
  <2> QED BY <1>2, <2>1, <2>2, MembersWriteRest
<1>7. CASE ~r.row.found /\ ~member[m].found
  <2>1. Write(m, [role |-> r.role, on |-> TRUE, found |-> TRUE])
        /\ guard' = [Outdated(m) EXCEPT ![g] = Rest]
    BY <1>1, <1>3, <1>7 DEF EnsureWrite1
  <2>2. PICK row \in GuardRows : row = [role |-> r.role, on |-> TRUE, found |-> TRUE]
    BY <1>4 DEF GuardRows
  <2> QED BY <1>2, <2>1, <2>2, MembersWriteRest
<1>8. CASE ~r.row.found /\ member[m].found
  <2>1. PICK x : x = IF TranslatesErrors THEN [r EXCEPT !.row = member[m]] ELSE Rest
    OBVIOUS
  <2>2. guard' = [guard EXCEPT ![g] = x] /\ UNCHANGED <<member, changed>>
    BY <1>1, <1>3, <1>8, <2>1 DEF EnsureWrite1
  <2>3. CASE TranslatesErrors
    <3>1. x = [r EXCEPT !.row = member[m]]
      BY <2>1, <2>3
    <3>2. x \in Asked /\ x.at = "ensure" /\ x.m = m /\ x.role = r.role
      BY <1>2, <1>3, <1>4, <3>1 DEF Asked
    <3> QED BY <1>2, <1>4, <2>2, <3>2, MembersAsk
  <2>4. CASE ~TranslatesErrors
    <3>1. x = Rest
      BY <2>1, <2>4
    <3> QED BY <1>2, <2>2, <3>1, MembersRest
  <2> QED BY <2>3, <2>4
<1> QED BY <1>5, <1>6, <1>7, <1>8

LEMMA SetStatusKeeps ==
    ASSUME MemberInv, time \in Nat, UNCHANGED time, NEW m \in Members, NEW on \in BOOLEAN,
           SetStatus(m, on)
    PROVE  MemberInv'
<1>1. Write(m, [member[m] EXCEPT !.on = on]) /\ guard' = Outdated(m) /\ UNCHANGED items
  BY DEF SetStatus
<1>2. PICK row \in GuardRows : row = [member[m] EXCEPT !.on = on]
  BY DEF MemberInv, MemberTypes, GuardRows
<1>3. PICK o \in [Guards -> Asked] : o = Outdated(m)
  BY OutdatedIs DEF MemberInv
<1>4. \A g \in Guards : /\ o[g].at = guard[g].at /\ o[g].m = guard[g].m /\ o[g].role = guard[g].role
                        /\ guard[g].at = "cache" /\ guard[g].m = m => o[g].late
                        /\ guard[g].m # m => o[g].late = guard[g].late
  BY <1>3, OutdatedIs DEF MemberInv
<1>5. guard' = o
  BY <1>1, <1>3
<1>6. \A g \in Guards :
          /\ guard'[g].at = guard[g].at \/ guard'[g].at = "rest"
          /\ guard'[g].at # "rest" => /\ guard'[g].m = guard[g].m /\ guard'[g].role = guard[g].role
                                      /\ guard'[g].at = "cache" /\ guard'[g].m # m
                                           => guard'[g].late = guard[g].late
                                      /\ guard'[g].at = "cache" /\ guard'[g].m = m => guard'[g].late
  BY <1>4, <1>5
<1> QED BY <1>1, <1>2, <1>5, <1>6, MembersWrite

LEMMA MemberAllowedKeeps ==
    ASSUME MemberInv, UNCHANGED time, NEW g \in Guards, NEW m \in Members, MemberAllowed(g, m)
    PROVE  MemberInv'
<1>1. PICK row \in GuardRows : row = member[m]
  BY DEF MemberInv, MemberTypes
<1>2. PICK role \in {"yes", "no"} : role = IF IsMember(m) THEN "yes" ELSE "no"
  OBVIOUS
<1>3. PICK r : r = [Rest EXCEPT !.at = "cache", !.m = m, !.row = member[m], !.role = role]
  OBVIOUS
<1>4. r \in Asked /\ r.at = "cache" /\ r.m = m /\ r.role = role
  BY <1>1, <1>3, RestIs DEF Asked
<1>5. guard' = [guard EXCEPT ![g] = r] /\ UNCHANGED <<member, items, changed>>
  BY <1>2, <1>3 DEF MemberAllowed
<1>6. r.role = "yes" <=> IsMember(r.m)
  BY <1>2, <1>4
<1> QED BY <1>4, <1>5, <1>6, MembersAsk

LEMMA CacheSetKeeps ==
    ASSUME MemberInv, time \in Nat, UNCHANGED time, NEW g \in Guards, CacheSet(g)
    PROVE  MemberInv'
<1>1. PICK r \in Asked : r = guard[g]
  BY DEF MemberInv, MemberTypes
<1>2. PICK b \in BOOLEAN : b = (r.role = "yes")
  <2>1. (r.role = "yes") \in BOOLEAN
    <3>1. CASE r.role = "yes"
      BY <3>1
    <3>2. CASE r.role # "yes"
      BY <3>2
    <3> QED BY <3>1, <3>2
  <2> QED BY <2>1
<1>3. r.at = "cache" /\ guard' = [guard EXCEPT ![g] = Rest] /\ UNCHANGED <<member, changed>>
  BY <1>1 DEF CacheSet
<1>4. PICK m \in Members : m = r.m
  BY <1>1, <1>3 DEF MemberInv, MemberTypes
<1>5. PICK item \in Remembered : item = [until |-> time + Ttl(b), allowed |-> b, late |-> r.late]
  <2>1. PICK u \in Nat, l \in BOOLEAN : u = time + Ttl(b) /\ l = r.late
    <3>1. r.late \in BOOLEAN
      BY <1>1 DEF Asked
    <3>2. time + Ttl(b) \in Nat
      <4>1. PICK v \in Nat : v = Ttl(b)
        BY TtlNat
      <4> QED BY ONLY <4>1, time \in Nat
    <3> QED BY <3>1, <3>2
  <2>2. [until |-> u, allowed |-> b, late |-> l] \in Remembered
    BY DEF Remembered
  <2> QED BY <2>1, <2>2
<1>6. items' = [items EXCEPT ![m] = item]
  BY <1>1, <1>2, <1>4, <1>5 DEF CacheSet
<1>7. items'[m] = item /\ items' \in [Members -> Remembered]
      /\ \A x \in Members : x # m => items'[x] = items[x]
  BY <1>6 DEF MemberInv, MemberTypes
<1>8. guard' \in [Guards -> Asked] /\ guard'[g].at = "rest"
      /\ \A h \in Guards : h # g => guard'[h] = guard[h]
  BY <1>3, RestIs DEF MemberInv, MemberTypes
<1>9. MemberTypes'
  BY <1>3, <1>7, <1>8 DEF MemberInv, MemberTypes
<1>10. ASSUME NEW x \in Members
       PROVE  changed'[x] <= time' /\ items'[x].until <= time' + Ttl(items'[x].allowed)
  <2>1. CASE x = m
    <3>1. items'[x].until = time + Ttl(b) /\ items'[x].allowed = b
      BY <1>5, <1>7, <2>1
    <3> QED BY <1>3, <3>1, TtlNat DEF MemberInv, MemberTimes
  <2>2. CASE x # m
    BY <1>3, <1>7, <2>2 DEF MemberInv, MemberTimes
  <2> QED BY <2>1, <2>2
<1>11. MemberTimes'
  BY <1>10 DEF MemberTimes, Ttl
<1>12. ASSUME NEW x \in Members, items'[x].allowed # IsMember(x), ~items'[x].late
       PROVE  items'[x].until <= changed[x] + Ttl(items'[x].allowed)
  <2>1. CASE x = m
    <3>1. ~r.late /\ items'[x].allowed = b
      BY <1>5, <1>7, <1>12, <2>1
    <3>2. b <=> IsMember(m)
      BY <1>1, <1>2, <1>3, <1>4, <3>1 DEF MemberInv, AnswersHold
    <3>3. b = IsMember(m)
      BY <3>2 DEF IsMember
    <3> QED BY <1>12, <2>1, <3>1, <3>3
  <2>2. CASE x # m
    BY <1>7, <1>12, <2>2 DEF MemberInv, ItemsHold
  <2> QED BY <2>1, <2>2
<1>13. ItemsHold'
  BY <1>3, <1>12 DEF ItemsHold, IsMember, Ttl
<1>14. AnswersHold'
  BY <1>3, <1>8 DEF MemberInv, AnswersHold, IsMember
<1> QED BY <1>9, <1>11, <1>13, <1>14 DEF MemberInv

LEMMA MemberStep ==
    ASSUME MemberInv, time \in Nat, MemberNext
    PROVE  MemberInv'
<1>1. ASSUME Tick1, UNCHANGED memberVars PROVE MemberInv'
  BY <1>1, MembersLater DEF Tick1
<1>2. ASSUME UNCHANGED time, NEW g \in Guards, EnsureWrite1(g) \/ CacheSet(g) PROVE MemberInv'
  BY <1>2, EnsureWriteKeeps, CacheSetKeeps
<1>3. ASSUME UNCHANGED time, NEW g \in Guards, NEW m \in Members,
             MemberAllowed(g, m) \/ \E r \in {"owner", "staff"} : EnsureMember(g, m, r)
      PROVE  MemberInv'
  BY <1>3, MemberAllowedKeeps, EnsureKeeps
<1>4. ASSUME UNCHANGED time, NEW m \in Members, NEW on \in BOOLEAN, SetStatus(m, on)
      PROVE  MemberInv'
  BY <1>4, SetStatusKeeps
<1> QED BY <1>1, <1>2, <1>3, <1>4 DEF MemberNext

\* The same of the tenant that an appid belongs to.
Tenancies == Owners \cup {0}
KnownApps == [tenant : Tenancies, until : Nat, late : BOOLEAN]
LookedUp == [app : AppIds \cup {0}, tenant : Tenancies, late : BOOLEAN]
AppTypes ==
    /\ owner \in [AppIds -> Tenancies] /\ ownerAt \in [AppIds -> Nat]
    /\ known \in [AppIds -> KnownApps] /\ lookup \in [Guards -> LookedUp]
AppTimes == \A a \in AppIds : ownerAt[a] <= time /\ known[a].until <= time + AppTtl
KnownHold ==
    \A a \in AppIds : known[a].tenant # owner[a] /\ ~known[a].late
                        => known[a].until <= ownerAt[a] + AppTtl
LookupsHold ==
    \A g \in Guards : lookup[g].app # 0 /\ ~lookup[g].late
                        => lookup[g].tenant = owner[lookup[g].app]
AppInv == AppTypes /\ AppTimes /\ KnownHold /\ LookupsHold

LEMMA AppsStart == GuardInit => AppInv
<1> SUFFICES ASSUME GuardInit PROVE AppInv
  OBVIOUS
<1>1. PICK k \in KnownApps, l \in LookedUp :
          /\ k = [tenant |-> 0, until |-> 0, late |-> FALSE]
          /\ l = [app |-> 0, tenant |-> 0, late |-> FALSE]
  BY DEF KnownApps, LookedUp, Tenancies
<1>2. /\ owner = [a \in AppIds |-> 0] /\ ownerAt = [a \in AppIds |-> 0]
      /\ known = [a \in AppIds |-> k] /\ lookup = [g \in Guards |-> l] /\ time = 1
  BY <1>1 DEF GuardInit
<1>3. k.tenant = 0 /\ k.until = 0 /\ l.app = 0
  BY <1>1
<1>4. AppTypes
  BY <1>2 DEF AppTypes, Tenancies
<1>5. AppTimes
  BY <1>2, <1>3, TtlNat DEF AppTimes, TtlsAre
<1> QED BY <1>2, <1>3, <1>4, <1>5 DEF AppInv, KnownHold, LookupsHold

LEMMA AppsLater ==
    ASSUME AppInv, UNCHANGED appVars, time \in Nat, time' \in Nat, time <= time'
    PROVE  AppInv'
<1>1. UNCHANGED <<owner, known, ownerAt, lookup>>
  BY DEF appVars
<1>2. AppTypes' /\ KnownHold' /\ LookupsHold'
  BY <1>1 DEF AppInv, AppTypes, KnownHold, LookupsHold
<1>3. ASSUME NEW a \in AppIds PROVE ownerAt'[a] <= time' /\ known'[a].until <= time' + AppTtl
  <2>1. PICK c \in Nat, u \in Nat : c = ownerAt[a] /\ u = known[a].until
    BY DEF AppInv, AppTypes, KnownApps
  <2>2. c <= time /\ u <= time + AppTtl
    BY <2>1 DEF AppInv, AppTimes
  <2> QED BY <1>1, <2>1, <2>2, TtlNat DEF TtlsAre
<1> QED BY <1>2, <1>3 DEF AppInv, AppTimes

LEMMA BindKeeps ==
    ASSUME AppInv, time \in Nat, UNCHANGED time, NEW a \in AppIds, NEW t \in Owners, BindApp(a, t)
    PROVE  AppInv'
<1>1. /\ owner' = [owner EXCEPT ![a] = t] /\ ownerAt' = [ownerAt EXCEPT ![a] = time]
      /\ known' = known
      /\ lookup' = [g \in Guards |-> IF lookup[g].app = a THEN [lookup[g] EXCEPT !.late = TRUE]
                                     ELSE lookup[g]]
  BY DEF BindApp
<1>2. owner'[a] = t /\ ownerAt'[a] = time
      /\ \A x \in AppIds : x # a => owner'[x] = owner[x] /\ ownerAt'[x] = ownerAt[x]
  BY <1>1 DEF AppInv, AppTypes
<1>3. ASSUME NEW g \in Guards
      PROVE  /\ lookup'[g] \in LookedUp /\ lookup'[g].app = lookup[g].app
             /\ lookup'[g].tenant = lookup[g].tenant
             /\ lookup[g].app = a => lookup'[g].late
             /\ lookup[g].app # a => lookup'[g].late = lookup[g].late
  <2>1. PICK l \in LookedUp : l = lookup[g]
    BY DEF AppInv, AppTypes
  <2>2. lookup'[g] = IF l.app = a THEN [l EXCEPT !.late = TRUE] ELSE l
    BY <1>1, <2>1
  <2>3. CASE l.app = a
    BY <2>1, <2>2, <2>3 DEF LookedUp
  <2>4. CASE l.app # a
    BY <2>1, <2>2, <2>4
  <2> QED BY <2>3, <2>4
<1>4. AppTypes'
  <2>1. lookup' = [g \in Guards |-> lookup'[g]]
    BY <1>1
  <2>2. lookup' \in [Guards -> LookedUp]
    BY <1>3, <2>1
  <2> QED BY <1>1, <2>2 DEF AppInv, AppTypes, Tenancies
<1>5. AppTimes'
  BY <1>1, <1>2 DEF AppInv, AppTimes
<1>6. ASSUME NEW x \in AppIds, known'[x].tenant # owner'[x], ~known'[x].late
      PROVE  known'[x].until <= ownerAt'[x] + AppTtl
  <2>1. CASE x = a
    BY <1>1, <1>2, <2>1 DEF AppInv, AppTimes
  <2>2. CASE x # a
    BY <1>1, <1>2, <1>6, <2>2 DEF AppInv, KnownHold
  <2> QED BY <2>1, <2>2
<1>7. KnownHold'
  BY <1>6 DEF KnownHold
<1>8. ASSUME NEW g \in Guards, lookup'[g].app # 0, ~lookup'[g].late
      PROVE  lookup'[g].tenant = owner'[lookup'[g].app]
  <2>1. PICK x \in AppIds : x = lookup[g].app
    BY <1>3, <1>8 DEF AppInv, AppTypes, LookedUp
  <2>2. x # a /\ ~lookup[g].late /\ lookup[g].app # 0
    BY <1>3, <1>8, <2>1
  <2>3. lookup[g].tenant = owner[x]
    BY <2>1, <2>2 DEF AppInv, LookupsHold
  <2> QED BY <1>2, <1>3, <2>1, <2>2, <2>3
<1>9. LookupsHold'
  BY <1>8 DEF LookupsHold
<1> QED BY <1>4, <1>5, <1>7, <1>9 DEF AppInv

LEMMA ResolveKeeps ==
    ASSUME AppInv, UNCHANGED time, NEW g \in Guards, NEW a \in AppIds, Resolve1(g, a)
    PROVE  AppInv'
<1>1. PICK l : l = [app |-> a, tenant |-> owner[a], late |-> FALSE]
  OBVIOUS
<1>2. l \in LookedUp /\ l.app = a /\ l.tenant = owner[a]
  <2>1. owner[a] \in Tenancies
    BY DEF AppInv, AppTypes
  <2> QED BY <1>1, <2>1 DEF LookedUp
<1>3. lookup' = [lookup EXCEPT ![g] = l] /\ UNCHANGED <<owner, known, ownerAt>>
  BY <1>1 DEF Resolve1
<1>4. lookup'[g] = l /\ \A h \in Guards : h # g => lookup'[h] = lookup[h]
  BY <1>3 DEF AppInv, AppTypes
<1>5. AppTypes'
  BY <1>2, <1>3 DEF AppInv, AppTypes
<1>6. AppTimes' /\ KnownHold'
  BY <1>3 DEF AppInv, AppTimes, KnownHold
<1>7. LookupsHold'
  BY <1>2, <1>3, <1>4 DEF AppInv, LookupsHold
<1> QED BY <1>5, <1>6, <1>7 DEF AppInv

LEMMA CacheAppKeeps ==
    ASSUME AppInv, time \in Nat, UNCHANGED time, NEW g \in Guards, CacheApp(g)
    PROVE  AppInv'
<1>1. PICK l \in LookedUp : l = lookup[g]
  BY DEF AppInv, AppTypes
<1>2. PICK a \in AppIds : a = l.app
  BY <1>1 DEF CacheApp, LookedUp
<1>3. PICK k \in KnownApps : k = [tenant |-> l.tenant, until |-> time + AppTtl, late |-> l.late]
  <2>1. PICK u \in Nat, b \in BOOLEAN, t \in Tenancies : /\ u = time + AppTtl /\ b = l.late
                                                         /\ t = l.tenant
    BY TtlNat DEF TtlsAre, LookedUp
  <2> QED BY <2>1 DEF KnownApps
<1>4. PICK none \in LookedUp : none = [app |-> 0, tenant |-> 0, late |-> FALSE]
  BY DEF LookedUp, Tenancies
<1>5. known' = [known EXCEPT ![a] = k] /\ lookup' = [lookup EXCEPT ![g] = none]
      /\ UNCHANGED <<owner, ownerAt>>
  BY <1>1, <1>2, <1>3, <1>4 DEF CacheApp
<1>6. known'[a] = k /\ \A x \in AppIds : x # a => known'[x] = known[x]
  BY <1>5 DEF AppInv, AppTypes
<1>7. lookup'[g].app = 0 /\ \A h \in Guards : h # g => lookup'[h] = lookup[h]
  BY <1>4, <1>5 DEF AppInv, AppTypes
<1>8. AppTypes'
  BY <1>5 DEF AppInv, AppTypes
<1>9. AppTimes'
  <2>1. k.until = time + AppTtl /\ time + AppTtl \in Nat
    BY <1>3, TtlNat DEF TtlsAre
  <2> QED BY <1>5, <1>6, <2>1 DEF AppInv, AppTimes
<1>10. ASSUME NEW x \in AppIds, known'[x].tenant # owner'[x], ~known'[x].late
       PROVE  known'[x].until <= ownerAt'[x] + AppTtl
  <2>1. CASE x = a
    <3>1. k.tenant = l.tenant /\ k.late = l.late
      BY <1>3
    <3>2. a # 0
      BY GuardsAssumption
    <3>3. ~l.late => l.tenant = owner[a]
      BY <1>1, <1>2, <3>2 DEF AppInv, LookupsHold
    <3> QED BY <1>5, <1>6, <1>10, <2>1, <3>1, <3>3
  <2>2. CASE x # a
    BY <1>5, <1>6, <1>10, <2>2 DEF AppInv, KnownHold
  <2> QED BY <2>1, <2>2
<1>11. KnownHold'
  BY <1>10 DEF KnownHold
<1>12. LookupsHold'
  BY <1>5, <1>7 DEF AppInv, LookupsHold
<1> QED BY <1>8, <1>9, <1>11, <1>12 DEF AppInv

LEMMA AppStep ==
    ASSUME AppInv, time \in Nat, AppNext
    PROVE  AppInv'
<1>1. ASSUME Tick1, UNCHANGED appVars PROVE AppInv'
  BY <1>1, AppsLater DEF Tick1
<1>2. ASSUME UNCHANGED time, NEW g \in Guards, CacheApp(g) \/ \E a \in AppIds : Resolve1(g, a)
      PROVE  AppInv'
  BY <1>2, CacheAppKeeps, ResolveKeeps
<1>3. ASSUME UNCHANGED time, NEW a \in AppIds, NEW t \in Owners, BindApp(a, t) PROVE AppInv'
  BY <1>3, BindKeeps
<1> QED BY <1>1, <1>2, <1>3 DEF AppNext

\* A window of the fallback: it counts what was let through since its start.
Calm(P, tm) == \A u \in 1..MaxClock : tm < u => P[u] = 0
WindowOpen(P, w, tm) ==
    /\ w.start \in 1..MaxClock /\ w.start <= tm /\ w.count <= Limit
    /\ Passes(P, w.start, MaxClock) <= w.count
    /\ P[w.start] >= 1 /\ Led(P, w.start)
    /\ \A u \in 1..MaxClock : w.start + RateWindow <= u => P[u] = 0
WindowFits(P, w, tm) ==
    /\ P \in [1..MaxClock -> Nat] /\ w \in [start : Nat, count : Nat]
    /\ Fits(P) /\ Calm(P, tm)
    /\ w.start = 0 => \A u \in 1..MaxClock : P[u] = 0
    /\ w.start # 0 => WindowOpen(P, w, tm)

LEMMA PassesOne ==
    ASSUME NEW P \in [1..MaxClock -> Nat], NEW Q, NEW tm \in 1..MaxClock, OneAt(P, Q, tm),
           NEW s \in 1..MaxClock, s <= tm
    PROVE  /\ Passes(Q, s, MaxClock) = Passes(P, s, MaxClock) + 1
           /\ Passes(P, s, MaxClock) \in Nat
<1>1. MaxClock \in Int /\ tm <= MaxClock
  BY ClockIs
<1>2. Passes(Q, s, MaxClock) =
          Passes(P, s, MaxClock) + (IF s <= tm /\ tm <= MaxClock THEN 1 ELSE 0)
  BY <1>1, PassesPlus
<1>3. Passes(P, s, MaxClock) \in Nat
  BY <1>1, PassesNat
<1> QED BY <1>1, <1>2, <1>3

LEMMA OneMorePass ==
    ASSUME NEW P \in [1..MaxClock -> Nat], NEW Q, NEW tm \in 1..MaxClock, OneAt(P, Q, tm)
    PROVE  /\ Q \in [1..MaxClock -> Nat] /\ Q[tm] >= 1
           /\ \A u \in 1..MaxClock : P[u] >= 1 => Q[u] >= 1
           /\ \A u \in 1..MaxClock : P[u] = 0 /\ u # tm => Q[u] = 0
           /\ Calm(P, tm) => Calm(Q, tm)
<1>1. Q \in [1..MaxClock -> Nat] /\ Q[tm] = P[tm] + 1
      /\ \A u \in 1..MaxClock : u # tm => Q[u] = P[u]
  BY DEF OneAt
<1>2. P[tm] \in Nat
  OBVIOUS
<1>3. \A u \in 1..MaxClock : P[u] = 0 /\ u # tm => Q[u] = 0
  BY <1>1
<1>4. ASSUME NEW u \in 1..MaxClock, P[u] >= 1 PROVE Q[u] >= 1
  BY <1>1, <1>2, <1>4
<1>5. Calm(P, tm) => Calm(Q, tm)
  BY <1>3 DEF Calm
<1> QED BY <1>1, <1>2, <1>3, <1>4, <1>5

LEMMA WindowCounts ==
    ASSUME NEW P, NEW Q, NEW w, NEW tm \in 1..MaxClock, WindowFits(P, w, tm), OneAt(P, Q, tm),
           w.start # 0, tm - w.start < RateWindow, w.count < Limit,
           NEW v \in [start : Nat, count : Nat], v.start = w.start, v.count = w.count + 1
    PROVE  WindowFits(Q, v, tm)
<1>1. /\ P \in [1..MaxClock -> Nat] /\ Fits(P) /\ Calm(P, tm) /\ WindowOpen(P, w, tm)
  BY DEF WindowFits
<1>2. PICK s \in 1..MaxClock, c \in Nat : s = w.start /\ c = w.count
  BY <1>1 DEF WindowOpen, WindowFits
<1>3. /\ s <= tm /\ c <= Limit /\ Passes(P, s, MaxClock) <= c /\ P[s] >= 1 /\ Led(P, s)
      /\ \A u \in 1..MaxClock : s + RateWindow <= u => P[u] = 0
  BY <1>1, <1>2 DEF WindowOpen
<1>4. Passes(Q, s, MaxClock) = Passes(P, s, MaxClock) + 1 /\ Passes(P, s, MaxClock) \in Nat
  BY <1>1, <1>3, PassesOne
<1>5. Passes(Q, s, MaxClock) <= c + 1 /\ c + 1 <= Limit
  <2>1. c < Limit /\ Limit \in Nat
    BY <1>2, ClockIs
  <2> QED BY <1>3, <1>4, <2>1
<1>6. Passes(Q, s, MaxClock) <= Limit
  BY <1>3, <1>4, <1>5, ClockIs
<1>7. Fits(Q) /\ Led(Q, s)
  BY ONLY <1>1, <1>3, <1>6, LedFits, OneAt(P, Q, tm), tm \in 1..MaxClock, s \in 1..MaxClock
<1>8. Q \in [1..MaxClock -> Nat] /\ Q[s] >= 1 /\ Calm(Q, tm)
  BY <1>1, <1>3, OneMorePass
<1>9. ASSUME NEW u \in 1..MaxClock, s + RateWindow <= u PROVE Q[u] = 0
  <2>1. u # tm
    BY <1>2, <1>9, ClockIs
  <2>2. P[u] = 0
    BY <1>3, <1>9
  <2> QED BY <2>1, <2>2 DEF OneAt
<1>10. WindowOpen(Q, v, tm)
  BY <1>2, <1>3, <1>5, <1>7, <1>8, <1>9 DEF WindowOpen
<1>11. s # 0
  OBVIOUS
<1> QED BY <1>2, <1>7, <1>8, <1>10, <1>11 DEF WindowFits

LEMMA WindowStarts ==
    ASSUME NEW P, NEW Q, NEW w, NEW tm \in 1..MaxClock, WindowFits(P, w, tm), OneAt(P, Q, tm),
           w.start = 0 \/ tm - w.start >= RateWindow,
           NEW v \in [start : Nat, count : Nat], v.start = tm, v.count = 1
    PROVE  WindowFits(Q, v, tm)
<1>1. P \in [1..MaxClock -> Nat] /\ Fits(P) /\ Calm(P, tm)
  BY DEF WindowFits
<1>2. Led(P, tm) /\ \A u \in 1..MaxClock : tm <= u => P[u] = 0
  <2>1. CASE w.start = 0
    <3>1. \A u \in 1..MaxClock : P[u] = 0
      BY <2>1 DEF WindowFits
    <3> QED BY <1>1, <3>1, LedAtFirst
  <2>2. CASE w.start # 0
    <3>1. PICK s \in 1..MaxClock, c \in Nat : s = w.start /\ c = w.count
      BY <2>2 DEF WindowOpen, WindowFits
    <3>2. /\ s <= tm /\ c <= Limit /\ Passes(P, s, MaxClock) <= c /\ P[s] >= 1
          /\ \A u \in 1..MaxClock : s + RateWindow <= u => P[u] = 0
      BY <2>2, <3>1 DEF WindowFits, WindowOpen
    <3>3. Passes(P, s, MaxClock) \in Nat
      BY ONLY <1>1, ClockIs, PassesNat, s \in Int
    <3>4. Passes(P, s, MaxClock) <= Limit
      BY <3>2, <3>3, ClockIs
    <3>5. s + RateWindow <= tm
      BY <2>2, <3>1, ClockIs
    <3>6. Led(P, tm)
      BY ONLY <1>1, <3>2, <3>4, <3>5, LedAgain, tm \in 1..MaxClock, s \in 1..MaxClock, s <= s
    <3>7. ASSUME NEW u \in 1..MaxClock, tm <= u PROVE s + RateWindow <= u
      BY <3>5, <3>7, ClockIs
    <3> QED BY <3>2, <3>6, <3>7
  <2> QED BY <2>1, <2>2
<1>3. Passes(P, tm, MaxClock) = 0
  BY ONLY <1>1, <1>2, PassesNone, ClockIs, tm \in 1..MaxClock
<1>4. Passes(Q, tm, MaxClock) = Passes(P, tm, MaxClock) + 1
  BY <1>1, PassesOne
<1>5. Passes(Q, tm, MaxClock) <= 1 /\ Passes(Q, tm, MaxClock) <= Limit /\ 1 <= Limit
  BY <1>3, <1>4, ClockIs
<1>6. Fits(Q) /\ Led(Q, tm)
  BY ONLY <1>1, <1>2, <1>5, LedFits, OneAt(P, Q, tm), tm \in 1..MaxClock
<1>7. Q \in [1..MaxClock -> Nat] /\ Q[tm] >= 1 /\ Calm(Q, tm)
  BY <1>1, OneMorePass
<1>8. ASSUME NEW u \in 1..MaxClock, tm + RateWindow <= u PROVE Q[u] = 0
  <2>1. u # tm /\ tm <= u
    BY <1>8, ClockIs
  <2>2. P[u] = 0
    BY <1>2, <2>1
  <2> QED BY <2>1, <2>2 DEF OneAt
<1>9. WindowOpen(Q, v, tm)
  BY <1>5, <1>6, <1>7, <1>8 DEF WindowOpen
<1>10. v.start # 0
  OBVIOUS
<1> QED BY <1>6, <1>7, <1>9, <1>10 DEF WindowFits

LEMMA WindowLater ==
    ASSUME NEW P, NEW w, NEW tm \in Nat, NEW later \in Nat, tm <= later, WindowFits(P, w, tm)
    PROVE  WindowFits(P, w, later)
<1>1. Calm(P, later)
  BY DEF WindowFits, Calm
<1>2. WindowOpen(P, w, tm) => WindowOpen(P, w, later)
  BY DEF WindowOpen
<1> QED BY <1>1, <1>2 DEF WindowFits

\* A key in Redis: what it lets through is counted, and the request that made
\* it is let through when it has set the expiry.
Room(c) == (IF c.count <= Limit THEN c.count ELSE Limit) - (IF c.until = 0 THEN 1 ELSE 0)
Expires(P, c, s, tm) ==
    \E e \in 1..MaxClock :
       /\ c.until = e + RateWindow /\ s <= e /\ e <= tm /\ P[e] >= 1
       /\ \A u \in 1..MaxClock : c.until <= u => P[u] = 0
CounterOpen(P, c, s, tm) ==
    /\ s <= tm /\ Led(P, s) /\ Passes(P, s, MaxClock) <= Room(c)
    /\ c.until # 0 => Expires(P, c, s, tm)
CounterFits(P, c, tm) ==
    /\ P \in [1..MaxClock -> Nat] /\ c \in [count : Nat, until : Nat]
    /\ Fits(P) /\ Calm(P, tm)
    /\ c.count = 0 => c.until = 0 /\ \A u \in 1..MaxClock : P[u] = 0
    /\ c.count # 0 => \E s \in 1..MaxClock : CounterOpen(P, c, s, tm)

LEMMA RoomIs ==
    ASSUME NEW c \in [count : Nat, until : Nat]
    PROVE  /\ Room(c) \in Int /\ Room(c) <= Limit
           /\ c.until = 0 => Room(c) <= Limit - 1
           /\ c.count <= Limit => Room(c) = c.count - (IF c.until = 0 THEN 1 ELSE 0)
           /\ c.count # 0 => Room(c) >= 0
<1>1. PICK n \in Nat, u \in Nat, l \in Nat : n = c.count /\ u = c.until /\ l = Limit /\ l >= 1
  BY ClockIs
<1>2. Room(c) = (IF n <= l THEN n ELSE l) - (IF u = 0 THEN 1 ELSE 0)
  BY <1>1 DEF Room
<1> QED BY <1>1, <1>2

LEMMA RoomGrows ==
    ASSUME NEW c \in [count : Nat, until : Nat], NEW d \in [count : Nat, until : Nat],
           d.until = c.until, c.count <= d.count
    PROVE  Room(c) <= Room(d)
<1>1. PICK n \in Nat, k \in Nat, u \in Nat, l \in Nat :
          n = c.count /\ k = d.count /\ u = c.until /\ l = Limit
  BY ClockIs
<1>2. /\ Room(c) = (IF n <= l THEN n ELSE l) - (IF u = 0 THEN 1 ELSE 0)
      /\ Room(d) = (IF k <= l THEN k ELSE l) - (IF u = 0 THEN 1 ELSE 0)
  BY <1>1 DEF Room
<1>3. n <= k
  BY <1>1
<1> QED BY <1>2, <1>3

\* The key is gone, and another begins.
LEMMA CounterStarts ==
    ASSUME NEW P, NEW c, NEW tm \in 1..MaxClock, CounterFits(P, c, tm),
           c.count = 0 \/ (c.until # 0 /\ c.until <= tm),
           NEW d \in [count : Nat, until : Nat], d.count = 1, d.until = 0
    PROVE  CounterFits(P, d, tm)
<1>1. P \in [1..MaxClock -> Nat] /\ Fits(P) /\ Calm(P, tm) /\ c \in [count : Nat, until : Nat]
  BY DEF CounterFits
<1>2. Led(P, tm) /\ \A u \in 1..MaxClock : tm <= u => P[u] = 0
  <2>1. CASE c.count = 0
    <3>1. \A u \in 1..MaxClock : P[u] = 0
      BY <2>1 DEF CounterFits
    <3> QED BY <1>1, <3>1, LedAtFirst
  <2>2. CASE c.count # 0 /\ c.until # 0 /\ c.until <= tm
    <3>1. PICK s \in 1..MaxClock : CounterOpen(P, c, s, tm)
      BY <2>2 DEF CounterFits
    <3>2. PICK e \in 1..MaxClock :
              /\ c.until = e + RateWindow /\ s <= e /\ e <= tm /\ P[e] >= 1
              /\ \A u \in 1..MaxClock : c.until <= u => P[u] = 0
      BY <2>2, <3>1 DEF CounterOpen, Expires
    <3>3. Passes(P, s, MaxClock) \in Nat
      <4>1. s \in Int /\ MaxClock \in Int /\ P \in [1..MaxClock -> Nat]
        BY <1>1, ClockIs
      <4> QED BY ONLY <4>1, PassesNat
    <3>4. Passes(P, s, MaxClock) <= Limit
      <4>1. Passes(P, s, MaxClock) <= Room(c) /\ Room(c) \in Int /\ Room(c) <= Limit
        BY <1>1, <3>1, RoomIs DEF CounterOpen
      <4> QED BY <3>3, <4>1, ClockIs
    <3>5. e + RateWindow <= tm
      BY <2>2, <3>2
    <3>6. Led(P, tm)
      BY ONLY <1>1, <3>2, <3>4, <3>5, LedAgain, tm \in 1..MaxClock, s \in 1..MaxClock
    <3>7. ASSUME NEW u \in 1..MaxClock, tm <= u PROVE c.until <= u
      BY <1>1, <2>2, <3>7
    <3> QED BY <3>2, <3>6, <3>7
  <2> QED BY <2>1, <2>2
<1>3. Passes(P, tm, MaxClock) = 0
  BY ONLY <1>1, <1>2, PassesNone, ClockIs, tm \in 1..MaxClock
<1>4. Room(d) >= 0
  BY RoomIs
<1>5. CounterOpen(P, d, tm, tm)
  BY <1>2, <1>3, <1>4 DEF CounterOpen
<1> QED BY <1>1, <1>5 DEF CounterFits

\* A request that is refused is counted at most.
LEMMA CounterGrows ==
    ASSUME NEW P, NEW c, NEW tm \in 1..MaxClock, CounterFits(P, c, tm), c.count # 0,
           NEW d \in [count : Nat, until : Nat], d.until = c.until, c.count <= d.count
    PROVE  CounterFits(P, d, tm)
<1>1. PICK s \in 1..MaxClock : CounterOpen(P, c, s, tm)
  BY DEF CounterFits
<1>2. c \in [count : Nat, until : Nat] /\ P \in [1..MaxClock -> Nat]
  BY DEF CounterFits
<1>3. Room(c) <= Room(d) /\ Room(c) \in Int /\ Room(d) \in Int
  BY <1>2, RoomGrows, RoomIs
<1>4. Passes(P, s, MaxClock) \in Nat
  BY ONLY <1>2, ClockIs, PassesNat, s \in Int
<1>5. Passes(P, s, MaxClock) <= Room(d)
  BY <1>1, <1>3, <1>4 DEF CounterOpen
<1>6. CounterOpen(P, d, s, tm)
  BY <1>1, <1>5 DEF CounterOpen, Expires
<1>7. d.count # 0
  BY <1>2
<1> QED BY <1>6, <1>7 DEF CounterFits

\* One is let through under a key that has room for it.
LEMMA CounterPasses ==
    ASSUME NEW P, NEW Q, NEW c, NEW tm \in 1..MaxClock, CounterFits(P, c, tm), OneAt(P, Q, tm),
           NEW s \in 1..MaxClock, CounterOpen(P, c, s, tm), Room(c) <= Limit - 1
    PROVE  /\ Q \in [1..MaxClock -> Nat] /\ Fits(Q) /\ Led(Q, s) /\ Calm(Q, tm) /\ Q[tm] >= 1
           /\ Passes(Q, s, MaxClock) <= Room(c) + 1
<1>1. P \in [1..MaxClock -> Nat] /\ Fits(P) /\ Calm(P, tm) /\ c \in [count : Nat, until : Nat]
  BY DEF CounterFits
<1>2. s <= tm /\ Led(P, s) /\ Passes(P, s, MaxClock) <= Room(c)
  BY DEF CounterOpen
<1>3. Passes(Q, s, MaxClock) = Passes(P, s, MaxClock) + 1 /\ Passes(P, s, MaxClock) \in Nat
  BY <1>1, <1>2, PassesOne
<1>4. Room(c) \in Int
  BY <1>1, RoomIs
<1>5. Passes(Q, s, MaxClock) <= Room(c) + 1 /\ Passes(Q, s, MaxClock) <= Limit
  BY <1>2, <1>3, <1>4, ClockIs
<1>6. Fits(Q) /\ Led(Q, s)
  BY ONLY <1>1, <1>2, <1>5, LedFits, OneAt(P, Q, tm), tm \in 1..MaxClock, s \in 1..MaxClock
<1>7. Q \in [1..MaxClock -> Nat] /\ Q[tm] >= 1 /\ Calm(Q, tm)
  BY <1>1, OneMorePass
<1> QED BY <1>5, <1>6, <1>7

LEMMA CounterLets ==
    ASSUME NEW P, NEW Q, NEW c, NEW tm \in 1..MaxClock, CounterFits(P, c, tm), OneAt(P, Q, tm),
           c.count # 0, c.count < Limit, c.until = 0 \/ tm < c.until,
           NEW d \in [count : Nat, until : Nat], d.until = c.until, d.count = c.count + 1
    PROVE  CounterFits(Q, d, tm)
<1>1. PICK s \in 1..MaxClock : CounterOpen(P, c, s, tm)
  BY DEF CounterFits
<1>2. c \in [count : Nat, until : Nat] /\ P \in [1..MaxClock -> Nat]
  BY DEF CounterFits
<1>3. Room(c) <= Limit - 1 /\ Room(d) = Room(c) + 1
  <2>1. PICK n \in Nat, u \in Nat, l \in Nat, k \in Nat :
            n = c.count /\ u = c.until /\ l = Limit /\ k = d.count
    BY <1>2, ClockIs
  <2>2. n < l /\ k = n + 1
    BY <2>1
  <2>3. /\ Room(c) = (IF n <= l THEN n ELSE l) - (IF u = 0 THEN 1 ELSE 0)
        /\ Room(d) = (IF k <= l THEN k ELSE l) - (IF u = 0 THEN 1 ELSE 0)
    BY <2>1 DEF Room
  <2> QED BY <2>1, <2>2, <2>3
<1>4. /\ Q \in [1..MaxClock -> Nat] /\ Fits(Q) /\ Led(Q, s) /\ Calm(Q, tm)
      /\ Passes(Q, s, MaxClock) <= Room(d)
  BY <1>1, <1>3, CounterPasses
<1>5. c.until # 0 => Expires(Q, d, s, tm)
  <2>1. SUFFICES ASSUME c.until # 0 PROVE Expires(Q, d, s, tm)
    OBVIOUS
  <2>2. PICK e \in 1..MaxClock :
            /\ c.until = e + RateWindow /\ s <= e /\ e <= tm /\ P[e] >= 1
            /\ \A u \in 1..MaxClock : c.until <= u => P[u] = 0
    BY <1>1, <2>1 DEF CounterOpen, Expires
  <2>3. Q[e] >= 1
    BY ONLY <1>2, <2>2, OneMorePass, OneAt(P, Q, tm), tm \in 1..MaxClock
  <2>4. ASSUME NEW u \in 1..MaxClock, c.until <= u PROVE Q[u] = 0
    <3>1. u # tm
      BY <1>2, <2>1, <2>4
    <3>2. P[u] = 0
      BY <2>2, <2>4
    <3> QED BY <3>1, <3>2 DEF OneAt
  <2> QED BY <2>2, <2>3, <2>4 DEF Expires
<1>6. CounterOpen(Q, d, s, tm)
  BY <1>1, <1>4, <1>5 DEF CounterOpen
<1>7. d.count # 0
  BY <1>2
<1> QED BY <1>4, <1>6, <1>7 DEF CounterFits

LEMMA CounterExpires ==
    ASSUME NEW P, NEW Q, NEW c, NEW tm \in 1..MaxClock, CounterFits(P, c, tm), OneAt(P, Q, tm),
           c.count # 0, c.until = 0,
           NEW d \in [count : Nat, until : Nat], d.until = tm + RateWindow, d.count = c.count
    PROVE  CounterFits(Q, d, tm)
<1>1. PICK s \in 1..MaxClock : CounterOpen(P, c, s, tm)
  BY DEF CounterFits
<1>2. c \in [count : Nat, until : Nat] /\ P \in [1..MaxClock -> Nat]
  BY DEF CounterFits
<1>3. Room(c) <= Limit - 1 /\ Room(d) = Room(c) + 1 /\ d.until # 0
  <2>1. PICK n \in Nat, u \in Nat, l \in Nat :
            n = c.count /\ u = d.until /\ l = Limit /\ u # 0 /\ d.count = n
    BY <1>2, ClockIs
  <2>2. /\ Room(c) = (IF n <= l THEN n ELSE l) - 1
        /\ Room(d) = (IF n <= l THEN n ELSE l) - 0
    BY <2>1 DEF Room
  <2> QED BY <2>1, <2>2
<1>4. /\ Q \in [1..MaxClock -> Nat] /\ Fits(Q) /\ Led(Q, s) /\ Calm(Q, tm) /\ Q[tm] >= 1
      /\ Passes(Q, s, MaxClock) <= Room(d)
  BY <1>1, <1>3, CounterPasses
<1>5. Expires(Q, d, s, tm)
  <2>1. s <= tm
    BY <1>1 DEF CounterOpen
  <2>2. ASSUME NEW u \in 1..MaxClock, d.until <= u PROVE Q[u] = 0
    <3>1. tm < u
      BY <2>2, ClockIs
    <3> QED BY <1>4, <3>1 DEF Calm
  <2> QED BY <1>4, <2>1, <2>2 DEF Expires
<1>6. CounterOpen(Q, d, s, tm)
  BY <1>1, <1>4, <1>5 DEF CounterOpen
<1>7. d.count # 0
  BY <1>2
<1> QED BY <1>4, <1>6, <1>7 DEF CounterFits

LEMMA CounterLater ==
    ASSUME NEW P, NEW c, NEW tm \in Nat, NEW later \in Nat, tm <= later, CounterFits(P, c, tm)
    PROVE  CounterFits(P, c, later)
<1>1. Calm(P, later)
  BY DEF CounterFits, Calm
<1>2. ASSUME NEW s \in 1..MaxClock, Expires(P, c, s, tm) PROVE Expires(P, c, s, later)
  <2>1. PICK e \in 1..MaxClock :
            /\ c.until = e + RateWindow /\ s <= e /\ e <= tm /\ P[e] >= 1
            /\ \A u \in 1..MaxClock : c.until <= u => P[u] = 0
    BY <1>2 DEF Expires
  <2>2. e <= later
    BY <2>1
  <2> QED BY <2>1, <2>2 DEF Expires
<1>3. ASSUME NEW s \in 1..MaxClock, CounterOpen(P, c, s, tm) PROVE CounterOpen(P, c, s, later)
  <2>1. s <= later
    BY <1>3 DEF CounterOpen
  <2> QED BY <1>2, <1>3, <2>1 DEF CounterOpen
<1> QED BY <1>1, <1>3 DEF CounterFits

RateTypes ==
    /\ passed \in [Instances \cup {0} -> [1..MaxClock -> Nat]]
    /\ windows \in [Instances -> [start : Nat, count : Nat]]
    /\ expiring \in SUBSET Instances
RateInv ==
    /\ RateTypes
    /\ \A i \in Instances : WindowFits(passed[i], windows[i], time)
    /\ CounterFits(passed[0], counter, time)
    /\ \A i \in expiring, j \in expiring : i = j
    /\ expiring # {} => counter.until = 0 /\ counter.count # 0

LEMMA RatesStart == GuardInit => RateInv
<1> SUFFICES ASSUME GuardInit PROVE RateInv
  OBVIOUS
<1>1. PICK P \in [1..MaxClock -> Nat] : P = [t \in 1..MaxClock |-> 0]
  OBVIOUS
<1>2. PICK w \in [start : Nat, count : Nat] : w = [start |-> 0, count |-> 0]
  OBVIOUS
<1>3. PICK c \in [count : Nat, until : Nat] : c = [count |-> 0, until |-> 0]
  OBVIOUS
<1>4. /\ counter = c /\ expiring = {} /\ windows = [i \in Instances |-> w]
      /\ passed = [s \in Instances \cup {0} |-> P] /\ time = 1
  BY <1>1, <1>2, <1>3 DEF GuardInit
<1>5. \A u \in 1..MaxClock : P[u] = 0
  BY <1>1
<1>6. Fits(P) /\ Calm(P, time)
  <2>1. 1 \in 1..MaxClock
    BY ClockIs
  <2> QED BY <1>5, <2>1, LedAtFirst DEF Calm
<1>7. WindowFits(P, w, time)
  BY <1>2, <1>5, <1>6 DEF WindowFits
<1>8. CounterFits(P, c, time)
  BY <1>3, <1>5, <1>6 DEF CounterFits
<1>9. RateTypes
  BY <1>4 DEF RateTypes
<1> QED BY <1>4, <1>7, <1>8, <1>9 DEF RateInv

LEMMA RatesLater ==
    ASSUME RateInv, UNCHANGED rateVars, time \in Nat, time' \in Nat, time <= time'
    PROVE  RateInv'
<1>1. UNCHANGED <<counter, expiring, windows, passed>>
  BY DEF rateVars
<1>2. RateTypes'
  BY <1>1 DEF RateInv, RateTypes
<1>3. ASSUME NEW i \in Instances PROVE WindowFits(passed'[i], windows'[i], time')
  <2>1. WindowFits(passed[i], windows[i], time)
    BY DEF RateInv
  <2> QED BY <1>1, <2>1, WindowLater
<1>4. CounterFits(passed'[0], counter', time')
  <2>1. CounterFits(passed[0], counter, time)
    BY DEF RateInv
  <2> QED BY <1>1, <2>1, CounterLater
<1> QED BY <1>1, <1>2, <1>3, <1>4 DEF RateInv

LEMMA LetIs ==
    ASSUME RateTypes, time \in 1..MaxClock, NEW s \in Instances \cup {0}, Let(s)
    PROVE  /\ passed' \in [Instances \cup {0} -> [1..MaxClock -> Nat]]
           /\ OneAt(passed[s], passed'[s], time)
           /\ \A x \in Instances \cup {0} : x # s => passed'[x] = passed[x]
<1>1. PICK P \in [1..MaxClock -> Nat] : P = passed[s]
  BY DEF RateTypes
<1>2. PICK n \in Nat : n = P[time] + 1
  OBVIOUS
<1>3. PICK Q \in [1..MaxClock -> Nat] : Q = [P EXCEPT ![time] = n]
  BY <1>2
<1>4. passed' = [passed EXCEPT ![s] = Q]
  BY <1>1, <1>2, <1>3 DEF Let, RateTypes
<1>5. passed'[s] = Q
  BY <1>4 DEF RateTypes
<1>6. OneAt(P, Q, time)
  BY <1>2, <1>3 DEF OneAt
<1> QED BY <1>1, <1>4, <1>5, <1>6 DEF RateTypes

LEMMA LetRedis ==
    ASSUME RateTypes, time \in 1..MaxClock, Let(0)
    PROVE  /\ passed' \in [Instances \cup {0} -> [1..MaxClock -> Nat]]
           /\ OneAt(passed[0], passed'[0], time)
           /\ \A x \in Instances \cup {0} : x # 0 => passed'[x] = passed[x]
<1>1. 0 \in Instances \cup {0}
  OBVIOUS
<1> QED BY ONLY <1>1, LetIs, RateTypes, time \in 1..MaxClock, Let(0)

LEMMA FallbackKeeps ==
    ASSUME RateInv, time \in 1..MaxClock, UNCHANGED time, UNCHANGED counter, NEW i \in Instances,
           expiring' = expiring \ {i}, Fallback(i)
    PROVE  RateInv'
<1>1. PICK w \in [start : Nat, count : Nat] : w = windows[i]
  BY DEF RateInv, RateTypes
<1>2. PICK tm \in 1..MaxClock : tm = time
  OBVIOUS
<1>3. WindowFits(passed[i], w, tm) /\ passed[i] \in [1..MaxClock -> Nat]
  BY <1>1, <1>2 DEF RateInv, RateTypes
<1>4. i # 0
  BY GuardsAssumption
<1>5. ASSUME passed' \in [Instances \cup {0} -> [1..MaxClock -> Nat]],
             \A x \in Instances \cup {0} : x # i => passed'[x] = passed[x],
             NEW v \in [start : Nat, count : Nat], windows' = [windows EXCEPT ![i] = v],
             WindowFits(passed'[i], v, tm)
      PROVE  RateInv'
  <2>1. RateTypes'
    BY <1>5 DEF RateInv, RateTypes
  <2>2. ASSUME NEW x \in Instances PROVE WindowFits(passed'[x], windows'[x], time')
    <3>1. CASE x = i
      BY <1>2, <1>5, <3>1 DEF RateInv, RateTypes
    <3>2. CASE x # i
      <4>1. passed'[x] = passed[x] /\ windows'[x] = windows[x]
        BY <1>5, <3>2 DEF RateInv, RateTypes
      <4> QED BY <4>1 DEF RateInv
    <3> QED BY <3>1, <3>2
  <2>3. CounterFits(passed'[0], counter', time')
    <3>1. passed'[0] = passed[0]
      BY <1>4, <1>5
    <3> QED BY <3>1 DEF RateInv
  <2>4. /\ \A x \in expiring', y \in expiring' : x = y
        /\ expiring' # {} => counter'.until = 0 /\ counter'.count # 0
    BY DEF RateInv
  <2> QED BY <2>1, <2>2, <2>3, <2>4 DEF RateInv
<1>6. CASE w.start = 0 \/ tm - w.start >= RateWindow
  <2>1. PICK v \in [start : Nat, count : Nat] : v = [start |-> tm, count |-> 1]
    <3>1. tm \in Nat
      BY ClockIs
    <3>2. [start |-> tm, count |-> 1] \in [start : Nat, count : Nat]
      BY <3>1
    <3> QED BY <3>2
  <2>2. windows' = [windows EXCEPT ![i] = v] /\ Let(i)
    BY <1>1, <1>2, <1>6, <2>1 DEF Fallback
  <2>3. /\ passed' \in [Instances \cup {0} -> [1..MaxClock -> Nat]]
        /\ OneAt(passed[i], passed'[i], tm)
        /\ \A x \in Instances \cup {0} : x # i => passed'[x] = passed[x]
    BY <1>2, <2>2, LetIs DEF RateInv
  <2>4. v.start = tm /\ v.count = 1
    BY <2>1
  <2>5. WindowFits(passed'[i], v, tm)
    BY ONLY <1>3, <1>6, <2>3, <2>4, WindowStarts, tm \in 1..MaxClock,
            v \in [start : Nat, count : Nat]
  <2> QED BY <1>5, <2>2, <2>3, <2>5
<1>7. CASE ~ (w.start = 0 \/ tm - w.start >= RateWindow) /\ w.count >= Limit
  <2>1. UNCHANGED <<windows, passed>>
    BY <1>1, <1>2, <1>7 DEF Fallback
  <2>2. windows' = [windows EXCEPT ![i] = w]
    BY <1>1, <2>1 DEF RateInv, RateTypes
  <2> QED BY <1>3, <1>5, <2>1, <2>2 DEF RateInv, RateTypes
<1>8. CASE ~ (w.start = 0 \/ tm - w.start >= RateWindow) /\ ~ (w.count >= Limit)
  <2>1. PICK v \in [start : Nat, count : Nat] : v.start = w.start /\ v.count = w.count + 1
                                                /\ v = [w EXCEPT !.count = w.count + 1]
    <3>1. PICK n \in Nat, x \in Nat : n = w.count + 1 /\ x = w.start
      <4>1. w.count \in Nat /\ w.start \in Nat
        OBVIOUS
      <4>2. w.count + 1 \in Nat
        BY <4>1
      <4> QED BY <4>1, <4>2
    <3>2. PICK v \in [start : Nat, count : Nat] : v = [start |-> x, count |-> n]
      OBVIOUS
    <3>3. v = [w EXCEPT !.count = n]
      BY ONLY <3>1, <3>2, w \in [start : Nat, count : Nat]
    <3> QED BY <3>1, <3>2, <3>3
  <2>2. windows' = [windows EXCEPT ![i] = v] /\ Let(i)
    <3>1. windows' = [windows EXCEPT ![i].count = @ + 1] /\ Let(i)
      BY <1>1, <1>2, <1>8 DEF Fallback
    <3> QED BY <1>1, <2>1, <3>1 DEF RateInv, RateTypes
  <2>3. /\ passed' \in [Instances \cup {0} -> [1..MaxClock -> Nat]]
        /\ OneAt(passed[i], passed'[i], tm)
        /\ \A x \in Instances \cup {0} : x # i => passed'[x] = passed[x]
    BY <1>2, <2>2, LetIs DEF RateInv
  <2>4. w.start # 0 /\ tm - w.start < RateWindow /\ w.count < Limit
    <3>1. PICK a \in Nat, c \in Nat : a = w.start /\ c = w.count
      OBVIOUS
    <3> QED BY <1>8, <3>1, ClockIs
  <2>5. WindowFits(passed'[i], v, tm)
    BY ONLY <1>3, <2>1, <2>3, <2>4, WindowCounts, tm \in 1..MaxClock,
            v \in [start : Nat, count : Nat]
  <2> QED BY <1>5, <2>2, <2>3, <2>5
<1> QED BY <1>6, <1>7, <1>8

\* The windows stay as they are.
LEMMA WindowsStay ==
    ASSUME RateInv, UNCHANGED <<time, windows>>,
           passed' \in [Instances \cup {0} -> [1..MaxClock -> Nat]],
           \A x \in Instances \cup {0} : x # 0 => passed'[x] = passed[x],
           expiring' \in SUBSET Instances
    PROVE  RateTypes' /\ \A i \in Instances : WindowFits(passed'[i], windows'[i], time')
<1>1. RateTypes'
  BY DEF RateInv, RateTypes
<1>2. ASSUME NEW i \in Instances PROVE WindowFits(passed'[i], windows'[i], time')
  <2>1. i # 0
    BY GuardsAssumption
  <2>2. passed'[i] = passed[i]
    BY <2>1
  <2> QED BY <2>2 DEF RateInv
<1> QED BY <1>1, <1>2

LEMMA RateLimitKeeps ==
    ASSUME RateInv, time \in 1..MaxClock, UNCHANGED time, NEW i \in Instances, RateLimit(i)
    PROVE  RateInv'
<1>1. PICK c \in [count : Nat, until : Nat] : c = counter
  BY DEF RateInv, CounterFits
<1>2. PICK tm \in 1..MaxClock : tm = time
  OBVIOUS
<1>3. CounterFits(passed[0], c, tm) /\ passed[0] \in [1..MaxClock -> Nat]
  BY <1>1, <1>2 DEF RateInv, RateTypes
<1>4. PICK d : d = [count |-> IF Count > Limit THEN Count ELSE Count + 1,
                    until |-> IF Live THEN counter.until ELSE 0]
  OBVIOUS
<1>5. counter' = d /\ windows' = windows
  BY <1>4 DEF RateLimit
<1>6. RateTypes
  BY DEF RateInv
<1>7. CASE Count = 0
  <2>1. c.count = 0 \/ (c.until # 0 /\ c.until <= tm)
    BY <1>1, <1>2, <1>7 DEF Count, Live
  <2>2. expiring = {}
    BY <1>1, <1>2, <2>1 DEF RateInv
  <2>3. expiring' = expiring \cup {i} /\ passed' = passed
    BY <1>7 DEF RateLimit
  <2>4. d = [count |-> 1, until |-> 0]
    <3>1. c.count = 0 => c.until = 0
      BY <1>3 DEF CounterFits
    <3>2. (IF Live THEN counter.until ELSE 0) = 0
      <4>1. CASE Live
        BY <1>1, <1>7, <3>1, <4>1 DEF Count
      <4>2. CASE ~Live
        BY <4>2
      <4> QED BY <4>1, <4>2
    <3>3. ~ (0 > Limit)
      BY ClockIs
    <3> QED BY <1>4, <1>7, <3>2, <3>3
  <2>5. d \in [count : Nat, until : Nat] /\ d.count = 1 /\ d.until = 0
    BY <2>4
  <2>6. CounterFits(passed[0], d, tm)
    BY ONLY <1>3, <2>1, <2>5, CounterStarts, tm \in 1..MaxClock
  <2>7. expiring' \in SUBSET Instances
    BY <1>6, <2>3 DEF RateTypes
  <2>8. RateTypes' /\ \A x \in Instances : WindowFits(passed'[x], windows'[x], time')
    BY <1>5, <1>6, <2>3, <2>7, WindowsStay DEF RateTypes
  <2>9. CounterFits(passed'[0], counter', time')
    BY <1>2, <1>5, <2>3, <2>6
  <2> QED BY <1>5, <2>2, <2>3, <2>5, <2>8, <2>9 DEF RateInv
<1>8. CASE Count # 0
  <2>1. Live /\ Count = c.count /\ c.count # 0 /\ (c.until = 0 \/ tm < c.until)
    BY <1>1, <1>2, <1>8 DEF Count, Live
  <2>2. expiring' = expiring
        /\ IF c.count < Limit THEN Let(0) ELSE passed' = passed
    BY <1>8, <2>1 DEF RateLimit
  <2>3. d = [count |-> IF c.count > Limit THEN c.count ELSE c.count + 1, until |-> c.until]
    BY <1>1, <1>4, <2>1
  <2>4. d \in [count : Nat, until : Nat] /\ d.until = c.until /\ c.count <= d.count /\ d.count # 0
    <3>1. PICK n \in Nat, k \in Nat : n = c.count /\ k = IF n > Limit THEN n ELSE n + 1
      BY ClockIs
    <3>2. n # 0 /\ n <= k
      BY <2>1, <3>1
    <3>3. d.count = k /\ d.until = c.until /\ d \in [count : Nat, until : Nat]
      BY <2>3, <3>1
    <3> QED BY <3>1, <3>2, <3>3
  <2>5. expiring' # {} => d.until = 0
    BY <1>1, <2>2, <2>4 DEF RateInv
  <2>6. CASE c.count < Limit
    <3>1. Let(0)
      BY <2>2, <2>6
    <3>2. /\ passed' \in [Instances \cup {0} -> [1..MaxClock -> Nat]]
          /\ OneAt(passed[0], passed'[0], tm)
          /\ \A x \in Instances \cup {0} : x # 0 => passed'[x] = passed[x]
      BY <1>2, <1>6, <3>1, LetRedis
    <3>3. d.count = c.count + 1
      <4>1. ~ (c.count > Limit)
        BY <2>6, ClockIs
      <4> QED BY <2>3, <4>1
    <3>4. CounterFits(passed'[0], d, tm)
      BY ONLY <1>3, <2>1, <2>4, <2>6, <3>2, <3>3, CounterLets, tm \in 1..MaxClock
    <3>5. RateTypes' /\ \A x \in Instances : WindowFits(passed'[x], windows'[x], time')
      BY <1>5, <1>6, <2>2, <3>2, WindowsStay DEF RateTypes
    <3>6. CounterFits(passed'[0], counter', time')
      BY <1>2, <1>5, <3>4
    <3> QED BY <1>5, <2>2, <2>4, <2>5, <3>5, <3>6 DEF RateInv
  <2>7. CASE ~ (c.count < Limit)
    <3>1. passed' = passed
      BY <2>2, <2>7
    <3>2. CounterFits(passed[0], d, tm)
      BY ONLY <1>3, <2>1, <2>4, CounterGrows, tm \in 1..MaxClock
    <3>3. RateTypes' /\ \A x \in Instances : WindowFits(passed'[x], windows'[x], time')
      BY <1>5, <1>6, <2>2, <3>1, WindowsStay DEF RateTypes
    <3>4. CounterFits(passed'[0], counter', time')
      BY <1>2, <1>5, <3>1, <3>2
    <3> QED BY <1>5, <2>2, <2>4, <2>5, <3>3, <3>4 DEF RateInv
  <2> QED BY <2>6, <2>7
<1> QED BY <1>7, <1>8

LEMMA ExpireKeeps ==
    ASSUME RateInv, time \in 1..MaxClock, UNCHANGED time, NEW i \in Instances, Expire(i)
    PROVE  RateInv'
<1>1. PICK c \in [count : Nat, until : Nat] : c = counter
  BY DEF RateInv, CounterFits
<1>2. PICK tm \in 1..MaxClock : tm = time
  OBVIOUS
<1>3. CounterFits(passed[0], c, tm) /\ RateTypes
  BY <1>1, <1>2 DEF RateInv
<1>4. i \in expiring /\ expiring' = expiring \ {i} /\ windows' = windows /\ Let(0)
      /\ counter' = [c EXCEPT !.until = tm + RateWindow]
  BY <1>1, <1>2 DEF Expire
<1>5. c.until = 0 /\ c.count # 0 /\ expiring' = {}
  BY <1>1, <1>4 DEF RateInv
<1>6. PICK u \in Nat : u = tm + RateWindow
  BY ClockIs
<1>7. PICK d \in [count : Nat, until : Nat] : /\ d = [c EXCEPT !.until = u] /\ d.until = u
                                              /\ d.count = c.count
  <2>1. [c EXCEPT !.until = u] \in [count : Nat, until : Nat]
        /\ [c EXCEPT !.until = u].until = u /\ [c EXCEPT !.until = u].count = c.count
    OBVIOUS
  <2> QED BY <2>1
<1>8. counter' = d
  BY <1>4, <1>6, <1>7
<1>9. /\ passed' \in [Instances \cup {0} -> [1..MaxClock -> Nat]]
      /\ OneAt(passed[0], passed'[0], tm)
      /\ \A x \in Instances \cup {0} : x # 0 => passed'[x] = passed[x]
  BY <1>2, <1>3, <1>4, LetRedis
<1>10. passed[0] \in [1..MaxClock -> Nat]
  BY <1>3 DEF RateTypes
<1>11. CounterFits(passed'[0], d, tm)
  BY ONLY <1>3, <1>5, <1>6, <1>7, <1>9, <1>10, CounterExpires, tm \in 1..MaxClock
<1>12. expiring' \in SUBSET Instances
  BY <1>5
<1>13. RateTypes' /\ \A x \in Instances : WindowFits(passed'[x], windows'[x], time')
  BY <1>4, <1>9, <1>12, WindowsStay
<1>14. CounterFits(passed'[0], counter', time')
  BY <1>2, <1>8, <1>11
<1> QED BY <1>5, <1>13, <1>14 DEF RateInv

LEMMA RateStep ==
    ASSUME RateInv, time \in 1..MaxClock, RateNext
    PROVE  RateInv'
<1>1. ASSUME Tick1, UNCHANGED rateVars PROVE RateInv'
  BY <1>1, RatesLater DEF Tick1
<1>2. ASSUME UNCHANGED time, NEW i \in Instances, RateLimit(i) \/ Expire(i) \/ RedisFails(i)
      PROVE  RateInv'
  <2>1. ASSUME RedisFails(i) PROVE RateInv'
    BY <1>2, <2>1, FallbackKeeps DEF RedisFails
  <2> QED BY <1>2, <2>1, RateLimitKeeps, ExpireKeeps
<1> QED BY <1>1, <1>2 DEF RateNext

GuardInv == time \in 1..MaxClock /\ MemberInv /\ AppInv /\ RateInv

LEMMA GuardsStart == GuardInit => GuardInv
<1> SUFFICES ASSUME GuardInit PROVE GuardInv
  OBVIOUS
<1>1. time = 1
  BY DEF GuardInit
<1>2. time \in 1..MaxClock
  BY <1>1, ClockIs
<1> QED BY <1>2, MembersStart, AppsStart, RatesStart DEF GuardInv

LEMMA ClockStep ==
    ASSUME time \in 1..MaxClock, MemberNext \/ AppNext \/ RateNext
    PROVE  time' \in 1..MaxClock /\ time \in Nat /\ time' \in Nat /\ time <= time'
<1>1. Tick1 \/ UNCHANGED time
  BY DEF MemberNext, AppNext, RateNext
<1>2. CASE Tick1
  BY <1>2, ClockIs DEF Tick1
<1>3. CASE UNCHANGED time
  BY <1>3, ClockIs
<1> QED BY <1>1, <1>2, <1>3

LEMMA GuardStep ==
    ASSUME GuardInv,
           \/ MemberNext /\ UNCHANGED <<appVars, rateVars>>
           \/ AppNext /\ UNCHANGED <<memberVars, rateVars>>
           \/ RateNext /\ UNCHANGED <<memberVars, appVars>>
    PROVE  GuardInv'
<1>1. MemberInv /\ AppInv /\ RateInv /\ time \in 1..MaxClock
  BY DEF GuardInv
<1>2. time' \in 1..MaxClock /\ time \in Nat /\ time' \in Nat /\ time <= time'
  BY <1>1, ClockStep
<1>3. CASE MemberNext /\ UNCHANGED <<appVars, rateVars>>
  BY <1>1, <1>2, <1>3, MemberStep, AppsLater, RatesLater DEF GuardInv
<1>4. CASE AppNext /\ UNCHANGED <<memberVars, rateVars>>
  BY <1>1, <1>2, <1>4, AppStep, MembersLater, RatesLater DEF GuardInv
<1>5. CASE RateNext /\ UNCHANGED <<memberVars, appVars>>
  BY <1>1, <1>2, <1>5, RateStep, MembersLater, AppsLater DEF GuardInv
<1> QED BY <1>3, <1>4, <1>5

LEMMA GuardStutters == GuardInv /\ UNCHANGED guardVars => GuardInv'
<1> SUFFICES ASSUME GuardInv, UNCHANGED guardVars PROVE GuardInv'
  OBVIOUS
<1>1. UNCHANGED memberVars /\ UNCHANGED appVars /\ UNCHANGED rateVars /\ time' = time
  BY DEF guardVars
<1>2. time \in Nat /\ time' \in Nat /\ time <= time'
  BY <1>1, ClockIs DEF GuardInv
<1> QED BY <1>1, <1>2, MembersLater, AppsLater, RatesLater DEF GuardInv

\* The sum of the specification is that of the proof.
LEMMA PassesAre ==
    ASSUME NEW P \in [1..MaxClock -> Nat], NEW t \in 1..MaxClock, NEW e \in Int,
           e = t + RateWindow - 1
    PROVE  MapThenSumSet(LAMBDA u : P[u], {u \in t..MaxClock : u < t + RateWindow})
             = Passes(P, t, e)
<1> DEFINE S == 1..MaxClock
           T == {u \in t..MaxClock : u < t + RateWindow}
           F == [u \in T |-> P[u]]
           W == Within(P, t, e)
           Eq(iter) == iter = [s \in SUBSET T |-> IF s = {} THEN 0
                          ELSE P[CHOOSE x \in s : TRUE] + iter[s \ {CHOOSE x \in s : TRUE}]]
           g == CHOOSE iter : Eq(iter)
<1>1. MapThenSumSet(LAMBDA u : P[u], T) = g[T]
  BY Zenon DEF MapThenSumSet, MapThenFoldSet
<1>2. T \in SUBSET S /\ IsFiniteSet(S)
  BY ClockIs
<1>3. F \in [T -> Int] /\ W \in [S -> Int]
  <2>1. \A u \in T : P[u] \in Int
    BY <1>2
  <2> QED BY <2>1, WithinIs
<1>4. (\A u \in T : W[u] = F[u]) /\ \A u \in S \ T : W[u] = 0
  <2>1. \A u \in S : u \in T <=> t <= u /\ u <= e
    BY ClockIs
  <2>2. /\ \A u \in S : t <= u /\ u <= e => W[u] = P[u]
        /\ \A u \in S : ~ (t <= u /\ u <= e) => W[u] = 0
    BY DEF Within
  <2>3. \A u \in T : F[u] = P[u]
    OBVIOUS
  <2> HIDE DEF W, F, T, S
  <2> QED BY <1>2, <2>1, <2>2, <2>3
<1>5. Passes(P, t, e) = Total(W)
  BY DEF Passes
<1>6. \A h : Adds(h, F, T) <=> Eq(h)
  <2> HIDE DEF T
  <2> QED BY PickIn DEF Adds, Pick
<1>7. IsFiniteSet(T)
  BY <1>2, FS_Subset
<1>8. Adds(g, F, T)
  <2> HIDE DEF Eq, F, T
  <2>1. \E h : Eq(h)
    BY <1>6, <1>7, SumsExist
  <2> QED BY <2>1, <1>6
<1> HIDE DEF g, F, T, W, S
<1>9. Total(F) = g[T]
  BY <1>3, <1>7, <1>8, TotalOf
<1>10. Total(W) = Total(F)
  BY ONLY <1>2, <1>3, <1>4, TotalWhere
<1> QED BY <1>1, <1>5, <1>9, <1>10 DEF T

LEMMA GuardsAreRight == GuardInv => GuardsHold
<1> SUFFICES ASSUME GuardInv PROVE GuardsHold
  OBVIOUS
<1>1. StaleAnswersEnd
  <2>1. ASSUME NEW m \in Members, items[m].allowed # IsMember(m), ~items[m].late
        PROVE  items[m].until <= changed[m] + (IF items[m].allowed THEN MemberTtl ELSE NegativeTtl)
    BY <2>1 DEF GuardInv, MemberInv, ItemsHold, Ttl
  <2>2. ASSUME NEW a \in AppIds, known[a].tenant # owner[a], ~known[a].late
        PROVE  known[a].until <= ownerAt[a] + AppTtl
    BY <2>2 DEF GuardInv, AppInv, KnownHold
  <2> QED BY <2>1, <2>2 DEF StaleAnswersEnd
<1>2. ASSUME NEW s \in DOMAIN passed, NEW t \in 1..MaxClock
      PROVE  MapThenSumSet(LAMBDA u : passed[s][u], {u \in t..MaxClock : u < t + RateWindow})
               < 2 * Limit
  <2>1. s \in Instances \cup {0} /\ passed[s] \in [1..MaxClock -> Nat]
    BY DEF GuardInv, RateInv, RateTypes
  <2>2. Fits(passed[s])
    <3>1. CASE s = 0
      BY <3>1 DEF GuardInv, RateInv, CounterFits
    <3>2. CASE s # 0
      BY <2>1, <3>2 DEF GuardInv, RateInv, WindowFits
    <3> QED BY <3>1, <3>2
  <2>3. PICK e \in Int : e = t + RateWindow - 1
    BY ClockIs
  <2>4. Passes(passed[s], t, e) < 2 * Limit
    BY <2>2, <2>3 DEF Fits
  <2>5. MapThenSumSet(LAMBDA u : passed[s][u], {u \in t..MaxClock : u < t + RateWindow})
          = Passes(passed[s], t, e)
    BY <2>1, <2>3, PassesAre
  <2> QED BY <2>4, <2>5
<1>3. WindowsAreBounded
  BY <1>2 DEF WindowsAreBounded
<1> QED BY <1>1, <1>3 DEF GuardsHold

-----------------------------------------------------------------------------
(* A request and its filters *)

\* The filters that a request has gone through, and what it has then.
Went(f, k) == \E i \in DOMAIN chain : i < k /\ chain[i] = f
SeenUser(c, k) ==
    /\ Went("RequireSessionAuth", k) => Valid(request.auth) /\ c.user = Claims(request.auth)[1]
    /\ ~Went("RequireSessionAuth", k) => c.user = Unset
    /\ Went("RequireTenantMember", k) \/ Went("RequireRoles", k) => Went("RequireSessionAuth", k)
SeenMember(c, k) ==
    Went("RequireTenantMember", k) =>
       /\ c.tenant > 0
       /\ c.user \in Admins \/ request.members = "remembered" \/ MemberOf(c.user, c.tenant)
SeenClaimed(c, k) ==
    Before("TenantFromRequest", "RequireSessionAuth") /\ Went("RequireSessionAuth", k)
      /\ ~Went("RequireTenantMember", k) => c.tenant = Claims(request.auth)[2]
SeenTenant(c, k) ==
    /\ c.tenant \in Nat \cup {Unset}
    /\ Went("TenantFromAppID", k) => c.tenant # Unset
    /\ c.tenant = 0 => request.tenant = "0" \/ Claims(request.auth)[2] = 0
SeenRole(c, k) == Went("RequireRoles", k) => c.role = "owner"
Seen(c, k) == /\ SeenUser(c, k) /\ SeenMember(c, k) /\ SeenClaimed(c, k)
              /\ SeenTenant(c, k) /\ SeenRole(c, k)
SeenBody(k) ==
    Went("BodyLimit", k) /\ Limits => reader.on \/ request.body <= MaxBytes

Roles == {"staff", "owner", ""}
Apps == {r.app : r \in Inputs} \cup {""}
Ids == {r.id : r \in Inputs} \cup {"random", ""}
Contexts == [user : Int, tenant : Int, role : Roles, app : Apps, id : Ids]
BodyReaders == [on : BOOLEAN, remaining : Int, exceeded : BOOLEAN, given : Nat]
RequestTypes ==
    /\ request \in Inputs /\ chain \in Chains /\ at \in 0..(Len(chain) + 1)
    /\ inward \in BOOLEAN /\ panicking \in BOOLEAN /\ status \in Nat
    /\ context \in Contexts /\ reader \in BodyReaders
ReaderHolds ==
    /\ reader.given <= request.body
    /\ reader.on => reader.remaining >= 0 /\ reader.given + reader.remaining = MaxBytes
Inward ==
    inward => /\ at >= 1 /\ Seen(context, at) /\ SeenBody(at)
              /\ status = 0 /\ ~panicking /\ handled = <<>> /\ requests = <<>>
              /\ at <= Len(chain) => reader.given = 0
HandledWell ==
    handled # <<>> => /\ Seen(handled[1], Len(chain) + 1) /\ SeenBody(Len(chain) + 1)
                      /\ handled[2] = reader.given
Outward ==
    ~inward => /\ at <= Len(chain) /\ (panicking \/ status > 0)
               /\ panicking => \A j \in DOMAIN chain : chain[j] = "Recovery" => j <= at
Answered == status = 200 => handled # <<>> /\ handled[2] = request.body
Logged ==
    \A i \in DOMAIN chain :
       chain[i] = "AccessLog" /\ Before("AccessLog", "Recovery") /\ ~request.skipped =>
          /\ inward \/ i <= at => requests = <<>>
          /\ ~inward /\ at < i => requests = <<status>> /\ ~panicking
RequestInv == /\ RequestTypes /\ ReaderHolds /\ Inward /\ HandledWell /\ Outward
              /\ Answered /\ Logged

LEMMA ChainIs ==
    ASSUME chain \in Chains
    PROVE  /\ Len(chain) \in Nat /\ DOMAIN chain = 1..Len(chain)
           /\ \A i \in DOMAIN chain : chain[i] \in Filters
           /\ \A i, j \in DOMAIN chain :
                /\ chain[i] = chain[j]
                   /\ chain[i] \in {"RequireSessionAuth", "TenantFromRequest", "AccessLog"}
                     => i = j
                /\ chain[i] = "RequireTenantMember" /\ chain[j] = "TenantFromRequest" => j < i
                /\ chain[i] = "AccessLog" /\ chain[j] = "Recovery" /\ i < j
                     => \A k \in 1..i : chain[k] \in Harmless
<1>1. chain \in Seq(Filters)
  BY ChainsAssumption
<1>2. Len(chain) \in Nat /\ DOMAIN chain = 1..Len(chain)
      /\ \A i \in DOMAIN chain : chain[i] \in Filters
  <2> HIDE DEF Filters
  <2> QED BY <1>1
<1> QED BY <1>2, ChainsAssumption

LEMMA WentMore ==
    ASSUME NEW f, NEW k \in DOMAIN chain, chain \in Chains
    PROVE  Went(f, k + 1) <=> Went(f, k) \/ chain[k] = f
<1>1. \A i \in DOMAIN chain : i \in Int
  BY ChainIs
<1>2. \A i \in DOMAIN chain : i < k + 1 <=> i < k \/ i = k
  BY <1>1
<1> QED BY <1>2 DEF Went

LEMMA ClaimsAre ==
    ASSUME NEW t, Valid(t)
    PROVE  /\ Claims(t)[1] \in {1, 2} /\ Claims(t)[2] \in {0, 1}
           /\ Claims(t)[3] \in {"staff", "owner"}
<1>1. CASE t = "alone"
  <2>1. Claims(t) = <<1, 0, "staff">>
    BY <1>1 DEF Claims
  <2> QED BY <2>1
<1>2. CASE t = "tenant"
  <2>1. Claims(t) = <<1, 1, "staff">>
    BY <1>2 DEF Claims
  <2> QED BY <2>1
<1>3. CASE t = "admin"
  <2>1. Claims(t) = <<2, 0, "owner">>
    BY <1>3 DEF Claims
  <2> QED BY <2>1
<1> QED BY <1>1, <1>2, <1>3 DEF Valid

\* What each filter answers.
LEMMA VerdictIs ==
    /\ \A f \in Harmless : Verdict(f) = 0
    /\ Verdict("RequireSessionAuth") = RequireAuth
    /\ Verdict("RequireTenantMember") = RequireTenantMember
    /\ Verdict("TenantFromAppID") = TenantFromAppID
    /\ Verdict("PermissionRequired") = PermissionRequired
    /\ Verdict("RequireRoles") = RequireRoles
    /\ Verdict("RequireDataScope") = RequireDataScope
    /\ Verdict("BodyLimit") = BodyLimit
    /\ Verdict("CORS") = CORS
BY DEF Verdict, Harmless

LEMMA AnswersAre ==
    ASSUME NEW f \in Filters
    PROVE  Verdict(f) \in {0, 204, 401, 403, 404, 413, 500}
<1>1. /\ RequireAuth \in {0, 401, 500} /\ TenantFromAppID \in {0, 404}
      /\ RequireRoles \in {0, 401, 403}
      /\ RequireDataScope \in {0, 403} /\ BodyLimit \in {0, 413} /\ CORS \in {0, 204}
  BY DEF RequireAuth, TenantFromAppID, RequireRoles, RequireDataScope, BodyLimit, CORS
<1>2. RequireTenantMember \in {0, 401, 403, 500}
  BY DEF RequireTenantMember, MemberAnswer
<1>3. PermissionRequired \in {0, 401, 403}
  BY DEF PermissionRequired
<1> QED BY <1>1, <1>2, <1>3, VerdictIs DEF Filters, Harmless

\* What each filter writes.
LEMMA WrittenIs ==
    /\ Written("RequestID") = [context EXCEPT !.id = NormalizeRequestID]
    /\ Written("RequireSessionAuth") = WriteIdentity
    /\ Written("RequireTenantMember") = [context EXCEPT !.tenant = MemberTenant]
    /\ Written("TenantFromRequest") = TenantFromRequest
    /\ Written("TenantFromAppID") = IF TenantIDFromContext THEN context
                                    ELSE [context EXCEPT !.tenant = AppOf(request.app),
                                                         !.app = request.app]
    /\ \A f \in Filters \ {"RequestID", "RequireSessionAuth", "RequireTenantMember",
                           "TenantFromRequest", "TenantFromAppID"} : Written(f) = context
BY DEF Written

LEMMA UserIs ==
    ASSUME NEW k, SeenUser(context, k)
    PROVE  /\ UserIDFromContext \in 0..2
           /\ UserIDFromContext # 0 => /\ Went("RequireSessionAuth", k)
                                       /\ UserIDFromContext = context.user
<1>1. CASE Went("RequireSessionAuth", k)
  <2>1. context.user \in {1, 2}
    BY <1>1, ClaimsAre DEF SeenUser
  <2> QED BY <1>1, <2>1 DEF UserIDFromContext
<1>2. CASE ~Went("RequireSessionAuth", k)
  <2>1. context.user = -1
    BY <1>2 DEF SeenUser, Unset
  <2> QED BY <2>1 DEF UserIDFromContext
<1> QED BY <1>1, <1>2

LEMMA MemberIs ==
    ASSUME NEW k, SeenUser(context, k), RequireTenantMember = 0
    PROVE  /\ MemberTenant \in Nat /\ MemberTenant > 0 /\ Went("RequireSessionAuth", k)
           /\ \/ context.user \in Admins \/ request.members = "remembered"
              \/ MemberOf(context.user, MemberTenant)
<1>1. /\ UserIDFromContext # 0 /\ MemberTenant # -1 /\ MemberTenant # 0
      /\ \/ UserIDFromContext \in Admins \/ request.members = "remembered"
         \/ MemberOf(UserIDFromContext, MemberTenant)
  BY DEF RequireTenantMember, MemberAnswer
<1>2. UserIDFromContext \in 0..2 /\ Went("RequireSessionAuth", k)
      /\ UserIDFromContext = context.user
  BY <1>1, UserIs
<1>3. MemberTenant \in Nat \cup {-1}
  <2>1. FallbackOf(UserIDFromContext) \in Nat \cup {-1}
    BY <1>2, InputsAssumption
  <2>2. ParseTenantID \in {-1, 0, 1, 2}
    BY DEF ParseTenantID, Unset
  <2> QED BY <2>1, <2>2 DEF MemberTenant
<1> QED BY <1>1, <1>2, <1>3

\* A context that is passed on as it is.
LEMMA SeenOn ==
    ASSUME RequestTypes, NEW k \in DOMAIN chain, Seen(context, k),
           chain[k] \notin {"RequireSessionAuth", "RequireTenantMember"},
           chain[k] = "RequireRoles" => RequireRoles = 0,
           chain[k] = "TenantFromAppID" => TenantIDFromContext
    PROVE  Seen(context, k + 1)
<1>1. \A f \in Filters : Went(f, k + 1) <=> Went(f, k) \/ chain[k] = f
  BY WentMore DEF RequestTypes
<1>2. SeenUser(context, k + 1) /\ SeenRole(context, k + 1)
  <2>1. CASE chain[k] = "RequireRoles"
    <3>1. UserIDFromContext # 0 /\ context.role = "owner"
      BY <2>1 DEF RequireRoles
    <3>2. Went("RequireSessionAuth", k)
      BY <3>1, UserIs DEF Seen
    <3> QED BY <1>1, <2>1, <3>1, <3>2 DEF Seen, SeenUser, SeenRole, Filters
  <2>2. CASE chain[k] # "RequireRoles"
    BY <1>1, <2>2 DEF Seen, SeenUser, SeenRole, Filters
  <2> QED BY <2>1, <2>2
<1>3. SeenMember(context, k + 1) /\ SeenClaimed(context, k + 1)
  BY <1>1 DEF Seen, SeenMember, SeenClaimed, Filters
<1>4. SeenTenant(context, k + 1)
  BY <1>1 DEF Seen, SeenTenant, Filters, TenantIDFromContext
<1> QED BY <1>2, <1>3, <1>4 DEF Seen

\* A tenant that is taken from the request or from the appid.
LEMMA SeenTaken ==
    ASSUME RequestTypes, NEW k \in DOMAIN chain, Seen(context, k),
           chain[k] \in {"TenantFromRequest", "TenantFromAppID"}, NEW c,
           c.user = context.user, c.role = context.role, c.tenant \in Nat,
           chain[k] = "TenantFromAppID" => ~TenantIDFromContext,
           c.tenant = 0 => request.tenant = "0"
    PROVE  Seen(c, k + 1)
<1>1. \A f \in Filters : Went(f, k + 1) <=> Went(f, k) \/ chain[k] = f
  BY WentMore DEF RequestTypes
<1>2. SeenUser(c, k + 1) /\ SeenRole(c, k + 1)
  BY <1>1 DEF Seen, SeenUser, SeenRole, Filters
<1>3. SeenTenant(c, k + 1)
  BY DEF SeenTenant, Unset
<1>4. ~Went("RequireTenantMember", k)
  <2>1. ASSUME Went("RequireTenantMember", k) PROVE FALSE
    <3>1. context.tenant > 0
      BY <2>1 DEF Seen, SeenMember
    <3>2. chain[k] = "TenantFromRequest"
      BY <3>1 DEF TenantIDFromContext, Unset
    <3>3. PICK i \in DOMAIN chain : i < k /\ chain[i] = "RequireTenantMember"
      BY <2>1 DEF Went
    <3>4. k < i
      BY <3>2, <3>3, ChainIs DEF RequestTypes
    <3>5. i \in Int /\ k \in Int
      BY ChainIs DEF RequestTypes
    <3> QED BY <3>3, <3>4, <3>5
  <2> QED BY <2>1
<1>5. SeenMember(c, k + 1)
  BY <1>1, <1>4 DEF SeenMember, Filters
<1>6. ASSUME Before("TenantFromRequest", "RequireSessionAuth"), Went("RequireSessionAuth", k + 1)
      PROVE  FALSE
  <2>1. PICK i \in DOMAIN chain : i < k /\ chain[i] = "RequireSessionAuth"
    BY <1>1, <1>6 DEF Went, Filters
  <2>2. PICK x \in DOMAIN chain, y \in DOMAIN chain :
            x < y /\ chain[x] = "TenantFromRequest" /\ chain[y] = "RequireSessionAuth"
    BY <1>6 DEF Before
  <2>3. y = i
    BY <2>1, <2>2, ChainIs DEF RequestTypes
  <2>4. CASE chain[k] = "TenantFromRequest"
    <3>1. x = k
      BY <2>2, <2>4, ChainIs DEF RequestTypes
    <3>2. i \in Int /\ k \in Int
      BY ChainIs DEF RequestTypes
    <3> QED BY <2>1, <2>2, <2>3, <3>1, <3>2
  <2>5. CASE chain[k] = "TenantFromAppID"
    <3>1. context.tenant = Claims(request.auth)[2] /\ Valid(request.auth)
      BY <1>4, <1>6, <2>1 DEF Seen, SeenClaimed, SeenUser, Went
    <3>2. context.tenant \in {0, 1}
      BY <3>1, ClaimsAre
    <3> QED BY <2>5, <3>2 DEF TenantIDFromContext, Unset
  <2> QED BY <2>4, <2>5
<1>7. SeenClaimed(c, k + 1)
  BY <1>6 DEF SeenClaimed
<1> QED BY <1>2, <1>3, <1>5, <1>7 DEF Seen

\* An identity, and a tenant of which it is a member.
LEMMA SeenIdentity ==
    ASSUME RequestTypes, NEW k \in DOMAIN chain, Seen(context, k), chain[k] = "RequireSessionAuth",
           Valid(request.auth), NEW c, c.user = Claims(request.auth)[1],
           c.tenant = Claims(request.auth)[2], c.role = Claims(request.auth)[3]
    PROVE  Seen(c, k + 1)
<1>1. \A f \in Filters : Went(f, k + 1) <=> Went(f, k) \/ chain[k] = f
  BY WentMore DEF RequestTypes
<1>2. ~Went("RequireSessionAuth", k)
  <2>1. \A i \in DOMAIN chain : i < k => chain[i] # "RequireSessionAuth"
    <3>1. ASSUME NEW i \in DOMAIN chain, i < k, chain[i] = "RequireSessionAuth" PROVE FALSE
      <4>1. i = k /\ i \in Int
        BY <3>1, ChainIs DEF RequestTypes
      <4> QED BY <3>1, <4>1
    <3> QED BY <3>1
  <2> QED BY <2>1 DEF Went
<1>3. ~Went("RequireTenantMember", k) /\ ~Went("RequireRoles", k)
  BY <1>2 DEF Seen, SeenUser
<1>4. Claims(request.auth)[2] \in {0, 1}
  BY ClaimsAre
<1>5. SeenUser(c, k + 1) /\ SeenRole(c, k + 1) /\ SeenMember(c, k + 1)
  BY <1>1, <1>3 DEF SeenUser, SeenRole, SeenMember, Filters
<1>6. SeenTenant(c, k + 1) /\ SeenClaimed(c, k + 1)
  BY <1>4 DEF SeenTenant, SeenClaimed, Unset
<1> QED BY <1>5, <1>6 DEF Seen

LEMMA SeenMembership ==
    ASSUME RequestTypes, NEW k \in DOMAIN chain, Seen(context, k), chain[k] = "RequireTenantMember",
           RequireTenantMember = 0, NEW c, c.user = context.user, c.role = context.role,
           c.tenant = MemberTenant
    PROVE  Seen(c, k + 1)
<1>1. \A f \in Filters : Went(f, k + 1) <=> Went(f, k) \/ chain[k] = f
  BY WentMore DEF RequestTypes
<1>2. /\ MemberTenant \in Nat /\ MemberTenant > 0 /\ Went("RequireSessionAuth", k)
      /\ \/ context.user \in Admins \/ request.members = "remembered"
         \/ MemberOf(context.user, MemberTenant)
  BY MemberIs DEF Seen
<1>3. SeenUser(c, k + 1) /\ SeenRole(c, k + 1)
  BY <1>1, <1>2 DEF Seen, SeenUser, SeenRole, Filters
<1>4. SeenMember(c, k + 1)
  BY <1>2 DEF SeenMember
<1>5. SeenTenant(c, k + 1)
  BY <1>2 DEF SeenTenant, Unset
<1>6. SeenClaimed(c, k + 1)
  BY <1>1 DEF SeenClaimed, Filters
<1> QED BY <1>3, <1>4, <1>5, <1>6 DEF Seen

LEMMA TenantSet ==
    ASSUME NEW c \in Contexts, NEW t \in Int
    PROVE  /\ [c EXCEPT !.tenant = t] \in Contexts
           /\ [c EXCEPT !.tenant = t].user = c.user /\ [c EXCEPT !.tenant = t].role = c.role
           /\ [c EXCEPT !.tenant = t].tenant = t
BY DEF Contexts

LEMMA IdSet ==
    ASSUME NEW c \in Contexts, NEW a \in Ids
    PROVE  /\ [c EXCEPT !.id = a] \in Contexts
           /\ [c EXCEPT !.id = a].user = c.user /\ [c EXCEPT !.id = a].role = c.role
           /\ [c EXCEPT !.id = a].tenant = c.tenant
BY DEF Contexts

LEMMA ParseIs ==
    ASSUME ParseTenantID # Unset
    PROVE  ParseTenantID \in {0, 1, 2} /\ (ParseTenantID = 0 => request.tenant = "0")
<1> DEFINE given == request.tenant = "" \/ request.tenant = "x"
<1>1. ~given
  BY DEF ParseTenantID
<1>2. ParseTenantID = CASE request.tenant = "0" -> 0 [] request.tenant = "1" -> 1 [] OTHER -> 2
  BY <1>1 DEF ParseTenantID
<1> HIDE DEF given
<1> QED BY <1>2

\* What a filter passes on was seen.
LEMMA SeenSame ==
    ASSUME NEW k, NEW c, Seen(context, k), c.user = context.user, c.role = context.role,
           c.tenant = context.tenant
    PROVE  Seen(c, k)
BY DEF Seen, SeenUser, SeenMember, SeenClaimed, SeenTenant, SeenRole

LEMMA EnterSees ==
    ASSUME RequestTypes, NEW k \in DOMAIN chain, NEW f \in Filters, f = chain[k], Seen(context, k),
           Verdict(f) = 0
    PROVE  Written(f) \in Contexts /\ Seen(Written(f), k + 1)
<1> USE DEF RequestTypes
<1>1. context \in Contexts /\ request \in Inputs
  OBVIOUS
<1>2. CASE f = "RequestID"
  <2>1. NormalizeRequestID \in Ids
    BY <1>1 DEF NormalizeRequestID, Ids
  <2>2. PICK c : c = [context EXCEPT !.id = NormalizeRequestID]
    OBVIOUS
  <2>3. c \in Contexts /\ c.user = context.user /\ c.role = context.role
        /\ c.tenant = context.tenant
    BY <1>1, <2>1, <2>2, IdSet
  <2>4. Seen(context, k + 1)
    BY <1>2, SeenOn
  <2> QED BY <1>2, <2>2, <2>3, <2>4, SeenSame, WrittenIs
<1>3. CASE f = "RequireSessionAuth"
  <2>1. Valid(request.auth)
    <3>1. RequireAuth = 0
      BY <1>3, VerdictIs
    <3> QED BY <3>1 DEF RequireAuth
  <2>2. PICK u \in Int, t \in Int, r \in Roles :
            u = Claims(request.auth)[1] /\ t = Claims(request.auth)[2]
            /\ r = Claims(request.auth)[3]
    <3>1. PICK x \in {1, 2}, y \in {0, 1}, z \in {"staff", "owner"} :
              x = Claims(request.auth)[1] /\ y = Claims(request.auth)[2]
              /\ z = Claims(request.auth)[3]
      BY ONLY <2>1, ClaimsAre
    <3>2. x \in Int /\ y \in Int
      BY ONLY <3>1
    <3>3. z \in Roles
      BY ONLY <3>1 DEF Roles
    <3> QED BY ONLY <3>1, <3>2, <3>3
  <2>3. PICK c : c = [context EXCEPT !.user = u, !.tenant = t, !.role = r]
    OBVIOUS
  <2>4. c \in Contexts /\ c.user = u /\ c.tenant = t /\ c.role = r
    BY ONLY <1>1, <2>3, u \in Int, t \in Int, r \in Roles DEF Contexts
  <2>5. Written(f) = c
    BY <1>3, <2>2, <2>3, WrittenIs DEF WriteIdentity
  <2> QED BY <1>3, <2>1, <2>2, <2>4, <2>5, SeenIdentity
<1>4. CASE f = "RequireTenantMember"
  <2>1. RequireTenantMember = 0
    BY <1>4, VerdictIs
  <2>2. MemberTenant \in Nat
    BY <2>1, MemberIs DEF Seen
  <2>3. PICK c : c = [context EXCEPT !.tenant = MemberTenant]
    OBVIOUS
  <2>4. c \in Contexts /\ c.user = context.user /\ c.role = context.role /\ c.tenant = MemberTenant
    BY <1>1, <2>2, <2>3, TenantSet
  <2>5. Written(f) = c
    BY <1>4, <2>3, WrittenIs
  <2> QED BY <1>4, <2>1, <2>4, <2>5, SeenMembership
<1>5. CASE f = "TenantFromRequest"
  <2>1. Written(f) = TenantFromRequest
    BY <1>5, WrittenIs
  <2>2. ASSUME NEW t \in Nat, Written(f) = [context EXCEPT !.tenant = t],
               t = 0 => request.tenant = "0"
        PROVE  Written(f) \in Contexts /\ Seen(Written(f), k + 1)
    <3>1. PICK c : c = [context EXCEPT !.tenant = t]
      OBVIOUS
    <3>2. c \in Contexts /\ c.user = context.user /\ c.role = context.role /\ c.tenant = t
      BY <1>1, <3>1, TenantSet
    <3> QED BY <1>5, <2>2, <3>1, <3>2, SeenTaken
  <2>3. CASE ParseTenantID # Unset
    <3>1. ParseTenantID \in {0, 1, 2} /\ (ParseTenantID = 0 => request.tenant = "0")
      BY <2>3, ParseIs
    <3>2. Written(f) = [context EXCEPT !.tenant = ParseTenantID]
      BY <2>1, <2>3 DEF TenantFromRequest
    <3> QED BY <2>2, <3>1, <3>2
  <2>4. CASE ParseTenantID = Unset /\ DomainOf(request.domain) # 0
    <3>1. DomainOf(request.domain) \in Nat
      BY <1>1, InputsAssumption
    <3>2. Written(f) = [context EXCEPT !.tenant = DomainOf(request.domain)]
      BY <2>1, <2>4 DEF TenantFromRequest
    <3> QED BY <2>2, <2>4, <3>1, <3>2
  <2>5. CASE ParseTenantID = Unset /\ DomainOf(request.domain) = 0
    <3>1. Written(f) = context
      BY <2>1, <2>5 DEF TenantFromRequest
    <3> QED BY <1>1, <1>5, <3>1, SeenOn
  <2> QED BY <2>3, <2>4, <2>5
<1>6. CASE f = "TenantFromAppID"
  <2>1. TenantFromAppID = 0
    BY <1>6, VerdictIs
  <2>2. CASE TenantIDFromContext
    <3>1. Written(f) = context
      BY <1>6, <2>2, WrittenIs
    <3> QED BY <1>1, <1>6, <2>2, <3>1, SeenOn
  <2>3. CASE ~TenantIDFromContext
    <3>1. AppOf(request.app) \in Nat /\ AppOf(request.app) # 0
      BY <1>1, <2>1, <2>3, InputsAssumption DEF TenantFromAppID
    <3>2. request.app \in Apps
      BY <1>1 DEF Apps
    <3>3. PICK c : c = [context EXCEPT !.tenant = AppOf(request.app), !.app = request.app]
      OBVIOUS
    <3>4. c \in Contexts /\ c.user = context.user /\ c.role = context.role
          /\ c.tenant = AppOf(request.app)
      <4>1. PICK t \in Int, a \in Apps :
                t = AppOf(request.app) /\ a = request.app
        BY ONLY <3>1, <3>2
      <4>2. c = [context EXCEPT !.tenant = t, !.app = a]
        BY ONLY <3>3, <4>1
      <4>3. c \in Contexts /\ c.user = context.user /\ c.role = context.role /\ c.tenant = t
        BY ONLY <1>1, <4>1, <4>2 DEF Contexts
      <4> QED BY ONLY <4>1, <4>3
    <3>5. Written(f) = c
      BY <1>6, <2>3, <3>3, WrittenIs
    <3> QED BY <1>6, <2>3, <3>1, <3>4, <3>5, SeenTaken
  <2> QED BY <2>2, <2>3
<1>7. CASE f \notin {"RequestID", "RequireSessionAuth", "RequireTenantMember", "TenantFromRequest",
                     "TenantFromAppID"}
  <2>1. Written(f) = context
    BY <1>7, WrittenIs
  <2>2. f = "RequireRoles" => RequireRoles = 0
    BY VerdictIs
  <2> QED BY <1>1, <1>7, <2>1, <2>2, SeenOn
<1> QED BY <1>2, <1>3, <1>4, <1>5, <1>6, <1>7

LEMMA RequestsStart == RequestsInit => RequestInv
<1> SUFFICES ASSUME RequestsInit PROVE RequestInv
  OBVIOUS
<1>1. /\ request \in Inputs /\ chain \in Chains /\ at = 1 /\ inward = TRUE
      /\ panicking = FALSE /\ status = 0 /\ handled = <<>> /\ requests = <<>>
  BY DEF RequestsInit
<1>2. context = [user |-> Unset, tenant |-> Unset, role |-> "", app |-> "", id |-> ""]
  BY DEF RequestsInit
<1>3. context \in Contexts /\ context.user = Unset /\ context.tenant = Unset
  <2>1. Unset \in Int
    BY DEF Unset
  <2> QED BY <1>2, <2>1 DEF Contexts, Roles, Apps, Ids
<1>4. PICK r \in BodyReaders : reader = r /\ r.given = 0 /\ r.on = FALSE
  <2>1. reader = [on |-> FALSE, remaining |-> 0, exceeded |-> FALSE, given |-> 0]
    BY DEF RequestsInit
  <2>2. reader \in BodyReaders
    BY <2>1 DEF BodyReaders
  <2> QED BY <2>1, <2>2
<1>5. Len(chain) \in Nat /\ DOMAIN chain = 1..Len(chain)
  BY <1>1, ChainIs
<1>6. RequestTypes
  <2>1. 1 \in 0..(Len(chain) + 1) /\ 0 \in Nat
    BY <1>5
  <2>2. inward \in BOOLEAN /\ panicking \in BOOLEAN
    BY <1>1
  <2>3. reader \in BodyReaders
    BY <1>4
  <2> QED BY ONLY <1>1, <1>3, <2>1, <2>2, <2>3 DEF RequestTypes
<1>7. request.body \in Nat
  BY <1>1, InputsAssumption
<1>8. ReaderHolds
  BY <1>4, <1>7 DEF ReaderHolds
<1>9. \A f : ~Went(f, 1)
  BY <1>5 DEF Went
<1>10. Seen(context, 1)
  BY <1>3, <1>9 DEF Seen, SeenUser, SeenMember, SeenClaimed, SeenTenant, SeenRole, Unset
<1>11. SeenBody(1)
  BY <1>9 DEF SeenBody
<1> QED BY <1>1, <1>4, <1>6, <1>8, <1>10, <1>11
  DEF RequestInv, Inward, HandledWell, Outward, Answered, Logged

LEMMA SeenNext ==
    ASSUME UNCHANGED <<request, chain>>, NEW c, NEW k
    PROVE  Seen(c, k)' <=> Seen(c, k)
BY DEF Seen, SeenUser, SeenMember, SeenClaimed, SeenTenant, SeenRole, Went, Before

LEMMA BodyNext ==
    ASSUME UNCHANGED <<request, chain>>, NEW k, SeenBody(k), reader.on => reader'.on
    PROVE  SeenBody(k)'
BY DEF SeenBody, Went, Limits

\* A filter refuses.
LEMMA RefuseKeeps ==
    ASSUME RequestInv,
           UNCHANGED <<request, chain, panicking, handled, requests, at, context, reader>>,
           inward, at \in DOMAIN chain, NEW f, f = chain[at], Verdict(f) # 0,
           status' = Verdict(f), inward' = FALSE
    PROVE  RequestInv'
<1>1. RequestTypes /\ Len(chain) \in Nat /\ DOMAIN chain = 1..Len(chain) /\ f \in Filters
  BY ChainIs DEF RequestInv, RequestTypes
<1>2. PICK v \in {204, 401, 403, 404, 413, 500} : v = status'
  BY <1>1, AnswersAre
<1>3. status = 0 /\ ~panicking /\ handled = <<>> /\ requests = <<>>
  BY DEF RequestInv, Inward
<1>4. RequestTypes'
  <2>1. v \in Nat
    BY ONLY <1>2
  <2> QED BY <1>1, <1>2, <2>1 DEF RequestTypes
<1>5. ReaderHolds' /\ Inward' /\ HandledWell' /\ Answered'
  BY <1>2, <1>3 DEF RequestInv, ReaderHolds, Inward, HandledWell, Answered
<1>6. Outward'
  BY <1>1, <1>2, <1>3 DEF Outward
<1>7. ASSUME NEW i \in DOMAIN chain, chain[i] = "AccessLog", Before("AccessLog", "Recovery")
      PROVE  i <= at
  <2>1. PICK x \in DOMAIN chain, y \in DOMAIN chain :
            x < y /\ chain[x] = "AccessLog" /\ chain[y] = "Recovery"
    BY <1>7 DEF Before
  <2>2. x = i
    BY <1>1, <1>7, <2>1, ChainIs DEF RequestTypes
  <2>3. \A k \in 1..i : chain[k] \in Harmless
    BY <1>1, <1>7, <2>1, <2>2, ChainIs DEF RequestTypes
  <2>4. chain[at] \notin Harmless
    BY VerdictIs
  <2>5. at \notin 1..i
    BY <2>3, <2>4
  <2> QED BY <1>1, <2>5
<1>8. Logged'
  <2>1. SUFFICES ASSUME NEW i \in DOMAIN chain, chain[i] = "AccessLog",
                        Before("AccessLog", "Recovery")
                 PROVE  requests' = <<>> /\ ~ (at' < i)
    BY DEF Logged, Before
  <2>2. i <= at /\ i \in Int /\ at \in Int
    BY <1>1, <1>7, <2>1
  <2> QED BY <1>3, <2>2
<1> QED BY <1>4, <1>5, <1>6, <1>8 DEF RequestInv

\* A filter goes on.
LEMMA GoOnKeeps ==
    ASSUME RequestInv, UNCHANGED <<request, chain, panicking, handled, requests, status, inward>>,
           inward, at \in DOMAIN chain, NEW f, f = chain[at], Verdict(f) = 0,
           at' = at + 1, context' = Written(f),
           reader' = IF f = "BodyLimit" /\ request.length < 0 /\ Limits
                     THEN [reader EXCEPT !.on = TRUE, !.remaining = MaxBytes] ELSE reader
    PROVE  RequestInv'
<1>1. RequestTypes /\ Len(chain) \in Nat /\ DOMAIN chain = 1..Len(chain) /\ f \in Filters
  BY ChainIs DEF RequestInv, RequestTypes
<1>2. PICK k \in DOMAIN chain, c \in Contexts : k = at /\ c = context' /\ Seen(c, k + 1)
  BY <1>1, EnterSees DEF RequestInv, Inward
<1>3. k \in Int /\ k >= 1 /\ k <= Len(chain)
  BY <1>1
<1>4. status = 0 /\ ~panicking /\ handled = <<>> /\ requests = <<>> /\ reader.given = 0
      /\ SeenBody(k)
  BY <1>2, <1>3 DEF RequestInv, Inward
<1>5. MaxBytes \in Nat /\ request.body \in Nat /\ request.length \in {-1, request.body}
  BY <1>1, InputsAssumption DEF RequestTypes
<1>6. /\ reader' \in BodyReaders /\ reader'.given = 0 /\ (reader.on => reader'.on)
      /\ reader'.on => reader'.remaining >= 0 /\ reader'.given + reader'.remaining = MaxBytes
  <2>1. PICK r \in BodyReaders : r = reader
    BY <1>1 DEF RequestTypes
  <2>2. CASE f = "BodyLimit" /\ request.length < 0 /\ Limits
    <3>1. reader' = [r EXCEPT !.on = TRUE, !.remaining = MaxBytes]
      BY <2>1, <2>2
    <3>2. PICK n \in Int : n = MaxBytes
      BY <1>5
    <3>3. reader' \in BodyReaders /\ reader'.on = TRUE /\ reader'.remaining = MaxBytes
          /\ reader'.given = r.given
      BY ONLY <3>1, <3>2, r \in BodyReaders DEF BodyReaders
    <3> QED BY <1>4, <1>5, <2>1, <3>3
  <2>3. CASE ~ (f = "BodyLimit" /\ request.length < 0 /\ Limits)
    <3>1. reader' = reader
      BY <2>3
    <3> QED BY <1>4, <2>1, <3>1 DEF RequestInv, ReaderHolds
  <2> QED BY <2>2, <2>3
<1>7. SeenBody(k + 1)'
  <2>1. SUFFICES ASSUME Went("BodyLimit", k + 1), Limits
                 PROVE  reader'.on \/ request.body <= MaxBytes
    BY DEF SeenBody, Went, Limits
  <2>2. CASE Went("BodyLimit", k)
    BY <1>4, <1>6, <2>1, <2>2 DEF SeenBody
  <2>3. CASE f = "BodyLimit"
    <3>1. BodyLimit = 0
      BY <2>3, VerdictIs
    <3>2. ~ (request.length > MaxBytes)
      BY <2>1, <3>1 DEF BodyLimit
    <3>3. CASE request.length = -1
      <4>1. reader' = [reader EXCEPT !.on = TRUE, !.remaining = MaxBytes]
        BY <2>1, <2>3, <3>3
      <4> QED BY <1>1, <4>1 DEF RequestTypes, BodyReaders
    <3>4. CASE request.length = request.body
      BY <1>5, <3>2, <3>4
    <3> QED BY <1>5, <3>3, <3>4
  <2> QED BY <1>1, <1>2, <2>1, <2>2, <2>3, WentMore DEF RequestTypes
<1>8. Seen(c, k + 1)'
  BY <1>2, SeenNext
<1>9. PICK n \in 0..(Len(chain) + 1) : n = k + 1 /\ n = at' /\ n >= 1
  BY <1>2, <1>3, <1>1
<1>10. RequestTypes'
  BY <1>1, <1>2, <1>6, <1>9 DEF RequestTypes
<1>11. ReaderHolds'
  BY <1>5, <1>6 DEF ReaderHolds
<1>12. Seen(context, at)' /\ SeenBody(at)'
  <2>1. Seen(c, n)' /\ SeenBody(n)'
    BY <1>7, <1>8, <1>9
  <2> QED BY <1>2, <1>9, <2>1
       DEF Seen, SeenUser, SeenMember, SeenClaimed, SeenTenant, SeenRole, SeenBody,
           Went, Before, Limits
<1>13. Inward'
  BY <1>4, <1>6, <1>9, <1>12 DEF Inward
<1>14. HandledWell' /\ Outward' /\ Answered' /\ Logged'
  BY <1>4 DEF HandledWell, Outward, Answered, Logged, Before
<1> QED BY <1>10, <1>11, <1>13, <1>14 DEF RequestInv

LEMMA EnterKeeps ==
    ASSUME RequestInv, Enter
    PROVE  RequestInv'
<1>1. PICK f : f = chain[at]
  OBVIOUS
<1>2. /\ inward /\ at \in DOMAIN chain /\ UNCHANGED <<request, chain, panicking, handled, requests>>
      /\ IF Verdict(f) # 0
         THEN status' = Verdict(f) /\ inward' = FALSE /\ UNCHANGED <<at, context, reader>>
         ELSE /\ at' = at + 1 /\ context' = Written(f) /\ UNCHANGED <<status, inward>>
              /\ reader' = IF f = "BodyLimit" /\ request.length < 0 /\ Limits
                           THEN [reader EXCEPT !.on = TRUE, !.remaining = MaxBytes] ELSE reader
  BY <1>1 DEF Enter
<1>3. CASE Verdict(f) # 0
  <2>1. status' = Verdict(f) /\ inward' = FALSE /\ UNCHANGED <<at, context, reader>>
    BY <1>2, <1>3
  <2> QED BY <1>1, <1>2, <1>3, <2>1, RefuseKeeps
<1>4. CASE Verdict(f) = 0
  <2>1. /\ at' = at + 1 /\ context' = Written(f) /\ UNCHANGED <<status, inward>>
        /\ reader' = IF f = "BodyLimit" /\ request.length < 0 /\ Limits
                     THEN [reader EXCEPT !.on = TRUE, !.remaining = MaxBytes] ELSE reader
    BY <1>2, <1>4
  <2> QED BY <1>1, <1>2, <1>4, <2>1, GoOnKeeps
<1> QED BY <1>3, <1>4

LEMMA ReadKeeps ==
    ASSUME RequestInv, NEW n \in 1..2, Read(n)
    PROVE  RequestInv'
<1>1. /\ inward /\ at = Len(chain) + 1
      /\ UNCHANGED <<request, chain, at, inward, context, panicking, status, headers, handled,
                     requests>>
  BY DEF Read
<1>2. PICK r \in BodyReaders, body \in Nat : r = reader /\ body = request.body /\ r.given <= body
  BY InputsAssumption DEF RequestInv, RequestTypes, ReaderHolds
<1>3. PICK g \in Nat, m0 \in Int : g = r.given /\ m0 = r.remaining
  BY <1>2 DEF BodyReaders
<1>4. PICK k \in Nat : /\ g + k <= body
                       /\ r.on /\ ~ (m0 <= 0) => k <= m0
                       /\ reader' = IF r.on /\ m0 <= 0 THEN [r EXCEPT !.exceeded = TRUE]
                                    ELSE [r EXCEPT !.given = @ + k, !.remaining = @ - k]
  <2>1. PICK rest \in Nat : rest = body - g /\ rest > 0
    BY <1>2, <1>3 DEF Read
  <2>2. PICK m \in Nat : m = (IF n < rest THEN n ELSE rest) /\ m <= rest
    BY <2>1
  <2>3. PICK k \in Int : k = IF r.on /\ m > m0 THEN m0 ELSE m
    BY <1>3, <2>2
  <2>4. reader' = IF r.on /\ m0 <= 0 THEN [r EXCEPT !.exceeded = TRUE]
                  ELSE [r EXCEPT !.given = @ + k, !.remaining = @ - k]
    BY <1>2, <1>3, <2>1, <2>2, <2>3 DEF Read
  <2>5. CASE r.on /\ m0 <= 0
    <3>1. 0 \in Nat /\ g + 0 <= body /\ ~ (r.on /\ ~ (m0 <= 0))
      BY <1>2, <1>3, <2>5
    <3>2. reader' = IF r.on /\ m0 <= 0 THEN [r EXCEPT !.exceeded = TRUE]
                    ELSE [r EXCEPT !.given = @ + 0, !.remaining = @ - 0]
      BY <2>4, <2>5
    <3> QED BY <3>1, <3>2
  <2>6. CASE ~ (r.on /\ m0 <= 0)
    <3>1. k \in Nat /\ g + k <= body /\ (r.on /\ ~ (m0 <= 0) => k <= m0)
      BY <1>2, <1>3, <2>1, <2>2, <2>3, <2>6
    <3> QED BY <2>4, <3>1
  <2> QED BY <2>5, <2>6
<1>5. /\ reader' \in BodyReaders /\ reader'.on = r.on /\ reader'.given <= body
      /\ r.on => reader'.remaining >= 0 /\ reader'.given + reader'.remaining = MaxBytes
  <2>1. r.on => m0 >= 0 /\ g + m0 = MaxBytes
    BY <1>2, <1>3 DEF RequestInv, ReaderHolds
  <2>2. CASE r.on /\ m0 <= 0
    <3>1. reader' = [r EXCEPT !.exceeded = TRUE]
      BY <1>4, <2>2
    <3>2. reader' \in BodyReaders /\ reader'.on = r.on /\ reader'.given = g
          /\ reader'.remaining = m0
      BY ONLY <1>3, <3>1, r \in BodyReaders DEF BodyReaders
    <3> QED BY <1>2, <1>3, <2>1, <3>2
  <2>3. CASE ~ (r.on /\ m0 <= 0)
    <3>1. PICK a \in Nat, b \in Int : a = g + k /\ b = m0 - k
      <4>1. g + k \in Nat /\ m0 - k \in Int
        OBVIOUS
      <4> QED BY <4>1
    <3>2. reader' = [r EXCEPT !.given = a, !.remaining = b]
      BY <1>3, <1>4, <2>3, <3>1
    <3>3. reader' \in BodyReaders /\ reader'.on = r.on /\ reader'.given = a /\ reader'.remaining = b
      BY ONLY <3>2, r \in BodyReaders, a \in Nat, b \in Int DEF BodyReaders
    <3>4. r.on => k <= m0 /\ g + m0 = MaxBytes
      BY <1>4, <2>1, <2>3
    <3>5. a <= body /\ (r.on => b >= 0 /\ a + b = MaxBytes)
      BY <1>4, <3>1, <3>4
    <3> QED BY <3>3, <3>5
  <2> QED BY <2>2, <2>3
<1>6. RequestTypes' /\ ReaderHolds'
  BY <1>1, <1>2, <1>5 DEF RequestInv, RequestTypes, ReaderHolds
<1>7. Len(chain) \in Nat
  BY ChainIs DEF RequestInv, RequestTypes
<1>8. Inward'
  <2>1. Seen(context, at)' /\ SeenBody(at)'
    BY <1>1, <1>2, <1>5
    DEF RequestInv, Inward, Seen, SeenUser, SeenMember, SeenClaimed, SeenTenant, SeenRole, SeenBody,
        Went, Before, Limits
  <2>2. ~ (at' <= Len(chain'))
    BY <1>1, <1>7
  <2> QED BY <1>1, <2>1, <2>2 DEF RequestInv, Inward
<1>9. HandledWell' /\ Outward' /\ Answered' /\ Logged'
  <2>1. handled = <<>> /\ inward /\ status = 0
    BY <1>1 DEF RequestInv, Inward
  <2> QED BY <1>1, <2>1 DEF RequestInv, HandledWell, Outward, Answered, Logged, Before
<1> QED BY <1>6, <1>8, <1>9 DEF RequestInv

LEMMA HandleKeeps ==
    ASSUME RequestInv, Handle
    PROVE  RequestInv'
<1>1. /\ inward /\ at = Len(chain) + 1 /\ (reader.exceeded \/ reader.given = request.body)
      /\ handled' = <<context, reader.given>> /\ panicking' = request.panics
      /\ status' = IF request.panics THEN status ELSE IF reader.exceeded THEN 400 ELSE 200
      /\ inward' = FALSE /\ at' = at - 1
      /\ UNCHANGED <<request, chain, context, headers, reader, requests>>
  BY DEF Handle
<1>2. Len(chain) \in Nat /\ DOMAIN chain = 1..Len(chain)
  BY ChainIs DEF RequestInv, RequestTypes
<1>3. PICK n \in Nat : n = Len(chain) /\ at = n + 1 /\ at' = n
  BY <1>1, <1>2
<1>4. status = 0 /\ requests = <<>> /\ Seen(context, n + 1) /\ SeenBody(n + 1)
  BY <1>1, <1>3 DEF RequestInv, Inward
<1>5. request.panics \in BOOLEAN
  BY InputsAssumption DEF RequestInv, RequestTypes
<1>6. status' \in {0, 400, 200}
  BY <1>1, <1>4
<1>7. RequestTypes'
  <2>1. status' \in Nat
    BY ONLY <1>6
  <2>2. at' \in 0..(Len(chain') + 1)
    BY <1>1, <1>3
  <2> QED BY <1>1, <1>5, <2>1, <2>2 DEF RequestInv, RequestTypes
<1>8. ReaderHolds' /\ Inward'
  BY <1>1 DEF RequestInv, ReaderHolds, Inward
<1>9. PICK c, m : c = context /\ m = reader.given
  OBVIOUS
<1>10. handled' = <<c, m>> /\ handled'[1] = c /\ handled'[2] = m /\ handled' # <<>>
  BY <1>1, <1>9
<1>11. HandledWell'
  <2>1. Seen(c, n + 1)' /\ SeenBody(n + 1)'
    BY <1>1, <1>4, <1>9, SeenNext, BodyNext
  <2> QED BY <1>1, <1>3, <1>9, <1>10, <2>1
    DEF HandledWell, Seen, SeenUser, SeenMember, SeenClaimed, SeenTenant, SeenRole, SeenBody, Went,
        Before, Limits
<1>12. Outward'
  BY <1>1, <1>2, <1>3 DEF Outward
<1>13. Answered'
  <2>1. ASSUME status' = 200 PROVE ~request.panics /\ ~reader.exceeded
    BY <1>1, <1>4, <2>1
  <2>2. status' = 200 => m = request.body
    BY <1>1, <1>9, <2>1
  <2> QED BY <1>1, <1>10, <2>2 DEF Answered
<1>14. Logged'
  BY <1>1, <1>2, <1>3, <1>4 DEF Logged, Before
<1> QED BY <1>7, <1>8, <1>11, <1>12, <1>13, <1>14 DEF RequestInv

LEMMA LeaveKeeps ==
    ASSUME RequestInv, Leave
    PROVE  RequestInv'
<1>1. PICK f : f = chain[at]
  OBVIOUS
<1>2. /\ ~inward /\ at \in DOMAIN chain /\ at' = at - 1
      /\ requests' = IF f = "AccessLog" /\ ~panicking /\ ~request.skipped
                     THEN Append(requests, status) ELSE requests
      /\ IF f = "Recovery" /\ panicking THEN status' = 500 /\ panicking' = FALSE
         ELSE UNCHANGED <<status, panicking>>
      /\ UNCHANGED <<request, chain, inward, context, headers, handled, reader>>
  BY <1>1 DEF Leave
<1>3. Len(chain) \in Nat /\ DOMAIN chain = 1..Len(chain)
  BY ChainIs DEF RequestInv, RequestTypes
<1>4. PICK k \in 1..Len(chain), n \in Nat : k = at /\ n = at' /\ n = k - 1
  BY <1>2, <1>3
<1>5. \/ status' = 500 /\ panicking' = FALSE /\ f = "Recovery" /\ panicking
      \/ UNCHANGED <<status, panicking>> /\ ~ (f = "Recovery" /\ panicking)
  BY <1>2
<1>6. RequestTypes'
  <2>1. status' \in Nat /\ panicking' \in BOOLEAN
    <3>1. status \in Nat /\ panicking \in BOOLEAN /\ 500 \in Nat
      BY DEF RequestInv, RequestTypes
    <3> QED BY ONLY <1>5, <3>1
  <2>2. at' \in 0..(Len(chain') + 1)
    BY <1>2, <1>3, <1>4
  <2> QED BY <1>2, <2>1, <2>2 DEF RequestInv, RequestTypes
<1>7. ReaderHolds' /\ Inward'
  BY <1>2 DEF RequestInv, ReaderHolds, Inward
<1>8. HandledWell'
  BY <1>2 DEF RequestInv, HandledWell, Seen, SeenUser, SeenMember, SeenClaimed, SeenTenant,
              SeenRole, SeenBody, Went, Before, Limits
<1>9. Outward'
  <2>1. panicking' \/ status' > 0
    BY <1>2, <1>5 DEF RequestInv, Outward
  <2>2. ASSUME panicking', NEW j \in DOMAIN chain, chain[j] = "Recovery" PROVE j <= n
    <3>1. panicking /\ f # "Recovery"
      BY <1>5, <2>2
    <3>2. j <= k /\ j # k /\ j \in Int
      BY <1>1, <1>2, <1>3, <1>4, <2>2, <3>1 DEF RequestInv, Outward
    <3> QED BY <1>4, <3>2
  <2>3. n <= Len(chain)
    BY <1>3, <1>4
  <2> QED BY <1>2, <1>4, <2>1, <2>2, <2>3 DEF Outward
<1>10. Answered'
  BY <1>2, <1>5 DEF RequestInv, Answered
<1>11. ASSUME NEW i \in DOMAIN chain, chain[i] = "AccessLog", Before("AccessLog", "Recovery"),
              ~request.skipped
       PROVE  /\ i <= n => requests' = <<>>
              /\ n < i => requests' = <<status'>> /\ ~panicking'
  <2>1. i \in Int /\ k \in Int
    BY <1>3
  <2>2. /\ i <= k => requests = <<>>
        /\ k < i => requests = <<status>> /\ ~panicking
    BY <1>2, <1>4, <1>11 DEF RequestInv, Logged
  <2>3. f = "AccessLog" <=> k = i
    BY <1>1, <1>2, <1>4, <1>11, ChainIs DEF RequestInv, RequestTypes
  <2>4. CASE k = i
    <3>1. ~panicking
      <4>1. PICK x \in DOMAIN chain, y \in DOMAIN chain :
                x < y /\ chain[x] = "AccessLog" /\ chain[y] = "Recovery"
        BY <1>11 DEF Before
      <4>2. x = i /\ y \in Int
        BY <1>3, <1>11, <4>1, ChainIs DEF RequestInv, RequestTypes
      <4>3. ~ (y <= at)
        BY <1>4, <2>1, <2>4, <4>1, <4>2
      <4> QED BY <1>2, <4>1, <4>3 DEF RequestInv, Outward
    <3>2. /\ requests' = Append(requests, status) /\ status' = status /\ ~panicking'
          /\ requests = <<>>
      <4>1. f = "AccessLog" /\ requests = <<>>
        BY <2>1, <2>2, <2>3, <2>4
      <4>2. requests' = Append(requests, status)
        BY <1>2, <1>11, <3>1, <4>1
      <4> QED BY <1>5, <3>1, <4>1, <4>2
    <3>3. requests' = <<status'>>
      BY ONLY <3>2
    <3> QED BY <1>4, <2>1, <2>4, <3>2, <3>3
  <2>5. CASE i < k
    <3>1. requests' = <<>>
      BY <1>2, <2>1, <2>2, <2>3, <2>5
    <3> QED BY <1>4, <2>1, <2>5, <3>1
  <2>6. CASE k < i
    <3>1. requests' = <<status>> /\ status' = status /\ ~panicking'
      BY <1>2, <1>5, <2>1, <2>2, <2>3, <2>6
    <3> QED BY <1>4, <2>1, <2>6, <3>1
  <2> QED BY <2>1, <2>4, <2>5, <2>6
<1>12. Logged'
  BY <1>2, <1>4, <1>11 DEF Logged, Before
<1> QED BY <1>6, <1>7, <1>8, <1>9, <1>10, <1>12 DEF RequestInv

LEMMA RequestStep == RequestInv /\ RequestsNext => RequestInv'
BY EnterKeeps, HandleKeeps, LeaveKeeps, ReadKeeps DEF RequestsNext

LEMMA RequestStutters == RequestInv /\ UNCHANGED requestVars => RequestInv'
<1> SUFFICES ASSUME RequestInv, UNCHANGED requestVars PROVE RequestInv'
  OBVIOUS
<1>1. UNCHANGED <<request, chain, at, inward, context, panicking, status, headers, handled, reader,
                  requests>>
  BY DEF requestVars
<1>2. RequestTypes' /\ ReaderHolds' /\ Outward' /\ Answered' /\ Logged'
  BY <1>1 DEF RequestInv, RequestTypes, ReaderHolds, Outward, Answered, Logged, Before
<1>3. Inward' /\ HandledWell'
  BY <1>1 DEF RequestInv, Inward, HandledWell, Seen, SeenUser, SeenMember, SeenClaimed, SeenTenant,
              SeenRole, SeenBody, Went, Before, Limits
<1> QED BY <1>2, <1>3 DEF RequestInv

LEMMA RequestsAreRight == RequestInv => RequestsHold
<1> SUFFICES ASSUME RequestInv PROVE RequestsHold
  OBVIOUS
<1>1. Len(chain) \in Nat /\ DOMAIN chain = 1..Len(chain)
  BY ChainIs DEF RequestInv, RequestTypes
<1>2. PICK n \in Nat : n = Len(chain) + 1
  BY <1>1
<1>3. \A f : Has(f) => Went(f, n)
  BY <1>1, <1>2 DEF Has, Went
<1>4. \A f : Went(f, n) => Has(f)
  BY DEF Has, Went
<1>5. ASSUME handled # <<>>, NEW c, c = handled[1]
      PROVE  /\ Has("RequireSessionAuth") => Valid(request.auth) /\ c.user = Claims(request.auth)[1]
             /\ Has("RequireTenantMember") =>
                  /\ c.tenant > 0
                  /\ \/ c.user \in Admins \/ request.members = "remembered"
                     \/ MemberOf(c.user, c.tenant)
             /\ Before("TenantFromRequest", "RequireSessionAuth") /\ ~Has("RequireTenantMember") =>
                  c.tenant = Claims(request.auth)[2]
             /\ Has("TenantFromAppID") /\ c.tenant <= 0 =>
                  request.tenant = "0" \/ Claims(request.auth)[2] = 0
             /\ Has("BodyLimit") /\ Limits => handled[2] <= MaxBytes
             /\ Has("RequireRoles") => c.role = "owner"
  <2>1. Seen(c, n) /\ SeenBody(n) /\ handled[2] = reader.given
    BY <1>2, <1>5 DEF RequestInv, HandledWell
  <2>2. Has("RequireSessionAuth") => Valid(request.auth) /\ c.user = Claims(request.auth)[1]
    BY <1>3, <2>1 DEF Seen, SeenUser
  <2>3. Has("RequireTenantMember") =>
            /\ c.tenant > 0
            /\ \/ c.user \in Admins \/ request.members = "remembered"
               \/ MemberOf(c.user, c.tenant)
    BY <1>3, <2>1 DEF Seen, SeenMember
  <2>4. ASSUME Before("TenantFromRequest", "RequireSessionAuth"), ~Has("RequireTenantMember")
        PROVE  c.tenant = Claims(request.auth)[2]
    <3>1. Has("RequireSessionAuth")
      BY <2>4 DEF Before, Has
    <3> QED BY <1>3, <1>4, <2>1, <2>4, <3>1 DEF Seen, SeenClaimed
  <2>5. ASSUME Has("TenantFromAppID"), c.tenant <= 0
        PROVE  request.tenant = "0" \/ Claims(request.auth)[2] = 0
    <3>1. c.tenant \in Nat \cup {Unset} /\ c.tenant # Unset
      BY <1>3, <2>1, <2>5 DEF Seen, SeenTenant
    <3>2. c.tenant = 0
      BY <2>5, <3>1
    <3> QED BY <2>1, <3>2 DEF Seen, SeenTenant
  <2>6. ASSUME Has("BodyLimit"), Limits PROVE handled[2] <= MaxBytes
    <3>1. reader.on \/ request.body <= MaxBytes
      BY <1>3, <2>1, <2>6 DEF SeenBody
    <3>2. PICK r \in BodyReaders : r = reader
      BY DEF RequestInv, RequestTypes
    <3>3. PICK g \in Nat, m \in Int : g = r.given /\ m = r.remaining
      BY DEF BodyReaders
    <3>4. request.body \in Nat /\ MaxBytes \in Nat
      BY InputsAssumption DEF RequestInv, RequestTypes
    <3>5. g <= request.body /\ (reader.on => m >= 0 /\ g + m = MaxBytes)
      BY <3>2, <3>3 DEF RequestInv, ReaderHolds
    <3> QED BY <2>1, <3>1, <3>2, <3>3, <3>4, <3>5
  <2>7. Has("RequireRoles") => c.role = "owner"
    BY <1>3, <2>1 DEF Seen, SeenRole
  <2> QED BY <2>2, <2>3, <2>4, <2>5, <2>6, <2>7
<1>6. ASSUME Ended
      PROVE  /\ panicking \/ status > 0
             /\ Before("AccessLog", "Recovery") /\ ~request.skipped => requests = <<status>>
             /\ status = 200 => handled # <<>> /\ handled[2] = request.body
  <2>1. ~inward /\ at = 0
    BY <1>6 DEF Ended
  <2>2. ASSUME Before("AccessLog", "Recovery"), ~request.skipped PROVE requests = <<status>>
    <3>1. PICK i \in DOMAIN chain : chain[i] = "AccessLog"
      BY <2>2 DEF Before
    <3>2. at < i
      BY <1>1, <2>1, <3>1
    <3> QED BY <2>1, <2>2, <3>1, <3>2 DEF RequestInv, Logged
  <2> QED BY <2>1, <2>2 DEF RequestInv, Outward, Answered
<1> QED BY <1>5, <1>6 DEF RequestsHold

-----------------------------------------------------------------------------
(* The event streams of a user *)

\* What a stream got and missed is what was due to it and is not under way.
Right(got, miss, due, open) ==
    /\ open \subseteq due
    /\ Elements(got) \cup miss = due \ open
    /\ Elements(got) \cap miss = {}
    /\ \A i, j \in DOMAIN got : i # j => got[i] # got[j]

DueOf(w, log, till) == {log[i] : i \in (w.skip + 1)..till}

Till(s, shut, w, log) == IF s \in shut THEN w.upto ELSE Len(log)

OpenOf(ps, s) == {ps[p].event : p \in {q \in Publishers : s \in ps[q].left}}

Whoever == Recipients \cup {""}

StreamRows == [of : Whoever, buffer : Seq(Nat), took : Seq(Nat),
               missed : SUBSET Nat, skip : Nat, upto : Nat]
PublishRows == [to : Whoever, event : Nat, left : SUBSET Streams, on : BOOLEAN]

StreamRight(w, log, till, open) ==
    /\ w.skip <= Len(log) /\ w.upto <= Len(log)
    /\ Right(w.took \o w.buffer, w.missed, DueOf(w, log, till), open)

LogsInv == published \in [Recipients -> Seq(Nat)]

\* Whoever publishes holds the read lock: only subscribers are left to offer to.
PublishInv ==
    /\ publishing \in [Publishers -> PublishRows]
    /\ \A p \in Publishers : ~publishing[p].on => publishing[p].left = {}
    /\ \A p \in Publishers : publishing[p].on =>
         publishing[p].to \in Recipients /\ publishing[p].event \in EventsSoFar
    /\ \A p, q \in Publishers : p # q /\ publishing[p].on /\ publishing[q].on =>
         publishing[p].event # publishing[q].event
    /\ \A p \in Publishers : publishing[p].on =>
         publishing[p].left \subseteq subscribers[publishing[p].to]

SubscriberInv ==
    /\ subscribers \in [Recipients -> SUBSET Streams] /\ closed \in SUBSET Streams
    /\ stream \in [Streams -> StreamRows]
    /\ \A r \in Recipients : \A s \in subscribers[r] : stream[s].of = r /\ s \notin closed
    /\ \A s \in Streams :
         IF stream[s].of = ""
         THEN s \notin closed /\ stream[s].took = <<>> /\ stream[s].buffer = <<>>
              /\ stream[s].missed = {} /\ stream[s].upto = 0
         ELSE s \in closed \/ s \in subscribers[stream[s].of]

StreamsInv ==
    \A s \in Streams : stream[s].of # "" =>
        LET log == published[stream[s].of] IN
        StreamRight(stream[s], log, Till(s, closed, stream[s], log), OpenOf(publishing, s))

HubInv == LogsInv /\ PublishInv /\ SubscriberInv /\ StreamsInv

-----------------------------------------------------------------------------
LEMMA ElementsAppend ==
    ASSUME NEW q \in Seq(Nat), NEW e \in Nat
    PROVE  Elements(Append(q, e)) = Elements(q) \cup {e}
<1>1. DOMAIN Append(q, e) = DOMAIN q \cup {Len(q) + 1} /\ DOMAIN q = 1..Len(q)
  OBVIOUS
<1>2. \A i \in DOMAIN q : Append(q, e)[i] = q[i]
  OBVIOUS
<1>3. Append(q, e)[Len(q) + 1] = e
  OBVIOUS
<1> QED BY <1>1, <1>2, <1>3 DEF Elements

LEMMA GetsOne ==
    ASSUME NEW got \in Seq(Nat), NEW e \in Nat, NEW miss, NEW due, NEW open,
           Right(got, miss, due, open), e \in open
    PROVE  Right(Append(got, e), miss, due, open \ {e})
<1>1. Elements(Append(got, e)) = Elements(got) \cup {e}
  BY ElementsAppend
<1>2. e \in due /\ e \notin Elements(got) /\ e \notin miss
  BY DEF Right
<1>3. \A i \in DOMAIN got : got[i] # e
  BY <1>2 DEF Elements
<1>4. \A i, j \in DOMAIN Append(got, e) : i # j => Append(got, e)[i] # Append(got, e)[j]
  <2>1. DOMAIN Append(got, e) = DOMAIN got \cup {Len(got) + 1}
    OBVIOUS
  <2>2. \A i \in DOMAIN got : Append(got, e)[i] = got[i]
    OBVIOUS
  <2>3. Append(got, e)[Len(got) + 1] = e
    OBVIOUS
  <2>4. \A i, j \in DOMAIN got : i # j => got[i] # got[j]
    BY DEF Right
  <2> HIDE <1>1
  <2> QED BY <1>3, <2>1, <2>2, <2>3, <2>4
<1>5. open \subseteq due /\ Elements(got) \cup miss = due \ open /\ Elements(got) \cap miss = {}
  BY DEF Right
<1> QED BY <1>1, <1>2, <1>4, <1>5 DEF Right

LEMMA MissesOne ==
    ASSUME NEW got, NEW e, NEW miss, NEW due, NEW open,
           Right(got, miss, due, open), e \in open
    PROVE  Right(got, miss \cup {e}, due, open \ {e})
BY DEF Right

LEMMA ComesOne ==
    ASSUME NEW got, NEW e, NEW miss, NEW due, NEW open,
           Right(got, miss, due, open), e \notin due
    PROVE  Right(got, miss, due \cup {e}, open \cup {e})
BY DEF Right

LEMMA TakeIsGot ==
    ASSUME NEW took \in Seq(Nat), NEW buf \in Seq(Nat), buf # <<>>
    PROVE  /\ Append(took, Head(buf)) \o Tail(buf) = took \o buf
           /\ Head(buf) \in Nat /\ Tail(buf) \in Seq(Nat)
           /\ Append(took, Head(buf)) \in Seq(Nat)
OBVIOUS

LEMMA OfferIsGot ==
    ASSUME NEW took \in Seq(Nat), NEW buf \in Seq(Nat), NEW e \in Nat
    PROVE  took \o Append(buf, e) = Append(took \o buf, e)
OBVIOUS

LEMMA DueGrows ==
    ASSUME NEW log \in Seq(Nat), NEW e \in Nat, NEW w \in StreamRows,
           w.skip <= Len(log), w.upto <= Len(log)
    PROVE  /\ DueOf(w, Append(log, e), Len(log) + 1) = DueOf(w, log, Len(log)) \cup {e}
           /\ DueOf(w, Append(log, e), w.upto) = DueOf(w, log, w.upto)
<1>1. PICK k \in Nat, u \in Nat, n \in Nat :
          k = w.skip /\ u = w.upto /\ n = Len(log) /\ k <= n /\ u <= n
  BY DEF StreamRows
<1>2. Len(Append(log, e)) = n + 1 /\ Append(log, e)[n + 1] = e
  BY <1>1
<1>3. \A i \in 1..n : Append(log, e)[i] = log[i]
  BY <1>1
<1>4. (k + 1)..(n + 1) = (k + 1)..n \cup {n + 1}
  BY <1>1
<1>5. \A i \in (k + 1)..n : i \in 1..n
  BY <1>1
<1>6. \A i \in (k + 1)..u : i \in 1..n
  BY <1>1
<1>7. {Append(log, e)[i] : i \in (k + 1)..(n + 1)} = {log[i] : i \in (k + 1)..n} \cup {e}
  BY <1>2, <1>3, <1>4, <1>5
<1>8. {Append(log, e)[i] : i \in (k + 1)..u} = {log[i] : i \in (k + 1)..u}
  BY <1>3, <1>6
<1> QED BY <1>1, <1>2, <1>7, <1>8 DEF DueOf

LEMMA DueIsPublished ==
    ASSUME NEW log \in Seq(Nat), NEW w \in StreamRows, NEW e, e \in DueOf(w, log, Len(log))
    PROVE  e \in Elements(log)
<1>1. PICK k \in Nat, n \in Nat : k = w.skip /\ n = Len(log)
  BY DEF StreamRows
<1>2. PICK i \in (k + 1)..n : e = log[i]
  BY <1>1 DEF DueOf
<1>3. i \in DOMAIN log
  BY <1>1, <1>2
<1> QED BY <1>2, <1>3 DEF Elements

LEMMA RowGets ==
    ASSUME NEW w \in StreamRows, NEW e \in Nat, NEW log, NEW till, NEW open, NEW v,
           StreamRight(w, log, till, open), e \in open,
           v.buffer = Append(w.buffer, e), v.took = w.took, v.missed = w.missed,
           v.skip = w.skip, v.upto = w.upto
    PROVE  StreamRight(v, log, till, open \ {e})
<1>1. PICK t \in Seq(Nat), b \in Seq(Nat) : t = w.took /\ b = w.buffer
  BY DEF StreamRows
<1>2. Right(t \o b, w.missed, DueOf(w, log, till), open) /\ t \o b \in Seq(Nat)
  BY <1>1 DEF StreamRight
<1>3. Right(Append(t \o b, e), w.missed, DueOf(w, log, till), open \ {e})
  BY <1>2, GetsOne
<1>4. v.took \o v.buffer = Append(t \o b, e)
  <2>1. t \o Append(b, e) = Append(t \o b, e)
    BY OfferIsGot
  <2> QED BY <1>1, <2>1
<1>5. DueOf(v, log, till) = DueOf(w, log, till)
  BY DEF DueOf
<1> QED BY <1>3, <1>4, <1>5 DEF StreamRight

LEMMA RowMisses ==
    ASSUME NEW w, NEW e, NEW log, NEW till, NEW open, NEW v,
           StreamRight(w, log, till, open), e \in open,
           v.missed = w.missed \cup {e}, v.took = w.took, v.buffer = w.buffer,
           v.skip = w.skip, v.upto = w.upto
    PROVE  StreamRight(v, log, till, open \ {e})
<1>1. Right(w.took \o w.buffer, w.missed \cup {e}, DueOf(w, log, till), open \ {e})
  BY MissesOne DEF StreamRight
<1>2. DueOf(v, log, till) = DueOf(w, log, till)
  BY DEF DueOf
<1> QED BY <1>1, <1>2 DEF StreamRight

LEMMA RowTakes ==
    ASSUME NEW w \in StreamRows, NEW log, NEW till, NEW open, NEW v, w.buffer # <<>>,
           StreamRight(w, log, till, open),
           v.took = Append(w.took, Head(w.buffer)), v.buffer = Tail(w.buffer),
           v.missed = w.missed, v.skip = w.skip, v.upto = w.upto
    PROVE  StreamRight(v, log, till, open)
<1>1. PICK t \in Seq(Nat), b \in Seq(Nat) : t = w.took /\ b = w.buffer
  BY DEF StreamRows
<1>2. Append(t, Head(b)) \o Tail(b) = t \o b
  BY <1>1, TakeIsGot
<1>3. v.took \o v.buffer = w.took \o w.buffer
  BY <1>1, <1>2
<1>4. DueOf(v, log, till) = DueOf(w, log, till)
  BY DEF DueOf
<1> QED BY <1>3, <1>4 DEF StreamRight

LEMMA RowCloses ==
    ASSUME NEW w \in StreamRows, NEW log \in Seq(Nat), NEW open, NEW v,
           StreamRight(w, log, Len(log), open), v = [w EXCEPT !.upto = Len(log)]
    PROVE  v \in StreamRows /\ v.of = w.of /\ StreamRight(v, log, v.upto, open)
<1>1. v \in StreamRows /\ v.of = w.of /\ v.took = w.took /\ v.buffer = w.buffer
      /\ v.missed = w.missed /\ v.skip = w.skip /\ v.upto = Len(log)
  <2>1. PICK n \in Nat : n = Len(log)
    OBVIOUS
  <2>2. v = [w EXCEPT !.upto = n]
    BY <2>1
  <2>3. v \in StreamRows /\ v.of = w.of /\ v.took = w.took /\ v.buffer = w.buffer
        /\ v.missed = w.missed /\ v.skip = w.skip /\ v.upto = n
    BY ONLY w \in StreamRows, n \in Nat, <2>2 DEF StreamRows
  <2> QED BY <2>1, <2>3
<1>2. DueOf(v, log, v.upto) = DueOf(w, log, Len(log))
  BY <1>1 DEF DueOf
<1>3. Right(v.took \o v.buffer, v.missed, DueOf(v, log, v.upto), open)
  BY <1>1, <1>2 DEF StreamRight
<1>4. w.skip <= Len(log) /\ Len(log) <= Len(log)
  BY DEF StreamRight
<1> QED BY <1>1, <1>3, <1>4 DEF StreamRight

LEMMA RowComes ==
    ASSUME NEW w \in StreamRows, NEW log \in Seq(Nat), NEW e \in Nat, NEW open,
           StreamRight(w, log, Len(log), open), e \notin Elements(log)
    PROVE  StreamRight(w, Append(log, e), Len(log) + 1, open \cup {e})
<1>1. e \notin DueOf(w, log, Len(log))
  BY DueIsPublished
<1>2. DueOf(w, Append(log, e), Len(log) + 1) = DueOf(w, log, Len(log)) \cup {e}
  BY DueGrows DEF StreamRight
<1>3. Right(w.took \o w.buffer, w.missed, DueOf(w, log, Len(log)) \cup {e}, open \cup {e})
  BY <1>1, ComesOne DEF StreamRight
<1>4. w.skip <= Len(Append(log, e)) /\ w.upto <= Len(Append(log, e))
  BY DEF StreamRight, StreamRows
<1> QED BY <1>2, <1>3, <1>4 DEF StreamRight

LEMMA RowIsShut ==
    ASSUME NEW w \in StreamRows, NEW log \in Seq(Nat), NEW e \in Nat, NEW open,
           StreamRight(w, log, w.upto, open)
    PROVE  StreamRight(w, Append(log, e), w.upto, open)
<1>2. DueOf(w, Append(log, e), w.upto) = DueOf(w, log, w.upto)
  BY DueGrows DEF StreamRight
<1>4. w.skip <= Len(Append(log, e)) /\ w.upto <= Len(Append(log, e))
  BY DEF StreamRight, StreamRows
<1> QED BY <1>2, <1>4 DEF StreamRight

LEMMA RowStarts ==
    ASSUME NEW w \in StreamRows, NEW log \in Seq(Nat), w.took = <<>>, w.buffer = <<>>,
           w.missed = {}, w.upto = 0, w.skip = Len(log)
    PROVE  StreamRight(w, log, Len(log), {})
<1>1. DueOf(w, log, Len(log)) = {}
  <2>1. (Len(log) + 1)..Len(log) = {}
    OBVIOUS
  <2> QED BY <2>1 DEF DueOf
<1>2. Elements(<<>>) = {} /\ DOMAIN <<>> = {}
  BY DEF Elements
<1>3. w.took \o w.buffer = <<>>
  OBVIOUS
<1>4. Right(<<>>, {}, {}, {})
  BY <1>2 DEF Right
<1>5. w.skip <= Len(log) /\ w.upto <= Len(log)
  OBVIOUS
<1> QED BY <1>1, <1>3, <1>4, <1>5 DEF StreamRight

LEMMA HubStarts == HubInit => HubInv
<1> SUFFICES ASSUME HubInit PROVE HubInv
  OBVIOUS
<1>1. LogsInv
  <2>1. <<>> \in Seq(Nat)
    OBVIOUS
  <2> QED BY <2>1 DEF HubInit, LogsInv
<1>2. PublishInv
  BY DEF HubInit, PublishInv, PublishRows, Quiet, Whoever
<1>3. SubscriberInv
  <2>1. PICK w : w = [of |-> "", buffer |-> <<>>, took |-> <<>>, missed |-> {},
                      skip |-> 0, upto |-> 0]
    OBVIOUS
  <2>2. "" \in Whoever
    BY DEF Whoever
  <2>3. w \in StreamRows
    <3>1. PICK x \in Whoever : x = ""
      BY <2>2
    <3>2. w = [of |-> x, buffer |-> <<>>, took |-> <<>>, missed |-> {}, skip |-> 0, upto |-> 0]
      BY <2>1, <3>1
    <3>3. <<>> \in Seq(Nat) /\ {} \in SUBSET Nat /\ 0 \in Nat
      OBVIOUS
    <3> QED BY ONLY x \in Whoever, <3>2, <3>3 DEF StreamRows
  <2>4. stream = [s \in Streams |-> w]
    BY <2>1 DEF HubInit
  <2>5. stream \in [Streams -> StreamRows]
    BY <2>3, <2>4
  <2>6. \A s \in Streams : stream[s] = w
    BY <2>4
  <2> QED BY <2>1, <2>5, <2>6 DEF HubInit, SubscriberInv
<1>4. StreamsInv
  BY DEF HubInit, StreamsInv
<1> QED BY <1>1, <1>2, <1>3, <1>4 DEF HubInv

LEMMA HubStutters == HubInv /\ UNCHANGED hubVars => HubInv'
<1> SUFFICES ASSUME HubInv, UNCHANGED hubVars PROVE HubInv'
  OBVIOUS
<1>1. UNCHANGED <<subscribers, stream, closed, publishing, published>>
  BY DEF hubVars
<1>2. LogsInv'
  BY <1>1 DEF HubInv, LogsInv
<1>3. PublishInv'
  BY <1>1 DEF HubInv, PublishInv, EventsSoFar
<1>4. SubscriberInv'
  BY <1>1 DEF HubInv, SubscriberInv
<1>5. StreamsInv'
  BY <1>1 DEF HubInv, StreamsInv
<1> QED BY <1>2, <1>3, <1>4, <1>5 DEF HubInv

LEMMA HubIsRight == HubInv => HubHolds
<1> SUFFICES ASSUME HubInv PROVE HubHolds
  OBVIOUS
<1> USE DEF HubInv
<1>1. ASSUME NEW p \in Publishers
      PROVE  publishing[p].left \cap closed = {}
  BY DEF PublishInv, SubscriberInv
<1>2. ASSUME NEW s \in Streams, stream[s].of # ""
      PROVE  LET log   == published[stream[s].of]
                 until == IF s \in closed THEN stream[s].upto ELSE Len(log)
                 due   == {log[i] : i \in (stream[s].skip + 1)..until}
                 open  == {publishing[p].event : p \in {q \in Publishers :
                                                         s \in publishing[q].left}} IN
             /\ Elements(Got(s)) \cup stream[s].missed = due \ open
             /\ Elements(Got(s)) \cap stream[s].missed = {}
             /\ \A i, j \in DOMAIN Got(s) : i # j => Got(s)[i] # Got(s)[j]
             /\ s \in closed <=> s \notin subscribers[stream[s].of]
  <2> DEFINE log == published[stream[s].of]
             till == Till(s, closed, stream[s], log)
  <2>1. StreamRight(stream[s], log, till, OpenOf(publishing, s))
    BY <1>2 DEF StreamsInv
  <2>2. Right(Got(s), stream[s].missed, DueOf(stream[s], log, till), OpenOf(publishing, s))
    BY <2>1 DEF StreamRight, Got
  <2>3. stream[s].of \in Recipients
    BY <1>2 DEF SubscriberInv, StreamRows, Whoever
  <2>4. s \in closed <=> s \notin subscribers[stream[s].of]
    BY <1>2, <2>3 DEF SubscriberInv
  <2> QED BY <2>2, <2>4 DEF Right, DueOf, OpenOf, Till
<1> QED BY <1>1, <1>2 DEF HubHolds

-----------------------------------------------------------------------------
\* The write lock is free: nothing is being offered.
LEMMA NothingIsOffered ==
    ASSUME PublishInv, Unread, NEW s
    PROVE  OpenOf(publishing, s) = {}
BY DEF PublishInv, Unread, OpenOf

LEMMA StreamOfUser ==
    ASSUME SubscriberInv, NEW s \in Streams, stream[s].of # ""
    PROVE  stream[s].of \in Recipients /\ stream[s] \in StreamRows
BY DEF SubscriberInv, StreamRows, Whoever

LEMMA SubscribeStep ==
    ASSUME HubInv, NEW s \in Streams, NEW r \in Recipients, Subscribe(s, r)
    PROVE  HubInv'
<1> USE DEF HubInv
<1>1. PICK w \in StreamRows : w = stream[s]
  BY DEF SubscriberInv
<1>2. w.of = "" /\ UNCHANGED <<closed, publishing, published>> /\ Unread
      /\ subscribers' = [subscribers EXCEPT ![r] = subscribers[r] \cup {s}]
  BY <1>1 DEF Subscribe
<1>3. PICK v : v = [w EXCEPT !.of = r, !.skip = Len(published[r])]
  OBVIOUS
<1>4. stream' = [stream EXCEPT ![s] = v]
  BY <1>1, <1>3 DEF Subscribe
<1>5. s \notin closed /\ w.took = <<>> /\ w.buffer = <<>> /\ w.missed = {} /\ w.upto = 0
  BY <1>1, <1>2 DEF SubscriberInv
<1>6. v \in StreamRows /\ v.of = r /\ StreamRight(v, published[r], Len(published[r]), {})
  <2>1. published[r] \in Seq(Nat)
    BY DEF LogsInv
  <2>2. PICK log \in Seq(Nat) : log = published[r]
    BY <2>1
  <2>3. v = [w EXCEPT !.of = r, !.skip = Len(log)]
    BY <1>3, <2>2
  <2>4. PICK n \in Nat : n = Len(log)
    OBVIOUS
  <2>5. r \in Whoever
    BY DEF Whoever
  <2>6. v = [w EXCEPT !.of = r, !.skip = n]
    BY <2>3, <2>4
  <2>7. v \in StreamRows /\ v.of = r /\ v.skip = n /\ v.took = w.took /\ v.buffer = w.buffer
        /\ v.missed = w.missed /\ v.upto = w.upto
    BY ONLY w \in StreamRows, n \in Nat, <2>5, <2>6 DEF StreamRows
  <2>8. StreamRight(v, log, Len(log), {})
    BY <1>5, <2>4, <2>7, RowStarts
  <2> QED BY <2>2, <2>7, <2>8
<1>7. \A t \in Streams : t # s => stream'[t] = stream[t]
  BY <1>4
<1>8. stream'[s] = v /\ stream' \in [Streams -> StreamRows]
  BY <1>4, <1>6 DEF SubscriberInv
<1>9. LogsInv'
  BY <1>2 DEF LogsInv
<1>10. PublishInv'
  <2>1. EventsSoFar' = EventsSoFar
    BY <1>2 DEF EventsSoFar
  <2> QED BY <1>2, <2>1 DEF PublishInv, Unread
<1>11. SubscriberInv'
  <2>1. r # ""
    BY HubAssumption
  <2>2. \A q \in Recipients : subscribers'[q] = IF q = r THEN subscribers[q] \cup {s}
                                                 ELSE subscribers[q]
    BY <1>2 DEF SubscriberInv
  <2>3. subscribers' \in [Recipients -> SUBSET Streams]
    BY <1>2 DEF SubscriberInv
  <2>4. ASSUME NEW q \in Recipients PROVE s \notin subscribers[q]
    <3>1. s \in subscribers[q] => stream[s].of = q
      BY DEF HubInv, SubscriberInv
    <3> QED BY <1>1, <1>2, <3>1, HubAssumption
  <2>5. ASSUME NEW q \in Recipients, NEW t \in subscribers'[q]
        PROVE  stream'[t].of = q /\ t \notin closed'
    <3>1. t \in Streams
      BY <2>3
    <3>2. CASE t = s
      <4>1. q = r
        BY <2>2, <2>4, <3>2
      <4> QED BY <1>2, <1>5, <1>6, <1>8, <3>2, <4>1
    <3>3. CASE t # s
      <4>1. t \in subscribers[q]
        BY <2>2, <3>3
      <4> QED BY <1>2, <1>7, <3>1, <3>3, <4>1 DEF SubscriberInv
    <3> QED BY <3>2, <3>3
  <2>6. ASSUME NEW t \in Streams
        PROVE  IF stream'[t].of = ""
               THEN t \notin closed' /\ stream'[t].took = <<>> /\ stream'[t].buffer = <<>>
                    /\ stream'[t].missed = {} /\ stream'[t].upto = 0
               ELSE t \in closed' \/ t \in subscribers'[stream'[t].of]
    <3>1. CASE t = s
      BY <1>6, <1>8, <2>1, <2>2, <3>1
    <3>2. CASE t # s /\ stream[t].of = ""
      BY <1>2, <1>7, <3>2 DEF SubscriberInv
    <3>3. CASE t # s /\ stream[t].of # ""
      BY <1>2, <1>7, <2>2, <3>3, StreamOfUser DEF SubscriberInv
    <3> QED BY <3>1, <3>2, <3>3
  <2> QED BY <1>2, <1>8, <2>3, <2>5, <2>6 DEF SubscriberInv
<1>12. StreamsInv'
  <2> SUFFICES ASSUME NEW t \in Streams, stream'[t].of # ""
               PROVE  LET log == published'[stream'[t].of] IN
                      StreamRight(stream'[t], log, Till(t, closed', stream'[t], log),
                                  OpenOf(publishing', t))
    BY DEF StreamsInv
  <2>1. CASE t = s
    <3>1. OpenOf(publishing, s) = {}
      BY <1>2, NothingIsOffered
    <3>2. Till(t, closed', v, published[r]) = Len(published[r])
      BY <1>2, <1>5, <2>1 DEF Till
    <3> QED BY <1>2, <1>6, <1>8, <2>1, <3>1, <3>2
  <2>2. CASE t # s
    BY <1>2, <1>7, <2>2 DEF StreamsInv
  <2> QED BY <2>1, <2>2
<1> QED BY <1>9, <1>10, <1>11, <1>12

LEMMA UnsubscribeStep ==
    ASSUME HubInv, NEW s \in Streams, Unsubscribe(s)
    PROVE  HubInv'
<1> USE DEF HubInv
<1>1. PICK w \in StreamRows, r \in Recipients : w = stream[s] /\ r = stream[s].of
  BY StreamOfUser DEF Unsubscribe
<1>2. s \notin closed /\ UNCHANGED <<publishing, published>> /\ Unread
      /\ subscribers' = [subscribers EXCEPT ![r] = subscribers[r] \ {s}]
      /\ closed' = closed \cup {s}
  BY <1>1 DEF Unsubscribe
<1>3. PICK v : v = [w EXCEPT !.upto = Len(published[r])]
  OBVIOUS
<1>4. stream' = [stream EXCEPT ![s] = v]
  BY <1>1, <1>3 DEF Unsubscribe
<1>5. r # ""
  BY HubAssumption
<1>6. v \in StreamRows /\ v.of = r /\ StreamRight(v, published[r], v.upto, OpenOf(publishing, s))
  <2>1. StreamRight(w, published[r], Len(published[r]), OpenOf(publishing, s))
    BY <1>1, <1>2, <1>5 DEF StreamsInv, Till
  <2>2. published[r] \in Seq(Nat)
    BY DEF LogsInv
  <2>3. w.of = r
    BY <1>1
  <2> QED BY ONLY w \in StreamRows, <1>3, <2>1, <2>2, <2>3, RowCloses
<1>7. \A t \in Streams : t # s => stream'[t] = stream[t]
  BY <1>4
<1>8. stream'[s] = v /\ stream' \in [Streams -> StreamRows]
  BY <1>4, <1>6 DEF SubscriberInv
<1>9. LogsInv'
  BY <1>2 DEF LogsInv
<1>10. PublishInv'
  <2>1. EventsSoFar' = EventsSoFar
    BY <1>2 DEF EventsSoFar
  <2> QED BY <1>2, <2>1 DEF PublishInv, Unread
<1>11. SubscriberInv'
  <2>2. \A q \in Recipients : subscribers'[q] = IF q = r THEN subscribers[q] \ {s}
                                                 ELSE subscribers[q]
    BY <1>2 DEF SubscriberInv
  <2>3. subscribers' \in [Recipients -> SUBSET Streams]
    BY <1>2 DEF SubscriberInv
  <2>4. \A q \in Recipients : s \in subscribers[q] => q = r
    BY <1>1 DEF SubscriberInv
  <2>5. ASSUME NEW q \in Recipients, NEW t \in subscribers'[q]
        PROVE  stream'[t].of = q /\ t \notin closed'
    <3>1. t \in subscribers[q] /\ t # s
      BY <2>2, <2>4
    <3> QED BY <1>2, <1>7, <3>1 DEF SubscriberInv
  <2>6. ASSUME NEW t \in Streams
        PROVE  IF stream'[t].of = ""
               THEN t \notin closed' /\ stream'[t].took = <<>> /\ stream'[t].buffer = <<>>
                    /\ stream'[t].missed = {} /\ stream'[t].upto = 0
               ELSE t \in closed' \/ t \in subscribers'[stream'[t].of]
    <3>1. CASE t = s
      BY <1>2, <1>5, <1>6, <1>8, <3>1
    <3>2. CASE t # s /\ stream[t].of = ""
      BY <1>2, <1>7, <3>2 DEF SubscriberInv
    <3>3. CASE t # s /\ stream[t].of # ""
      BY <1>2, <1>7, <2>2, <3>3, StreamOfUser DEF SubscriberInv
    <3> QED BY <3>1, <3>2, <3>3
  <2>7. closed' \in SUBSET Streams
    BY <1>2 DEF SubscriberInv
  <2> QED BY <1>8, <2>3, <2>5, <2>6, <2>7 DEF SubscriberInv
<1>12. StreamsInv'
  <2> SUFFICES ASSUME NEW t \in Streams, stream'[t].of # ""
               PROVE  LET log == published'[stream'[t].of] IN
                      StreamRight(stream'[t], log, Till(t, closed', stream'[t], log),
                                  OpenOf(publishing', t))
    BY DEF StreamsInv
  <2>1. CASE t = s
    <3>2. Till(t, closed', v, published[r]) = v.upto
      BY <1>2, <2>1 DEF Till
    <3> QED BY <1>2, <1>6, <1>8, <2>1, <3>2
  <2>2. CASE t # s
    <3>2. t \in closed' <=> t \in closed
      BY <1>2, <2>2
    <3> QED BY <1>2, <1>7, <2>2, <3>2 DEF StreamsInv, Till
  <2> QED BY <2>1, <2>2
<1> QED BY <1>9, <1>10, <1>11, <1>12

LEMMA OpenTyped ==
    ASSUME PublishInv, NEW p \in Publishers
    PROVE  /\ publishing[p] \in PublishRows
           /\ \A s \in publishing[p].left : publishing[p].on /\ publishing[p].event \in Nat
BY DEF PublishInv, PublishRows

LEMMA PublishStep ==
    ASSUME HubInv, NEW p \in Publishers, NEW r \in Recipients, NEW e \in 1..MaxEvents,
           e \in Nat, Publish(p, r, e)
    PROVE  HubInv'
<1> USE DEF HubInv
<1>1. PICK log \in Seq(Nat) : log = published[r]
  BY DEF LogsInv
<1>2. ~publishing[p].on /\ e \notin EventsSoFar /\ UNCHANGED <<subscribers, stream, closed>>
  BY DEF Publish
<1>3. PICK v : v = [to |-> r, event |-> e, left |-> subscribers[r], on |-> TRUE]
  OBVIOUS
<1>4. publishing' = [publishing EXCEPT ![p] = v]
      /\ published' = [published EXCEPT ![r] = Append(log, e)]
  BY <1>1, <1>3 DEF Publish
<1>5. Append(log, e) \in Seq(Nat)
  OBVIOUS
<1>6. v \in PublishRows /\ v.to = r /\ v.event = e /\ v.left = subscribers[r] /\ v.on
  <2>1. r \in Whoever /\ subscribers[r] \in SUBSET Streams
    BY DEF Whoever, SubscriberInv
  <2> QED BY ONLY e \in Nat, <1>3, <2>1 DEF PublishRows
<1>7. /\ publishing' \in [Publishers -> PublishRows] /\ publishing'[p] = v
      /\ \A q \in Publishers : q # p => publishing'[q] = publishing[q]
  BY <1>4, <1>6 DEF PublishInv
<1>8. /\ published' \in [Recipients -> Seq(Nat)] /\ published'[r] = Append(log, e)
      /\ \A x \in Recipients : x # r => published'[x] = published[x]
  BY <1>4, <1>5 DEF LogsInv
<1>9. EventsSoFar' = EventsSoFar \cup {e}
  <2>1. Elements(Append(log, e)) = Elements(log) \cup {e}
    BY ElementsAppend
  <2>2. \A x \in Recipients : Elements(published'[x]) =
           IF x = r THEN Elements(published[x]) \cup {e} ELSE Elements(published[x])
    BY <1>1, <1>8, <2>1
  <2>3. EventsSoFar' = UNION {Elements(published'[x]) : x \in Recipients}
    BY DEF EventsSoFar, Elements
  <2>4. EventsSoFar = UNION {Elements(published[x]) : x \in Recipients}
    BY DEF EventsSoFar
  <2> QED BY <2>2, <2>3, <2>4, ZenonT(40)
<1>10. LogsInv'
  BY <1>8 DEF LogsInv
<1>11. PublishInv'
  <2>1. \A q \in Publishers : ~publishing'[q].on => publishing'[q].left = {}
    BY <1>6, <1>7 DEF PublishInv
  <2>2. \A q \in Publishers : publishing'[q].on =>
          publishing'[q].to \in Recipients /\ publishing'[q].event \in EventsSoFar'
    BY <1>6, <1>7, <1>9 DEF PublishInv
  <2>3. \A q, o \in Publishers : q # o /\ publishing'[q].on /\ publishing'[o].on =>
          publishing'[q].event # publishing'[o].event
    BY <1>2, <1>6, <1>7 DEF PublishInv
  <2>4. \A q \in Publishers : publishing'[q].on =>
          publishing'[q].left \subseteq subscribers'[publishing'[q].to]
    BY <1>2, <1>6, <1>7 DEF PublishInv
  <2> QED BY <1>7, <2>1, <2>2, <2>3, <2>4 DEF PublishInv
<1>12. SubscriberInv'
  BY <1>2 DEF SubscriberInv
<1>13. StreamsInv'
  <2> SUFFICES ASSUME NEW t \in Streams, stream'[t].of # ""
               PROVE  LET l == published'[stream'[t].of] IN
                      StreamRight(stream'[t], l, Till(t, closed', stream'[t], l),
                                  OpenOf(publishing', t))
    BY DEF StreamsInv
  <2>1. PICK w \in StreamRows, x \in Recipients : w = stream[t] /\ x = stream[t].of
    BY <1>2, StreamOfUser
  <2>2. StreamRight(w, published[x], Till(t, closed, w, published[x]), OpenOf(publishing, t))
    BY <1>2, <2>1 DEF StreamsInv
  <2>3. stream'[t] = w /\ w.of = x /\ closed' = closed
    BY <1>2, <2>1
  <2>4. publishing[p].left = {}
    BY <1>2 DEF PublishInv
  <2>5. OpenOf(publishing', t) = IF t \in subscribers[r] THEN OpenOf(publishing, t) \cup {e}
                                                        ELSE OpenOf(publishing, t)
    <3>1. ASSUME NEW q \in Publishers, q # p
          PROVE  publishing'[q] = publishing[q]
      BY <1>7, <3>1
    <3>2. CASE t \in subscribers[r]
      <4>1. t \in publishing'[p].left /\ publishing'[p].event = e
        BY <1>6, <1>7, <3>2
      <4> QED BY <2>4, <3>1, <3>2, <4>1, ZenonT(40) DEF OpenOf
    <3>3. CASE t \notin subscribers[r]
      <4>1. t \notin publishing'[p].left
        BY <1>6, <1>7, <3>3
      <4> QED BY <2>4, <3>1, <3>3, <4>1 DEF OpenOf
    <3> QED BY <3>2, <3>3
  <2>6. t \in subscribers[r] => x = r /\ t \notin closed
    BY <1>2, <2>1 DEF SubscriberInv
  <2>7. x # "" /\ (t \notin closed => t \in subscribers[x])
    BY <2>1, HubAssumption DEF SubscriberInv
  <2>8. CASE t \in subscribers[r]
    <3>1. Till(t, closed, w, log) = Len(log) /\ Till(t, closed, w, Append(log, e)) = Len(log) + 1
      <4>1. Len(Append(log, e)) = Len(log) + 1
        BY ONLY log \in Seq(Nat), e \in Nat
      <4> QED BY <2>6, <2>8, <4>1 DEF Till
    <3>2. e \notin Elements(log)
      BY <1>1, <1>2 DEF EventsSoFar
    <3>3. StreamRight(w, log, Len(log), OpenOf(publishing, t))
      BY <1>1, <2>2, <2>6, <2>8, <3>1
    <3>4. StreamRight(w, Append(log, e), Len(log) + 1, OpenOf(publishing, t) \cup {e})
      BY <3>2, <3>3, RowComes
    <3> QED BY <1>8, <2>3, <2>5, <2>6, <2>8, <3>1, <3>4
  <2>9. CASE t \notin subscribers[r] /\ x = r
    <3>1. Till(t, closed, w, log) = w.upto /\ Till(t, closed, w, Append(log, e)) = w.upto
      BY <2>7, <2>9 DEF Till
    <3>3. StreamRight(w, log, w.upto, OpenOf(publishing, t))
      BY <1>1, <2>2, <2>9, <3>1
    <3>4. StreamRight(w, Append(log, e), w.upto, OpenOf(publishing, t))
      BY <3>3, RowIsShut
    <3> QED BY <1>8, <2>3, <2>5, <2>9, <3>1, <3>4
  <2>10. CASE t \notin subscribers[r] /\ x # r
    BY <1>8, <2>2, <2>3, <2>5, <2>10
  <2> QED BY <2>8, <2>9, <2>10
<1> QED BY <1>10, <1>11, <1>12, <1>13

LEMMA OfferStepOfHub ==
    ASSUME HubInv, NEW p \in Publishers, NEW s \in Streams, Offer(p, s)
    PROVE  HubInv'
<1> USE DEF HubInv
<1>1. PICK o \in PublishRows : o = publishing[p]
  BY OpenTyped
<1>2. PICK e \in Nat : e = o.event
  BY DEF PublishRows
<1>3. s \in o.left /\ o.on /\ UNCHANGED <<subscribers, closed, published>>
  BY <1>1, OpenTyped DEF Offer
<1>4. PICK y : y = [o EXCEPT !.left = o.left \ {s}]
  OBVIOUS
<1>5. y \in PublishRows /\ y.to = o.to /\ y.event = e /\ y.on = o.on /\ y.left = o.left \ {s}
  BY <1>2, <1>4 DEF PublishRows
<1>6. publishing' = [publishing EXCEPT ![p] = y]
  BY <1>1, <1>4 DEF Offer
<1>7. /\ publishing' \in [Publishers -> PublishRows] /\ publishing'[p] = y
      /\ \A q \in Publishers : q # p => publishing'[q] = publishing[q]
  BY <1>5, <1>6 DEF PublishInv
<1>8. o.to \in Recipients /\ s \in subscribers[o.to]
  BY <1>1, <1>3 DEF PublishInv
<1>9. PICK w \in StreamRows : w = stream[s]
  BY DEF SubscriberInv
<1>10. w.of = o.to /\ s \notin closed /\ o.to # ""
  BY <1>8, <1>9, HubAssumption DEF SubscriberInv
<1>11. PICK log \in Seq(Nat) : log = published[o.to]
  BY <1>8 DEF LogsInv
<1>12. StreamRight(w, log, Till(s, closed, w, log), OpenOf(publishing, s))
  BY <1>9, <1>10, <1>11 DEF StreamsInv
<1>13. e \in OpenOf(publishing, s)
  BY <1>1, <1>2, <1>3 DEF OpenOf
<1>14. OpenOf(publishing', s) = OpenOf(publishing, s) \ {e}
  <2>1. ASSUME NEW q \in Publishers, s \in publishing[q].left, q # p
        PROVE  publishing[q].event # e
    BY <1>1, <1>2, <1>3, <2>1, OpenTyped DEF PublishInv
  <2>2. s \notin y.left
    BY <1>5
  <2> QED BY <1>1, <1>2, <1>7, <2>1, <2>2 DEF OpenOf
<1>15. ASSUME NEW t, t # s
       PROVE  OpenOf(publishing', t) = OpenOf(publishing, t)
  <2>1. \A q \in Publishers : /\ publishing'[q].event = publishing[q].event
                              /\ t \in publishing'[q].left <=> t \in publishing[q].left
    BY <1>1, <1>2, <1>5, <1>7, <1>15
  <2> QED BY <2>1 DEF OpenOf
<1>16. PICK v : /\ v \in StreamRows /\ v.of = w.of /\ v.upto = w.upto
                /\ stream' = [stream EXCEPT ![s] = v]
                /\ StreamRight(v, log, Till(s, closed, w, log), OpenOf(publishing, s) \ {e})
  <2>1. CASE Len(stream[s].buffer) < BufferSize
    <3>1. PICK v : v = [w EXCEPT !.buffer = Append(w.buffer, e)]
      OBVIOUS
    <3>2. stream' = [stream EXCEPT ![s] = v]
      BY <1>1, <1>2, <1>9, <2>1, <3>1 DEF Offer
    <3>3. /\ v \in StreamRows /\ v.of = w.of /\ v.buffer = Append(w.buffer, e)
          /\ v.took = w.took /\ v.missed = w.missed /\ v.skip = w.skip /\ v.upto = w.upto
      <4>1. PICK b \in Seq(Nat) : b = w.buffer
        BY DEF StreamRows
      <4>2. Append(b, e) \in Seq(Nat)
        BY ONLY b \in Seq(Nat), e \in Nat
      <4>3. PICK c \in Seq(Nat) : c = Append(b, e)
        BY Zenon, <4>2
      <4>4. v = [w EXCEPT !.buffer = c]
        BY <3>1, <4>1, <4>3
      <4> QED BY <4>1, <4>3, <4>4 DEF StreamRows
    <3>4. StreamRight(v, log, Till(s, closed, w, log), OpenOf(publishing, s) \ {e})
      BY <1>12, <1>13, <3>3, RowGets
    <3> QED BY <3>2, <3>3, <3>4
  <2>2. CASE ~(Len(stream[s].buffer) < BufferSize)
    <3>1. PICK v : v = [w EXCEPT !.missed = w.missed \cup {e}]
      OBVIOUS
    <3>2. stream' = [stream EXCEPT ![s] = v]
      BY <1>1, <1>2, <1>9, <2>2, <3>1 DEF Offer
    <3>3. /\ v \in StreamRows /\ v.of = w.of /\ v.missed = w.missed \cup {e}
          /\ v.took = w.took /\ v.buffer = w.buffer /\ v.skip = w.skip /\ v.upto = w.upto
      BY <3>1 DEF StreamRows
    <3>4. StreamRight(v, log, Till(s, closed, w, log), OpenOf(publishing, s) \ {e})
      BY <1>12, <1>13, <3>3, RowMisses
    <3> QED BY <3>2, <3>3, <3>4
  <2> QED BY <2>1, <2>2
<1>17. /\ stream' \in [Streams -> StreamRows] /\ stream'[s] = v
       /\ \A t \in Streams : t # s => stream'[t] = stream[t]
  BY <1>16 DEF SubscriberInv
<1>18. LogsInv'
  BY <1>3 DEF LogsInv
<1>19. PublishInv'
  <2>0. EventsSoFar' = EventsSoFar
    BY <1>3 DEF EventsSoFar
  <2>1. ASSUME NEW q \in Publishers
        PROVE  /\ publishing'[q].on <=> publishing[q].on
               /\ publishing'[q].event = publishing[q].event /\ publishing'[q].to = publishing[q].to
               /\ publishing'[q].left \subseteq publishing[q].left
    <3>1. CASE q = p
      BY <1>1, <1>2, <1>5, <1>7, <3>1
    <3>2. CASE q # p
      BY <1>7, <3>2
    <3> QED BY <3>1, <3>2
  <2>2. \A q \in Publishers : ~publishing'[q].on => publishing'[q].left = {}
    BY <2>1 DEF PublishInv
  <2>3. \A q \in Publishers : publishing'[q].on =>
          publishing'[q].to \in Recipients /\ publishing'[q].event \in EventsSoFar'
    BY <2>0, <2>1 DEF PublishInv
  <2>4. \A q, x \in Publishers : q # x /\ publishing'[q].on /\ publishing'[x].on =>
          publishing'[q].event # publishing'[x].event
    BY <2>1 DEF PublishInv
  <2>5. \A q \in Publishers : publishing'[q].on =>
          publishing'[q].left \subseteq subscribers'[publishing'[q].to]
    BY <1>3, <2>1 DEF PublishInv
  <2> QED BY <1>7, <2>2, <2>3, <2>4, <2>5 DEF PublishInv
<1>20. SubscriberInv'
  <2>1. \A t \in Streams : stream'[t].of = stream[t].of
    BY <1>9, <1>16, <1>17
  <2>2. \A x \in Recipients : \A t \in subscribers'[x] : stream'[t].of = x /\ t \notin closed'
    BY <1>3, <2>1 DEF SubscriberInv
  <2>3. ASSUME NEW t \in Streams
        PROVE  IF stream'[t].of = ""
               THEN t \notin closed' /\ stream'[t].took = <<>> /\ stream'[t].buffer = <<>>
                    /\ stream'[t].missed = {} /\ stream'[t].upto = 0
               ELSE t \in closed' \/ t \in subscribers'[stream'[t].of]
    <3>1. CASE t = s
      BY <1>3, <1>8, <1>10, <1>16, <1>17, <3>1
    <3>2. CASE t # s
      BY <1>3, <1>17, <3>2 DEF SubscriberInv
    <3> QED BY <3>1, <3>2
  <2> QED BY <1>3, <1>17, <2>2, <2>3 DEF SubscriberInv
<1>21. StreamsInv'
  <2> SUFFICES ASSUME NEW t \in Streams, stream'[t].of # ""
               PROVE  LET l == published'[stream'[t].of] IN
                      StreamRight(stream'[t], l, Till(t, closed', stream'[t], l),
                                  OpenOf(publishing', t))
    BY DEF StreamsInv
  <2>1. CASE t = s
    <3>1. Till(s, closed, v, log) = Till(s, closed, w, log)
      BY <1>16 DEF Till
    <3> QED BY <1>3, <1>10, <1>11, <1>14, <1>16, <1>17, <2>1, <3>1, ZenonT(40)
  <2>2. CASE t # s
    BY <1>3, <1>15, <1>17, <2>2 DEF StreamsInv
  <2> QED BY <2>1, <2>2
<1> QED BY <1>18, <1>19, <1>20, <1>21

LEMMA EndStep ==
    ASSUME HubInv, NEW p \in Publishers, PublishEnd(p)
    PROVE  HubInv'
<1> USE DEF HubInv
<1>1. UNCHANGED <<subscribers, stream, closed, published>> /\ publishing[p].left = {}
      /\ publishing' = [publishing EXCEPT ![p] = Quiet]
  BY DEF PublishEnd
<1>2. Quiet \in PublishRows /\ ~Quiet.on /\ Quiet.left = {}
  BY DEF Quiet, PublishRows, Whoever
<1>3. /\ publishing' \in [Publishers -> PublishRows] /\ publishing'[p] = Quiet
      /\ \A q \in Publishers : q # p => publishing'[q] = publishing[q]
  BY <1>1, <1>2 DEF PublishInv
<1>4. PublishInv'
  <2>0. EventsSoFar' = EventsSoFar
    BY <1>1 DEF EventsSoFar
  <2>2. \A q \in Publishers : ~publishing'[q].on => publishing'[q].left = {}
    BY <1>2, <1>3 DEF PublishInv
  <2>3. \A q \in Publishers : publishing'[q].on =>
          publishing'[q].to \in Recipients /\ publishing'[q].event \in EventsSoFar'
    BY <1>2, <1>3, <2>0 DEF PublishInv
  <2>4. \A q, x \in Publishers : q # x /\ publishing'[q].on /\ publishing'[x].on =>
          publishing'[q].event # publishing'[x].event
    BY <1>2, <1>3 DEF PublishInv
  <2>5. \A q \in Publishers : publishing'[q].on =>
          publishing'[q].left \subseteq subscribers'[publishing'[q].to]
    BY <1>1, <1>2, <1>3 DEF PublishInv
  <2> QED BY <1>3, <2>2, <2>3, <2>4, <2>5 DEF PublishInv
<1>5. StreamsInv'
  <2>1. \A t : OpenOf(publishing', t) = OpenOf(publishing, t)
    BY <1>1, <1>2, <1>3 DEF OpenOf
  <2> QED BY <1>1, <2>1 DEF StreamsInv
<1> QED BY <1>1, <1>4, <1>5 DEF LogsInv, SubscriberInv

LEMMA TakeStep ==
    ASSUME HubInv, NEW s \in Streams, Take(s)
    PROVE  HubInv'
<1> USE DEF HubInv
<1>1. UNCHANGED <<subscribers, closed, publishing, published>> /\ stream[s].buffer # <<>>
  BY DEF Take
<1>2. PICK w \in StreamRows : w = stream[s]
  BY DEF SubscriberInv
<1>3. PICK v : v = [w EXCEPT !.took = Append(w.took, Head(w.buffer)), !.buffer = Tail(w.buffer)]
  OBVIOUS
<1>4. stream' = [stream EXCEPT ![s] = v]
  BY <1>2, <1>3 DEF Take
<1>5. /\ v \in StreamRows /\ v.of = w.of /\ v.upto = w.upto
      /\ \A log, till, open : StreamRight(w, log, till, open) => StreamRight(v, log, till, open)
  <2>1. PICK t \in Seq(Nat), b \in Seq(Nat) : t = w.took /\ b = w.buffer
    BY DEF StreamRows
  <2>2. Append(t, Head(b)) \in Seq(Nat) /\ Tail(b) \in Seq(Nat)
    BY <1>1, <1>2, <2>1, TakeIsGot
  <2>3. PICK c \in Seq(Nat), d \in Seq(Nat) : c = Append(t, Head(b)) /\ d = Tail(b)
    BY Zenon, <2>2
  <2>4. v = [w EXCEPT !.took = c, !.buffer = d]
    BY <1>3, <2>1, <2>3
  <2>5. /\ v \in StreamRows /\ v.of = w.of /\ v.took = c /\ v.buffer = d
        /\ v.missed = w.missed /\ v.skip = w.skip /\ v.upto = w.upto
    BY <2>4 DEF StreamRows
  <2>6. v.took = Append(w.took, Head(w.buffer)) /\ v.buffer = Tail(w.buffer)
    BY <2>1, <2>3, <2>5
  <2> HIDE <1>3
  <2> QED BY <1>1, <1>2, <2>5, <2>6, RowTakes
<1>6. /\ stream' \in [Streams -> StreamRows] /\ stream'[s] = v
      /\ \A t \in Streams : t # s => stream'[t] = stream[t]
  BY <1>4, <1>5 DEF SubscriberInv
<1>7. w.of # ""
  BY <1>1, <1>2 DEF SubscriberInv
<1>8. LogsInv'
  BY <1>1 DEF LogsInv
<1>9. PublishInv'
  BY <1>1 DEF PublishInv, EventsSoFar
<1>10. SubscriberInv'
  <2>1. \A t \in Streams : stream'[t].of = stream[t].of
    BY <1>2, <1>5, <1>6
  <2>2. \A x \in Recipients : \A t \in subscribers'[x] : stream'[t].of = x /\ t \notin closed'
    BY <1>1, <2>1 DEF SubscriberInv
  <2>3. ASSUME NEW t \in Streams
        PROVE  IF stream'[t].of = ""
               THEN t \notin closed' /\ stream'[t].took = <<>> /\ stream'[t].buffer = <<>>
                    /\ stream'[t].missed = {} /\ stream'[t].upto = 0
               ELSE t \in closed' \/ t \in subscribers'[stream'[t].of]
    <3>1. CASE t = s
      BY <1>1, <1>2, <1>5, <1>6, <1>7, <3>1 DEF SubscriberInv
    <3>2. CASE t # s
      BY <1>1, <1>6, <3>2 DEF SubscriberInv
    <3> QED BY <3>1, <3>2
  <2> QED BY <1>1, <1>6, <2>2, <2>3 DEF SubscriberInv
<1>11. StreamsInv'
  <2> SUFFICES ASSUME NEW t \in Streams, stream'[t].of # ""
               PROVE  LET l == published'[stream'[t].of] IN
                      StreamRight(stream'[t], l, Till(t, closed', stream'[t], l),
                                  OpenOf(publishing', t))
    BY DEF StreamsInv
  <2>1. CASE t = s
    <3>1. StreamRight(w, published[w.of], Till(s, closed, w, published[w.of]),
                      OpenOf(publishing, s))
      BY <1>2, <1>7 DEF StreamsInv
    <3>2. Till(s, closed, v, published[w.of]) = Till(s, closed, w, published[w.of])
      BY <1>5 DEF Till
    <3>3. StreamRight(v, published[w.of], Till(s, closed, v, published[w.of]),
                      OpenOf(publishing, s))
      BY <1>5, <3>1, <3>2
    <3> QED BY <1>1, <1>5, <1>6, <2>1, <3>3
  <2>2. CASE t # s
    BY <1>1, <1>6, <2>2 DEF StreamsInv
  <2> QED BY <2>1, <2>2
<1> QED BY <1>8, <1>9, <1>10, <1>11

LEMMA HubStep == HubInv /\ HubNext => HubInv'
<1> SUFFICES ASSUME HubInv, HubNext PROVE HubInv'
  OBVIOUS
<1>1. ASSUME NEW s \in Streams,
             Unsubscribe(s) \/ Take(s) \/ \E r \in Recipients : Subscribe(s, r)
      PROVE  HubInv'
  BY <1>1, UnsubscribeStep, TakeStep, SubscribeStep
<1>2. ASSUME NEW p \in Publishers, PublishEnd(p) PROVE HubInv'
  BY <1>2, EndStep
<1>3. ASSUME NEW p \in Publishers, NEW s \in Streams, Offer(p, s) PROVE HubInv'
  BY <1>3, OfferStepOfHub
<1>4. ASSUME NEW p \in Publishers, NEW r \in Recipients, NEW e \in 1..MaxEvents, Publish(p, r, e)
      PROVE  HubInv'
  <2>1. e \in Nat
    OBVIOUS
  <2> QED BY <1>4, <2>1, PublishStep
<1> QED BY <1>1, <1>2, <1>3, <1>4 DEF HubNext

-----------------------------------------------------------------------------
(* The loop of the dispatcher *)

Backlogs == [failed : BOOLEAN, oldest : Nat]
About(alert) == \/ alert[2].failed
                \/ alert[2].oldest # 0 /\ alert[1] - alert[2].oldest >= AgeThreshold

AlarmInv ==
    /\ minute \in Nat \ {0} /\ lastAlert \in Nat /\ lastAlert <= minute /\ backlog \in Backlogs
    /\ alerts \in Seq(Nat \X Backlogs)
    /\ alerts # <<>> => lastAlert # 0
    /\ \A i \in DOMAIN alerts : alerts[i][1] <= lastAlert /\ About(alerts[i])
    /\ \A i, j \in DOMAIN alerts : i < j => alerts[j][1] - alerts[i][1] >= AlertInterval

\* A Stop that found the loop has cancelled it, and once it has seen the end of
\* the loop at most its select runs, which sees the cancellation.
LoopInv ==
    /\ cancelable \in BOOLEAN /\ cancelled \in BOOLEAN /\ (cancelable => cancelled)
    /\ stopper = "done" /\ cancelable => loop \notin {"dispatch", "observe"}

DispatcherInv == AlarmInv /\ LoopInv

LEMMA DispatcherStarts == DispatcherInit => DispatcherInv
<1> SUFFICES ASSUME DispatcherInit PROVE DispatcherInv
  OBVIOUS
<1>1. backlog \in Backlogs
  BY DEF DispatcherInit, Backlogs
<1>2. AlarmInv
  BY <1>1 DEF DispatcherInit, AlarmInv
<1>3. LoopInv
  BY DEF DispatcherInit, LoopInv
<1> QED BY <1>2, <1>3 DEF DispatcherInv

LEMMA AlarmStep == AlarmInv /\ DispatcherNext => AlarmInv'
<1> SUFFICES ASSUME AlarmInv, DispatcherNext PROVE AlarmInv'
  OBVIOUS
<1>1. CASE Start \/ Stop \/ ParentCancels \/ Run
  BY <1>1 DEF AlarmInv, Start, Stop, ParentCancels, Run, About
<1>2. CASE Minute
  BY <1>2 DEF AlarmInv, Minute, About
<1>3. CASE Arrive \/ DispatchAvailable
  <2>1. UNCHANGED <<minute, lastAlert, alerts>>
    BY <1>3 DEF Arrive, DispatchAvailable
  <2>2. backlog' \in Backlogs
    <3>1. backlog \in Backlogs /\ minute \in Nat
      BY DEF AlarmInv
    <3>2. [backlog EXCEPT !.oldest = minute] \in Backlogs
      BY <3>1 DEF Backlogs
    <3>3. \A b \in BOOLEAN, t \in Nat : [failed |-> b, oldest |-> t] \in Backlogs
      BY DEF Backlogs
    <3> QED BY <1>3, <3>1, <3>2, <3>3 DEF Arrive, DispatchAvailable
  <2> QED BY <2>1, <2>2 DEF AlarmInv, About
<1>4. CASE ObserveBacklog
  <2>1. CASE UNCHANGED <<lastAlert, alerts>>
    BY <1>4, <2>1 DEF AlarmInv, ObserveBacklog, About
  <2>2. CASE /\ BacklogRequiresAlert /\ ~Throttled
             /\ lastAlert' = minute /\ alerts' = Append(alerts, <<minute, backlog>>)
    <3> DEFINE a == <<minute, backlog>>
    <3>1. PICK n \in Nat : n = Len(alerts)
      BY DEF AlarmInv
    <3>2. a \in Nat \X Backlogs /\ a[1] = minute /\ a[2] = backlog
      BY DEF AlarmInv
    <3>3. /\ About(a)
          /\ lastAlert # 0 => minute - lastAlert >= AlertInterval
      BY <2>2, <3>2, DispatcherAssumption DEF BacklogRequiresAlert, Throttled, About, AlarmInv
    <3>4. UNCHANGED <<minute, backlog>>
      BY <1>4 DEF ObserveBacklog
    <3> HIDE DEF a
    <3>5. alerts' = Append(alerts, a)
      BY <2>2 DEF a
    <3>6. /\ alerts' \in Seq(Nat \X Backlogs) /\ DOMAIN alerts' = 1..n + 1 /\ alerts'[n + 1] = a
          /\ DOMAIN alerts = 1..n /\ \A i \in 1..n : alerts'[i] = alerts[i]
      BY <3>1, <3>2, <3>5 DEF AlarmInv
    <3>10. ASSUME NEW i \in 1..n
           PROVE  /\ alerts[i] \in Nat \X Backlogs /\ alerts[i][1] <= lastAlert
                  /\ About(alerts[i]) /\ lastAlert # 0
      <4>1. i \in DOMAIN alerts /\ alerts # <<>>
        BY <3>6
      <4> QED BY <4>1, ElementOfSeq, <3>1 DEF AlarmInv
    <3>7. ASSUME NEW i \in 1..n + 1 PROVE alerts'[i][1] <= minute /\ About(alerts'[i])
      <4>1. CASE i = n + 1
        BY <3>2, <3>3, <3>6, <4>1 DEF AlarmInv
      <4>2. CASE i \in 1..n
        <5>1. alerts[i] \in Nat \X Backlogs /\ alerts[i][1] <= lastAlert /\ About(alerts[i])
          BY <3>10, <4>2
        <5> QED BY <3>6, <4>2, <5>1 DEF AlarmInv
      <4> QED BY <4>1, <4>2
    <3>8. ASSUME NEW i \in 1..n + 1, NEW j \in 1..n + 1, i < j
          PROVE  alerts'[j][1] - alerts'[i][1] >= AlertInterval
      <4>1. i \in 1..n /\ alerts'[i] = alerts[i] /\ alerts[i] \in Nat \X Backlogs
            /\ alerts[i][1] <= lastAlert /\ lastAlert # 0
        BY <3>1, <3>6, <3>8, <3>10
      <4>2. CASE j = n + 1
        <5>1. PICK x \in Nat, l \in Nat, m \in Nat :
                  x = alerts[i][1] /\ l = lastAlert /\ m = minute
          BY <4>1 DEF AlarmInv
        <5>2. m - l >= AlertInterval /\ x <= l
          BY <3>3, <4>1, <5>1
        <5> QED BY <3>2, <3>6, <4>1, <4>2, <5>1, <5>2, DispatcherAssumption
      <4>3. CASE j \in 1..n
        BY <3>6, <3>8, <4>1, <4>3 DEF AlarmInv
      <4> QED BY <4>2, <4>3
    <3>9. minute # 0 /\ alerts' # <<>>
      BY <3>6 DEF AlarmInv
    <3>11. /\ minute' \in Nat \ {0} /\ lastAlert' \in Nat /\ lastAlert' <= minute'
           /\ lastAlert' = minute /\ lastAlert' # 0
      BY <2>2, <3>4, <3>9 DEF AlarmInv
    <3>12. backlog' \in Backlogs
      BY <3>4 DEF AlarmInv
    <3> QED BY <3>6, <3>7, <3>8, <3>11, <3>12 DEF AlarmInv
  <2> QED BY <1>4, <2>1, <2>2 DEF ObserveBacklog
<1> QED BY <1>1, <1>2, <1>3, <1>4 DEF DispatcherNext

LEMMA LoopStep == LoopInv /\ DispatcherNext => LoopInv'
<1> SUFFICES ASSUME LoopInv, DispatcherNext PROVE LoopInv'
  OBVIOUS
<1>1. CASE Start \/ Minute \/ Arrive
  <2>1. UNCHANGED <<stopper, cancelable, cancelled>> /\ loop' \in {loop, "select"}
    BY <1>1 DEF Start, Minute, Arrive
  <2> QED BY <2>1 DEF LoopInv
<1>5. CASE ParentCancels
  <2>1. UNCHANGED <<stopper, cancelable, loop>> /\ cancelled' = TRUE
    BY <1>5 DEF ParentCancels
  <2> QED BY <2>1 DEF LoopInv
<1>2. CASE Stop
  <2>1. CASE stopper = "fresh" /\ stopper' = "waiting" /\ UNCHANGED loop
    <3>1. cancelable' = (starter # "fresh") /\ cancelled' = (cancelled \/ cancelable')
      BY <1>2, <2>1 DEF Stop
    <3>2. cancelable' \in BOOLEAN /\ cancelled' \in BOOLEAN /\ (cancelable' => cancelled')
      BY <3>1, Zenon
    <3> QED BY <2>1, <3>2 DEF LoopInv
  <2>2. CASE loop \in {"none", "ended"} /\ UNCHANGED <<cancelable, cancelled, loop>>
    BY <2>2 DEF LoopInv
  <2> QED BY <1>2, <2>1, <2>2 DEF Stop
<1>3. CASE Run
  BY <1>3 DEF LoopInv, Run
<1>4. CASE DispatchAvailable \/ ObserveBacklog
  BY <1>4 DEF LoopInv, DispatchAvailable, ObserveBacklog
<1> QED BY <1>1, <1>2, <1>3, <1>4, <1>5 DEF DispatcherNext

LEMMA DispatcherStep == DispatcherInv /\ DispatcherNext => DispatcherInv'
BY AlarmStep, LoopStep DEF DispatcherInv

LEMMA DispatcherStutters == DispatcherInv /\ UNCHANGED workerVars => DispatcherInv'
BY DEF DispatcherInv, AlarmInv, LoopInv, About, workerVars

LEMMA DispatcherIsRight == DispatcherInv => DispatcherHolds
BY DEF DispatcherInv, AlarmInv, LoopInv, DispatcherHolds, About

-----------------------------------------------------------------------------
(* The records of model calls *)

Scenarios == {Normalized(r).scenario : r \in Records}
Texts == STRING \cup {"failed", "unspecified", "price"}
RecordRows == [scenario : Texts, model : Texts, outcome : Texts, tokens : Nat,
               cost : Texts, priced : BOOLEAN]
Tallies == [calls : Nat, failures : Nat]
CallRows == [at : {"none", "stat", "total", "observers", "offer"}, rec : RecordRows \cup {0},
             left : Int]
Given(x) == x # ""
Costs(r) == r.tokens > 0 /\ r.model \in Known
Noted(r) ==
    /\ r \in RecordRows /\ r.scenario \in Scenarios
    /\ Costs(r) => r.priced /\ Given(r.cost)
    /\ Given(r.outcome) /\ Given(r.scenario)

CallTypes ==
    /\ observers \in Nat /\ calls \in [Requesters -> CallRows]
    /\ stats \in [Scenarios -> Tallies] /\ totals \in Tallies
    /\ \A q \in Requesters : calls[q].at # "none" => Noted(calls[q].rec)

Failed(r) == IF r.outcome = "success" THEN 0 ELSE 1
InBetween(c, f) == {q \in Requesters : c[q].at = "total"
                                       /\ (f = "failures" => c[q].rec.outcome # "success")}
StatsOf(t, f) == [s \in Scenarios |-> t[s][f]]

\* The totals lag behind by the calls in between.
Lags(t, n, c) ==
    /\ Total(StatsOf(t, "calls")) = n.calls + Cardinality(InBetween(c, "calls"))
    /\ Total(StatsOf(t, "failures")) = n.failures + Cardinality(InBetween(c, "failures"))

Emptied(f) == f = "last" \/ f = "ended"
StoreInv ==
    /\ {channel, batch, offered, late} \subseteq Nat
    /\ counts \in [dropped : Nat, written : Nat]
    /\ counts.dropped + counts.written + channel + batch = offered
    /\ IF Emptied(flusher) THEN channel = late ELSE late = 0
    /\ flusher = "ended" => batch = 0
    /\ flusher # "loop" => closing

AiInv == CallTypes /\ Lags(stats, totals, calls) /\ StoreInv

LEMMA ScenariosAre == IsFiniteSet(Scenarios) /\ IsFiniteSet(Requesters)
<1>1. IsFiniteSet(Records) /\ IsFiniteSet(Requesters)
  BY AiCallsAssumption
<1> DEFINE F == [r \in Records |-> Normalized(r).scenario]
<1>2. F \in Surjection(Records, Scenarios)
  BY DEF Scenarios, Surjection
<1> QED BY <1>1, <1>2, FS_Surjection

\* What is normalised and priced has an outcome, a scenario and its price.
LEMMA NotedIs ==
    ASSUME NEW r \in Records
    PROVE  Noted(ApplyPricing(Normalized(r)))
<1>1. r \in RecordRows
  BY AiCallsAssumption DEF RecordRows, Texts
<1>2. PICK n : n = Normalized(r)
  OBVIOUS
<1>3. n \in RecordRows /\ Given(n.outcome) /\ Given(n.scenario)
  <2>1. PICK o : o = IF r.outcome = "" THEN "failed" ELSE r.outcome
    OBVIOUS
  <2>5. PICK s : s = IF r.scenario = "" THEN "unspecified" ELSE r.scenario
    OBVIOUS
  <2>6. r.outcome \in Texts /\ r.scenario \in Texts
    BY <1>1 DEF RecordRows
  <2>2. Given(o) /\ Given(s) /\ o \in Texts /\ s \in Texts
    <3>1. Given(o) /\ o \in Texts
      <4>1. CASE r.outcome = ""
        BY <2>1, <4>1 DEF Given, Texts
      <4>2. CASE r.outcome # ""
        BY <2>1, <2>6, <4>2 DEF Given
      <4> QED BY <4>1, <4>2
    <3>2. Given(s) /\ s \in Texts
      <4>1. CASE r.scenario = ""
        BY <2>5, <4>1 DEF Given, Texts
      <4>2. CASE r.scenario # ""
        BY <2>5, <2>6, <4>2 DEF Given
      <4> QED BY <4>1, <4>2
    <3> QED BY <3>1, <3>2
  <2>3. n = [r EXCEPT !.outcome = o, !.scenario = s]
    BY <1>2, <2>1, <2>5 DEF Normalized
  <2>4. n \in RecordRows /\ n.outcome = o /\ n.scenario = s
    BY <1>1, <2>2, <2>3 DEF RecordRows
  <2> QED BY <2>2, <2>4
<1>4. n.scenario \in Scenarios
  BY <1>2 DEF Scenarios
<1>5. PICK p : p = ApplyPricing(n)
  OBVIOUS
<1>11. PICK x : x = IF n.cost = "" THEN "price" ELSE n.cost
  OBVIOUS
<1>6. x \in Texts /\ Given(x)
  <2>1. n.cost \in Texts
    BY <1>3 DEF RecordRows
  <2> QED
    <3>1. CASE n.cost = ""
      BY <1>11, <3>1 DEF Given, Texts
    <3>2. CASE n.cost # ""
      BY <1>11, <2>1, <3>2 DEF Given
    <3> QED BY <3>1, <3>2
<1>7. PICK b \in Nat : b = n.tokens
  BY <1>3 DEF RecordRows
<1>8. CASE b = 0
  <2>1. p = n /\ ~ Costs(p)
    <3>1. p = n
      BY <1>5, <1>7, <1>8 DEF ApplyPricing
    <3> QED BY <1>7, <1>8, <3>1, ~ (0 > 0) DEF Costs
  <2> QED BY <1>2, <1>3, <1>4, <1>5, <2>1 DEF Noted
<1>9. CASE b # 0 /\ n.model \notin prices \cup Known
  <2>1. p = [n EXCEPT !.priced = FALSE]
    BY <1>5, <1>7, <1>9 DEF ApplyPricing, LookupModelPrice
  <2>2. /\ p \in RecordRows /\ p.model = n.model /\ p.outcome = n.outcome
        /\ p.scenario = n.scenario
    BY <1>3, <2>1 DEF RecordRows
  <2>3. ~ Costs(p)
    BY <1>9, <2>2 DEF Costs
  <2> QED BY <1>2, <1>3, <1>4, <1>5, <2>2, <2>3 DEF Noted
<1>10. CASE b # 0 /\ n.model \in prices \cup Known
  <2>1. p = [n EXCEPT !.priced = TRUE, !.cost = x]
    BY <1>5, <1>7, <1>10, <1>11 DEF ApplyPricing, LookupModelPrice
  <2>2. /\ p \in RecordRows /\ p.priced = TRUE /\ p.cost = x /\ p.outcome = n.outcome
        /\ p.scenario = n.scenario
    BY <1>3, <1>6, <2>1 DEF RecordRows
  <2> QED BY <1>2, <1>3, <1>4, <1>5, <1>6, <2>2 DEF Noted
<1> QED BY <1>8, <1>9, <1>10

LEMMA AiStarts == AiInit => AiInv
<1> SUFFICES ASSUME AiInit PROVE AiInv
  OBVIOUS
<1>1. StoreInv
  BY DEF AiInit, StoreInv, Emptied
<1>2. NoCall \in CallRows /\ NoCall.at = "none"
  BY DEF NoCall, CallRows
<1>3. Zero \in Tallies /\ Zero.calls = 0 /\ Zero.failures = 0
  BY DEF Zero, Tallies
<1>4. calls \in [Requesters -> CallRows] /\ \A q \in Requesters : calls[q].at = "none"
  BY <1>2 DEF AiInit
<1>5. stats = [s \in Scenarios |-> Zero]
  BY DEF AiInit, Scenarios
<1>6. CallTypes
  BY <1>3, <1>4, <1>5 DEF AiInit, CallTypes
<1>7. Lags(stats, totals, calls)
  <2>1. InBetween(calls, "calls") = {} /\ InBetween(calls, "failures") = {}
    BY <1>4 DEF InBetween
  <2>2. Cardinality({}) = 0
    BY FS_EmptySet
  <2>3. ASSUME NEW f \in {"calls", "failures"} PROVE Total(StatsOf(stats, f)) = 0
    <3>1. StatsOf(stats, f) \in [Scenarios -> Int] /\ \A s \in Scenarios : StatsOf(stats, f)[s] = 0
      BY <1>3, <1>5 DEF StatsOf
    <3> HIDE DEF StatsOf
    <3> QED BY <3>1, ScenariosAre, TotalZero
  <2>4. totals.calls = 0 /\ totals.failures = 0
    BY <1>3 DEF AiInit
  <2> QED BY <2>1, <2>2, <2>3, <2>4 DEF Lags
<1> QED BY <1>1, <1>6, <1>7 DEF AiInv

\* A call that is in between neither before nor after disturbs no count.
LEMMA SameBetween ==
    ASSUME NEW c, NEW d, NEW q \in Requesters, c[q].at # "total", d[q].at # "total",
           \A p \in Requesters \ {q} : d[p] = c[p]
    PROVE  \A f : InBetween(d, f) = InBetween(c, f)
<1> SUFFICES ASSUME NEW f, NEW p \in Requesters
             PROVE  p \in InBetween(d, f) <=> p \in InBetween(c, f)
  BY DEF InBetween
<1> QED BY DEF InBetween

LEMMA BetweenIs ==
    ASSUME NEW c, NEW f
    PROVE  IsFiniteSet(InBetween(c, f)) /\ Cardinality(InBetween(c, f)) \in Nat
<1>1. InBetween(c, f) \subseteq Requesters
  BY DEF InBetween
<1> QED BY <1>1, ScenariosAre, FS_Subset, FS_CardinalityType

\* One call comes in between, counted as a failure only when it is one.
LEMMA OneBetween ==
    ASSUME NEW c, NEW d, NEW q \in Requesters, c[q].at # "total", d[q].at = "total",
           \A p \in Requesters \ {q} : d[p] = c[p]
    PROVE  /\ Cardinality(InBetween(d, "calls")) = Cardinality(InBetween(c, "calls")) + 1
           /\ Cardinality(InBetween(d, "failures")) =
                Cardinality(InBetween(c, "failures")) + Failed(d[q].rec)
<1>1. InBetween(d, "calls") = InBetween(c, "calls") \cup {q} /\ q \notin InBetween(c, "calls")
  BY DEF InBetween
<1>2. /\ d[q].rec.outcome # "success" =>
            InBetween(d, "failures") = InBetween(c, "failures") \cup {q}
      /\ d[q].rec.outcome = "success" => InBetween(d, "failures") = InBetween(c, "failures")
      /\ q \notin InBetween(c, "failures")
  BY DEF InBetween
<1>3. \A f : IsFiniteSet(InBetween(c, f)) /\ Cardinality(InBetween(c, f)) \in Nat
  BY BetweenIs
<1>4. Cardinality(InBetween(d, "calls")) = Cardinality(InBetween(c, "calls")) + 1
  BY <1>1, <1>3, FS_AddElement
<1>5. CASE d[q].rec.outcome = "success"
  BY <1>2, <1>3, <1>4, <1>5 DEF Failed
<1>6. CASE d[q].rec.outcome # "success"
  <2>1. Cardinality(InBetween(d, "failures")) = Cardinality(InBetween(c, "failures")) + 1
    BY <1>2, <1>3, <1>6, FS_AddElement
  <2> QED BY <1>4, <1>6, <2>1 DEF Failed
<1> QED BY <1>5, <1>6

LEMMA StatsAre ==
    ASSUME NEW t \in [Scenarios -> Tallies]
    PROVE  /\ StatsOf(t, "calls") \in [Scenarios -> Int]
           /\ StatsOf(t, "failures") \in [Scenarios -> Int]
           /\ \A s \in Scenarios : /\ StatsOf(t, "calls")[s] = t[s].calls
                                   /\ StatsOf(t, "failures")[s] = t[s].failures
BY DEF StatsOf, Tallies

\* One more in a scenario is one more in all.
LEMMA TallyOne ==
    ASSUME NEW t \in [Scenarios -> Tallies], NEW s \in Scenarios, NEW n \in {0, 1},
           NEW u \in [Scenarios -> Tallies], u[s].calls = t[s].calls + 1,
           u[s].failures = t[s].failures + n, \A x \in Scenarios \ {s} : u[x] = t[x]
    PROVE  /\ Total(StatsOf(u, "calls")) = Total(StatsOf(t, "calls")) + 1
           /\ Total(StatsOf(u, "failures")) = Total(StatsOf(t, "failures")) + n
           /\ Total(StatsOf(t, "calls")) \in Int /\ Total(StatsOf(t, "failures")) \in Int
<1>1. PICK k \in Nat, f \in Nat : k = t[s].calls /\ f = t[s].failures
  BY DEF Tallies
<1>4. u[s].calls = k + 1 /\ u[s].failures = f + n
  BY <1>1
<1>5. IsFiniteSet(Scenarios)
  BY ScenariosAre
<1> DEFINE F == StatsOf(t, "calls")   G == StatsOf(u, "calls")
           A == StatsOf(t, "failures")   B == StatsOf(u, "failures")
<1>6. /\ F \in [Scenarios -> Int] /\ G \in [Scenarios -> Int] /\ F[s] = k /\ G[s] = k + 1
      /\ \A x \in Scenarios \ {s} : G[x] = F[x]
      /\ A \in [Scenarios -> Int] /\ B \in [Scenarios -> Int] /\ A[s] = f /\ B[s] = f + n
      /\ \A x \in Scenarios \ {s} : B[x] = A[x]
  BY <1>1, <1>4, StatsAre
<1> HIDE DEF F, G, A, B
<1>7. Total(F) \in Int /\ Total(A) \in Int
  BY <1>5, <1>6, TotalType
<1>8. Total(G) = Total(F) - F[s] + G[s]
  BY ONLY <1>5, <1>6, s \in Scenarios, TotalChange
<1>9. Total(B) = Total(A) - A[s] + B[s]
  BY ONLY <1>5, <1>6, s \in Scenarios, TotalChange
<1>10. Total(G) = Total(F) + 1 /\ Total(B) = Total(A) + n
  BY <1>6, <1>7, <1>8, <1>9
<1> QED BY <1>4, <1>7, <1>10 DEF F, G, A, B

LEMMA CallKept ==
    ASSUME CallTypes, NEW q \in Requesters, NEW c \in CallRows,
           c.at # "none" => Noted(c.rec), calls' = [calls EXCEPT ![q] = c],
           observers' \in Nat, stats' \in [Scenarios -> Tallies], totals' \in Tallies
    PROVE  CallTypes' /\ calls'[q] = c /\ \A p \in Requesters \ {q} : calls'[p] = calls[p]
<1>1. /\ calls' \in [Requesters -> CallRows] /\ calls'[q] = c
      /\ \A p \in Requesters \ {q} : calls'[p] = calls[p]
  BY DEF CallTypes
<1>2. ASSUME NEW p \in Requesters, calls'[p].at # "none" PROVE Noted(calls'[p].rec)
  BY <1>1, <1>2 DEF CallTypes
<1> QED BY <1>1, <1>2 DEF CallTypes, Noted

LEMMA NothingCalled == NoCall \in CallRows /\ NoCall.at = "none"
BY DEF NoCall, CallRows

\* A call that is counted nowhere or everywhere.
LEMMA QuietCall ==
    ASSUME CallTypes, Lags(stats, totals, calls), NEW q \in Requesters, NEW c \in CallRows,
           c.at # "none" => Noted(c.rec), calls' = [calls EXCEPT ![q] = c],
           UNCHANGED <<observers, stats, totals>>, calls[q].at # "total", c.at # "total"
    PROVE  CallTypes' /\ Lags(stats', totals', calls')
<1>1. CallTypes' /\ calls'[q] = c /\ \A p \in Requesters \ {q} : calls'[p] = calls[p]
  <2>1. observers' \in Nat /\ stats' \in [Scenarios -> Tallies] /\ totals' \in Tallies
    BY DEF CallTypes
  <2> QED BY <2>1, CallKept
<1>2. \A f : InBetween(calls', f) = InBetween(calls, f)
  <2>1. calls'[q].at # "total" /\ \A p \in Requesters \ {q} : calls'[p] = calls[p]
    BY <1>1
  <2> QED BY ONLY <2>1, calls[q].at # "total", q \in Requesters, SameBetween
<1>3. Lags(stats, totals, calls')
  BY <1>2 DEF Lags
<1> QED BY <1>1, <1>3

LEMMA ObserveStep ==
    ASSUME CallTypes, Lags(stats, totals, calls), NEW q \in Requesters, NEW r \in Records,
           Observe(q, r)
    PROVE  CallTypes' /\ Lags(stats', totals', calls')
<1>1. PICK a : a = ApplyPricing(Normalized(r))
  OBVIOUS
<1>2. Noted(a)
  BY <1>1, NotedIs
<1>3. PICK c : c = [at |-> "stat", rec |-> a, left |-> 0]
  OBVIOUS
<1>4. c \in CallRows /\ c.at = "stat" /\ c.rec = a
  BY <1>2, <1>3 DEF CallRows, Noted
<1>5. /\ calls' = [calls EXCEPT ![q] = c] /\ UNCHANGED <<observers, stats, totals>>
      /\ calls[q].at = "none"
  BY <1>1, <1>3 DEF Observe
<1> QED BY <1>2, <1>4, <1>5, QuietCall

LEMMA ScenarioStep ==
    ASSUME CallTypes, Lags(stats, totals, calls), NEW q \in Requesters, AccumulateScenario(q)
    PROVE  CallTypes' /\ Lags(stats', totals', calls')
<1>1. PICK e \in CallRows : e = calls[q]
  BY DEF CallTypes
<1>2. e.at = "stat" /\ Noted(e.rec) /\ e.rec \in RecordRows /\ e.rec.scenario \in Scenarios
  BY <1>1 DEF AccumulateScenario, CallTypes, Noted
<1>3. PICK n \in {0, 1}, s \in Scenarios : n = Failed(e.rec) /\ s = e.rec.scenario
  BY <1>2 DEF Failed
<1>4. PICK c : c = [e EXCEPT !.at = "total"]
  OBVIOUS
<1>5. c \in CallRows /\ c.at = "total" /\ c.rec = e.rec
  BY <1>4 DEF CallRows
<1>6. /\ stats' = [stats EXCEPT ![s] = [calls |-> @.calls + 1, failures |-> @.failures + n]]
      /\ UNCHANGED <<observers, totals>>
  BY <1>1, <1>3 DEF AccumulateScenario, Failed
<1>7. calls' = [calls EXCEPT ![q] = c]
  BY <1>1, <1>4 DEF AccumulateScenario
<1>8. stats \in [Scenarios -> Tallies] /\ totals \in Tallies /\ observers \in Nat
  BY DEF CallTypes
<1>9. /\ stats' \in [Scenarios -> Tallies]
      /\ Total(StatsOf(stats', "calls")) = Total(StatsOf(stats, "calls")) + 1
      /\ Total(StatsOf(stats', "failures")) = Total(StatsOf(stats, "failures")) + n
  <2>1. PICK k \in Nat, f \in Nat : k = stats[s].calls /\ f = stats[s].failures
    BY <1>8 DEF Tallies
  <2>6. PICK t : t = [calls |-> k + 1, failures |-> f + n]
    OBVIOUS
  <2>2. t \in Tallies /\ t = [calls |-> k + 1, failures |-> f + n]
    <3>1. k + 1 \in Nat /\ f + n \in Nat
      OBVIOUS
    <3> QED BY <2>6, <3>1 DEF Tallies
  <2>3. stats' = [stats EXCEPT ![s] = t]
    BY <1>6, <2>1, <2>2
  <2>4. /\ stats' \in [Scenarios -> Tallies] /\ stats'[s] = t
        /\ \A x \in Scenarios \ {s} : stats'[x] = stats[x]
    BY <1>8, <2>2, <2>3
  <2>5. stats'[s].calls = stats[s].calls + 1 /\ stats'[s].failures = stats[s].failures + n
    BY <2>1, <2>2, <2>4
  <2> QED BY ONLY <1>8, <2>4, <2>5, n \in {0, 1}, s \in Scenarios, TallyOne
<1>10. CallTypes' /\ calls'[q] = c /\ \A p \in Requesters \ {q} : calls'[p] = calls[p]
  BY <1>2, <1>5, <1>6, <1>7, <1>8, <1>9, CallKept
<1>11. /\ Cardinality(InBetween(calls', "calls")) = Cardinality(InBetween(calls, "calls")) + 1
       /\ Cardinality(InBetween(calls', "failures")) =
            Cardinality(InBetween(calls, "failures")) + n
  <2>1. calls[q].at # "total" /\ calls'[q].at = "total" /\ Failed(calls'[q].rec) = n
    BY <1>1, <1>2, <1>3, <1>5, <1>10
  <2> QED BY <1>10, <2>1, OneBetween
<1>12. PICK a \in Nat, b \in Nat, u \in Nat, v \in Nat :
           /\ a = totals.calls /\ b = totals.failures
           /\ u = Cardinality(InBetween(calls, "calls"))
           /\ v = Cardinality(InBetween(calls, "failures"))
  BY <1>8, BetweenIs DEF Tallies
<1>13. /\ Total(StatsOf(stats, "calls")) = a + u
       /\ Total(StatsOf(stats, "failures")) = b + v
  BY <1>12 DEF Lags
<1>14. a + u + 1 = a + (u + 1) /\ b + v + n = b + (v + n)
  OBVIOUS
<1>15. Lags(stats', totals, calls')
  BY <1>9, <1>11, <1>12, <1>13, <1>14 DEF Lags
<1> QED BY <1>6, <1>10, <1>15

LEMMA TotalCallStep ==
    ASSUME CallTypes, Lags(stats, totals, calls), NEW q \in Requesters, AccumulateTotal(q)
    PROVE  CallTypes' /\ Lags(stats', totals', calls')
<1>1. PICK e \in CallRows : e = calls[q]
  BY DEF CallTypes
<1>2. e.at = "total" /\ Noted(e.rec)
  BY <1>1 DEF AccumulateTotal, CallTypes
<1>3. PICK n \in {0, 1} : n = Failed(e.rec)
  BY DEF Failed
<1>4. PICK c : c = [e EXCEPT !.at = "observers"]
  OBVIOUS
<1>5. c \in CallRows /\ c.at = "observers" /\ c.rec = e.rec
  BY <1>4 DEF CallRows
<1>8. stats \in [Scenarios -> Tallies] /\ totals \in Tallies /\ observers \in Nat
  BY DEF CallTypes
<1>12. PICK a \in Nat, b \in Nat : a = totals.calls /\ b = totals.failures
  BY <1>8 DEF Tallies
<1>6. /\ totals' = [calls |-> a + 1, failures |-> b + n]
      /\ UNCHANGED <<observers, stats>>
  BY <1>1, <1>3, <1>12 DEF AccumulateTotal, Failed
<1>7. calls' = [calls EXCEPT ![q] = c]
  BY <1>1, <1>4 DEF AccumulateTotal
<1>9. totals' \in Tallies /\ totals'.calls = a + 1 /\ totals'.failures = b + n
  BY <1>6 DEF Tallies
<1>10. CallTypes' /\ calls'[q] = c /\ \A p \in Requesters \ {q} : calls'[p] = calls[p]
  BY <1>2, <1>5, <1>6, <1>7, <1>8, <1>9, CallKept
<1>11. /\ Cardinality(InBetween(calls, "calls")) = Cardinality(InBetween(calls', "calls")) + 1
       /\ Cardinality(InBetween(calls, "failures")) =
            Cardinality(InBetween(calls', "failures")) + n
  <2>1. /\ calls'[q].at # "total" /\ calls[q].at = "total" /\ Failed(calls[q].rec) = n
        /\ \A p \in Requesters \ {q} : calls[p] = calls'[p]
    BY <1>1, <1>2, <1>3, <1>5, <1>10
  <2> QED BY ONLY <2>1, q \in Requesters, OneBetween
<1>13. PICK u \in Nat, v \in Nat :
           /\ u = Cardinality(InBetween(calls', "calls"))
           /\ v = Cardinality(InBetween(calls', "failures"))
  BY BetweenIs
<1>14. /\ Total(StatsOf(stats, "calls")) = a + (u + 1)
       /\ Total(StatsOf(stats, "failures")) = b + (v + n)
  BY <1>11, <1>12, <1>13 DEF Lags
<1>15. a + 1 + u = a + (u + 1) /\ b + n + v = b + (v + n)
  OBVIOUS
<1>16. Lags(stats, totals', calls')
  BY <1>9, <1>13, <1>14, <1>15 DEF Lags
<1> QED BY <1>6, <1>10, <1>16

LEMMA CopyStep ==
    ASSUME CallTypes, Lags(stats, totals, calls), NEW q \in Requesters, CopyObservers(q)
    PROVE  CallTypes' /\ Lags(stats', totals', calls')
<1>1. PICK e \in CallRows : e = calls[q]
  BY DEF CallTypes
<1>2. e.at = "observers" /\ Noted(e.rec)
  BY <1>1 DEF CopyObservers, CallTypes
<1>3. UNCHANGED <<observers, stats, totals>> /\ calls[q].at # "total"
  BY <1>1, <1>2 DEF CopyObservers
<1>4. CASE observers = 0
  <2>1. calls' = [calls EXCEPT ![q] = NoCall]
    BY <1>4 DEF CopyObservers
  <2> QED BY <1>3, <2>1, NothingCalled, QuietCall
<1>5. CASE observers # 0
  <2>1. PICK n \in Int : n = observers
    BY DEF CallTypes
  <2>2. PICK c : c = [e EXCEPT !.at = "offer", !.left = n]
    OBVIOUS
  <2>3. c \in CallRows /\ c.at = "offer" /\ c.rec = e.rec
    BY <2>2 DEF CallRows
  <2>4. calls' = [calls EXCEPT ![q] = c]
    BY <1>1, <1>5, <2>1, <2>2 DEF CopyObservers
  <2> QED BY <1>2, <1>3, <2>3, <2>4, QuietCall
<1> QED BY <1>4, <1>5

LEMMA OfferStep ==
    ASSUME CallTypes, Lags(stats, totals, calls), NEW q \in Requesters, StoreObserve(q)
    PROVE  CallTypes' /\ Lags(stats', totals', calls')
<1>1. PICK e \in CallRows : e = calls[q]
  BY DEF CallTypes
<1>2. e.at = "offer" /\ Noted(e.rec)
  BY <1>1 DEF StoreObserve, CallTypes
<1>3. UNCHANGED <<observers, stats, totals>> /\ calls[q].at # "total"
  BY <1>1, <1>2 DEF StoreObserve
<1>4. CASE e.left = 1
  <2>1. calls' = [calls EXCEPT ![q] = NoCall]
    BY <1>1, <1>4 DEF StoreObserve
  <2> QED BY <1>3, <2>1, NothingCalled, QuietCall
<1>5. CASE e.left # 1
  <2>1. PICK n : n = e.left - 1
    OBVIOUS
  <2>2. PICK c : c = [e EXCEPT !.left = n]
    OBVIOUS
  <2>3. c \in CallRows /\ c.at = "offer" /\ c.rec = e.rec
    BY <1>2, <2>1, <2>2 DEF CallRows
  <2>4. calls' = [calls EXCEPT ![q] = c]
    <3>1. calls' = [calls EXCEPT ![q] = IF calls[q].left = 1 THEN NoCall
                       ELSE [calls[q] EXCEPT !.left = calls[q].left - 1]]
      BY DEF StoreObserve
    <3> QED BY <1>1, <1>5, <2>1, <2>2, <3>1
  <2> QED BY <1>2, <1>3, <2>3, <2>4, QuietCall
<1> QED BY <1>4, <1>5

LEMMA CallsStutter ==
    ASSUME CallTypes, Lags(stats, totals, calls), UNCHANGED <<calls, stats, totals>>,
           observers' \in Nat
    PROVE  CallTypes' /\ Lags(stats', totals', calls')
BY DEF CallTypes, Noted, Lags

-----------------------------------------------------------------------------
LEMMA FlushIs ==
    ASSUME NEW d \in Nat, NEW w \in Nat, NEW b \in Nat,
           counts \in [dropped : Nat, written : Nat],
           d = counts.dropped, w = counts.written, b = batch, Flush
    PROVE  /\ counts' \in [dropped : Nat, written : Nat] /\ batch' = 0
           /\ counts'.dropped + counts'.written = d + w + b
<1>1. CASE counts' = [counts EXCEPT !.dropped = @ + batch]
  <2>1. counts' = [counts EXCEPT !.dropped = d + b]
    BY <1>1
  <2>2. counts'.dropped = d + b /\ counts'.written = w
    BY <2>1
  <2> QED BY <2>1, <2>2 DEF Flush
<1>2. CASE counts' = [counts EXCEPT !.written = @ + batch]
  <2>1. counts' = [counts EXCEPT !.written = w + b]
    BY <1>2
  <2>2. counts'.dropped = d /\ counts'.written = w + b
    BY <2>1
  <2> QED BY <2>1, <2>2 DEF Flush
<1> QED BY <1>1, <1>2 DEF Flush

LEMMA StoreOffered ==
    ASSUME StoreInv, NEW q \in Requesters, StoreObserve(q)
    PROVE  StoreInv'
<1>1. PICK d \in Nat, w \in Nat, b \in Nat, c \in Nat, n \in Nat, l \in Nat, k \in Nat :
          /\ d = counts.dropped /\ w = counts.written /\ b = batch /\ c = channel
          /\ n = offered /\ l = late /\ k = BufferCap
  BY AiCallsAssumption DEF StoreInv
<1>2. /\ d + w + c + b = n /\ offered' = n + 1 /\ batch' = b /\ flusher' = flusher
      /\ closing' = closing /\ (flusher = "ended" => b = 0) /\ (flusher # "loop" => closing)
      /\ counts \in [dropped : Nat, written : Nat]
  BY <1>1 DEF StoreInv, StoreObserve
<1>3. late' = IF Emptied(flusher) /\ c < k THEN l + 1 ELSE l
  BY <1>1 DEF StoreObserve, Emptied
<1>4. IF Emptied(flusher) THEN c = l ELSE l = 0
  BY <1>1 DEF StoreInv
<1>5. CASE c < k
  <2>1. channel' = c + 1 /\ counts' = counts
    BY <1>1, <1>5 DEF StoreObserve
  <2> QED BY <1>1, <1>2, <1>3, <1>4, <1>5, <2>1 DEF StoreInv
<1>6. CASE ~ (c < k)
  <2>1. channel' = c /\ counts' = [counts EXCEPT !.dropped = d + 1]
    BY <1>1, <1>6 DEF StoreObserve
  <2>2. /\ counts' \in [dropped : Nat, written : Nat]
        /\ counts'.dropped = d + 1 /\ counts'.written = w
    BY <1>1, <1>2, <2>1
  <2> QED BY <1>1, <1>2, <1>3, <1>4, <1>6, <2>1, <2>2 DEF StoreInv
<1> QED BY <1>5, <1>6

LEMMA StoreLoops ==
    ASSUME StoreInv, LoopTake \/ LoopFlush \/ LoopDrain \/ Drain \/ LastFlush
    PROVE  StoreInv'
<1>1. PICK d \in Nat, w \in Nat, b \in Nat, c \in Nat, n \in Nat, l \in Nat :
          /\ d = counts.dropped /\ w = counts.written /\ b = batch /\ c = channel
          /\ n = offered /\ l = late
  BY DEF StoreInv
<1>2. d + w + c + b = n /\ counts \in [dropped : Nat, written : Nat]
  BY <1>1 DEF StoreInv
<1>3. /\ IF Emptied(flusher) THEN c = l ELSE l = 0
      /\ flusher = "ended" => b = 0
      /\ flusher # "loop" => closing
  BY <1>1 DEF StoreInv
<1>4. CASE UNCHANGED counts /\ batch' = b + 1 /\ channel' = c - 1 /\ c > 0
           /\ UNCHANGED <<flusher, offered, late, closing>> /\ ~ Emptied(flusher)
  BY <1>1, <1>2, <1>3, <1>4 DEF StoreInv, Emptied
<1>5. CASE /\ Flush /\ UNCHANGED <<channel, offered, late, closing>>
           /\ \/ flusher' = flusher /\ ~ Emptied(flusher)
              \/ flusher' = "ended" /\ flusher = "last"
  <2>1. /\ counts' \in [dropped : Nat, written : Nat] /\ batch' = 0
        /\ counts'.dropped + counts'.written = d + w + b
    BY <1>1, <1>2, <1>5, FlushIs
  <2>2. PICK x \in Nat, y \in Nat : x = counts'.dropped /\ y = counts'.written
    BY <2>1
  <2>3. x + y + c + 0 = n
    <3>1. x + y = d + w + b /\ d + w + c + b = n
      BY <1>2, <2>1, <2>2
    <3> QED
      BY ONLY <3>1, x \in Nat, y \in Nat, c \in Nat, d \in Nat, w \in Nat, b \in Nat, n \in Nat
  <2> QED BY <1>1, <1>3, <1>5, <2>1, <2>2, <2>3 DEF StoreInv, Emptied
<1>6. CASE LoopTake
  BY <1>1, <1>4, <1>6 DEF LoopTake, Emptied
<1>7. CASE LoopFlush
  BY <1>1, <1>5, <1>7 DEF LoopFlush, Emptied
<1>8. CASE LoopDrain
  <2>1. UNCHANGED <<channel, batch, counts, offered, late, closing>> /\ flusher = "loop"
        /\ flusher' = "drain" /\ closing
    BY <1>8 DEF LoopDrain
  <2> QED BY <2>1 DEF StoreInv, Emptied
<1>9. CASE Drain
  <2>1. flusher = "drain" /\ UNCHANGED <<offered, late, counts, closing>>
    BY <1>9 DEF Drain
  <2>2. CASE /\ channel > 0 /\ batch' = batch + 1 /\ channel' = channel - 1
             /\ UNCHANGED flusher
    BY <1>1, <1>4, <2>1, <2>2 DEF Emptied
  <2>3. CASE ~ (channel > 0) /\ flusher' = "last" /\ UNCHANGED <<batch, channel>>
    <3>1. c = 0 /\ l = 0
      BY <1>1, <1>3, <2>1, <2>3 DEF Emptied
    <3> QED BY <1>1, <1>2, <1>3, <2>1, <2>3, <3>1 DEF StoreInv, Emptied
  <2> QED BY <1>9, <2>2, <2>3 DEF Drain
<1>10. CASE LastFlush
  BY <1>1, <1>5, <1>10 DEF LastFlush
<1> QED BY <1>6, <1>7, <1>8, <1>9, <1>10

LEMMA StoreStutters ==
    ASSUME StoreInv, UNCHANGED <<channel, batch, flusher, counts, offered, late>>,
           closing => closing'
    PROVE  StoreInv'
BY DEF StoreInv

-----------------------------------------------------------------------------
LEMMA AiStep == AiInv /\ AiNext => AiInv'
<1> SUFFICES ASSUME AiInv, AiNext PROVE AiInv'
  OBVIOUS
<1>1. CallTypes /\ Lags(stats, totals, calls) /\ StoreInv
  BY DEF AiInv
<1>2. ASSUME NEW q \in Requesters,
             (\E r \in Records : Observe(q, r)) \/ AccumulateScenario(q) \/ AccumulateTotal(q)
                \/ CopyObservers(q)
      PROVE  AiInv'
  <2>1. UNCHANGED storeVars
    BY <1>2 DEF Observe, AccumulateScenario, AccumulateTotal, CopyObservers
  <2>2. StoreInv'
    BY <1>1, <2>1, StoreStutters DEF storeVars
  <2>3. CallTypes' /\ Lags(stats', totals', calls')
    BY <1>1, <1>2, ObserveStep, ScenarioStep, TotalCallStep, CopyStep
  <2> QED BY <2>2, <2>3 DEF AiInv
<1>3. ASSUME NEW q \in Requesters, StoreObserve(q) PROVE AiInv'
  <2>1. StoreInv'
    BY <1>1, <1>3, StoreOffered
  <2>2. CallTypes' /\ Lags(stats', totals', calls')
    BY <1>1, <1>3, OfferStep
  <2> QED BY <2>1, <2>2 DEF AiInv
<1>4. CASE (\E m \in Models : SetModelPrices(m)) \/ RegisterObserver
  <2>1. UNCHANGED <<calls, stats, totals>> /\ UNCHANGED storeVars /\ observers' \in Nat
    BY <1>1, <1>4 DEF SetModelPrices, RegisterObserver, CallTypes
  <2>2. StoreInv'
    BY <1>1, <2>1, StoreStutters DEF storeVars
  <2>3. CallTypes' /\ Lags(stats', totals', calls')
    BY <1>1, <2>1, CallsStutter
  <2> QED BY <2>2, <2>3 DEF AiInv
<1>5. CASE LoopTake \/ LoopFlush \/ LoopDrain \/ Drain \/ LastFlush \/ CloseCheck \/ CloseChannel
  <2>1. UNCHANGED callVars
    BY <1>5 DEF LoopTake, LoopFlush, LoopDrain, Drain, LastFlush, CloseCheck, CloseChannel
  <2>2. CallTypes' /\ Lags(stats', totals', calls')
    <3>1. UNCHANGED <<calls, stats, totals>> /\ observers' \in Nat
      BY <1>1, <2>1 DEF callVars, CallTypes
    <3> QED BY <1>1, <3>1, CallsStutter
  <2>3. StoreInv'
    <3>1. CASE CloseCheck \/ CloseChannel
      <4>1. UNCHANGED <<channel, batch, flusher, counts, offered, late>>
            /\ (closing => closing')
        BY <3>1 DEF CloseCheck, CloseChannel
      <4> QED BY <1>1, <4>1, StoreStutters
    <3> QED BY <1>1, <1>5, <3>1, StoreLoops
  <2> QED BY <2>2, <2>3 DEF AiInv
<1> QED BY <1>2, <1>3, <1>4, <1>5 DEF AiNext

LEMMA AiStutters == AiInv /\ UNCHANGED aiVars => AiInv'
<1> SUFFICES ASSUME AiInv, UNCHANGED aiVars PROVE AiInv'
  OBVIOUS
<1>1. UNCHANGED <<calls, stats, totals>> /\ observers' \in Nat
  BY DEF aiVars, callVars, AiInv, CallTypes
<1>2. UNCHANGED <<channel, batch, flusher, counts, offered, late, closing>>
  BY DEF aiVars, storeVars
<1> QED BY <1>1, <1>2, CallsStutter, StoreStutters DEF AiInv

\* The sum of the specification is that of the proof.
LEMMA StatsSum ==
    ASSUME NEW t \in [Scenarios -> Tallies], NEW f \in {"calls", "failures"}
    PROVE  MapThenSumSet(LAMBDA s : t[s][f], DOMAIN t) = Total(StatsOf(t, f))
<1> DEFINE F == StatsOf(t, f)
           Eq(iter) == iter = [x \in SUBSET Scenarios |-> IF x = {} THEN 0
                          ELSE t[CHOOSE y \in x : TRUE][f] + iter[x \ {CHOOSE y \in x : TRUE}]]
           g == CHOOSE iter : Eq(iter)
<1>0. DOMAIN t = Scenarios
  OBVIOUS
<1>1. MapThenSumSet(LAMBDA s : t[s][f], Scenarios) = g[Scenarios]
  BY Zenon DEF MapThenSumSet, MapThenFoldSet
<1>2. F \in [Scenarios -> Int] /\ \A s \in Scenarios : F[s] = t[s][f]
  BY StatsAre DEF StatsOf, Tallies
<1> HIDE DEF F
<1>3. \A h : Adds(h, F, Scenarios) <=> Eq(h)
  BY <1>2, PickIn DEF Adds, Pick
<1>4. Adds(g, F, Scenarios)
  <2> HIDE DEF Eq
  <2>1. \E h : Eq(h)
    BY <1>3, ScenariosAre, SumsExist
  <2> QED BY <2>1, <1>3
<1> HIDE DEF g
<1>5. Total(F) = g[Scenarios]
  BY <1>2, <1>4, ScenariosAre, TotalOf
<1> QED BY <1>0, <1>1, <1>5 DEF F

LEMMA AiCallsAreRight == AiInv => AiCallsHold
<1> SUFFICES ASSUME AiInv PROVE AiCallsHold
  OBVIOUS
<1>1. CallTypes /\ Lags(stats, totals, calls) /\ StoreInv
  BY DEF AiInv
<1>2. /\ counts.dropped + counts.written + channel + batch = offered
      /\ flusher \in {"last", "ended"} => closing /\ channel = late
      /\ flusher = "ended" => batch = 0
  BY <1>1 DEF StoreInv, Emptied
<1>3. ASSUME NEW f \in {"calls", "failures"}
      PROVE  MapThenSumSet(LAMBDA s : stats[s][f], DOMAIN stats) = totals[f] + Between(f)
  <2>1. stats \in [Scenarios -> Tallies]
    BY <1>1 DEF CallTypes
  <2>2. MapThenSumSet(LAMBDA s : stats[s][f], DOMAIN stats) = Total(StatsOf(stats, f))
    BY <2>1, StatsSum
  <2>3. Between(f) = Cardinality(InBetween(calls, f))
    BY DEF Between, InBetween
  <2>4. Total(StatsOf(stats, f)) = totals[f] + Between(f)
    BY <1>1, <2>3 DEF Lags
  <2> QED BY <2>2, <2>4
<1>4. ASSUME NEW q \in Requesters, calls[q].at # "none"
      PROVE  LET r == calls[q].rec IN
             /\ r.tokens > 0 /\ r.model \in Known => r.priced /\ r.cost # ""
             /\ r.outcome # "" /\ r.scenario # ""
  <2>1. Noted(calls[q].rec)
    BY <1>1, <1>4 DEF CallTypes
  <2> QED BY <2>1, Zenon DEF Noted, Given, Costs
<1> QED BY <1>2, <1>3, <1>4, Zenon DEF AiCallsHold

-----------------------------------------------------------------------------
(* The parts together *)

IdentityInv ==
    /\ part = "accounts" => AccInv
    /\ part \in {"members", "apps", "rates"} => GuardInv
    /\ part = "requests" => RequestInv

LEMMA IdentityStarts == Init => IdentityInv
<1> SUFFICES ASSUME Init PROVE IdentityInv
  OBVIOUS
<1>1. AccInv
  BY AccountsStart DEF Init
<1>2. GuardInv
  BY GuardsStart DEF Init
<1>3. part = "requests" => RequestInv
  BY RequestsStart DEF Init
<1> QED BY <1>1, <1>2, <1>3 DEF IdentityInv

\* A step belongs to one part and leaves the others alone.
LEMMA IdentityStep == IdentityInv /\ [Next]_everything => IdentityInv'
<1> SUFFICES ASSUME IdentityInv, [Next]_everything PROVE IdentityInv'
  OBVIOUS
<1>1. UNCHANGED part
  BY DEF Next, everything
<1>2. CASE part = "accounts"
  <2>1. AccInv
    BY <1>2 DEF IdentityInv
  <2>2. CASE UNCHANGED everything
    BY <1>1, <1>2, <2>1, <2>2, AccountStutters DEF IdentityInv, everything
  <2>3. CASE Next
    <3>1. AccountNext
      BY <1>2, <2>3 DEF Next
    <3> QED BY <1>1, <1>2, <2>1, <3>1, AccountStep DEF IdentityInv
  <2> QED BY <2>2, <2>3
<1>3. CASE part \in {"members", "apps", "rates"}
  <2>1. GuardInv
    BY <1>3 DEF IdentityInv
  <2>2. CASE UNCHANGED everything
    <3>1. UNCHANGED guardVars
      BY <2>2 DEF everything
    <3> QED BY <1>1, <1>3, <2>1, <3>1, GuardStutters DEF IdentityInv
  <2>3. CASE Next
    <3>1. \/ MemberNext /\ UNCHANGED <<appVars, rateVars>>
          \/ AppNext /\ UNCHANGED <<memberVars, rateVars>>
          \/ RateNext /\ UNCHANGED <<memberVars, appVars>>
      BY <1>3, <2>3 DEF Next
    <3> QED BY <1>1, <1>3, <2>1, <3>1, GuardStep DEF IdentityInv
  <2> QED BY <2>2, <2>3
<1>4. CASE part = "requests"
  <2>1. RequestInv
    BY <1>4 DEF IdentityInv
  <2>2. CASE UNCHANGED everything
    <3>1. UNCHANGED requestVars
      BY <2>2 DEF everything
    <3> QED BY <1>1, <1>4, <2>1, <3>1, RequestStutters DEF IdentityInv
  <2>3. CASE Next
    <3>1. RequestsNext
      BY <1>4, <2>3 DEF Next
    <3> QED BY <1>1, <1>4, <2>1, <3>1, RequestStep DEF IdentityInv
  <2> QED BY <2>2, <2>3
<1> QED BY <1>1, <1>2, <1>3, <1>4 DEF IdentityInv

\* Whatever the number of processes, people, tokens and filters: an account is
\* found again, and a session is for an account of what was shown unless another
\* login has written over its phone since; the guards remember nothing for longer
\* than they may, and a request is handled for the identity that its filters have
\* established (identity/login.go, middleware/http.go).
THEOREM IdentityIsKept == Spec => []IdentityHolds
<1>1. IdentityInv => IdentityHolds
  BY AccountsAreRight, GuardsAreRight, RequestsAreRight DEF IdentityInv, IdentityHolds
<1> QED BY <1>1, IdentityStarts, IdentityStep, PTL DEF Spec

BackgroundInv ==
    /\ part = "hub" => HubInv
    /\ part = "worker" => DispatcherInv
    /\ part = "calls" => AiInv

LEMMA BackgroundStarts == Init => BackgroundInv
BY HubStarts, DispatcherStarts, AiStarts DEF Init, BackgroundInv

LEMMA BackgroundStep == BackgroundInv /\ [Next]_everything => BackgroundInv'
<1> SUFFICES ASSUME BackgroundInv, [Next]_everything PROVE BackgroundInv'
  OBVIOUS
<1>1. UNCHANGED part
  BY DEF Next, everything
<1>2. CASE part = "hub"
  <2>1. HubInv
    BY <1>2 DEF BackgroundInv
  <2>2. HubNext \/ UNCHANGED hubVars
    BY <1>2 DEF Next, everything
  <2> QED BY <1>1, <1>2, <2>1, <2>2, HubStep, HubStutters DEF BackgroundInv
<1>3. CASE part = "worker"
  <2>1. DispatcherInv
    BY <1>3 DEF BackgroundInv
  <2>2. DispatcherNext \/ UNCHANGED workerVars
    BY <1>3 DEF Next, everything
  <2> QED BY <1>1, <1>3, <2>1, <2>2, DispatcherStep, DispatcherStutters DEF BackgroundInv
<1>4. CASE part = "calls"
  <2>1. AiInv
    BY <1>4 DEF BackgroundInv
  <2>2. AiNext \/ UNCHANGED aiVars
    BY <1>4 DEF Next, everything
  <2> QED BY <1>1, <1>4, <2>1, <2>2, AiStep, AiStutters DEF BackgroundInv
<1> QED BY <1>1, <1>2, <1>3, <1>4 DEF BackgroundInv

\* Whatever the number of streams, users, publishers, requesters and models: an
\* open stream gets each event of its user once, up to a full buffer, and a
\* closed one is offered nothing; the dispatcher's loop raises its alarm when it
\* should; each record of a model call is in the store's buffer or batch or was
\* counted once, and what the loop leaves in the buffer came after it had found
\* that empty (events/hub.go, event/worker.go, aiobs/store.go).
THEOREM BackgroundIsKept == Spec => []BackgroundHolds
<1>1. BackgroundInv => BackgroundHolds
  BY HubIsRight, DispatcherIsRight, AiCallsAreRight DEF BackgroundInv, BackgroundHolds
<1> QED BY <1>1, BackgroundStarts, BackgroundStep, PTL DEF Spec
=============================================================================
