------------------------------- MODULE Sessions -------------------------------
(***************************************************************************)
(* src/auth/session.go: server-side sessions in one of three stores, and   *)
(* src/sms: verification codes, sent at most once in an interval and used  *)
(* once.                                                                   *)
(***************************************************************************)
EXTENDS Cache

CONSTANTS
    SessionStores,         \* what SetCache was given: "redis" (default), "cache", "memory"
    Tokens, CodePhones,
    SessionTTL, CodeTTL, SendInterval,
    MaxCodes        \* bound: codes generated

ASSUME SessionsAssumption ==
    /\ SessionStores \subseteq {"redis", "cache", "memory"}
    /\ {SessionTTL, CodeTTL, SendInterval} \subseteq Nat \ {0}
    /\ \A t \in Tokens : <<"session", t>> \in Keys
    /\ \A p \in CodePhones : {<<"code", p>>, <<"rate", p>>} \subseteq Keys
    /\ Absent \notin Nat \cup {"session", "1"} /\ MaxCodes \in Nat /\ IsFiniteSet(Users)

VARIABLES
    store,      \* the session store
    memory,     \* the data of a MemoryStore
    session,    \* session[t]: its expiry, and whether a revocation was answered
    enabled,    \* EnabledWithConfig of the configuration that is used
    sms,        \* sms[c]: a SendCode or VerifyCode in progress
    nextCode,
    sends,      \* codes handed to the gateway: phone, time
    blind,      \* a rate mark could not be read or written
    stored,     \* stored[p]: when the latest code of a phone was stored (history)
    uses,       \* uses[n]: successful verifications of code n
    overdue     \* codes accepted that were too old when looked up (history)

smsVars == <<enabled, sms, nextCode, sends, blind, stored, uses, overdue>>
sessVars == <<store, memory, session>>

Ready == [at |-> "ready", phone |-> Absent, code |-> 0, right |-> FALSE, old |-> FALSE]
Development == 0    \* the code 000000; those that are generated count from 1

SessInit ==
    /\ store \in SessionStores
    /\ memory = [t \in Tokens |-> 0]
    /\ session = [t \in Tokens |-> [until |-> 0, revoked |-> FALSE, lost |-> FALSE]]
    /\ enabled \in BOOLEAN
    /\ sms = [c \in Users |-> Ready] /\ nextCode = 1 /\ sends = {} /\ blind = FALSE
    /\ stored = [p \in CodePhones |-> 0]
    /\ uses = [n \in 0..MaxCodes |-> 0] /\ overdue = {}

\* redisSessionStore asks for a Redis client, cacheSessionStore for any backend.
StoreAnswers == CASE store = "redis"  -> backend = "redis" /\ up
                  [] store = "cache"  -> Answers
                  [] store = "memory" -> TRUE

Key(t) == <<"session", t>>      \* sessionCacheKey
GetSession(t) == IF store = "memory" THEN memory[t] # 0 /\ clock <= memory[t] ELSE Holds(Key(t))

\* StoreSession of a fresh token; TTL is what is left until it expires.
StoreSession(t) ==
    /\ session[t].until = 0 /\ StoreAnswers
    /\ session' = [session EXCEPT ![t].until = clock + SessionTTL]
    /\ IF store = "memory"
       THEN memory' = [memory EXCEPT ![t] = clock + SessionTTL] /\ UNCHANGED kv
       ELSE Set(Key(t), "session", SessionTTL) /\ UNCHANGED memory
    /\ UNCHANGED <<store, backend, up, clock, listVars, smsVars>>

\* ResolveSession: invalid for a miss or an expired session, an error when
\* the store is in trouble.
ResolveSession(t) ==
    IF ~StoreAnswers THEN "error"
    ELSE IF ~GetSession(t) \/ session[t].until <= clock THEN "invalid"
    ELSE "ok"

\* RevokeSession: the answer to a deletion may be lost.
RevokeSession(t) ==
    /\ session[t].until # 0 /\ StoreAnswers
    /\ \E answered \in BOOLEAN :
        session' = [session EXCEPT ![t].revoked = @ \/ answered, ![t].lost = TRUE]
    /\ IF store = "memory" THEN memory' = [memory EXCEPT ![t] = 0] /\ UNCHANGED kv
       ELSE Del(Key(t)) /\ UNCHANGED memory
    /\ UNCHANGED <<store, backend, up, clock, listVars, smsVars>>

\* GetJSON deletes a value it cannot read, such as one of another release.
Garbled(t) ==
    /\ store # "memory" /\ Holds(Key(t)) /\ StoreAnswers
    /\ Del(Key(t))
    /\ session' = [session EXCEPT ![t].lost = TRUE]
    /\ UNCHANGED <<store, memory, backend, up, clock, listVars, smsVars>>

\* The process restarts; only the memory of the process is lost.
Restart ==
    /\ memory' = [t \in Tokens |-> 0]
    /\ UNCHANGED <<store, session, kvVars, listVars, smsVars>>

SessionNext ==
    \/ (Tick \/ Outage) /\ UNCHANGED <<sessVars, smsVars>>
    \/ Restart
    \/ \E t \in Tokens : StoreSession(t) \/ RevokeSession(t) \/ Garbled(t)

-----------------------------------------------------------------------------
Code(p) == <<"code", p>>
Rate(p) == <<"rate", p>>
To(c, r) == sms' = [sms EXCEPT ![c] = r]

\* SendCode: the mark is looked up; any answer but a value lets it through.
SendStart(c, p) ==
    /\ sms[c].at = "ready" /\ nextCode <= MaxCodes
    /\ Get(Rate(p)) \in {"miss", "error"}
    /\ nextCode' = nextCode + 1
    /\ To(c, [Ready EXCEPT !.at = "send", !.phone = p, !.code = nextCode])
    /\ blind' = (blind \/ Get(Rate(p)) = "error")
    /\ UNCHANGED <<cacheVars, sessVars, enabled, sends, stored, uses, overdue>>

\* The gateway takes the message, or refuses it in its body or by an error;
\* without a usable configuration nothing is sent and all goes on.
SendTemplate(c) ==
    /\ sms[c].at = "send"
    /\ \/ /\ To(c, [sms[c] EXCEPT !.at = "store"])
          /\ sends' = sends \cup {[phone |-> sms[c].phone, at |-> clock, code |-> sms[c].code]}
       \/ enabled /\ To(c, Ready) /\ UNCHANGED sends
    /\ UNCHANGED <<cacheVars, sessVars, enabled, nextCode, blind, stored, uses, overdue>>

StoreCode(c) ==
    /\ sms[c].at = "store"
    /\ IF Answers THEN /\ Set(Code(sms[c].phone), sms[c].code, CodeTTL)
                       /\ stored' = [stored EXCEPT ![sms[c].phone] = clock]
                       /\ To(c, [sms[c] EXCEPT !.at = "mark"])
                  ELSE To(c, Ready) /\ UNCHANGED <<kv, stored>>
    /\ blind' = (blind \/ ~Answers)
    /\ UNCHANGED <<backend, up, clock, listVars, sessVars, enabled, nextCode, sends, uses,
                   overdue>>

MarkRate(c) ==
    /\ sms[c].at = "mark"
    /\ IF Answers THEN Set(Rate(sms[c].phone), "1", SendInterval) ELSE UNCHANGED kv
    /\ blind' = (blind \/ ~Answers)
    /\ To(c, Ready)
    /\ UNCHANGED <<backend, up, clock, listVars, sessVars, enabled, nextCode, sends, stored, uses,
                   overdue>>

\* A verification of code n ends that looked it up when it was old or not.
Verified(n, right, old) ==
    IF right THEN /\ uses' = [uses EXCEPT ![n] = @ + 1]
                  /\ overdue' = IF old THEN overdue \cup {n} ELSE overdue
    ELSE UNCHANGED <<uses, overdue>>

\* Without a usable configuration 000000 is accepted and nothing is looked up;
\* bound: once.
VerifyDevelopment ==
    /\ ~enabled /\ uses[Development] = 0
    /\ Verified(Development, TRUE, FALSE)
    /\ UNCHANGED <<cacheVars, sessVars, enabled, sms, nextCode, sends, blind, stored>>

\* VerifyCode takes the code out of the cache, right or wrong: Redis in one
\* command, Redka with a read and a deletion.
VerifyCode(c, p, right) ==
    LET code == kv[Code(p)].val
        old  == clock - stored[p] >= CodeTTL IN
    /\ sms[c].at = "ready" /\ Answers /\ Holds(Code(p))
    /\ IF backend = "redis"
       THEN Del(Code(p)) /\ Verified(code, right, old) /\ UNCHANGED sms
       ELSE /\ To(c, [at |-> "delete", phone |-> p, code |-> code, right |-> right, old |-> old])
            /\ UNCHANGED <<kv, uses, overdue>>
    /\ UNCHANGED <<backend, up, clock, listVars, sessVars, enabled, nextCode, sends, blind,
                   stored>>

\* Mutant: the value that was read is not deleted.
KeepCode(c) ==
    /\ sms[c].at = "delete" /\ To(c, Ready)
    /\ Verified(sms[c].code, sms[c].right, sms[c].old)
    /\ UNCHANGED <<cacheVars, sessVars, enabled, nextCode, sends, blind, stored>>

DeleteCode(c) ==
    /\ sms[c].at = "delete" /\ To(c, Ready)
    /\ IF up THEN Del(Code(sms[c].phone)) /\ Verified(sms[c].code, sms[c].right, sms[c].old)
             ELSE UNCHANGED <<kv, uses, overdue>>
    /\ UNCHANGED <<backend, up, clock, listVars, sessVars, enabled, nextCode, sends, blind,
                   stored>>

CodeNext ==
    \/ (Tick \/ Outage) /\ UNCHANGED <<sessVars, smsVars>>
    \/ VerifyDevelopment
    \/ \E c \in Users :
        \/ SendTemplate(c) \/ StoreCode(c) \/ MarkRate(c) \/ DeleteCode(c)
        \/ \E p \in CodePhones : SendStart(c, p) \/ \E right \in BOOLEAN : VerifyCode(c, p, right)

-----------------------------------------------------------------------------
\* A token resolves only while its session is valid and not revoked, and a
\* valid one resolves whenever the store answers: a restart loses only the
\* sessions of a MemoryStore (src/auth/session.go:105).
SessionsHold ==
    \A t \in Tokens :
        LET s == session[t] IN
        /\ ResolveSession(t) = "ok" => clock < s.until /\ ~s.revoked
        /\ store # "memory" /\ StoreAnswers /\ clock < s.until /\ ~s.lost
             => ResolveSession(t) = "ok"

\* The code of a request that is under way.
Underway == {sms[c].code : c \in {d \in Users : sms[d].at \in {"store", "mark"}}}

\* A code is accepted when it was sent, within its time to live (looked up, the
\* deletion may come later), and not a second time: once accepted it is not
\* found again, so that only verifications that had read it before, where Redka
\* keeps it, can accept it too (src/sms/sms.go:146, cache/cache.go:151).  The
\* development code is accepted only where no message can be sent.  A phone
\* that got a message within the interval is marked as soon as that request has
\* ended, unless a mark could not be read or written: only requests that
\* overlapped it send another (sms.go:68, 77).
CodesHold ==
    /\ \A n \in 1..MaxCodes : uses[n] > 0 =>
        /\ \E s \in sends : s.code = n
        /\ \A p \in CodePhones : kv[Code(p)].val # n
        /\ backend = "redis" => uses[n] = 1
    /\ overdue = {} /\ (uses[Development] > 0 => ~enabled)
    /\ blind \/ \A s \in sends :
        s.at > clock - SendInterval /\ s.code \notin Underway => Holds(Rate(s.phone))
=============================================================================
