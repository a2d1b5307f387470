----------------------------- MODULE WechatApi -----------------------------
(***************************************************************************)
(* src/wechat/client.go: the access token that every process of an app     *)
(* shares through the cache, and the calls made with it.  The platform     *)
(* gives out tokens; a new one supersedes the former after an overlap.     *)
(* Times are in units of the 10 minutes accessTokenTTL keeps back.         *)
(***************************************************************************)
EXTENDS Integers, Sequences, FiniteSets

CONSTANTS
    ApiCallers,     \* goroutines of the app's processes
    Lives,          \* expires_in as the platform answers it
    RefreshWindow,  \* 600 s
    ShortTtl,       \* 100 minutes
    Overlap,        \* how long a superseded token still works
    PhoneAuths, LoginCodes, \* codes of phone authorisations and of logins
    MaxTokens,      \* bound: tokens given out
    MaxMessages,    \* bound: messages sent
    MaxTick         \* bound: the clock

ASSUME ApiAssumption == Lives \subseteq Nat /\ {RefreshWindow, ShortTtl, MaxTokens} \subseteq Nat

VARIABLES
    given,          \* the platform's tokens: life and the time each ends
    kept,           \* the cache: a token and its expiry
    asking,         \* asking[c]: the call in progress
    exchanged,      \* codes the platform has exchanged
    learnt,         \* learnt[c]: codes for which a caller was told a number or an account
    messages,       \* what the platform has sent, and what callers were told was sent
    tick,
    overtaken       \* the last token was not stored, or an older one after it

apiVars == <<given, kept, asking, exchanged, learnt, messages, tick, overtaken>>

NotAsking == [at |-> "idle", op |-> "none", token |-> 0]

ApiTypeOK ==
    /\ Len(given) <= MaxTokens
    /\ kept.token \in 0..Len(given) /\ kept.until \in Nat
    /\ \A c \in ApiCallers : asking[c].token \in 0..Len(given)
    /\ exchanged \subseteq PhoneAuths \cup LoginCodes
    /\ learnt \in [ApiCallers -> SUBSET (PhoneAuths \cup LoginCodes)]

ApiInit ==
    /\ given = <<>> /\ kept = [token |-> 0, until |-> 0]
    /\ asking = [c \in ApiCallers |-> NotAsking]
    /\ exchanged = {} /\ learnt = [c \in ApiCallers |-> {}]
    /\ messages = [sent |-> 0, told |-> 0]
    /\ tick = 0 /\ overtaken = FALSE

\* Mutant: the cache keeps a token to its last second, and beyond.
TtlAsGiven(expiresIn) == expiresIn + RefreshWindow

AccessTokenTTL(expiresIn) ==
    IF expiresIn <= RefreshWindow THEN ShortTtl ELSE expiresIn - RefreshWindow

\* What the platform lets through.
Works(token) ==
    /\ token # 0 /\ tick < given[token].ends
    /\ token < Len(given) => tick < given[token + 1].since + Overlap

-----------------------------------------------------------------------------
Hit == kept.token # 0 /\ tick < kept.until

\* AccessToken begins with the cache, which may fail to answer.
Ask(c, op) ==
    /\ asking[c] = NotAsking
    /\ \/ Hit /\ asking' = [asking EXCEPT ![c] = [at |-> "call", op |-> op, token |-> kept.token]]
       \/ asking' = [asking EXCEPT ![c] = [at |-> "fetch", op |-> op, token |-> 0]]
    /\ UNCHANGED <<given, kept, exchanged, learnt, messages, tick, overtaken>>

GiveOut(life) == given' = Append(given, [life |-> life, since |-> tick, ends |-> tick + life])

Fetch(c, life) ==
    /\ asking[c].at = "fetch" /\ Len(given) < MaxTokens
    /\ GiveOut(life)
    /\ asking' = [asking EXCEPT ![c].at = "store", ![c].token = Len(given) + 1]
    /\ UNCHANGED <<kept, exchanged, learnt, messages, tick, overtaken>>

\* The request fails, or its answer is lost after a token was given out.
FetchFails(c) ==
    /\ asking[c].at = "fetch"
    /\ \/ UNCHANGED <<given, overtaken>>
       \/ /\ Len(given) < MaxTokens
          /\ \E life \in Lives : GiveOut(life)
          /\ overtaken' = TRUE
    /\ asking' = [asking EXCEPT ![c] = NotAsking]
    /\ UNCHANGED <<kept, exchanged, learnt, messages, tick>>

\* The error of cache.Set is ignored.
Store(c) ==
    /\ asking[c].at = "store"
    /\ LET token == asking[c].token
       IN  \/ /\ kept' = [token |-> token, until |-> tick + AccessTokenTTL(given[token].life)]
              /\ overtaken' = (token < Len(given))
           \/ UNCHANGED kept /\ overtaken' = TRUE
    /\ asking' = [asking EXCEPT ![c].at = "call"]
    /\ UNCHANGED <<given, exchanged, learnt, messages, tick>>

FinishCall(c) ==
    /\ asking' = [asking EXCEPT ![c] = NotAsking]
    /\ UNCHANGED <<given, kept, tick, overtaken>>

Sent(c) == asking[c].at = "call" /\ asking[c].op = "message"

\* SendSubscribeMessage: an error code for a token that does not work, and no
\* other token is fetched; the answer may be lost.
SendSubscribeMessage(c) ==
    /\ Sent(c)
    /\ IF Works(asking[c].token)
       THEN \/ messages' = [sent |-> messages.sent + 1, told |-> messages.told + 1]
            \/ messages' = [messages EXCEPT !.sent = @ + 1]
       ELSE UNCHANGED messages
    /\ FinishCall(c) /\ UNCHANGED <<exchanged, learnt>>

\* A code is exchanged once, whether or not the answer arrives.
Exchange(c, code) ==
    IF code \in exchanged THEN UNCHANGED <<exchanged, learnt>>
    ELSE /\ exchanged' = exchanged \cup {code}
         /\ learnt' \in {learnt, [learnt EXCEPT ![c] = @ \cup {code}]}

\* getPhoneNumber
FetchPhoneNumber(c, code) ==
    /\ asking[c].at = "call" /\ asking[c].op = "phone"
    /\ IF Works(asking[c].token) THEN Exchange(c, code) ELSE UNCHANGED <<exchanged, learnt>>
    /\ FinishCall(c) /\ UNCHANGED messages

\* Session needs no token: it sends the secret of the app.
Session(c, code) ==
    /\ asking[c] = NotAsking
    /\ Exchange(c, code)
    /\ UNCHANGED <<given, kept, asking, messages, tick, overtaken>>

\* A request is answered well within a unit of time.
ApiTick ==
    /\ tick < MaxTick
    /\ \A c \in ApiCallers : asking[c].at # "store"
    /\ tick' = tick + 1
    /\ UNCHANGED <<given, kept, asking, exchanged, learnt, messages, overtaken>>

ApiNext ==
    \/ ApiTick
    \/ \E c \in ApiCallers :
          \/ \E op \in {"message", "phone"} : messages.sent < MaxMessages /\ Ask(c, op)
          \/ \E life \in Lives : Fetch(c, life)
          \/ FetchFails(c) \/ Store(c) \/ SendSubscribeMessage(c)
          \/ \E code \in PhoneAuths : FetchPhoneNumber(c, code)
          \/ \E code \in LoginCodes : Session(c, code)

-----------------------------------------------------------------------------
\* A token found in the cache works: a long-lived one is dropped before it
\* ends, whatever the processes do at once, and it has been superseded only
\* if two of them fetched at once or a newer one was lost; one shorter than
\* the window is kept past its end (client.go:126, 308).
KeptTokensWork ==
    Hit => \/ Works(kept.token)
           \/ given[kept.token].life <= RefreshWindow
           \/ overtaken
           \/ \E c \in ApiCallers : asking[c].at = "store" /\ asking[c].token > kept.token

\* And a superseded one is let go within its own life.
KeptTokensEnd ==
    kept.token # 0 /\ given[kept.token].life > RefreshWindow =>
        kept.until <= given[kept.token].ends - RefreshWindow

\* Nobody is told of a message that was not sent, or of the phone number of a
\* code that another caller's call used up.
AnswersHappened ==
    /\ messages.told <= messages.sent
    /\ \A c \in ApiCallers : learnt[c] \subseteq exchanged
    /\ \A c, d \in ApiCallers : c # d => learnt[c] \cap learnt[d] = {}

WechatApiHolds == ApiTypeOK /\ KeptTokensWork /\ KeptTokensEnd /\ AnswersHappened
=============================================================================
