-------------------------------- MODULE Cache --------------------------------
(***************************************************************************)
(* src/cache: keys with a time to live, and lists, kept by Redis or by a   *)
(* local Redka file.  One command of a backend is atomic; what the package *)
(* does with Redka in several commands is not.                             *)
(***************************************************************************)
EXTENDS Naturals, Sequences, FiniteSets

CONSTANTS
    Keys,           \* the keys in use
    Backends,       \* what Init may have chosen: "redis", "redka", "none"
    Absent,         \* no value
    Users,          \* goroutines that use the cache
    MaxTime, MaxPushed  \* bounds: clock; values pushed by one caller

ASSUME CacheAssumption == MaxPushed \in Nat

VARIABLES
    backend,    \* the backend chosen at the start
    up,         \* does it answer
    kv,         \* kv[k]: value and the time it expires
    clock,
    list,       \* one list: values <<caller, number>>
    popper,     \* popper[c]: a ListPopFrontN in progress
    pushed,     \* pushed[c]: values given to ListPushBack
    taken,      \* values returned to callers
    dropped     \* values popped by a call that then failed

kvVars == <<backend, up, kv, clock>>
listVars == <<list, popper, pushed, taken, dropped>>
cacheVars == <<kvVars, listVars>>

Forever == MaxTime + 100    \* no time to live

\* Init: an address chooses Redis, none the local file; a start without Init
\* has neither.
CacheInit ==
    /\ backend \in Backends /\ up = TRUE /\ clock = 0
    /\ kv = [k \in Keys |-> [val |-> Absent, until |-> 0]]
    /\ list = <<>> /\ pushed = [c \in Users |-> 0] /\ taken = {} /\ dropped = {}
    /\ popper = [c \in Users |-> [left |-> 0, got |-> <<>>]]

BackendReady == backend # "none"
Answers == BackendReady /\ up

Holds(k) == kv[k].val # Absent /\ clock < kv[k].until

\* Get: "miss" for a key that is absent or has expired, "error" for trouble.
Get(k) == IF ~Answers THEN "error" ELSE IF ~Holds(k) THEN "miss" ELSE kv[k].val

\* Set and Del: the command is executed or not, whatever the answer says.
Set(k, v, ttl) ==
    kv' = [kv EXCEPT ![k] = [val |-> v, until |-> IF ttl > 0 THEN clock + ttl ELSE Forever]]
Del(k) == kv' = [kv EXCEPT ![k].val = Absent]

\* Time passes, the backend is lost and comes back.
Tick == clock < MaxTime /\ clock' = clock + 1 /\ UNCHANGED <<backend, up, kv, listVars>>
Outage == BackendReady /\ up' = ~up /\ UNCHANGED <<backend, kv, clock, listVars>>

-----------------------------------------------------------------------------
\* ListPushBack of one more value: Redka appends them one by one, Redis all at
\* once, which for values of one caller is the same to a reader of the list.
ListPushBack(c) ==
    /\ Answers /\ pushed[c] < MaxPushed
    /\ \E n \in IF backend = "redis" THEN {1, 2} ELSE {1} :
         /\ pushed[c] + n <= MaxPushed
         /\ list' = list \o [i \in 1..n |-> <<c, pushed[c] + i>>]
         /\ pushed' = [pushed EXCEPT ![c] = @ + n]
    /\ UNCHANGED <<kvVars, popper, taken, dropped>>

\* ListPopFront, and ListPopFrontN of Redis: one command.
ListPopFront(c, n) ==
    LET m == IF n < Len(list) THEN n ELSE Len(list) IN
    /\ Answers /\ list # <<>> /\ popper[c].left = 0
    /\ n = 1 \/ backend = "redis"
    /\ list' = SubSeq(list, m + 1, Len(list))
    /\ taken' = taken \cup {SubSeq(list, 1, m)}
    /\ UNCHANGED <<kvVars, popper, pushed, dropped>>

\* ListPopFrontN of Redka pops one by one; an empty list ends it with what it
\* has, and an error with nothing: the values popped so far are gone.
PopStart(c, n) ==
    /\ backend = "redka" /\ popper[c].left = 0
    /\ popper' = [popper EXCEPT ![c] = [left |-> n, got |-> <<>>]]
    /\ UNCHANGED <<kvVars, list, pushed, taken, dropped>>

PopOne(c) ==
    LET got == Append(popper[c].got, Head(list)) IN
    /\ popper[c].left > 0 /\ up /\ list # <<>>
    /\ list' = Tail(list)
    /\ popper' = [popper EXCEPT ![c] = IF @.left = 1 THEN [left |-> 0, got |-> <<>>]
                                       ELSE [left |-> @.left - 1, got |-> got]]
    /\ taken' = IF popper[c].left = 1 THEN taken \cup {got} ELSE taken
    /\ UNCHANGED <<kvVars, pushed, dropped>>

PopEnd(c) ==
    /\ popper[c].left > 0
    /\ \/ up /\ list = <<>> /\ taken' = taken \cup {popper[c].got} /\ UNCHANGED dropped
       \/ /\ ~up
          /\ dropped' = dropped \cup {popper[c].got[i] : i \in DOMAIN popper[c].got}
          /\ UNCHANGED taken
    /\ popper' = [popper EXCEPT ![c] = [left |-> 0, got |-> <<>>]]
    /\ UNCHANGED <<kvVars, list, pushed>>

ListNext ==
    \/ Outage
    \/ \E c \in Users :
        \/ ListPushBack(c) \/ PopOne(c) \/ PopEnd(c)
        \/ \E n \in {1, 2} : ListPopFront(c, n) \/ PopStart(c, n)

-----------------------------------------------------------------------------
Batches == taken \cup {list} \cup {popper[c].got : c \in Users}
ValuesOf(s) == {s[i] : i \in DOMAIN s}

\* Every value that was pushed is in one place, those of one caller keep their
\* order within a batch, and only a call that failed loses any
\* (src/cache/cache.go:286).
ListsHold ==
    /\ \A s \in Batches, i, j \in 1..(2 * MaxPushed) :
        i < j /\ j <= Len(s) /\ s[i][1] = s[j][1] => s[i][2] < s[j][2]
    /\ \A s, t \in Batches : s # t => ValuesOf(s) \cap ValuesOf(t) = {}
    /\ (UNION {ValuesOf(s) : s \in Batches}) \cup dropped
          = UNION {{<<c, i>> : i \in 1..pushed[c]} : c \in Users}
    /\ backend = "redis" => dropped = {}
=============================================================================
