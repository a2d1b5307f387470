---------------------------- MODULE StoresProofs ----------------------------
(***************************************************************************)
(* The stores, for any number of keys, callers, tokens, phones and codes:  *)
(* an object and its copies, the cleanup that removes copies and the       *)
(* cleaner that calls it, the values of lists, sessions, and codes.        *)
(***************************************************************************)
EXTENDS MCServices, SumTheorems, FiniteSetTheorems, FunctionTheorems, SequenceTheorems

-----------------------------------------------------------------------------
(* Objects, local copies and cleaners *)

Locations == ObjectKeys \cup {Base(k) : k \in ObjectKeys}

\* An object that is being moved has a copy that its deletion leaves, and one
\* that two callers move is counted as gone.
MovesInv ==
    /\ objs \in [Locations -> Nat] /\ version \in Nat
    /\ \A v \in 1..version : v \in gone \/ \E k \in Locations : objs[k] = v
    /\ moving \in [Callers -> {<<>>} \cup (ObjectKeys \X (Nat \ {0}))]
    /\ kind = "local" => \A c \in Callers : moving[c] = <<>>
    /\ \A c \in Callers : moving[c] # <<>> =>
         \/ moving[c][2] \in gone
         \/ \E k \in Locations \ {moving[c][1]} : objs[k] = moving[c][2]
    /\ \A c, d \in Callers :
         c # d /\ moving[c] # <<>> /\ moving[d] # <<>> /\ moving[c][2] = moving[d][2]
           => moving[c][2] \in gone

BucketInv ==
    /\ ensure \in [Callers -> {"down", "create", "acl", "up"}] /\ half \in BOOLEAN
    /\ bucket = "private" => half \/ \E c \in Callers : ensure[c] = "acl"

\* A copy or temporary file that has expired has yet to be visited, or is next.
FetchRows == [at : {"idle", "get", "copy"}, key : Cached \cup {""}]
TempRows == [by : {<<c>> : c \in Readers} \cup {<<>>}, time : Nat]
PassRows ==
    [at : {"ended", "walk", "remove", "trim"}, started : Nat, copies : SUBSET Cached,
     stale : SUBSET TempRows, key : Cached \cup {""}, kept : SUBSET (Cached \X Nat),
     fresh : SUBSET (Cached \cup {""}), trimmed : Nat]

FilesTyped ==
    /\ files \in [Cached -> Nat] /\ now \in Nat \ {0} /\ \A k \in Cached : files[k] <= now
    /\ temps \subseteq TempRows /\ fetch \in [Readers -> FetchRows]
    /\ pass \in PassRows /\ pass.started <= now /\ IsFiniteSet(pass.kept)
ToVisit(p, k) == k \in p.copies \/ (p.at = "remove" /\ k = p.key)
AgesInv(F, T, p) ==
    /\ FileTtl > 0 => \A k \in Cached : F[k] # 0 => F[k] + FileTtl >= p.started \/ ToVisit(p, k)
    /\ \A x \in T : x.time + TempTtl >= p.started \/ x \in p.stale
    /\ p.at \in {"trim", "ended"} => p.copies = {} /\ p.stale = {}

\* What is counted is there, no older than it says, and all that is left.
CountInv(F, p) ==
    /\ p.at = "remove" => p.key \notin p.copies
    /\ \A k \in p.copies : F[k] # 0
    /\ \A f \in p.kept : F[f[1]] # 0 /\ f[2] <= F[f[1]] /\ ~ToVisit(p, f[1])
    /\ \A f, g \in p.kept : f[1] = g[1] => f = g
    /\ \A k \in Cached : F[k] # 0 /\ k \notin p.fresh =>
         ToVisit(p, k) \/ \E f \in p.kept : f[1] = k
Left(F, p) == {k \in Cached : F[k] # 0} \ p.fresh
RoomInv(F, p) ==
    /\ p.at \in {"walk", "remove"} => p.trimmed = 0
    /\ p.at = "trim" /\ p.trimmed > 0 =>
         Cardinality(p.kept) >= MaxFiles /\ \A f \in p.kept : p.trimmed <= f[2]
    /\ p.at = "ended" =>
         /\ MaxFiles > 0 => Cardinality(Left(F, p)) <= MaxFiles
         /\ p.trimmed > 0 => /\ Cardinality({k \in Cached : F[k] # 0}) >= MaxFiles
                             /\ \A k \in Left(F, p) : p.trimmed <= F[k]

CopiesInv ==
    /\ FilesTyped /\ AgesInv(files, temps, pass) /\ RoomInv(files, pass)
    /\ pass.at # "ended" => CountInv(files, pass)

CleanersInv ==
    cleaners \subseteq {handle} \cup starting \cup overlapped /\ 0 \notin cleaners

StorageInv == MovesInv /\ BucketInv /\ CopiesInv /\ CleanersInv

LEMMA StorageIsRight == StorageInv => StorageHolds
<1> SUFFICES ASSUME StorageInv PROVE StorageHolds
  OBVIOUS
<1>1. ObjectsAreKept /\ CleanersStop
  BY DEF StorageInv, MovesInv, BucketInv, CleanersInv, ObjectsAreKept, CleanersStop
<1>2. ASSUME pass.at = "ended" PROVE CopiesHold
  <2>1. pass.copies = {} /\ pass.stale = {}
    BY <1>2 DEF StorageInv, CopiesInv, AgesInv
  <2>2. \A k : ~ToVisit(pass, k)
    BY <1>2, <2>1 DEF ToVisit
  <2>3. Copies = {k \in Cached : files[k] # 0} /\ Copies \ pass.fresh = Left(files, pass)
    BY DEF Copies, Left
  <2>4. AgesInv(files, temps, pass) /\ RoomInv(files, pass)
    BY DEF StorageInv, CopiesInv
  <2>5. /\ FileTtl > 0 => \A k \in Copies : files[k] + FileTtl >= pass.started
        /\ \A x \in temps : x.time + TempTtl >= pass.started
    BY <2>1, <2>2, <2>3, <2>4 DEF AgesInv
  <2>6. /\ MaxFiles > 0 => Cardinality(Copies \ pass.fresh) <= MaxFiles
        /\ pass.trimmed > 0 => /\ Cardinality(Copies) >= MaxFiles
                               /\ \A k \in Copies \ pass.fresh : pass.trimmed <= files[k]
    BY <1>2, <2>3, <2>4 DEF RoomInv
  <2> QED BY <2>5, <2>6 DEF CopiesHold
<1> QED BY <1>1, <1>2 DEF StorageHolds, CopiesHold

LEMMA NoPassIs ==
    /\ NoPass \in PassRows /\ NoPass.at = "ended" /\ NoPass.started = 0 /\ NoPass.copies = {}
    /\ NoPass.stale = {} /\ NoPass.kept = {} /\ NoPass.trimmed = 0 /\ NoPass.fresh = {}
BY DEF NoPass, PassRows

LEMMA StorageStarts == StorageInit => StorageInv
<1> SUFFICES ASSUME StorageInit PROVE StorageInv
  OBVIOUS
<1>1. MovesInv
  BY DEF StorageInit, MovesInv, Locations
<1>2. BucketInv
  BY DEF StorageInit, BucketInv
<1>3. CopiesInv
  <2>1. /\ files = [k \in Cached |-> 0] /\ temps = {} /\ now = 1 /\ pass = NoPass
        /\ fetch = [c \in Readers |-> NoFetch]
    BY DEF StorageInit
  <2>2. files \in [Cached -> Nat] /\ \A k \in Cached : files[k] = 0
    BY <2>1
  <2>3. /\ pass.fresh = {} /\ pass \in PassRows /\ pass.at = "ended" /\ pass.started = 0
        /\ pass.copies = {} /\ pass.stale = {} /\ pass.kept = {} /\ pass.trimmed = 0
    BY <2>1, NoPassIs
  <2>4. NoFetch \in FetchRows
    BY DEF NoFetch, FetchRows
  <2>5. Left(files, pass) = {}
    BY <2>2 DEF Left
  <2>6. FilesTyped
    BY <2>1, <2>2, <2>3, <2>4, FS_EmptySet DEF FilesTyped
  <2>7. RoomInv(files, pass)
    BY <2>3, <2>5, FS_EmptySet, StorageAssumption DEF RoomInv
  <2>8. AgesInv(files, temps, pass)
    BY <2>1, <2>2, <2>3 DEF AgesInv
  <2> QED BY <2>3, <2>6, <2>7, <2>8 DEF CopiesInv
<1>4. CleanersInv
  BY DEF StorageInit, CleanersInv
<1> QED BY <1>1, <1>2, <1>3, <1>4 DEF StorageInv

LEMMA MovesStutter ==
    MovesInv /\ UNCHANGED <<kind, objs, version, gone, moving>> => MovesInv'
BY DEF MovesInv

LEMMA BucketStutters == BucketInv /\ UNCHANGED <<bucket, ensure, half>> => BucketInv'
BY DEF BucketInv

LEMMA CopiesStutter == CopiesInv /\ UNCHANGED <<files, temps, fetch, pass, now>> => CopiesInv'
BY DEF CopiesInv, FilesTyped, AgesInv, RoomInv, CountInv, Left, ToVisit

-----------------------------------------------------------------------------
LEMMA PlaceIs ==
    ASSUME NEW k \in ObjectKeys
    PROVE  Place(k) \in Locations /\ k \in Locations /\ (kind # "local" => Place(k) = k)
BY DEF Place, Locations

\* What is put in one place, with what it replaced counted as gone, keeps
\* every object and every copy that a move relies on.
LEMMA PutKeeps ==
    ASSUME MovesInv, NEW p \in Locations, NEW n \in Nat,
           objs' = [objs EXCEPT ![p] = n], UNCHANGED <<kind, moving>>,
           gone \subseteq gone', objs[p] # 0 => objs[p] \in gone',
           version' \in Nat, \A v \in 1..version' : v \in 1..version \/ v = n \/ v \in gone'
    PROVE  MovesInv'
<1>1. /\ objs' \in [Locations -> Nat] /\ objs'[p] = n
      /\ \A k \in Locations : k # p => objs'[k] = objs[k]
  BY DEF MovesInv
<1>2. ASSUME NEW v \in 1..version' PROVE v \in gone' \/ \E k \in Locations : objs'[k] = v
  <2>1. CASE v \in 1..version
    <3>1. v # 0
      OBVIOUS
    <3> QED BY <1>1, <2>1, <3>1 DEF MovesInv
  <2>2. CASE v = n
    BY <1>1, <2>2
  <2> QED BY <2>1, <2>2
<1>3. ASSUME NEW c \in Callers, moving[c] # <<>>
      PROVE  \/ moving[c][2] \in gone'
             \/ \E k \in Locations \ {moving[c][1]} : objs'[k] = moving[c][2]
  <2>1. PICK m \in Nat \ {0} : m = moving[c][2]
    BY <1>3 DEF MovesInv
  <2>2. CASE moving[c][2] \in gone
    BY <2>2
  <2>3. ASSUME NEW k \in Locations \ {moving[c][1]}, objs[k] = moving[c][2]
        PROVE  \/ moving[c][2] \in gone'
               \/ \E l \in Locations \ {moving[c][1]} : objs'[l] = moving[c][2]
    <3>1. CASE k = p
      BY <2>1, <2>3, <3>1
    <3>2. CASE k # p
      BY <1>1, <2>3, <3>2
    <3> QED BY <3>1, <3>2
  <2> QED BY <1>3, <2>2, <2>3 DEF MovesInv
<1> QED BY <1>1, <1>2, <1>3 DEF MovesInv

LEMMA DeleteStep ==
    ASSUME MovesInv, NEW k \in ObjectKeys, Delete(k), UNCHANGED kind
    PROVE  MovesInv'
<1>1. PICK p \in Locations : p = Place(k)
  BY PlaceIs
<1>2. objs' = [objs EXCEPT ![p] = 0] /\ gone' = gone \cup ({objs[p]} \ {0})
      /\ UNCHANGED <<moving, version>>
  BY <1>1 DEF Delete, Replaced
<1>3. version' \in Nat
  BY <1>2 DEF MovesInv
<1> QED BY <1>2, <1>3, PutKeeps

LEMMA UploadStep ==
    ASSUME MovesInv, NEW k \in ObjectKeys, Upload(k), UNCHANGED kind
    PROVE  MovesInv'
<1>1. PICK p \in Locations : p = Place(k)
  BY PlaceIs
<1>2. PICK n \in Nat : n = version /\ version' = n + 1 /\ UNCHANGED moving
  BY DEF Upload, MovesInv
<1>3. \A v \in 1..(n + 1) : v \in 1..n \/ v = n + 1
  BY <1>2
<1>4. PICK m \in Nat : m = n + 1
  OBVIOUS
<1>5. CASE objs' = [objs EXCEPT ![p] = m] /\ gone' = gone \cup ({objs[p]} \ {0})
  BY <1>2, <1>3, <1>4, <1>5, PutKeeps
<1>6. CASE /\ IF kind = "local" THEN objs' = [objs EXCEPT ![p] = 0] ELSE UNCHANGED objs
           /\ gone' = gone \cup {m} \cup IF kind = "local" THEN {objs[p]} \ {0} ELSE {}
  <2>1. CASE kind = "local"
    <3>1. objs' = [objs EXCEPT ![p] = 0] /\ gone' = gone \cup {m} \cup ({objs[p]} \ {0})
      BY <1>6, <2>1
    <3> QED BY <1>2, <1>3, <1>4, <3>1, PutKeeps
  <2>2. CASE kind # "local"
    <3>1. UNCHANGED objs /\ gone' = gone \cup {m}
      BY <1>6, <2>2
    <3>2. \A v \in 1..version' : v \in gone' \/ \E l \in Locations : objs'[l] = v
      BY <1>2, <1>3, <1>4, <3>1 DEF MovesInv
    <3> QED BY <1>2, <3>1, <3>2 DEF MovesInv
  <2> QED BY <2>1, <2>2
<1>7. \/ objs' = [objs EXCEPT ![p] = m] /\ gone' = gone \cup ({objs[p]} \ {0})
      \/ /\ IF kind = "local" THEN objs' = [objs EXCEPT ![p] = 0] ELSE UNCHANGED objs
         /\ gone' = gone \cup {m} \cup IF kind = "local" THEN {objs[p]} \ {0} ELSE {}
  <2>1. version' = m
    BY <1>2, <1>4
  <2> QED BY <1>1, <2>1 DEF Upload, Replaced
<1> QED BY <1>5, <1>6, <1>7

-----------------------------------------------------------------------------
LEMMA MoveInBucket ==
    ASSUME MovesInv, NEW c \in Callers, NEW s \in ObjectKeys, NEW t \in ObjectKeys,
           MoveFile(c, s, t), kind # "local", UNCHANGED kind
    PROVE  MovesInv'
<1>1. Place(s) = s /\ Place(t) = t /\ s \in Locations /\ t \in Locations
  BY PlaceIs
<1>2. PICK n \in Nat \ {0} : n = objs[s]
  BY <1>1 DEF MoveFile, MovesInv
<1>3. /\ s # t /\ moving[c] = <<>> /\ UNCHANGED version
      /\ gone' = gone \cup (({objs[t]} \ {0}) \ ({n} \ {0})) \cup Contested(n)
      /\ objs' = [objs EXCEPT ![t] = n] /\ moving' = [moving EXCEPT ![c] = <<s, n>>]
  BY <1>1, <1>2 DEF MoveFile, Replaced
<1>4. gone \subseteq gone' /\ Contested(n) \subseteq gone'
      /\ (objs[t] # 0 /\ objs[t] # n => objs[t] \in gone')
  BY <1>3
<1>5. /\ objs' \in [Locations -> Nat] /\ objs'[t] = n
      /\ \A k \in Locations : k # t => objs'[k] = objs[k]
  BY <1>1, <1>3 DEF MovesInv
<1>6. /\ moving' \in [Callers -> {<<>>} \cup (ObjectKeys \X (Nat \ {0}))] /\ moving'[c] = <<s, n>>
      /\ \A d \in Callers : d # c => moving'[d] = moving[d]
  BY <1>3 DEF MovesInv
<1>7. ASSUME NEW v \in 1..version PROVE v \in gone' \/ \E k \in Locations : objs'[k] = v
  <2>1. v # 0
    OBVIOUS
  <2> QED BY <1>1, <1>4, <1>5, <2>1 DEF MovesInv
<1>8. ASSUME NEW d \in Callers, moving'[d] # <<>>
      PROVE  \/ moving'[d][2] \in gone'
             \/ \E k \in Locations \ {moving'[d][1]} : objs'[k] = moving'[d][2]
  <2>1. CASE d = c
    BY <1>1, <1>3, <1>5, <1>6, <2>1
  <2>2. CASE d # c
    <3>1. PICK m \in Nat \ {0} : m = moving[d][2] /\ moving'[d] = moving[d] /\ moving[d] # <<>>
      BY <1>6, <1>8, <2>2 DEF MovesInv
    <3>2. CASE m = n
      BY <1>4, <3>1, <3>2 DEF Contested
    <3>3. CASE m # n
      <4>1. CASE m \in gone
        BY <1>4, <3>1, <4>1
      <4>2. ASSUME NEW k \in Locations \ {moving[d][1]}, objs[k] = m
            PROVE  m \in gone' \/ \E l \in Locations \ {moving[d][1]} : objs'[l] = m
        BY <1>4, <1>5, <3>3, <4>2
      <4> QED BY <3>1, <4>1, <4>2 DEF MovesInv
    <3> QED BY <3>2, <3>3
  <2> QED BY <2>1, <2>2
<1>9. ASSUME NEW d \in Callers, NEW e \in Callers, d # e, moving'[d] # <<>>, moving'[e] # <<>>,
             moving'[d][2] = moving'[e][2]
      PROVE  moving'[d][2] \in gone'
  <2>1. CASE d = c
    BY <1>4, <1>6, <1>9, <2>1 DEF Contested
  <2>2. CASE e = c
    BY <1>4, <1>6, <1>9, <2>2 DEF Contested
  <2>3. CASE d # c /\ e # c
    BY <1>4, <1>6, <1>9, <2>3 DEF MovesInv
  <2> QED BY <2>1, <2>2, <2>3
<1>10. version' \in Nat /\ version' = version
  BY <1>3 DEF MovesInv
<1> QED BY <1>5, <1>6, <1>7, <1>8, <1>9, <1>10 DEF MovesInv

LEMMA MoveInDirectory ==
    ASSUME MovesInv, NEW c \in Callers, NEW s \in ObjectKeys, NEW t \in ObjectKeys,
           MoveFile(c, s, t), kind = "local", UNCHANGED kind
    PROVE  MovesInv'
<1>1. PICK p \in Locations, q \in Locations : p = Place(s) /\ q = Place(t)
  BY PlaceIs
<1>2. PICK n \in Nat \ {0} : n = objs[p]
  BY <1>1 DEF MoveFile, MovesInv
<1>3. /\ UNCHANGED <<version, moving>>
      /\ gone' = gone \cup (({objs[q]} \ {0}) \ ({n} \ {0})) \cup Contested(n)
      /\ objs' = [[objs EXCEPT ![p] = 0] EXCEPT ![q] = n]
  BY <1>1, <1>2 DEF MoveFile, Replaced
<1>4. gone \subseteq gone' /\ (objs[q] # 0 /\ objs[q] # n => objs[q] \in gone')
  BY <1>3
<1>5. /\ objs' \in [Locations -> Nat] /\ objs'[q] = n
      /\ \A k \in Locations : k # p /\ k # q => objs'[k] = objs[k]
  BY <1>3 DEF MovesInv
<1>6. ASSUME NEW v \in 1..version PROVE v \in gone' \/ \E k \in Locations : objs'[k] = v
  <2>1. v # 0
    OBVIOUS
  <2> QED BY <1>2, <1>4, <1>5, <2>1 DEF MovesInv
<1>7. \A d \in Callers : moving'[d] = <<>>
  BY <1>3 DEF MovesInv
<1> QED BY <1>3, <1>5, <1>6, <1>7 DEF MovesInv

LEMMA DeleteSourceStep ==
    ASSUME MovesInv, NEW c \in Callers, DeleteSource(c), UNCHANGED kind
    PROVE  MovesInv'
<1>1. PICK s \in ObjectKeys, n \in Nat \ {0} : s = moving[c][1] /\ n = moving[c][2]
  BY DEF DeleteSource, MovesInv
<1>2. /\ moving[c] # <<>> /\ moving' = [moving EXCEPT ![c] = <<>>] /\ UNCHANGED version
      /\ \/ objs' = [objs EXCEPT ![s] = 0] /\ gone' = gone \cup ({objs[s]} \ {0, n})
         \/ UNCHANGED <<objs, gone>>
  BY <1>1 DEF DeleteSource
<1>3. /\ moving' \in [Callers -> {<<>>} \cup (ObjectKeys \X (Nat \ {0}))] /\ moving'[c] = <<>>
      /\ \A d \in Callers : d # c => moving'[d] = moving[d]
  BY <1>2 DEF MovesInv
<1>4. version' \in Nat /\ version' = version /\ gone \subseteq gone'
  BY <1>2 DEF MovesInv
<1>5. \A d, e \in Callers :
        d # e /\ moving'[d] # <<>> /\ moving'[e] # <<>> /\ moving'[d][2] = moving'[e][2]
           => moving'[d][2] \in gone'
  BY <1>3, <1>4 DEF MovesInv
<1>6. CASE UNCHANGED <<objs, gone>>
  <2>1. \A d \in Callers : moving'[d] # <<>> =>
          \/ moving'[d][2] \in gone'
          \/ \E k \in Locations \ {moving'[d][1]} : objs'[k] = moving'[d][2]
    BY <1>3, <1>6 DEF MovesInv
  <2>2. kind' = "local" => \A d \in Callers : moving'[d] = <<>>
    BY <1>3 DEF MovesInv
  <2> QED BY <1>3, <1>4, <1>5, <1>6, <2>1, <2>2 DEF MovesInv
<1>7. CASE objs' = [objs EXCEPT ![s] = 0] /\ gone' = gone \cup ({objs[s]} \ {0, n})
  <2>0. s \in Locations
    BY DEF Locations
  <2>1. /\ objs' \in [Locations -> Nat]
        /\ \A k \in Locations : k # s => objs'[k] = objs[k]
    BY <1>7, <2>0 DEF MovesInv
  <2>2. objs[s] # 0 /\ objs[s] # n => objs[s] \in gone'
    BY <1>7
  <2>3. n \in gone \/ \E k \in Locations \ {s} : objs[k] = n
    BY <1>1, <1>2 DEF MovesInv
  <2>4. ASSUME NEW v \in 1..version PROVE v \in gone' \/ \E k \in Locations : objs'[k] = v
    <3>1. v # 0
      OBVIOUS
    <3> QED BY <1>4, <2>1, <2>2, <2>3, <3>1 DEF MovesInv
  <2>5. ASSUME NEW d \in Callers, moving'[d] # <<>>
        PROVE  \/ moving'[d][2] \in gone'
               \/ \E k \in Locations \ {moving'[d][1]} : objs'[k] = moving'[d][2]
    <3>1. PICK m \in Nat \ {0} : m = moving[d][2] /\ moving'[d] = moving[d] /\ d # c
      BY <1>3, <2>5 DEF MovesInv
    <3>2. CASE m = n
      BY <1>1, <1>2, <1>4, <2>5, <3>1, <3>2 DEF MovesInv
    <3>3. CASE m # n
      <4>1. CASE m \in gone
        BY <1>4, <3>1, <4>1
      <4>2. ASSUME NEW k \in Locations \ {moving[d][1]}, objs[k] = m
            PROVE  m \in gone' \/ \E l \in Locations \ {moving[d][1]} : objs'[l] = m
        BY <2>1, <2>2, <3>3, <4>2
      <4> QED BY <2>5, <3>1, <4>1, <4>2 DEF MovesInv
    <3> QED BY <3>2, <3>3
  <2>6. kind' = "local" => \A d \in Callers : moving'[d] = <<>>
    BY <1>3 DEF MovesInv
  <2> QED BY <1>3, <1>4, <1>5, <2>1, <2>4, <2>5, <2>6 DEF MovesInv
<1> QED BY <1>2, <1>6, <1>7

LEMMA BucketStep ==
    ASSUME BucketInv, NEW c \in Callers, EnsureBucket(c) \/ CreateBucket(c) \/ PutBucketAcl(c)
    PROVE  BucketInv'
<1>1. CASE EnsureBucket(c)
  <2>1. ensure' \in [Callers -> {"down", "create", "acl", "up"}]
    BY <1>1 DEF EnsureBucket, BucketInv
  <2>2. \A d \in Callers : ensure[d] = "acl" => ensure'[d] = "acl"
    BY <1>1 DEF EnsureBucket, BucketInv
  <2> QED BY <1>1, <2>1, <2>2 DEF EnsureBucket, BucketInv
<1>2. CASE CreateBucket(c)
  <2>1. ensure' \in [Callers -> {"down", "create", "acl", "up"}]
    BY <1>2 DEF CreateBucket, BucketInv
  <2>2. \A d \in Callers : ensure[d] = "acl" => ensure'[d] = "acl"
    BY <1>2 DEF CreateBucket, BucketInv
  <2>3. bucket = "none" => ensure'[c] = "acl"
    BY <1>2 DEF CreateBucket, BucketInv
  <2> QED BY <1>2, <2>1, <2>2, <2>3 DEF CreateBucket, BucketInv
<1>3. CASE PutBucketAcl(c)
  <2>1. ensure' \in [Callers -> {"down", "create", "acl", "up"}]
    BY <1>3 DEF PutBucketAcl, BucketInv
  <2>2. bucket' = "public" \/ half' = TRUE
    BY <1>3 DEF PutBucketAcl
  <2>3. half' \in BOOLEAN
    BY <1>3 DEF PutBucketAcl, BucketInv
  <2> QED BY <2>1, <2>2, <2>3 DEF BucketInv
<1> QED BY <1>1, <1>2, <1>3

LEMMA ObjectStep ==
    ASSUME StorageInv, ObjectNext, UNCHANGED <<kind, fileVars>>
    PROVE  StorageInv'
<1>1. MovesInv /\ BucketInv /\ CopiesInv /\ CleanersInv /\ UNCHANGED kind
  BY DEF StorageInv
<1>2. CleanersInv' /\ CopiesInv'
  BY <1>1, CopiesStutter DEF fileVars, CleanersInv
<1>3. ASSUME NEW k \in ObjectKeys, Upload(k) \/ Delete(k) PROVE StorageInv'
  <2>1. MovesInv'
    BY <1>1, <1>3, UploadStep, DeleteStep
  <2>2. UNCHANGED <<bucket, ensure, half>>
    BY <1>3 DEF Upload, Delete
  <2> QED BY <1>1, <1>2, <2>1, <2>2, BucketStutters DEF StorageInv
<1>5. ASSUME NEW k \in ObjectKeys, NEW t \in ObjectKeys, NEW c \in Callers, MoveFile(c, k, t)
      PROVE  StorageInv'
  <2>1. MovesInv'
    BY <1>1, <1>5, MoveInBucket, MoveInDirectory
  <2>2. UNCHANGED <<bucket, ensure, half>>
    BY <1>5 DEF MoveFile
  <2> QED BY <1>1, <1>2, <2>1, <2>2, BucketStutters DEF StorageInv
<1>6. ASSUME NEW c \in Callers, DeleteSource(c) PROVE StorageInv'
  <2>1. MovesInv'
    BY <1>1, <1>6, DeleteSourceStep
  <2>2. UNCHANGED <<bucket, ensure, half>>
    BY <1>6 DEF DeleteSource
  <2> QED BY <1>1, <1>2, <2>1, <2>2, BucketStutters DEF StorageInv
<1>7. ASSUME NEW c \in Callers, EnsureBucket(c) \/ CreateBucket(c) \/ PutBucketAcl(c)
      PROVE  StorageInv'
  <2>1. BucketInv'
    BY <1>1, <1>7, BucketStep
  <2>2. UNCHANGED <<objs, moving, version, gone>>
    BY <1>7 DEF EnsureBucket, CreateBucket, PutBucketAcl
  <2> QED BY <1>1, <1>2, <2>1, <2>2, MovesStutter DEF StorageInv
<1> QED BY <1>3, <1>5, <1>6, <1>7 DEF ObjectNext

-----------------------------------------------------------------------------
\* Copies that are put in place or used meanwhile.
SamePass(p, q) ==
    /\ q.at = p.at /\ q.started = p.started /\ q.copies = p.copies /\ q.stale = p.stale
    /\ q.key = p.key /\ q.kept = p.kept /\ q.trimmed = p.trimmed /\ p.fresh \subseteq q.fresh
Touched(F, G, p, q) ==
    /\ \A k \in Cached : F[k] # 0 => G[k] # 0 /\ F[k] <= G[k]
    /\ \A k \in Cached : G[k] = F[k] \/ G[k] >= p.started
    /\ \A k \in Cached : G[k] # 0 /\ k \notin q.fresh => F[k] # 0

LEMMA TouchKeeps ==
    ASSUME NEW F \in [Cached -> Nat], NEW G \in [Cached -> Nat], NEW T \in SUBSET TempRows,
           NEW U \in SUBSET TempRows, NEW p \in PassRows, NEW q \in PassRows,
           SamePass(p, q), Touched(F, G, p, q), \A x \in U : x \in T \/ x.time >= p.started
    PROVE  /\ AgesInv(F, T, p) => AgesInv(G, U, q)
           /\ CountInv(F, p) => CountInv(G, q)
           /\ RoomInv(F, p) => RoomInv(G, q)
<1>0. PICK s \in Nat, ttl \in Nat, old \in Nat, most \in Nat :
          s = p.started /\ ttl = FileTtl /\ old = TempTtl /\ most = MaxFiles
  BY StorageAssumption DEF PassRows
<1>1. \A k : ToVisit(q, k) <=> ToVisit(p, k)
  BY DEF ToVisit, SamePass
<1>2. ASSUME AgesInv(F, T, p) PROVE AgesInv(G, U, q)
  <2>1. ASSUME NEW k \in Cached, ttl > 0, G[k] # 0 PROVE G[k] + ttl >= s \/ ToVisit(q, k)
    <3>1. CASE G[k] = F[k]
      BY <1>0, <1>1, <1>2, <2>1, <3>1 DEF AgesInv
    <3>2. CASE G[k] >= s
      <4>1. PICK g \in Nat : g = G[k]
        OBVIOUS
      <4> QED BY ONLY <3>2, <4>1, s \in Nat, ttl \in Nat
    <3> QED BY <1>0, <3>1, <3>2 DEF Touched
  <2>2. ASSUME NEW x \in U PROVE x.time + old >= s \/ x \in q.stale
    <3>1. PICK t \in Nat : t = x.time
      BY DEF TempRows
    <3>2. CASE x \in T
      BY <1>0, <1>2, <3>2 DEF AgesInv, SamePass
    <3>3. CASE x.time >= s
      BY ONLY <3>1, <3>3, s \in Nat, old \in Nat
    <3> QED BY <1>0, <3>2, <3>3
  <2>3. q.at \in {"trim", "ended"} => q.copies = {} /\ q.stale = {}
    BY <1>2 DEF AgesInv, SamePass
  <2> QED BY <1>0, <2>1, <2>2, <2>3 DEF AgesInv, SamePass
<1>3. ASSUME CountInv(F, p) PROVE CountInv(G, q)
  <2>1. ASSUME NEW f \in q.kept PROVE G[f[1]] # 0 /\ f[2] <= G[f[1]] /\ ~ToVisit(q, f[1])
    <3>1. f \in p.kept /\ f \in Cached \X Nat
      BY DEF SamePass, PassRows
    <3>2. PICK k \in Cached, t \in Nat : k = f[1] /\ t = f[2]
      BY <3>1
    <3>3. F[k] # 0 /\ t <= F[k] /\ ~ToVisit(p, k)
      BY <1>3, <3>1, <3>2 DEF CountInv
    <3>4. PICK a \in Nat, b \in Nat : a = F[k] /\ b = G[k]
      OBVIOUS
    <3>5. a <= b /\ b # 0
      BY <3>3, <3>4 DEF Touched
    <3>6. t <= b
      BY ONLY <3>3, <3>4, <3>5, t \in Nat, a \in Nat, b \in Nat
    <3> QED BY <1>1, <3>2, <3>3, <3>4, <3>5, <3>6
  <2>2. \A k \in q.copies : G[k] # 0
    BY <1>3 DEF CountInv, SamePass, Touched, PassRows
  <2>3. ASSUME NEW k \in Cached, G[k] # 0, k \notin q.fresh
        PROVE  ToVisit(q, k) \/ \E f \in q.kept : f[1] = k
    BY <1>1, <1>3, <2>3 DEF CountInv, Touched, SamePass
  <2> QED BY <1>3, <2>1, <2>2, <2>3 DEF CountInv, SamePass
<1>4. ASSUME RoomInv(F, p) PROVE RoomInv(G, q)
  <2> DEFINE A == {k \in Cached : F[k] # 0}
             B == {k \in Cached : G[k] # 0}
  <2>1. Left(G, q) \subseteq Left(F, p) /\ A \subseteq B
    BY DEF Left, Touched, SamePass
  <2>2. Left(F, p) \in SUBSET Cached /\ B \in SUBSET Cached /\ IsFiniteSet(Cached)
    BY StorageAssumption DEF Left
  <2>3. PICK a \in Nat, b \in Nat, x \in Nat, y \in Nat :
            /\ a = Cardinality(A) /\ b = Cardinality(B) /\ a <= b
            /\ x = Cardinality(Left(F, p)) /\ y = Cardinality(Left(G, q)) /\ y <= x
    <3> HIDE DEF A, B
    <3> QED BY <2>1, <2>2, FS_Subset, FS_CardinalityType
  <2>4. p.at = "ended" =>
          /\ most > 0 => x <= most
          /\ p.trimmed > 0 => a >= most /\ \A k \in Left(F, p) : p.trimmed <= F[k]
    BY <1>0, <1>4, <2>3 DEF RoomInv
  <2>5. ASSUME q.at = "ended", q.trimmed > 0, NEW k \in Left(G, q) PROVE q.trimmed <= G[k]
    <3>1. k \in Left(F, p) /\ k \in Cached /\ F[k] # 0
      BY <2>1 DEF Left
    <3>2. PICK t \in Nat, m \in Nat, n \in Nat : t = p.trimmed /\ m = F[k] /\ n = G[k]
      BY <3>1 DEF PassRows
    <3>3. t <= m
      BY <2>4, <2>5, <3>1, <3>2 DEF SamePass
    <3>4. m <= n
      BY <3>1, <3>2 DEF Touched
    <3>5. t <= n
      BY ONLY <3>3, <3>4, t \in Nat, m \in Nat, n \in Nat
    <3> QED BY <3>2, <3>5 DEF SamePass
  <2>6. most > 0 /\ q.at = "ended" => y <= most
    BY <2>3, <2>4 DEF SamePass
  <2>7. q.at = "ended" /\ q.trimmed > 0 => b >= most
    BY <2>3, <2>4 DEF SamePass
  <2>8. q.at \in {"walk", "remove"} => q.trimmed = 0
    BY <1>4 DEF RoomInv, SamePass
  <2>9. q.at = "trim" /\ q.trimmed > 0 =>
          Cardinality(q.kept) >= MaxFiles /\ \A f \in q.kept : q.trimmed <= f[2]
    BY <1>4 DEF RoomInv, SamePass
  <2> QED BY <1>0, <2>3, <2>5, <2>6, <2>7, <2>8, <2>9 DEF RoomInv
<1> QED BY <1>2, <1>3, <1>4

LEMMA TouchStep ==
    ASSUME CopiesInv, FilesTyped', SamePass(pass, pass'), Touched(files, files', pass, pass'),
           \A x \in temps' : x \in temps \/ x.time >= pass.started
    PROVE  CopiesInv'
<1>1. /\ files \in [Cached -> Nat] /\ files' \in [Cached -> Nat] /\ temps \in SUBSET TempRows
      /\ temps' \in SUBSET TempRows /\ pass \in PassRows /\ pass' \in PassRows
  BY DEF CopiesInv, FilesTyped
<1>2. /\ AgesInv(files, temps, pass) /\ RoomInv(files, pass)
      /\ pass.at # "ended" => CountInv(files, pass)
  BY DEF CopiesInv
<1>3. /\ AgesInv(files', temps', pass') /\ RoomInv(files', pass')
      /\ pass.at # "ended" => CountInv(files', pass')
  BY <1>1, <1>2, TouchKeeps
<1> QED BY <1>3 DEF CopiesInv, SamePass, AgesInv, RoomInv, CountInv, Left, ToVisit

LEMMA PutCopy ==
    ASSUME CopiesInv, NEW k, files' = [files EXCEPT ![k] = now],
           UNCHANGED now, temps' \subseteq temps, fetch' \in [Readers -> FetchRows],
           pass' \in PassRows, SamePass(pass, pass'),
           k \in Cached => files[k] # 0 \/ k \in pass'.fresh
    PROVE  CopiesInv'
<1>1. FilesTyped
  BY DEF CopiesInv
<1>2. PICK n \in Nat \ {0} : n = now
  BY <1>1 DEF FilesTyped
<1>3. /\ files' \in [Cached -> Nat] /\ (k \in Cached => files'[k] = n)
      /\ \A c \in Cached : c # k => files'[c] = files[c]
  BY <1>1, <1>2 DEF FilesTyped
<1>4. n <= n /\ \A c \in Cached : files[c] <= files[c] /\ files[c] <= n
  BY <1>1, <1>2 DEF FilesTyped
<1>6. PICK s \in Nat : s = pass.started /\ s <= n /\ n >= s
  BY <1>1, <1>2 DEF FilesTyped, PassRows
<1>7. Touched(files, files', pass, pass')
  <2>1. \A c \in Cached : files[c] # 0 => files'[c] # 0 /\ files[c] <= files'[c]
    BY <1>2, <1>3, <1>4
  <2>2. \A c \in Cached : files'[c] = files[c] \/ files'[c] >= pass.started
    BY <1>3, <1>6
  <2>3. \A c \in Cached : files'[c] # 0 /\ c \notin pass'.fresh => files[c] # 0
    BY <1>3
  <2> QED BY <2>1, <2>2, <2>3 DEF Touched
<1>8. FilesTyped'
  <2>1. pass'.started = pass.started /\ pass'.kept = pass.kept
    BY DEF SamePass
  <2>2. \A c \in Cached : files'[c] <= n
    BY <1>3, <1>4
  <2> QED BY <1>1, <1>2, <1>3, <2>1, <2>2 DEF FilesTyped
<1> QED BY <1>7, <1>8, TouchStep

LEMMA SameCopies ==
    ASSUME CopiesInv, UNCHANGED <<files, pass>>, now' = now \/ now' = now + 1,
           temps' \subseteq TempRows, \A x \in temps' : x \in temps \/ x.time >= pass.started,
           fetch' \in [Readers -> FetchRows]
    PROVE  CopiesInv'
<1>1. FilesTyped
  BY DEF CopiesInv
<1>2. PICK n \in Nat \ {0}, m \in Nat \ {0} : n = now /\ m = now' /\ n <= m
  BY <1>1 DEF FilesTyped
<1>3. \A c \in Cached : files[c] <= m
  <2> SUFFICES ASSUME NEW c \in Cached PROVE files[c] <= m
    OBVIOUS
  <2>1. PICK f \in Nat : f = files[c] /\ f <= n
    BY <1>1, <1>2 DEF FilesTyped
  <2> QED BY <1>2, <2>1
<1>4. pass.started <= m
  <2>1. PICK s \in Nat : s = pass.started /\ s <= n
    BY <1>1, <1>2 DEF FilesTyped, PassRows
  <2> QED BY <1>2, <2>1
<1>5. FilesTyped'
  BY <1>1, <1>2, <1>3, <1>4 DEF FilesTyped
<1>6. SamePass(pass, pass')
  BY DEF SamePass
<1>7. Touched(files, files', pass, pass')
  <2>1. \A c \in Cached : files[c] <= files[c]
    BY <1>1 DEF FilesTyped
  <2> QED BY <2>1 DEF Touched
<1> QED BY <1>5, <1>6, <1>7, TouchStep

LEMMA FetchStep ==
    ASSUME CopiesInv, NEW c \in Readers,
           \/ CreateTemp(c) \/ Rename(c) \/ DownloadFails(c)
           \/ \E k \in Cached : CachedFile(c, k)
    PROVE  CopiesInv'
<1>1. /\ FilesTyped /\ fetch \in [Readers -> FetchRows] /\ temps \subseteq TempRows
      /\ fetch[c] \in FetchRows /\ NoFetch \in FetchRows
  BY DEF CopiesInv, FilesTyped, FetchRows, NoFetch
<1>2. CASE CreateTemp(c)
  <2>1. PICK s \in Nat, n \in Nat : s = pass.started /\ n = now /\ s <= n
    BY <1>1 DEF FilesTyped, PassRows
  <2>2. [by |-> <<c>>, time |-> n] \in TempRows
    BY DEF TempRows
  <2>3. n >= s
    BY <2>1
  <2>4. /\ temps' = temps \cup {[by |-> <<c>>, time |-> n]}
        /\ UNCHANGED <<files, pass, now>>
        /\ fetch' = [fetch EXCEPT ![c].at = "copy"]
    BY <1>2, <2>1 DEF CreateTemp
  <2>5. temps' \subseteq TempRows /\ \A x \in temps' : x \in temps \/ x.time >= pass.started
    BY <1>1, <2>1, <2>2, <2>3, <2>4
  <2>6. fetch' \in [Readers -> FetchRows]
    BY <1>1, <2>4 DEF FetchRows
  <2> QED BY <2>4, <2>5, <2>6, SameCopies
<1>3. CASE Rename(c)
  <2>1. PICK k \in Cached \cup {""} : k = fetch[c].key
    BY <1>1 DEF FetchRows
  <2>2. /\ files' = [files EXCEPT ![k] = now] /\ UNCHANGED now /\ temps' \subseteq temps
        /\ pass' = [pass EXCEPT !.fresh = @ \cup {k}] /\ fetch' = [fetch EXCEPT ![c] = NoFetch]
    BY <1>3, <2>1 DEF Rename
  <2>3. fetch' \in [Readers -> FetchRows]
    BY <1>1, <2>2
  <2>4. k \in pass'.fresh /\ pass' \in PassRows /\ SamePass(pass, pass')
    BY <1>1, <2>2 DEF FilesTyped, PassRows, SamePass
  <2> QED BY <2>2, <2>3, <2>4, PutCopy
<1>4. CASE DownloadFails(c)
  <2>1. /\ UNCHANGED <<files, pass, now>> /\ temps' \subseteq temps
        /\ fetch' = [fetch EXCEPT ![c] = NoFetch]
    BY <1>4 DEF DownloadFails
  <2>2. fetch' \in [Readers -> FetchRows]
    BY <1>1, <2>1
  <2>3. temps' \subseteq TempRows /\ \A x \in temps' : x \in temps
    BY <1>1, <2>1
  <2> QED BY <2>1, <2>2, <2>3, SameCopies
<1>5. ASSUME NEW k \in Cached, CachedFile(c, k) PROVE CopiesInv'
  <2>1. CASE k \in Copies
    <3>1. files' = [files EXCEPT ![k] = now] /\ UNCHANGED <<fetch, temps, pass, now>>
          /\ files[k] # 0
      BY <1>5, <2>1 DEF CachedFile, Copies
    <3>2. pass' \in PassRows /\ SamePass(pass, pass')
      BY <1>1, <3>1 DEF FilesTyped, SamePass
    <3> QED BY <1>1, <3>1, <3>2, PutCopy
  <2>2. CASE k \notin Copies
    <3>1. /\ UNCHANGED <<files, pass, now, temps>>
          /\ fetch' = [fetch EXCEPT ![c] = [at |-> "get", key |-> k]]
      BY <1>5, <2>2 DEF CachedFile
    <3>2. fetch' \in [Readers -> FetchRows]
      BY <1>1, <3>1 DEF FetchRows
    <3> QED BY <1>1, <3>1, <3>2, SameCopies
  <2> QED BY <2>1, <2>2
<1> QED BY <1>2, <1>3, <1>4, <1>5

LEMMA CrashStep == CopiesInv /\ Crash => CopiesInv'
<1> SUFFICES ASSUME CopiesInv, Crash PROVE CopiesInv'
  OBVIOUS
<1>1. FilesTyped
  BY DEF CopiesInv
<1>2. /\ UNCHANGED <<files, now>> /\ pass' = [NoPass EXCEPT !.fresh = Copies]
      /\ fetch' = [c \in Readers |-> NoFetch] /\ temps' = {[x EXCEPT !.by = <<>>] : x \in temps}
  BY DEF Crash
<1>3. /\ pass' \in PassRows /\ pass'.fresh = {k \in Cached : files[k] # 0} /\ pass'.at = "ended"
      /\ pass'.started = 0 /\ pass'.copies = {} /\ pass'.stale = {} /\ pass'.kept = {}
      /\ pass'.trimmed = 0
  <2>1. Copies \subseteq Cached
    BY DEF Copies
  <2> QED BY <1>2, <2>1 DEF NoPass, PassRows, Copies
<1>4. temps' \subseteq TempRows
  BY <1>1, <1>2 DEF FilesTyped, TempRows
<1>5. NoFetch \in FetchRows
  BY DEF NoFetch, FetchRows
<1>6. FilesTyped'
  <2>1. fetch' \in [Readers -> FetchRows]
    BY <1>2, <1>5
  <2>2. PICK n \in Nat \ {0} : n = now /\ n = now'
    BY <1>1, <1>2 DEF FilesTyped
  <2>3. 0 <= n
    BY <2>2
  <2> QED BY <1>1, <1>2, <1>3, <1>4, <2>1, <2>2, <2>3, FS_EmptySet DEF FilesTyped
<1>7. Left(files', pass') = {}
  BY <1>2, <1>3 DEF Left
<1>8. RoomInv(files', pass')
  BY <1>3, <1>7, FS_EmptySet, StorageAssumption DEF RoomInv
<1>9. AgesInv(files', temps', pass')
  <2>1. PICK ttl \in Nat, old \in Nat : ttl = FileTtl /\ old = TempTtl
    BY StorageAssumption
  <2>2. \A k \in Cached : files'[k] + ttl >= 0
    BY <1>6, <2>1 DEF FilesTyped
  <2>3. \A x \in temps' : x.time + old >= 0
    BY <1>4, <2>1 DEF TempRows
  <2> QED BY <1>3, <2>1, <2>2, <2>3 DEF AgesInv
<1> QED BY <1>3, <1>6, <1>8, <1>9 DEF CopiesInv

\* A step of the cleanup itself.
LEMMA PassStep ==
    ASSUME CopiesInv, UNCHANGED <<now, fetch>>, pass' \in PassRows,
           pass'.started = pass.started \/ pass'.started = now, IsFiniteSet(pass'.kept),
           files' \in [Cached -> Nat], \A k \in Cached : files'[k] = files[k] \/ files'[k] = 0,
           temps' \subseteq temps, AgesInv(files', temps', pass'), RoomInv(files', pass'),
           pass'.at # "ended" => CountInv(files', pass')
    PROVE  CopiesInv'
<1>1. FilesTyped
  BY DEF CopiesInv
<1>2. PICK n \in Nat \ {0} : n = now /\ n = now'
  BY <1>1 DEF FilesTyped
<1>3. 0 <= n /\ n <= n /\ pass.started <= n /\ \A k \in Cached : files[k] <= n
  BY <1>1, <1>2 DEF FilesTyped
<1>4. FilesTyped'
  BY <1>1, <1>2, <1>3 DEF FilesTyped
<1>5. AgesInv(files, temps, pass)' /\ RoomInv(files, pass)'
      /\ (pass.at # "ended" => CountInv(files, pass))'
  BY DEF AgesInv, RoomInv, CountInv, Left, ToVisit
<1> QED BY <1>4, <1>5 DEF CopiesInv

LEMMA CleanupStep == CopiesInv /\ Cleanup => CopiesInv'
<1> SUFFICES ASSUME CopiesInv, Cleanup PROVE CopiesInv'
  OBVIOUS
<1>1. FilesTyped
  BY DEF CopiesInv
<1>2. /\ UNCHANGED <<files, temps, fetch, now>>
      /\ pass' = [NoPass EXCEPT !.at = "walk", !.started = now, !.copies = Copies, !.stale = temps]
  BY DEF Cleanup
<1>3. Copies \subseteq Cached /\ now \in Nat /\ temps \subseteq TempRows
  BY <1>1 DEF Copies, FilesTyped
<1>4. /\ pass' \in PassRows /\ pass'.at = "walk" /\ pass'.started = now
      /\ pass'.copies = Copies /\ pass'.stale = temps /\ pass'.kept = {} /\ pass'.trimmed = 0
  BY <1>2, <1>3 DEF NoPass, PassRows
<1>5. AgesInv(files', temps', pass')
  BY <1>2, <1>4 DEF AgesInv, ToVisit, Copies
<1>6. RoomInv(files', pass')
  BY <1>4 DEF RoomInv
<1>7. CountInv(files', pass')
  BY <1>2, <1>4 DEF CountInv, ToVisit, Copies
<1>8. IsFiniteSet(pass'.kept)
  BY <1>4, FS_EmptySet
<1> QED BY <1>1, <1>2, <1>4, <1>5, <1>6, <1>7, <1>8, PassStep DEF FilesTyped

LEMMA RemovedIs ==
    ASSUME CopiesInv, NEW names, NEW others, Removed(names, others)
    PROVE  /\ files' \in [Cached -> Nat] /\ temps' = temps \ others
           /\ \A k \in Cached : k \in names => files'[k] = 0
           /\ \A k \in Cached : k \notin names => files'[k] = files[k]
<1>1. files \in [Cached -> Nat]
  BY DEF CopiesInv, FilesTyped
<1> QED BY <1>1 DEF Removed

LEMMA CopyRemoved ==
    ASSUME CopiesInv, NEW k, Removed({k}, {})
    PROVE  /\ files' \in [Cached -> Nat] /\ temps' = temps /\ (k \in Cached => files'[k] = 0)
           /\ \A c \in Cached : c # k => files'[c] = files[c]
<1>1. files \in [Cached -> Nat]
  BY DEF CopiesInv, FilesTyped
<1> QED BY <1>1 DEF Removed

LEMMA VisitTempStep ==
    ASSUME CopiesInv, NEW x, VisitTemp(x)
    PROVE  CopiesInv'
<1>1. /\ pass.at = "walk" /\ pass' = [pass EXCEPT !.stale = @ \ {x}] /\ UNCHANGED <<fetch, now>>
      /\ x \in pass.stale
  BY DEF VisitTemp
<1>2. pass \in PassRows /\ IsFiniteSet(pass.kept) /\ temps \subseteq TempRows
  BY DEF CopiesInv, FilesTyped
<1>3. /\ pass' \in PassRows /\ pass'.at = "walk" /\ pass'.stale = pass.stale \ {x}
      /\ pass'.started = pass.started /\ pass'.copies = pass.copies /\ pass'.key = pass.key
      /\ pass'.kept = pass.kept /\ pass'.fresh = pass.fresh /\ pass'.trimmed = pass.trimmed
  BY <1>1, <1>2 DEF PassRows
<1>4. /\ files' \in [Cached -> Nat] /\ \A k \in Cached : files'[k] = files[k]
      /\ temps' = temps \ IF x.time + TempTtl < pass.started THEN {x} \cap temps ELSE {}
  BY RemovedIs DEF VisitTemp
<1>5. /\ AgesInv(files, temps, pass) /\ CountInv(files, pass) /\ RoomInv(files, pass)
  BY <1>1 DEF CopiesInv
<1>6. PICK s \in Nat, old \in Nat : s = pass.started /\ old = TempTtl
  BY <1>2, StorageAssumption DEF PassRows
<1>7. ASSUME NEW y \in temps' PROVE y.time + old >= s \/ y \in pass'.stale
  <2>1. PICK t \in Nat : t = y.time
    BY <1>2, <1>4 DEF TempRows
  <2>2. CASE y = x
    <3>1. ~(t + old < s)
      BY <1>4, <1>6, <1>7, <2>1, <2>2
    <3>2. t + old >= s
      BY ONLY <3>1, t \in Nat, old \in Nat, s \in Nat
    <3> QED BY <2>1, <3>2
  <2>3. CASE y # x
    BY <1>3, <1>4, <1>5, <1>6, <2>3 DEF AgesInv
  <2> QED BY <2>2, <2>3
<1>8. AgesInv(files', temps', pass')
  BY <1>1, <1>3, <1>4, <1>5, <1>6, <1>7 DEF AgesInv, ToVisit
<1>9. CountInv(files', pass')
  <2>1. \A f \in pass.kept : f[1] \in Cached
    BY <1>2 DEF PassRows
  <2>2. pass.copies \subseteq Cached
    BY <1>2 DEF PassRows
  <2> QED BY <1>1, <1>3, <1>4, <1>5, <2>1, <2>2 DEF CountInv, ToVisit
<1>10. RoomInv(files', pass')
  BY <1>1, <1>3, <1>5 DEF RoomInv
<1> QED BY <1>1, <1>2, <1>3, <1>4, <1>8, <1>9, <1>10, PassStep

LEMMA VisitCopyStep ==
    ASSUME CopiesInv, NEW k \in Cached, VisitCopy(k)
    PROVE  CopiesInv'
<1>1. /\ pass.at = "walk" /\ k \in pass.copies /\ UNCHANGED <<files, temps, fetch, now>>
  BY DEF VisitCopy
<1>2. /\ pass \in PassRows /\ IsFiniteSet(pass.kept) /\ files \in [Cached -> Nat]
  BY DEF CopiesInv, FilesTyped
<1>3. /\ AgesInv(files, temps, pass) /\ CountInv(files, pass) /\ RoomInv(files, pass)
  BY <1>1 DEF CopiesInv
<1>4. PICK s \in Nat, ttl \in Nat, t \in Nat : s = pass.started /\ ttl = FileTtl /\ t = files[k]
  BY <1>2, StorageAssumption DEF PassRows
<1>5. CASE FileTtl > 0 /\ files[k] + FileTtl < pass.started
  <2>1. pass' = [pass EXCEPT !.copies = @ \ {k}, !.at = "remove", !.key = k]
    BY <1>5 DEF VisitCopy
  <2>2. /\ pass' \in PassRows /\ pass'.at = "remove" /\ pass'.stale = pass.stale
        /\ pass'.started = pass.started /\ pass'.copies = pass.copies \ {k} /\ pass'.key = k
        /\ pass'.kept = pass.kept /\ pass'.fresh = pass.fresh /\ pass'.trimmed = pass.trimmed
    BY <1>2, <2>1 DEF PassRows
  <2>3. \A c : ToVisit(pass', c) <=> ToVisit(pass, c)
    BY <1>1, <2>2 DEF ToVisit
  <2>4. AgesInv(files', temps', pass')
    BY <1>1, <1>3, <2>2, <2>3 DEF AgesInv
  <2>5. CountInv(files', pass')
    BY <1>1, <1>3, <2>2, <2>3 DEF CountInv
  <2>6. RoomInv(files', pass')
    BY <1>1, <1>3, <2>2 DEF RoomInv
  <2> QED BY <1>1, <1>2, <2>2, <2>4, <2>5, <2>6, PassStep
<1>6. CASE ~(FileTtl > 0 /\ files[k] + FileTtl < pass.started)
  <2>0. ttl > 0 => t + ttl >= s
    <3>1. ~(ttl > 0 /\ t + ttl < s)
      BY <1>4, <1>6
    <3> QED BY ONLY <3>1, t \in Nat, ttl \in Nat, s \in Nat
  <2> PICK x \in Cached \X Nat : x = <<k, t>> /\ x[1] = k /\ x[2] = t
    <3>1. <<k, t>> \in Cached \X Nat /\ <<k, t>>[1] = k /\ <<k, t>>[2] = t
      BY ONLY k \in Cached, t \in Nat
    <3> QED BY <3>1
  <2>1. pass' = [pass EXCEPT !.copies = @ \ {k}, !.kept = @ \cup {x}]
    BY <1>4, <1>6 DEF VisitCopy
  <2>2. /\ pass' \in PassRows /\ pass'.at = "walk" /\ pass'.stale = pass.stale
        /\ pass'.started = pass.started /\ pass'.copies = pass.copies \ {k}
        /\ pass'.key = pass.key /\ pass'.kept = pass.kept \cup {x}
        /\ pass'.fresh = pass.fresh /\ pass'.trimmed = pass.trimmed
    BY <1>1, <1>2, <2>1 DEF PassRows
  <2>3. IsFiniteSet(pass'.kept)
    <3>1. PICK S : S = pass.kept /\ IsFiniteSet(S)
      BY <1>2
    <3>2. IsFiniteSet(S \cup {x})
      BY <3>1, FS_AddElement
    <3> QED BY <2>2, <3>1, <3>2
  <2>4. \A c : ToVisit(pass, c) <=> c = k \/ ToVisit(pass', c)
    BY <1>1, <2>2 DEF ToVisit
  <2>5. AgesInv(files', temps', pass')
    BY <1>1, <1>3, <1>4, <2>0, <2>2, <2>4 DEF AgesInv
  <2>6. CountInv(files', pass')
    <3>1. ~ToVisit(pass', k) /\ files[k] # 0 /\ t <= files[k]
      BY <1>1, <1>3, <1>4, <2>2 DEF ToVisit, CountInv
    <3>2. \A f \in pass.kept : f[1] # k
      BY <1>3, <2>4 DEF CountInv
    <3>3. \A f \in pass'.kept : f \in pass.kept \/ f = x
      BY <2>2
    <3>4. \A f \in pass'.kept : files[f[1]] # 0 /\ f[2] <= files[f[1]] /\ ~ToVisit(pass', f[1])
      BY <1>3, <2>4, <3>1, <3>3 DEF CountInv
    <3>5. \A f, g \in pass'.kept : f[1] = g[1] => f = g
      BY <1>3, <3>2, <3>3 DEF CountInv
    <3>6. \E f \in pass'.kept : f[1] = k
      BY <2>2
    <3>7. \A c \in Cached : files[c] # 0 /\ c \notin pass'.fresh =>
            ToVisit(pass', c) \/ \E f \in pass'.kept : f[1] = c
      BY <1>3, <2>2, <2>4, <3>6 DEF CountInv
    <3>8. \A c \in pass'.copies : files[c] # 0
      BY <1>3, <2>2 DEF CountInv
    <3> QED BY <1>1, <2>2, <3>4, <3>5, <3>7, <3>8 DEF CountInv
  <2>7. RoomInv(files', pass')
    BY <1>1, <1>3, <2>2 DEF RoomInv
  <2> QED BY <1>1, <1>2, <2>2, <2>3, <2>5, <2>6, <2>7, PassStep
<1> QED BY <1>5, <1>6

LEMMA RemoveExpiredStep == CopiesInv /\ RemoveExpired => CopiesInv'
<1> SUFFICES ASSUME CopiesInv, RemoveExpired PROVE CopiesInv'
  OBVIOUS
<1>1. pass.at = "remove" /\ pass' = [pass EXCEPT !.at = "walk"] /\ UNCHANGED <<fetch, now>>
  BY DEF RemoveExpired
<1>2. pass \in PassRows /\ IsFiniteSet(pass.kept)
  BY DEF CopiesInv, FilesTyped
<1>3. /\ pass' \in PassRows /\ pass'.at = "walk" /\ pass'.stale = pass.stale
      /\ pass'.started = pass.started /\ pass'.copies = pass.copies
      /\ pass'.kept = pass.kept /\ pass'.fresh = pass.fresh /\ pass'.trimmed = pass.trimmed
  BY <1>1, <1>2 DEF PassRows
<1>4. /\ files' \in [Cached -> Nat] /\ temps' = temps
      /\ (pass.key \in Cached => files'[pass.key] = 0)
      /\ \A c \in Cached : c # pass.key => files'[c] = files[c]
  BY CopyRemoved DEF RemoveExpired
<1>5. /\ AgesInv(files, temps, pass) /\ CountInv(files, pass) /\ RoomInv(files, pass)
  BY <1>1 DEF CopiesInv
<1>6. \A c : ToVisit(pass, c) <=> c = pass.key \/ ToVisit(pass', c)
  BY <1>1, <1>3 DEF ToVisit
<1>7. AgesInv(files', temps', pass')
  BY <1>3, <1>4, <1>5, <1>6 DEF AgesInv
<1>8. CountInv(files', pass')
  <2>1. \A f \in pass.kept : f[1] \in Cached /\ f[1] # pass.key
    BY <1>2, <1>5, <1>6 DEF PassRows, CountInv
  <2>2. pass.copies \subseteq Cached /\ pass.key \notin pass.copies
    BY <1>1, <1>2, <1>5 DEF PassRows, CountInv
  <2> QED BY <1>3, <1>4, <1>5, <1>6, <2>1, <2>2 DEF CountInv
<1>9. RoomInv(files', pass')
  BY <1>1, <1>3, <1>5 DEF RoomInv
<1> QED BY <1>1, <1>2, <1>3, <1>4, <1>7, <1>8, <1>9, PassStep

LEMMA EndWalkStep == CopiesInv /\ EndWalk => CopiesInv'
<1> SUFFICES ASSUME CopiesInv, EndWalk PROVE CopiesInv'
  OBVIOUS
<1>1. /\ pass.at = "walk" /\ pass.copies = {} /\ pass.stale = {}
      /\ pass' = [pass EXCEPT !.at = IF MaxFiles > 0 THEN "trim" ELSE "ended"]
      /\ UNCHANGED <<files, temps, fetch, now>>
  BY DEF EndWalk
<1>2. pass \in PassRows /\ IsFiniteSet(pass.kept) /\ files \in [Cached -> Nat]
  BY DEF CopiesInv, FilesTyped
<1>3. /\ pass' \in PassRows /\ pass'.at = IF MaxFiles > 0 THEN "trim" ELSE "ended"
      /\ pass'.started = pass.started /\ pass'.copies = {} /\ pass'.stale = {}
      /\ pass'.kept = pass.kept /\ pass'.fresh = pass.fresh /\ pass'.trimmed = pass.trimmed
  BY <1>1, <1>2 DEF PassRows
<1>4. /\ AgesInv(files, temps, pass) /\ CountInv(files, pass) /\ RoomInv(files, pass)
  BY <1>1 DEF CopiesInv
<1>5. \A c : ~ToVisit(pass, c) /\ ~ToVisit(pass', c)
  BY <1>1, <1>3 DEF ToVisit
<1>6. AgesInv(files', temps', pass')
  BY <1>1, <1>3, <1>4, <1>5 DEF AgesInv
<1>7. pass'.at # "ended" => CountInv(files', pass')
  BY <1>1, <1>3, <1>4, <1>5 DEF CountInv
<1>8. RoomInv(files', pass')
  BY <1>1, <1>3, <1>4 DEF RoomInv
<1> QED BY <1>1, <1>2, <1>3, <1>6, <1>7, <1>8, PassStep

LEMMA OldestIs ==
    ASSUME NEW S \in SUBSET (Cached \X Nat), IsFiniteSet(S), S # {}
    PROVE  Oldest(S) \in S /\ \A g \in S : Oldest(S)[2] <= g[2]
<1> DEFINE T == {g[2] : g \in S}
           f == [g \in S |-> g[2]]
<1>1. f \in Surjection(S, T)
  BY DEF Surjection
<1>2. Numbered(T) /\ T # {}
  BY DEF Numbered
<1>3. IsFiniteSet(T)
  <2> HIDE DEF T, f
  <2> QED BY <1>1, FS_Surjection
<1>4. \E m \in T : \A x \in T : m <= x
  <2> HIDE DEF T
  <2> QED BY <1>2, <1>3, LeastNumber
<1>5. \E g \in S : \A h \in S : g[2] <= h[2]
  BY <1>4
<1> QED BY <1>5 DEF Oldest

\* The counted copies and their names are as many.
LEMMA NamesCount ==
    ASSUME NEW S \in SUBSET (Cached \X Nat), IsFiniteSet(S),
           \A f, g \in S : f[1] = g[1] => f = g, NEW names, names = {f[1] : f \in S}
    PROVE  IsFiniteSet(names) /\ Cardinality(names) = Cardinality(S)
<1> DEFINE n == [f \in S |-> f[1]]
<1>1. n \in Surjection(S, names) /\ n \in Injection(S, names)
  BY DEF Surjection, Injection, IsInjective
<1> HIDE DEF n
<1> QED BY <1>1, FS_Surjection

LEMMA TrimStep == CopiesInv /\ Trim => CopiesInv'
<1> SUFFICES ASSUME CopiesInv, Trim PROVE CopiesInv'
  OBVIOUS
<1>1. pass.at = "trim" /\ UNCHANGED <<fetch, now>>
  BY DEF Trim
<1>2. /\ pass \in PassRows /\ IsFiniteSet(pass.kept) /\ files \in [Cached -> Nat]
      /\ pass.kept \in SUBSET (Cached \X Nat)
  BY DEF CopiesInv, FilesTyped, PassRows
<1>3. /\ AgesInv(files, temps, pass) /\ CountInv(files, pass) /\ RoomInv(files, pass)
  BY <1>1 DEF CopiesInv
<1>4. PICK n \in Nat, most \in Nat : n = Cardinality(pass.kept) /\ most = MaxFiles
  BY <1>2, FS_CardinalityType, StorageAssumption
<1>5. CASE n > most
  <2>1. pass.kept # {}
    BY <1>4, <1>5, FS_EmptySet
  <2>2. PICK f \in pass.kept : f = Oldest(pass.kept) /\ \A g \in pass.kept : f[2] <= g[2]
    BY <1>2, <2>1, OldestIs
  <2>3. PICK k \in Cached, t \in Nat : k = f[1] /\ t = f[2]
    BY <1>2, <2>2
  <2>4. Removed({k}, {}) /\ pass' = [pass EXCEPT !.kept = @ \ {f}, !.trimmed = t]
    BY <1>4, <1>5, <2>2, <2>3 DEF Trim
  <2>5. /\ files' \in [Cached -> Nat] /\ temps' = temps /\ files'[k] = 0
        /\ \A c \in Cached : c # k => files'[c] = files[c]
    BY <2>4, CopyRemoved
  <2>6. /\ pass' \in PassRows /\ pass'.at = "trim" /\ pass'.stale = pass.stale
        /\ pass'.started = pass.started /\ pass'.copies = pass.copies
        /\ pass'.kept = pass.kept \ {f} /\ pass'.fresh = pass.fresh /\ pass'.trimmed = t
    BY <1>1, <1>2, <2>4 DEF PassRows
  <2>7. pass.copies = {} /\ pass.stale = {} /\ \A c : ~ToVisit(pass, c) /\ ~ToVisit(pass', c)
    BY <1>1, <1>3, <2>6 DEF AgesInv, ToVisit
  <2>8. AgesInv(files', temps', pass')
    BY <1>3, <2>5, <2>6, <2>7 DEF AgesInv
  <2>9. CountInv(files', pass')
    <3>1. \A g \in pass'.kept : g \in pass.kept /\ g[1] \in Cached /\ g[1] # k
      BY <1>2, <1>3, <2>3, <2>6 DEF CountInv
    <3>2. \A c \in Cached : files'[c] # 0 /\ c \notin pass'.fresh =>
            \E g \in pass'.kept : g[1] = c
      BY <1>3, <2>3, <2>5, <2>6, <2>7 DEF CountInv
    <3> QED BY <1>3, <2>5, <2>6, <2>7, <3>1, <3>2 DEF CountInv
  <2>10. RoomInv(files', pass')
    <3>1. Cardinality(pass.kept \ {f}) = n - 1
      <4>1. PICK S : S = pass.kept /\ IsFiniteSet(S) /\ f \in S
        BY <1>2
      <4>2. Cardinality(S \ {f}) = Cardinality(S) - 1
        BY <4>1, FS_RemoveElement
      <4> QED BY <1>4, <4>1, <4>2
    <3>2. n - 1 >= most
      BY <1>5
    <3>3. \A g \in pass'.kept : t <= g[2]
      BY <2>2, <2>3, <2>6
    <3> QED BY <1>4, <2>6, <3>1, <3>2, <3>3 DEF RoomInv
  <2>11. IsFiniteSet(pass'.kept)
    BY <1>2, <2>6, FS_RemoveElement
  <2> QED BY <1>1, <1>2, <2>5, <2>6, <2>8, <2>9, <2>10, <2>11, PassStep
<1>6. CASE ~(n > most)
  <2>1. pass' = [pass EXCEPT !.at = "ended", !.kept = {}] /\ UNCHANGED <<files, temps>>
    BY <1>4, <1>6 DEF Trim
  <2>2. /\ pass' \in PassRows /\ pass'.at = "ended" /\ pass'.stale = pass.stale
        /\ pass'.started = pass.started /\ pass'.copies = pass.copies
        /\ pass'.kept = {} /\ pass'.fresh = pass.fresh /\ pass'.trimmed = pass.trimmed
    BY <1>1, <1>2, <2>1 DEF PassRows
  <2>3. pass.copies = {} /\ pass.stale = {} /\ \A c : ~ToVisit(pass, c) /\ ~ToVisit(pass', c)
    BY <1>1, <1>3, <2>2 DEF AgesInv, ToVisit
  <2>4. AgesInv(files', temps', pass')
    BY <1>3, <2>1, <2>2, <2>3 DEF AgesInv
  <2>5. PICK names : names = {f[1] : f \in pass.kept}
    OBVIOUS
  <2>6. IsFiniteSet(names) /\ Cardinality(names) = n
    BY <1>2, <1>3, <1>4, <2>5, NamesCount DEF CountInv
  <2>7. PICK A : A = {c \in Cached : files[c] # 0}
    OBVIOUS
  <2>8. PICK L : L = Left(files, pass)
    OBVIOUS
  <2>9. L \subseteq names /\ names \subseteq A /\ A \subseteq Cached
    <3>1. \A f \in pass.kept : f[1] \in Cached
      BY <1>2
    <3> QED BY <1>3, <2>3, <2>5, <2>7, <2>8, <3>1 DEF CountInv, Left
  <2>10. PICK a \in Nat, x \in Nat :
            a = Cardinality(A) /\ x = Cardinality(L) /\ x <= n /\ n <= a
    <3>1. IsFiniteSet(A)
      BY <2>9, FS_Subset, StorageAssumption
    <3> QED BY <2>6, <2>9, <3>1, FS_Subset, FS_CardinalityType
  <2>11. x <= most
    BY <1>6, <2>10
  <2>12. ASSUME pass.trimmed > 0 PROVE a >= most /\ \A c \in L : pass.trimmed <= files[c]
    <3>1. n >= most /\ \A f \in pass.kept : pass.trimmed <= f[2]
      BY <1>1, <1>3, <1>4, <2>12 DEF RoomInv
    <3>2. a >= most
      BY <2>10, <3>1
    <3>3. ASSUME NEW c \in L PROVE pass.trimmed <= files[c]
      <4>1. PICK f \in pass.kept : f[1] = c
        BY <2>5, <2>9, <3>3
      <4>2. f[2] <= files[c] /\ pass.trimmed <= f[2]
        BY <1>3, <3>1, <4>1 DEF CountInv
      <4>3. PICK p \in Nat, q \in Nat, r \in Nat : p = pass.trimmed /\ q = f[2] /\ r = files[c]
        BY <1>2, <2>9, <3>3, <2>8, <4>1 DEF PassRows, Left
      <4> QED BY <4>2, <4>3
    <3> QED BY <3>2, <3>3
  <2>13. Left(files', pass') = L
    BY <2>1, <2>2, <2>8 DEF Left
  <2>14. RoomInv(files', pass')
    BY <1>4, <2>1, <2>2, <2>7, <2>10, <2>11, <2>12, <2>13 DEF RoomInv
  <2>15. IsFiniteSet(pass'.kept)
    BY <2>2, FS_EmptySet
  <2> QED BY <1>1, <1>2, <2>1, <2>2, <2>4, <2>14, <2>15, PassStep
<1> QED BY <1>5, <1>6

-----------------------------------------------------------------------------
LEMMA CopyStepOfStorage ==
    ASSUME StorageInv, CopyNext, UNCHANGED kind
    PROVE  StorageInv'
<1>1. MovesInv /\ BucketInv /\ CopiesInv /\ CleanersInv
  BY DEF StorageInv
<1>2. UNCHANGED <<objs, moving, version, gone, bucket, ensure, half>>
  BY DEF CopyNext, objectVars
<1>3. UNCHANGED <<cleaners, handle, starting, overlapped>>
  BY DEF CopyNext, CreateTemp, Rename, DownloadFails, CachedFile, VisitTemp, VisitCopy, Crash,
         Cleanup, RemoveExpired, EndWalk, Trim, Hour
<1>4. CleanersInv'
  BY <1>1, <1>3 DEF CleanersInv
<1>5. CopiesInv'
  <2>1. ASSUME Hour PROVE CopiesInv'
    <3>1. UNCHANGED <<files, pass, temps, fetch>> /\ now' = now + 1
      BY <2>1 DEF Hour
    <3> QED BY <1>1, <3>1, SameCopies DEF CopiesInv, FilesTyped
  <2> QED BY <1>1, <2>1, FetchStep, CrashStep, CleanupStep, VisitTempStep, VisitCopyStep,
       RemoveExpiredStep, EndWalkStep, TrimStep DEF CopyNext
<1> QED BY <1>1, <1>2, <1>4, <1>5, MovesStutter, BucketStutters DEF StorageInv

LEMMA CleanerStep ==
    ASSUME StorageInv, CleanerNext, UNCHANGED kind
    PROVE  StorageInv'
<1>1. MovesInv /\ BucketInv /\ CopiesInv /\ CleanersInv
  BY DEF StorageInv
<1>2. /\ UNCHANGED <<objs, moving, version, gone>> /\ UNCHANGED <<bucket, ensure, half>>
      /\ UNCHANGED <<files, temps, fetch, pass, now>>
  BY DEF CleanerNext, objectVars, StopCacheCleaner, StartCacheCleaner, StoreChannel
<1>3. CleanersInv'
  <2>1. CASE StopCacheCleaner
    BY <1>1, <2>1 DEF StopCacheCleaner, CleanersInv, Stopped
  <2>2. ASSUME NEW i \in 1..MaxStarts, StartCacheCleaner(i) PROVE CleanersInv'
    <3>1. i # 0
      OBVIOUS
    <3> QED BY <1>1, <2>2, <3>1 DEF StartCacheCleaner, CleanersInv, Stopped
  <2>3. ASSUME NEW i \in 1..MaxStarts, StoreChannel(i) PROVE CleanersInv'
    BY <1>1, <2>3 DEF StoreChannel, CleanersInv
  <2> QED BY <2>1, <2>2, <2>3 DEF CleanerNext
<1> QED BY <1>1, <1>2, <1>3, MovesStutter, BucketStutters, CopiesStutter DEF StorageInv

LEMMA StorageStutters == StorageInv /\ UNCHANGED storageVars => StorageInv'
<1> SUFFICES ASSUME StorageInv, UNCHANGED storageVars PROVE StorageInv'
  OBVIOUS
<1>1. MovesInv /\ BucketInv /\ CopiesInv /\ CleanersInv
  BY DEF StorageInv
<1>2. /\ UNCHANGED <<kind, objs, version, gone, moving>> /\ UNCHANGED <<bucket, ensure, half>>
      /\ UNCHANGED <<files, temps, fetch, pass, now>>
      /\ UNCHANGED <<cleaners, handle, starting, overlapped>>
  BY DEF storageVars, objectVars, fileVars
<1>3. CleanersInv'
  BY <1>1, <1>2 DEF CleanersInv
<1> QED BY <1>1, <1>2, <1>3, MovesStutter, BucketStutters, CopiesStutter DEF StorageInv

-----------------------------------------------------------------------------
(* Lists *)

Values == Users \X Nat
InOrder(v, w) == v[1] = w[1] => v[2] < w[2]
Ordered(s) == \A i, j \in DOMAIN s : i < j => InOrder(s[i], s[j])
Ahead(s, t) == \A v \in ValuesOf(s), w \in ValuesOf(t) : InOrder(v, w)
Apart(s, t) == ValuesOf(s) \cap ValuesOf(t) = {}
PushedBy(p) == {v \in Values : 1 <= v[2] /\ v[2] <= p[v[1]]}

LEMMA OrderIsStrict ==
    ASSUME NEW v \in Values, InOrder(v, v)
    PROVE  FALSE
BY DEF Values, InOrder

LEMMA AheadIsApart ==
    ASSUME NEW s \in Seq(Values), NEW t, Ahead(s, t)
    PROVE  Apart(s, t)
<1> SUFFICES ASSUME NEW v \in ValuesOf(s), v \in ValuesOf(t) PROVE FALSE
  BY DEF Apart
<1>1. InOrder(v, v)
  BY DEF Ahead
<1>2. v \in Values
  BY DEF ValuesOf
<1> QED BY <1>1, <1>2, OrderIsStrict

LEMMA ConcatIs ==
    ASSUME NEW s \in Seq(Values), NEW t \in Seq(Values), Ordered(s), Ordered(t), Ahead(s, t)
    PROVE  /\ s \o t \in Seq(Values) /\ Ordered(s \o t)
           /\ ValuesOf(s \o t) = ValuesOf(s) \cup ValuesOf(t)
<1>1. PICK m \in Nat, n \in Nat : m = Len(s) /\ n = Len(t)
  OBVIOUS
<1>2. s \o t \in Seq(Values) /\ DOMAIN (s \o t) = 1..(m + n)
  BY <1>1
<1>3. DOMAIN s = 1..m /\ DOMAIN t = 1..n
  BY <1>1
<1>4. /\ \A i \in 1..m : (s \o t)[i] = s[i]
      /\ \A i \in (m + 1)..(m + n) : (s \o t)[i] = t[i - m]
  BY <1>1
<1>5. ASSUME NEW i \in 1..(m + n), NEW j \in 1..(m + n), i < j
      PROVE  InOrder((s \o t)[i], (s \o t)[j])
  <2>0. i \in Nat /\ j \in Nat /\ 1 <= i /\ j <= m + n
    OBVIOUS
  <2>1. CASE j <= m
    <3>1. i \in 1..m /\ j \in 1..m
      BY <1>5, <2>0, <2>1
    <3> QED BY <1>3, <1>4, <1>5, <3>1 DEF Ordered
  <2>2. CASE i > m
    <3>1. i - m \in 1..n /\ j - m \in 1..n /\ i - m < j - m
          /\ i \in (m + 1)..(m + n) /\ j \in (m + 1)..(m + n)
      BY <1>5, <2>0, <2>2
    <3>2. (s \o t)[i] = t[i - m] /\ (s \o t)[j] = t[j - m]
      BY <1>4, <3>1
    <3>3. PICK k \in 1..n, l \in 1..n : k = i - m /\ l = j - m /\ k < l
      BY <3>1
    <3>4. InOrder(t[k], t[l])
      BY <1>3, <3>3 DEF Ordered
    <3> QED BY <3>2, <3>3, <3>4
  <2>3. CASE i <= m /\ j > m
    <3>1. i \in 1..m /\ j - m \in 1..n /\ j \in (m + 1)..(m + n)
      BY <2>0, <2>3
    <3>2. (s \o t)[i] = s[i] /\ (s \o t)[j] = t[j - m]
      BY <1>4, <3>1
    <3>3. s[i] \in ValuesOf(s) /\ t[j - m] \in ValuesOf(t)
      BY <1>3, <3>1 DEF ValuesOf
    <3>4. InOrder(s[i], t[j - m])
      BY <3>3 DEF Ahead
    <3> QED BY <3>2, <3>4
  <2>4. j <= m \/ i > m \/ (i <= m /\ j > m)
    BY <2>0
  <2> QED BY <2>1, <2>2, <2>3, <2>4
<1>6. ValuesOf(s \o t) = ValuesOf(s) \cup ValuesOf(t)
  <2>1. ASSUME NEW v \in ValuesOf(s \o t) PROVE v \in ValuesOf(s) \cup ValuesOf(t)
    <3>1. PICK i \in 1..(m + n) : v = (s \o t)[i]
      BY <1>2 DEF ValuesOf
    <3>2. CASE i <= m
      BY <1>3, <1>4, <3>1, <3>2 DEF ValuesOf
    <3>3. CASE i > m
      <4>1. i - m \in 1..n
        BY <3>3
      <4> QED BY <1>3, <1>4, <3>1, <3>3, <4>1 DEF ValuesOf
    <3> QED BY <3>2, <3>3
  <2>2. ASSUME NEW v \in ValuesOf(s) PROVE v \in ValuesOf(s \o t)
    <3>1. PICK i \in 1..m : v = s[i]
      BY <1>3 DEF ValuesOf
    <3>2. i \in 1..(m + n)
      OBVIOUS
    <3> QED BY <1>2, <1>4, <3>1, <3>2 DEF ValuesOf
  <2>3. ASSUME NEW v \in ValuesOf(t) PROVE v \in ValuesOf(s \o t)
    <3>1. PICK i \in 1..n : v = t[i]
      BY <1>3 DEF ValuesOf
    <3>2. i + m \in (m + 1)..(m + n) /\ i + m \in 1..(m + n) /\ (i + m) - m = i
      OBVIOUS
    <3>3. (s \o t)[i + m] = t[(i + m) - m]
      BY <1>4, <3>2
    <3> QED BY <1>2, <3>1, <3>2, <3>3 DEF ValuesOf
  <2> QED BY <2>1, <2>2, <2>3
<1> QED BY <1>2, <1>5, <1>6 DEF Ordered

\* The first values of a list, and the rest.
LEMMA CutIs ==
    ASSUME NEW s \in Seq(Values), Ordered(s), NEW m \in 1..Len(s)
    PROVE  LET a == SubSeq(s, 1, m)
               b == SubSeq(s, m + 1, Len(s)) IN
           /\ a \in Seq(Values) /\ b \in Seq(Values) /\ Ordered(a) /\ Ordered(b)
           /\ ValuesOf(s) = ValuesOf(a) \cup ValuesOf(b) /\ Ahead(a, b)
<1> DEFINE a == SubSeq(s, 1, m)
           b == SubSeq(s, m + 1, Len(s))
<1>1. PICK n \in Nat : n = Len(s) /\ m <= n /\ m \in Nat /\ DOMAIN s = 1..n
  OBVIOUS
<1>2. /\ a \in Seq(Values) /\ DOMAIN a = 1..m /\ \A i \in 1..m : a[i] = s[i]
  BY <1>1
<1>3. /\ b \in Seq(Values) /\ DOMAIN b = 1..(n - m) /\ \A i \in 1..(n - m) : b[i] = s[m + i]
  BY <1>1
<1> HIDE DEF a, b
<1>4. \A i, j \in 1..n : i < j => InOrder(s[i], s[j])
  BY <1>1 DEF Ordered
<1>5. Ordered(a)
  BY <1>1, <1>2, <1>4 DEF Ordered
<1>6. Ordered(b)
  <2> SUFFICES ASSUME NEW i \in 1..(n - m), NEW j \in 1..(n - m), i < j PROVE InOrder(b[i], b[j])
    BY <1>3 DEF Ordered
  <2>1. m + i \in 1..n /\ m + j \in 1..n /\ m + i < m + j
    BY <1>1
  <2> QED BY <1>3, <1>4, <2>1
<1>7. Ahead(a, b)
  <2> SUFFICES ASSUME NEW i \in 1..m, NEW j \in 1..(n - m) PROVE InOrder(a[i], b[j])
    BY <1>2, <1>3 DEF Ahead, ValuesOf
  <2>1. i \in 1..n /\ m + j \in 1..n /\ i < m + j
    BY <1>1
  <2> QED BY <1>2, <1>3, <1>4, <2>1
<1>8. ValuesOf(s) = ValuesOf(a) \cup ValuesOf(b)
  <2>1. ASSUME NEW i \in 1..n PROVE s[i] \in ValuesOf(a) \cup ValuesOf(b)
    <3>1. CASE i <= m
      BY <1>1, <1>2, <3>1 DEF ValuesOf
    <3>2. CASE i > m
      <4>1. i - m \in 1..(n - m) /\ m + (i - m) = i
        BY <1>1, <3>2
      <4> QED BY <1>3, <4>1 DEF ValuesOf
    <3> QED BY <1>1, <3>1, <3>2
  <2>2. ASSUME NEW i \in 1..m PROVE a[i] \in ValuesOf(s)
    BY <1>1, <1>2 DEF ValuesOf
  <2>3. ASSUME NEW i \in 1..(n - m) PROVE b[i] \in ValuesOf(s)
    <3>1. m + i \in 1..n
      BY <1>1
    <3> QED BY <1>1, <1>3, <3>1 DEF ValuesOf
  <2>4. /\ ValuesOf(s) = {s[i] : i \in 1..n} /\ ValuesOf(a) = {a[i] : i \in 1..m}
        /\ ValuesOf(b) = {b[i] : i \in 1..(n - m)}
    BY <1>1, <1>2, <1>3 DEF ValuesOf
  <2> QED BY ONLY <2>1, <2>2, <2>3, <2>4
<1> QED BY <1>2, <1>3, <1>5, <1>6, <1>7, <1>8 DEF a, b

LEMMA OneIs ==
    ASSUME NEW v \in Values
    PROVE  <<v>> \in Seq(Values) /\ Ordered(<<v>>) /\ ValuesOf(<<v>>) = {v}
<1>1. <<v>> \in Seq(Values) /\ DOMAIN <<v>> = {1} /\ <<v>>[1] = v
  OBVIOUS
<1> QED BY <1>1 DEF Ordered, ValuesOf

LEMMA NoneIs ==
    <<>> \in Seq(Values) /\ Ordered(<<>>) /\ ValuesOf(<<>>) = {}
BY DEF Ordered, ValuesOf

\* What is in the list, with the callers that pop one by one, returned, and
\* dropped: each value once, and what a caller has is ahead of the list.
OrderInv(l, g, tk) ==
    /\ l \in Seq(Values) /\ g \in [Users -> Seq(Values)] /\ tk \in SUBSET Seq(Values)
    /\ Ordered(l) /\ \A c \in Users : Ordered(g[c]) /\ Ahead(g[c], l)
    /\ \A t \in tk : Ordered(t)

ApartInv(l, g, tk) ==
    /\ \A c \in Users : Apart(g[c], l)
    /\ \A t \in tk : Apart(t, l)
    /\ \A c, d \in Users : c # d => Apart(g[c], g[d])
    /\ \A c \in Users, t \in tk : Apart(t, g[c])
    /\ \A t, u \in tk : t # u => Apart(t, u)

SomewhereInv(l, g, tk, dr, ps) ==
    /\ ps \in [Users -> Nat]
    /\ \A v : v \in PushedBy(ps) <=> \/ v \in ValuesOf(l) \/ v \in dr
                                     \/ \E c \in Users : v \in ValuesOf(g[c])
                                     \/ \E t \in tk : v \in ValuesOf(t)

Lists(l, g, tk, dr, ps) ==
    OrderInv(l, g, tk) /\ ApartInv(l, g, tk) /\ SomewhereInv(l, g, tk, dr, ps)

\* ListPushBack: the new values are nowhere yet.
LEMMA PushKeeps ==
    ASSUME NEW l, NEW g, NEW tk, NEW dr, NEW ps, Lists(l, g, tk, dr, ps),
           NEW new \in Seq(Values), Ordered(new), NEW qs \in [Users -> Nat],
           \A v : v \in PushedBy(qs) <=> v \in PushedBy(ps) \/ v \in ValuesOf(new),
           \A v \in ValuesOf(new) : v \notin PushedBy(ps),
           \A v \in PushedBy(ps), w \in ValuesOf(new) : InOrder(v, w)
    PROVE  Lists(l \o new, g, tk, dr, qs)
<1>0. OrderInv(l, g, tk) /\ ApartInv(l, g, tk) /\ SomewhereInv(l, g, tk, dr, ps)
  BY DEF Lists
<1>1. /\ ValuesOf(l) \subseteq PushedBy(ps)
      /\ \A c \in Users : ValuesOf(g[c]) \subseteq PushedBy(ps)
      /\ \A t \in tk : ValuesOf(t) \subseteq PushedBy(ps)
  BY <1>0 DEF SomewhereInv
<1>2. l \in Seq(Values) /\ Ordered(l) /\ Ahead(l, new)
  BY <1>0, <1>1 DEF OrderInv, Ahead
<1>3. /\ l \o new \in Seq(Values) /\ Ordered(l \o new)
      /\ ValuesOf(l \o new) = ValuesOf(l) \cup ValuesOf(new)
  BY <1>2, ConcatIs
<1> HIDE <1>2
<1>4. PICK m : m = l \o new
  OBVIOUS
<1>5. OrderInv(m, g, tk)
  <2>1. \A c \in Users : Ahead(g[c], m)
    BY <1>0, <1>1, <1>3, <1>4 DEF OrderInv, Ahead
  <2> QED BY <1>0, <1>3, <1>4, <2>1 DEF OrderInv
<1>6. ApartInv(m, g, tk)
  <2>1. \A c \in Users : Apart(g[c], m)
    BY <1>0, <1>1, <1>3, <1>4 DEF ApartInv, Apart
  <2>2. \A t \in tk : Apart(t, m)
    BY <1>0, <1>1, <1>3, <1>4 DEF ApartInv, Apart
  <2> QED BY <1>0, <2>1, <2>2 DEF ApartInv
<1>7. SomewhereInv(m, g, tk, dr, qs)
  BY <1>0, <1>3, <1>4 DEF SomewhereInv
<1> QED BY <1>4, <1>5, <1>6, <1>7 DEF Lists

\* ListPopFront: the first values are returned.
LEMMA CutKeeps ==
    ASSUME NEW l, NEW g, NEW tk, NEW dr, NEW ps, Lists(l, g, tk, dr, ps),
           NEW a \in Seq(Values), NEW b \in Seq(Values), Ordered(a), Ordered(b),
           ValuesOf(l) = ValuesOf(a) \cup ValuesOf(b), Ahead(a, b)
    PROVE  Lists(b, g, tk \cup {a}, dr, ps)
<1>0. OrderInv(l, g, tk) /\ ApartInv(l, g, tk) /\ SomewhereInv(l, g, tk, dr, ps)
  BY DEF Lists
<1>1. Apart(a, b)
  BY AheadIsApart
<1>2. PICK u : u = tk \cup {a}
  OBVIOUS
<1>3. OrderInv(b, g, u)
  <2>1. \A c \in Users : Ahead(g[c], b)
    BY <1>0 DEF OrderInv, Ahead
  <2> QED BY <1>0, <1>2, <2>1 DEF OrderInv
<1>4. ApartInv(b, g, u)
  <2>1. \A c \in Users : Apart(g[c], b) /\ Apart(a, g[c])
    BY <1>0 DEF ApartInv, Apart
  <2>2. \A t \in tk : Apart(t, b) /\ Apart(t, a) /\ Apart(a, t)
    BY <1>0 DEF ApartInv, Apart
  <2> QED BY <1>0, <1>1, <1>2, <2>1, <2>2 DEF ApartInv
<1>5. SomewhereInv(b, g, u, dr, ps)
  BY <1>0, <1>2 DEF SomewhereInv
<1> QED BY <1>2, <1>3, <1>4, <1>5 DEF Lists

\* ListPopFrontN of Redka: one more value for its caller.
LEMMA OneMoreKeeps ==
    ASSUME NEW l, NEW g, NEW tk, NEW dr, NEW ps, Lists(l, g, tk, dr, ps), NEW c \in Users,
           NEW v \in Values, NEW b \in Seq(Values), Ordered(b),
           ValuesOf(l) = {v} \cup ValuesOf(b), Ahead(<<v>>, b)
    PROVE  Lists(b, [g EXCEPT ![c] = Append(g[c], v)], tk, dr, ps)
<1>0. OrderInv(l, g, tk) /\ ApartInv(l, g, tk) /\ SomewhereInv(l, g, tk, dr, ps)
  BY DEF Lists
<1>1. PICK s \in Seq(Values) : s = g[c] /\ Ordered(s) /\ Ahead(s, l)
  BY <1>0 DEF OrderInv
<1>2. <<v>> \in Seq(Values) /\ Ordered(<<v>>) /\ ValuesOf(<<v>>) = {v}
  BY OneIs
<1>3. Ahead(s, <<v>>) /\ Ahead(s, b)
  BY <1>1, <1>2 DEF Ahead
<1>4. PICK x : x = s \o <<v>>
  OBVIOUS
<1>5. x \in Seq(Values) /\ Ordered(x) /\ ValuesOf(x) = ValuesOf(s) \cup {v}
  BY <1>1, <1>2, <1>3, <1>4, ConcatIs
<1>6. Append(g[c], v) = x
  BY <1>1, <1>4
<1>7. PICK h : h = [g EXCEPT ![c] = x]
  OBVIOUS
<1>8. h \in [Users -> Seq(Values)] /\ h[c] = x /\ \A d \in Users : d # c => h[d] = g[d]
  BY <1>0, <1>5, <1>7 DEF OrderInv
<1>9. v \notin ValuesOf(b)
  BY <1>2, AheadIsApart DEF Apart
<1>10. OrderInv(b, h, tk)
  <2>1. Ahead(x, b)
    BY <1>2, <1>3, <1>5 DEF Ahead
  <2>2. \A d \in Users : Ordered(h[d]) /\ Ahead(h[d], b)
    BY <1>0, <1>5, <1>8, <2>1 DEF OrderInv, Ahead
  <2> QED BY <1>0, <1>8, <2>2 DEF OrderInv
<1>11. ApartInv(b, h, tk)
  <2>1. Apart(x, b)
    BY <1>0, <1>1, <1>5, <1>9 DEF ApartInv, Apart
  <2>2. \A d \in Users : d # c => Apart(x, g[d]) /\ Apart(g[d], x) /\ Apart(g[d], b)
    BY <1>0, <1>1, <1>5 DEF ApartInv, Apart
  <2>3. \A t \in tk : Apart(t, b) /\ Apart(t, x)
    BY <1>0, <1>1, <1>5 DEF ApartInv, Apart
  <2> QED BY <1>0, <1>8, <2>1, <2>2, <2>3 DEF ApartInv
<1>12. SomewhereInv(b, h, tk, dr, ps)
  <2>1. \A w : (\E d \in Users : w \in ValuesOf(h[d]))
                  <=> w = v \/ \E d \in Users : w \in ValuesOf(g[d])
    BY <1>1, <1>5, <1>8
  <2> QED BY <1>0, <2>1 DEF SomewhereInv
<1> QED BY <1>6, <1>7, <1>10, <1>11, <1>12 DEF Lists

\* The call ends, with what it has or with nothing.
LEMMA EndKeeps ==
    ASSUME NEW l, NEW g, NEW tk, NEW dr, NEW ps, Lists(l, g, tk, dr, ps), NEW c \in Users
    PROVE  /\ Lists(l, [g EXCEPT ![c] = <<>>], tk \cup {g[c]}, dr, ps)
           /\ Lists(l, [g EXCEPT ![c] = <<>>], tk, dr \cup ValuesOf(g[c]), ps)
<1>0. OrderInv(l, g, tk) /\ ApartInv(l, g, tk) /\ SomewhereInv(l, g, tk, dr, ps)
  BY DEF Lists
<1>1. PICK h : h = [g EXCEPT ![c] = <<>>]
  OBVIOUS
<1>2. h \in [Users -> Seq(Values)] /\ h[c] = <<>> /\ \A d \in Users : d # c => h[d] = g[d]
  BY <1>0, <1>1, NoneIs DEF OrderInv
<1>3. ValuesOf(h[c]) = {} /\ Ordered(h[c])
  BY <1>2, NoneIs
<1>4. PICK u : u = tk \cup {g[c]}
  OBVIOUS
<1>5. OrderInv(l, h, tk) /\ OrderInv(l, h, u)
  <2>1. \A d \in Users : Ordered(h[d]) /\ Ahead(h[d], l)
    BY <1>0, <1>2, <1>3 DEF OrderInv, Ahead
  <2> QED BY <1>0, <1>2, <1>4, <2>1 DEF OrderInv
<1>6. ApartInv(l, h, tk)
  BY <1>0, <1>2, <1>3 DEF ApartInv, Apart
<1>7. ApartInv(l, h, u)
  <2>1. \A d \in Users : Apart(g[c], h[d])
    BY <1>0, <1>2, <1>3 DEF ApartInv, Apart
  <2>2. \A t \in tk : Apart(t, g[c]) /\ Apart(g[c], t)
    BY <1>0 DEF ApartInv, Apart
  <2>3. Apart(g[c], l)
    BY <1>0 DEF ApartInv
  <2> QED BY <1>4, <1>6, <2>1, <2>2, <2>3 DEF ApartInv
<1>8. \A w : (\E d \in Users : w \in ValuesOf(g[d]))
                <=> w \in ValuesOf(g[c]) \/ \E d \in Users : w \in ValuesOf(h[d])
  BY <1>2, <1>3
<1>9. SomewhereInv(l, h, u, dr, ps)
  BY <1>0, <1>4, <1>8 DEF SomewhereInv
<1>10. SomewhereInv(l, h, tk, dr \cup ValuesOf(g[c]), ps)
  BY <1>0, <1>8 DEF SomewhereInv
<1> QED BY <1>1, <1>4, <1>5, <1>6, <1>7, <1>9, <1>10 DEF Lists

PopRows == [left : Nat, got : Seq(Values)]
GotOf(pp) == [c \in Users |-> pp[c].got]

ListsInv ==
    /\ Lists(list, GotOf(popper), taken, dropped, pushed)
    /\ popper \in [Users -> PopRows]
    /\ \A c \in Users : /\ popper[c].left > 0 => backend = "redka"
                        /\ popper[c].left = 0 => popper[c].got = <<>>
    /\ backend = "redis" => dropped = {}

LEMMA ListsStart == CacheInit => ListsInv
<1> SUFFICES ASSUME CacheInit PROVE ListsInv
  OBVIOUS
<1>1. /\ list = <<>> /\ pushed = [c \in Users |-> 0] /\ taken = {} /\ dropped = {}
      /\ popper = [c \in Users |-> [left |-> 0, got |-> <<>>]]
  BY DEF CacheInit
<1>2. [left |-> 0, got |-> <<>>] \in PopRows
  BY NoneIs DEF PopRows
<1>3. popper \in [Users -> PopRows] /\ \A c \in Users : popper[c].left = 0 /\ popper[c].got = <<>>
  BY <1>1, <1>2
<1>4. GotOf(popper) = [c \in Users |-> <<>>]
  BY <1>3 DEF GotOf
<1>5. PICK g : g = GotOf(popper)
  OBVIOUS
<1>6. g \in [Users -> Seq(Values)] /\ \A c \in Users : g[c] = <<>>
  BY <1>4, <1>5, NoneIs
<1>7. OrderInv(list, g, taken)
  BY <1>1, <1>6, NoneIs DEF OrderInv, Ahead
<1>8. ApartInv(list, g, taken)
  BY <1>1, <1>6, NoneIs DEF ApartInv, Apart
<1>9. PushedBy(pushed) = {}
  BY <1>1 DEF PushedBy, Values
<1>10. SomewhereInv(list, g, taken, dropped, pushed)
  BY <1>1, <1>6, <1>9, NoneIs DEF SomewhereInv
<1> QED BY <1>1, <1>3, <1>5, <1>7, <1>8, <1>10 DEF ListsInv, Lists

LEMMA ListsAreRight == ListsInv => ListsHold
<1> SUFFICES ASSUME ListsInv PROVE ListsHold
  OBVIOUS
<1>0. PICK g : g = GotOf(popper)
  OBVIOUS
<1>1. g = GotOf(popper) /\ \A c \in Users : popper[c].got = g[c]
  BY <1>0 DEF GotOf
<1>2. OrderInv(list, g, taken) /\ ApartInv(list, g, taken)
      /\ SomewhereInv(list, g, taken, dropped, pushed)
  BY <1>1 DEF ListsInv, Lists
<1>3. \A s \in Batches : s = list \/ s \in taken \/ \E c \in Users : s = g[c]
  BY <1>1 DEF Batches
<1>4. list \in Batches /\ (\A t \in taken : t \in Batches) /\ \A c \in Users : g[c] \in Batches
  BY <1>1 DEF Batches
<1>5. ASSUME NEW s \in Batches PROVE s \in Seq(Values) /\ Ordered(s)
  BY <1>2, <1>3 DEF OrderInv
<1>6. ASSUME NEW s \in Batches, NEW i \in 1..(2 * MaxPushed), NEW j \in 1..(2 * MaxPushed),
             i < j, j <= Len(s), s[i][1] = s[j][1]
      PROVE  s[i][2] < s[j][2]
  <2>1. i \in DOMAIN s /\ j \in DOMAIN s
    BY <1>5, <1>6, CacheAssumption
  <2> QED BY <1>5, <1>6, <2>1 DEF Ordered, InOrder
<1>7. ASSUME NEW s \in Batches, NEW t \in Batches, s # t
      PROVE  ValuesOf(s) \cap ValuesOf(t) = {}
  <2>1. CASE s = list
    BY <1>2, <1>3, <1>7, <2>1 DEF ApartInv, Apart
  <2>2. CASE s \in taken
    BY <1>2, <1>3, <1>7, <2>2 DEF ApartInv, Apart
  <2>3. CASE \E c \in Users : s = g[c]
    BY <1>2, <1>3, <1>7, <2>3 DEF ApartInv, Apart
  <2> QED BY <1>3, <2>1, <2>2, <2>3
<1>8. (UNION {ValuesOf(s) : s \in Batches}) \cup dropped
        = UNION {{<<c, i>> : i \in 1..pushed[c]} : c \in Users}
  <2>1. ASSUME NEW v
        PROVE  v \in (UNION {ValuesOf(s) : s \in Batches}) \cup dropped <=> v \in PushedBy(pushed)
    <3>1. ASSUME v \in (UNION {ValuesOf(s) : s \in Batches}) \cup dropped
          PROVE  v \in PushedBy(pushed)
      <4>1. v \in dropped \/ \E s \in Batches : v \in ValuesOf(s)
        BY <3>1
      <4> QED BY <1>2, <1>3, <4>1 DEF SomewhereInv
    <3>2. ASSUME v \in PushedBy(pushed)
          PROVE  v \in (UNION {ValuesOf(s) : s \in Batches}) \cup dropped
      <4>1. \/ v \in ValuesOf(list) \/ v \in dropped
            \/ \E c \in Users : v \in ValuesOf(g[c])
            \/ \E u \in taken : v \in ValuesOf(u)
        BY <1>2, <3>2 DEF SomewhereInv
      <4>2. v \in dropped \/ \E s \in Batches : v \in ValuesOf(s)
        BY <1>4, <4>1
      <4> QED BY <4>2
    <3> QED BY <3>1, <3>2
  <2>2. ASSUME NEW v
        PROVE  v \in UNION {{<<c, i>> : i \in 1..pushed[c]} : c \in Users}
                  <=> v \in PushedBy(pushed)
    <3>1. pushed \in [Users -> Nat]
      BY <1>2 DEF SomewhereInv
    <3>2. ASSUME NEW c \in Users, NEW i \in 1..pushed[c], v = <<c, i>> PROVE v \in PushedBy(pushed)
      BY <3>1, <3>2 DEF PushedBy, Values
    <3>3. ASSUME v \in PushedBy(pushed)
          PROVE  v[1] \in Users /\ v[2] \in 1..pushed[v[1]] /\ v = <<v[1], v[2]>>
      BY <3>1, <3>3 DEF PushedBy, Values
    <3> QED BY <3>2, <3>3
  <2> QED BY <2>1, <2>2
<1> QED BY <1>6, <1>7, <1>8 DEF ListsHold, ListsInv

-----------------------------------------------------------------------------
LEMMA ListsStutter == ListsInv /\ UNCHANGED <<listVars, backend>> => ListsInv'
<1> SUFFICES ASSUME ListsInv, UNCHANGED <<listVars, backend>> PROVE ListsInv'
  OBVIOUS
<1>1. UNCHANGED <<list, popper, taken, dropped, pushed, backend>>
  BY DEF listVars
<1>2. Lists(list', GotOf(popper'), taken', dropped', pushed')
  BY <1>1 DEF ListsInv
<1> QED BY <1>1, <1>2 DEF ListsInv

LEMMA PushBackStep ==
    ASSUME ListsInv, NEW c \in Users, ListPushBack(c)
    PROVE  ListsInv'
<1>1. PICK n \in {1, 2}, p \in Nat :
         /\ p = pushed[c] /\ list' = list \o [i \in 1..n |-> <<c, p + i>>]
         /\ pushed' = [pushed EXCEPT ![c] = p + n]
  <2>1. pushed[c] \in Nat
    BY DEF ListsInv, Lists, SomewhereInv
  <2> QED BY <2>1 DEF ListPushBack
<1>2. PICK q \in Nat : q = p + n
  OBVIOUS
<1>3. PICK new : new = [i \in 1..n |-> <<c, p + i>>]
  OBVIOUS
<1>4. new \in Seq(Values) /\ DOMAIN new = 1..n /\ \A i \in 1..n : new[i] = <<c, p + i>>
  <2>1. \A i \in 1..n : <<c, p + i>> \in Values
    BY DEF Values
  <2> QED BY <1>3, <2>1
<1>5. Ordered(new)
  <2> SUFFICES ASSUME NEW i \in 1..n, NEW j \in 1..n, i < j PROVE InOrder(new[i], new[j])
    BY <1>4 DEF Ordered
  <2>1. p + i < p + j /\ new[i][2] = p + i /\ new[j][2] = p + j
    BY <1>4
  <2> QED BY <2>1 DEF InOrder
<1>6. PICK qs : qs = [pushed EXCEPT ![c] = q]
  OBVIOUS
<1>7. pushed \in [Users -> Nat]
  BY DEF ListsInv, Lists, SomewhereInv
<1>8. qs \in [Users -> Nat] /\ qs[c] = q /\ \A d \in Users : d # c => qs[d] = pushed[d]
  BY <1>6, <1>7
<1>9. ASSUME NEW v
      PROVE  v \in ValuesOf(new) <=> v \in Values /\ v[1] = c /\ p < v[2] /\ v[2] <= q
  <2>1. ASSUME NEW i \in 1..n, v = new[i]
        PROVE  v \in Values /\ v[1] = c /\ p < v[2] /\ v[2] <= q
    BY <1>2, <1>4, <2>1 DEF Values
  <2>2. ASSUME v \in Values, v[1] = c, p < v[2], v[2] <= q PROVE \E i \in 1..n : v = new[i]
    <3>1. PICK k \in Nat : k = v[2] /\ v = <<c, k>>
      BY <2>2 DEF Values
    <3>2. PICK i \in 1..n : k = p + i
      <4>1. k - p \in 1..n /\ k = p + (k - p)
        BY <1>2, <2>2, <3>1
      <4> QED BY <4>1
    <3> QED BY <1>4, <3>1, <3>2
  <2> QED BY <1>4, <2>1, <2>2 DEF ValuesOf
<1>10. ASSUME NEW v PROVE v \in PushedBy(qs) <=> v \in PushedBy(pushed) \/ v \in ValuesOf(new)
  <2>1. CASE v \notin Values
    BY <1>9, <2>1 DEF PushedBy
  <2>2. CASE v \in Values
    <3>1. PICK k \in Nat, d \in Users : k = v[2] /\ d = v[1]
      BY <2>2 DEF Values
    <3>2. CASE d = c
      <4>1. v \in PushedBy(qs) <=> 1 <= k /\ k <= q
        BY <1>8, <2>2, <3>1, <3>2 DEF PushedBy
      <4>2. v \in PushedBy(pushed) <=> 1 <= k /\ k <= p
        BY <1>1, <2>2, <3>1, <3>2 DEF PushedBy
      <4>3. v \in ValuesOf(new) <=> p < k /\ k <= q
        BY <1>9, <2>2, <3>1, <3>2
      <4>4. p <= q
        BY <1>2
      <4> QED BY <4>1, <4>2, <4>3, <4>4
    <3>3. CASE d # c
      BY <1>8, <1>9, <2>2, <3>1, <3>3 DEF PushedBy
    <3> QED BY <3>2, <3>3
  <2> QED BY <2>1, <2>2
<1>11. ASSUME NEW v \in ValuesOf(new) PROVE v \notin PushedBy(pushed)
  <2>1. v \in Values /\ v[1] = c /\ p < v[2]
    BY <1>9
  <2>2. PICK k \in Nat : k = v[2]
    BY <2>1 DEF Values
  <2> QED BY <1>1, <2>1, <2>2 DEF PushedBy
<1>12. ASSUME NEW v \in PushedBy(pushed), NEW w \in ValuesOf(new) PROVE InOrder(v, w)
  <2>1. w \in Values /\ w[1] = c /\ p < w[2] /\ v \in Values /\ v[2] <= pushed[v[1]]
    BY <1>9 DEF PushedBy
  <2>2. PICK k \in Nat, l \in Nat : k = w[2] /\ l = v[2]
    BY <2>1 DEF Values
  <2> QED BY <1>1, <2>1, <2>2 DEF InOrder
<1>13. Lists(list, GotOf(popper), taken, dropped, pushed)
  BY DEF ListsInv
<1>14. Lists(list \o new, GotOf(popper), taken, dropped, qs)
  BY <1>4, <1>5, <1>8, <1>10, <1>11, <1>12, <1>13, PushKeeps
<1>15. list' = list \o new /\ pushed' = qs
  BY <1>1, <1>2, <1>3, <1>6
<1>16. UNCHANGED <<backend, popper, taken, dropped>>
  BY DEF ListPushBack, kvVars
<1>17. Lists(list', GotOf(popper'), taken', dropped', pushed')
  BY <1>14, <1>15, <1>16
<1> QED BY <1>16, <1>17 DEF ListsInv

LEMMA PopFrontStep ==
    ASSUME ListsInv, NEW c \in Users, NEW n \in {1, 2}, ListPopFront(c, n)
    PROVE  ListsInv'
<1>1. list \in Seq(Values) /\ Ordered(list) /\ list # <<>>
  BY DEF ListsInv, Lists, OrderInv, ListPopFront
<1>2. PICK m : m = IF n < Len(list) THEN n ELSE Len(list)
  OBVIOUS
<1>3. m \in 1..Len(list)
  BY <1>1, <1>2
<1>4. PICK a, b : a = SubSeq(list, 1, m) /\ b = SubSeq(list, m + 1, Len(list))
  OBVIOUS
<1>5. list' = b /\ taken' = taken \cup {a} /\ UNCHANGED <<backend, popper, pushed, dropped>>
  BY <1>2, <1>4 DEF ListPopFront, kvVars
<1>6. /\ a \in Seq(Values) /\ b \in Seq(Values) /\ Ordered(a) /\ Ordered(b)
      /\ ValuesOf(list) = ValuesOf(a) \cup ValuesOf(b) /\ Ahead(a, b)
  BY <1>1, <1>3, <1>4, CutIs
<1>7. Lists(list, GotOf(popper), taken, dropped, pushed)
  BY DEF ListsInv
<1>8. Lists(b, GotOf(popper), taken \cup {a}, dropped, pushed)
  BY <1>6, <1>7, CutKeeps
<1>9. Lists(list', GotOf(popper'), taken', dropped', pushed')
  BY <1>5, <1>8
<1> QED BY <1>5, <1>9 DEF ListsInv

LEMMA PopStartStep ==
    ASSUME ListsInv, NEW c \in Users, NEW n \in {1, 2}, PopStart(c, n)
    PROVE  ListsInv'
<1>1. PICK w : w = [left |-> n, got |-> <<>>]
  OBVIOUS
<1>2. w \in PopRows /\ w.left = n /\ w.got = <<>>
  BY <1>1, NoneIs DEF PopRows
<1>3. /\ popper' = [popper EXCEPT ![c] = w] /\ UNCHANGED <<list, pushed, taken, dropped, backend>>
      /\ backend = "redka" /\ popper[c].left = 0
  BY <1>1 DEF PopStart, kvVars
<1>4. popper' \in [Users -> PopRows] /\ popper'[c] = w
      /\ \A d \in Users : d # c => popper'[d] = popper[d]
  BY <1>2, <1>3 DEF ListsInv
<1>5. GotOf(popper') = GotOf(popper)
  <2>1. \A d \in Users : popper'[d].got = popper[d].got
    BY <1>2, <1>3, <1>4 DEF ListsInv
  <2> QED BY <2>1 DEF GotOf
<1>6. Lists(list', GotOf(popper'), taken', dropped', pushed')
  BY <1>3, <1>5 DEF ListsInv
<1>7. \A d \in Users : /\ popper'[d].left > 0 => backend' = "redka"
                       /\ popper'[d].left = 0 => popper'[d].got = <<>>
  BY <1>2, <1>3, <1>4 DEF ListsInv
<1> QED BY <1>3, <1>4, <1>6, <1>7 DEF ListsInv

\* What becomes of the callers when one of them has got s and has n to go.
LEMMA GotIs ==
    ASSUME ListsInv, NEW c \in Users, NEW w \in PopRows, popper' = [popper EXCEPT ![c] = w],
           UNCHANGED backend, w.left > 0 => backend = "redka", w.left = 0 => w.got = <<>>
    PROVE  /\ popper' \in [Users -> PopRows]
           /\ GotOf(popper') = [GotOf(popper) EXCEPT ![c] = w.got]
           /\ \A d \in Users : /\ popper'[d].left > 0 => backend' = "redka"
                               /\ popper'[d].left = 0 => popper'[d].got = <<>>
<1>1. popper' \in [Users -> PopRows] /\ popper'[c] = w
      /\ \A d \in Users : d # c => popper'[d] = popper[d]
  BY DEF ListsInv
<1>2. GotOf(popper') = [GotOf(popper) EXCEPT ![c] = w.got]
  BY <1>1 DEF GotOf
<1> QED BY <1>1, <1>2 DEF ListsInv

LEMMA PopRow ==
    ASSUME NEW n \in Nat, NEW s \in Seq(Values), NEW w, w = [left |-> n, got |-> s]
    PROVE  w \in PopRows /\ w.left = n /\ w.got = s
BY DEF PopRows

LEMMA PopOneStep ==
    ASSUME ListsInv, NEW c \in Users, PopOne(c)
    PROVE  ListsInv'
<1>1. PICK e \in PopRows : e = popper[c]
  BY DEF ListsInv
<1>2. PICK n \in Nat, s \in Seq(Values) : n = e.left /\ s = e.got
  BY DEF PopRows
<1>3. n > 0 /\ list # <<>> /\ list' = Tail(list) /\ UNCHANGED <<backend, pushed, dropped>>
  BY <1>1, <1>2 DEF PopOne, kvVars
<1>4. backend = "redka"
  BY <1>1, <1>2, <1>3 DEF ListsInv
<1>5. Lists(list, GotOf(popper), taken, dropped, pushed) /\ list \in Seq(Values) /\ Ordered(list)
  BY DEF ListsInv, Lists, OrderInv
<1>6. PICK v, b : v = Head(list) /\ b = Tail(list)
  OBVIOUS
<1>7. /\ v \in Values /\ b \in Seq(Values) /\ Ordered(b)
      /\ ValuesOf(list) = {v} \cup ValuesOf(b) /\ Ahead(<<v>>, b)
  <2>1. 1 \in 1..Len(list) /\ SubSeq(list, 1, 1) = <<v>> /\ SubSeq(list, 1 + 1, Len(list)) = b
    <3>1. list \in Seq(Values) /\ list # <<>>
      BY <1>3, <1>5
    <3>2. 1 \in 1..Len(list) /\ v = list[1]
      BY <1>6, <3>1
    <3>3. SubSeq(list, 1, 1) = <<list[1]>>
      <4>1. v \in Values
        BY ONLY <3>1, <3>2
      <4>2. <<v>> \in Seq(Values) /\ Len(<<v>>) = 1 /\ <<v>>[1] = v
        BY ONLY <4>1
      <4>3. /\ SubSeq(list, 1, 1) \in Seq(Values) /\ Len(SubSeq(list, 1, 1)) = 1
            /\ SubSeq(list, 1, 1)[1] = list[1]
        BY <3>2, <4>1, SubSeqProperties
      <4>4. \A i \in 1..1 : SubSeq(list, 1, 1)[i] = <<v>>[i]
        BY <3>2, <4>2, <4>3
      <4>5. SubSeq(list, 1, 1) = <<v>>
        BY <4>2, <4>3, <4>4, SeqEqual
      <4> QED BY <3>2, <4>5
    <3>4. SubSeq(list, 1 + 1, Len(list)) = Tail(list)
      BY <3>1, TailIsSubSeq
    <3> QED BY <1>6, <3>2, <3>3, <3>4
  <2>2. v \in Values
    BY <1>3, <1>5, <1>6
  <2>3. /\ b \in Seq(Values) /\ Ordered(b)
        /\ ValuesOf(list) = ValuesOf(<<v>>) \cup ValuesOf(b) /\ Ahead(<<v>>, b)
    BY <1>5, <2>1, CutIs
  <2> QED BY <2>2, <2>3, OneIs
<1>14. PICK g : g = GotOf(popper)
  OBVIOUS
<1>8. g = GotOf(popper) /\ g[c] = s
  BY <1>1, <1>2, <1>14 DEF GotOf
<1>9. g \in [Users -> Seq(Values)]
  BY <1>5, <1>8 DEF Lists, OrderInv
<1>10. PICK h : h = [g EXCEPT ![c] = Append(s, v)]
  OBVIOUS
<1>11. Lists(b, h, taken, dropped, pushed)
  <2>1. Lists(b, [g EXCEPT ![c] = Append(g[c], v)], taken, dropped, pushed)
    BY <1>5, <1>7, <1>8, OneMoreKeeps
  <2> QED BY <1>8, <1>10, <2>1
<1>12. CASE n = 1
  <2>1. popper' = [popper EXCEPT ![c] = [left |-> 0, got |-> <<>>]]
        /\ taken' = taken \cup {Append(s, v)}
    BY <1>1, <1>2, <1>6, <1>12 DEF PopOne
  <2>2. h[c] = Append(s, v) /\ [h EXCEPT ![c] = <<>>] = [g EXCEPT ![c] = <<>>]
    BY <1>9, <1>10
  <2>3. Lists(b, [h EXCEPT ![c] = <<>>], taken \cup {h[c]}, dropped, pushed)
    BY <1>11, EndKeeps
  <2>4. <<>> \in Seq(Values)
    BY NoneIs
  <2>5. /\ popper' \in [Users -> PopRows]
        /\ GotOf(popper') = [GotOf(popper) EXCEPT ![c] = <<>>]
        /\ \A d \in Users : /\ popper'[d].left > 0 => backend' = "redka"
                            /\ popper'[d].left = 0 => popper'[d].got = <<>>
    <3>1. PICK w : w = [left |-> 0, got |-> <<>>]
      OBVIOUS
    <3>2. w \in PopRows /\ w.left = 0 /\ w.got = <<>>
      BY <2>4, <3>1, PopRow
    <3>3. popper' = [popper EXCEPT ![c] = w]
      BY <2>1, <3>1
    <3>4. UNCHANGED backend /\ (w.left > 0 => backend = "redka") /\ (w.left = 0 => w.got = <<>>)
      BY <1>3, <3>2
    <3> HIDE <2>1
    <3>5. /\ popper' \in [Users -> PopRows]
          /\ GotOf(popper') = [GotOf(popper) EXCEPT ![c] = w.got]
          /\ \A d \in Users : /\ popper'[d].left > 0 => backend' = "redka"
                              /\ popper'[d].left = 0 => popper'[d].got = <<>>
      BY <3>2, <3>3, <3>4, GotIs
    <3> QED BY <3>2, <3>5
  <2>6. Lists(list', GotOf(popper'), taken', dropped', pushed')
    BY <1>3, <1>6, <1>8, <2>1, <2>2, <2>3, <2>5
  <2> QED BY <1>3, <2>5, <2>6 DEF ListsInv
<1>13. CASE n # 1
  <2>1. PICK k \in Nat : k = n - 1 /\ k > 0
    BY <1>3, <1>13
  <2>2. popper' = [popper EXCEPT ![c] = [left |-> k, got |-> Append(s, v)]] /\ UNCHANGED taken
    BY <1>1, <1>2, <1>6, <1>13, <2>1 DEF PopOne
  <2>6. Append(s, v) \in Seq(Values)
    BY ONLY s \in Seq(Values), <1>7
  <2>3. PICK x \in Seq(Values) : x = Append(s, v)
    BY Zenon, <2>6
  <2>4. /\ popper' \in [Users -> PopRows]
        /\ GotOf(popper') = [GotOf(popper) EXCEPT ![c] = x]
        /\ \A d \in Users : /\ popper'[d].left > 0 => backend' = "redka"
                            /\ popper'[d].left = 0 => popper'[d].got = <<>>
    <3>1. PICK w : w = [left |-> k, got |-> x]
      OBVIOUS
    <3>2. w \in PopRows /\ w.left = k /\ w.got = x
      BY <3>1, PopRow
    <3>3. popper' = [popper EXCEPT ![c] = w]
      BY <2>2, <2>3, <3>1
    <3> QED
      <4>1. UNCHANGED backend /\ (w.left > 0 => backend = "redka") /\ (w.left = 0 => w.got = <<>>)
        BY <1>3, <1>4, <2>1, <3>2
      <4>2. /\ popper' \in [Users -> PopRows]
            /\ GotOf(popper') = [GotOf(popper) EXCEPT ![c] = w.got]
            /\ \A d \in Users : /\ popper'[d].left > 0 => backend' = "redka"
                                /\ popper'[d].left = 0 => popper'[d].got = <<>>
        BY <3>2, <3>3, <4>1, GotIs
      <4> QED BY <3>2, <4>2
  <2>5. Lists(list', GotOf(popper'), taken', dropped', pushed')
    BY <1>3, <1>6, <1>8, <1>10, <1>11, <2>2, <2>3, <2>4
  <2> QED BY <1>3, <2>4, <2>5 DEF ListsInv
<1> QED BY <1>12, <1>13

LEMMA PopEndStep ==
    ASSUME ListsInv, NEW c \in Users, PopEnd(c)
    PROVE  ListsInv'
<1>1. PICK s \in Seq(Values) : s = popper[c].got
  BY DEF ListsInv, PopRows
<1>2. /\ popper' = [popper EXCEPT ![c] = [left |-> 0, got |-> <<>>]]
      /\ UNCHANGED <<backend, list, pushed>> /\ backend = "redka"
      /\ \/ taken' = taken \cup {s} /\ UNCHANGED dropped
         \/ dropped' = dropped \cup ValuesOf(s) /\ UNCHANGED taken
  BY <1>1 DEF PopEnd, kvVars, ListsInv, ValuesOf
<1>3. <<>> \in Seq(Values)
  BY NoneIs
<1>4. /\ popper' \in [Users -> PopRows]
      /\ GotOf(popper') = [GotOf(popper) EXCEPT ![c] = <<>>]
      /\ \A d \in Users : /\ popper'[d].left > 0 => backend' = "redka"
                          /\ popper'[d].left = 0 => popper'[d].got = <<>>
  <2>1. PICK w : w = [left |-> 0, got |-> <<>>]
    OBVIOUS
  <2>2. w \in PopRows /\ w.left = 0 /\ w.got = <<>>
    BY <1>3, <2>1, PopRow
  <2>3. popper' = [popper EXCEPT ![c] = w]
    BY <1>2, <2>1
  <2> QED
    <3>1. UNCHANGED backend /\ (w.left > 0 => backend = "redka") /\ (w.left = 0 => w.got = <<>>)
      BY <1>2, <2>2
    <3> QED BY <2>2, <2>3, <3>1, GotIs
<1>9. PICK g : g = GotOf(popper)
  OBVIOUS
<1>5. g = GotOf(popper) /\ g[c] = s
  BY <1>1, <1>9 DEF GotOf
<1>6. Lists(list, g, taken, dropped, pushed)
  BY <1>5 DEF ListsInv
<1>7. /\ Lists(list, [g EXCEPT ![c] = <<>>], taken \cup {s}, dropped, pushed)
      /\ Lists(list, [g EXCEPT ![c] = <<>>], taken, dropped \cup ValuesOf(s), pushed)
  BY <1>5, <1>6, EndKeeps
<1>8. Lists(list', GotOf(popper'), taken', dropped', pushed')
  BY <1>2, <1>4, <1>5, <1>7
<1> QED BY <1>2, <1>4, <1>8 DEF ListsInv

LEMMA ListStep == ListsInv /\ ListNext => ListsInv'
<1> SUFFICES ASSUME ListsInv, ListNext PROVE ListsInv'
  OBVIOUS
<1>1. CASE Outage
  BY <1>1, ListsStutter DEF Outage
<1>2. ASSUME NEW c \in Users, ListPushBack(c) \/ PopOne(c) \/ PopEnd(c) PROVE ListsInv'
  BY <1>2, PushBackStep, PopOneStep, PopEndStep
<1>3. ASSUME NEW c \in Users, NEW n \in {1, 2}, ListPopFront(c, n) \/ PopStart(c, n)
      PROVE  ListsInv'
  BY <1>3, PopFrontStep, PopStartStep
<1> QED BY <1>1, <1>2, <1>3 DEF ListNext

-----------------------------------------------------------------------------
(* Sessions *)

SessionRows == [until : Nat, revoked : BOOLEAN, lost : BOOLEAN]
Stored == {Absent, "session", "1"} \cup Nat
Entries == [val : Stored, until : Nat]

\* A session that was revoked is in no store, and one that nothing was done to
\* is in a store that outlives the process.
StoredInv ==
    /\ clock \in Nat
    /\ session \in [Tokens -> SessionRows]
    /\ DOMAIN memory = Tokens /\ kv \in [Keys -> Entries]
    /\ \A t \in Tokens : session[t].revoked => session[t].until # 0
    /\ \A t \in Tokens : store = "memory" /\ memory[t] # 0 =>
         memory[t] = session[t].until /\ ~session[t].revoked
    /\ \A t \in Tokens : store # "memory" =>
         /\ session[t].revoked => kv[Key(t)].val = Absent
         /\ session[t].until # 0 /\ ~session[t].lost =>
              kv[Key(t)].val = "session" /\ kv[Key(t)].until = session[t].until

LEMMA SessionsStart == CacheInit /\ SessInit => StoredInv
<1> SUFFICES ASSUME CacheInit, SessInit PROVE StoredInv
  OBVIOUS
<1>1. /\ clock = 0 /\ DOMAIN kv = Keys /\ memory = [t \in Tokens |-> 0]
      /\ session = [t \in Tokens |-> [until |-> 0, revoked |-> FALSE, lost |-> FALSE]]
  BY DEF CacheInit, SessInit
<1>2. [until |-> 0, revoked |-> FALSE, lost |-> FALSE] \in SessionRows
  BY DEF SessionRows
<1>4. kv \in [Keys -> Entries]
  <2>1. PICK r \in Entries : r = [val |-> Absent, until |-> 0]
    BY DEF Entries, Stored
  <2>2. kv = [k \in Keys |-> r]
    BY <2>1 DEF CacheInit
  <2> QED BY <2>2
<1>3. session \in [Tokens -> SessionRows]
      /\ \A t \in Tokens : session[t].until = 0 /\ session[t].revoked = FALSE
  BY <1>1, <1>2
<1> QED BY <1>1, <1>3, <1>4 DEF StoredInv

LEMMA KeysApart ==
    /\ \A t \in Tokens : Key(t) \in Keys
    /\ \A t, u \in Tokens : t # u => Key(t) # Key(u)
BY SessionsAssumption DEF Key

LEMMA SessionsAreRight == StoredInv => SessionsHold
<1> SUFFICES ASSUME StoredInv, NEW t \in Tokens
             PROVE  /\ ResolveSession(t) = "ok" => clock < session[t].until /\ ~session[t].revoked
                    /\ store # "memory" /\ StoreAnswers /\ clock < session[t].until
                         /\ ~session[t].lost => ResolveSession(t) = "ok"
  BY DEF SessionsHold
<1>1. PICK u \in Nat, n \in Nat : u = session[t].until /\ n = clock
  BY DEF StoredInv, SessionRows
<1>2. ASSUME ResolveSession(t) = "ok" PROVE clock < session[t].until /\ ~session[t].revoked
  <2>1. GetSession(t) /\ ~(u <= n)
    BY <1>1, <1>2 DEF ResolveSession
  <2>2. ~session[t].revoked
    <3>1. CASE store = "memory"
      BY <2>1, <3>1 DEF GetSession, StoredInv
    <3>2. CASE store # "memory"
      BY <2>1, <3>2 DEF GetSession, StoredInv, Holds
    <3> QED BY <3>1, <3>2
  <2>3. n < u
    BY <2>1
  <2> QED BY <1>1, <2>2, <2>3
<1>3. ASSUME store # "memory", StoreAnswers, clock < session[t].until, ~session[t].lost
      PROVE  ResolveSession(t) = "ok"
  <2>1. u # 0 /\ ~(u <= n) /\ n < u
    BY <1>1, <1>3
  <2>2. kv[Key(t)].val = "session" /\ kv[Key(t)].until = u
    BY <1>1, <1>3, <2>1 DEF StoredInv
  <2>3. "session" # Absent
    BY SessionsAssumption
  <2>4. GetSession(t)
    BY <1>1, <1>3, <2>1, <2>2, <2>3 DEF GetSession, Holds
  <2> QED BY <1>1, <1>3, <2>1, <2>4 DEF ResolveSession
<1> QED BY <1>2, <1>3

LEMMA SessionsStutter ==
    StoredInv /\ UNCHANGED <<store, memory, session, kv>> /\ clock' \in Nat => StoredInv'
BY DEF StoredInv

\* One session changes, with what its store keeps of it.
LEMMA SessionKept ==
    ASSUME StoredInv, NEW t \in Tokens, NEW f \in SessionRows, UNCHANGED <<store, clock>>,
           session' = [session EXCEPT ![t] = f], f.revoked => f.until # 0,
           DOMAIN memory' = Tokens, kv' \in [Keys -> Entries],
           \A u \in Tokens : u # t => memory'[u] = memory[u] /\ kv'[Key(u)] = kv[Key(u)],
           store = "memory" /\ memory'[t] # 0 => memory'[t] = f.until /\ ~f.revoked,
           store # "memory" => /\ f.revoked => kv'[Key(t)].val = Absent
                               /\ f.until # 0 /\ ~f.lost => /\ kv'[Key(t)].val = "session"
                                                            /\ kv'[Key(t)].until = f.until
    PROVE  StoredInv'
<1>1. session' \in [Tokens -> SessionRows] /\ session'[t] = f
      /\ \A u \in Tokens : u # t => session'[u] = session[u]
  BY DEF StoredInv
<1>2. \A u \in Tokens : session'[u].revoked => session'[u].until # 0
  BY <1>1 DEF StoredInv
<1>3. \A u \in Tokens : store' = "memory" /\ memory'[u] # 0 =>
         memory'[u] = session'[u].until /\ ~session'[u].revoked
  BY <1>1 DEF StoredInv
<1>4. \A u \in Tokens : store' # "memory" =>
         /\ session'[u].revoked => kv'[Key(u)].val = Absent
         /\ session'[u].until # 0 /\ ~session'[u].lost =>
              kv'[Key(u)].val = "session" /\ kv'[Key(u)].until = session'[u].until
  BY <1>1 DEF StoredInv
<1> QED BY <1>1, <1>2, <1>3, <1>4 DEF StoredInv

LEMMA SetKeeps ==
    ASSUME StoredInv, NEW t \in Tokens, NEW r \in Entries, kv' = [kv EXCEPT ![Key(t)] = r]
    PROVE  /\ kv' \in [Keys -> Entries] /\ kv'[Key(t)] = r
           /\ \A u \in Tokens : u # t => kv'[Key(u)] = kv[Key(u)]
BY KeysApart DEF StoredInv

LEMMA StoreSessionStep ==
    ASSUME StoredInv, NEW t \in Tokens, StoreSession(t)
    PROVE  StoredInv'
<1>1. PICK e \in SessionRows : e = session[t]
  BY DEF StoredInv
<1>2. PICK n \in Nat : n = clock + SessionTTL /\ n # 0
  BY SessionsAssumption DEF StoredInv
<1>3. PICK f : f = [e EXCEPT !.until = n]
  OBVIOUS
<1>4. f \in SessionRows /\ f.until = n /\ f.revoked = e.revoked
  BY <1>3 DEF SessionRows
<1>5. e.until = 0 /\ session' = [session EXCEPT ![t] = f] /\ UNCHANGED <<store, clock>>
  BY <1>1, <1>2, <1>3 DEF StoreSession
<1>6. ~e.revoked
  BY <1>1, <1>5 DEF StoredInv
<1>7. CASE store = "memory"
  <2>1. memory' = [memory EXCEPT ![t] = n] /\ UNCHANGED kv
    BY <1>2, <1>7 DEF StoreSession
  <2>2. /\ DOMAIN memory' = Tokens /\ memory'[t] = n /\ kv' \in [Keys -> Entries]
        /\ \A u \in Tokens : u # t => memory'[u] = memory[u] /\ kv'[Key(u)] = kv[Key(u)]
    BY <2>1 DEF StoredInv
  <2> QED BY <1>2, <1>4, <1>5, <1>6, <1>7, <2>2, SessionKept
<1>8. CASE store # "memory"
  <2>1. PICK r \in Entries : r = [val |-> "session", until |-> n]
    BY DEF Entries, Stored
  <2>2. SessionTTL > 0
    BY SessionsAssumption
  <2>3. kv' = [kv EXCEPT ![Key(t)] = r] /\ UNCHANGED memory
    BY <1>2, <1>8, <2>1, <2>2 DEF StoreSession, Set
  <2>4. /\ kv' \in [Keys -> Entries] /\ kv'[Key(t)] = r
        /\ \A u \in Tokens : u # t => kv'[Key(u)] = kv[Key(u)]
    BY <2>3, SetKeeps
  <2>5. kv'[Key(t)].val = "session" /\ kv'[Key(t)].until = n
    BY <2>1, <2>4
  <2>6. DOMAIN memory' = Tokens /\ \A u \in Tokens : memory'[u] = memory[u]
    BY <2>3 DEF StoredInv
  <2> HIDE <2>1
  <2> QED BY <1>2, <1>4, <1>5, <1>6, <1>8, <2>4, <2>5, <2>6, SessionKept
<1> QED BY <1>7, <1>8

LEMMA GoneSession ==
    ASSUME StoredInv, NEW t \in Tokens, NEW f \in SessionRows, UNCHANGED <<store, clock>>,
           session' = [session EXCEPT ![t] = f], f.revoked => f.until # 0, f.lost,
           IF store = "memory" THEN memory' = [memory EXCEPT ![t] = 0] /\ UNCHANGED kv
                               ELSE Del(Key(t)) /\ UNCHANGED memory
    PROVE  StoredInv'
<1>1. CASE store = "memory"
  <2>2. /\ DOMAIN memory' = Tokens /\ memory'[t] = 0 /\ kv' \in [Keys -> Entries]
        /\ \A u \in Tokens : u # t => memory'[u] = memory[u] /\ kv'[Key(u)] = kv[Key(u)]
    BY <1>1 DEF StoredInv
  <2> QED BY <1>1, <2>2, SessionKept
<1>2. CASE store # "memory"
  <2>1. PICK e \in Entries : e = kv[Key(t)]
    BY KeysApart DEF StoredInv
  <2>5. PICK r : r = [e EXCEPT !.val = Absent]
    OBVIOUS
  <2>6. r \in Entries /\ r.val = Absent
    BY <2>5 DEF Entries, Stored
  <2>2. kv' = [kv EXCEPT ![Key(t)] = r] /\ UNCHANGED memory
    BY <1>2, <2>1, <2>5 DEF Del
  <2>3. /\ kv' \in [Keys -> Entries] /\ kv'[Key(t)] = r
        /\ \A u \in Tokens : u # t => kv'[Key(u)] = kv[Key(u)]
    BY <2>2, <2>6, SetKeeps
  <2>4. DOMAIN memory' = Tokens /\ \A u \in Tokens : memory'[u] = memory[u]
    BY <2>2 DEF StoredInv
  <2> HIDE <2>5
  <2> QED BY <1>2, <2>3, <2>4, <2>6, SessionKept
<1> QED BY <1>1, <1>2

LEMMA RevokeStep ==
    ASSUME StoredInv, NEW t \in Tokens, RevokeSession(t)
    PROVE  StoredInv'
<1>1. PICK e \in SessionRows : e = session[t]
  BY DEF StoredInv
<1>2. PICK answered \in BOOLEAN :
        session' = [session EXCEPT ![t].revoked = @ \/ answered, ![t].lost = TRUE]
  BY DEF RevokeSession
<1>3. PICK f : f = [e EXCEPT !.revoked = @ \/ answered, !.lost = TRUE]
  OBVIOUS
<1>4. f \in SessionRows /\ f.until = e.until /\ f.lost
  BY <1>3 DEF SessionRows
<1>5. session' = [session EXCEPT ![t] = f]
  BY <1>1, <1>2, <1>3
<1>6. e.until # 0 /\ UNCHANGED <<store, clock>>
      /\ IF store = "memory" THEN memory' = [memory EXCEPT ![t] = 0] /\ UNCHANGED kv
                            ELSE Del(Key(t)) /\ UNCHANGED memory
  BY <1>1 DEF RevokeSession
<1> HIDE <1>3
<1> QED BY <1>4, <1>5, <1>6, GoneSession

LEMMA GarbledStep ==
    ASSUME StoredInv, NEW t \in Tokens, Garbled(t)
    PROVE  StoredInv'
<1>1. PICK e \in SessionRows : e = session[t]
  BY DEF StoredInv
<1>2. PICK f : f = [e EXCEPT !.lost = TRUE]
  OBVIOUS
<1>3. f \in SessionRows /\ f.until = e.until /\ f.lost /\ f.revoked = e.revoked
  BY <1>2 DEF SessionRows
<1>4. session' = [session EXCEPT ![t] = f]
  BY <1>1, <1>2 DEF Garbled
<1>5. f.revoked => f.until # 0
  BY <1>1, <1>3 DEF StoredInv
<1>6. UNCHANGED <<store, clock>> /\ store # "memory" /\ Del(Key(t)) /\ UNCHANGED memory
  BY DEF Garbled
<1> HIDE <1>2
<1> QED BY <1>3, <1>4, <1>5, <1>6, GoneSession

LEMMA SessionStep == StoredInv /\ SessionNext => StoredInv'
<1> SUFFICES ASSUME StoredInv, SessionNext PROVE StoredInv'
  OBVIOUS
<1>1. CASE (Tick \/ Outage) /\ UNCHANGED <<sessVars, smsVars>>
  <2>1. UNCHANGED <<store, memory, session, kv>> /\ clock' \in Nat
    BY <1>1 DEF StoredInv, Tick, Outage, sessVars
  <2> QED BY <2>1, SessionsStutter
<1>2. CASE Restart
  <2>1. memory' = [t \in Tokens |-> 0] /\ UNCHANGED <<store, session, kv, clock>>
    BY <1>2 DEF Restart, kvVars
  <2>2. DOMAIN memory' = Tokens /\ \A t \in Tokens : memory'[t] = 0
    BY <2>1
  <2> QED BY <2>1, <2>2 DEF StoredInv
<1>3. CASE \E t \in Tokens : StoreSession(t) \/ RevokeSession(t) \/ Garbled(t)
  BY <1>3, StoreSessionStep, RevokeStep, GarbledStep
<1> QED BY <1>1, <1>2, <1>3 DEF SessionNext

LEMMA SessionStutters ==
    StoredInv /\ UNCHANGED <<cacheVars, sessVars, smsVars>> => StoredInv'
BY SessionsStutter DEF StoredInv, cacheVars, kvVars, sessVars

-----------------------------------------------------------------------------
(* Codes *)

Steps == {"ready", "send", "store", "mark", "delete"}
SmsRows ==
    [at : Steps, phone : CodePhones \cup {Absent}, code : Nat, right : BOOLEAN, old : BOOLEAN]
SendRows == [phone : CodePhones, at : Nat, code : Nat]
HasSent(S, n) == \E s \in S : s.code = n

CodeTypes ==
    /\ clock \in Nat /\ kv \in [Keys -> Entries] /\ sms \in [Users -> SmsRows]
    /\ nextCode \in Nat \ {0} /\ uses \in [0..MaxCodes -> Nat] /\ stored \in [CodePhones -> Nat]
    /\ sends \subseteq SendRows
    /\ \A c \in Users : sms[c].at # "ready" =>
         sms[c].phone \in CodePhones /\ sms[c].code \in 1..MaxCodes /\ sms[c].code < nextCode
    /\ \A s \in sends : s.at <= clock /\ s.code \in 1..MaxCodes /\ s.code < nextCode
    /\ \A p \in CodePhones :
         kv[Code(p)].val \in {Absent} \cup 1..MaxCodes /\ kv[Rate(p)].val \in {Absent, "1"}

\* A code that is kept, or on its way to be kept, was not used yet.
KeptInv ==
    \A p \in CodePhones, n \in 1..MaxCodes : kv[Code(p)].val = n =>
        /\ uses[n] = 0 /\ HasSent(sends, n)
        /\ \A c \in Users : sms[c].at \in {"send", "store"} => sms[c].code # n
        /\ \A q \in CodePhones : q # p => kv[Code(q)].val # n

FreshInv ==
    \A c \in Users : sms[c].at \in {"send", "store"} =>
        /\ uses[sms[c].code] = 0
        /\ \A d \in Users : d # c /\ sms[d].at \in {"send", "store", "delete"} =>
              sms[d].code # sms[c].code

SentInv ==
    /\ \A c \in Users : sms[c].at = "send" => ~HasSent(sends, sms[c].code)
    /\ \A c \in Users : sms[c].at \in {"store", "delete"} => HasSent(sends, sms[c].code)
    /\ \A n \in 1..MaxCodes : uses[n] > 0 => HasSent(sends, n)
    /\ \A s, t \in sends : s.code = t.code => s = t

\* A code that was read was in time, and may be kept for its phone only.
UsesInv ==
    /\ \A c \in Users : sms[c].at = "delete" =>
         /\ backend # "redis" /\ ~sms[c].old
         /\ \A q \in CodePhones : kv[Code(q)].val = sms[c].code => q = sms[c].phone
    /\ backend = "redis" => \A n \in 1..MaxCodes : uses[n] <= 1
    /\ overdue = {} /\ (uses[Development] > 0 => ~enabled)
    /\ \A p \in CodePhones : kv[Code(p)].val # Absent => kv[Code(p)].until = stored[p] + CodeTTL

\* Each message of the interval has a request that goes on, or a mark.
WindowInv == ~blind =>
    \A s \in sends : s.at + SendInterval > clock =>
      \/ \E c \in Users : /\ sms[c].at \in {"store", "mark"} /\ sms[c].code = s.code
                          /\ sms[c].phone = s.phone
      \/ /\ kv[Rate(s.phone)].val = "1"
         /\ s.at + SendInterval <= kv[Rate(s.phone)].until

CodesInv == CodeTypes /\ KeptInv /\ FreshInv /\ SentInv /\ UsesInv /\ WindowInv

LEMMA CodeKeys ==
    /\ \A p \in CodePhones : Code(p) \in Keys /\ Rate(p) \in Keys
    /\ \A p, q \in CodePhones : Code(p) # Rate(q)
    /\ \A p, q \in CodePhones : p # q => Code(p) # Code(q) /\ Rate(p) # Rate(q)
BY SessionsAssumption DEF Code, Rate

LEMMA ReadyIs ==
    /\ Ready \in SmsRows /\ Ready.at = "ready" /\ Ready.code = 0 /\ Ready.phone = Absent
BY DEF Ready, SmsRows, Steps

LEMMA Numbers ==
    ASSUME NEW n \in 1..MaxCodes
    PROVE  n \in 0..MaxCodes /\ n # Development /\ n # Absent /\ n \in Nat
BY SessionsAssumption DEF Development

\* One caller goes on.
LEMMA OneGoes ==
    ASSUME CodesInv, NEW c \in Users, NEW r \in SmsRows, To(c, r)
    PROVE  /\ sms' \in [Users -> SmsRows] /\ sms'[c] = r
           /\ \A d \in Users : d # c => sms'[d] = sms[d]
BY DEF To, CodesInv, CodeTypes

LEMMA CodesStart == CacheInit /\ SessInit => CodesInv
<1> SUFFICES ASSUME CacheInit, SessInit PROVE CodesInv
  OBVIOUS
<1>1. /\ clock = 0 /\ sends = {} /\ nextCode = 1 /\ blind = FALSE /\ overdue = {}
      /\ sms = [c \in Users |-> Ready] /\ uses = [n \in 0..MaxCodes |-> 0]
      /\ stored = [p \in CodePhones |-> 0]
  BY DEF CacheInit, SessInit
<1>2. sms \in [Users -> SmsRows] /\ \A c \in Users : sms[c].at = "ready"
  BY <1>1, ReadyIs
<1>3. kv \in [Keys -> Entries] /\ \A k \in Keys : kv[k].val = Absent
  <2>1. PICK r \in Entries : r = [val |-> Absent, until |-> 0]
    BY DEF Entries, Stored
  <2>2. kv = [k \in Keys |-> r]
    BY <2>1 DEF CacheInit
  <2> QED BY <2>1, <2>2
<1>4. /\ uses \in [0..MaxCodes -> Nat] /\ uses[Development] = 0
      /\ \A n \in 1..MaxCodes : uses[n] = 0
  <2>1. Development \in 0..MaxCodes
    BY SessionsAssumption DEF Development
  <2> QED BY <1>1, <2>1, Numbers
<1>5. CodeTypes
  <2>1. sends \subseteq SendRows /\ (\A s \in sends : FALSE) /\ stored \in [CodePhones -> Nat]
    BY <1>1
  <2>4. nextCode \in Nat \ {0}
    BY ONLY <1>1
  <2>2. clock \in Nat
    BY ONLY <1>1
  <2>3. \A p \in CodePhones : kv[Code(p)].val = Absent /\ kv[Rate(p)].val = Absent
    BY <1>3, CodeKeys
  <2> QED BY <1>2, <1>3, <1>4, <2>1, <2>2, <2>3, <2>4 DEF CodeTypes
<1>6. KeptInv
  BY <1>3, Numbers, CodeKeys DEF KeptInv
<1>7. FreshInv /\ SentInv
  BY <1>1, <1>2, <1>4 DEF FreshInv, SentInv
<1>8. UsesInv
  BY <1>1, <1>2, <1>3, <1>4, CodeKeys DEF UsesInv
<1>9. WindowInv
  BY <1>1 DEF WindowInv
<1> QED BY <1>5, <1>6, <1>7, <1>8, <1>9 DEF CodesInv

LEMMA CodesAreRight == CodesInv => CodesHold
<1> SUFFICES ASSUME CodesInv PROVE CodesHold
  OBVIOUS
<1>1. ASSUME NEW n \in 1..MaxCodes, uses[n] > 0
      PROVE  /\ \E s \in sends : s.code = n
             /\ \A p \in CodePhones : kv[Code(p)].val # n
             /\ backend = "redis" => uses[n] = 1
  <2>1. HasSent(sends, n) /\ (backend = "redis" => uses[n] <= 1)
    BY <1>1 DEF CodesInv, SentInv, UsesInv
  <2>2. uses[n] \in Nat
    BY Numbers DEF CodesInv, CodeTypes
  <2>3. uses[n] # 0 /\ (uses[n] <= 1 => uses[n] = 1)
    BY <1>1, <2>2
  <2> QED BY <2>1, <2>3 DEF HasSent, CodesInv, KeptInv
<1>2. ASSUME ~blind, NEW s \in sends, s.at > clock - SendInterval, s.code \notin Underway
      PROVE  Holds(Rate(s.phone))
  <2>1. PICK a \in Nat, i \in Nat, t \in Nat : a = s.at /\ i = SendInterval /\ t = clock
    BY SessionsAssumption DEF CodesInv, CodeTypes, SendRows
  <2>2. a + i > t /\ t < a + i
    BY <1>2, <2>1
  <2>3. s.phone \in CodePhones
    BY DEF CodesInv, CodeTypes, SendRows
  <2>4. kv[Rate(s.phone)].val = "1" /\ a + i <= kv[Rate(s.phone)].until
    BY <1>2, <2>1, <2>2 DEF CodesInv, WindowInv, Underway
  <2>5. PICK u \in Nat : u = kv[Rate(s.phone)].until
    BY <2>3, CodeKeys DEF CodesInv, CodeTypes, Entries
  <2>6. t < u
    BY <2>2, <2>4, <2>5
  <2>7. "1" # Absent
    BY SessionsAssumption
  <2> QED BY <2>1, <2>4, <2>5, <2>6, <2>7 DEF Holds
<1>3. overdue = {} /\ (uses[Development] > 0 => ~enabled)
  BY DEF CodesInv, UsesInv
<1> QED BY <1>1, <1>2, <1>3 DEF CodesHold

\* What no message or mark changes of the messages of an interval.
LEMMA WindowKept ==
    ASSUME CodesInv, clock' \in Nat, clock <= clock', sends' = sends, blind => blind',
           \A p \in CodePhones : kv'[Rate(p)] = kv[Rate(p)],
           \A d \in Users : sms[d].at \in {"store", "mark"} =>
             /\ sms'[d].at \in {"store", "mark"}
             /\ sms'[d].code = sms[d].code /\ sms'[d].phone = sms[d].phone
    PROVE  WindowInv'
<1> SUFFICES ASSUME ~blind', ~blind, NEW s \in sends, s.at + SendInterval > clock'
             PROVE  \/ \E c \in Users : /\ sms'[c].at \in {"store", "mark"}
                                        /\ sms'[c].code = s.code /\ sms'[c].phone = s.phone
                    \/ /\ kv'[Rate(s.phone)].val = "1"
                       /\ s.at + SendInterval <= kv'[Rate(s.phone)].until
  BY DEF WindowInv
<1>1. PICK t \in Nat, u \in Nat, i \in Nat, a \in Nat :
          t = clock /\ u = clock' /\ i = SendInterval /\ a = s.at
  BY SessionsAssumption DEF CodesInv, CodeTypes, SendRows
<1>2. a + i > t
  BY <1>1
<1>3. s.at + SendInterval > clock /\ s.phone \in CodePhones
  BY <1>1, <1>2 DEF CodesInv, CodeTypes, SendRows
<1>4. \/ \E c \in Users : /\ sms[c].at \in {"store", "mark"} /\ sms[c].code = s.code
                          /\ sms[c].phone = s.phone
      \/ /\ kv[Rate(s.phone)].val = "1"
         /\ s.at + SendInterval <= kv[Rate(s.phone)].until
  BY <1>3 DEF CodesInv, WindowInv
<1> QED BY <1>3, <1>4

Same == UNCHANGED <<backend, sends, enabled, stored, overdue>>

\* No code is used or handed out: values and callers only go.
LEMMA CodesQuiet ==
    ASSUME CodesInv, Same, \A n \in 1..MaxCodes : uses'[n] = uses[n],
           uses'[Development] > 0 => uses[Development] > 0 \/ ~enabled,
           \A p \in CodePhones : kv'[Code(p)] = kv[Code(p)] \/ kv'[Code(p)].val = Absent,
           \A d \in Users : sms'[d] = sms[d] \/ sms'[d].at \in {"ready", "mark"}
    PROVE  KeptInv' /\ FreshInv' /\ SentInv' /\ UsesInv'
<1>1. \A p \in CodePhones, n \in 1..MaxCodes : kv'[Code(p)].val = n => kv[Code(p)].val = n
  BY Numbers
<1>2. \A d \in Users : sms'[d].at \notin {"ready", "mark"} => sms'[d] = sms[d]
  OBVIOUS
<1>3. \A d \in Users : sms[d].at # "ready" => sms[d].code \in 1..MaxCodes
  BY DEF CodesInv, CodeTypes
<1>4. KeptInv'
  BY <1>1, <1>2 DEF CodesInv, KeptInv, Same
<1>5. FreshInv'
  BY <1>2, <1>3 DEF CodesInv, FreshInv
<1>6. SentInv'
  BY <1>2 DEF CodesInv, SentInv, Same
<1>7. UsesInv'
  <2>1. \A c \in Users : sms'[c].at = "delete" =>
          /\ backend' # "redis" /\ ~sms'[c].old
          /\ \A q \in CodePhones : kv'[Code(q)].val = sms'[c].code => q = sms'[c].phone
    BY <1>1, <1>2, <1>3 DEF CodesInv, UsesInv, Same
  <2>2. backend' = "redis" => \A n \in 1..MaxCodes : uses'[n] <= 1
    BY DEF CodesInv, UsesInv, Same
  <2>3. overdue' = {} /\ (uses'[Development] > 0 => ~enabled')
    BY DEF CodesInv, UsesInv, Same
  <2>4. \A p \in CodePhones : kv'[Code(p)].val # Absent =>
          kv'[Code(p)].until = stored'[p] + CodeTTL
    BY DEF CodesInv, UsesInv, Same
  <2> QED BY <2>1, <2>2, <2>3, <2>4 DEF UsesInv
<1> QED BY <1>4, <1>5, <1>6, <1>7

\* A code is accepted: it is kept no longer.
LEMMA CodeUsed ==
    ASSUME CodesInv, Same, NEW n \in 1..MaxCodes, HasSent(sends, n),
           uses' = [uses EXCEPT ![n] = @ + 1],
           \A p \in CodePhones : kv'[Code(p)] = kv[Code(p)] \/ kv'[Code(p)].val = Absent,
           \A p \in CodePhones : kv'[Code(p)].val # n,
           \A d \in Users : sms'[d] = sms[d] \/ sms'[d].at = "ready",
           \A d \in Users : sms[d].at \in {"send", "store"} => sms[d].code # n,
           backend = "redis" => uses[n] = 0
    PROVE  KeptInv' /\ FreshInv' /\ SentInv' /\ UsesInv'
<1>1. \A p \in CodePhones, i \in 1..MaxCodes : kv'[Code(p)].val = i =>
         kv[Code(p)].val = i /\ i # n
  BY Numbers
<1>2. \A d \in Users : sms'[d].at # "ready" => sms'[d] = sms[d]
  OBVIOUS
<1>3. /\ \A i \in 1..MaxCodes : i # n => uses'[i] = uses[i]
      /\ \A i \in 1..MaxCodes : uses[i] \in Nat
      /\ uses'[n] = uses[n] + 1 /\ uses'[Development] = uses[Development]
  BY Numbers DEF CodesInv, CodeTypes
<1>4. \A d \in Users : sms[d].at # "ready" => sms[d].code \in 1..MaxCodes
  BY DEF CodesInv, CodeTypes
<1>5. KeptInv'
  BY <1>1, <1>2, <1>3 DEF CodesInv, KeptInv, Same
<1>6. FreshInv'
  BY <1>2, <1>3, <1>4 DEF CodesInv, FreshInv
<1>7. SentInv'
  BY <1>2, <1>3 DEF CodesInv, SentInv, Same
<1>8. UsesInv'
  <2>1. \A c \in Users : sms'[c].at = "delete" =>
          /\ backend' # "redis" /\ ~sms'[c].old
          /\ \A q \in CodePhones : kv'[Code(q)].val = sms'[c].code => q = sms'[c].phone
    BY <1>1, <1>2, <1>4 DEF CodesInv, UsesInv, Same
  <2>2. ASSUME backend' = "redis", NEW i \in 1..MaxCodes PROVE uses'[i] <= 1
    <3>1. CASE i = n
      BY <1>3, <2>2, <3>1 DEF Same
    <3>2. CASE i # n
      BY <1>3, <2>2, <3>2 DEF CodesInv, UsesInv, Same
    <3> QED BY <3>1, <3>2
  <2>3. overdue' = {} /\ (uses'[Development] > 0 => ~enabled')
    BY <1>3 DEF CodesInv, UsesInv, Same
  <2>4. \A p \in CodePhones : kv'[Code(p)].val # Absent =>
          kv'[Code(p)].until = stored'[p] + CodeTTL
    BY DEF CodesInv, UsesInv, Same
  <2> QED BY <2>1, <2>2, <2>3, <2>4 DEF UsesInv
<1> QED BY <1>5, <1>6, <1>7, <1>8

LEMMA TypesStep ==
    ASSUME CodesInv, UNCHANGED <<clock, sends>>, kv' \in [Keys -> Entries],
           \A p \in CodePhones :
             kv'[Code(p)].val \in {Absent} \cup 1..MaxCodes /\ kv'[Rate(p)].val \in {Absent, "1"},
           NEW c \in Users, NEW r \in SmsRows, To(c, r),
           r.at # "ready" => r.phone \in CodePhones /\ r.code \in 1..MaxCodes /\ r.code < nextCode',
           nextCode' \in Nat \ {0}, nextCode <= nextCode', uses' \in [0..MaxCodes -> Nat],
           stored' \in [CodePhones -> Nat]
    PROVE  CodeTypes'
<1>1. /\ sms' \in [Users -> SmsRows] /\ sms'[c] = r
      /\ \A d \in Users : d # c => sms'[d] = sms[d]
  BY OneGoes
<1>2. PICK m \in Nat, n \in Nat : m = nextCode /\ n = nextCode'
  BY DEF CodesInv, CodeTypes
<1>3. \A i \in Nat : i < m => i < n
  BY <1>2
<1>4. ASSUME NEW d \in Users, sms'[d].at # "ready"
      PROVE  /\ sms'[d].phone \in CodePhones /\ sms'[d].code \in 1..MaxCodes
             /\ sms'[d].code < nextCode'
  <2>1. CASE d = c
    BY <1>1, <1>4, <2>1
  <2>2. CASE d # c
    <3>1. /\ sms[d].phone \in CodePhones /\ sms[d].code \in 1..MaxCodes
          /\ sms[d].code < nextCode /\ sms[d].code \in Nat
      BY <1>1, <1>4, <2>2 DEF CodesInv, CodeTypes, SmsRows
    <3> QED BY <1>1, <1>2, <1>3, <2>2, <3>1
  <2> QED BY <2>1, <2>2
<1>5. ASSUME NEW s \in sends PROVE s.code < nextCode'
  <2>1. s.code \in Nat /\ s.code < nextCode
    BY DEF CodesInv, CodeTypes, SendRows
  <2> QED BY <1>2, <1>3, <2>1
<1>6. /\ clock' \in Nat /\ sends' \subseteq SendRows
      /\ \A s \in sends' : s.at <= clock' /\ s.code \in 1..MaxCodes
  BY DEF CodesInv, CodeTypes
<1> QED BY <1>1, <1>4, <1>5, <1>6 DEF CodeTypes

LEMMA SendStartStep ==
    ASSUME CodesInv, NEW c \in Users, NEW p \in CodePhones, SendStart(c, p)
    PROVE  CodesInv'
<1>1. PICK r : r = [Ready EXCEPT !.at = "send", !.phone = p, !.code = nextCode]
  OBVIOUS
<1>2. nextCode \in Nat \ {0} /\ nextCode \in 1..MaxCodes /\ nextCode' = nextCode + 1
  BY SessionsAssumption DEF SendStart, CodesInv, CodeTypes
<1>3. r \in SmsRows /\ r.at = "send" /\ r.phone = p /\ r.code = nextCode
  BY <1>1, <1>2, ReadyIs DEF SmsRows, Steps
<1>4. /\ sms[c].at = "ready" /\ To(c, r) /\ blind' = (blind \/ Get(Rate(p)) = "error")
      /\ UNCHANGED <<clock, kv, uses, up>> /\ Same
  BY <1>1 DEF SendStart, cacheVars, kvVars, Same
<1> HIDE <1>1
<1>5. /\ sms' \in [Users -> SmsRows] /\ sms'[c] = r
      /\ \A d \in Users : d # c => sms'[d] = sms[d]
  BY <1>3, <1>4, OneGoes
<1>6. CodeTypes'
  <2>1. nextCode' \in Nat \ {0} /\ nextCode <= nextCode' /\ nextCode < nextCode'
    BY <1>2
  <2>2. /\ kv' \in [Keys -> Entries] /\ uses' \in [0..MaxCodes -> Nat]
        /\ stored' \in [CodePhones -> Nat]
        /\ \A q \in CodePhones : kv'[Code(q)].val \in {Absent} \cup 1..MaxCodes
                                 /\ kv'[Rate(q)].val \in {Absent, "1"}
    BY <1>4 DEF CodesInv, CodeTypes, Same
  <2> QED BY <1>2, <1>3, <1>4, <2>1, <2>2, TypesStep DEF Same
<1>7. /\ ~HasSent(sends, nextCode) /\ uses[nextCode] = 0
      /\ \A d \in Users : sms[d].at # "ready" => sms[d].code # nextCode
  <2>1. PICK m \in Nat : m = nextCode
    BY <1>2
  <2>2. ~HasSent(sends, nextCode)
    BY <2>1 DEF CodesInv, CodeTypes, HasSent, SendRows
  <2>3. \A d \in Users : sms[d].at # "ready" => sms[d].code # nextCode
    BY <2>1 DEF CodesInv, CodeTypes, SmsRows
  <2>4. uses[nextCode] = 0
    <3>1. uses[nextCode] \in Nat /\ ~(uses[nextCode] > 0)
      BY <1>2, <2>2, Numbers DEF CodesInv, CodeTypes, SentInv
    <3> QED BY <3>1
  <2> QED BY <2>2, <2>3, <2>4
<1>8. KeptInv'
  <2>1. \A q \in CodePhones : kv[Code(q)].val # nextCode
    BY <1>2, <1>7 DEF CodesInv, KeptInv
  <2> QED BY <1>3, <1>4, <1>5, <2>1 DEF CodesInv, KeptInv, Same
<1>9. FreshInv'
  <2> SUFFICES ASSUME NEW d \in Users, sms'[d].at \in {"send", "store"}
               PROVE  /\ uses'[sms'[d].code] = 0
                      /\ \A e \in Users : e # d /\ sms'[e].at \in {"send", "store", "delete"} =>
                            sms'[e].code # sms'[d].code
    BY DEF FreshInv
  <2>1. CASE d = c
    BY <1>3, <1>4, <1>5, <1>7, <2>1
  <2>2. CASE d # c
    <3>1. sms'[d] = sms[d] /\ sms[d].code # nextCode
      BY <1>5, <1>7, <2>2
    <3>2. uses[sms[d].code] = 0
          /\ \A e \in Users : e # d /\ sms[e].at \in {"send", "store", "delete"} =>
                sms[e].code # sms[d].code
      BY <3>1 DEF CodesInv, FreshInv
    <3> QED BY <1>3, <1>4, <1>5, <3>1, <3>2
  <2> QED BY <2>1, <2>2
<1>10. SentInv'
  BY <1>3, <1>4, <1>5, <1>7 DEF CodesInv, SentInv, Same
<1>11. UsesInv'
  <2>1. \A d \in Users : sms'[d].at = "delete" => sms'[d] = sms[d]
    BY <1>3, <1>5
  <2> QED BY <1>4, <2>1 DEF CodesInv, UsesInv, Same
<1>12. WindowInv'
  <2>1. clock' \in Nat /\ clock <= clock'
    BY <1>4 DEF CodesInv, CodeTypes
  <2>2. \A d \in Users : sms[d].at \in {"store", "mark"} => sms'[d] = sms[d]
    BY <1>4, <1>5
  <2> QED BY <1>4, <2>1, <2>2, WindowKept DEF Same
<1> QED BY <1>6, <1>8, <1>9, <1>10, <1>11, <1>12 DEF CodesInv

\* A message goes out.
LEMMA SentStep ==
    ASSUME CodesInv, NEW c \in Users, NEW r, NEW s, sms[c].at = "send",
           r = [sms[c] EXCEPT !.at = "store"], To(c, r),
           s = [phone |-> sms[c].phone, at |-> clock, code |-> sms[c].code],
           sends' = sends \cup {s}, UNCHANGED <<backend, clock, kv, uses, nextCode, blind>>,
           UNCHANGED <<enabled, stored, overdue>>
    PROVE  CodesInv'
<1>1. PICK e \in SmsRows : e = sms[c]
  BY DEF CodesInv, CodeTypes
<1>2. /\ e.at = "send" /\ e.phone \in CodePhones /\ e.code \in 1..MaxCodes
      /\ e.code < nextCode /\ e.code \in Nat
  BY <1>1 DEF CodesInv, CodeTypes, SmsRows
<1>3. r = [e EXCEPT !.at = "store"] /\ s = [phone |-> e.phone, at |-> clock, code |-> e.code]
  BY <1>1
<1>4. r \in SmsRows /\ r.at = "store" /\ r.phone = e.phone /\ r.code = e.code
  BY <1>3 DEF SmsRows, Steps
<1>5. s \in SendRows /\ s.phone = e.phone /\ s.at = clock /\ s.code = e.code
  BY <1>2, <1>3 DEF SendRows, CodesInv, CodeTypes
<1> HIDE <1>3
<1>6. /\ sms' \in [Users -> SmsRows] /\ sms'[c] = r
      /\ \A d \in Users : d # c => sms'[d] = sms[d]
  BY <1>4, OneGoes
<1>7. /\ ~HasSent(sends, e.code) /\ HasSent(sends', e.code)
      /\ \A n \in Nat : HasSent(sends', n) <=> HasSent(sends, n) \/ n = e.code
  BY <1>1, <1>2, <1>5 DEF CodesInv, SentInv, HasSent
<1>8. CodeTypes'
  <2>1. sends' \subseteq SendRows
    BY <1>5 DEF CodesInv, CodeTypes
  <2>2. \A d \in Users : sms'[d].at # "ready" =>
           /\ sms'[d].phone \in CodePhones /\ sms'[d].code \in 1..MaxCodes
           /\ sms'[d].code < nextCode'
    BY <1>2, <1>4, <1>6 DEF CodesInv, CodeTypes
  <2>3. \A t \in sends' : t.at <= clock' /\ t.code \in 1..MaxCodes /\ t.code < nextCode'
    BY <1>2, <1>5 DEF CodesInv, CodeTypes
  <2>4. /\ clock' \in Nat /\ kv' \in [Keys -> Entries] /\ nextCode' \in Nat \ {0}
        /\ uses' \in [0..MaxCodes -> Nat] /\ stored' \in [CodePhones -> Nat]
        /\ \A p \in CodePhones : kv'[Code(p)].val \in {Absent} \cup 1..MaxCodes
                                 /\ kv'[Rate(p)].val \in {Absent, "1"}
    BY DEF CodesInv, CodeTypes
  <2> QED BY <1>6, <2>1, <2>2, <2>3, <2>4 DEF CodeTypes
<1>9. KeptInv'
  <2>1. \A d \in Users : sms'[d].at \in {"send", "store"} =>
           sms[d].at \in {"send", "store"} /\ sms'[d].code = sms[d].code
    BY <1>1, <1>2, <1>4, <1>6
  <2>2. \A n \in 1..MaxCodes : HasSent(sends, n) => HasSent(sends', n)
    BY DEF HasSent
  <2>3. kv' = kv /\ uses' = uses
    OBVIOUS
  <2> SUFFICES ASSUME NEW p \in CodePhones, NEW n \in 1..MaxCodes, kv[Code(p)].val = n
               PROVE  /\ uses[n] = 0 /\ HasSent(sends', n)
                      /\ \A d \in Users : sms'[d].at \in {"send", "store"} => sms'[d].code # n
                      /\ \A q \in CodePhones : q # p => kv[Code(q)].val # n
    BY <2>3 DEF KeptInv
  <2>4. /\ uses[n] = 0 /\ HasSent(sends, n)
        /\ \A d \in Users : sms[d].at \in {"send", "store"} => sms[d].code # n
        /\ \A q \in CodePhones : q # p => kv[Code(q)].val # n
    BY DEF CodesInv, KeptInv
  <2> QED BY <2>1, <2>2, <2>4
<1>10. FreshInv'
  <2>1. \A d \in Users : /\ sms'[d].at \in {"send", "store"} <=> sms[d].at \in {"send", "store"}
                         /\ sms'[d].at = "delete" <=> sms[d].at = "delete"
                         /\ sms'[d].code = sms[d].code
    BY <1>1, <1>2, <1>4, <1>6
  <2> QED BY <2>1 DEF CodesInv, FreshInv
<1>11. SentInv'
  <2>1. ASSUME NEW d \in Users, sms'[d].at = "send" PROVE ~HasSent(sends', sms'[d].code)
    <3>1. d # c /\ sms'[d] = sms[d] /\ sms[d].code \in Nat
      BY <1>4, <1>6, <2>1 DEF SmsRows
    <3>2. ~HasSent(sends, sms[d].code)
      BY <2>1, <3>1 DEF CodesInv, SentInv
    <3>3. sms[d].code # e.code
      BY <1>1, <1>2, <2>1, <3>1 DEF CodesInv, FreshInv
    <3> QED BY <1>7, <3>1, <3>2, <3>3
  <2>2. ASSUME NEW d \in Users, sms'[d].at \in {"store", "delete"}
        PROVE  HasSent(sends', sms'[d].code)
    <3>1. CASE d = c
      BY <1>4, <1>6, <1>7, <3>1
    <3>2. CASE d # c
      BY <1>6, <2>2, <3>2 DEF CodesInv, SentInv, HasSent
    <3> QED BY <3>1, <3>2
  <2>3. \A n \in 1..MaxCodes : uses'[n] > 0 => HasSent(sends', n)
    BY DEF CodesInv, SentInv, HasSent
  <2>4. \A t, u \in sends' : t.code = u.code => t = u
    BY <1>5, <1>7 DEF CodesInv, SentInv, HasSent
  <2> QED BY <2>1, <2>2, <2>3, <2>4 DEF SentInv
<1>12. UsesInv'
  <2>1. \A d \in Users : sms'[d].at = "delete" => sms'[d] = sms[d]
    BY <1>4, <1>6
  <2> QED BY <2>1 DEF CodesInv, UsesInv
<1>13. WindowInv'
  <2> SUFFICES ASSUME ~blind, NEW t \in sends', t.at + SendInterval > clock
               PROVE  \/ \E d \in Users : /\ sms'[d].at \in {"store", "mark"}
                                          /\ sms'[d].code = t.code /\ sms'[d].phone = t.phone
                      \/ /\ kv[Rate(t.phone)].val = "1"
                         /\ t.at + SendInterval <= kv[Rate(t.phone)].until
    BY DEF WindowInv
  <2>1. CASE t = s
    BY <1>4, <1>5, <1>6, <2>1
  <2>2. CASE t \in sends
    BY <1>1, <1>2, <1>6, <2>2 DEF CodesInv, WindowInv
  <2> QED BY <2>1, <2>2
<1> QED BY <1>8, <1>9, <1>10, <1>11, <1>12, <1>13 DEF CodesInv

\* A caller is done, and what is kept of codes can only have gone.
LEMMA DoneStep ==
    ASSUME CodesInv, NEW c \in Users, To(c, Ready), blind => blind', Same,
           UNCHANGED <<clock, uses, nextCode>>, kv' \in [Keys -> Entries],
           \A p \in CodePhones : /\ kv'[Code(p)] = kv[Code(p)] \/ kv'[Code(p)].val = Absent
                                 /\ kv'[Rate(p)].val \in {Absent, "1"},
           sms[c].at \in {"store", "mark"} => blind' \/ WindowInv',
           \A p \in CodePhones : sms[c].at \notin {"store", "mark"} => kv'[Rate(p)] = kv[Rate(p)]
    PROVE  CodesInv'
<1>1. /\ sms' \in [Users -> SmsRows] /\ sms'[c] = Ready
      /\ \A d \in Users : d # c => sms'[d] = sms[d]
  BY ReadyIs, OneGoes
<1>2. CodeTypes'
  <2>1. \A p \in CodePhones : kv'[Code(p)].val \in {Absent} \cup 1..MaxCodes
    BY DEF CodesInv, CodeTypes
  <2>2. /\ nextCode' \in Nat \ {0} /\ nextCode <= nextCode' /\ uses' \in [0..MaxCodes -> Nat]
        /\ stored' \in [CodePhones -> Nat]
    BY DEF CodesInv, CodeTypes, Same
  <2> QED BY <2>1, <2>2, ReadyIs, TypesStep DEF Same
<1>3. KeptInv' /\ FreshInv' /\ SentInv' /\ UsesInv'
  <2>1. \A d \in Users : sms'[d] = sms[d] \/ sms'[d].at \in {"ready", "mark"}
    BY <1>1, ReadyIs
  <2> QED BY <2>1, CodesQuiet
<1>4. WindowInv'
  <2>1. CASE sms[c].at \in {"store", "mark"}
    BY <2>1 DEF WindowInv
  <2>2. CASE sms[c].at \notin {"store", "mark"}
    <3>1. clock' \in Nat /\ clock <= clock'
      BY DEF CodesInv, CodeTypes
    <3>2. \A d \in Users : sms[d].at \in {"store", "mark"} => sms'[d] = sms[d]
      BY <1>1, <2>2
    <3>3. \A p \in CodePhones : kv'[Rate(p)] = kv[Rate(p)]
      BY <2>2
    <3> QED BY <3>1, <3>2, <3>3, WindowKept DEF Same
  <2> QED BY <2>1, <2>2
<1> QED BY <1>2, <1>3, <1>4 DEF CodesInv

LEMMA SameKv ==
    ASSUME CodesInv, UNCHANGED kv
    PROVE  /\ kv' \in [Keys -> Entries]
           /\ \A p \in CodePhones :
                /\ kv'[Code(p)] = kv[Code(p)] /\ kv'[Code(p)].val \in {Absent} \cup 1..MaxCodes
                /\ kv'[Rate(p)].val \in {Absent, "1"} /\ kv'[Rate(p)] = kv[Rate(p)]
BY DEF CodesInv, CodeTypes

LEMMA DelCode ==
    ASSUME CodesInv, NEW p \in CodePhones, Del(Code(p))
    PROVE  /\ kv' \in [Keys -> Entries] /\ kv'[Code(p)].val = Absent
           /\ \A q \in CodePhones :
                /\ kv'[Code(q)] = kv[Code(q)] \/ kv'[Code(q)].val = Absent
                /\ kv'[Rate(q)].val \in {Absent, "1"} /\ kv'[Rate(q)] = kv[Rate(q)]
                /\ q # p => kv'[Code(q)] = kv[Code(q)]
<1>1. PICK e \in Entries : e = kv[Code(p)]
  BY CodeKeys DEF CodesInv, CodeTypes
<1>2. PICK r : r = [e EXCEPT !.val = Absent]
  OBVIOUS
<1>3. r \in Entries /\ r.val = Absent
  BY <1>2 DEF Entries, Stored
<1>4. kv' = [kv EXCEPT ![Code(p)] = r]
  BY <1>1, <1>2 DEF Del
<1> HIDE <1>2
<1>5. /\ kv' \in [Keys -> Entries] /\ kv'[Code(p)] = r
      /\ \A k \in Keys : k # Code(p) => kv'[k] = kv[k]
  BY <1>3, <1>4, CodeKeys DEF CodesInv, CodeTypes
<1> QED BY <1>3, <1>5, CodeKeys DEF CodesInv, CodeTypes

LEMMA SetEntry ==
    ASSUME CodesInv, NEW k \in Keys, NEW v \in Stored, NEW ttl \in Nat \ {0}, Set(k, v, ttl)
    PROVE  /\ kv' \in [Keys -> Entries] /\ kv'[k].val = v /\ kv'[k].until = clock + ttl
           /\ \A j \in Keys : j # k => kv'[j] = kv[j]
<1>1. PICK n \in Nat : n = clock + ttl
  BY DEF CodesInv, CodeTypes
<1>2. PICK r \in Entries : r = [val |-> v, until |-> n]
  BY DEF Entries
<1>3. ttl > 0
  OBVIOUS
<1>4. kv' = [kv EXCEPT ![k] = r]
  BY <1>1, <1>2, <1>3 DEF Set
<1>5. r.val = v /\ r.until = n
  BY <1>2
<1> HIDE <1>2
<1> QED BY <1>1, <1>4, <1>5 DEF CodesInv, CodeTypes

LEMMA SendTemplateStep ==
    ASSUME CodesInv, NEW c \in Users, SendTemplate(c)
    PROVE  CodesInv'
<1>1. /\ sms[c].at = "send" /\ UNCHANGED <<backend, clock, kv, uses, nextCode, blind>>
      /\ UNCHANGED <<enabled, stored, overdue>>
  BY DEF SendTemplate, cacheVars, kvVars
<1>2. CASE /\ To(c, [sms[c] EXCEPT !.at = "store"])
           /\ sends' = sends \cup {[phone |-> sms[c].phone, at |-> clock, code |-> sms[c].code]}
  <2>1. PICK r, s : /\ r = [sms[c] EXCEPT !.at = "store"]
                    /\ s = [phone |-> sms[c].phone, at |-> clock, code |-> sms[c].code]
    OBVIOUS
  <2> QED BY <1>1, <1>2, <2>1, SentStep
<1>3. CASE To(c, Ready) /\ UNCHANGED sends
  BY <1>1, <1>3, SameKv, DoneStep DEF Same
<1> QED BY <1>2, <1>3 DEF SendTemplate

LEMMA MarkRateStep ==
    ASSUME CodesInv, NEW c \in Users, MarkRate(c)
    PROVE  CodesInv'
<1>1. /\ sms[c].at = "mark" /\ To(c, Ready) /\ blind' = (blind \/ ~Answers)
      /\ UNCHANGED <<clock, uses, nextCode>> /\ Same
  BY DEF MarkRate, Same
<1>2. CASE ~Answers
  <2>1. UNCHANGED kv /\ blind'
    BY <1>1, <1>2 DEF MarkRate
  <2> QED BY <1>1, <2>1, SameKv, DoneStep
<1>3. CASE Answers
  <2>1. PICK p \in CodePhones : p = sms[c].phone
    BY <1>1 DEF CodesInv, CodeTypes
  <2>2. SendInterval \in Nat \ {0} /\ "1" \in Stored /\ Rate(p) \in Keys
    BY SessionsAssumption, CodeKeys DEF Stored
  <2>3. Set(Rate(p), "1", SendInterval)
    BY <1>3, <2>1 DEF MarkRate
  <2>4. /\ kv' \in [Keys -> Entries] /\ kv'[Rate(p)].val = "1"
        /\ kv'[Rate(p)].until = clock + SendInterval
        /\ \A j \in Keys : j # Rate(p) => kv'[j] = kv[j]
    BY <2>2, <2>3, SetEntry
  <2>5. \A q \in CodePhones : /\ kv'[Code(q)] = kv[Code(q)]
                              /\ kv'[Rate(q)].val \in {Absent, "1"}
                              /\ q # p => kv'[Rate(q)] = kv[Rate(q)]
    BY <2>4, CodeKeys DEF CodesInv, CodeTypes
  <2>6. WindowInv'
    <3>1. /\ sms' \in [Users -> SmsRows] /\ sms'[c] = Ready
          /\ \A d \in Users : d # c => sms'[d] = sms[d]
      BY <1>1, ReadyIs, OneGoes
    <3> SUFFICES ASSUME ~blind', ~blind, NEW s \in sends, s.at + SendInterval > clock
                 PROVE  \/ \E d \in Users : /\ sms'[d].at \in {"store", "mark"}
                                            /\ sms'[d].code = s.code /\ sms'[d].phone = s.phone
                        \/ /\ kv'[Rate(s.phone)].val = "1"
                           /\ s.at + SendInterval <= kv'[Rate(s.phone)].until
      BY <1>1 DEF WindowInv, Same
    <3>2. s.phone \in CodePhones
      BY DEF CodesInv, CodeTypes, SendRows
    <3>3. CASE s.phone = p
      <4>1. PICK a \in Nat, i \in Nat, t \in Nat : a = s.at /\ i = SendInterval /\ t = clock
        BY <2>2 DEF CodesInv, CodeTypes, SendRows
      <4>2. a <= t
        BY <4>1 DEF CodesInv, CodeTypes
      <4>3. a + i <= t + i
        BY <4>2
      <4> QED BY <2>4, <3>3, <4>1, <4>3
    <3>4. CASE s.phone # p
      <4>1. \/ \E d \in Users : /\ sms[d].at \in {"store", "mark"} /\ sms[d].code = s.code
                                /\ sms[d].phone = s.phone
            \/ /\ kv[Rate(s.phone)].val = "1"
               /\ s.at + SendInterval <= kv[Rate(s.phone)].until
        BY DEF CodesInv, WindowInv
      <4> QED BY <2>1, <2>5, <3>1, <3>2, <3>4, <4>1
    <3> QED BY <3>3, <3>4
  <2> QED BY <1>1, <2>4, <2>5, <2>6, DoneStep
<1> QED BY <1>2, <1>3

LEMMA StoreCodeStep ==
    ASSUME CodesInv, NEW c \in Users, StoreCode(c)
    PROVE  CodesInv'
<1>1. /\ sms[c].at = "store" /\ blind' = (blind \/ ~Answers)
      /\ UNCHANGED <<backend, clock, uses, sends, nextCode, enabled, overdue>>
  BY DEF StoreCode
<1>2. CASE ~Answers
  <2>1. UNCHANGED kv /\ To(c, Ready) /\ blind' /\ Same
    BY <1>1, <1>2 DEF StoreCode, Same
  <2> QED BY <1>1, <2>1, SameKv, DoneStep
<1>3. CASE Answers
  <2>1. PICK e \in SmsRows : e = sms[c]
    BY DEF CodesInv, CodeTypes
  <2>2. PICK r : r = [e EXCEPT !.at = "mark"]
    OBVIOUS
  <2>3. r \in SmsRows /\ r.at = "mark" /\ r.phone = e.phone /\ r.code = e.code
    BY <2>2 DEF SmsRows, Steps
  <2>4. /\ To(c, r) /\ Set(Code(e.phone), e.code, CodeTTL)
        /\ stored' = [stored EXCEPT ![e.phone] = clock]
    BY <1>3, <2>1, <2>2 DEF StoreCode
  <2> HIDE <2>2
  <2>5. PICK p \in CodePhones, n \in 1..MaxCodes : p = e.phone /\ n = e.code
    BY <1>1, <2>1 DEF CodesInv, CodeTypes
  <2>6. n \in Stored /\ CodeTTL \in Nat \ {0} /\ n # Absent
    BY SessionsAssumption DEF Stored
  <2>7. /\ kv' \in [Keys -> Entries] /\ kv'[Code(p)].val = n
        /\ kv'[Code(p)].until = clock + CodeTTL
        /\ \A j \in Keys : j # Code(p) => kv'[j] = kv[j]
    BY <2>4, <2>5, <2>6, CodeKeys, SetEntry
  <2>8. /\ \A q \in CodePhones : kv'[Rate(q)] = kv[Rate(q)]
        /\ \A q \in CodePhones : q # p => kv'[Code(q)] = kv[Code(q)]
    BY <2>7, CodeKeys
  <2>9. /\ sms' \in [Users -> SmsRows] /\ sms'[c] = r
        /\ \A d \in Users : d # c => sms'[d] = sms[d]
    BY <2>3, <2>4, OneGoes
  <2>10. CodeTypes'
    <3>1. r.phone \in CodePhones /\ r.code \in 1..MaxCodes /\ r.code < nextCode'
      BY <1>1, <2>1, <2>3 DEF CodesInv, CodeTypes
    <3>2. /\ nextCode' \in Nat \ {0} /\ nextCode <= nextCode' /\ uses' \in [0..MaxCodes -> Nat]
          /\ stored' \in [CodePhones -> Nat]
      <4>1. nextCode' = nextCode /\ nextCode \in Nat \ {0} /\ nextCode <= nextCode
        BY <1>1 DEF CodesInv, CodeTypes
      <4>2. stored' \in [CodePhones -> Nat]
        BY <2>4, <2>5 DEF CodesInv, CodeTypes
      <4> QED BY <1>1, <4>1, <4>2 DEF CodesInv, CodeTypes
    <3>3. \A q \in CodePhones : kv'[Code(q)].val \in {Absent} \cup 1..MaxCodes
                                /\ kv'[Rate(q)].val \in {Absent, "1"}
      BY <2>7, <2>8 DEF CodesInv, CodeTypes
    <3> QED BY <1>1, <2>3, <2>4, <2>7, <3>1, <3>2, <3>3, TypesStep
  <2>11. /\ uses[n] = 0 /\ HasSent(sends, n) /\ \A q \in CodePhones : kv[Code(q)].val # n
         /\ \A d \in Users : d # c /\ sms[d].at \in {"send", "store", "delete"} => sms[d].code # n
    BY <1>1, <2>1, <2>5 DEF CodesInv, FreshInv, SentInv, KeptInv
  <2>12. \A d \in Users : sms'[d].at \in {"send", "store", "delete"} =>
            d # c /\ sms'[d] = sms[d] /\ sms[d].code # n
    BY <2>3, <2>9, <2>11
  <2>13. KeptInv'
    <3> SUFFICES ASSUME NEW q \in CodePhones, NEW i \in 1..MaxCodes, kv'[Code(q)].val = i
                 PROVE  /\ uses'[i] = 0 /\ HasSent(sends', i)
                        /\ \A d \in Users : sms'[d].at \in {"send", "store"} => sms'[d].code # i
                        /\ \A w \in CodePhones : w # q => kv'[Code(w)].val # i
      BY DEF KeptInv
    <3>1. CASE q = p
      BY <1>1, <2>7, <2>8, <2>11, <2>12, <3>1
    <3>2. CASE q # p
      <4>1. kv[Code(q)].val = i /\ i # n
        BY <2>8, <2>11, <3>2
      <4>2. /\ uses[i] = 0 /\ HasSent(sends, i)
            /\ \A d \in Users : sms[d].at \in {"send", "store"} => sms[d].code # i
            /\ \A w \in CodePhones : w # q => kv[Code(w)].val # i
        BY <4>1 DEF CodesInv, KeptInv
      <4> QED BY <1>1, <2>7, <2>8, <2>12, <4>1, <4>2
    <3> QED BY <3>1, <3>2
  <2>14. FreshInv' /\ SentInv'
    BY <1>1, <2>12 DEF CodesInv, FreshInv, SentInv
  <2>15. UsesInv'
    <3>1. \A d \in Users : sms'[d].at = "delete" =>
             /\ backend' # "redis" /\ ~sms'[d].old
             /\ \A q \in CodePhones : kv'[Code(q)].val = sms'[d].code => q = sms'[d].phone
      BY <1>1, <2>7, <2>8, <2>12 DEF CodesInv, UsesInv
    <3>2. /\ stored'[p] = clock
          /\ \A q \in CodePhones : q # p => stored'[q] = stored[q]
      BY <2>4, <2>5 DEF CodesInv, CodeTypes
    <3>3. \A q \in CodePhones : kv'[Code(q)].val # Absent =>
             kv'[Code(q)].until = stored'[q] + CodeTTL
      BY <2>7, <2>8, <3>2 DEF CodesInv, UsesInv
    <3> QED BY <1>1, <3>1, <3>3 DEF CodesInv, UsesInv
  <2>16. WindowInv'
    <3>1. clock' \in Nat /\ clock <= clock'
      BY <1>1 DEF CodesInv, CodeTypes
    <3>2. \A d \in Users : sms[d].at \in {"store", "mark"} =>
             /\ sms'[d].at \in {"store", "mark"}
             /\ sms'[d].code = sms[d].code /\ sms'[d].phone = sms[d].phone
      BY <2>1, <2>3, <2>9
    <3> QED BY <1>1, <2>8, <3>1, <3>2, WindowKept
  <2> QED BY <2>10, <2>13, <2>14, <2>15, <2>16 DEF CodesInv
<1> QED BY <1>2, <1>3

\* A code that is found was stored in time.
LEMMA FoundInTime ==
    ASSUME CodesInv, NEW p \in CodePhones, Holds(Code(p))
    PROVE  kv[Code(p)].val \in 1..MaxCodes /\ (clock - stored[p] >= CodeTTL) = FALSE
<1>1. kv[Code(p)].val # Absent /\ kv[Code(p)].val \in 1..MaxCodes /\ clock < kv[Code(p)].until
  BY DEF Holds, CodesInv, CodeTypes
<1>2. PICK t \in Nat, s \in Nat, i \in Nat : t = clock /\ s = stored[p] /\ i = CodeTTL
  BY SessionsAssumption DEF CodesInv, CodeTypes
<1>3. t < s + i
  BY <1>1, <1>2 DEF CodesInv, UsesInv
<1>4. ~(t - s >= i)
  BY ONLY <1>3, t \in Nat, s \in Nat, i \in Nat
<1> QED BY <1>1, <1>2, <1>4

\* A code that was found is taken out, right or wrong.
LEMMA VerifyTakesStep ==
    ASSUME CodesInv, NEW c \in Users, NEW p \in CodePhones, NEW n \in 1..MaxCodes,
           n = kv[Code(p)].val, backend = "redis", Del(Code(p)), Same,
           uses' = [uses EXCEPT ![n] = @ + 1] \/ uses' = uses,
           UNCHANGED <<clock, sms, nextCode, blind>>
    PROVE  CodesInv'
<1>2. /\ kv' \in [Keys -> Entries] /\ kv'[Code(p)].val = Absent
      /\ \A q \in CodePhones : /\ kv'[Code(q)] = kv[Code(q)] \/ kv'[Code(q)].val = Absent
                               /\ kv'[Rate(q)].val \in {Absent, "1"}
                               /\ kv'[Rate(q)] = kv[Rate(q)]
  BY DelCode
<1>3. /\ uses[n] = 0 /\ HasSent(sends, n) /\ n # Absent
      /\ \A d \in Users : sms[d].at \in {"send", "store"} => sms[d].code # n
      /\ \A q \in CodePhones : q # p => kv[Code(q)].val # n
  BY Numbers DEF CodesInv, KeptInv
<1>5. CodeTypes'
  <2>1. sms[c] \in SmsRows /\ To(c, sms[c])
    BY DEF To, CodesInv, CodeTypes
  <2>2. uses' \in [0..MaxCodes -> Nat] /\ stored' \in [CodePhones -> Nat]
    <3>1. uses[n] = 0 /\ uses \in [0..MaxCodes -> Nat] /\ stored' = stored
      BY <1>3 DEF CodesInv, CodeTypes, Same
    <3>2. uses' = [uses EXCEPT ![n] = 1] \/ uses' = uses
      BY <3>1
    <3>3. uses' \in [0..MaxCodes -> Nat]
      BY <3>1, <3>2
    <3> QED BY <3>1, <3>3 DEF CodesInv, CodeTypes
  <2>3. \A q \in CodePhones : kv'[Code(q)].val \in {Absent} \cup 1..MaxCodes
    BY <1>2 DEF CodesInv, CodeTypes
  <2>4. nextCode' \in Nat \ {0} /\ nextCode <= nextCode'
        /\ (sms[c].at # "ready" => sms[c].phone \in CodePhones /\ sms[c].code \in 1..MaxCodes
                                   /\ sms[c].code < nextCode')
    BY DEF CodesInv, CodeTypes
  <2> QED BY <1>2, <2>1, <2>2, <2>3, <2>4, TypesStep DEF Same
<1>6. KeptInv' /\ FreshInv' /\ SentInv' /\ UsesInv'
  <2>1. CASE uses' = uses
    BY <1>2, <2>1, CodesQuiet
  <2>2. CASE uses' = [uses EXCEPT ![n] = @ + 1]
    <3>1. \A q \in CodePhones : kv'[Code(q)].val # n
      BY <1>2, <1>3
    <3> QED BY <1>2, <1>3, <2>2, <3>1, CodeUsed
  <2> QED BY <2>1, <2>2
<1>7. WindowInv'
  <2>1. clock' \in Nat /\ clock <= clock'
    BY DEF CodesInv, CodeTypes
  <2> QED BY <1>2, <2>1, WindowKept DEF Same
<1> QED BY <1>5, <1>6, <1>7 DEF CodesInv

\* A code that was found is read, and taken out by a second command.
LEMMA VerifyReadsStep ==
    ASSUME CodesInv, NEW c \in Users, NEW p \in CodePhones, NEW n \in 1..MaxCodes,
           n = kv[Code(p)].val, NEW r \in SmsRows, r.at = "delete", r.phone = p, r.code = n,
           ~r.old, sms[c].at = "ready", backend # "redis", To(c, r), Same,
           UNCHANGED <<clock, kv, uses, nextCode, blind>>
    PROVE  CodesInv'
<1>3. /\ uses[n] = 0 /\ HasSent(sends, n)
      /\ \A d \in Users : sms[d].at \in {"send", "store"} => sms[d].code # n
      /\ \A q \in CodePhones : q # p => kv[Code(q)].val # n
  BY DEF CodesInv, KeptInv
<1>4. /\ sms' \in [Users -> SmsRows] /\ sms'[c] = r
      /\ \A d \in Users : d # c => sms'[d] = sms[d]
  BY OneGoes
<1>5. CodeTypes'
  <2>1. n < nextCode
    BY <1>3 DEF CodesInv, CodeTypes, HasSent
  <2>2. /\ nextCode' \in Nat \ {0} /\ nextCode <= nextCode' /\ uses' \in [0..MaxCodes -> Nat]
        /\ stored' \in [CodePhones -> Nat]
    BY DEF CodesInv, CodeTypes, Same
  <2> QED BY <2>1, <2>2, SameKv, TypesStep DEF Same
<1>6. KeptInv'
  <2>1. \A d \in Users : sms'[d].at \in {"send", "store"} => sms'[d] = sms[d]
    BY <1>4
  <2> QED BY <2>1 DEF CodesInv, KeptInv, Same
<1>7. FreshInv'
  <2> SUFFICES ASSUME NEW d \in Users, sms'[d].at \in {"send", "store"}
               PROVE  /\ uses'[sms'[d].code] = 0
                      /\ \A e \in Users : e # d /\ sms'[e].at \in {"send", "store", "delete"} =>
                            sms'[e].code # sms'[d].code
    BY DEF FreshInv
  <2>1. d # c /\ sms'[d] = sms[d] /\ sms[d].code # n
    BY <1>3, <1>4
  <2>2. uses[sms[d].code] = 0
        /\ \A e \in Users : e # d /\ sms[e].at \in {"send", "store", "delete"} =>
              sms[e].code # sms[d].code
    BY <2>1 DEF CodesInv, FreshInv
  <2> QED BY <1>4, <2>1, <2>2
<1>8. SentInv'
  BY <1>3, <1>4 DEF CodesInv, SentInv, Same
<1>9. UsesInv'
  BY <1>3, <1>4 DEF CodesInv, UsesInv, Same
<1>10. WindowInv'
  <2>1. clock' \in Nat /\ clock <= clock'
    BY DEF CodesInv, CodeTypes
  <2>2. \A d \in Users : sms[d].at \in {"store", "mark"} => sms'[d] = sms[d]
    BY <1>4
  <2> QED BY <2>1, <2>2, WindowKept DEF Same
<1> QED BY <1>5, <1>6, <1>7, <1>8, <1>9, <1>10 DEF CodesInv

LEMMA VerifyCodeStep ==
    ASSUME CodesInv, NEW c \in Users, NEW p \in CodePhones, NEW right \in BOOLEAN,
           VerifyCode(c, p, right)
    PROVE  CodesInv'
<1>1. /\ sms[c].at = "ready" /\ Holds(Code(p)) /\ UNCHANGED <<backend, clock, nextCode, blind>>
      /\ UNCHANGED <<sends, enabled, stored>>
  BY DEF VerifyCode
<1>2. PICK n \in 1..MaxCodes : n = kv[Code(p)].val /\ (clock - stored[p] >= CodeTTL) = FALSE
  BY <1>1, FoundInTime
<1>3. CASE backend = "redis"
  <2>1. Del(Code(p)) /\ Verified(n, right, FALSE) /\ UNCHANGED sms
    BY <1>2, <1>3 DEF VerifyCode
  <2>2. (uses' = [uses EXCEPT ![n] = @ + 1] \/ uses' = uses) /\ UNCHANGED overdue
    BY <2>1 DEF Verified
  <2> QED BY <1>1, <1>2, <1>3, <2>1, <2>2, VerifyTakesStep DEF Same
<1>4. CASE backend # "redis"
  <2>1. PICK r : r = [at |-> "delete", phone |-> p, code |-> n, right |-> right, old |-> FALSE]
    OBVIOUS
  <2>2. To(c, r) /\ UNCHANGED <<kv, uses, overdue>>
    BY <1>2, <1>4, <2>1 DEF VerifyCode
  <2>3. r \in SmsRows /\ r.at = "delete" /\ r.phone = p /\ r.code = n /\ ~r.old
    BY <2>1 DEF SmsRows, Steps
  <2> HIDE <2>1
  <2> QED BY <1>1, <1>2, <1>4, <2>2, <2>3, VerifyReadsStep DEF Same
<1> QED BY <1>3, <1>4

LEMMA DeleteCodeStep ==
    ASSUME CodesInv, NEW c \in Users, DeleteCode(c)
    PROVE  CodesInv'
<1>1. /\ sms[c].at = "delete" /\ To(c, Ready)
      /\ UNCHANGED <<backend, clock, nextCode, sends, blind, enabled, stored>>
  BY DEF DeleteCode
<1>2. PICK p \in CodePhones, n \in 1..MaxCodes : p = sms[c].phone /\ n = sms[c].code
  BY <1>1 DEF CodesInv, CodeTypes
<1>3. CASE ~up
  <2>1. UNCHANGED <<kv, uses>> /\ Same
    BY <1>1, <1>3 DEF DeleteCode, Same
  <2> QED BY <1>1, <2>1, SameKv, DoneStep
<1>4. CASE up
  <2>1. Del(Code(p)) /\ Verified(n, sms[c].right, sms[c].old) /\ ~sms[c].old
    BY <1>1, <1>2, <1>4 DEF DeleteCode, CodesInv, UsesInv
  <2>2. (uses' = [uses EXCEPT ![n] = @ + 1] \/ uses' = uses) /\ Same
    BY <1>1, <2>1 DEF Verified, Same
  <2>3. /\ kv' \in [Keys -> Entries] /\ kv'[Code(p)].val = Absent
        /\ \A q \in CodePhones : /\ kv'[Code(q)] = kv[Code(q)] \/ kv'[Code(q)].val = Absent
                                 /\ kv'[Rate(q)].val \in {Absent, "1"}
                                 /\ kv'[Rate(q)] = kv[Rate(q)]
                                 /\ q # p => kv'[Code(q)] = kv[Code(q)]
    BY <2>1, DelCode
  <2>4. CASE uses' = uses
    BY <1>1, <2>2, <2>3, <2>4, DoneStep
  <2>5. CASE uses' = [uses EXCEPT ![n] = @ + 1]
    <3>1. n # Absent /\ HasSent(sends, n) /\ backend # "redis"
      BY <1>1, <1>2, Numbers DEF CodesInv, SentInv, UsesInv
    <3>2. \A q \in CodePhones : kv'[Code(q)].val # n
      BY <1>1, <1>2, <2>3, <3>1 DEF CodesInv, UsesInv
    <3>3. \A d \in Users : sms[d].at \in {"send", "store"} => sms[d].code # n
      BY <1>1, <1>2 DEF CodesInv, FreshInv
    <3>4. /\ sms' \in [Users -> SmsRows] /\ sms'[c] = Ready
          /\ \A d \in Users : d # c => sms'[d] = sms[d]
      BY <1>1, ReadyIs, OneGoes
    <3>5. \A d \in Users : sms'[d] = sms[d] \/ sms'[d].at = "ready"
      BY <3>4, ReadyIs
    <3>6. KeptInv' /\ FreshInv' /\ SentInv' /\ UsesInv'
      BY <2>2, <2>3, <2>5, <3>1, <3>2, <3>3, <3>5, CodeUsed
    <3>7. CodeTypes'
      <4>1. uses' \in [0..MaxCodes -> Nat] /\ stored' \in [CodePhones -> Nat]
        BY <1>1, <2>5 DEF CodesInv, CodeTypes
      <4>2. \A q \in CodePhones : kv'[Code(q)].val \in {Absent} \cup 1..MaxCodes
        BY <2>3 DEF CodesInv, CodeTypes
      <4>3. nextCode' \in Nat \ {0} /\ nextCode <= nextCode'
        BY <1>1 DEF CodesInv, CodeTypes
      <4> QED BY <1>1, <2>3, <4>1, <4>2, <4>3, ReadyIs, TypesStep
    <3>8. WindowInv'
      <4>1. clock' \in Nat /\ clock <= clock'
        BY <1>1 DEF CodesInv, CodeTypes
      <4>2. \A d \in Users : sms[d].at \in {"store", "mark"} => sms'[d] = sms[d]
        BY <1>1, <3>4
      <4> QED BY <1>1, <2>3, <4>1, <4>2, WindowKept
    <3> QED BY <3>6, <3>7, <3>8 DEF CodesInv
  <2> QED BY <2>2, <2>4, <2>5
<1> QED BY <1>3, <1>4

LEMMA DevelopmentStep == CodesInv /\ VerifyDevelopment => CodesInv'
<1> SUFFICES ASSUME CodesInv, VerifyDevelopment PROVE CodesInv'
  OBVIOUS
<1>1. /\ uses' = [uses EXCEPT ![Development] = @ + 1] /\ ~enabled /\ Same
      /\ UNCHANGED <<kv, clock, sms, nextCode, blind>>
  BY DEF VerifyDevelopment, Verified, Same, cacheVars, kvVars
<1>2. uses' \in [0..MaxCodes -> Nat] /\ \A n \in 1..MaxCodes : uses'[n] = uses[n]
  <2>1. uses \in [0..MaxCodes -> Nat]
    BY DEF CodesInv, CodeTypes
  <2>2. uses' \in [0..MaxCodes -> Nat]
    <3>1. Development \in 0..MaxCodes
      BY SessionsAssumption DEF Development
    <3>2. uses[Development] + 1 \in Nat
      BY <2>1, <3>1
    <3> QED BY <1>1, <2>1, <3>2
  <2>3. ASSUME NEW n \in 1..MaxCodes PROVE uses'[n] = uses[n]
    <3>1. n \in 0..MaxCodes /\ n # Development
      BY Numbers
    <3> QED BY <1>1, <2>1, <3>1
  <2> QED BY <2>2, <2>3
<1>3. CodeTypes'
  BY <1>1, <1>2 DEF CodesInv, CodeTypes, Same
<1>4. KeptInv' /\ FreshInv' /\ SentInv' /\ UsesInv'
  BY <1>1, <1>2, CodesQuiet
<1>5. WindowInv'
  BY <1>1 DEF CodesInv, WindowInv, Same
<1> QED BY <1>3, <1>4, <1>5 DEF CodesInv

\* Time passes, the cache is lost and found again, or nothing happens.
LEMMA CodesWait ==
    ASSUME CodesInv, UNCHANGED <<backend, kv, smsVars>>, clock' \in Nat, clock <= clock'
    PROVE  CodesInv'
<1>1. UNCHANGED <<sms, nextCode, blind, uses>> /\ Same
  BY DEF smsVars, Same
<1>2. CodeTypes'
  <2>1. PICK t \in Nat, u \in Nat : t = clock /\ u = clock'
    BY DEF CodesInv, CodeTypes
  <2>2. \A i \in Nat : i <= t => i <= u
    BY <2>1
  <2>3. \A s \in sends : s.at \in Nat /\ s.at <= clock
    BY DEF CodesInv, CodeTypes, SendRows
  <2>4. \A s \in sends' : s.at <= clock'
    BY <1>1, <2>1, <2>2, <2>3 DEF Same
  <2> QED BY <1>1, <2>4 DEF CodesInv, CodeTypes, Same
<1>3. KeptInv' /\ FreshInv' /\ SentInv' /\ UsesInv'
  BY <1>1, CodesQuiet
<1>4. WindowInv'
  BY <1>1, WindowKept DEF Same
<1> QED BY <1>2, <1>3, <1>4 DEF CodesInv

LEMMA CodeStep == CodesInv /\ CodeNext => CodesInv'
<1> SUFFICES ASSUME CodesInv, CodeNext PROVE CodesInv'
  OBVIOUS
<1>1. CASE (Tick \/ Outage) /\ UNCHANGED <<sessVars, smsVars>>
  <2>1. UNCHANGED <<backend, kv, smsVars>> /\ (clock' = clock \/ clock' = clock + 1)
    BY <1>1 DEF Tick, Outage
  <2>2. clock' \in Nat /\ clock <= clock'
    BY <2>1 DEF CodesInv, CodeTypes
  <2> QED BY <2>1, <2>2, CodesWait
<1>2. ASSUME NEW c \in Users,
             \/ SendTemplate(c) \/ StoreCode(c) \/ MarkRate(c) \/ DeleteCode(c)
             \/ \E p \in CodePhones :
                  SendStart(c, p) \/ \E right \in BOOLEAN : VerifyCode(c, p, right)
      PROVE  CodesInv'
  BY <1>2, SendTemplateStep, StoreCodeStep, MarkRateStep, DeleteCodeStep, SendStartStep,
     VerifyCodeStep
<1> QED BY <1>1, <1>2, DevelopmentStep DEF CodeNext

LEMMA CodesStutter ==
    CodesInv /\ UNCHANGED <<cacheVars, sessVars, smsVars>> => CodesInv'
<1> SUFFICES ASSUME CodesInv, UNCHANGED <<cacheVars, sessVars, smsVars>> PROVE CodesInv'
  OBVIOUS
<1>1. UNCHANGED <<backend, kv, clock, smsVars>>
  BY DEF cacheVars, kvVars
<1>2. clock' \in Nat /\ clock <= clock'
  BY <1>1 DEF CodesInv, CodeTypes
<1> QED BY <1>1, <1>2, CodesWait

-----------------------------------------------------------------------------
(* The parts together *)

StoresInv ==
    /\ part \in {"objects", "copies", "cleaners"} => StorageInv
    /\ part = "lists" => ListsInv
    /\ part = "sessions" => StoredInv
    /\ part = "codes" => CodesInv

LEMMA StoresStart == Init => StoresInv
BY StorageStarts, ListsStart, SessionsStart, CodesStart DEF Init, StoresInv

LEMMA StoresStep == StoresInv /\ [Next]_everything => StoresInv'
<1> SUFFICES ASSUME StoresInv, [Next]_everything PROVE StoresInv'
  OBVIOUS
<1>1. UNCHANGED part
  BY DEF Next, everything
<1>2. CASE part \in {"objects", "copies", "cleaners"}
  <2>1. StorageInv
    BY <1>2 DEF StoresInv
  <2>2. \/ ObjectNext /\ UNCHANGED <<kind, fileVars>>
        \/ CopyNext /\ UNCHANGED kind
        \/ CleanerNext /\ UNCHANGED kind
        \/ UNCHANGED storageVars
    BY <1>2 DEF Next, everything
  <2> QED
    BY <1>1, <1>2, <2>1, <2>2, ObjectStep, CopyStepOfStorage, CleanerStep, StorageStutters
       DEF StoresInv
<1>3. CASE part = "lists"
  <2>1. ListsInv
    BY <1>3 DEF StoresInv
  <2>2. ListNext \/ UNCHANGED <<listVars, backend>>
    BY <1>3 DEF Next, everything, kvAll, cacheVars, kvVars
  <2> QED BY <1>1, <1>3, <2>1, <2>2, ListStep, ListsStutter DEF StoresInv
<1>4. CASE part = "sessions"
  <2>1. StoredInv
    BY <1>4 DEF StoresInv
  <2>2. SessionNext \/ UNCHANGED <<cacheVars, sessVars, smsVars>>
    BY <1>4 DEF Next, everything, kvAll
  <2> QED BY <1>1, <1>4, <2>1, <2>2, SessionStep, SessionStutters DEF StoresInv
<1>5. CASE part = "codes"
  <2>1. CodesInv
    BY <1>5 DEF StoresInv
  <2>2. CodeNext \/ UNCHANGED <<cacheVars, sessVars, smsVars>>
    BY <1>5 DEF Next, everything, kvAll
  <2> QED BY <1>1, <1>5, <2>1, <2>2, CodeStep, CodesStutter DEF StoresInv
<1> QED BY <1>1, <1>2, <1>3, <1>4, <1>5 DEF StoresInv

\* Whatever the number of keys, callers, tokens, phones and codes: what was
\* uploaded is in the store until a call takes it away; a cleanup leaves no copy
\* that had expired and no more than there may be, and a cleaner that runs can be
\* stopped unless starts overlapped; each value of a list is in one place; a token
\* resolves just while its session stands; a code is accepted within its time, and
\* not found again once it was; and a phone is marked for the interval, so that
\* only requests that overlapped send it another message (storage/cache.go,
\* cache/cache.go, auth/session.go, sms/sms.go).
THEOREM StoresAreKept == Spec => []StoresHold
<1>1. StoresInv => StoresHold
  BY StorageIsRight, ListsAreRight, SessionsAreRight, CodesAreRight DEF StoresInv, StoresHold
<1> QED BY <1>1, StoresStart, StoresStep, PTL DEF Spec
=============================================================================
