------------------------------- MODULE Storage --------------------------------
(***************************************************************************)
(* src/storage: objects in a bucket or in one flat directory, and the      *)
(* local copies of remote objects with the cleaner that removes them.      *)
(***************************************************************************)
EXTENDS Naturals, FiniteSets, Sequences

CONSTANTS
    ObjectKeys,     \* normalised keys
    Base(_),        \* the file name of a key
    Stores,         \* "s3", "local"
    Callers,        \* goroutines that use objects
    Readers,        \* goroutines that ask for local copies
    Cached,         \* keys with local copies
    FileTtl, TempTtl, MaxFiles,  \* CachePolicy (a file stands for its bytes), stale age
    MaxVersion, MaxNow, MaxStarts   \* bounds: uploads, clock, starts of the cleaner

ASSUME StorageAssumption ==
    /\ Stores \subseteq {"s3", "local"} /\ IsFiniteSet(Cached) /\ MaxNow \in Nat
    /\ {FileTtl, TempTtl, MaxFiles} \subseteq Nat

VARIABLES
    kind,       \* NewStore: which store
    objs,       \* objs[k]: the version of the object, 0 for none
    moving,     \* moving[c]: a MoveFile between its copy and its deletion
    version,    \* versions uploaded
    gone,       \* versions deleted or replaced, or moved twice at one time
    bucket,     \* "none", "private", "public"
    ensure,     \* ensure[c]: where ensureBucket of a starting process is
    half,       \* a process ended between creating the bucket and its ACL
    files,      \* files[k]: modification time of the local copy, 0 for none
    temps,      \* temporary files: by whom, or nobody after a crash, and when
    dir,        \* the directory of the copies exists
    fetch,      \* fetch[c]: a CachedFile in progress
    pass,       \* the latest CleanupCacheOnce
    cleaners,   \* ids of cleaners that run
    handle,     \* cacheStopChan: the cleaner that StopCacheCleaner stops, or 0
    starting,   \* starts that have launched a cleaner and not stored its channel
    overlapped, \* cleaners whose handle another start overwrote
    now

objectVars == <<objs, moving, version, gone, bucket, ensure, half>>
fileVars == <<files, temps, dir, fetch, pass, cleaners, handle, starting, overlapped, now>>
storageVars == <<kind, objectVars, fileVars>>

NoFetch == [at |-> "idle", key |-> ""]

\* started: the time it was given; copies, stale: what it has yet to visit; kept:
\* the copies it counts, with their times; fresh: the copies that were
\* downloaded since, and trimmed: the latest time of one that it removed to make
\* room (history).
NoPass == [at |-> "ended", started |-> 0, copies |-> {}, stale |-> {}, key |-> "", kept |-> {},
           fresh |-> {}, trimmed |-> 0]

StorageInit ==
    /\ kind \in Stores
    /\ objs = [k \in ObjectKeys \cup {Base(k) : k \in ObjectKeys} |-> 0]
    /\ moving = [c \in Callers |-> <<>>] /\ version = 0 /\ gone = {}
    /\ bucket \in {"none", "public"}
    /\ ensure = [c \in Callers |-> "down"] /\ half = FALSE
    /\ files = [k \in Cached |-> 0] /\ temps = {} /\ dir = FALSE
    /\ fetch = [c \in Readers |-> NoFetch] /\ pass = NoPass
    /\ cleaners = {} /\ handle = 0 /\ starting = {} /\ overlapped = {} /\ now = 1

\* localPath keeps the file name of a key: keys with one name share a file.
Place(k) == IF kind = "local" THEN Base(k) ELSE k
Replaced(k) == {objs[Place(k)]} \ {0}

\* Upload under an explicit key; os.Create empties the local file first, so
\* that a copy that fails has destroyed what was there.
Upload(k) ==
    /\ version < MaxVersion
    /\ version' = version + 1
    /\ \/ objs' = [objs EXCEPT ![Place(k)] = version'] /\ gone' = gone \cup Replaced(k)
       \/ /\ IF kind = "local" THEN objs' = [objs EXCEPT ![Place(k)] = 0] ELSE UNCHANGED objs
          /\ gone' = gone \cup {version'} \cup IF kind = "local" THEN Replaced(k) ELSE {}
    /\ UNCHANGED <<moving, bucket, ensure, half>>

Delete(k) ==
    /\ objs[Place(k)] # 0
    /\ objs' = [objs EXCEPT ![Place(k)] = 0] /\ gone' = gone \cup Replaced(k)
    /\ UNCHANGED <<moving, version, bucket, ensure, half>>

\* An object that two moves take at one time.
Contested(v) == {v} \cap {moving[d][2] : d \in {e \in Callers : moving[e] # <<>>}}

\* Mutant: the copy's error is ignored.
MoveUnchecked(c, s, t) ==
    /\ objs[Place(s)] # 0 /\ s # t /\ moving[c] = <<>> /\ kind = "s3"
    /\ \/ gone' = gone \cup (Replaced(t) \ Replaced(s)) \cup Contested(objs[s])
          /\ objs' = [objs EXCEPT ![t] = objs[s]]
       \/ UNCHANGED <<gone, objs>>
    /\ moving' = [moving EXCEPT ![c] = <<s, objs[s]>>]
    /\ UNCHANGED <<version, bucket, ensure, half>>

\* MoveFile of a bucket copies and then deletes the source; of a directory it
\* renames.  Nothing happens when both keys are one.  Two moves of one object
\* at a time, there and back, delete both copies.
MoveFile(c, s, t) ==
    /\ objs[Place(s)] # 0 /\ s # t /\ moving[c] = <<>>
    /\ gone' = gone \cup (Replaced(t) \ Replaced(s)) \cup Contested(objs[Place(s)])
    /\ IF kind = "local"
       THEN /\ objs' = [[objs EXCEPT ![Place(s)] = 0] EXCEPT ![Place(t)] = objs[Place(s)]]
            /\ UNCHANGED moving
       ELSE /\ objs' = [objs EXCEPT ![t] = objs[s]]
            /\ moving' = [moving EXCEPT ![c] = <<s, objs[s]>>]
    /\ UNCHANGED <<version, bucket, ensure, half>>

\* The deletion takes whatever the source holds by then, such as a later
\* upload; it may also fail, or never be tried.
DeleteSource(c) ==
    /\ moving[c] # <<>>
    /\ \/ /\ objs' = [objs EXCEPT ![moving[c][1]] = 0]
          /\ gone' = gone \cup ({objs[moving[c][1]]} \ {0, moving[c][2]})
       \/ UNCHANGED <<objs, gone>>
    /\ moving' = [moving EXCEPT ![c] = <<>>]
    /\ UNCHANGED <<version, bucket, ensure, half>>

\* ensureBucket for a public bucket: HeadBucket, CreateBucket, PutBucketAcl; one
\* process creates, and a bucket that exists keeps the ACL it has.
EnsureBucket(c) ==
    /\ kind = "s3" /\ ensure[c] = "down"
    /\ ensure' = [ensure EXCEPT ![c] = IF bucket = "none" THEN "create" ELSE "up"]
    /\ UNCHANGED <<objs, moving, version, gone, bucket, half>>
CreateBucket(c) ==
    /\ ensure[c] = "create"
    /\ IF bucket = "none" THEN bucket' = "private" /\ ensure' = [ensure EXCEPT ![c] = "acl"]
       ELSE UNCHANGED bucket /\ ensure' = [ensure EXCEPT ![c] = "up"]
    /\ UNCHANGED <<objs, moving, version, gone, half>>
PutBucketAcl(c) ==
    /\ ensure[c] = "acl"
    /\ \/ bucket' = "public" /\ ensure' = [ensure EXCEPT ![c] = "up"] /\ UNCHANGED half
       \/ half' = TRUE /\ ensure' = [ensure EXCEPT ![c] = "down"] /\ UNCHANGED bucket
    /\ UNCHANGED <<objs, moving, version, gone>>

ObjectNext ==
    \/ \E k \in ObjectKeys :
          Upload(k) \/ Delete(k) \/ \E t \in ObjectKeys, c \in Callers : MoveFile(c, k, t)
    \/ \E c \in Callers : DeleteSource(c) \/ EnsureBucket(c) \/ CreateBucket(c) \/ PutBucketAcl(c)

-----------------------------------------------------------------------------
Copies == {k \in Cached : files[k] # 0}

\* CachedFile: a hit refreshes the time, a miss makes the directory.
CachedFile(c, k) ==
    /\ fetch[c].at = "idle"
    /\ IF k \in Copies
       THEN files' = [files EXCEPT ![k] = now] /\ UNCHANGED <<dir, fetch>>
       ELSE /\ dir' = TRUE /\ UNCHANGED files
            /\ fetch' = [fetch EXCEPT ![c] = [at |-> "get", key |-> k]]
    /\ UNCHANGED <<temps, pass, cleaners, handle, starting, overlapped, now>>

Mine(c) == {x \in temps : x.by = <<c>>}

\* Download: a temporary file (which fails when the cleaner has taken the
\* directory away), its content, and the rename.
CreateTemp(c) ==
    /\ fetch[c].at = "get" /\ dir
    /\ temps' = temps \cup {[by |-> <<c>>, time |-> now]}
    /\ fetch' = [fetch EXCEPT ![c].at = "copy"]
    /\ UNCHANGED <<files, dir, pass, cleaners, handle, starting, overlapped, now>>
Rename(c) ==
    LET mine == Mine(c) IN
    /\ fetch[c].at = "copy" /\ mine # {}
    /\ temps' = temps \ mine
    /\ files' = [files EXCEPT ![fetch[c].key] = now]
    /\ pass' = [pass EXCEPT !.fresh = @ \cup {fetch[c].key}]
    /\ fetch' = [fetch EXCEPT ![c] = NoFetch]
    /\ UNCHANGED <<dir, cleaners, handle, starting, overlapped, now>>
DownloadFails(c) ==
    /\ fetch[c].at # "idle"
    /\ fetch' = [fetch EXCEPT ![c] = NoFetch]
    /\ temps' = temps \ Mine(c)
    /\ UNCHANGED <<files, dir, pass, cleaners, handle, starting, overlapped, now>>

\* The process ends, and its downloads and its cleanup with it.
Crash ==
    /\ fetch' = [c \in Readers |-> NoFetch]
    /\ pass' = [NoPass EXCEPT !.fresh = Copies]
    /\ temps' = {[x EXCEPT !.by = <<>>] : x \in temps}
    /\ UNCHANGED <<files, dir, cleaners, handle, starting, overlapped, now>>

\* CleanupCacheOnce lists what there is and visits one file after the other.
Cleanup ==
    /\ pass.at = "ended"
    /\ pass' = [NoPass EXCEPT !.at = "walk", !.started = now, !.copies = Copies, !.stale = temps]
    /\ UNCHANGED <<files, temps, dir, fetch, cleaners, handle, starting, overlapped, now>>

\* removeCacheFile: the directory goes when it is left empty.
Removed(names, others) ==
    /\ files' = [k \in Cached |-> IF k \in names THEN 0 ELSE files[k]]
    /\ temps' = temps \ others
    /\ dir' = (dir /\ ~(names \cup others # {} /\ Copies \subseteq names /\ temps \subseteq others))

VisitTemp(x) ==
    /\ pass.at = "walk" /\ x \in pass.stale
    /\ pass' = [pass EXCEPT !.stale = @ \ {x}]
    /\ Removed({}, IF x.time + TempTtl < pass.started THEN {x} \cap temps ELSE {})
    /\ UNCHANGED <<fetch, cleaners, handle, starting, overlapped, now>>

\* A copy that has expired is removed next, whatever has touched it since;
\* the others are counted.
VisitCopy(k) ==
    /\ pass.at = "walk" /\ k \in pass.copies
    /\ pass' = IF FileTtl > 0 /\ files[k] + FileTtl < pass.started
               THEN [pass EXCEPT !.copies = @ \ {k}, !.at = "remove", !.key = k]
               ELSE [pass EXCEPT !.copies = @ \ {k}, !.kept = @ \cup {<<k, files[k]>>}]
    /\ UNCHANGED <<files, temps, dir, fetch, cleaners, handle, starting, overlapped, now>>
RemoveExpired ==
    /\ pass.at = "remove"
    /\ Removed({pass.key}, {})
    /\ pass' = [pass EXCEPT !.at = "walk"]
    /\ UNCHANGED <<fetch, cleaners, handle, starting, overlapped, now>>

\* When they are too many, those go first that had been used least recently
\* when they were visited.
Oldest(S) == CHOOSE f \in S : \A g \in S : f[2] <= g[2]
\* Mutant: the times are not looked at.
AnyOf(S) == CHOOSE f \in S : TRUE

EndWalk ==
    /\ pass.at = "walk" /\ pass.copies = {} /\ pass.stale = {}
    /\ pass' = [pass EXCEPT !.at = IF MaxFiles > 0 THEN "trim" ELSE "ended"]
    /\ UNCHANGED <<files, temps, dir, fetch, cleaners, handle, starting, overlapped, now>>
Trim ==
    LET f == Oldest(pass.kept) IN
    /\ pass.at = "trim"
    /\ IF Cardinality(pass.kept) > MaxFiles
       THEN Removed({f[1]}, {}) /\ pass' = [pass EXCEPT !.kept = @ \ {f}, !.trimmed = f[2]]
       ELSE pass' = [pass EXCEPT !.at = "ended", !.kept = {}] /\ UNCHANGED <<files, temps, dir>>
    /\ UNCHANGED <<fetch, cleaners, handle, starting, overlapped, now>>

\* StopCacheCleaner; StartCacheCleaner stops, launches, and stores the channel
\* under the lock it no longer held.
Stopped == cleaners \ {handle}
StopCacheCleaner ==
    /\ cleaners' = Stopped /\ handle' = 0
    /\ UNCHANGED <<files, temps, dir, fetch, pass, starting, overlapped, now>>
StartCacheCleaner(i) ==
    /\ i \notin cleaners \cup overlapped \cup starting /\ handle # i
    /\ cleaners' = Stopped \cup {i} /\ handle' = 0 /\ starting' = starting \cup {i}
    /\ UNCHANGED <<files, temps, dir, fetch, pass, overlapped, now>>
StoreChannel(i) ==
    /\ i \in starting /\ starting' = starting \ {i}
    /\ handle' = i
    /\ overlapped' = overlapped \cup ({handle} \ {0})
    /\ UNCHANGED <<files, temps, dir, fetch, pass, cleaners, now>>

Hour == now < MaxNow /\ now' = now + 1
        /\ UNCHANGED <<files, temps, dir, fetch, pass, cleaners, handle, starting, overlapped>>

CopyNext ==
    /\ UNCHANGED objectVars
    /\ \/ \E c \in Readers : CreateTemp(c) \/ Rename(c) \/ DownloadFails(c)
                             \/ \E k \in Cached : CachedFile(c, k)
       \/ \E x \in temps \cup pass.stale : VisitTemp(x)
       \/ \E k \in Cached : VisitCopy(k)
       \/ Crash \/ Cleanup \/ RemoveExpired \/ EndWalk \/ Trim \/ Hour

CleanerNext ==
    /\ UNCHANGED objectVars
    /\ StopCacheCleaner \/ \E i \in 1..MaxStarts : StartCacheCleaner(i) \/ StoreChannel(i)

-----------------------------------------------------------------------------
\* An object that nobody deleted or replaced is found under some key, also in
\* the middle of a move or after one that failed, and a bucket that was
\* created for everybody is readable unless a start ended before its ACL
\* (src/storage/storage.go:616, 329).
ObjectsAreKept ==
    /\ \A v \in 1..version : v \in gone \/ \E k \in DOMAIN objs : objs[k] = v
    /\ bucket = "private" => half \/ \E c \in Callers : ensure[c] = "acl"

\* A cleaner that runs can be stopped, now or when its start has ended,
\* unless starts overlapped (src/storage/cache.go:110).
CleanersStop == cleaners \subseteq {handle} \cup starting \cup overlapped

\* When a cleanup has ended there is no copy and no temporary file left that
\* had expired when it began, nor more copies than there may be, but for those
\* downloaded while it ran; it has left as many as there may be when it removed
\* any for room, and none of those it left had been used less recently
\* (src/storage/cache.go:148).
CopiesHold ==
    LET left == Copies \ pass.fresh IN
    pass.at = "ended" =>
        /\ FileTtl > 0 => \A k \in Copies : files[k] + FileTtl >= pass.started
        /\ \A x \in temps : x.time + TempTtl >= pass.started
        /\ MaxFiles > 0 => Cardinality(left) <= MaxFiles
        /\ pass.trimmed > 0 => /\ Cardinality(Copies) >= MaxFiles
                               /\ \A k \in left : pass.trimmed <= files[k]

StorageHolds == ObjectsAreKept /\ CleanersStop /\ CopiesHold
=============================================================================
