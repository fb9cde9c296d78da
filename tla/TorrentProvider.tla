--------------------------- MODULE TorrentProvider ---------------------------
(***************************************************************************)
(* torrent_source_provider/service.py with the searches of                 *)
(* indexers/service.py below it: lookups shared by awaiting one task, the  *)
(* .torrent files a lookup finds in the cache or downloads under a keyed   *)
(* lock, and the database session that its result belongs to.              *)
(*                                                                         *)
(* A request is one call of find_by_imdb_id, find_by_torrent_id or         *)
(* find_one_by_indexer and what its caller does with the answer.  The task *)
(* a request starts has the request's name.  An item is what an indexer    *)
(* offers under a key.  Callers do not cancel: a handler runs to its end   *)
(* when the client goes away.                                              *)
(***************************************************************************)
CONSTANTS
    Callers,
    Keys,         \* keys of _ongoing_tasks
    SingleKeys,   \* those of find_one_by_indexer: nothing found is an error
    Items,
    IndexerOf,    \* IndexerOf[i]: the indexer that offers item i
    Offered,      \* Offered[k]: the items the sites have under key k
    NoKey,
    NoTask

VARIABLES
    ongoing,    \* _ongoing_tasks
    request,    \* per request: its place, its key and the task it awaits
    lookup,     \* per task: its stage, the items found and those with a cached row
    work,       \* per task and item: the download of a missing file
    files,      \* per item: its row in torrent_files, by who saved it
    closed      \* the requests whose session was committed and closed

providerVars == <<ongoing, request, lookup, work, files, closed>>

ProviderConstantsOK ==
    /\ SingleKeys \subseteq Keys
    /\ \A k \in Keys : Offered[k] \subseteq Items
    /\ NoTask \notin Callers /\ NoKey \notin Keys

Ended == {"done", "failed"}
Settled == {"none", "saved", "skipped"}
\* Between the two ends of _torrent_provider_locks(...).
Inside == {"checking", "downloading", "saving"}

Places == {"idle", "leading", "following", "holding", "error", "answered", "broken"}
RequestStates == [pc : Places, key : Keys \union {NoKey}, task : Callers \union {NoTask}]
LookupStages == {"none", "searching", "listing", "gathering"} \union Ended
LookupStates == [stage : LookupStages, found : SUBSET Items, cached : SUBSET Items]

ProviderTypeOK ==
    /\ ongoing \in [Keys -> Callers \union {NoTask}]
    /\ request \in [Callers -> RequestStates]
    /\ lookup \in [Callers -> LookupStates]
    /\ work \in [Callers -> [Items -> Settled \union Inside \union {"queued"}]]
    /\ files \in [Items -> {"none", "lookup", "stream"}]
    /\ closed \subseteq Callers

ProviderInit ==
    /\ ongoing = [k \in Keys |-> NoTask]
    /\ request = [r \in Callers |-> [pc |-> "idle", key |-> NoKey, task |-> NoTask]]
    /\ lookup = [r \in Callers |-> [stage |-> "none", found |-> {}, cached |-> {}]]
    /\ work = [r \in Callers |-> [i \in Items |-> "none"]]
    /\ files \in [Items -> {"none", "stream"}]
    /\ closed = {}

Cached == {i \in Items : files[i] # "none"}

Outcome(t) == IF lookup[t].stage = "done" THEN "holding" ELSE "error"

-------------------------------------------------------------------------------
(* The shared task.                                                        *)

\* Awaiting a task that has ended gives its outcome at once.
JoinLookup(r, k, t) ==
    /\ ongoing[k] = t /\ t # NoTask
    /\ request' = [request EXCEPT ![r] =
         [pc |-> IF lookup[t].stage \in Ended THEN Outcome(t) ELSE "following",
          key |-> k, task |-> t]]
    /\ UNCHANGED <<ongoing, lookup, work, files, closed>>

StartLookup(r, k) ==
    /\ ongoing[k] = NoTask
    /\ ongoing' = [ongoing EXCEPT ![k] = r]
    /\ lookup' = [lookup EXCEPT ![r].stage = "searching"]
    /\ request' = [request EXCEPT ![r] = [pc |-> "leading", key |-> k, task |-> r]]
    /\ UNCHANGED <<work, files, closed>>

Find(r, k) ==
    /\ request[r].pc = "idle"
    /\ StartLookup(r, k) \/ \E t \in Callers : JoinLookup(r, k, t)

\* Mutant of Forget: only a lookup that succeeds is forgotten.
ForgetSuccess(r) ==
    ongoing' = IF lookup[r].stage = "done" THEN [ongoing EXCEPT ![request[r].key] = NoTask]
               ELSE ongoing

\* The finally block: whatever the outcome, the key goes.
Forget(r) == ongoing' = [ongoing EXCEPT ![request[r].key] = NoTask]

LeaderWakes(r) ==
    /\ request[r].pc = "leading" /\ lookup[r].stage \in Ended
    /\ Forget(r)
    /\ request' = [request EXCEPT ![r].pc = Outcome(r)]
    /\ UNCHANGED <<lookup, work, files, closed>>

FollowerWakes(r) ==
    /\ request[r].pc = "following" /\ lookup[request[r].task].stage \in Ended
    /\ request' = [request EXCEPT ![r].pc = Outcome(request[r].task)]
    /\ UNCHANGED <<ongoing, lookup, work, files, closed>>

-------------------------------------------------------------------------------
(* The lookup.                                                             *)

\* Each indexer answers, or fails or exceeds its 12.5 seconds and is left out.
Search(t) ==
    /\ lookup[t].stage = "searching"
    /\ \E answering \in SUBSET {IndexerOf[i] : i \in Items} :
         LET found == {i \in Offered[request[t].key] : IndexerOf[i] \in answering} IN
         lookup' = [lookup EXCEPT ![t].found = found,
                      ![t].stage = IF found = {} /\ request[t].key \in SingleKeys
                                   THEN "failed" ELSE "listing"]
    /\ UNCHANGED <<ongoing, request, work, files, closed>>

\* The rows are read in the session of the request that started the lookup.
ListFiles(t) ==
    /\ lookup[t].stage = "listing"
    /\ LET missing == lookup[t].found \ Cached IN
       /\ lookup' = [lookup EXCEPT ![t].cached = lookup[t].found \intersect Cached,
                       ![t].stage = IF missing = {} THEN "done" ELSE "gathering"]
       /\ work' = [work EXCEPT ![t] =
                     [i \in Items |-> IF i \in missing THEN "queued" ELSE "none"]]
    /\ UNCHANGED <<ongoing, request, files, closed>>

Gathered(t) ==
    /\ lookup[t].stage = "gathering" /\ \A i \in Items : work[t][i] \in Settled
    /\ lookup' = [lookup EXCEPT ![t].stage = "done"]
    /\ UNCHANGED <<ongoing, request, work, files, closed>>

WorkStep(t, i, from, to) ==
    /\ work[t][i] = from
    /\ work' = [work EXCEPT ![t][i] = to]
    /\ UNCHANGED <<ongoing, request, lookup, closed>>

\* Mutant of Acquire: without the lock.
AcquireUnlocked(t, i) ==
    /\ WorkStep(t, i, "queued", "checking")
    /\ UNCHANGED files

Acquire(t, i) ==
    /\ \A u \in Callers : work[u][i] \notin Inside
    /\ WorkStep(t, i, "queued", "checking")
    /\ UNCHANGED files

\* The second look, in a session of its own: the lookup it queued behind may have saved it.
Check(t, i) ==
    /\ WorkStep(t, i, "checking", IF i \in Cached THEN "saved" ELSE "downloading")
    /\ UNCHANGED files

Download(t, i) ==
    /\ \E outcome \in {"saving", "skipped"} : WorkStep(t, i, "downloading", outcome)
    /\ UNCHANGED files

\* A stream that saved the file meanwhile makes this a conflict (409), which is skipped.
SaveFile(t, i) ==
    \/ /\ i \notin Cached /\ files' = [files EXCEPT ![i] = "lookup"]
       /\ WorkStep(t, i, "saving", "saved")
    \/ /\ WorkStep(t, i, "saving", "skipped")
       /\ UNCHANGED files

-------------------------------------------------------------------------------
(* The callers, and those who change the cache besides.                    *)

Result(t) == lookup[t].cached \union {i \in Items : work[t][i] = "saved"}

\* Mutant of Detached: the rows of isolated sessions stay bound to them and expire.
DetachedAll(t) ==
    IF t \in closed THEN Result(t) ELSE {i \in Items : work[t][i] = "saved"}

\* The sources with a row that can no longer be loaded.  Rows of the leader's session expire at
\* its commit and are detached when it is closed: the cached file, and in every source, freshly
\* downloaded or not, the row of the indexer's account.  Rows of an isolated session stay readable.
Detached(t) == IF t \in closed THEN Result(t) ELSE {}

\* The caller builds its answer from the files and the accounts of the sources, some of them
\* after one more await.
Use(r) ==
    /\ request[r].pc = "holding"
    /\ request' = [request EXCEPT ![r].pc =
                     IF Detached(request[r].task) = {} THEN "answered" ELSE "broken"]
    /\ UNCHANGED <<ongoing, lookup, work, files, closed>>

\* get_db: commit or rollback, and close, when the request is over.
CloseSession(r) ==
    /\ request[r].pc \in {"answered", "broken", "error"} /\ r \notin closed
    /\ closed' = closed \union {r}
    /\ UNCHANGED <<ongoing, request, lookup, work, files>>

\* prepare_for_stream saves a file it downloaded itself; the retention deletes one.
StreamSaves(i) ==
    /\ i \notin Cached /\ files' = [files EXCEPT ![i] = "stream"]
    /\ UNCHANGED <<ongoing, request, lookup, work, closed>>

Retention(i) ==
    /\ i \in Cached /\ files' = [files EXCEPT ![i] = "none"]
    /\ UNCHANGED <<ongoing, request, lookup, work, closed>>

LookupStep(t) ==
    \/ Search(t) \/ ListFiles(t) \/ Gathered(t)
    \/ \E i \in Items : Check(t, i) \/ Download(t, i) \/ SaveFile(t, i)

ProviderNext ==
    \/ \E r \in Callers, k \in Keys : Find(r, k)
    \/ \E r \in Callers : LeaderWakes(r) \/ FollowerWakes(r) \/ Use(r) \/ CloseSession(r)
    \/ \E t \in Callers : LookupStep(t) \/ \E i \in Items : Acquire(t, i)
    \/ \E i \in Items : StreamSaves(i) \/ Retention(i)

ProviderSpec == ProviderInit /\ [][ProviderNext]_providerVars

-------------------------------------------------------------------------------
(* Properties.                                                             *)

\* A file is downloaded by one lookup at a time, and never while the row of an earlier lookup
\* is there, whichever keys the two lookups have: lookups do not meet the conflict that
\* a stream can cause (service.py:218-246).
SharedDownload ==
    \A i \in Items, t \in Callers :
      work[t][i] \in {"downloading", "saving"}
        => /\ files[i] # "lookup"
           /\ \A u \in Callers \ {t} : work[u][i] \notin {"downloading", "saving"}

\* Nobody is given the outcome of a lookup whose own caller had been given it before
\* the call was made: what a caller gets was searched for while it asked, and an error is
\* not kept for later callers (service.py:43-56).
FreshLookup ==
    [][\A r \in Callers :
         request[r].pc = "idle" /\ request'[r].pc # "idle"
           => request'[request'[r].task].pc = "leading"]_providerVars

\* The rows of a lookup are readable for the request that started it whenever it uses
\* them; only a follower can come too late: when the request that it followed is over and
\* its session closed, and then for any source at all (service.py:44-47, database.py:77-86).
OnlyFollowersBreak ==
    \A r \in Callers :
      request[r].pc = "broken"
        => /\ request[r].task \in closed \ {r}
           /\ Result(request[r].task) # {}
===============================================================================
