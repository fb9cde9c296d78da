----------------------------- MODULE Services_proofs -----------------------------
(***************************************************************************)
(* Proofs about the services that talk to the outside: TorrentProvider,    *)
(* NetworkSettings and IndexerAccounts, which share no variable, each for  *)
(* any values of its constants.                                            *)
(***************************************************************************)
EXTENDS TorrentProvider, NetworkSettings, IndexerAccounts, TLAPS

(***************************************************************************)
(* TorrentProvider.  Three facts carry the properties: a key is stored     *)
(* only for a lookup whose own caller still waits for it; an outcome is    *)
(* given only when the lookup has ended, and a session is closed only      *)
(* after its request has used the outcome; and one lookup at a time is     *)
(* between the two ends of the lock of an item, where it downloads only    *)
(* what no earlier lookup has saved.                                       *)
(***************************************************************************)

Given == {"holding", "error", "answered", "broken"}

\* The key of a lookup is stored while its caller leads it, and only then.
StoredIsLed ==
    \A k \in Keys : ongoing[k] # NoTask =>
      request[ongoing[k]].pc = "leading" /\ request[ongoing[k]].key = k

\* Who has an outcome has it of a lookup that ended; who waits, waits for one that began.
OutcomeOfEnded ==
    \A r \in Callers :
      /\ request[r].pc = "idle" => lookup[r].stage = "none"
      /\ request[r].pc # "idle" => request[r].task \in Callers /\ request[r].key \in Keys
      /\ request[r].pc = "leading" => request[r].task = r
      /\ request[r].pc \in Given => lookup[request[r].task].stage \in Ended

ClosedAfterUse == \A r \in closed : request[r].pc \in {"answered", "broken", "error"}

\* The lock of an item.
OneInside ==
    \A i \in Items, t, u \in Callers :
      work[t][i] \in Inside /\ work[u][i] \in Inside => t = u

NotSavedBefore ==
    \A i \in Items, t \in Callers :
      work[t][i] \in {"downloading", "saving"} => files[i] # "lookup"

ProviderIInv ==
    /\ ProviderTypeOK
    /\ StoredIsLed
    /\ OutcomeOfEnded
    /\ ClosedAfterUse
    /\ OneInside
    /\ NotSavedBefore
    /\ OnlyFollowersBreak

USE DEF Ended, Settled, Inside, Given

-----------------------------------------------------------------------------
LEMMA PlaceChanges ==
    ASSUME NEW q \in RequestStates, NEW pc \in Places
    PROVE  [q EXCEPT !.pc = pc] \in RequestStates
BY DEF RequestStates

LEMMA StageChanges ==
    ASSUME NEW l \in LookupStates, NEW stage \in LookupStages, NEW items \in SUBSET Items
    PROVE  /\ [l EXCEPT !.stage = stage] \in LookupStates
           /\ [l EXCEPT !.found = items, !.stage = stage] \in LookupStates
           /\ [l EXCEPT !.cached = items, !.stage = stage] \in LookupStates
BY DEF LookupStates

LEMMA RequestMoves ==
    ASSUME ProviderTypeOK, NEW r \in Callers, NEW pc \in Places,
           request' = [request EXCEPT ![r].pc = pc]
    PROVE  request' \in [Callers -> RequestStates]
BY PlaceChanges DEF ProviderTypeOK

LEMMA LookupMoves ==
    ASSUME ProviderTypeOK, NEW t \in Callers, NEW stage \in LookupStages, NEW items \in SUBSET Items,
           \/ lookup' = [lookup EXCEPT ![t].stage = stage]
           \/ lookup' = [lookup EXCEPT ![t].found = items, ![t].stage = stage]
           \/ lookup' = [lookup EXCEPT ![t].cached = items, ![t].stage = stage]
    PROVE  lookup' \in [Callers -> LookupStates]
<1>1. PICK l \in LookupStates : lookup' = [lookup EXCEPT ![t] = l]
  <2>1. lookup[t] \in LookupStates
    BY DEF ProviderTypeOK
  <2>. DEFINE l1 == [lookup[t] EXCEPT !.stage = stage]
              l2 == [lookup[t] EXCEPT !.found = items, !.stage = stage]
              l3 == [lookup[t] EXCEPT !.cached = items, !.stage = stage]
  <2>2. l1 \in LookupStates /\ l2 \in LookupStates /\ l3 \in LookupStates
    BY <2>1, StageChanges
  <2>3. \/ lookup' = [lookup EXCEPT ![t] = l1]
        \/ lookup' = [lookup EXCEPT ![t] = l2]
        \/ lookup' = [lookup EXCEPT ![t] = l3]
    BY DEF ProviderTypeOK
  <2>. HIDE DEF l1, l2, l3
  <2>. QED  BY <2>2, <2>3
<1>. QED  BY <1>1 DEF ProviderTypeOK

LEMMA ProviderStart == ASSUME ProviderConstantsOK, ProviderInit PROVE ProviderIInv
BY DEF ProviderConstantsOK, ProviderInit, ProviderIInv, ProviderTypeOK, StoredIsLed, OutcomeOfEnded, ClosedAfterUse,
       OneInside, NotSavedBefore, OnlyFollowersBreak, RequestStates, LookupStates, Places, LookupStages

LEMMA FindKeeps ==
    ASSUME ProviderConstantsOK, ProviderIInv, NEW r \in Callers, NEW k \in Keys, Find(r, k)
    PROVE  ProviderIInv'
<1>. USE DEF ProviderIInv
<1>1. CASE StartLookup(r, k)
  <2>. USE <1>1 DEF Find, StartLookup
  <2>1. ProviderTypeOK'
    <3>1. ongoing' \in [Keys -> Callers \union {NoTask}]
      BY DEF ProviderTypeOK
    <3>2. lookup' \in [Callers -> LookupStates]
      BY LookupMoves DEF LookupStages
    <3>3. request' \in [Callers -> RequestStates]
      BY DEF ProviderTypeOK, RequestStates, Places
    <3>. QED  BY <3>1, <3>2, <3>3 DEF ProviderTypeOK
  <2>2. StoredIsLed'
    BY DEF ProviderTypeOK, StoredIsLed, ProviderConstantsOK
  <2>3. OutcomeOfEnded' /\ ClosedAfterUse'
    BY DEF ProviderTypeOK, OutcomeOfEnded, ClosedAfterUse
  <2>4. OneInside' /\ NotSavedBefore'
    BY DEF OneInside, NotSavedBefore
  <2>5. OnlyFollowersBreak'
    BY DEF ProviderTypeOK, OutcomeOfEnded, OnlyFollowersBreak, Result
  <2>. QED  BY <2>1, <2>2, <2>3, <2>4, <2>5
<1>2. ASSUME NEW t \in Callers, JoinLookup(r, k, t) PROVE ProviderIInv'
  <2>. USE <1>2 DEF Find, JoinLookup, Outcome
  <2>1. ProviderTypeOK'
    <3>. DEFINE pc == IF lookup[t].stage \in Ended THEN Outcome(t) ELSE "following"
    <3>1. [pc |-> pc, key |-> k, task |-> t] \in RequestStates
      BY DEF RequestStates, Places
    <3>2. request' = [request EXCEPT ![r] = [pc |-> pc, key |-> k, task |-> t]]
      OBVIOUS
    <3>. HIDE DEF pc
    <3>. QED  BY <3>1, <3>2 DEF ProviderTypeOK
  <2>2. StoredIsLed'
    BY DEF ProviderTypeOK, StoredIsLed
  <2>3. OutcomeOfEnded' /\ ClosedAfterUse'
    BY DEF ProviderTypeOK, OutcomeOfEnded, ClosedAfterUse
  <2>4. OneInside' /\ NotSavedBefore'
    BY DEF OneInside, NotSavedBefore
  <2>5. OnlyFollowersBreak'
    BY DEF ProviderTypeOK, OnlyFollowersBreak, Result
  <2>. QED  BY <2>1, <2>2, <2>3, <2>4, <2>5
<1>. QED
  BY <1>1, <1>2 DEF Find

LEMMA LeaderKeeps ==
    ASSUME ProviderConstantsOK, ProviderIInv, NEW r \in Callers, LeaderWakes(r)
    PROVE  ProviderIInv'
<1>. USE DEF ProviderIInv, LeaderWakes, Forget
<1>1. ProviderTypeOK'
  <2>1. Outcome(r) \in {"holding", "error"}
    BY DEF Outcome
  <2>2. request' \in [Callers -> RequestStates]
    BY <2>1, RequestMoves DEF Places
  <2>3. ongoing' \in [Keys -> Callers \union {NoTask}]
    BY DEF ProviderTypeOK
  <2>. QED  BY <2>2, <2>3 DEF ProviderTypeOK
<1>2. StoredIsLed'
  BY DEF ProviderTypeOK, StoredIsLed, ProviderConstantsOK, Outcome
<1>3. OutcomeOfEnded' /\ ClosedAfterUse'
  BY DEF ProviderTypeOK, OutcomeOfEnded, ClosedAfterUse, Outcome
<1>4. OneInside' /\ NotSavedBefore'
  BY DEF OneInside, NotSavedBefore
<1>5. OnlyFollowersBreak'
  BY DEF ProviderTypeOK, OnlyFollowersBreak, Result, Outcome
<1>. QED  BY <1>1, <1>2, <1>3, <1>4, <1>5

LEMMA FollowerKeeps ==
    ASSUME ProviderConstantsOK, ProviderIInv, NEW r \in Callers, FollowerWakes(r)
    PROVE  ProviderIInv'
<1>. USE DEF ProviderIInv, FollowerWakes
<1>1. ProviderTypeOK'
  <2>1. Outcome(request[r].task) \in {"holding", "error"}
    BY DEF Outcome
  <2>2. request' \in [Callers -> RequestStates]
    BY <2>1, RequestMoves DEF Places
  <2>. QED  BY <2>2 DEF ProviderTypeOK
<1>2. StoredIsLed'
  BY DEF ProviderTypeOK, StoredIsLed, Outcome
<1>3. OutcomeOfEnded' /\ ClosedAfterUse'
  BY DEF ProviderTypeOK, OutcomeOfEnded, ClosedAfterUse, Outcome
<1>4. OneInside' /\ NotSavedBefore'
  BY DEF OneInside, NotSavedBefore
<1>5. OnlyFollowersBreak'
  BY DEF ProviderTypeOK, OnlyFollowersBreak, Result, Outcome
<1>. QED  BY <1>1, <1>2, <1>3, <1>4, <1>5

\* A session that is closed is not that of a request that still holds an outcome.
LEMMA UseKeeps ==
    ASSUME ProviderConstantsOK, ProviderIInv, NEW r \in Callers, Use(r)
    PROVE  ProviderIInv'
<1>. USE DEF ProviderIInv, Use
<1>1. ProviderTypeOK'
  <2>. DEFINE pc == IF Detached(request[r].task) = {} THEN "answered" ELSE "broken"
  <2>1. pc \in {"answered", "broken"} /\ request' = [request EXCEPT ![r].pc = pc]
    OBVIOUS
  <2>. HIDE DEF pc
  <2>2. request' \in [Callers -> RequestStates]
    BY <2>1, RequestMoves DEF Places
  <2>. QED  BY <2>2 DEF ProviderTypeOK
<1>2. StoredIsLed'
  BY DEF ProviderTypeOK, StoredIsLed
<1>3. OutcomeOfEnded' /\ ClosedAfterUse'
  BY DEF ProviderTypeOK, OutcomeOfEnded, ClosedAfterUse
<1>4. OneInside' /\ NotSavedBefore'
  BY DEF OneInside, NotSavedBefore
<1>5. OnlyFollowersBreak'
  BY DEF ProviderTypeOK, OnlyFollowersBreak, Result, ClosedAfterUse, OutcomeOfEnded, Detached
<1>. QED  BY <1>1, <1>2, <1>3, <1>4, <1>5

\* A lookup that has not ended is of interest to nobody with an outcome.
\* A lookup that has not ended has given nobody a source.
LEMMA NotOfEnded ==
    ASSUME ProviderIInv, NEW t \in Callers, lookup[t].stage \notin Ended,
           UNCHANGED <<request, closed>>,
           \A u \in Callers \ {t} : lookup'[u] = lookup[u] /\ work'[u] = work[u]
    PROVE  OnlyFollowersBreak'
<1>1. \A r \in Callers : request[r].pc = "broken" => request[r].task \in Callers \ {t}
  BY DEF ProviderIInv, OutcomeOfEnded
<1>2. \A u \in Callers \ {t} : Result(u)' = Result(u)
  BY DEF Result
<1>. QED  BY <1>1, <1>2 DEF ProviderIInv, OnlyFollowersBreak

LEMMA SearchKeeps ==
    ASSUME ProviderConstantsOK, ProviderIInv, NEW t \in Callers, Search(t)
    PROVE  ProviderIInv'
<1>. USE DEF ProviderIInv, Search
<1>1. ProviderTypeOK'
  <2>1. PICK found \in SUBSET Items, stage \in {"failed", "listing"} :
          lookup' = [lookup EXCEPT ![t].found = found, ![t].stage = stage]
    <3>1. PICK answering :
            lookup' = [lookup EXCEPT
              ![t].found = {i \in Offered[request[t].key] : IndexerOf[i] \in answering},
              ![t].stage = IF /\ {i \in Offered[request[t].key] : IndexerOf[i] \in answering} = {}
                              /\ request[t].key \in SingleKeys
                           THEN "failed" ELSE "listing"]
      OBVIOUS
    <3>2. Offered[request[t].key] \subseteq Items
      BY DEF ProviderTypeOK, OutcomeOfEnded, RequestStates, ProviderConstantsOK
    <3>. QED  BY <3>1, <3>2
  <2>2. lookup' \in [Callers -> LookupStates]
    BY <2>1, LookupMoves DEF LookupStages
  <2>. QED  BY <2>2 DEF ProviderTypeOK
<1>2. StoredIsLed' /\ ClosedAfterUse'
  BY DEF StoredIsLed, ClosedAfterUse
<1>3. OutcomeOfEnded'
  BY DEF ProviderTypeOK, OutcomeOfEnded
<1>4. OneInside' /\ NotSavedBefore'
  BY DEF OneInside, NotSavedBefore
<1>5. OnlyFollowersBreak'
  BY NotOfEnded DEF ProviderTypeOK
<1>. QED  BY <1>1, <1>2, <1>3, <1>4, <1>5

LEMMA ListKeeps ==
    ASSUME ProviderConstantsOK, ProviderIInv, NEW t \in Callers, ListFiles(t)
    PROVE  ProviderIInv'
<1>. USE DEF ProviderIInv, ListFiles
<1>1. ProviderTypeOK'
  <2>. DEFINE missing == lookup[t].found \ Cached
              stage == IF missing = {} THEN "done" ELSE "gathering"
              cached == lookup[t].found \intersect Cached
              row == [i \in Items |-> IF i \in missing THEN "queued" ELSE "none"]
  <2>1. /\ stage \in {"done", "gathering"} /\ row \in [Items -> {"queued", "none"}]
        /\ lookup' = [lookup EXCEPT ![t].cached = cached, ![t].stage = stage]
        /\ work' = [work EXCEPT ![t] = row]
    OBVIOUS
  <2>2. cached \in SUBSET Items
    BY DEF Cached
  <2>. HIDE DEF missing, stage, cached, row
  <2>3. lookup' \in [Callers -> LookupStates]
    BY <2>1, <2>2, LookupMoves DEF LookupStages
  <2>4. work' \in [Callers -> [Items -> Settled \union Inside \union {"queued"}]]
    BY <2>1 DEF ProviderTypeOK
  <2>. QED  BY <2>3, <2>4 DEF ProviderTypeOK
<1>2. StoredIsLed' /\ ClosedAfterUse'
  BY DEF StoredIsLed, ClosedAfterUse
<1>3. OutcomeOfEnded'
  BY DEF ProviderTypeOK, OutcomeOfEnded
<1>4. OneInside' /\ NotSavedBefore'
  BY DEF ProviderTypeOK, OneInside, NotSavedBefore
<1>5. OnlyFollowersBreak'
  BY NotOfEnded DEF ProviderTypeOK
<1>. QED  BY <1>1, <1>2, <1>3, <1>4, <1>5

LEMMA GatheredKeeps ==
    ASSUME ProviderConstantsOK, ProviderIInv, NEW t \in Callers, Gathered(t)
    PROVE  ProviderIInv'
<1>. USE DEF ProviderIInv, Gathered
<1>1. ProviderTypeOK'
  BY LookupMoves DEF ProviderTypeOK, LookupStages
<1>2. StoredIsLed' /\ ClosedAfterUse'
  BY DEF StoredIsLed, ClosedAfterUse
<1>3. OutcomeOfEnded'
  BY DEF ProviderTypeOK, OutcomeOfEnded
<1>4. OneInside' /\ NotSavedBefore'
  BY DEF OneInside, NotSavedBefore
<1>5. OnlyFollowersBreak'
  BY DEF ProviderTypeOK, OnlyFollowersBreak, Result, OutcomeOfEnded
<1>. QED  BY <1>1, <1>2, <1>3, <1>4, <1>5

\* What a step on one item leaves alone.
LEMMA WorkKeeps ==
    ASSUME ProviderConstantsOK, ProviderIInv, NEW t \in Callers, NEW i \in Items,
           NEW to \in Settled \union Inside, work[t][i] # "saved",
           work' = [work EXCEPT ![t][i] = to],
           files' \in [Items -> {"none", "lookup", "stream"}],
           UNCHANGED <<ongoing, request, lookup, closed>>
    PROVE  /\ ProviderTypeOK' /\ StoredIsLed' /\ OutcomeOfEnded' /\ ClosedAfterUse'
           /\ OnlyFollowersBreak'
<1>1. ProviderTypeOK' /\ StoredIsLed' /\ OutcomeOfEnded' /\ ClosedAfterUse'
  BY DEF ProviderIInv, ProviderTypeOK, StoredIsLed, OutcomeOfEnded, ClosedAfterUse
<1>2. \A u \in Callers : Result(u) \subseteq Result(u)'
  BY DEF ProviderIInv, ProviderTypeOK, Result
<1>3. \A r \in Callers : request[r].pc = "broken" => request[r].task \in Callers
  BY DEF ProviderIInv, OutcomeOfEnded
<1>4. OnlyFollowersBreak'
  BY <1>2, <1>3 DEF ProviderIInv, OnlyFollowersBreak
<1>. QED  BY <1>1, <1>4

LEMMA AcquireKeeps ==
    ASSUME ProviderConstantsOK, ProviderIInv, NEW t \in Callers, NEW i \in Items, Acquire(t, i)
    PROVE  ProviderIInv'
<1>. USE DEF ProviderIInv, Acquire, WorkStep
<1>1. OneInside' /\ NotSavedBefore'
  BY DEF ProviderTypeOK, OneInside, NotSavedBefore
<1>. QED  BY <1>1, WorkKeeps DEF ProviderTypeOK

\* What is not in the cache is not of an earlier lookup.
LEMMA CheckKeeps ==
    ASSUME ProviderConstantsOK, ProviderIInv, NEW t \in Callers, NEW i \in Items, Check(t, i)
    PROVE  ProviderIInv'
<1>. USE DEF ProviderIInv, Check, WorkStep
<1>1. OneInside' /\ NotSavedBefore'
  BY DEF ProviderTypeOK, OneInside, NotSavedBefore, Cached
<1>. QED  BY <1>1, WorkKeeps DEF ProviderTypeOK

LEMMA DownloadKeeps ==
    ASSUME ProviderConstantsOK, ProviderIInv, NEW t \in Callers, NEW i \in Items, Download(t, i)
    PROVE  ProviderIInv'
<1>. USE DEF ProviderIInv, Download, WorkStep
<1>1. OneInside' /\ NotSavedBefore'
  BY DEF ProviderTypeOK, OneInside, NotSavedBefore
<1>. QED  BY <1>1, WorkKeeps DEF ProviderTypeOK

\* The one that saves is the one inside.
LEMMA SaveKeeps ==
    ASSUME ProviderConstantsOK, ProviderIInv, NEW t \in Callers, NEW i \in Items, SaveFile(t, i)
    PROVE  ProviderIInv'
<1>. USE DEF ProviderIInv, SaveFile, WorkStep
<1>1. OneInside'
  BY DEF ProviderTypeOK, OneInside
<1>2. NotSavedBefore'
  <2>. SUFFICES ASSUME NEW j \in Items, NEW u \in Callers,
                       work'[u][j] \in {"downloading", "saving"}
                PROVE  files'[j] # "lookup"
    BY DEF NotSavedBefore
  <2>1. work[t][i] = "saving" /\ work'[t][i] \in Settled
    BY DEF ProviderTypeOK
  <2>2. work[u][j] = work'[u][j]
    BY <2>1 DEF ProviderTypeOK
  <2>3. j # i
    BY <2>1, <2>2 DEF OneInside
  <2>4. files'[j] = files[j]
    BY <2>3 DEF ProviderTypeOK
  <2>. QED  BY <2>2, <2>4 DEF NotSavedBefore
<1>3. files' \in [Items -> {"none", "lookup", "stream"}]
  BY DEF ProviderTypeOK
<1>. QED  BY <1>1, <1>2, <1>3, WorkKeeps

\* Those who change the cache besides put nothing in it that is of a lookup.
LEMMA CacheKeeps ==
    ASSUME ProviderConstantsOK, ProviderIInv, NEW i \in Items, StreamSaves(i) \/ Retention(i)
    PROVE  ProviderIInv'
<1>. USE DEF ProviderIInv, StreamSaves, Retention
<1>1. ProviderTypeOK'
  BY DEF ProviderTypeOK
<1>2. NotSavedBefore'
  BY DEF ProviderTypeOK, NotSavedBefore
<1>3. StoredIsLed' /\ OutcomeOfEnded' /\ ClosedAfterUse' /\ OneInside' /\ OnlyFollowersBreak'
  BY DEF StoredIsLed, OutcomeOfEnded, ClosedAfterUse, OneInside, OnlyFollowersBreak, Result
<1>. QED  BY <1>1, <1>2, <1>3

LEMMA CloseKeeps ==
    ASSUME ProviderConstantsOK, ProviderIInv, NEW r \in Callers, CloseSession(r)
    PROVE  ProviderIInv'
BY DEF ProviderIInv, CloseSession, ProviderTypeOK, StoredIsLed, OutcomeOfEnded, ClosedAfterUse,
       OneInside, NotSavedBefore, OnlyFollowersBreak, Result

LEMMA ProviderStepKeeps == ASSUME ProviderConstantsOK, ProviderIInv, [ProviderNext]_providerVars PROVE ProviderIInv'
<1>1. CASE UNCHANGED providerVars
  BY <1>1 DEF providerVars, ProviderIInv, ProviderTypeOK, StoredIsLed, OutcomeOfEnded, ClosedAfterUse,
     OneInside, NotSavedBefore, OnlyFollowersBreak, Result
<1>2. CASE ProviderNext
  BY <1>2, FindKeeps, LeaderKeeps, FollowerKeeps, UseKeeps, CloseKeeps, SearchKeeps, ListKeeps,
     GatheredKeeps, CheckKeeps, DownloadKeeps, SaveKeeps, AcquireKeeps, CacheKeeps
     DEF ProviderNext, LookupStep
<1>. QED  BY <1>1, <1>2

-----------------------------------------------------------------------------
\* The inductive invariant of the source provider: types, keys, outcomes, sessions and the
\* locks of items hold together in every state (torrent_source_provider/service.py:37-249).
THEOREM ProviderInvariance == ASSUME ProviderConstantsOK PROVE ProviderSpec => []ProviderIInv
<1>1. ProviderInit => ProviderIInv
  BY ProviderStart
<1>2. ProviderIInv /\ [ProviderNext]_providerVars => ProviderIInv'
  BY ProviderStepKeeps
<1>. QED  BY <1>1, <1>2, PTL DEF ProviderSpec

\* A file is downloaded by one lookup at a time, and never while the row of an earlier
\* lookup is there (service.py:218-246).
THEOREM SharedDownloadHolds == ASSUME ProviderConstantsOK PROVE ProviderSpec => []SharedDownload
<1>1. ProviderIInv => SharedDownload
  BY DEF ProviderIInv, OneInside, NotSavedBefore, SharedDownload
<1>. QED  BY <1>1, ProviderInvariance, PTL

\* Only a follower can come too late for the rows of a lookup, when the session of the request
\* that it followed is closed (service.py:44-47).
THEOREM OnlyFollowersBreakHolds == ASSUME ProviderConstantsOK PROVE ProviderSpec => []OnlyFollowersBreak
<1>1. ProviderIInv => OnlyFollowersBreak
  BY DEF ProviderIInv
<1>. QED  BY <1>1, ProviderInvariance, PTL

\* Nobody is given an outcome that the lookup's own caller had been given before the call
\* was made (service.py:43-56).
THEOREM FreshLookupHolds == ASSUME ProviderConstantsOK PROVE ProviderSpec => FreshLookup
<1>. DEFINE Fresh ==
       \A r \in Callers :
         request[r].pc = "idle" /\ request'[r].pc # "idle"
           => request'[request'[r].task].pc = "leading"
<1>1. ProviderIInv /\ [ProviderNext]_providerVars => [Fresh]_providerVars
  <2>. SUFFICES ASSUME ProviderIInv, ProviderNext, NEW r \in Callers,
                       request[r].pc = "idle", request'[r].pc # "idle"
                PROVE  request'[request'[r].task].pc = "leading"
    OBVIOUS
  <2>1. ASSUME NEW q \in Callers, NEW k \in Keys, Find(q, k)
        PROVE  request'[request'[r].task].pc = "leading"
    <3>1. q = r
      BY <2>1 DEF Find, StartLookup, JoinLookup, ProviderIInv, ProviderTypeOK
    <3>. QED
      BY <3>1, <2>1 DEF Find, StartLookup, JoinLookup, ProviderIInv, ProviderTypeOK, StoredIsLed
  <2>2. \A q \in Callers :
          (LeaderWakes(q) \/ FollowerWakes(q) \/ Use(q) \/ CloseSession(q)) => request'[r].pc = "idle"
    BY DEF LeaderWakes, FollowerWakes, Use, CloseSession, ProviderIInv, ProviderTypeOK
  <2>3. \A t \in Callers :
          LookupStep(t) \/ (\E i \in Items : Acquire(t, i)) => request' = request
    BY DEF LookupStep, Search, ListFiles, Gathered, Check, Download, SaveFile, Acquire, WorkStep
  <2>4. \A i \in Items : StreamSaves(i) \/ Retention(i) => request' = request
    BY DEF StreamSaves, Retention
  <2>. QED
    BY <2>1, <2>2, <2>3, <2>4 DEF ProviderNext
<1>. QED
  BY <1>1, ProviderInvariance, PTL DEF ProviderSpec, FreshLookup

HIDE DEF Ended, Settled, Inside, Given

-----------------------------------------------------------------------------
(***************************************************************************)
(* NetworkSettings.  The row is read by one task and written by another,   *)
(* so the invariant follows the rows the tasks carry: a row that is about  *)
(* to be saved has the certificate of its host, one that waits for its DNS *)
(* record has it or will ask for it, because its task compares with the    *)
(* row it has seen and not with the row of now.                            *)
(***************************************************************************)

\* A row the server may serve.
AutoServed(row) ==
    row.mode = "auto" => row.host \in AutoHosts /\ row.cert.host = row.host

AtDns == {"locating", "pointing", "reaching"}

\* What job j carries.
JobOK(j, carried) ==
    /\ AutoServed(carried.seen)
    /\ carried.stage \in {"saving", "clearing"} => AutoServed(carried.row)
    /\ carried.stage = "selfsigning" => carried.row.mode = "local"
    /\ carried.stage \in AtDns \union {"challenging", "proving"} => carried.row.host \in AutoHosts
    /\ carried.stage \in AtDns =>
         ((j \in Setups => ~SslNeedsUpdate(carried.row, carried.seen)) => AutoServed(carried.row))

JobRecords == [stage : JobStages, seen : Rows, row : Rows]

NetworkIInv ==
    /\ NetworkTypeOK
    /\ AutoServed(settings) /\ AutoServed(tx.row)
    /\ \A j \in Jobs : JobOK(j, job[j])

-----------------------------------------------------------------------------
(* Rows and jobs. *)

LEMMA FixedRows == ASSUME NetworkConstantsOK PROVE
    /\ LocalRow \in Rows /\ ManualRow \in Rows
    /\ AutoServed(LocalRow) /\ AutoServed(ManualRow)
BY DEF NetworkConstantsOK, Certificate, NoCertificate, LocalRow, ManualRow, Row, Rows, Ips,
   Certificates, AutoServed

LEMMA PayloadRows ==
    ASSUME NetworkConstantsOK, NEW p \in Payloads
    PROVE  /\ p \in Rows
           /\ p.mode = "auto" => p.host \in AutoHosts
BY FixedRows DEF NetworkConstantsOK, Certificate, NoCertificate, Payloads, AutoPayload, LocalRow,
   ManualRow, Row, Rows, Ips, Certificates

LEMMA IdleJob ==
    ASSUME NetworkConstantsOK, NEW j
    PROVE  /\ Idle \in JobRecords /\ JobOK(j, Idle)
           /\ \A stage \in {"done", "failed"} :
                /\ [Idle EXCEPT !.stage = stage] \in JobRecords
                /\ JobOK(j, [Idle EXCEPT !.stage = stage])
BY FixedRows DEF Idle, JobRecords, JobOK, JobStages, AtDns

\* One job changes, and its new record is right.
LEMMA OneJob ==
    ASSUME NetworkConstantsOK, NetworkIInv, NEW j \in Jobs, NEW new \in JobRecords, JobOK(j, new),
           job' = [job EXCEPT ![j] = new]
    PROVE  job' \in [Jobs -> JobRecords] /\ \A k \in Jobs : JobOK(k, job'[k])
BY DEF NetworkIInv, NetworkTypeOK, JobRecords

\* A job goes on with the rows it has, or is over.
LEMMA StageGoes ==
    ASSUME NetworkConstantsOK, NetworkIInv, NEW j \in Jobs, NEW stage \in JobStages, JobGoes(j, stage),
           stage \notin {"done", "failed"} => JobOK(j, [job[j] EXCEPT !.stage = stage])
    PROVE  job' \in [Jobs -> JobRecords] /\ \A k \in Jobs : JobOK(k, job'[k])
<1>. DEFINE new == IF stage \in {"done", "failed"} THEN [Idle EXCEPT !.stage = stage]
                   ELSE [job[j] EXCEPT !.stage = stage]
<1>1. job' = [job EXCEPT ![j] = new]
  BY DEF JobGoes
<1>2. [job[j] EXCEPT !.stage = stage] \in JobRecords
  BY DEF NetworkIInv, NetworkTypeOK, JobRecords
<1>3. new \in JobRecords /\ JobOK(j, new)
  BY <1>2, IdleJob
<1>. HIDE DEF new
<1>. QED
  BY <1>1, <1>3, OneJob

LEMMA JobFacts ==
    ASSUME NetworkConstantsOK, NetworkIInv, NEW j \in Jobs
    PROVE  /\ JobOK(j, job[j]) /\ job[j] \in JobRecords
           /\ job[j].row \in Rows /\ job[j].seen \in Rows
BY DEF NetworkIInv, NetworkTypeOK, JobRecords

\* The parts of the invariant that a step of a job does not touch.
LEMMA Together ==
    ASSUME NetworkIInv, UNCHANGED <<active, call, publicIp, served>>, issued' \in 0 .. MaxIssued,
           job' \in [Jobs -> JobRecords], \A k \in Jobs : JobOK(k, job'[k]),
           settings' \in Rows, AutoServed(settings)',
           tx' \in [by : Setups \union {Absent}, row : Rows], AutoServed(tx.row)',
           dns' \in [AutoHosts -> Ips], txt' \in [AutoHosts -> Jobs \union {Absent}],
           exiting' \in BOOLEAN, budget' \in 0 .. MaxEvents
    PROVE  NetworkIInv'
BY DEF NetworkIInv, NetworkTypeOK, JobRecords, JobOK, AutoServed, SslNeedsUpdate, SslFields

-----------------------------------------------------------------------------
(* Each action preserves the inductive invariant. *)

LEMMA NetworkStart == ASSUME NetworkConstantsOK, NetworkInit PROVE NetworkIInv
<1>1. publicIp \in Addresses
  BY DEF NetworkConstantsOK, NetworkInit
<1>2. settings \in Rows /\ AutoServed(settings) /\ dns \in [AutoHosts -> Ips]
  <2>1. CASE settings = LocalRow /\ dns = [h \in AutoHosts |-> Absent]
    BY <2>1, FixedRows DEF Ips
  <2>2. ASSUME NEW h \in AutoHosts, NEW e \in Emails,
               settings = Row("auto", h, "public", e, publicIp, Certificate(h, 0)),
               dns = [g \in AutoHosts |-> IF g = h THEN publicIp ELSE Absent]
        PROVE  settings \in Rows /\ AutoServed(settings) /\ dns \in [AutoHosts -> Ips]
    <3>1. settings \in Rows /\ AutoServed(settings)
      BY <1>1, <2>2 DEF Certificate, Row, Rows, Ips, Certificates, AutoServed, NetworkConstantsOK
    <3>2. dns \in [AutoHosts -> Ips]
      BY <1>1, <2>2 DEF Ips
    <3>. QED
      BY <3>1, <3>2
  <2>. QED
    BY <2>1, <2>2 DEF NetworkInit
<1>3. \A j \in Jobs : job[j] = Idle
  BY DEF NetworkInit
<1>4. /\ job \in [Jobs -> JobRecords]
      /\ \A j \in Jobs : JobOK(j, job[j])
  BY <1>3, IdleJob DEF NetworkInit
<1>5. NoCall \in [pc : {"idle"}, payload : Payloads, task : {Absent}]
  BY DEF NoCall, Payloads
<1>6. /\ call \in [Setups -> [pc : {"idle", "leading", "following", "replying", "failing",
                                      "answered", "refused", "cut"},
                                payload : Payloads, task : Setups \union {Absent}]]
  BY <1>5 DEF NetworkInit
<1>7. tx \in [by : Setups \union {Absent}, row : Rows] /\ AutoServed(tx.row)
  BY FixedRows DEF NetworkInit, NoTx
<1>8. /\ served \in Rows /\ active \in Setups \union {Absent} /\ exiting \in BOOLEAN
      /\ budget \in 0 .. MaxEvents /\ issued \in 0 .. MaxIssued
  <2>1. served \in Rows
    BY <1>2 DEF NetworkInit
  <2>2. active = Absent /\ exiting = FALSE /\ budget = MaxEvents /\ issued = 0
    BY DEF NetworkInit
  <2>3. MaxEvents \in Nat /\ MaxIssued \in Nat
    BY DEF NetworkConstantsOK
  <2>4. budget \in 0 .. MaxEvents /\ issued \in 0 .. MaxIssued
    BY <2>2, <2>3
  <2>5. exiting \in BOOLEAN
    BY <2>2
  <2>. QED
    BY <2>1, <2>2, <2>4, <2>5
<1>9. txt \in [AutoHosts -> Jobs \union {Absent}]
  BY DEF NetworkInit
<1>10. NetworkTypeOK
  BY <1>1, <1>2, <1>4, <1>6, <1>7, <1>8, <1>9 DEF NetworkTypeOK, JobRecords
<1>. QED
  BY <1>2, <1>4, <1>7, <1>10 DEF NetworkIInv

CallRecords ==
    [pc : {"idle", "leading", "following", "replying", "failing", "answered", "refused", "cut"},
     payload : Payloads, task : Setups \union {Absent}]

LEMMA AskStep ==
    ASSUME NetworkConstantsOK, NetworkIInv, NEW r \in Setups, NEW p \in Asks(r), Ask(r, p)
    PROVE  NetworkIInv'
<1>1. p \in Payloads
  BY DEF NetworkConstantsOK
<1>2. call \in [Setups -> CallRecords] /\ active \in Setups \union {Absent}
  BY DEF NetworkIInv, NetworkTypeOK, CallRecords
<1>3. call' \in [Setups -> CallRecords] /\ active' \in Setups \union {Absent}
  BY <1>1, <1>2 DEF Ask, CallRecords
<1>4. job' \in [Jobs -> JobRecords] /\ \A k \in Jobs : JobOK(k, job'[k])
  <2>1. CASE job' = job
    BY <2>1 DEF NetworkIInv, NetworkTypeOK, JobRecords
  <2>2. CASE job' = [job EXCEPT ![r] = [Idle EXCEPT !.stage = "reading"]]
    <3>1. [Idle EXCEPT !.stage = "reading"] \in JobRecords
          /\ JobOK(r, [Idle EXCEPT !.stage = "reading"])
      BY FixedRows DEF Idle, JobRecords, JobOK, JobStages, AtDns
    <3>. QED
      BY <2>2, <3>1, OneJob DEF Jobs
  <2>. QED
    BY <2>1, <2>2 DEF Ask
<1>5. UNCHANGED <<settings, tx, dns, txt, issued, publicIp, exiting, served, budget>>
  BY DEF Ask
<1>. QED
  BY <1>3, <1>4, <1>5 DEF NetworkIInv, NetworkTypeOK, CallRecords, JobRecords, JobOK, AutoServed,
     SslNeedsUpdate, SslFields

LEMMA WakeStep ==
    ASSUME NetworkConstantsOK, NetworkIInv, NEW r \in Setups, Wake(r)
    PROVE  NetworkIInv'
<1>1. call \in [Setups -> CallRecords] /\ active \in Setups \union {Absent}
  BY DEF NetworkIInv, NetworkTypeOK, CallRecords
<1>2. call' \in [Setups -> CallRecords] /\ active' \in Setups \union {Absent}
  BY <1>1 DEF Wake, CallRecords
<1>3. UNCHANGED <<settings, tx, job, dns, txt, issued, publicIp, exiting, served, budget>>
  BY DEF Wake
<1>. QED
  BY <1>2, <1>3 DEF NetworkIInv, NetworkTypeOK, CallRecords, JobOK, AutoServed, SslNeedsUpdate, SslFields

\* A commit stores the row that was flushed.
LEMMA EndRequestStep ==
    ASSUME NetworkConstantsOK, NetworkIInv, NEW r \in Setups, EndRequest(r)
    PROVE  NetworkIInv'
<1>1. call \in [Setups -> CallRecords]
  BY DEF NetworkIInv, NetworkTypeOK, CallRecords
<1>2. NoCall \in CallRecords
  BY DEF NoCall, Payloads, CallRecords
<1>3. call' \in [Setups -> CallRecords]
  BY <1>1, <1>2 DEF EndRequest, CallRecords
<1>4. settings' \in Rows /\ AutoServed(settings')
  BY DEF EndRequest, NetworkIInv, NetworkTypeOK
<1>5. tx' \in [by : Setups \union {Absent}, row : Rows] /\ AutoServed(tx'.row)
  BY FixedRows DEF EndRequest, NetworkIInv, NetworkTypeOK, NoTx
<1>6. UNCHANGED <<active, job, dns, txt, issued, publicIp, exiting, served, budget>>
  BY DEF EndRequest
<1>. QED
  BY <1>3, <1>4, <1>5, <1>6 DEF NetworkIInv, NetworkTypeOK, CallRecords, JobOK, AutoServed,
     SslNeedsUpdate, SslFields

LEMMA AddressStep ==
    ASSUME NetworkConstantsOK, NetworkIInv, AddressChanges
    PROVE  NetworkIInv'
<1>1. publicIp' \in Addresses /\ budget' \in 0 .. MaxEvents
  BY DEF AddressChanges, NetworkIInv, NetworkTypeOK, NetworkConstantsOK
<1>2. UNCHANGED <<settings, tx, active, call, job, dns, txt, issued, exiting, served>>
  BY DEF AddressChanges
<1>. QED
  BY <1>1, <1>2 DEF NetworkIInv, NetworkTypeOK, JobOK, AutoServed, SslNeedsUpdate, SslFields

\* A process that starts has no task, and a row that may be served.
LEMMA BootStep ==
    ASSUME NetworkConstantsOK, NetworkIInv, Restart \/ Crash
    PROVE  NetworkIInv'
<1>1. Boot /\ budget' \in 0 .. MaxEvents
  BY DEF Restart, Crash, NetworkIInv, NetworkTypeOK, NetworkConstantsOK
<1>2. settings' \in Rows /\ AutoServed(settings') /\ served' \in Rows
  BY <1>1, FixedRows DEF Boot, NetworkIInv, NetworkTypeOK
<1>3. tx' \in [by : Setups \union {Absent}, row : Rows] /\ AutoServed(tx'.row)
  BY <1>1, FixedRows DEF Boot, NoTx
<1>4. call' \in [Setups -> CallRecords]
  <2>1. call \in [Setups -> CallRecords]
    BY DEF NetworkIInv, NetworkTypeOK, CallRecords
  <2>2. [NoCall EXCEPT !.pc = "cut"] \in CallRecords
    BY DEF NoCall, Payloads, CallRecords
  <2>. QED
    BY <1>1, <2>1, <2>2 DEF Boot
<1>5. job' \in [Jobs -> JobRecords] /\ \A k \in Jobs : JobOK(k, job'[k])
  BY <1>1, IdleJob DEF Boot
<1>6. UNCHANGED <<dns, txt, issued, publicIp>> /\ active' = Absent /\ exiting' = FALSE
  BY <1>1 DEF Boot
<1>. QED
  BY <1>1, <1>2, <1>3, <1>4, <1>5, <1>6 DEF NetworkIInv, NetworkTypeOK, CallRecords, JobRecords, JobOK,
     AutoServed, SslNeedsUpdate, SslFields

-----------------------------------------------------------------------------
(* The steps of the jobs: what each gives back of job. *)

JobsKept == job' \in [Jobs -> JobRecords] /\ \A k \in Jobs : JobOK(k, job'[k])

\* What a new row takes over from a row makes a row.
LEMMA InheritedRow ==
    ASSUME NetworkConstantsOK, NEW p \in Rows, NEW current \in Rows
    PROVE  Inherited(p, current) \in Rows
<1>1. current.ip \in Ips /\ current.cert \in Certificates /\ NoCertificate \in Certificates
  BY DEF NetworkConstantsOK, Rows, Certificates, NoCertificate, Certificate
<1>2. \A ip \in Ips, cert \in Certificates : [p EXCEPT !.ip = ip, !.cert = cert] \in Rows
  BY DEF Rows
<1>. QED
  BY <1>1, <1>2 DEF Inherited

\* A set-up reads the settings of now and its payload; what it will compare with is what it
\* has seen.
LEMMA ReadSettingsJobs ==
    ASSUME NetworkConstantsOK, NetworkIInv, NEW r \in Setups, ReadSettings(r)
    PROVE  JobsKept
<1>. DEFINE p == call[r].payload
            new == [stage |-> FirstStage(p, settings), seen |-> settings,
                    row |-> IF p.mode = "auto" THEN Inherited(p, settings) ELSE p]
<1>1. p \in Payloads /\ settings \in Rows /\ AutoServed(settings) /\ r \in Jobs
  BY DEF NetworkIInv, NetworkTypeOK, Jobs
<1>2. p \in Rows /\ p.mode \in {"auto", "local", "manual"} /\ (p.mode = "auto" => p.host \in AutoHosts)
  BY <1>1, PayloadRows DEF Rows
<1>3. CASE FirstStage(p, settings) = "done"
  <2>1. job' = [job EXCEPT ![r] = [Idle EXCEPT !.stage = "done"]]
    BY <1>3 DEF ReadSettings
  <2>. QED
    BY <1>1, <2>1, IdleJob, OneJob DEF JobsKept
<1>4. CASE FirstStage(p, settings) # "done"
  <2>1. job' = [job EXCEPT ![r] = new]
    BY <1>4 DEF ReadSettings
  <2>2. new.row \in Rows
    BY <1>1, <1>2, InheritedRow
  <2>3. \/ p.mode = "local" /\ new.stage = "selfsigning" /\ new.row = p
        \/ p.mode = "manual" /\ new.stage = "saving" /\ new.row = p
        \/ p.mode = "auto" /\ new.stage \in {"locating", "challenging"}
    BY <1>2, <1>4 DEF FirstStage
  <2>4. new \in JobRecords
    BY <1>1, <2>2, <2>3 DEF JobRecords, JobStages
  <2>5. p.mode = "auto" =>
          /\ new.row.host \in AutoHosts
          /\ ~SslNeedsUpdate(new.row, settings) => AutoServed(new.row)
    BY <1>1, <1>2 DEF Inherited, SslNeedsUpdate, SslFields, AutoServed, Rows
  <2>6. JobOK(r, new)
    BY <1>1, <2>3, <2>5 DEF JobOK, AutoServed, AtDns
  <2>. QED
    BY <1>1, <2>1, <2>4, <2>6, OneJob DEF JobsKept
<1>. QED
  BY <1>3, <1>4

LEMMA SelfSignJobs ==
    ASSUME NetworkConstantsOK, NetworkIInv, NEW r \in Setups, SelfSign(r)
    PROVE  JobsKept
<1>1. r \in Jobs /\ JobOK(r, job[r]) /\ job[r] \in JobRecords
  BY JobFacts DEF Jobs
<1>2. JobOK(r, [job[r] EXCEPT !.stage = "saving"])
  BY <1>1 DEF SelfSign, JobOK, JobRecords, AutoServed, AtDns
<1>. QED
  BY <1>1, <1>2, StageGoes DEF SelfSign, JobStages, JobsKept

LEMMA LocateJobs ==
    ASSUME NetworkConstantsOK, NetworkIInv, NEW r \in Setups, Locate(r)
    PROVE  JobsKept
<1>1. /\ r \in Jobs /\ JobOK(r, job[r]) /\ job[r] \in JobRecords
      /\ job[r].row \in Rows /\ job[r].stage = "locating"
  BY JobFacts DEF Jobs, Locate
<1>2. CASE JobGoes(r, "failed")
  BY <1>1, <1>2, StageGoes DEF JobStages, JobsKept
<1>3. CASE job' = [job EXCEPT ![r].stage = "pointing",
                              ![r].row.ip = CurrentIp(job[r].row.conn)]
  <2>. DEFINE row == [job[r].row EXCEPT !.ip = CurrentIp(job[r].row.conn)]
              new == [job[r] EXCEPT !.stage = "pointing", !.row = row]
  <2>1. CurrentIp(job[r].row.conn) \in Ips
    BY DEF CurrentIp, Ips, NetworkIInv, NetworkTypeOK
  <2>2. /\ row \in Rows /\ row.mode = job[r].row.mode /\ row.host = job[r].row.host
        /\ row.email = job[r].row.email /\ row.cert = job[r].row.cert
    BY <1>1, <2>1 DEF Rows
  <2>. HIDE DEF row
  <2>3. /\ new \in JobRecords
        /\ new.stage = "pointing" /\ new.seen = job[r].seen /\ new.row = row
    BY <1>1, <2>2 DEF JobRecords, JobStages
  <2>4. JobOK(r, new)
    BY <1>1, <2>2, <2>3 DEF JobOK, AutoServed, SslNeedsUpdate, SslFields, AtDns
  <2>5. job' = [job EXCEPT ![r] = new]
    BY <1>1, <1>3 DEF row, NetworkIInv, NetworkTypeOK, JobRecords
  <2>. QED
    BY <1>1, <2>3, <2>4, <2>5, OneJob DEF JobsKept
<1>. QED
  BY <1>2, <1>3 DEF Locate

\* The record is written, and the set-up or the synchronisation goes on with its row.
LEMMA PointJobs ==
    ASSUME NetworkConstantsOK, NetworkIInv, NEW r \in Setups, Point(r)
    PROVE  JobsKept /\ dns' \in [AutoHosts -> Ips]
<1>1. r \in Jobs /\ JobOK(r, job[r]) /\ job[r] \in JobRecords /\ job[r].row \in Rows
  BY JobFacts DEF Jobs
<1>2. JobOK(r, [job[r] EXCEPT !.stage = "reaching"])
  BY <1>1 DEF Point, JobOK, JobRecords, AutoServed, AtDns
<1>3. JobsKept
  BY <1>1, <1>2, StageGoes DEF Point, JobStages, JobsKept
<1>4. dns' \in [AutoHosts -> Ips]
  BY <1>1 DEF Point, Rows, NetworkIInv, NetworkTypeOK
<1>. QED
  BY <1>3, <1>4

\* A row that needs no certificate has one: this is where the comparison with the row seen counts.
LEMMA ReachJobs ==
    ASSUME NetworkConstantsOK, NetworkIInv, NEW r \in Setups, Reach(r)
    PROVE  JobsKept
<1>1. /\ r \in Jobs /\ JobOK(r, job[r]) /\ job[r] \in JobRecords
      /\ job[r].stage = "reaching"
  BY JobFacts DEF Jobs, Reach
<1>2. CASE JobGoes(r, AfterDns(r))
  <2>1. JobOK(r, [job[r] EXCEPT !.stage = AfterDns(r)])
    <3>1. CASE SslNeedsUpdate(job[r].row, job[r].seen)
      BY <1>1, <3>1 DEF AfterDns, JobOK, JobRecords, AutoServed, AtDns
    <3>2. CASE ~SslNeedsUpdate(job[r].row, job[r].seen)
      <4>1. AutoServed(job[r].row)
        BY <1>1, <3>2 DEF JobOK, AtDns
      <4>2. AfterDns(r) = "saving"
        BY <3>2 DEF AfterDns
      <4>. QED
        BY <1>1, <4>1, <4>2 DEF JobOK, JobRecords, AutoServed, AtDns
    <3>. QED
      BY <3>1, <3>2
  <2>2. AfterDns(r) \in JobStages
    BY DEF AfterDns, JobStages
  <2>. QED
    BY <1>1, <1>2, <2>1, <2>2, StageGoes DEF JobsKept
<1>3. CASE JobGoes(r, "restoring")
  <2>1. JobOK(r, [job[r] EXCEPT !.stage = "restoring"])
    BY <1>1 DEF JobOK, JobRecords, AutoServed, AtDns
  <2>. QED
    BY <1>1, <1>3, <2>1, StageGoes DEF JobStages, JobsKept
<1>4. CASE JobGoes(r, "failed")
  BY <1>1, <1>4, StageGoes DEF JobStages, JobsKept
<1>. QED
  BY <1>2, <1>3, <1>4 DEF Reach

LEMMA RestoreJobs ==
    ASSUME NetworkConstantsOK, NetworkIInv, NEW r \in Setups, Restore(r)
    PROVE  JobsKept /\ dns' \in [AutoHosts -> Ips]
<1>1. r \in Jobs /\ job[r].seen \in Rows
  BY JobFacts DEF Jobs
<1>2. JobsKept
  BY <1>1, StageGoes DEF Restore, JobStages, JobsKept
<1>3. dns' \in [AutoHosts -> Ips]
  BY <1>1 DEF Restore, Rows, NetworkIInv, NetworkTypeOK
<1>. QED
  BY <1>2, <1>3

LEMMA SaveSetupJobs ==
    ASSUME NetworkConstantsOK, NetworkIInv, NEW r \in Setups, SaveSetup(r)
    PROVE  /\ JobsKept /\ exiting' \in BOOLEAN
           /\ tx' \in [by : Setups \union {Absent}, row : Rows] /\ AutoServed(tx'.row)
<1>1. /\ r \in Jobs /\ JobOK(r, job[r]) /\ job[r].row \in Rows /\ job[r].stage = "saving"
  BY JobFacts DEF Jobs, SaveSetup
<1>2. JobsKept
  BY <1>1, StageGoes DEF SaveSetup, JobStages, JobsKept
<1>3. AutoServed(job[r].row)
  BY <1>1 DEF JobOK
<1>4. CASE tx' = [by |-> r, row |-> job[r].row] /\ exiting' = TRUE
  BY <1>1, <1>2, <1>3, <1>4
<1>5. CASE UNCHANGED <<tx, exiting>>
  BY <1>2, <1>5 DEF NetworkIInv, NetworkTypeOK
<1>. QED
  BY <1>4, <1>5 DEF SaveSetup

\* The certificate, for a set-up as for the renewal.
LEMMA ChallengeJobs ==
    ASSUME NetworkConstantsOK, NetworkIInv, NEW j \in Jobs, Challenge(j)
    PROVE  JobsKept /\ txt' \in [AutoHosts -> Jobs \union {Absent}]
<1>1. /\ JobOK(j, job[j]) /\ job[j] \in JobRecords /\ job[j].stage = "challenging"
  BY JobFacts DEF Challenge
<1>2. JobOK(j, [job[j] EXCEPT !.stage = "giving up"])
  BY <1>1 DEF JobOK, JobRecords, AutoServed, AtDns
<1>3. JobOK(j, [job[j] EXCEPT !.stage = "proving"])
  BY <1>1 DEF JobOK, JobRecords, AutoServed, AtDns
<1>4. JobsKept
  BY <1>2, <1>3, StageGoes DEF Challenge, JobStages, JobsKept
<1>5. txt' \in [AutoHosts -> Jobs \union {Absent}]
  BY DEF Challenge, NetworkIInv, NetworkTypeOK
<1>. QED
  BY <1>4, <1>5

LEMMA ProveJobs ==
    ASSUME NetworkConstantsOK, NetworkIInv, NEW j \in Jobs, Prove(j)
    PROVE  JobsKept /\ issued' \in 0 .. MaxIssued
<1>1. /\ JobOK(j, job[j]) /\ job[j] \in JobRecords /\ job[j].stage = "proving"
      /\ job[j].row \in Rows /\ job[j].row.host \in AutoHosts
  BY JobFacts DEF Prove, JobOK
<1>2. CASE JobGoes(j, "giving up") /\ UNCHANGED issued
  <2>1. JobOK(j, [job[j] EXCEPT !.stage = "giving up"])
    BY <1>1 DEF JobOK, JobRecords, AutoServed, AtDns
  <2>2. issued' \in 0 .. MaxIssued
    BY <1>2 DEF NetworkIInv, NetworkTypeOK
  <2>. QED
    BY <1>2, <2>1, <2>2, StageGoes DEF JobStages, JobsKept
<1>3. CASE /\ issued < MaxIssued /\ issued' = issued + 1
           /\ job' = [job EXCEPT ![j].stage = "clearing",
                                 ![j].row.cert = Certificate(HostOf(j), issued')]
  <2>. DEFINE cert == Certificate(job[j].row.host, issued')
              row == [job[j].row EXCEPT !.cert = cert]
              new == [job[j] EXCEPT !.stage = "clearing", !.row = row]
  <2>1. issued' \in 0 .. MaxIssued
    BY <1>3 DEF NetworkIInv, NetworkTypeOK, NetworkConstantsOK
  <2>2. cert \in Certificates /\ cert.host = job[j].row.host
    BY <1>1, <2>1 DEF Certificates, Certificate
  <2>3. job' = [job EXCEPT ![j] = new]
    BY <1>1, <1>3 DEF HostOf, NetworkIInv, NetworkTypeOK, JobRecords
  <2>. HIDE DEF cert
  <2>4. row \in Rows /\ row.host \in AutoHosts /\ row.cert.host = row.host
    BY <1>1, <2>2 DEF Rows
  <2>. HIDE DEF row
  <2>5. /\ new \in JobRecords
        /\ new.stage = "clearing" /\ new.seen = job[j].seen /\ new.row = row
    BY <1>1, <2>4 DEF JobRecords, JobStages
  <2>6. JobOK(j, new)
    BY <1>1, <2>4, <2>5 DEF JobOK, AutoServed, AtDns
  <2>. QED
    BY <2>1, <2>3, <2>5, <2>6, OneJob DEF JobsKept
<1>. QED
  BY <1>2, <1>3 DEF Prove

LEMMA ClearTxtJobs ==
    ASSUME NetworkConstantsOK, NetworkIInv, NEW j \in Jobs, ClearTxt(j)
    PROVE  JobsKept /\ txt' \in [AutoHosts -> Jobs \union {Absent}]
<1>1. /\ JobOK(j, job[j]) /\ job[j] \in JobRecords
      /\ job[j].stage \in {"clearing", "giving up"}
  BY JobFacts DEF ClearTxt
<1>2. JobsKept
  <2>1. CASE job[j].stage = "clearing"
    <3>1. JobOK(j, [job[j] EXCEPT !.stage = "saving"])
      BY <1>1, <2>1 DEF JobOK, JobRecords, AutoServed, AtDns
    <3>. QED
      BY <2>1, <3>1, StageGoes DEF ClearTxt, JobStages, JobsKept
  <2>2. CASE job[j].stage # "clearing"
    BY <2>2, StageGoes DEF ClearTxt, JobStages, JobsKept
  <2>. QED
    BY <2>1, <2>2
<1>3. txt' \in [AutoHosts -> Jobs \union {Absent}]
  BY DEF ClearTxt, NetworkIInv, NetworkTypeOK
<1>. QED
  BY <1>2, <1>3

-----------------------------------------------------------------------------
(* Tasks, synchronisation and renewal. *)

\* Every step of a set-up task keeps the invariant.
LEMMA TaskStepKeeps ==
    ASSUME NetworkConstantsOK, NetworkIInv, NEW r \in Setups, TaskStep(r)
    PROVE  NetworkIInv'
<1>. DEFINE Dns == dns' \in [AutoHosts -> Ips]
            Txt == txt' \in [AutoHosts -> Jobs \union {Absent}]
            Tx == tx' \in [by : Setups \union {Absent}, row : Rows] /\ AutoServed(tx'.row)
            Exiting == exiting' \in BOOLEAN
            Issued == issued' \in 0 .. MaxIssued
<1>1. UNCHANGED <<settings, active, call, publicIp, served, budget>> /\ r \in Jobs
  BY DEF TaskStep, Jobs
<1>2. /\ UNCHANGED dns => Dns
      /\ UNCHANGED txt => Txt
      /\ UNCHANGED tx => Tx
      /\ UNCHANGED exiting => Exiting
      /\ UNCHANGED issued => Issued
  BY DEF NetworkIInv, NetworkTypeOK
<1>3. settings' \in Rows /\ AutoServed(settings') /\ budget' \in 0 .. MaxEvents
  BY <1>1 DEF NetworkIInv, NetworkTypeOK
<1>4. ReadSettings(r) => JobsKept /\ Dns /\ Txt /\ Tx /\ Exiting /\ Issued
  BY <1>1, <1>2, ReadSettingsJobs DEF ReadSettings
<1>5. SelfSign(r) => JobsKept /\ Dns /\ Txt /\ Tx /\ Exiting /\ Issued
  BY <1>1, <1>2, SelfSignJobs DEF SelfSign
<1>6. Locate(r) => JobsKept /\ Dns /\ Txt /\ Tx /\ Exiting /\ Issued
  BY <1>1, <1>2, LocateJobs DEF Locate
<1>7. Point(r) => JobsKept /\ Dns /\ Txt /\ Tx /\ Exiting /\ Issued
  BY <1>1, <1>2, PointJobs DEF Point
<1>8. Reach(r) => JobsKept /\ Dns /\ Txt /\ Tx /\ Exiting /\ Issued
  BY <1>1, <1>2, ReachJobs DEF Reach
<1>9. Restore(r) => JobsKept /\ Dns /\ Txt /\ Tx /\ Exiting /\ Issued
  BY <1>1, <1>2, RestoreJobs DEF Restore
<1>10. Challenge(r) => JobsKept /\ Dns /\ Txt /\ Tx /\ Exiting /\ Issued
  BY <1>1, <1>2, ChallengeJobs DEF Challenge
<1>11. Prove(r) => JobsKept /\ Dns /\ Txt /\ Tx /\ Exiting /\ Issued
  BY <1>1, <1>2, ProveJobs DEF Prove
<1>12. ClearTxt(r) => JobsKept /\ Dns /\ Txt /\ Tx /\ Exiting /\ Issued
  BY <1>1, <1>2, ClearTxtJobs DEF ClearTxt
<1>13. SaveSetup(r) => JobsKept /\ Dns /\ Txt /\ Tx /\ Exiting /\ Issued
  BY <1>1, <1>2, SaveSetupJobs DEF SaveSetup
<1>14. JobsKept /\ Dns /\ Txt /\ Tx /\ Exiting /\ Issued
  BY <1>4, <1>5, <1>6, <1>7, <1>8, <1>9, <1>10, <1>11, <1>12, <1>13 DEF TaskStep
<1>. QED
  BY <1>1, <1>3, <1>14, Together DEF JobsKept

\* A job that is over, or starts from the settings, carries what the settings are.
LEMMA FromSettings ==
    ASSUME NetworkConstantsOK, NetworkIInv, settings.mode = "auto", NEW j,
           NEW stage \in {"locating", "challenging"},
           j \notin Setups
    PROVE  /\ [Idle EXCEPT !.stage = stage, !.row = settings] \in JobRecords
           /\ JobOK(j, [Idle EXCEPT !.stage = stage, !.row = settings])
<1>1. settings \in Rows /\ AutoServed(settings)
  BY DEF NetworkIInv, NetworkTypeOK
<1>. QED
  BY <1>1, FixedRows DEF Idle, JobRecords, JobOK, JobStages, AtDns, AutoServed

\* The job stores its row and is idle.
LEMMA SaveRowFacts ==
    ASSUME NetworkConstantsOK, NetworkIInv, NEW j \in Jobs, SaveRow(j)
    PROVE  JobsKept /\ settings' \in Rows /\ AutoServed(settings')
<1>1. /\ JobOK(j, job[j]) /\ job[j].row \in Rows /\ job[j].stage = "saving"
  BY JobFacts DEF SaveRow
<1>2. JobsKept
  BY IdleJob, OneJob DEF SaveRow, JobsKept
<1>. QED
  BY <1>1, <1>2 DEF SaveRow, JobOK

\* The synchronisation compares and saves the row it has read: nothing but its address changes.
LEMMA SyncStepKeeps ==
    ASSUME NetworkConstantsOK, NetworkIInv, SyncStep
    PROVE  NetworkIInv'
<1>1. /\ "sync" \in Jobs /\ "sync" \notin Setups
      /\ UNCHANGED <<tx, active, call, txt, issued, publicIp, exiting, served>>
  BY DEF SyncStep, Jobs, NetworkConstantsOK
<1>2. /\ JobOK("sync", job["sync"]) /\ job["sync"] \in JobRecords
      /\ job["sync"].row \in Rows
  BY <1>1, JobFacts
<1>. DEFINE Kept == /\ JobsKept /\ settings' \in Rows /\ AutoServed(settings')
                    /\ dns' \in [AutoHosts -> Ips] /\ budget' \in 0 .. MaxEvents
<1>3. /\ settings \in Rows /\ AutoServed(settings)
      /\ dns \in [AutoHosts -> Ips] /\ budget \in 0 .. MaxEvents
  BY DEF NetworkIInv, NetworkTypeOK
<1>4. ASSUME SyncRead PROVE Kept
  <2>1. job' = [job EXCEPT !["sync"] = [Idle EXCEPT !.stage = "locating", !.row = settings]]
    BY <1>4 DEF SyncRead
  <2>2. JobsKept
    BY <1>1, <1>4, <2>1, FromSettings, OneJob DEF SyncRead, JobsKept
  <2>. QED
    BY <1>3, <1>4, <2>2 DEF SyncRead
<1>5. ASSUME NEW overdue \in BOOLEAN, SyncLocate(overdue)
      PROVE  Kept
  <2>. DEFINE ip == CurrentIp(job["sync"].row.conn)
              row == [job["sync"].row EXCEPT !.ip = ip]
              new == [job["sync"] EXCEPT !.stage = "pointing", !.row = row]
  <2>1. ip \in Ips
    BY DEF CurrentIp, Ips, NetworkIInv, NetworkTypeOK
  <2>2. /\ row \in Rows /\ row.mode = job["sync"].row.mode /\ row.host = job["sync"].row.host
        /\ row.email = job["sync"].row.email /\ row.cert = job["sync"].row.cert
    BY <1>2, <2>1 DEF Rows
  <2>. HIDE DEF row
  <2>3. /\ new \in JobRecords
        /\ new.stage = "pointing" /\ new.seen = job["sync"].seen /\ new.row = row
    BY <1>2, <2>2 DEF JobRecords, JobStages
  <2>4. JobOK("sync", new)
    BY <1>1, <1>2, <1>5, <2>2, <2>3 DEF SyncLocate, JobOK, AutoServed, SslNeedsUpdate, SslFields, AtDns
  <2>5. job' = [job EXCEPT !["sync"] = new] \/ job' = [job EXCEPT !["sync"] = Idle]
    BY <1>1, <1>2, <1>5 DEF row, SyncLocate, NetworkIInv, NetworkTypeOK, JobRecords
  <2>6. JobsKept
    BY <1>1, <2>3, <2>4, <2>5, IdleJob, OneJob DEF JobsKept
  <2>. QED
    BY <1>3, <1>5, <2>6 DEF SyncLocate
<1>6. ASSUME SyncPoint PROVE Kept
  <2>1. JobOK("sync", [job["sync"] EXCEPT !.stage = "saving"])
    BY <1>1, <1>2, <1>6 DEF SyncPoint, JobOK, JobRecords, AutoServed, AtDns
  <2>2. JobsKept
    BY <1>1, <1>6, <2>1, StageGoes DEF SyncPoint, JobStages, JobsKept
  <2>3. dns' \in [AutoHosts -> Ips]
    BY <1>2, <1>3, <1>6 DEF SyncPoint, Rows
  <2>. QED
    BY <1>3, <1>6, <2>2, <2>3 DEF SyncPoint
<1>7. ASSUME SyncSave PROVE Kept
  BY <1>1, <1>3, <1>7, SaveRowFacts DEF SyncSave
<1>8. ASSUME SyncFails PROVE Kept
  <2>1. JobsKept
    BY <1>1, <1>8, IdleJob, OneJob DEF SyncFails, JobsKept
  <2>2. budget' \in 0 .. MaxEvents
    BY <1>3, <1>8 DEF SyncFails, NetworkConstantsOK
  <2>. QED
    BY <1>3, <1>8, <2>1, <2>2 DEF SyncFails
<1>9. Kept
  BY <1>4, <1>5, <1>6, <1>7, <1>8 DEF SyncStep
<1>10. /\ tx' \in [by : Setups \union {Absent}, row : Rows] /\ AutoServed(tx'.row)
       /\ txt' \in [AutoHosts -> Jobs \union {Absent}] /\ exiting' \in BOOLEAN
       /\ issued' \in 0 .. MaxIssued
  BY <1>1 DEF NetworkIInv, NetworkTypeOK
<1>. QED
  BY <1>1, <1>9, <1>10, Together DEF JobsKept

\* The renewal obtains a certificate for the host of the row it has read, and saves that row.
LEMMA RenewalStepKeeps ==
    ASSUME NetworkConstantsOK, NetworkIInv, RenewalStep
    PROVE  NetworkIInv'
<1>1. /\ "renewal" \in Jobs /\ "renewal" \notin Setups
      /\ UNCHANGED <<active, call, publicIp, served>>
  BY DEF RenewalStep, Jobs, NetworkConstantsOK
<1>2. /\ settings \in Rows /\ AutoServed(settings)
      /\ dns \in [AutoHosts -> Ips] /\ budget \in 0 .. MaxEvents
      /\ tx \in [by : Setups \union {Absent}, row : Rows] /\ AutoServed(tx.row)
      /\ txt \in [AutoHosts -> Jobs \union {Absent}] /\ exiting \in BOOLEAN
      /\ issued \in 0 .. MaxIssued
  BY DEF NetworkIInv, NetworkTypeOK
<1>. DEFINE Kept == /\ JobsKept /\ settings' \in Rows /\ AutoServed(settings')
                    /\ dns' = dns /\ budget' \in 0 .. MaxEvents /\ tx' = tx
                    /\ txt' \in [AutoHosts -> Jobs \union {Absent}] /\ exiting' \in BOOLEAN
                    /\ issued' \in 0 .. MaxIssued
<1>3. ASSUME RenewalRead PROVE Kept
  <2>1. \/ /\ settings.mode = "auto"
           /\ job' = [job EXCEPT !["renewal"] =
                        [Idle EXCEPT !.stage = "challenging", !.row = settings]]
        \/ job' = job
    BY <1>3 DEF RenewalRead
  <2>2. JobsKept
    <3>1. CASE job' = job
      BY <3>1 DEF JobsKept, NetworkIInv, NetworkTypeOK, JobRecords
    <3>2. CASE job' # job
      BY <1>1, <2>1, <3>2, FromSettings, OneJob DEF JobsKept
    <3>. QED
      BY <3>1, <3>2
  <2>3. budget' \in 0 .. MaxEvents
    BY <1>2, <1>3 DEF RenewalRead, NetworkConstantsOK
  <2>4. exiting' \in BOOLEAN
    BY <1>2, <1>3 DEF RenewalRead
  <2>5. UNCHANGED <<settings, dns, txt, issued, tx>>
    BY <1>3 DEF RenewalRead
  <2>. QED
    BY <1>2, <2>2, <2>3, <2>4, <2>5
<1>4. ASSUME RenewalSave /\ UNCHANGED budget PROVE Kept
  BY <1>1, <1>2, <1>4, SaveRowFacts DEF RenewalSave
<1>5. ASSUME RenewalFails /\ UNCHANGED budget PROVE Kept
  BY <1>1, <1>2, <1>5, IdleJob, OneJob DEF RenewalFails, JobsKept
<1>6. ASSUME Challenge("renewal") /\ UNCHANGED <<settings, budget>> PROVE Kept
  BY <1>1, <1>2, <1>6, ChallengeJobs DEF Challenge
<1>7. ASSUME Prove("renewal") /\ UNCHANGED <<settings, budget>> PROVE Kept
  BY <1>1, <1>2, <1>7, ProveJobs DEF Prove
<1>8. ASSUME ClearTxt("renewal") /\ UNCHANGED <<settings, budget>> PROVE Kept
  BY <1>1, <1>2, <1>8, ClearTxtJobs DEF ClearTxt
<1>9. Kept
  BY <1>3, <1>4, <1>5, <1>6, <1>7, <1>8 DEF RenewalStep
<1>. QED
  BY <1>1, <1>2, <1>9, Together DEF JobsKept

LEMMA NetworkStutter ==
    ASSUME NetworkConstantsOK, NetworkIInv, UNCHANGED networkVars
    PROVE  NetworkIInv'
BY DEF NetworkIInv, NetworkTypeOK, JobOK, AutoServed, SslNeedsUpdate, SslFields, networkVars

-----------------------------------------------------------------------------
(* Theorems. *)

\* The inductive invariant: the types of the variables, and that a row which is about to be
\* written carries the certificate of its host (_do_setup, sync_ip, check_ssl_certificate).
THEOREM NetworkInvariance == ASSUME NetworkConstantsOK PROVE NetworkSpec => []NetworkIInv
<1>1. NetworkInit => NetworkIInv
  BY NetworkStart
<1>2. NetworkIInv /\ [NetworkNext]_networkVars => NetworkIInv'
  <2>. SUFFICES ASSUME NetworkIInv, [NetworkNext]_networkVars PROVE NetworkIInv'
    OBVIOUS
  <2>1. ASSUME NEW r \in Setups, NEW p \in Asks(r), Ask(r, p) PROVE NetworkIInv'
    BY <2>1, AskStep
  <2>2. ASSUME NEW r \in Setups, Wake(r) \/ EndRequest(r) \/ TaskStep(r) PROVE NetworkIInv'
    BY <2>2, WakeStep, EndRequestStep, TaskStepKeeps
  <2>3. CASE SyncStep \/ RenewalStep
    BY <2>3, SyncStepKeeps, RenewalStepKeeps
  <2>4. CASE Restart \/ Crash
    BY <2>4, BootStep
  <2>5. CASE AddressChanges
    BY <2>5, AddressStep
  <2>6. CASE UNCHANGED networkVars
    BY <2>6, NetworkStutter
  <2>. QED
    BY <2>1, <2>2, <2>3, <2>4, <2>5, <2>6 DEF NetworkNext
<1>. QED
  BY <1>1, <1>2, PTL DEF NetworkSpec

\* Whatever order set-ups, synchronisations, renewals and restarts read and write the row in, and
\* however many there are, a row with a DDNS host has a certificate for that host.
THEOREM CertificateOfHostHolds == ASSUME NetworkConstantsOK PROVE NetworkSpec => []CertificateOfHost
<1>1. NetworkIInv => CertificateOfHost
  BY DEF NetworkIInv, AutoServed, CertificateOfHost
<1>. QED
  BY <1>1, NetworkInvariance, PTL

-----------------------------------------------------------------------------
(***************************************************************************)
(* IndexerAccounts.  While sign-ins do not overlap there is one at a time, *)
(* the session of the client is that of the account, and so is the list a  *)
(* clean-up works from, unless the account was deleted since it began.     *)
(***************************************************************************)

\* A sign-in runs while there is no account, and alone.
OneSignsIn ==
    /\ \A l, m \in Logins : login[l] # SignIdle /\ login[m] # SignIdle => l = m
    /\ \A l \in Logins : login[l] # SignIdle => ~HasAccount /\ relogin = SignIdle

\* What the client holds and what the row remembers is the session of the account, or none.
SessionOfAccount ==
    /\ \A l \in Logins : login[l].pc = "saving" => jar = login[l].user
    /\ HasAccount =>
         /\ jar \in {NoOne, account.user} /\ account.cookies \in {NoOne, account.user}
         /\ relogin # SignIdle => relogin.user = account.user

\* Whose list a clean-up works from.
SweepsFor == IF CachesUserId(indexer) THEN userId ELSE account.user

ListOfAccount ==
    sweep # SweepIdle /\ ~sweep.orphaned =>
      /\ HasAccount
      /\ sweep.pc = "deleting" /\ sweep.byList /\ ~sweep.astray /\ SweepsFor = account.user
           => owed[account.user] \subseteq sweep.list \union sweep.late

IndexerAccountsIInv ==
    /\ IndexerAccountsTypeOK
    /\ account.user = NoOne => account.cookies = NoOne
    /\ sweep.astray => ~RecognisesList(indexer)
    /\ ~overlapped => OneSignsIn /\ SessionOfAccount /\ ListOfAccount

AccountRows ==
    [user : SiteUsers \union {NoOne}, cookies : SiteUsers \union {NoOne},
     hitAndRun : Rules \union {"system"}, keepSeed : Rules \union {"system"}]

LEMMA SignMoves ==
    ASSUME NEW sign \in Signs, sign # SignIdle
    PROVE  /\ sign.user \in SiteUsers
           /\ [sign EXCEPT !.pc = "saving"] \in Signs
           /\ [sign EXCEPT !.pc = "saving"].user = sign.user
           /\ [sign EXCEPT !.pc = "saving"].pc = "saving"
           /\ [sign EXCEPT !.pc = "saving"] # SignIdle
<1>1. sign \in [pc : {"posting", "saving"}, user : SiteUsers]
  BY DEF Signs
<1>2. [sign EXCEPT !.pc = "saving"] = [pc |-> "saving", user |-> sign.user]
  BY <1>1
<1>. QED
  BY <1>1, <1>2 DEF Signs, SignIdle

LEMMA NoSign ==
    /\ SignIdle \in Signs /\ SignIdle.pc = "idle"
    /\ \A u \in SiteUsers : [pc |-> "posting", user |-> u] \in Signs
                            /\ [pc |-> "posting", user |-> u] # SignIdle
BY DEF Signs, SignIdle

LEMMA LoginStartKeeps ==
    ASSUME IndexerAccountsIInv, NEW l \in Logins, LoginStart(l)
    PROVE  IndexerAccountsIInv'
<1>. DEFINE new == [pc |-> "posting", user |-> UserOfLogin(l)]
<1>1. /\ ~HasAccount /\ login[l] = SignIdle
      /\ login' = [login EXCEPT ![l] = new] /\ jar' = NoOne
      /\ overlapped' = (overlapped \/ SigningIn)
      /\ UNCHANGED <<indexer, account, userId, relogin, sweep, kept, owed>>
  BY DEF LoginStart
<1>2. new \in Signs /\ new # SignIdle /\ new.pc = "posting" /\ new.user = UserOfLogin(l)
  BY NoSign, IndexerAccountsAssumption
<1>. HIDE DEF new
<1>3. IndexerAccountsTypeOK'
  <2>1. overlapped' \in BOOLEAN
    BY <1>1
  <2>. QED
    BY <1>1, <1>2, <2>1 DEF IndexerAccountsIInv, IndexerAccountsTypeOK
<1>4. /\ login'[l] = new /\ \A m \in Logins : m # l => login'[m] = login[m]
  BY <1>1 DEF IndexerAccountsIInv, IndexerAccountsTypeOK
<1>5. ASSUME ~overlapped' PROVE OneSignsIn' /\ SessionOfAccount' /\ ListOfAccount'
  <2>1. ~overlapped /\ relogin = SignIdle /\ \A m \in Logins : login[m] = SignIdle
    BY <1>1, <1>5 DEF SigningIn
  <2>2. OneSignsIn'
    BY <1>1, <1>2, <1>4, <2>1 DEF OneSignsIn, HasAccount
  <2>3. SessionOfAccount'
    BY <1>1, <1>2, <1>4, <2>1, NoSign DEF SessionOfAccount, HasAccount
  <2>4. ListOfAccount'
    BY <1>1, <2>1 DEF IndexerAccountsIInv, ListOfAccount, HasAccount, SweepsFor
  <2>. QED
    BY <2>2, <2>3, <2>4
<1>. QED
  BY <1>1, <1>3, <1>5 DEF IndexerAccountsIInv

\* The session is the user's the call names, who signs in alone.
LEMMA LoginPostedKeeps ==
    ASSUME IndexerAccountsIInv, NEW l \in Logins, LoginPosted(l)
    PROVE  IndexerAccountsIInv'
<1>. DEFINE saving == [login[l] EXCEPT !.pc = "saving"]
<1>1. /\ login[l] \in Signs /\ login[l] # SignIdle
      /\ UNCHANGED <<indexer, account, userId, relogin, sweep, kept, owed, overlapped>>
  BY NoSign DEF LoginPosted, IndexerAccountsIInv, IndexerAccountsTypeOK
<1>2. /\ saving \in Signs /\ saving.user = login[l].user /\ saving.pc = "saving"
      /\ saving # SignIdle /\ login[l].user \in SiteUsers
  BY <1>1, SignMoves
<1>3. \/ login' = [login EXCEPT ![l] = saving] /\ jar' = login[l].user
      \/ login' = [login EXCEPT ![l] = SignIdle] /\ jar' = jar
  BY DEF LoginPosted
<1>. HIDE DEF saving
<1>4. PICK new \in {saving, SignIdle} :
        /\ login' = [login EXCEPT ![l] = new]
        /\ new = saving => jar' = login[l].user
        /\ new = SignIdle => jar' = jar
  BY <1>2, <1>3
<1>5. /\ login'[l] = new /\ \A m \in Logins : m # l => login'[m] = login[m]
      /\ jar' \in SiteUsers \union {NoOne} /\ login' \in [Logins -> Signs]
  BY <1>2, <1>4, NoSign DEF IndexerAccountsIInv, IndexerAccountsTypeOK
<1>6. IndexerAccountsTypeOK'
  BY <1>1, <1>5 DEF IndexerAccountsIInv, IndexerAccountsTypeOK
<1>7. ASSUME ~overlapped PROVE OneSignsIn' /\ SessionOfAccount' /\ ListOfAccount'
  <2>1. /\ ~HasAccount /\ relogin = SignIdle
        /\ \A m \in Logins : m # l => login[m] = SignIdle
    BY <1>1, <1>7 DEF IndexerAccountsIInv, OneSignsIn
  <2>2. OneSignsIn'
    BY <1>1, <1>5, <2>1 DEF OneSignsIn, HasAccount
  <2>3. SessionOfAccount'
    BY <1>1, <1>2, <1>4, <1>5, <2>1, NoSign DEF SessionOfAccount, HasAccount
  <2>4. ListOfAccount'
    BY <1>1, <1>7 DEF IndexerAccountsIInv, ListOfAccount, HasAccount, SweepsFor
  <2>. QED
    BY <2>2, <2>3, <2>4
<1>. QED
  BY <1>1, <1>6, <1>7 DEF IndexerAccountsIInv

\* What is saved is the user whose session the client has.
LEMMA LoginSavedKeeps ==
    ASSUME IndexerAccountsIInv, NEW l \in Logins, LoginSaved(l)
    PROVE  IndexerAccountsIInv'
<1>. DEFINE row == [SignedOut EXCEPT !.user = login[l].user, !.cookies = jar]
<1>1. /\ login[l] \in Signs /\ login[l] # SignIdle /\ login[l].pc = "saving"
      /\ login' = [login EXCEPT ![l] = SignIdle]
      /\ UNCHANGED <<indexer, jar, userId, relogin, sweep, kept, owed, overlapped>>
  BY NoSign DEF LoginSaved, IndexerAccountsIInv, IndexerAccountsTypeOK
<1>2. login[l].user \in SiteUsers
  BY <1>1, SignMoves
<1>3. row \in AccountRows /\ row.user = login[l].user /\ row.cookies = jar
  BY <1>2 DEF AccountRows, SignedOut, IndexerAccountsIInv, IndexerAccountsTypeOK
<1>4. account' = IF HasAccount THEN account ELSE row
  BY DEF LoginSaved
<1>. HIDE DEF row
<1>5. /\ login'[l] = SignIdle /\ \A m \in Logins : m # l => login'[m] = login[m]
  BY <1>1 DEF IndexerAccountsIInv, IndexerAccountsTypeOK
<1>6. IndexerAccountsTypeOK'
  <2>1. account' \in AccountRows
    BY <1>3, <1>4 DEF IndexerAccountsIInv, IndexerAccountsTypeOK, AccountRows
  <2>. QED
    BY <1>1, <2>1, NoSign DEF IndexerAccountsIInv, IndexerAccountsTypeOK, AccountRows
<1>7. account'.user = NoOne => account'.cookies = NoOne
  BY <1>2, <1>3, <1>4, IndexerAccountsAssumption DEF IndexerAccountsIInv, HasAccount
<1>8. ASSUME ~overlapped PROVE OneSignsIn' /\ SessionOfAccount' /\ ListOfAccount'
  <2>1. /\ ~HasAccount /\ relogin = SignIdle /\ jar = login[l].user
        /\ \A m \in Logins : m # l => login[m] = SignIdle
    BY <1>1, <1>8 DEF IndexerAccountsIInv, OneSignsIn, SessionOfAccount
  <2>2. \A m \in Logins : login'[m] = SignIdle
    BY <1>5, <2>1
  <2>3. OneSignsIn'
    BY <2>2 DEF OneSignsIn
  <2>4. SessionOfAccount'
    BY <1>1, <1>3, <1>4, <2>1, <2>2, NoSign DEF SessionOfAccount
  <2>5. ListOfAccount'
    BY <1>1, <1>8, <2>1 DEF IndexerAccountsIInv, ListOfAccount
  <2>. QED
    BY <2>3, <2>4, <2>5
<1>. QED
  BY <1>1, <1>6, <1>7, <1>8 DEF IndexerAccountsIInv

\* Whatever sweep there is, is orphaned.
LEMMA DeleteAccountKeeps ==
    ASSUME IndexerAccountsIInv, DeleteAccount
    PROVE  IndexerAccountsIInv'
<1>1. /\ account' = SignedOut /\ kept' = {}
      /\ sweep' = [sweep EXCEPT !.orphaned = sweep # SweepIdle]
      /\ UNCHANGED <<indexer, jar, userId, login, relogin, owed, overlapped>>
  BY DEF DeleteAccount
<1>2. SignedOut \in AccountRows /\ SignedOut.user = NoOne /\ SignedOut.cookies = NoOne
  BY DEF SignedOut, AccountRows
<1>3. sweep' \in Sweeps /\ sweep'.astray = sweep.astray /\ (sweep' # SweepIdle => sweep'.orphaned)
  <2>1. sweep \in Sweeps
    BY DEF IndexerAccountsIInv, IndexerAccountsTypeOK
  <2>2. CASE sweep = SweepIdle
    <3>1. sweep' = SweepIdle
      <4>1. sweep' = [sweep EXCEPT !.orphaned = FALSE]
        BY <1>1, <2>2
      <4>. QED
        BY <2>2, <4>1, Zenon DEF SweepIdle
    <3>. QED
      BY <2>2, <3>1 DEF Sweeps
  <2>3. CASE sweep # SweepIdle
    <3>1. sweep \in [pc : {"listing", "deleting"}, byList : BOOLEAN, list : SUBSET SiteTorrents,
                     late : SUBSET SiteTorrents, astray : BOOLEAN, orphaned : BOOLEAN]
      BY <2>1, <2>3 DEF Sweeps
    <3>2. sweep' = [sweep EXCEPT !.orphaned = TRUE]
      BY <1>1, <2>3
    <3>3. /\ sweep' \in [pc : {"listing", "deleting"}, byList : BOOLEAN, list : SUBSET SiteTorrents,
                         late : SUBSET SiteTorrents, astray : BOOLEAN, orphaned : BOOLEAN]
          /\ sweep'.astray = sweep.astray /\ sweep'.orphaned = TRUE
      BY <3>1, <3>2, Zenon
    <3>. QED
      BY <3>3 DEF Sweeps
  <2>. QED
    BY <2>2, <2>3
<1>4. IndexerAccountsTypeOK'
  BY <1>1, <1>2, <1>3 DEF IndexerAccountsIInv, IndexerAccountsTypeOK, AccountRows
<1>5. ASSUME ~overlapped PROVE OneSignsIn' /\ SessionOfAccount' /\ ListOfAccount'
  BY <1>1, <1>2, <1>3, <1>5 DEF IndexerAccountsIInv, OneSignsIn, SessionOfAccount, ListOfAccount, HasAccount
<1>. QED
  BY <1>1, <1>2, <1>3, <1>4, <1>5 DEF IndexerAccountsIInv

LEMMA UpdateRulesKeeps ==
    ASSUME IndexerAccountsIInv, NEW h \in Rules, NEW k \in Rules, UpdateRules(h, k)
    PROVE  IndexerAccountsIInv'
<1>. DEFINE row == [account EXCEPT !.hitAndRun = h, !.keepSeed = k]
<1>1. /\ account' = row /\ UNCHANGED <<indexer, jar, userId, login, relogin, sweep, kept, owed, overlapped>>
  BY DEF UpdateRules
<1>2. row \in AccountRows /\ row.user = account.user /\ row.cookies = account.cookies
  BY DEF IndexerAccountsIInv, IndexerAccountsTypeOK, AccountRows
<1>. HIDE DEF row
<1>3. IndexerAccountsTypeOK'
  BY <1>1, <1>2 DEF IndexerAccountsIInv, IndexerAccountsTypeOK, AccountRows
<1>. QED
  BY <1>1, <1>2, <1>3 DEF IndexerAccountsIInv, OneSignsIn, SessionOfAccount, ListOfAccount, SweepsFor, HasAccount

\* The session ends while nobody signs in.
LEMMA ExpireKeeps ==
    ASSUME IndexerAccountsIInv, Expire
    PROVE  IndexerAccountsIInv'
<1>1. /\ jar' = NoOne /\ \A l \in Logins : login[l] = SignIdle
      /\ UNCHANGED <<indexer, account, userId, login, relogin, sweep, kept, owed, overlapped>>
  BY DEF Expire, SigningIn
<1>2. IndexerAccountsTypeOK'
  BY <1>1 DEF IndexerAccountsIInv, IndexerAccountsTypeOK
<1>. QED
  BY <1>1, <1>2, NoSign DEF IndexerAccountsIInv, OneSignsIn, SessionOfAccount, ListOfAccount, SweepsFor, HasAccount

LEMMA ReloginStartKeeps ==
    ASSUME IndexerAccountsIInv, ReloginStart
    PROVE  IndexerAccountsIInv'
<1>1. /\ HasAccount /\ relogin' = [pc |-> "posting", user |-> account.user]
      /\ overlapped' = (overlapped \/ SigningIn)
      /\ UNCHANGED <<indexer, account, jar, userId, login, sweep, kept, owed>>
  BY DEF ReloginStart
<1>2. account.user \in SiteUsers
  BY <1>1 DEF IndexerAccountsIInv, IndexerAccountsTypeOK, HasAccount
<1>3. relogin' \in Signs /\ relogin'.user = account.user
  BY <1>1, <1>2, NoSign
<1>4. overlapped' \in BOOLEAN
  BY <1>1
<1>5. IndexerAccountsTypeOK'
  BY <1>1, <1>3, <1>4 DEF IndexerAccountsIInv, IndexerAccountsTypeOK
<1>6. ASSUME ~overlapped' PROVE OneSignsIn' /\ SessionOfAccount' /\ ListOfAccount'
  <2>1. ~overlapped /\ \A l \in Logins : login[l] = SignIdle
    BY <1>1, <1>6 DEF SigningIn
  <2>. QED
    BY <1>1, <1>3, <2>1, NoSign
    DEF IndexerAccountsIInv, OneSignsIn, SessionOfAccount, ListOfAccount, SweepsFor, HasAccount
<1>. QED
  BY <1>1, <1>5, <1>6 DEF IndexerAccountsIInv

LEMMA ReloginPostedKeeps ==
    ASSUME IndexerAccountsIInv, ReloginPosted
    PROVE  IndexerAccountsIInv'
<1>. DEFINE saving == [relogin EXCEPT !.pc = "saving"]
<1>1. /\ relogin \in Signs /\ relogin # SignIdle
      /\ UNCHANGED <<indexer, account, userId, login, sweep, kept, owed, overlapped>>
  BY NoSign DEF ReloginPosted, IndexerAccountsIInv, IndexerAccountsTypeOK
<1>2. /\ saving \in Signs /\ saving.user = relogin.user /\ relogin.user \in SiteUsers
  BY <1>1, SignMoves
<1>3. \/ relogin' = saving /\ jar' = relogin.user
      \/ relogin' = SignIdle /\ jar' = jar
  BY DEF ReloginPosted
<1>. HIDE DEF saving
<1>4. IndexerAccountsTypeOK'
  <2>1. relogin' \in Signs /\ jar' \in SiteUsers \union {NoOne}
    BY <1>2, <1>3, NoSign DEF IndexerAccountsIInv, IndexerAccountsTypeOK
  <2>. QED
    BY <1>1, <2>1 DEF IndexerAccountsIInv, IndexerAccountsTypeOK
<1>5. ASSUME ~overlapped PROVE OneSignsIn' /\ SessionOfAccount' /\ ListOfAccount'
  <2>1. \A l \in Logins : login[l] = SignIdle
    BY <1>1, <1>5 DEF IndexerAccountsIInv, OneSignsIn
  <2>2. HasAccount => relogin.user = account.user /\ jar \in {NoOne, account.user}
    BY <1>1, <1>5 DEF IndexerAccountsIInv, SessionOfAccount
  <2>3. SessionOfAccount'
    BY <1>1, <1>2, <1>3, <1>5, <2>1, <2>2, NoSign DEF IndexerAccountsIInv, SessionOfAccount, HasAccount
  <2>4. OneSignsIn' /\ ListOfAccount'
    BY <1>1, <1>5, <2>1 DEF IndexerAccountsIInv, OneSignsIn, ListOfAccount, SweepsFor, HasAccount
  <2>. QED
    BY <2>3, <2>4
<1>. QED
  BY <1>1, <1>4, <1>5 DEF IndexerAccountsIInv

\* The renewal of the account there is: update_cookies writes to whichever it finds.
LEMMA ReloginSavedKeeps ==
    ASSUME IndexerAccountsIInv, ReloginSaved
    PROVE  IndexerAccountsIInv'
<1>. DEFINE row == [account EXCEPT !.cookies = relogin.user]
<1>1. /\ relogin \in Signs /\ relogin # SignIdle /\ relogin' = SignIdle
      /\ account' = IF HasAccount THEN row ELSE account
      /\ UNCHANGED <<indexer, jar, userId, login, sweep, kept, owed, overlapped>>
  BY NoSign DEF ReloginSaved, IndexerAccountsIInv, IndexerAccountsTypeOK
<1>2. relogin.user \in SiteUsers
  BY <1>1, SignMoves
<1>3. row \in AccountRows /\ row.user = account.user /\ row.cookies = relogin.user
  BY <1>2 DEF IndexerAccountsIInv, IndexerAccountsTypeOK, AccountRows
<1>. HIDE DEF row
<1>4. account'.user = account.user /\ (account'.user = NoOne => account'.cookies = NoOne)
  BY <1>1, <1>3 DEF IndexerAccountsIInv, HasAccount
<1>5. IndexerAccountsTypeOK'
  <2>1. account' \in AccountRows
    BY <1>1, <1>3 DEF IndexerAccountsIInv, IndexerAccountsTypeOK, AccountRows
  <2>. QED
    BY <1>1, <2>1, NoSign DEF IndexerAccountsIInv, IndexerAccountsTypeOK, AccountRows
<1>6. ASSUME ~overlapped PROVE OneSignsIn' /\ SessionOfAccount' /\ ListOfAccount'
  <2>1. OneSignsIn' /\ ListOfAccount'
    BY <1>1, <1>4, <1>6 DEF IndexerAccountsIInv, OneSignsIn, ListOfAccount, SweepsFor, HasAccount
  <2>2. SessionOfAccount'
    BY <1>1, <1>3, <1>4, <1>6 DEF IndexerAccountsIInv, SessionOfAccount, HasAccount
  <2>. QED
    BY <2>1, <2>2
<1>. QED
  BY <1>1, <1>4, <1>5, <1>6 DEF IndexerAccountsIInv

\* The next process starts from the cookies of the row.
LEMMA RestartClientKeeps ==
    ASSUME IndexerAccountsIInv, RestartClient
    PROVE  IndexerAccountsIInv'
<1>1. /\ jar' = account.cookies /\ userId' = NoOne
      /\ login' = [l \in Logins |-> SignIdle] /\ relogin' = SignIdle /\ sweep' = SweepIdle
      /\ UNCHANGED <<indexer, account, kept, owed, overlapped>>
  BY DEF RestartClient
<1>2. SweepIdle \in Sweeps /\ ~SweepIdle.astray
  BY DEF Sweeps, SweepIdle
<1>3. IndexerAccountsTypeOK'
  BY <1>1, <1>2, NoSign DEF IndexerAccountsIInv, IndexerAccountsTypeOK
<1>. QED
  BY <1>1, <1>2, <1>3, NoSign DEF IndexerAccountsIInv, OneSignsIn, SessionOfAccount, ListOfAccount, HasAccount

LEMMA PlayKeeps ==
    ASSUME IndexerAccountsIInv, NEW t \in SiteTorrents, Play(t)
    PROVE  IndexerAccountsIInv'
BY DEF Play, IndexerAccountsIInv, IndexerAccountsTypeOK, OneSignsIn, SessionOfAccount, ListOfAccount,
       SweepsFor, HasAccount

\* What the site begins to want while a clean-up deletes is late.
LEMMA CountsKeeps ==
    ASSUME IndexerAccountsIInv, NEW u \in SiteUsers, NEW wanted \in SUBSET SiteTorrents, Counts(u, wanted)
    PROVE  IndexerAccountsIInv'
<1>. DEFINE late == sweep.late \union (wanted \ owed[u])
<1>1. /\ owed' = [owed EXCEPT ![u] = wanted]
      /\ sweep' = IF sweep.pc = "deleting" /\ u = account.user THEN [sweep EXCEPT !.late = late] ELSE sweep
      /\ UNCHANGED <<indexer, account, jar, userId, login, relogin, kept, overlapped>>
  BY DEF Counts
<1>2. owed \in [SiteUsers -> SUBSET SiteTorrents] /\ sweep \in Sweeps
  BY DEF IndexerAccountsIInv, IndexerAccountsTypeOK
<1>3. /\ owed' \in [SiteUsers -> SUBSET SiteTorrents] /\ owed'[u] = wanted
      /\ \A v \in SiteUsers : v # u => owed'[v] = owed[v]
  BY <1>1, <1>2
<1>4. CASE sweep' = sweep /\ ~(sweep.pc = "deleting" /\ u = account.user)
  <2>1. IndexerAccountsTypeOK'
    BY <1>1, <1>3, <1>4 DEF IndexerAccountsIInv, IndexerAccountsTypeOK
  <2>2. ASSUME ~overlapped PROVE OneSignsIn' /\ SessionOfAccount' /\ ListOfAccount'
    <3>1. OneSignsIn' /\ SessionOfAccount'
      BY <1>1, <2>2 DEF IndexerAccountsIInv, OneSignsIn, SessionOfAccount, HasAccount
    <3>2. HasAccount => account.user \in SiteUsers
      BY DEF IndexerAccountsIInv, IndexerAccountsTypeOK, HasAccount
    <3>3. ListOfAccount'
      BY <1>1, <1>3, <1>4, <2>2, <3>2 DEF IndexerAccountsIInv, ListOfAccount, SweepsFor, HasAccount
    <3>. QED
      BY <3>1, <3>3
  <2>. QED
    BY <1>1, <1>4, <2>1, <2>2 DEF IndexerAccountsIInv
<1>5. CASE sweep.pc = "deleting" /\ u = account.user
  <2>1. sweep' = [sweep EXCEPT !.late = late] /\ late \subseteq SiteTorrents
    <3>1. sweep.late \subseteq SiteTorrents
      BY <1>2 DEF Sweeps, SweepIdle
    <3>. QED
      BY <1>1, <1>5, <3>1
  <2>2. sweep \in [pc : {"listing", "deleting"}, byList : BOOLEAN, list : SUBSET SiteTorrents,
                   late : SUBSET SiteTorrents, astray : BOOLEAN, orphaned : BOOLEAN]
    BY <1>2, <1>5 DEF Sweeps, SweepIdle
  <2>3. wanted \subseteq owed[u] \union late
    OBVIOUS
  <2>4. late = sweep.late \union (wanted \ owed[u])
    OBVIOUS
  <2>. HIDE DEF late
  <2>5. sweep' = [pc |-> sweep.pc, byList |-> sweep.byList, list |-> sweep.list, late |-> late,
                  astray |-> sweep.astray, orphaned |-> sweep.orphaned]
    BY <2>1, <2>2, Zenon
  <2>6. /\ sweep' \in Sweeps /\ sweep'.astray = sweep.astray /\ sweep'.orphaned = sweep.orphaned
        /\ sweep'.list = sweep.list /\ sweep'.byList = sweep.byList /\ sweep'.late = late
    BY <2>1, <2>2, <2>5 DEF Sweeps
  <2>7. IndexerAccountsTypeOK'
    BY <1>1, <1>3, <2>6 DEF IndexerAccountsIInv, IndexerAccountsTypeOK
  <2>8. ASSUME ~overlapped PROVE OneSignsIn' /\ SessionOfAccount' /\ ListOfAccount'
    <3>1. OneSignsIn' /\ SessionOfAccount'
      BY <1>1, <2>8 DEF IndexerAccountsIInv, OneSignsIn, SessionOfAccount, HasAccount
    <3>2. sweep # SweepIdle
      BY <1>5 DEF SweepIdle
    <3>3. ListOfAccount'
      BY <1>1, <1>3, <1>5, <2>3, <2>4, <2>6, <2>8, <3>2
      DEF IndexerAccountsIInv, ListOfAccount, SweepsFor, HasAccount
    <3>. QED
      BY <3>1, <3>3
  <2>. QED
    BY <1>1, <2>6, <2>7, <2>8 DEF IndexerAccountsIInv
<1>. QED
  BY <1>1, <1>4, <1>5

\* What the clean-up goes through does not concern the sign-ins.
LEMMA SweepMoves ==
    ASSUME IndexerAccountsIInv, sweep' \in Sweeps, sweep'.astray => ~RecognisesList(indexer),
           userId' \in SiteUsers \union {NoOne}, kept' \subseteq SiteTorrents,
           ~overlapped => ListOfAccount',
           UNCHANGED <<indexer, account, jar, login, relogin, owed, overlapped>>
    PROVE  IndexerAccountsIInv'
<1>1. IndexerAccountsTypeOK'
  BY DEF IndexerAccountsIInv, IndexerAccountsTypeOK
<1>. QED
  BY <1>1 DEF IndexerAccountsIInv, OneSignsIn, SessionOfAccount, HasAccount

LEMMA SweepEnds ==
    ASSUME IndexerAccountsIInv, sweep' = SweepIdle, kept' \subseteq SiteTorrents,
           UNCHANGED <<indexer, account, jar, userId, login, relogin, owed, overlapped>>
    PROVE  IndexerAccountsIInv'
<1>1. SweepIdle \in Sweeps /\ ~SweepIdle.astray
  BY DEF Sweeps, SweepIdle
<1>2. userId' \in SiteUsers \union {NoOne}
  BY DEF IndexerAccountsIInv, IndexerAccountsTypeOK
<1>3. ListOfAccount'
  BY DEF ListOfAccount
<1>. QED
  BY <1>1, <1>2, <1>3, SweepMoves

LEMMA SweepStartKeeps ==
    ASSUME IndexerAccountsIInv, NEW h \in BOOLEAN, NEW k \in BOOLEAN, SweepStart(h, k)
    PROVE  IndexerAccountsIInv'
<1>. DEFINE byList == Effective(account.hitAndRun, h)
            stage == IF byList THEN "listing" ELSE "deleting"
<1>1. /\ HasAccount /\ sweep' = [SweepIdle EXCEPT !.pc = stage, !.byList = byList]
      /\ UNCHANGED <<indexer, account, jar, userId, login, relogin, kept, owed, overlapped>>
  BY DEF SweepStart
<1>2. byList \in BOOLEAN /\ stage \in {"listing", "deleting"} /\ (byList => stage = "listing")
  BY DEF Effective
<1>. HIDE DEF byList, stage
<1>3. sweep' = [pc |-> stage, byList |-> byList, list |-> {}, late |-> {},
                  astray |-> FALSE, orphaned |-> FALSE]
  BY <1>1, Zenon DEF SweepIdle
<1>4. sweep' \in Sweeps /\ ~sweep'.astray
  BY <1>2, <1>3 DEF Sweeps
<1>5. ListOfAccount'
  BY <1>1, <1>2, <1>3 DEF ListOfAccount, HasAccount
<1>. QED
  BY <1>1, <1>4, <1>5, SweepMoves DEF IndexerAccountsIInv, IndexerAccountsTypeOK

\* The list is of the session, which is the account's, or of the user the process looked up.
LEMMA SweepListKeeps ==
    ASSUME IndexerAccountsIInv, SweepList
    PROVE  IndexerAccountsIInv'
<1>. DEFINE whose == IF CachesUserId(indexer) THEN userId' ELSE jar
<1>1. /\ sweep.pc = "listing" /\ jar # NoOne
      /\ userId' = IF CachesUserId(indexer) /\ userId = NoOne THEN jar ELSE userId
      /\ UNCHANGED <<indexer, account, jar, login, relogin, kept, owed, overlapped>>
  BY DEF SweepList
<1>2. PICK stranger \in BOOLEAN, unclear \in BOOLEAN :
        LET report == ReportOf(whose, stranger, unclear)
        IN sweep' = IF ~report.usable THEN SweepIdle
                    ELSE [sweep EXCEPT !.pc = "deleting", !.list = report.ids, !.astray = stranger]
  BY DEF SweepList
<1>3. userId' \in SiteUsers \union {NoOne} /\ whose \in SiteUsers
  BY <1>1 DEF IndexerAccountsIInv, IndexerAccountsTypeOK
<1>4. owed[whose] \subseteq SiteTorrents
  BY <1>3 DEF IndexerAccountsIInv, IndexerAccountsTypeOK
<1>. DEFINE ids == IF stranger THEN {} ELSE owed[whose]
<1>5. ids \subseteq SiteTorrents
  BY <1>4
<1>6. CASE sweep' = SweepIdle
  <2>1. SweepIdle \in Sweeps /\ ~SweepIdle.astray /\ ListOfAccount'
    BY <1>6 DEF Sweeps, SweepIdle, ListOfAccount
  <2>. QED
    BY <1>1, <1>3, <1>6, <2>1, SweepMoves DEF IndexerAccountsIInv, IndexerAccountsTypeOK
<1>7. CASE sweep' # SweepIdle
  <2>1. /\ ListUsable(indexer, stranger, unclear)
        /\ sweep' = [sweep EXCEPT !.pc = "deleting", !.list = ids, !.astray = stranger]
    BY <1>2, <1>7 DEF ReportOf
  <2>2. sweep \in [pc : {"listing", "deleting"}, byList : BOOLEAN, list : SUBSET SiteTorrents,
                   late : SUBSET SiteTorrents, astray : BOOLEAN, orphaned : BOOLEAN]
    BY <1>1 DEF IndexerAccountsIInv, IndexerAccountsTypeOK, Sweeps, SweepIdle
  <2>. HIDE DEF ids
  <2>3. sweep' = [pc |-> "deleting", byList |-> sweep.byList, list |-> ids, late |-> sweep.late,
                  astray |-> stranger, orphaned |-> sweep.orphaned]
    BY <2>1, <2>2, Zenon
  <2>4. sweep' \in Sweeps /\ sweep'.astray = stranger /\ sweep'.list = ids /\ sweep'.orphaned = sweep.orphaned
    BY <1>5, <2>2, <2>3 DEF Sweeps
  <2>5. sweep'.astray => ~RecognisesList(indexer)
    BY <2>1, <2>4 DEF ListUsable
  <2>6. ASSUME ~overlapped PROVE ListOfAccount'
    <3>. SUFFICES ASSUME ~sweep.orphaned
                  PROVE  HasAccount /\ (~stranger /\ SweepsFor' = account.user => owed[account.user] \subseteq ids)
      BY <1>1, <2>4 DEF ListOfAccount, HasAccount
    <3>1. HasAccount /\ jar = account.user
      BY <1>1, <2>6 DEF IndexerAccountsIInv, ListOfAccount, SessionOfAccount, SweepIdle
    <3>2. SweepsFor' = whose
      BY <1>1, <3>1 DEF SweepsFor
    <3>. QED
      BY <3>1, <3>2 DEF ids
  <2>. QED
    BY <1>1, <1>3, <2>4, <2>5, <2>6, SweepMoves DEF IndexerAccountsIInv, IndexerAccountsTypeOK
<1>. QED
  BY <1>6, <1>7

LEMMA SweepDeleteKeeps ==
    ASSUME IndexerAccountsIInv, SweepDelete
    PROVE  IndexerAccountsIInv'
<1>1. PICK spared \in SUBSET kept :
        kept' = spared \union (IF sweep.byList THEN kept \intersect sweep.list ELSE {})
  BY DEF SweepDelete
<1>2. kept' \subseteq SiteTorrents
  BY <1>1 DEF IndexerAccountsIInv, IndexerAccountsTypeOK
<1>. QED
  BY <1>2, SweepEnds DEF SweepDelete

LEMMA IndexerAccountsStepKeeps ==
    ASSUME IndexerAccountsIInv, IndexerAccountsNext
    PROVE  IndexerAccountsIInv'
<1>1. CASE \E l \in Logins : LoginStart(l) \/ LoginPosted(l) \/ LoginSaved(l)
  BY <1>1, LoginPostedKeeps, LoginSavedKeeps, LoginStartKeeps
<1>2. CASE DeleteAccount \/ \E h, k \in Rules : UpdateRules(h, k)
  BY <1>2, DeleteAccountKeeps, UpdateRulesKeeps
<1>3. CASE Expire \/ ReloginStart \/ ReloginPosted \/ ReloginSaved \/ RestartClient
  BY <1>3, ExpireKeeps, ReloginStartKeeps, ReloginPostedKeeps, ReloginSavedKeeps, RestartClientKeeps
<1>4. CASE \/ \E t \in SiteTorrents : Play(t)
           \/ \E u \in SiteUsers, wanted \in SUBSET SiteTorrents : Counts(u, wanted)
  BY <1>4, PlayKeeps, CountsKeeps
<1>5. CASE \E h, k \in BOOLEAN : SweepStart(h, k)
  BY <1>5, SweepStartKeeps
<1>6. CASE SweepList \/ SweepDelete
  BY <1>6, SweepListKeeps, SweepDeleteKeeps
<1>7. CASE SweepFails
  BY <1>7, SweepEnds DEF SweepFails, IndexerAccountsIInv, IndexerAccountsTypeOK
<1>. QED
  BY <1>1, <1>2, <1>3, <1>4, <1>5, <1>6, <1>7 DEF IndexerAccountsNext

\* While no two sign-ins overlap, the session and the cookies kept for the next start are those of the
\* account, and the list a clean-up works from lacks nothing the site wants of it but what came late
\* (service.py:341-375, base_indexer_definition.py:200-240, 312-337).
THEOREM IndexerAccountsInvariance == IndexerAccountsSpec => []IndexerAccountsIInv
<1>1. IndexerAccountsInit => IndexerAccountsIInv
  <2>. SUFFICES ASSUME IndexerAccountsInit PROVE IndexerAccountsIInv
    OBVIOUS
  <2>1. /\ SignedOut \in AccountRows /\ SignedOut.user = NoOne /\ SignedOut.cookies = NoOne
        /\ SweepIdle \in Sweeps /\ ~SweepIdle.astray
    BY DEF SignedOut, AccountRows, SweepIdle, Sweeps
  <2>2. account \in AccountRows /\ account.cookies = account.user
    <3>1. ASSUME NEW u \in SiteUsers, account = [SignedOut EXCEPT !.user = u, !.cookies = u]
          PROVE  account \in AccountRows /\ account.cookies = account.user
      BY <3>1 DEF SignedOut, AccountRows
    <3>. QED
      BY <2>1, <3>1 DEF IndexerAccountsInit
  <2>3. jar = account.cookies /\ account.cookies \in SiteUsers \union {NoOne}
    BY <2>2 DEF IndexerAccountsInit, AccountRows
  <2>4. IndexerAccountsTypeOK
    BY <2>1, <2>2, <2>3, NoSign DEF IndexerAccountsInit, IndexerAccountsTypeOK, AccountRows
  <2>. QED
    BY <2>1, <2>2, <2>3, <2>4, NoSign
    DEF IndexerAccountsInit, IndexerAccountsIInv, OneSignsIn, SessionOfAccount, ListOfAccount, HasAccount
<1>2. IndexerAccountsIInv /\ [IndexerAccountsNext]_indexerAccountVars => IndexerAccountsIInv'
  <2>. SUFFICES ASSUME IndexerAccountsIInv, [IndexerAccountsNext]_indexerAccountVars
                PROVE  IndexerAccountsIInv'
    OBVIOUS
  <2>1. CASE IndexerAccountsNext
    BY <2>1, IndexerAccountsStepKeeps
  <2>2. CASE UNCHANGED indexerAccountVars
    BY <2>2 DEF indexerAccountVars, IndexerAccountsIInv, IndexerAccountsTypeOK, OneSignsIn,
                SessionOfAccount, ListOfAccount, SweepsFor, HasAccount
  <2>. QED
    BY <2>1, <2>2
<1>. QED
  BY <1>1, <1>2, PTL DEF IndexerAccountsSpec

\* The step that ends a clean-up spares what the site wants the account to seed.
LEMMA OwedKeptStep ==
    ASSUME IndexerAccountsIInv, [IndexerAccountsNext]_indexerAccountVars,
           sweep.pc = "deleting", sweep'.pc = "idle", sweep.byList, HasAccount,
           ~overlapped, ~sweep.orphaned, ~(CachesUserId(indexer) /\ userId # account.user),
           ~(sweep.astray /\ ~RecognisesList(indexer))
    PROVE  owed[account.user] \intersect kept \subseteq kept' \union sweep.late
<1>1. sweep # SweepIdle /\ ~sweep.astray
  BY DEF IndexerAccountsIInv, SweepIdle
<1>2. owed[account.user] \subseteq sweep.list \union sweep.late
  BY <1>1 DEF IndexerAccountsIInv, ListOfAccount, SweepsFor
<1>3. CASE SweepDelete
  BY <1>2, <1>3 DEF SweepDelete
<1>4. CASE RestartClient
  BY <1>4 DEF RestartClient
<1>5. CASE DeleteAccount
  <2>1. sweep' = [sweep EXCEPT !.orphaned = sweep # SweepIdle]
    BY <1>5 DEF DeleteAccount
  <2>2. sweep'.pc = sweep.pc
    BY <1>1, <2>1 DEF IndexerAccountsIInv, IndexerAccountsTypeOK, Sweeps
  <2>. QED
    BY <2>2
<1>6. CASE UNCHANGED sweep
  BY <1>6
<1>7. CASE \E u \in SiteUsers, wanted \in SUBSET SiteTorrents : Counts(u, wanted)
  <2>1. \/ sweep' = sweep
        \/ \E u \in SiteUsers, wanted \in SUBSET SiteTorrents :
             sweep' = [sweep EXCEPT !.late = @ \union (wanted \ owed[u])]
    BY <1>7 DEF Counts
  <2>2. sweep'.pc = sweep.pc
    BY <1>1, <2>1 DEF IndexerAccountsIInv, IndexerAccountsTypeOK, Sweeps
  <2>. QED
    BY <2>2
<1>. QED
  BY <1>1, <1>3, <1>4, <1>5, <1>6, <1>7
  DEF IndexerAccountsNext, indexerAccountVars, LoginStart, LoginPosted, LoginSaved, UpdateRules, Expire,
      ReloginStart, ReloginPosted, ReloginSaved, Play, SweepStart, SweepList, SweepFails

\* A clean-up by the hit-and-run list deletes nothing the account owes the site, but for the cases
\* the property names.
THEOREM OwedKeptHolds == IndexerAccountsSpec => OwedKept
<1>1. IndexerAccountsIInv /\ [IndexerAccountsNext]_indexerAccountVars
        => (sweep.pc = "deleting" /\ sweep'.pc = "idle" /\ sweep.byList /\ HasAccount
              => \/ owed[account.user] \intersect kept \subseteq kept' \union sweep.late
                 \/ overlapped
                 \/ sweep.orphaned
                 \/ CachesUserId(indexer) /\ userId # account.user
                 \/ sweep.astray /\ ~RecognisesList(indexer))
  BY OwedKeptStep
<1>. QED
  BY <1>1, IndexerAccountsInvariance, PTL DEF IndexerAccountsSpec, OwedKept

=================================================================================
