------------------------ MODULE IndexerSession_proofs ------------------------
(***************************************************************************)
(* Proofs about IndexerSession, for any requests, any number of permits    *)
(* and every verdict on a login.                                           *)
(*                                                                         *)
(* The agreement of loginBy with the requests carries them: whoever is at  *)
(* a login is the leader, the leader is at a login, and a login that       *)
(* follows follows itself, so that its future is settled when it goes on.  *)
(* Permits are counted by the requests that are sent, and the queue holds  *)
(* each of its requests once, so that none is sent twice.                  *)
(***************************************************************************)
EXTENDS IndexerSession, FiniteSetTheorems, SequenceTheorems, TLAPS

Sent == {r \in Requests : req[r].pc = "sent"}

StageOfPlace ==
    \A r \in Requests :
      /\ req[r].pc \in {"idle"} \union Outcomes => req[r].stage = "first"
      /\ req[r].pc \in {"loading", "saving"} => req[r].stage = "login"

LeaderLogsIn == loginBy # NoRequest => req[loginBy].stage = "login"

FollowsALeader ==
    \A r \in Requests : req[r].pc = "following" =>
      req[r].follows \in Requests /\ (req[r].stage = "login" => req[r].follows = r)

QueueExact ==
    /\ \A i \in DOMAIN queue : req[queue[i]].pc = "queued"
    /\ \A i, j \in DOMAIN queue : queue[i] = queue[j] => i = j

Logins == StageOfPlace /\ SingleLogin /\ LeaderLogsIn /\ FollowsALeader /\ FutureSettled

IInv == TypeOK /\ Logins /\ QueueExact /\ PermitsConserved

USE DEF Outcomes

-----------------------------------------------------------------------------
(* The permits. *)

LEMMA SentFinite == IsFiniteSet(Sent) /\ Cardinality(Sent) \in Nat
BY ConstantsOK, FS_Subset, FS_CardinalityType DEF Sent

\* A request that was sent is no longer, and its permit is back.
LEMMA PermitReturned ==
    ASSUME TypeOK, PermitsConserved, NEW r \in Requests, NEW new, new.pc # "sent",
           req[r].pc = "sent", req' = [req EXCEPT ![r] = new], permits' = permits + 1
    PROVE  permits' \in 0 .. MaxConcurrent /\ PermitsConserved'
<1>1. r \in Sent /\ Sent' = Sent \ {r}
  BY DEF Sent, TypeOK
<1>2. Cardinality(Sent \ {r}) = Cardinality(Sent) - 1 /\ Cardinality(Sent \ {r}) \in Nat
  BY <1>1, SentFinite, FS_RemoveElement, FS_Subset, FS_CardinalityType
<1>3. permits + Cardinality(Sent) = MaxConcurrent
  BY DEF PermitsConserved, Sent
<1>4. permits' + Cardinality(Sent') = MaxConcurrent
  BY <1>1, <1>2, <1>3, SentFinite DEF TypeOK
<1>. QED
  BY <1>1, <1>2, <1>3, <1>4, SentFinite, ConstantsOK DEF PermitsConserved, Sent, TypeOK

\* A request that was not sent is, with a permit of its own.
LEMMA PermitTaken ==
    ASSUME TypeOK, PermitsConserved, NEW r \in Requests, NEW new, new.pc = "sent",
           req[r].pc # "sent", req' = [req EXCEPT ![r] = new],
           permits > 0, permits' = permits - 1
    PROVE  permits' \in 0 .. MaxConcurrent /\ PermitsConserved'
<1>1. r \notin Sent /\ Sent' = Sent \union {r}
  BY DEF Sent, TypeOK
<1>2. Cardinality(Sent \union {r}) = Cardinality(Sent) + 1
  BY <1>1, SentFinite, FS_AddElement
<1>3. permits + Cardinality(Sent) = MaxConcurrent
  BY DEF PermitsConserved, Sent
<1>4. permits' + Cardinality(Sent') = MaxConcurrent
  BY <1>1, <1>2, <1>3, SentFinite DEF TypeOK
<1>5. permits' \in 0 .. MaxConcurrent
  BY ConstantsOK DEF TypeOK
<1>. QED
  BY <1>4, <1>5 DEF PermitsConserved, Sent

\* A request moves without a permit.
LEMMA PermitsUntouched ==
    ASSUME TypeOK, PermitsConserved, NEW r \in Requests, NEW new, new.pc # "sent",
           req[r].pc # "sent", req' = [req EXCEPT ![r] = new], permits' = permits
    PROVE  permits' \in 0 .. MaxConcurrent /\ PermitsConserved'
<1>1. Sent' = Sent
  BY DEF Sent, TypeOK
<1>. QED
  BY <1>1 DEF PermitsConserved, Sent, TypeOK

-----------------------------------------------------------------------------
(* The queue. *)

\* A request that is not in the queue moves elsewhere.
LEMMA QueueUntouched ==
    ASSUME TypeOK, QueueExact, NEW r \in Requests, NEW new,
           req[r].pc # "queued", req' = [req EXCEPT ![r] = new], queue' = queue
    PROVE  queue' \in Seq(Requests) /\ QueueExact'
BY ElementOfSeq DEF TypeOK, QueueExact

\* A request that is not in the queue joins it.
LEMMA QueueJoined ==
    ASSUME TypeOK, QueueExact, NEW r \in Requests, NEW new, new.pc = "queued",
           req[r].pc # "queued", req' = [req EXCEPT ![r] = new], queue' = Append(queue, r)
    PROVE  queue' \in Seq(Requests) /\ QueueExact'
<1>1. queue \in Seq(Requests)
  BY DEF TypeOK
<1>2. /\ queue' \in Seq(Requests) /\ DOMAIN queue' = 1 .. Len(queue) + 1
      /\ queue'[Len(queue) + 1] = r
      /\ \A i \in 1 .. Len(queue) : queue'[i] = queue[i] /\ queue[i] \in Requests
  BY <1>1, AppendProperties, ElementOfSeq
<1>3. \A i \in DOMAIN queue : queue[i] # r
  BY DEF QueueExact
<1>. QED
  BY <1>1, <1>2, <1>3, LenProperties DEF QueueExact, TypeOK

\* Without its i-th element the others keep their order.
LEMMA WithoutOne ==
    ASSUME NEW S, NEW s \in Seq(S), NEW i \in 1 .. Len(s)
    PROVE  /\ RemoveAt(s, i) \in Seq(S)
           /\ Len(RemoveAt(s, i)) = Len(s) - 1
           /\ \A j \in 1 .. Len(s) - 1 :
                RemoveAt(s, i)[j] = IF j < i THEN s[j] ELSE s[j + 1]
<1>1. /\ SubSeq(s, 1, i - 1) \in Seq(S) /\ Len(SubSeq(s, 1, i - 1)) = i - 1
      /\ \A j \in 1 .. i - 1 : SubSeq(s, 1, i - 1)[j] = s[j]
  BY SubSeqProperties
<1>2. /\ SubSeq(s, i + 1, Len(s)) \in Seq(S) /\ Len(SubSeq(s, i + 1, Len(s))) = Len(s) - i
      /\ \A j \in 1 .. Len(s) - i : SubSeq(s, i + 1, Len(s))[j] = s[i + j]
  BY SubSeqProperties
<1>. DEFINE front == SubSeq(s, 1, i - 1)
           back == SubSeq(s, i + 1, Len(s))
<1>3. RemoveAt(s, i) = front \o back
  BY DEF RemoveAt
<1>. HIDE DEF front, back
<1>4. front \in Seq(S) /\ back \in Seq(S) /\ Len(front) = i - 1 /\ Len(back) = Len(s) - i
  BY <1>1, <1>2 DEF front, back
<1>5. front \o back \in Seq(S) /\ Len(front \o back) = Len(front) + Len(back)
  BY <1>4, ConcatProperties
<1>6. ASSUME NEW j \in 1 .. Len(s) - 1
      PROVE  (front \o back)[j] = IF j < i THEN s[j] ELSE s[j + 1]
  <2>1. CASE j < i
    <3>1. j \in 1 .. Len(front) + Len(back) /\ j <= Len(front)
      BY <2>1, <1>4, LenProperties
    <3>2. (front \o back)[j] = front[j]
      BY <1>4, <3>1, ConcatProperties
    <3>. QED
      BY <3>2, <2>1, <1>1 DEF front
  <2>2. CASE ~(j < i)
    <3>1. j \in 1 .. Len(front) + Len(back) /\ ~(j <= Len(front))
      BY <2>2, <1>4, LenProperties
    <3>2. (front \o back)[j] = back[j - Len(front)]
      BY <1>4, <3>1, ConcatProperties
    <3>3. j - (i - 1) \in 1 .. Len(s) - i /\ i + (j - (i - 1)) = j + 1
      BY <2>2, <1>4, LenProperties
    <3>. QED
      BY <3>2, <3>3, <2>2, <1>2, <1>4 DEF back
  <2>. QED
    BY <2>1, <2>2
<1>. QED
  BY <1>3, <1>4, <1>5, <1>6, LenProperties

\* The request at place i leaves the queue.
LEMMA QueueLeft ==
    ASSUME TypeOK, QueueExact, NEW i \in DOMAIN queue, NEW new,
           req' = [req EXCEPT ![queue[i]] = new],
           queue' = RemoveAt(queue, i)
    PROVE  queue' \in Seq(Requests) /\ QueueExact'
<1>1. queue \in Seq(Requests) /\ i \in 1 .. Len(queue)
  BY LenProperties DEF TypeOK
<1>2. /\ queue' \in Seq(Requests) /\ DOMAIN queue' = 1 .. Len(queue) - 1
      /\ \A j \in 1 .. Len(queue) - 1 : queue'[j] = IF j < i THEN queue[j] ELSE queue[j + 1]
  BY <1>1, WithoutOne, LenProperties
<1>3. \A j, k \in 1 .. Len(queue) : queue[j] = queue[k] => j = k
  BY <1>1, LenProperties DEF QueueExact
<1>4. \A j \in 1 .. Len(queue) : req[queue[j]].pc = "queued" /\ queue[j] \in Requests
  BY <1>1, LenProperties, ElementOfSeq DEF QueueExact
<1>5. \A j \in DOMAIN queue' : req'[queue'[j]].pc = "queued"
  <2>. TAKE j \in DOMAIN queue'
  <2>1. PICK k \in 1 .. Len(queue) : k # i /\ queue'[j] = queue[k]
    BY <1>1, <1>2
  <2>. QED
    BY <2>1, <1>1, <1>3, <1>4 DEF TypeOK
<1>6. \A j, k \in DOMAIN queue' : queue'[j] = queue'[k] => j = k
  BY <1>1, <1>2, <1>3
<1>. QED
  BY <1>2, <1>5, <1>6 DEF QueueExact

-----------------------------------------------------------------------------
(* Each action preserves the inductive invariant. *)

LEMMA InitIInv == Init => IInv
<1>. SUFFICES ASSUME Init PROVE IInv
  OBVIOUS
<1>1. TypeOK
  BY ConstantsOK DEF Init, TypeOK, ReqRecords, Req, Cookies
<1>2. Logins
  BY DEF Init, Logins, StageOfPlace, SingleLogin, LeaderLogsIn, FollowsALeader, FutureSettled, Req
<1>3. QueueExact
  BY DEF Init, QueueExact
<1>4. Sent = {}
  BY DEF Init, Sent, Req
<1>5. PermitsConserved
  <2>1. permits + Cardinality(Sent) = MaxConcurrent
    BY <1>4, ConstantsOK, FS_EmptySet DEF Init
  <2>. QED
    BY <2>1 DEF PermitsConserved, Sent
<1>. QED
  BY <1>1, <1>2, <1>3, <1>5 DEF IInv

\* What an action of the session must give back about its own variables.
SessionTypes ==
    /\ loginBy \in Requests \union {NoRequest}
    /\ future \in [Requests -> {"none", "pending", "resolved", "failed", "cancelled"}]
    /\ req \in [Requests -> ReqRecords]

\* login() raised: the future is settled before the leader is gone.
LEMMA LoginFailsKeeps ==
    ASSUME TypeOK, Logins, NEW r \in Requests, req[r].stage = "login", LoginFails(r)
    PROVE  SessionTypes' /\ Logins'
<1>1. SessionTypes'
  BY DEF TypeOK, SessionTypes, LoginFails, Become, Over, Req, ReqRecords, Cookies
<1>2. loginBy = r
  BY DEF Logins, SingleLogin
<1>3. FutureSettled'
  BY <1>2 DEF TypeOK, LoginFails, Become, Logins, FutureSettled
<1>4. StageOfPlace' /\ SingleLogin' /\ LeaderLogsIn' /\ FollowsALeader'
  BY <1>2 DEF TypeOK, LoginFails, Become, Over, Req,
     Logins, StageOfPlace, SingleLogin, LeaderLogsIn, FollowsALeader
<1>. QED
  BY <1>1, <1>3, <1>4 DEF Logins

\* Whoever calls relogin() follows the leader, or leads where nobody does.
LEMMA ReloginKeeps ==
    ASSUME TypeOK, Logins, NEW r \in Requests, req[r].pc = "sent", Relogin(r)
    PROVE  SessionTypes' /\ Logins' /\ req' = [req EXCEPT ![r] = req'[r]]
           /\ req'[r].pc \in {"following", "loading"}
<1>1. CASE /\ loginBy # NoRequest
           /\ Become(r, [Req("following", req[r].stage) EXCEPT !.follows = loginBy])
           /\ UNCHANGED <<loginBy, future>>
  <2>1. SessionTypes' /\ req' = [req EXCEPT ![r] = req'[r]] /\ req'[r].pc = "following"
    BY <1>1 DEF TypeOK, SessionTypes, Become, Req, ReqRecords, Cookies
  <2>2. StageOfPlace' /\ SingleLogin' /\ LeaderLogsIn' /\ FollowsALeader'
    BY <1>1 DEF TypeOK, Become, Req, ReqRecords,
       Logins, StageOfPlace, SingleLogin, LeaderLogsIn, FollowsALeader
  <2>3. FutureSettled'
    BY <1>1 DEF TypeOK, Become, Logins, FutureSettled
  <2>. QED
    BY <2>1, <2>2, <2>3 DEF Logins
<1>2. CASE /\ loginBy = NoRequest /\ loginBy' = r
           /\ future' = [future EXCEPT ![r] = "pending"]
           /\ Become(r, Req("loading", "login"))
  <2>1. SessionTypes' /\ req' = [req EXCEPT ![r] = req'[r]] /\ req'[r].pc = "loading"
    BY <1>2 DEF TypeOK, SessionTypes, Become, Req, ReqRecords, Cookies
  <2>2. StageOfPlace' /\ SingleLogin' /\ LeaderLogsIn' /\ FollowsALeader'
    BY <1>2, ConstantsOK DEF TypeOK, Become, Req, ReqRecords,
       Logins, StageOfPlace, SingleLogin, LeaderLogsIn, FollowsALeader
  <2>3. FutureSettled'
    BY <1>2, ConstantsOK DEF TypeOK, Become, Logins, FutureSettled
  <2>. QED
    BY <2>1, <2>2, <2>3 DEF Logins
<1>. QED
  BY <1>1, <1>2 DEF Relogin

\* A request moves on while the session stays as it is.
LEMMA PlaceKeeps ==
    ASSUME TypeOK, Logins, NEW r \in Requests, NEW new \in ReqRecords,
           req' = [req EXCEPT ![r] = new], UNCHANGED <<loginBy, future>>,
           (new.stage = "login") <=> (req[r].stage = "login"),
           new.pc \in {"idle"} \union Outcomes => new.stage = "first",
           new.pc \in {"loading", "saving"} => new.stage = "login",
           new.pc # "following", req[r].pc # "cancelled"
    PROVE  SessionTypes' /\ Logins'
<1>1. SessionTypes'
  BY DEF TypeOK, SessionTypes
<1>2. StageOfPlace' /\ SingleLogin' /\ LeaderLogsIn' /\ FollowsALeader'
  BY DEF TypeOK, Logins, StageOfPlace, SingleLogin, LeaderLogsIn, FollowsALeader
<1>3. FutureSettled'
  BY DEF TypeOK, Logins, FutureSettled
<1>. QED
  BY <1>1, <1>2, <1>3 DEF Logins

\* A request that is no login leaves relogin(), and the leader's place with it.  Its own future
\* is settled, or it was cancelled.
LEMMA LeavingKeeps ==
    ASSUME TypeOK, Logins, NEW r \in Requests, NEW new \in ReqRecords,
           req' = [req EXCEPT ![r] = new],
           loginBy' = IF loginBy = r THEN NoRequest ELSE loginBy,
           NEW f \in Requests, NEW v \in {"resolved", "failed", "cancelled"},
           future' = future \/ future' = [future EXCEPT ![f] = v],
           new.stage # "login", new.pc \in {"queued", "sent"} \union Outcomes,
           new.pc \in Outcomes => new.stage = "first",
           req[r].pc # "cancelled",
           new.pc # "cancelled" /\ loginBy = r => future'[r] # "pending"
    PROVE  SessionTypes' /\ Logins'
<1>1. SessionTypes'
  BY DEF TypeOK, SessionTypes
<1>2. StageOfPlace' /\ SingleLogin' /\ FollowsALeader'
  BY DEF TypeOK, Logins, StageOfPlace, SingleLogin, FollowsALeader
<1>3. LeaderLogsIn'
  BY DEF TypeOK, Logins, LeaderLogsIn
<1>4. FutureSettled'
  BY DEF TypeOK, Logins, FutureSettled
<1>. QED
  BY <1>1, <1>2, <1>3, <1>4 DEF Logins

\* The parts of the invariant.
LEMMA Together ==
    ASSUME SessionTypes', Logins', queue' \in Seq(Requests), QueueExact',
           permits' \in 0 .. MaxConcurrent, PermitsConserved', jar' \in Cookies, expiries' \in Nat
    PROVE  IInv'
BY DEF IInv, TypeOK, SessionTypes

LEMMA ReqType ==
    ASSUME NEW pc \in {"idle", "queued", "sent", "loading", "saving", "following"} \union Outcomes,
           NEW stage \in {"first", "login", "retry"}, ConstantsOK
    PROVE  /\ Req(pc, stage) \in ReqRecords
           /\ Req(pc, stage).pc = pc /\ Req(pc, stage).stage = stage
BY DEF Req, ReqRecords, Cookies

\* A request takes a free permit or joins the queue.
LEMMA AcquireKeeps ==
    ASSUME TypeOK, QueueExact, PermitsConserved, NEW r \in Requests,
           NEW stage \in {"first", "login", "retry"}, NEW cookie \in Cookies,
           req[r].pc \notin {"queued", "sent"}, Acquire(r, stage, cookie)
    PROVE  /\ \E new \in ReqRecords :
                /\ req' = [req EXCEPT ![r] = new]
                /\ new.pc \in {"queued", "sent"} /\ new.stage = stage
           /\ queue' \in Seq(Requests) /\ QueueExact'
           /\ permits' \in 0 .. MaxConcurrent /\ PermitsConserved'
<1>1. CASE /\ permits > 0 /\ queue' = queue /\ permits' = permits - 1
           /\ Become(r, [Req("sent", stage) EXCEPT !.cookie = cookie])
  <2>. DEFINE new == [Req("sent", stage) EXCEPT !.cookie = cookie]
  <2>1. new \in ReqRecords /\ new.pc = "sent" /\ new.stage = stage
    BY ReqType DEF Req, ReqRecords
  <2>2. req' = [req EXCEPT ![r] = new]
    BY <1>1 DEF Become
  <2>. HIDE DEF new
  <2>3. queue' \in Seq(Requests) /\ QueueExact'
    BY <1>1, <2>2, QueueUntouched
  <2>4. permits' \in 0 .. MaxConcurrent /\ PermitsConserved'
    BY <1>1, <2>1, <2>2, PermitTaken
  <2>. QED
    BY <2>1, <2>2, <2>3, <2>4
<1>2. CASE /\ Become(r, Req("queued", stage)) /\ queue' = Append(queue, r)
           /\ UNCHANGED permits
  <2>. DEFINE new == Req("queued", stage)
  <2>1. new \in ReqRecords /\ new.pc = "queued" /\ new.stage = stage
    BY DEF Req, ReqRecords, Cookies
  <2>2. req' = [req EXCEPT ![r] = new]
    BY <1>2 DEF Become
  <2>. HIDE DEF new
  <2>3. queue' \in Seq(Requests) /\ QueueExact'
    BY <1>2, <2>1, <2>2, QueueJoined
  <2>4. permits' \in 0 .. MaxConcurrent /\ PermitsConserved'
    BY <1>2, <2>1, <2>2, PermitsUntouched
  <2>. QED
    BY <2>1, <2>2, <2>3, <2>4
<1>. QED
  BY <1>1, <1>2 DEF Acquire

LEMMA StartStep ==
    ASSUME IInv, NEW r \in Requests, Start(r)
    PROVE  IInv'
<1>. USE DEF IInv
<1>1. /\ req[r].pc = "idle" /\ req[r].stage = "first"
      /\ Acquire(r, "first", jar) /\ jar \in Cookies
  BY DEF Start, Logins, StageOfPlace, TypeOK
<1>2. /\ queue' \in Seq(Requests) /\ QueueExact'
      /\ permits' \in 0 .. MaxConcurrent /\ PermitsConserved'
  BY <1>1, AcquireKeeps
<1>3. PICK new \in ReqRecords :
        /\ req' = [req EXCEPT ![r] = new]
        /\ new.pc \in {"queued", "sent"} /\ new.stage = "first"
  BY <1>1, AcquireKeeps
<1>4. SessionTypes' /\ Logins'
  BY <1>1, <1>3, PlaceKeeps DEF Start
<1>. QED
  BY <1>2, <1>4, Together DEF Start, TypeOK

LEMMA SendStep ==
    ASSUME IInv, Send
    PROVE  IInv'
<1>. USE DEF IInv
<1>. DEFINE r == Head(queue)
            new == [req[r] EXCEPT !.pc = "sent", !.cookie = jar]
<1>1. queue \in Seq(Requests) /\ queue # <<>> /\ 1 \in DOMAIN queue /\ r = queue[1]
  BY ElementOfSeq, HeadTailProperties, LenProperties, EmptySeq DEF Send, TypeOK
<1>2. r \in Requests /\ req[r].pc = "queued" /\ req[r] \in ReqRecords
  BY <1>1, ElementOfSeq, LenProperties DEF QueueExact, TypeOK
<1>3. new \in ReqRecords /\ new.pc = "sent" /\ new.stage = req[r].stage
  BY <1>2 DEF ReqRecords, TypeOK
<1>4. req' = [req EXCEPT ![r] = new]
  BY DEF Send, Become
<1>. HIDE DEF r, new
<1>5. SessionTypes' /\ Logins'
  BY <1>2, <1>3, <1>4, PlaceKeeps DEF Send
<1>6. queue' \in Seq(Requests) /\ QueueExact'
  <2>1. \A i \in DOMAIN Tail(queue) : i + 1 \in DOMAIN queue /\ Tail(queue)[i] = queue[i + 1]
    BY <1>1, HeadTailProperties, LenProperties
  <2>2. queue' = Tail(queue) /\ Tail(queue) \in Seq(Requests)
    BY <1>1, HeadTailProperties DEF Send
  <2>3. \A i \in DOMAIN Tail(queue) : Tail(queue)[i] \in Requests \ {r}
    BY <1>1, <2>1, <2>2, ElementOfSeq, LenProperties DEF QueueExact
  <2>4. \A i, j \in DOMAIN Tail(queue) : Tail(queue)[i] = Tail(queue)[j] => i = j
    BY <2>1, <2>2, LenProperties DEF QueueExact
  <2>5. \A i \in DOMAIN Tail(queue) : req'[Tail(queue)[i]].pc = "queued"
    BY <1>4, <2>1, <2>3 DEF QueueExact, TypeOK
  <2>. QED
    BY <2>2, <2>4, <2>5 DEF QueueExact
<1>7. permits' \in 0 .. MaxConcurrent /\ PermitsConserved'
  BY <1>2, <1>3, <1>4, PermitTaken DEF Send
<1>. QED
  BY <1>5, <1>6, <1>7, Together DEF Send, TypeOK

\* The site ends the session: nobody's place changes.
LEMMA ExpireStep ==
    ASSUME IInv, Expire
    PROVE  IInv'
<1>. USE DEF IInv
<1>1. \A r \in Requests :
        /\ req'[r].pc = req[r].pc /\ req'[r].stage = req[r].stage
        /\ req'[r].follows = req[r].follows
  BY DEF Expire, TypeOK, ReqRecords
<1>2. SessionTypes' /\ jar' \in Cookies /\ expiries' \in Nat
  BY DEF Expire, TypeOK, SessionTypes, ReqRecords, Cookies
<1>3. StageOfPlace' /\ SingleLogin' /\ FollowsALeader' /\ FutureSettled' /\ LeaderLogsIn'
  BY <1>1 DEF Expire, TypeOK, Logins, StageOfPlace, SingleLogin, FollowsALeader, FutureSettled,
     LeaderLogsIn
<1>4. queue' \in Seq(Requests) /\ QueueExact'
  BY <1>1, ElementOfSeq, LenProperties DEF Expire, TypeOK, QueueExact
<1>5. Sent' = Sent
  BY <1>1 DEF Sent
<1>6. permits' \in 0 .. MaxConcurrent /\ PermitsConserved'
  BY <1>5 DEF Expire, TypeOK, PermitsConserved, Sent
<1>. QED
  BY <1>2, <1>3, <1>4, <1>6, Together DEF Logins

\* The caller has failed, whatever its place was.
LEMMA FailedPlace ==
    ASSUME NEW r \in Requests, LoginFails(r)
    PROVE  req' = [req EXCEPT ![r] = Over("failed")] /\ Over("failed").pc = "failed"
BY DEF LoginFails, Become, Over, Req

LEMMA LoadedStep ==
    ASSUME IInv, NEW r \in Requests, Loaded(r)
    PROVE  IInv'
<1>. USE DEF IInv
<1>1. req[r].pc = "loading" /\ req[r].stage = "login"
  BY DEF Loaded, Logins, StageOfPlace
<1>2. CASE jar' = "none" /\ Acquire(r, "login", "none") /\ UNCHANGED <<loginBy, future>>
  <2>1. "none" \in Cookies
    BY DEF Cookies
  <2>2. /\ queue' \in Seq(Requests) /\ QueueExact'
        /\ permits' \in 0 .. MaxConcurrent /\ PermitsConserved'
    BY <1>1, <1>2, <2>1, AcquireKeeps
  <2>3. PICK new \in ReqRecords :
          /\ req' = [req EXCEPT ![r] = new]
          /\ new.pc \in {"queued", "sent"} /\ new.stage = "login"
    BY <1>1, <1>2, <2>1, AcquireKeeps
  <2>4. SessionTypes' /\ Logins'
    BY <1>1, <1>2, <2>3, PlaceKeeps
  <2>. QED
    BY <1>2, <2>1, <2>2, <2>4, Together DEF Loaded, TypeOK
<1>3. CASE LoginFails(r) /\ UNCHANGED <<permits, jar, queue>>
  <2>1. SessionTypes' /\ Logins'
    BY <1>1, <1>3, LoginFailsKeeps
  <2>2. queue' \in Seq(Requests) /\ QueueExact'
    BY <1>1, <1>3, FailedPlace, QueueUntouched
  <2>3. permits' \in 0 .. MaxConcurrent /\ PermitsConserved'
    BY <1>1, <1>3, FailedPlace, PermitsUntouched DEF Loaded
  <2>. QED
    BY <1>3, <2>1, <2>2, <2>3, Together DEF Loaded, TypeOK
<1>. QED
  BY <1>2, <1>3 DEF Loaded

LEMMA SavedStep ==
    ASSUME IInv, NEW r \in Requests, Saved(r)
    PROVE  IInv'
<1>. USE DEF IInv
<1>1. req[r].pc = "saving" /\ req[r].stage = "login"
  BY DEF Saved, Logins, StageOfPlace
<1>2. CASE /\ future' = [future EXCEPT ![r] = "resolved"]
           /\ loginBy' = NoRequest
           /\ Acquire(r, "retry", jar)
  <2>1. /\ queue' \in Seq(Requests) /\ QueueExact'
        /\ permits' \in 0 .. MaxConcurrent /\ PermitsConserved'
    BY <1>1, <1>2, AcquireKeeps DEF TypeOK
  <2>2. PICK new \in ReqRecords :
          /\ req' = [req EXCEPT ![r] = new]
          /\ new.pc \in {"queued", "sent"} /\ new.stage = "retry"
    BY <1>1, <1>2, AcquireKeeps DEF TypeOK
  <2>3. loginBy' = IF loginBy = r THEN NoRequest ELSE loginBy
    BY <1>1, <1>2 DEF Logins, SingleLogin
  <2>4. future'[r] # "pending"
    BY <1>2 DEF TypeOK
  <2>5. SessionTypes' /\ Logins'
    BY <1>1, <1>2, <2>2, <2>3, <2>4, LeavingKeeps
  <2>. QED
    BY <2>1, <2>5, Together DEF Saved, TypeOK
<1>3. CASE LoginFails(r) /\ UNCHANGED <<permits, queue>>
  <2>1. SessionTypes' /\ Logins'
    BY <1>1, <1>3, LoginFailsKeeps
  <2>2. queue' \in Seq(Requests) /\ QueueExact'
    BY <1>1, <1>3, FailedPlace, QueueUntouched
  <2>3. permits' \in 0 .. MaxConcurrent /\ PermitsConserved'
    BY <1>1, <1>3, FailedPlace, PermitsUntouched DEF Saved
  <2>. QED
    BY <2>1, <2>2, <2>3, Together DEF Saved, TypeOK
<1>. QED
  BY <1>2, <1>3 DEF Saved

\* A future that is done lets its followers go; a leader that follows itself has its own settled.
LEMMA WakeStep ==
    ASSUME IInv, NEW r \in Requests, Wake(r)
    PROVE  IInv'
<1>. USE DEF IInv
<1>1. /\ req[r].pc = "following" /\ req[r].follows \in Requests
      /\ future[req[r].follows] \in {"resolved", "failed", "cancelled"}
  BY DEF Wake, Logins, FollowsALeader
<1>2. loginBy = r => future[r] # "pending"
  BY <1>1, ConstantsOK DEF Logins, FollowsALeader, LeaderLogsIn, TypeOK
<1>3. CASE Acquire(r, "retry", jar)
  <2>1. /\ queue' \in Seq(Requests) /\ QueueExact'
        /\ permits' \in 0 .. MaxConcurrent /\ PermitsConserved'
    BY <1>1, <1>3, AcquireKeeps DEF TypeOK
  <2>2. PICK new \in ReqRecords :
          /\ req' = [req EXCEPT ![r] = new]
          /\ new.pc \in {"queued", "sent"} /\ new.stage = "retry"
    BY <1>1, <1>3, AcquireKeeps DEF TypeOK
  <2>3. SessionTypes' /\ Logins'
    BY <1>1, <1>2, <2>2, LeavingKeeps DEF Wake
  <2>. QED
    BY <2>1, <2>3, Together DEF Wake, TypeOK
<1>4. ASSUME NEW outcome \in {"failed", "cancelled"}, Become(r, Over(outcome)),
             UNCHANGED <<permits, queue>>
      PROVE  IInv'
  <2>. DEFINE new == Over(outcome)
  <2>1. new \in ReqRecords /\ new.pc = outcome /\ new.stage = "first"
    BY ReqType, ConstantsOK DEF Over
  <2>2. req' = [req EXCEPT ![r] = new]
    BY <1>4 DEF Become
  <2>. HIDE DEF new
  <2>3. SessionTypes' /\ Logins'
    BY <1>1, <1>2, <2>1, <2>2, LeavingKeeps DEF Wake
  <2>4. queue' \in Seq(Requests) /\ QueueExact'
    BY <1>1, <1>4, <2>2, QueueUntouched
  <2>5. permits' \in 0 .. MaxConcurrent /\ PermitsConserved'
    BY <1>1, <1>4, <2>1, <2>2, PermitsUntouched
  <2>. QED
    BY <2>3, <2>4, <2>5, Together DEF Wake, TypeOK
<1>. QED
  BY <1>3, <1>4 DEF Wake

\* A request ends in an outcome when its response has come, and its permit is back.
LEMMA EndsWithPermit ==
    ASSUME IInv, NEW r \in Requests, NEW outcome \in {"answered", "failed"},
           req[r].pc = "sent", req[r].stage # "login", Become(r, Over(outcome)),
           permits' = permits + 1, UNCHANGED <<queue, loginBy, future, jar, expiries>>
    PROVE  IInv'
<1>. USE DEF IInv
<1>. DEFINE new == Over(outcome)
<1>1. new \in ReqRecords /\ new.pc = outcome /\ new.stage = "first"
  BY ReqType, ConstantsOK DEF Over
<1>2. req' = [req EXCEPT ![r] = new]
  BY DEF Become
<1>. HIDE DEF new
<1>3. SessionTypes' /\ Logins'
  BY <1>1, <1>2, PlaceKeeps
<1>4. queue' \in Seq(Requests) /\ QueueExact'
  BY <1>2, QueueUntouched
<1>5. permits' \in 0 .. MaxConcurrent /\ PermitsConserved'
  BY <1>1, <1>2, PermitReturned
<1>. QED
  BY <1>3, <1>4, <1>5, Together DEF TypeOK

\* The request that logs in fails, and its permit is back.
LEMMA LoginEndsWithPermit ==
    ASSUME IInv, NEW r \in Requests, req[r].pc = "sent", req[r].stage = "login", LoginFails(r),
           permits' = permits + 1, UNCHANGED <<queue, jar, expiries>>
    PROVE  IInv'
<1>. USE DEF IInv
<1>1. SessionTypes' /\ Logins'
  BY LoginFailsKeeps
<1>2. queue' \in Seq(Requests) /\ QueueExact'
  BY FailedPlace, QueueUntouched
<1>3. permits' \in 0 .. MaxConcurrent /\ PermitsConserved'
  BY FailedPlace, PermitReturned
<1>. QED
  BY <1>1, <1>2, <1>3, Together DEF TypeOK

\* relogin() is called after the permit is back.
LEMMA ReloginWithPermit ==
    ASSUME IInv, NEW r \in Requests, req[r].pc = "sent", Relogin(r),
           permits' = permits + 1, UNCHANGED <<queue, jar, expiries>>
    PROVE  IInv'
<1>. USE DEF IInv
<1>. DEFINE new == req'[r]
<1>1. /\ SessionTypes' /\ Logins' /\ req' = [req EXCEPT ![r] = new]
      /\ new.pc \in {"following", "loading"}
  BY ReloginKeeps
<1>. HIDE DEF new
<1>2. queue' \in Seq(Requests) /\ QueueExact'
  BY <1>1, QueueUntouched
<1>3. permits' \in 0 .. MaxConcurrent /\ PermitsConserved'
  BY <1>1, PermitReturned
<1>. QED
  BY <1>1, <1>2, <1>3, Together DEF TypeOK

\* The login was accepted.
LEMMA AcceptedStep ==
    ASSUME IInv, NEW r \in Requests, req[r].pc = "sent", req[r].stage = "login",
           jar' = "valid", Become(r, Req("saving", "login")),
           permits' = permits + 1, UNCHANGED <<queue, loginBy, future, expiries>>
    PROVE  IInv'
<1>. USE DEF IInv
<1>. DEFINE new == Req("saving", "login")
<1>1. new \in ReqRecords /\ new.pc = "saving" /\ new.stage = "login"
  BY ReqType, ConstantsOK
<1>2. req' = [req EXCEPT ![r] = new]
  BY DEF Become
<1>. HIDE DEF new
<1>3. SessionTypes' /\ Logins'
  BY <1>1, <1>2, PlaceKeeps
<1>4. queue' \in Seq(Requests) /\ QueueExact'
  BY <1>2, QueueUntouched
<1>5. permits' \in 0 .. MaxConcurrent /\ PermitsConserved'
  BY <1>1, <1>2, PermitReturned
<1>. QED
  BY <1>3, <1>4, <1>5, Together DEF TypeOK, Cookies

LEMMA RespondStep ==
    ASSUME IInv, NEW r \in Requests, Respond(r)
    PROVE  IInv'
<1>1. CASE Answered(r)
  BY <1>1, EndsWithPermit DEF Answered
<1>2. CASE SessionError(r)
  BY <1>2, ReloginWithPermit DEF SessionError
<1>3. CASE LoginResponse(r)
  <2>1. CASE jar' = "valid" /\ Become(r, Req("saving", "login")) /\ UNCHANGED <<loginBy, future>>
    BY <1>3, <2>1, AcceptedStep DEF LoginResponse
  <2>2. CASE LoginFails(r) /\ UNCHANGED jar
    BY <1>3, <2>2, LoginEndsWithPermit DEF LoginResponse
  <2>3. CASE Relogin(r) /\ UNCHANGED jar
    BY <1>3, <2>3, ReloginWithPermit DEF LoginResponse
  <2>. QED
    BY <1>3, <2>1, <2>2, <2>3 DEF LoginResponse
<1>4. CASE RetryResponse(r)
  BY <1>4, EndsWithPermit DEF RetryResponse
<1>5. CASE Failed(r)
  <2>1. CASE req[r].stage = "login" /\ LoginFails(r)
    BY <1>5, <2>1, LoginEndsWithPermit DEF Failed
  <2>2. CASE req[r].stage # "login" /\ Become(r, Over("failed")) /\ UNCHANGED <<loginBy, future>>
    BY <1>5, <2>2, EndsWithPermit DEF Failed
  <2>. QED
    BY <1>5, <2>1, <2>2 DEF Failed
<1>. QED
  BY <1>1, <1>2, <1>3, <1>4, <1>5 DEF Respond

\* A cancelled request leaves the queue or gives its permit back; what it leads or follows is
\* cancelled or left behind.
LEMMA TimeoutStep ==
    ASSUME IInv, NEW r \in Requests, Timeout(r)
    PROVE  IInv'
<1>. USE DEF IInv
<1>. DEFINE new == Over("cancelled")
<1>1. new \in ReqRecords /\ new.pc = "cancelled" /\ new.stage = "first"
  BY ReqType, ConstantsOK DEF Over
<1>2. req' = [req EXCEPT ![r] = new] /\ req[r].pc # "cancelled"
  BY DEF Timeout, Become
<1>. HIDE DEF new
<1>3. PICK f \in Requests : future' = future \/ future' = [future EXCEPT ![f] = "cancelled"]
  BY DEF Timeout, Logins, FollowsALeader
<1>4. SessionTypes' /\ Logins'
  BY <1>1, <1>2, <1>3, LeavingKeeps DEF Timeout
<1>5. queue' \in Seq(Requests) /\ QueueExact'
  <2>1. CASE req[r].pc = "queued"
    BY <1>2, <2>1, QueueLeft DEF Timeout, LeaveQueue
  <2>2. CASE req[r].pc # "queued"
    BY <1>2, <2>2, QueueUntouched DEF Timeout, LeaveQueue
  <2>. QED
    BY <2>1, <2>2
<1>6. permits' \in 0 .. MaxConcurrent /\ PermitsConserved'
  <2>1. CASE req[r].pc = "sent"
    BY <1>1, <1>2, <2>1, PermitReturned DEF Timeout
  <2>2. CASE req[r].pc # "sent"
    BY <1>1, <1>2, <2>2, PermitsUntouched DEF Timeout
  <2>. QED
    BY <2>1, <2>2
<1>. QED
  BY <1>4, <1>5, <1>6, Together DEF Timeout, TypeOK

LEMMA StutterStep ==
    ASSUME IInv, UNCHANGED vars
    PROVE  IInv'
BY DEF IInv, vars, TypeOK, Logins, StageOfPlace, SingleLogin, LeaderLogsIn, FollowsALeader,
   FutureSettled, QueueExact, PermitsConserved

-----------------------------------------------------------------------------
\* The inductive invariant holds in every reachable state.
THEOREM Invariance == Spec => []IInv
<1>1. Init => IInv
  BY InitIInv
<1>2. IInv /\ [Next]_vars => IInv'
  BY SendStep, ExpireStep, StartStep, RespondStep, LoadedStep, SavedStep, WakeStep, TimeoutStep,
     StutterStep DEF Next
<1>. QED
  BY <1>1, <1>2, PTL DEF Spec

\* Every variable keeps its type; permits in particular never leave 0 .. max_concurrent.
THEOREM TypeCorrect == Spec => []TypeOK
BY Invariance, PTL DEF IInv

\* The semaphore has the permits its senders do not hold, whoever is cancelled or fails where
\* (base_indexer_definition.py:51-74).
THEOREM PermitsConservedHolds == Spec => []PermitsConserved
BY Invariance, PTL DEF IInv

\* At most one request logs in, for any number of requests that meet the expired session
\* (base_indexer_definition.py:312-339).
THEOREM SingleLoginHolds == Spec => []SingleLogin
<1>1. IInv => SingleLogin
  BY DEF IInv, Logins
<1>. QED
  BY Invariance, <1>1, PTL

\* A login that is over has settled its future, unless its leader was cancelled
\* (base_indexer_definition.py:326-335).
THEOREM FutureSettledHolds == Spec => []FutureSettled
<1>1. IInv => FutureSettled
  BY DEF IInv, Logins
<1>. QED
  BY Invariance, <1>1, PTL

-----------------------------------------------------------------------------
(* Nobody waits in vain: a queued request is in the queue, and the future  *)
(* a request follows was made.                                             *)

QueueComplete ==
    \A r \in Requests : req[r].pc = "queued" => \E i \in DOMAIN queue : queue[i] = r

FuturesMade ==
    /\ loginBy # NoRequest => future[loginBy] # "none"
    /\ \A r \in Requests : req[r].pc = "following" => future[req[r].follows] # "none"

WaitIInv == QueueComplete /\ FuturesMade

\* A request that is not cancelled moves to a place: where the queue, the leader and the futures
\* may go with it.
MovesTo(r, new) ==
    /\ req' = [req EXCEPT ![r] = new]
    /\ \/ queue' = queue /\ new.pc # "queued"
       \/ queue' = Append(queue, r)
    /\ new.pc = "following" => new.follows = loginBy /\ loginBy # NoRequest
    /\ new.pc = "following" /\ new.stage = "login" => "session" \in LoginVerdicts
    /\ new.pc = "cancelled" => \E s \in Requests : future[s] = "cancelled"
    /\ loginBy' \in {loginBy, NoRequest, r}
    /\ loginBy' = r /\ loginBy # r => future'[r] # "none"
    /\ \A s \in Requests :
         /\ future[s] # "none" => future'[s] # "none"
         /\ future'[s] = "cancelled" => future[s] = "cancelled"
         /\ future'[s] = "resolved" => future[s] = "resolved" \/ req[r].pc = "saving"

LEMMA LoginFailsMoves ==
    ASSUME TypeOK, NEW r \in Requests, LoginFails(r), UNCHANGED queue
    PROVE  MovesTo(r, Over("failed"))
<1>1. Over("failed").pc = "failed" /\ req' = [req EXCEPT ![r] = Over("failed")]
  BY DEF LoginFails, Become, Over, Req
<1>2. loginBy' = NoRequest /\ (loginBy' = r => FALSE)
  BY ConstantsOK DEF LoginFails
<1>3. \A s \in Requests :
         /\ future[s] # "none" => future'[s] # "none"
         /\ future'[s] = "cancelled" => future[s] = "cancelled"
         /\ future'[s] = "resolved" => future[s] = "resolved"
  BY DEF LoginFails, TypeOK
<1>. QED
  BY <1>1, <1>2, <1>3 DEF MovesTo

LEMMA ReloginMoves ==
    ASSUME TypeOK, NEW r \in Requests, Relogin(r), UNCHANGED queue, req[r] \in ReqRecords,
           req[r].stage = "login" => "session" \in LoginVerdicts
    PROVE  \E new : MovesTo(r, new)
<1>1. CASE loginBy # NoRequest
  <2> DEFINE new == [Req("following", req[r].stage) EXCEPT !.follows = loginBy]
  <2>1. new.pc = "following" /\ new.stage = req[r].stage /\ new.follows = loginBy
    BY DEF Req
  <2>2. req' = [req EXCEPT ![r] = new] /\ UNCHANGED <<loginBy, future>>
    BY <1>1 DEF Relogin, Become
  <2> HIDE DEF new
  <2>3. MovesTo(r, new)
    BY <1>1, <2>1, <2>2 DEF MovesTo
  <2> QED  BY <2>3
<1>2. CASE loginBy = NoRequest
  <2> DEFINE new == Req("loading", "login")
  <2>1. new.pc = "loading"
    BY DEF Req
  <2>2. /\ req' = [req EXCEPT ![r] = new] /\ loginBy' = r
        /\ future' = [future EXCEPT ![r] = "pending"]
    BY <1>2 DEF Relogin, Become
  <2> HIDE DEF new
  <2>3. future'[r] # "none" /\ \A s \in Requests :
         /\ future[s] # "none" => future'[s] # "none"
         /\ future'[s] = "cancelled" => future[s] = "cancelled"
         /\ future'[s] = "resolved" => future[s] = "resolved"
    BY <2>2 DEF TypeOK
  <2>4. MovesTo(r, new)
    BY <2>1, <2>2, <2>3 DEF MovesTo
  <2> QED  BY <2>4
<1>. QED
  BY <1>1, <1>2

LEMMA StepMoves ==
    ASSUME TypeOK, FollowsALeader, NEW r \in Requests,
           Start(r) \/ Respond(r) \/ Loaded(r) \/ Saved(r) \/ Wake(r)
    PROVE  \E new : MovesTo(r, new)
<1>0. r # NoRequest /\ req[r] \in ReqRecords
  BY ConstantsOK DEF TypeOK
<1>1. ASSUME NEW pc \in {"answered", "failed", "saving"}, NEW stage \in {"first", "login"},
             Become(r, Req(pc, stage)), UNCHANGED <<queue, loginBy, future>>
      PROVE  \E new : MovesTo(r, new)
  <2>1. Req(pc, stage).pc = pc
    BY DEF Req
  <2>2. MovesTo(r, Req(pc, stage))
    BY <1>1, <2>1 DEF Become, MovesTo
  <2> QED  BY <2>2
<1>2. ASSUME NEW stage \in {"first", "login", "retry"}, NEW cookie, Acquire(r, stage, cookie),
             loginBy' \in {loginBy, NoRequest},
             \/ future' = future
             \/ req[r].pc = "saving" /\ future' = [future EXCEPT ![r] = "resolved"]
      PROVE  \E new : MovesTo(r, new)
  <2>1. PICK new :
          /\ req' = [req EXCEPT ![r] = new]
          /\ \/ queue' = queue /\ new.pc = "sent"
             \/ queue' = Append(queue, r) /\ new.pc = "queued"
    <3>1. /\ [Req("sent", stage) EXCEPT !.cookie = cookie].pc = "sent"
          /\ Req("queued", stage).pc = "queued"
      BY DEF Req
    <3>2. CASE /\ Become(r, [Req("sent", stage) EXCEPT !.cookie = cookie])
               /\ UNCHANGED queue
      BY <3>1, <3>2 DEF Become
    <3>3. CASE Become(r, Req("queued", stage)) /\ queue' = Append(queue, r)
      BY <3>1, <3>3 DEF Become
    <3> QED  BY <1>2, <3>2, <3>3 DEF Acquire
  <2>2. \A s \in Requests :
         /\ future[s] # "none" => future'[s] # "none"
         /\ future'[s] = "cancelled" => future[s] = "cancelled"
         /\ future'[s] = "resolved" => future[s] = "resolved" \/ req[r].pc = "saving"
    BY <1>2 DEF TypeOK
  <2>3. MovesTo(r, new)
    BY <1>0, <1>2, <2>1, <2>2 DEF MovesTo
  <2> QED  BY <2>3
<1>3. ASSUME NEW outcome \in {"failed", "cancelled"}, Become(r, Over(outcome)),
             UNCHANGED <<queue, future>>, loginBy' \in {loginBy, NoRequest},
             outcome = "cancelled" => \E s \in Requests : future[s] = "cancelled"
      PROVE  \E new : MovesTo(r, new)
  <2>1. Over(outcome).pc = outcome
    BY DEF Over, Req
  <2>2. MovesTo(r, Over(outcome))
    BY <1>0, <1>3, <2>1 DEF Become, MovesTo
  <2> QED  BY <2>2
<1>4. CASE Start(r)
  BY <1>2, <1>4 DEF Start
<1>5. CASE Loaded(r)
  BY <1>2, <1>5, LoginFailsMoves DEF Loaded
<1>6. CASE Saved(r)
  BY <1>2, <1>6, LoginFailsMoves DEF Saved
<1>7. CASE Wake(r)
  <2>1. req[r].follows \in Requests
    BY <1>7 DEF Wake, FollowsALeader
  <2>2. loginBy' \in {loginBy, NoRequest} /\ future' = future
    BY <1>7 DEF Wake
  <2>3. CASE Acquire(r, "retry", jar)
    BY <1>2, <2>2, <2>3
  <2>4. CASE Become(r, Over("failed")) /\ UNCHANGED queue
    BY <1>3, <2>2, <2>4
  <2>5. CASE /\ Become(r, Over("cancelled")) /\ UNCHANGED queue
             /\ future[req[r].follows] = "cancelled"
    BY <1>3, <2>1, <2>2, <2>5
  <2> QED  BY <1>7, <2>3, <2>4, <2>5 DEF Wake
<1>8. CASE Respond(r)
  <2>1. CASE Answered(r) \/ RetryResponse(r)
    BY <1>1, <2>1 DEF Answered, RetryResponse, Over
  <2>2. CASE SessionError(r)
    BY <1>0, <2>2, ReloginMoves DEF SessionError
  <2>3. CASE LoginResponse(r)
    <3>1. CASE Become(r, Req("saving", "login")) /\ UNCHANGED <<loginBy, future>>
      BY <1>1, <2>3, <3>1 DEF LoginResponse
    <3>2. CASE LoginFails(r)
      BY <2>3, <3>2, LoginFailsMoves DEF LoginResponse
    <3>3. CASE "session" \in LoginVerdicts /\ Relogin(r)
      BY <1>0, <2>3, <3>3, ReloginMoves DEF LoginResponse
    <3> QED  BY <2>3, <3>1, <3>2, <3>3 DEF LoginResponse
  <2>4. CASE Failed(r)
    BY <1>1, <2>4, LoginFailsMoves DEF Failed, Over
  <2> QED  BY <1>8, <2>1, <2>2, <2>3, <2>4 DEF Respond
<1>. QED
  BY <1>4, <1>5, <1>6, <1>7, <1>8

\* Who is in the queue, as one request changes its place.
LEMMA QueueCompleteKeeps ==
    ASSUME TypeOK, TypeOK', QueueComplete, NEW r \in Requests, NEW new,
           req' = [req EXCEPT ![r] = new],
           \/ queue' = queue /\ new.pc # "queued"
           \/ queue' = Append(queue, r)
    PROVE  QueueComplete'
<1>1. /\ \A s \in Requests : s # r => req'[s] = req[s]
      /\ req'[r] = new
  BY DEF TypeOK
<1>2. CASE queue' = queue /\ new.pc # "queued"
  BY <1>1, <1>2 DEF QueueComplete
<1>3. CASE queue' = Append(queue, r)
  <2>1. /\ queue'[Len(queue) + 1] = r /\ Len(queue) + 1 \in DOMAIN queue'
        /\ \A i \in DOMAIN queue : i \in DOMAIN queue' /\ queue'[i] = queue[i]
    BY <1>3, AppendProperties, LenProperties DEF TypeOK
  <2>. QED
    BY <1>1, <2>1 DEF QueueComplete
<1>. QED
  BY <1>2, <1>3

\* A future that was made is never unmade, and whoever starts to follow follows a leader.
LEMMA FuturesMadeKeeps ==
    ASSUME TypeOK, FuturesMade, NEW r \in Requests, NEW new,
           req' = [req EXCEPT ![r] = new],
           new.pc = "following" => new.follows = loginBy /\ loginBy # NoRequest,
           loginBy' \in {loginBy, NoRequest, r},
           loginBy' = r /\ loginBy # r => future'[r] # "none",
           \A s \in Requests : future[s] # "none" => future'[s] # "none",
           FollowsALeader
    PROVE  FuturesMade'
<1>1. /\ \A s \in Requests : s # r => req'[s] = req[s]
      /\ req'[r] = new
  BY DEF TypeOK
<1>2. loginBy' # NoRequest => future'[loginBy'] # "none"
  BY DEF TypeOK, FuturesMade
<1>3. ASSUME NEW s \in Requests, req'[s].pc = "following"
      PROVE  future'[req'[s].follows] # "none"
  BY <1>1, <1>3 DEF TypeOK, FuturesMade, FollowsALeader
<1>. QED
  BY <1>2, <1>3 DEF FuturesMade

LEMMA WaitStep ==
    ASSUME IInv, IInv', WaitIInv, [Next]_vars
    PROVE  WaitIInv'
<1>1. TypeOK /\ TypeOK' /\ FollowsALeader /\ QueueComplete /\ FuturesMade
  BY DEF IInv, Logins, WaitIInv
<1>2. CASE Send
  <2> DEFINE r == Head(queue)
             new == [req[r] EXCEPT !.pc = "sent", !.cookie = jar]
  <2>1. queue \in Seq(Requests) /\ queue # <<>> /\ r = queue[1] /\ r \in Requests
        /\ req' = [req EXCEPT ![r] = new] /\ new.pc = "sent"
    BY <1>1, <1>2, HeadTailProperties, ElementOfSeq, LenProperties, EmptySeq
       DEF Send, Become, TypeOK, ReqRecords
  <2> HIDE DEF r, new
  <2>2. ASSUME NEW s \in Requests, req'[s].pc = "queued"
        PROVE  \E i \in DOMAIN queue' : queue'[i] = s
    <3>1. s # r /\ req[s].pc = "queued"
      BY <1>1, <2>1, <2>2 DEF TypeOK
    <3>2. PICK i \in DOMAIN queue : queue[i] = s
      BY <1>1, <3>1 DEF QueueComplete
    <3>3. i # 1
      BY <2>1, <3>1, <3>2
    <3>4. i - 1 \in DOMAIN Tail(queue) /\ Tail(queue)[i - 1] = queue[i]
      BY <2>1, <3>2, <3>3, HeadTailProperties, LenProperties
    <3> QED  BY <1>2, <3>2, <3>4 DEF Send
  <2>3. FuturesMade'
    BY <1>1, <1>2, <2>1, FuturesMadeKeeps DEF Send
  <2> QED  BY <2>2, <2>3 DEF WaitIInv, QueueComplete
<1>3. CASE Expire
  <2>1. \A r \in Requests : req'[r].pc = req[r].pc /\ req'[r].follows = req[r].follows
    BY <1>1, <1>3 DEF Expire, TypeOK, ReqRecords
  <2> QED  BY <1>1, <1>3, <2>1 DEF Expire, WaitIInv, QueueComplete, FuturesMade, TypeOK
<1>4. CASE UNCHANGED vars
  BY <1>1, <1>4 DEF vars, WaitIInv, QueueComplete, FuturesMade
<1>5. ASSUME NEW r \in Requests, Start(r) \/ Respond(r) \/ Loaded(r) \/ Saved(r) \/ Wake(r)
      PROVE  WaitIInv'
  <2>1. PICK new : MovesTo(r, new)
    BY <1>1, <1>5, StepMoves
  <2>2. QueueComplete'
    BY <1>1, <2>1, QueueCompleteKeeps DEF MovesTo
  <2>3. FuturesMade'
    BY <1>1, <2>1, FuturesMadeKeeps DEF MovesTo
  <2> QED  BY <2>2, <2>3 DEF WaitIInv
<1>6. ASSUME NEW r \in Requests, Timeout(r)
      PROVE  WaitIInv'
  <2>1. req' = [req EXCEPT ![r] = Over("cancelled")] /\ Over("cancelled").pc = "cancelled"
    BY <1>6 DEF Timeout, Become, Over, Req
  <2>2. FuturesMade'
    BY <1>1, <1>6, <2>1, FuturesMadeKeeps DEF Timeout, TypeOK
  <2>3. CASE req[r].pc # "queued"
    <3>1. queue' = queue
      BY <1>6, <2>3 DEF Timeout, LeaveQueue
    <3>2. QueueComplete'
      BY <1>1, <2>1, <3>1, QueueCompleteKeeps
    <3> QED  BY <2>2, <3>2 DEF WaitIInv
  <2>4. CASE req[r].pc = "queued"
    <3>1. PICK i \in DOMAIN queue : queue[i] = r /\ queue' = RemoveAt(queue, i)
      BY <1>6, <2>4 DEF Timeout, LeaveQueue
    <3>2. /\ queue \in Seq(Requests) /\ Len(queue) \in Nat /\ i \in 1 .. Len(queue)
          /\ DOMAIN queue = 1 .. Len(queue)
      BY <1>1, <3>1, LenProperties DEF TypeOK
    <3>3. /\ queue' \in Seq(Requests) /\ Len(queue') = Len(queue) - 1
          /\ \A j \in 1 .. Len(queue) - 1 :
                queue'[j] = IF j < i THEN queue[j] ELSE queue[j + 1]
      BY <3>1, <3>2, WithoutOne
    <3>4. DOMAIN queue' = 1 .. Len(queue) - 1
      BY <3>3, LenProperties
    <3>5. ASSUME NEW s \in Requests, req'[s].pc = "queued"
          PROVE  \E j \in DOMAIN queue' : queue'[j] = s
      <4>1. s # r /\ req[s].pc = "queued"
        BY <1>1, <2>1, <3>5 DEF TypeOK
      <4>2. PICK j \in DOMAIN queue : queue[j] = s
        BY <1>1, <4>1 DEF QueueComplete
      <4>3. j # i
        BY <3>1, <4>1, <4>2
      <4>4. CASE j < i
        <5>1. j \in 1 .. Len(queue) - 1 /\ queue'[j] = s
          BY <3>2, <3>3, <4>2, <4>4
        <5> QED  BY <3>4, <5>1
      <4>5. CASE j > i
        <5>1. /\ j - 1 \in 1 .. Len(queue) - 1 /\ ~(j - 1 < i) /\ (j - 1) + 1 = j
          BY <3>2, <4>2, <4>5
        <5>2. queue'[j - 1] = s
          BY <3>3, <4>2, <5>1
        <5> QED  BY <3>4, <5>1, <5>2
      <4> QED  BY <3>2, <4>2, <4>3, <4>4, <4>5
    <3> QED  BY <2>2, <3>5 DEF WaitIInv, QueueComplete
  <2> QED  BY <2>3, <2>4
<1> QED  BY <1>2, <1>3, <1>4, <1>5, <1>6 DEF Next

LEMMA WaitInvariance == Spec => []WaitIInv
<1>1. Init => WaitIInv
  BY ConstantsOK DEF Init, WaitIInv, QueueComplete, FuturesMade, Req
<1>2. IInv /\ IInv' /\ WaitIInv /\ [Next]_vars => WaitIInv'
  BY WaitStep
<1>. QED
  BY <1>1, <1>2, Invariance, PTL DEF Spec

\* When a permit is missing, somebody has it; and the login that a request follows is under way.
LEMMA SomebodyGoesOn == IInv /\ WaitIInv => NoDeadlock
<1>. SUFFICES ASSUME IInv, WaitIInv, NEW r \in Requests,
                     req[r].pc \notin Outcomes \union {"idle"}, ~Stranded(r)
              PROVE  \E s \in Requests : GoesOn(s)
  BY DEF NoDeadlock
<1>1. TypeOK /\ Logins /\ PermitsConserved /\ FuturesMade
  BY DEF IInv, WaitIInv
<1>2. ASSUME NEW s \in Requests, req[s].pc = "queued"
      PROVE  \E t \in Requests : GoesOn(t)
  <2>1. CASE permits > 0
    BY <1>2, <2>1 DEF GoesOn
  <2>2. CASE permits = 0
    <3>1. Cardinality(Sent) = MaxConcurrent /\ MaxConcurrent # 0
      BY <1>1, <2>2, SentFinite, ConstantsOK DEF PermitsConserved, Sent
    <3>2. Sent # {}
      BY <3>1, FS_EmptySet
    <3> QED  BY <3>2 DEF Sent, GoesOn
  <2> QED  BY <1>1, <2>1, <2>2, ConstantsOK DEF TypeOK
<1>3. CASE req[r].pc \in {"sent", "loading", "saving"}
  BY <1>3 DEF GoesOn
<1>4. CASE req[r].pc = "following"
  <2> DEFINE leader == req[r].follows
  <2>1. leader \in Requests /\ future[leader] # "none"
    BY <1>1, <1>4 DEF Logins, FollowsALeader, FuturesMade
  <2>2. CASE future[leader] # "pending"
    BY <1>1, <1>4, <2>1, <2>2 DEF GoesOn, TypeOK
  <2>3. CASE future[leader] = "pending"
    <3>1. loginBy = leader /\ req[leader].pc # "following"
      BY <1>4, <2>3 DEF Stranded
    <3>2. req[leader].stage = "login"
      BY <1>1, <2>1, <3>1, ConstantsOK DEF Logins, LeaderLogsIn
    <3>3. req[leader].pc \in {"queued", "sent", "loading", "saving"}
      BY <1>1, <2>1, <3>1, <3>2 DEF Logins, StageOfPlace, TypeOK, ReqRecords
    <3> QED  BY <1>2, <2>1, <3>3 DEF GoesOn
  <2> QED  BY <2>2, <2>3
<1>5. req[r].pc \in {"queued", "sent", "loading", "saving", "following"}
  BY <1>1 DEF TypeOK, ReqRecords
<1>. QED
  BY <1>2, <1>3, <1>4, <1>5

\* Requests that queue for a permit, senders that hold one and the login they wait for never all
\* wait for each other, for any number of requests and permits: the permit is back before the
\* login is awaited (base_indexer_definition.py:51-74).
THEOREM NoDeadlockHolds == Spec => []NoDeadlock
BY Invariance, WaitInvariance, SomebodyGoesOn, PTL

-----------------------------------------------------------------------------
(* What strands a follower. *)

\* What a response to a login that is no session error, and what no deadline at all exclude.
CauseIInv ==
    /\ "session" \notin LoginVerdicts => LoginNeverFollows
    /\ Timed = {} => \A r \in Requests : future[r] # "cancelled" /\ req[r].pc # "cancelled"

LEMMA CauseStep ==
    ASSUME IInv, CauseIInv, [Next]_vars
    PROVE  CauseIInv'
<1>1. TypeOK /\ FollowsALeader
  BY DEF IInv, Logins
<1>2. ASSUME \A r \in Requests :
               req'[r].pc = req[r].pc /\ (req'[r].pc = "following" => req'[r].stage = req[r].stage),
             future' = future
      PROVE  CauseIInv'
  BY <1>2 DEF CauseIInv, LoginNeverFollows
<1>3. CASE Expire
  BY <1>1, <1>2, <1>3 DEF Expire, TypeOK, ReqRecords
<1>4. CASE UNCHANGED vars
  BY <1>2, <1>4 DEF vars
<1>5. CASE Send
  <2> DEFINE r == Head(queue)
             new == [req[r] EXCEPT !.pc = "sent", !.cookie = jar]
  <2>1. /\ r \in Requests /\ future' = future
        /\ req' = [req EXCEPT ![r] = new] /\ new.pc = "sent"
    BY <1>1, <1>5, HeadTailProperties, EmptySeq DEF Send, Become, TypeOK, ReqRecords
  <2> HIDE DEF r, new
  <2> QED  BY <1>1, <2>1 DEF TypeOK, CauseIInv, LoginNeverFollows
<1>6. ASSUME NEW r \in Requests, Start(r) \/ Respond(r) \/ Loaded(r) \/ Saved(r) \/ Wake(r)
      PROVE  CauseIInv'
  <2>1. PICK new : MovesTo(r, new)
    BY <1>1, <1>6, StepMoves
  <2>2. req'[r] = new /\ \A s \in Requests : s # r => req'[s] = req[s]
    BY <1>1, <2>1 DEF MovesTo, TypeOK
  <2>3. "session" \notin LoginVerdicts => LoginNeverFollows'
    BY <2>1, <2>2 DEF MovesTo, CauseIInv, LoginNeverFollows
  <2>4. Timed = {} => \A s \in Requests : future'[s] # "cancelled" /\ req'[s].pc # "cancelled"
    BY <2>1, <2>2 DEF MovesTo, CauseIInv
  <2> QED  BY <2>3, <2>4 DEF CauseIInv
<1>7. ASSUME NEW r \in Requests, Timeout(r)
      PROVE  CauseIInv'
  <2>1. Timed # {}
    BY <1>7 DEF Timeout
  <2>2. /\ req'[r].pc = "cancelled"
        /\ \A s \in Requests : s # r => req'[s] = req[s]
    BY <1>1, <1>7 DEF Timeout, Become, Over, Req, TypeOK
  <2> QED  BY <2>1, <2>2 DEF CauseIInv, LoginNeverFollows
<1> QED  BY <1>3, <1>4, <1>5, <1>6, <1>7 DEF Next

LEMMA CauseInvariance == Spec => []CauseIInv
<1>1. Init => CauseIInv
  BY DEF Init, CauseIInv, LoginNeverFollows, Req
<1>2. IInv /\ CauseIInv /\ [Next]_vars => CauseIInv'
  BY CauseStep
<1>. QED
  BY <1>1, <1>2, Invariance, PTL DEF Spec

\* A login waits for itself only where the site's code takes a response to the login for an expired
\* session, as filelist's does (integrations/filelist.py:129-135): for every other site the docstring
\* of _detect_authentication_error holds (base_indexer_definition.py:166).
THEOREM OnlyLoginPagesFollow ==
    ASSUME "session" \notin LoginVerdicts
    PROVE  Spec => []LoginNeverFollows
<1>1. CauseIInv => LoginNeverFollows
  BY DEF CauseIInv
<1>. QED
  BY <1>1, CauseInvariance, PTL

\* Every stranded follower has one of the two causes: a leader that a deadline cancelled
\* (indexers/service.py:184, :276), or a login that waits for itself.
LEMMA CausesOfStranding == IInv =>
    \A r \in Requests : Stranded(r) =>
        \/ req[req[r].follows].pc = "cancelled"
        \/ req[req[r].follows].pc = "following" /\ req[req[r].follows].stage = "login"
<1>. SUFFICES ASSUME IInv, NEW r \in Requests, Stranded(r)
              PROVE  \/ req[req[r].follows].pc = "cancelled"
                     \/ /\ req[req[r].follows].pc = "following"
                        /\ req[req[r].follows].stage = "login"
  OBVIOUS
<1>1. /\ req[r].follows \in Requests /\ FutureSettled /\ LeaderLogsIn
      /\ future[req[r].follows] = "pending"
      /\ loginBy # req[r].follows \/ req[req[r].follows].pc = "following"
  BY DEF IInv, Logins, FollowsALeader, Stranded
<1>. QED
  BY <1>1, ConstantsOK DEF FutureSettled, LeaderLogsIn

\* No follower of a login is left behind where no request has a deadline and no response to a login
\* counts as an expired session: the two findings about relogin() have no third cause
\* (base_indexer_definition.py:312-339).
THEOREM NobodyStranded ==
    ASSUME Timed = {}, "session" \notin LoginVerdicts
    PROVE  Spec => [](\A r \in Requests : ~Stranded(r))
<1>1. IInv /\ CauseIInv => \A r \in Requests : ~Stranded(r)
  <2> SUFFICES ASSUME IInv, CauseIInv, NEW r \in Requests, Stranded(r)  PROVE FALSE
    OBVIOUS
  <2>1. req[r].follows \in Requests
    BY DEF IInv, Logins, FollowsALeader, Stranded
  <2> QED  BY <2>1, CausesOfStranding DEF CauseIInv, LoginNeverFollows
<1>. QED
  BY <1>1, Invariance, CauseInvariance, PTL

-----------------------------------------------------------------------------
(* What lets a retry go out without a cookie. *)

Unsuccessful == {"pending", "failed", "cancelled"}

\* A login that was begun is over and has not succeeded.
LoginBroken == \E u \in Requests : loginBy # u /\ future[u] \in Unsuccessful

\* A retry is sent without a cookie only after it has waited for a permit, and only while a login
\* is under way, which has cleared the cookies (base_indexer_definition.py:221), or after one that
\* has not succeeded: the finding about the comment on the retry (:61) has no other cause.
BareRetryExplained ==
    [][\A r \in Requests :
        /\ req[r].pc # "sent"
        /\ req'[r].pc = "sent" /\ req'[r].stage = "retry" /\ req'[r].cookie = "none"
        => req[r].pc = "queued" /\ (loginBy # NoRequest \/ LoginBroken)]_vars

LeaderUnresolved == loginBy # NoRequest => future[loginBy] # "resolved"

SavedCookies == \A r \in Requests : req[r].pc = "saving" => jar # "none"

\* A login has succeeded, so that requests are or will be retried.
Retried == \E u \in Requests : req[u].stage = "retry" \/ future[u] = "resolved"

BareIInv ==
    /\ LeaderUnresolved
    /\ SavedCookies
    /\ Retried /\ jar = "none" => loginBy # NoRequest \/ LoginBroken

\* A step that ends no login, clears no cookies and lets nobody retry who might not have before.
LEMMA QuietBare ==
    ASSUME TypeOK, BareIInv, loginBy' = loginBy, jar' = "none" <=> jar = "none",
           \A r \in Requests :
             /\ req'[r].stage = "retry" => Retried
             /\ req'[r].pc = "saving" => req[r].pc = "saving"
             /\ future'[r] = "resolved" => future[r] = "resolved"
             /\ future[r] \in Unsuccessful => future'[r] \in Unsuccessful
    PROVE  BareIInv'
<1>1. Retried' => Retried
  BY DEF Retried
<1>2. LoginBroken => LoginBroken'
  BY DEF LoginBroken
<1>3. LeaderUnresolved' /\ SavedCookies'
  BY DEF BareIInv, LeaderUnresolved, SavedCookies, TypeOK
<1>. QED
  BY <1>1, <1>2, <1>3 DEF BareIInv

\* A login ends without success.
LEMMA BrokenBare ==
    ASSUME BareIInv, loginBy' = NoRequest, jar' = jar,
           \E u \in Requests : future'[u] \in Unsuccessful,
           \A r \in Requests : req'[r].pc = "saving" => req[r].pc = "saving"
    PROVE  BareIInv'
<1>1. LoginBroken'
  BY ConstantsOK DEF LoginBroken
<1>2. LeaderUnresolved' /\ SavedCookies'
  BY DEF BareIInv, LeaderUnresolved, SavedCookies
<1>. QED
  BY <1>1, <1>2 DEF BareIInv

\* The future of a login in progress was made and is not resolved.
LEMMA LeaderOpen ==
    ASSUME TypeOK, WaitIInv, BareIInv, loginBy # NoRequest
    PROVE  loginBy \in Requests /\ future[loginBy] \in Unsuccessful
BY DEF TypeOK, WaitIInv, FuturesMade, BareIInv, LeaderUnresolved, Unsuccessful

LEMMA LoginFailsBare ==
    ASSUME IInv, WaitIInv, BareIInv, NEW r \in Requests, req[r].stage = "login",
           LoginFails(r), jar' = jar
    PROVE  BareIInv'
<1>1. TypeOK /\ loginBy = r /\ r # NoRequest
  BY ConstantsOK DEF IInv, Logins, SingleLogin
<1>2. future[r] \in Unsuccessful
  BY <1>1, LeaderOpen
<1>3. /\ loginBy' = NoRequest /\ future'[r] \in Unsuccessful
      /\ \A s \in Requests : req'[s].pc = "saving" => req[s].pc = "saving"
  BY <1>1, <1>2 DEF LoginFails, Become, Over, Req, Unsuccessful, TypeOK
<1>. QED
  BY <1>3, BrokenBare

LEMMA ReloginBare ==
    ASSUME IInv, BareIInv, NEW r \in Requests, req[r].stage # "retry", Relogin(r), jar' = jar
    PROVE  BareIInv'
<1>1. TypeOK /\ r # NoRequest
  BY ConstantsOK DEF IInv
<1>2. CASE loginBy # NoRequest
  <2>1. /\ loginBy' = loginBy /\ future' = future
        /\ \A s \in Requests : /\ req'[s].stage = "retry" => req[s].stage = "retry"
                               /\ req'[s].pc = "saving" => req[s].pc = "saving"
    BY <1>1, <1>2 DEF Relogin, Become, Req, TypeOK
  <2> QED  BY <1>1, <2>1, QuietBare DEF Retried
<1>3. CASE loginBy = NoRequest
  <2>1. /\ loginBy' = r /\ future'[r] = "pending"
        /\ \A s \in Requests : req'[s].pc = "saving" => req[s].pc = "saving"
    BY <1>1, <1>3 DEF Relogin, Become, Req, TypeOK
  <2>2. LeaderUnresolved' /\ SavedCookies'
    BY <2>1 DEF BareIInv, LeaderUnresolved, SavedCookies
  <2> QED  BY <1>1, <2>1, <2>2 DEF BareIInv
<1>. QED
  BY <1>2, <1>3

LEMMA RespondBare ==
    ASSUME IInv, WaitIInv, BareIInv, NEW r \in Requests, Respond(r)
    PROVE  BareIInv'
<1>1. TypeOK
  BY DEF IInv
<1>2. ASSUME NEW outcome \in {"answered", "failed"}, Become(r, Over(outcome)),
             UNCHANGED <<loginBy, future, jar>>
      PROVE  BareIInv'
  <2>1. \A s \in Requests : /\ req'[s].stage = "retry" => req[s].stage = "retry"
                            /\ req'[s].pc = "saving" => req[s].pc = "saving"
    BY <1>1, <1>2 DEF Become, Over, Req, TypeOK
  <2> QED  BY <1>1, <1>2, <2>1, QuietBare DEF Retried
<1>3. CASE Answered(r) \/ RetryResponse(r)
  BY <1>2, <1>3 DEF Answered, RetryResponse
<1>4. CASE SessionError(r)
  BY <1>4, ReloginBare DEF SessionError
<1>5. CASE Failed(r)
  BY <1>2, <1>5, LoginFailsBare DEF Failed
<1>6. CASE LoginResponse(r)
  <2>1. ASSUME jar' = "valid", Become(r, Req("saving", "login")), UNCHANGED <<loginBy, future>>
        PROVE  BareIInv'
    BY <2>1 DEF BareIInv, LeaderUnresolved, SavedCookies
  <2> QED  BY <1>6, <2>1, LoginFailsBare, ReloginBare DEF LoginResponse
<1>. QED
  BY <1>3, <1>4, <1>5, <1>6 DEF Respond

LEMMA LoadedBare ==
    ASSUME IInv, WaitIInv, BareIInv, NEW r \in Requests, Loaded(r)
    PROVE  BareIInv'
<1>1. TypeOK /\ loginBy = r /\ r # NoRequest /\ req[r].stage = "login"
  BY ConstantsOK DEF Loaded, IInv, Logins, SingleLogin, StageOfPlace
<1>2. CASE LoginFails(r) /\ UNCHANGED <<jar, queue>>
  BY <1>1, <1>2, LoginFailsBare
<1>3. CASE jar' = "none" /\ Acquire(r, "login", "none") /\ UNCHANGED <<loginBy, future>>
  <2>1. \A s \in Requests : req'[s].pc # "saving"
    BY <1>1, <1>3 DEF Acquire, Become, Req, TypeOK, IInv, Logins, SingleLogin, StageOfPlace
  <2> QED  BY <1>1, <1>3, <2>1 DEF BareIInv, LeaderUnresolved, SavedCookies
<1>. QED
  BY <1>2, <1>3 DEF Loaded

LEMMA SavedBare ==
    ASSUME IInv, WaitIInv, BareIInv, NEW r \in Requests, Saved(r)
    PROVE  BareIInv'
<1>1. jar # "none" /\ jar' = jar /\ req[r].stage = "login"
  BY DEF Saved, BareIInv, SavedCookies, IInv, Logins, StageOfPlace
<1>2. CASE LoginFails(r)
  BY <1>1, <1>2, LoginFailsBare
<1>3. CASE loginBy' = NoRequest
  BY <1>1, <1>3 DEF BareIInv, LeaderUnresolved, SavedCookies
<1>. QED
  BY <1>2, <1>3 DEF Saved

\* A follower that goes on, or is cancelled, changes no login, unless it leads the one it follows.
LEMMA WakeBare ==
    ASSUME IInv, WaitIInv, BareIInv, NEW r \in Requests, Wake(r)
    PROVE  BareIInv'
<1>1. TypeOK /\ future' = future /\ jar' = jar /\ req[r].follows \in Requests
  BY DEF Wake, IInv, Logins, FollowsALeader
<1>2. \A s \in Requests : /\ req'[s].stage = "retry" => Retried
                          /\ req'[s].pc = "saving" => req[s].pc = "saving"
  BY <1>1 DEF Wake, Acquire, Become, Over, Req, Retried, TypeOK
<1>3. CASE loginBy = r
  <2>1. r # NoRequest /\ loginBy' = NoRequest /\ future'[r] \in Unsuccessful
    BY <1>1, <1>3, LeaderOpen, ConstantsOK DEF Wake
  <2> QED  BY <1>1, <1>2, <2>1, BrokenBare
<1>4. CASE loginBy # r
  <2>1. loginBy' = loginBy
    BY <1>4 DEF Wake
  <2> QED  BY <1>1, <1>2, <2>1, QuietBare
<1>. QED
  BY <1>3, <1>4

LEMMA TimeoutBare ==
    ASSUME IInv, WaitIInv, BareIInv, NEW r \in Requests, Timeout(r)
    PROVE  BareIInv'
<1>1. TypeOK /\ jar' = jar
  BY DEF Timeout, IInv
<1>2. \A s \in Requests : /\ req'[s].stage = "retry" => Retried
                          /\ req'[s].pc = "saving" => req[s].pc = "saving"
  BY <1>1 DEF Timeout, Become, Over, Req, Retried, TypeOK
<1>3. \A s \in Requests : /\ future'[s] = "resolved" => future[s] = "resolved"
                          /\ future[s] \in Unsuccessful => future'[s] \in Unsuccessful
  BY <1>1 DEF Timeout, Unsuccessful, TypeOK
<1>4. CASE loginBy = r
  <2>1. r # NoRequest /\ loginBy' = NoRequest /\ future'[r] \in Unsuccessful
    BY <1>1, <1>3, <1>4, LeaderOpen, ConstantsOK DEF Timeout
  <2> QED  BY <1>1, <1>2, <2>1, BrokenBare
<1>5. CASE loginBy # r
  <2>1. loginBy' = loginBy
    BY <1>5 DEF Timeout
  <2> QED  BY <1>1, <1>2, <1>3, <2>1, QuietBare
<1>. QED
  BY <1>4, <1>5

LEMMA BareInvariance == Spec => []BareIInv
<1>1. Init => BareIInv
  BY DEF Init, Req, BareIInv, LeaderUnresolved, SavedCookies, Retried
<1>2. IInv /\ WaitIInv /\ BareIInv /\ [Next]_vars => BareIInv'
  <2> SUFFICES ASSUME IInv, WaitIInv, BareIInv, [Next]_vars  PROVE BareIInv'
    OBVIOUS
  <2>1. TypeOK
    BY DEF IInv
  <2>2. ASSUME UNCHANGED <<loginBy, future>>, jar' = "none" <=> jar = "none",
               \A s \in Requests : /\ req'[s].stage = "retry" => req[s].stage = "retry"
                                   /\ req'[s].pc = "saving" => req[s].pc = "saving"
        PROVE  BareIInv'
    BY <2>1, <2>2, QuietBare DEF Retried
  <2>3. CASE Send
    <3>1. Head(queue) \in Requests
      BY <2>1, <2>3, HeadTailProperties, EmptySeq DEF Send, TypeOK
    <3> QED  BY <2>1, <2>2, <2>3, <3>1 DEF Send, Become, TypeOK, ReqRecords
  <2>4. CASE Expire
    BY <2>1, <2>2, <2>4 DEF Expire, TypeOK, ReqRecords
  <2>5. ASSUME NEW r \in Requests, Start(r)  PROVE BareIInv'
    BY <2>1, <2>2, <2>5 DEF Start, Acquire, Become, Req, TypeOK
  <2>6. CASE UNCHANGED vars
    BY <2>2, <2>6 DEF vars
  <2> QED  BY <2>3, <2>4, <2>5, <2>6, RespondBare, LoadedBare, SavedBare, WakeBare, TimeoutBare DEF Next
<1>. QED
  BY <1>1, <1>2, Invariance, WaitInvariance, PTL DEF Spec

\* A follower that may go on finds cookies: the login it waited for has saved them, and the loop
\* has it go on before it hears of the thread of another login.
WokenCookies ==
    \A r \in Requests :
        req[r].pc = "following" /\ future[req[r].follows] = "resolved" => jar # "none"

\* A step after which nobody may go on who might not before.
NobodyWoken ==
    \A r \in Requests :
        req'[r].pc = "following" /\ future'[req'[r].follows] = "resolved" =>
            req[r].pc = "following" /\ future[req[r].follows] = "resolved"

LEMMA MovesWake ==
    ASSUME TypeOK, FollowsALeader, LeaderUnresolved, NEW r \in Requests, NEW new,
           MovesTo(r, new), req[r].pc # "saving"
    PROVE  NobodyWoken
<1>1. \A s \in Requests : s # r => req'[s] = req[s]
  BY DEF MovesTo, TypeOK
<1>2. req'[r] = new /\ \A s \in Requests : future'[s] = "resolved" => future[s] = "resolved"
  BY DEF MovesTo, TypeOK
<1>3. new.pc = "following" => new.follows \in Requests /\ future[new.follows] # "resolved"
  BY DEF MovesTo, LeaderUnresolved, TypeOK
<1>. QED
  BY <1>1, <1>2, <1>3 DEF NobodyWoken, FollowsALeader

LEMMA WokenInvariance == Spec => []WokenCookies
<1>1. Init => WokenCookies
  BY DEF Init, Req, WokenCookies
<1>2. IInv /\ BareIInv /\ WokenCookies /\ [Next]_vars => WokenCookies'
  <2> SUFFICES ASSUME IInv, BareIInv, WokenCookies, [Next]_vars  PROVE WokenCookies'
    OBVIOUS
  <2>1. TypeOK /\ FollowsALeader /\ LeaderUnresolved /\ SavedCookies
    BY DEF IInv, Logins, BareIInv
  <2>2. ASSUME NobodyWoken, jar' = "none" <=> jar = "none"  PROVE WokenCookies'
    BY <2>2 DEF NobodyWoken, WokenCookies
  <2>3. ASSUME UNCHANGED future,
               \A r \in Requests : req'[r].pc = "following" =>
                   req[r].pc = "following" /\ req'[r].follows = req[r].follows
        PROVE  NobodyWoken
    BY <2>3 DEF NobodyWoken
  <2>4. CASE Send
    <3>1. Head(queue) \in Requests
      BY <2>1, <2>4, HeadTailProperties, EmptySeq DEF Send, TypeOK
    <3> QED  BY <2>1, <2>2, <2>3, <2>4, <3>1 DEF Send, Become, TypeOK, ReqRecords
  <2>5. CASE Expire
    BY <2>1, <2>2, <2>3, <2>5 DEF Expire, TypeOK, ReqRecords
  <2>6. CASE UNCHANGED vars
    BY <2>2, <2>3, <2>6 DEF vars
  <2>7. ASSUME NEW r \in Requests, Start(r) \/ Respond(r) \/ Loaded(r) \/ Wake(r)
        PROVE  NobodyWoken
    <3>1. req[r].pc # "saving"
      BY <2>7 DEF Start, Respond, Answered, SessionError, LoginResponse, RetryResponse, Failed,
         Loaded, Wake
    <3> QED  BY <2>1, <2>7, <3>1, StepMoves, MovesWake
  <2>8. ASSUME NEW r \in Requests, Start(r) \/ Wake(r)  PROVE WokenCookies'
    BY <2>2, <2>7, <2>8 DEF Start, Wake
  <2>9. ASSUME NEW r \in Requests, Respond(r)  PROVE WokenCookies'
    <3>1. jar' = jar \/ jar' = "valid"
      BY <2>9 DEF Respond, Answered, SessionError, LoginResponse, RetryResponse, Failed
    <3>2. CASE jar' = "valid"
      BY <3>2 DEF WokenCookies
    <3> QED  BY <2>2, <2>7, <2>9, <3>1, <3>2
  <2>10. ASSUME NEW r \in Requests, Loaded(r)  PROVE WokenCookies'
    BY <2>7, <2>10 DEF Loaded, Scheduled, NobodyWoken, WokenCookies
  <2>11. ASSUME NEW r \in Requests, Saved(r)  PROVE WokenCookies'
    BY <2>1, <2>11 DEF Saved, SavedCookies, WokenCookies
  <2>12. ASSUME NEW r \in Requests, Timeout(r)  PROVE WokenCookies'
    <3>1. /\ jar' = jar /\ \A s \in Requests : future'[s] = "resolved" => future[s] = "resolved"
          /\ \A s \in Requests : req'[s].pc = "following" => req'[s] = req[s]
      BY <2>1, <2>12 DEF Timeout, Become, Over, Req, TypeOK
    <3>2. NobodyWoken
      BY <2>1, <3>1 DEF NobodyWoken, FollowsALeader
    <3> QED  BY <2>2, <3>1, <3>2
  <2> QED  BY <2>4, <2>5, <2>6, <2>8, <2>9, <2>10, <2>11, <2>12 DEF Next
<1>. QED
  BY <1>1, <1>2, Invariance, BareInvariance, PTL DEF Spec

\* What enters without waiting has cookies; Send takes those of the jar.
THEOREM BareRetryExplainedHolds == Spec => BareRetryExplained
<1>1. IInv /\ BareIInv /\ WokenCookies /\ [Next]_vars =>
        [\A r \in Requests :
            /\ req[r].pc # "sent"
            /\ req'[r].pc = "sent" /\ req'[r].stage = "retry" /\ req'[r].cookie = "none"
            => req[r].pc = "queued" /\ (loginBy # NoRequest \/ LoginBroken)]_vars
  <2> SUFFICES ASSUME IInv, BareIInv, WokenCookies, Next, NEW r \in Requests, req[r].pc # "sent",
                      req'[r].pc = "sent", req'[r].stage = "retry", req'[r].cookie = "none"
               PROVE  req[r].pc = "queued" /\ (loginBy # NoRequest \/ LoginBroken)
    BY DEF vars
  <2>1. TypeOK
    BY DEF IInv
  <2>2. CASE Send
    <3>1. queue \in Seq(Requests) /\ 1 \in DOMAIN queue /\ Head(queue) = queue[1]
      BY <2>1, <2>2, HeadTailProperties, LenProperties, EmptySeq DEF Send, TypeOK
    <3>2. Head(queue) \in Requests /\ req[Head(queue)].pc = "queued"
      BY <3>1, ElementOfSeq, LenProperties DEF IInv, QueueExact
    <3>3. Head(queue) = r
      BY <2>1, <2>2, <3>2 DEF Send, Become, TypeOK
    <3>4. jar = "none" /\ req[r].stage = "retry"
      BY <2>1, <2>2, <3>2, <3>3 DEF Send, Become, TypeOK, ReqRecords
    <3> QED  BY <3>2, <3>3, <3>4 DEF BareIInv, Retried
  <2>3. CASE Expire
    BY <2>1, <2>3 DEF Expire, TypeOK, ReqRecords
  <2>4. ASSUME NEW s \in Requests, Respond(s) \/ Timeout(s)  PROVE FALSE
    <3>1. \E new : req' = [req EXCEPT ![s] = new] /\ new.pc # "sent"
      BY <2>4 DEF Respond, Answered, SessionError, LoginResponse, RetryResponse, Failed,
         Timeout, LoginFails, Relogin, Become, Over, Req
    <3> QED  BY <2>1, <3>1 DEF TypeOK
  <2>5. ASSUME NEW s \in Requests, NEW stage, NEW cookie, Acquire(s, stage, cookie)
        PROVE  stage = "retry" /\ cookie = "none"
    <3>1. \/ req' = [req EXCEPT ![s] = [Req("sent", stage) EXCEPT !.cookie = cookie]]
          \/ req' = [req EXCEPT ![s] = Req("queued", stage)]
      BY <2>5 DEF Acquire, Become
    <3> QED  BY <2>1, <3>1 DEF Req, TypeOK
  <2>6. ASSUME NEW s \in Requests, NEW outcome, outcome # "sent", Become(s, Over(outcome))
        PROVE  FALSE
    BY <2>1, <2>6 DEF Become, Over, Req, TypeOK
  <2>7. ASSUME NEW s \in Requests, Start(s) \/ Loaded(s)  PROVE FALSE
    BY <2>5, <2>6, <2>7 DEF Start, Loaded, LoginFails
  <2>8. ASSUME NEW s \in Requests, Saved(s)  PROVE FALSE
    BY <2>5, <2>6, <2>8 DEF Saved, LoginFails, BareIInv, SavedCookies
  <2>9. ASSUME NEW s \in Requests, Wake(s)  PROVE FALSE
    BY <2>5, <2>6, <2>9 DEF Wake, WokenCookies
  <2> QED  BY <2>2, <2>3, <2>4, <2>7, <2>8, <2>9 DEF Next
<1>. QED
  BY <1>1, Invariance, BareInvariance, WokenInvariance, PTL DEF Spec, BareRetryExplained
=============================================================================
