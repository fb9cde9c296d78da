--------------------------- MODULE IndexerSession ---------------------------
(***************************************************************************)
(* The session with one torrent site                                       *)
(* (modules/indexer_definitions/base_indexer_definition.py):               *)
(* IndexerClient.request sends every HTTP request under a semaphore and    *)
(* looks at the response; when the site answers with its login page,       *)
(* relogin() logs in once for all the requests that met the expired        *)
(* session, and each of them is sent again.                                *)
(*                                                                         *)
(* relogin() shares a bare future: the first request to find none creates  *)
(* it and leads, the others await it.  A future is named by its leader.    *)
(* asyncio cancels the future a cancelled task awaits, so that a follower  *)
(* that runs into its timeout cancels it for everybody.                    *)
(*                                                                         *)
(* A request is one task and made once.  What a task does between two      *)
(* awaits is one action.                                                   *)
(***************************************************************************)
EXTENDS Naturals, Sequences, FiniteSets, SequencesExt

CONSTANTS
    Requests,
    Timed,          \* the requests that asyncio.wait_for gives 12.5 seconds
    NoRequest,
    MaxConcurrent,  \* max_concurrent
    LoginVerdicts,  \* what _detect_authentication_error makes of the login's response
    MaxExpiries     \* bound: how often the site ends the session

ASSUME ConstantsOK ==
    /\ IsFiniteSet(Requests)
    /\ Timed \subseteq Requests
    /\ NoRequest \notin Requests
    /\ MaxConcurrent \in Nat \ {0}
    /\ LoginVerdicts \subseteq {"none", "session", "rejected"}
    /\ MaxExpiries \in Nat

VARIABLES
    permits,    \* Semaphore._value
    queue,      \* Semaphore._waiters
    loginBy,    \* _login_in_progress: the request that leads, NoRequest for None
    future,     \* per leader: the state of its future
    jar,        \* the session cookie of the client
    expiries,
    req         \* per request: where it stands

vars == <<permits, queue, loginBy, future, jar, expiries, req>>

Cookies == {"none", "expired", "valid"}

\* stage: the sending of the request, of the login it leads, or of the retry.
Req(pc, stage) ==
    [pc |-> pc, stage |-> stage, cookie |-> "none", follows |-> NoRequest]

Over(outcome) == Req(outcome, "first")

Outcomes == {"answered", "failed", "cancelled"}

\* The loop starts with the cookies a former run has persisted.
Init ==
    /\ permits = MaxConcurrent
    /\ queue = <<>>
    /\ loginBy = NoRequest
    /\ future = [r \in Requests |-> "none"]
    /\ jar \in Cookies
    /\ expiries = 0
    /\ req = [r \in Requests |-> Req("idle", "first")]

Become(r, new) == req' = [req EXCEPT ![r] = new]

----------------------------------------------------------------------------
(* The semaphore and the HTTP exchange. *)

\* Semaphore.acquire: a permit that nobody waits for is taken without a
\* suspension, and the request goes out with this cookie; else it queues.
Acquire(r, stage, cookie) ==
    \/ /\ permits > 0 /\ queue = <<>>
       /\ Become(r, [Req("sent", stage) EXCEPT !.cookie = cookie])
       /\ permits' = permits - 1
       /\ UNCHANGED queue
    \/ /\ permits = 0 \/ queue # <<>>
       /\ Become(r, Req("queued", stage))
       /\ queue' = Append(queue, r)
       /\ UNCHANGED permits

\* request() is called.
Start(r) ==
    /\ req[r].pc = "idle"
    /\ Acquire(r, "first", jar)
    /\ UNCHANGED <<loginBy, future, jar, expiries>>

\* The first in the queue enters when a permit has come back, and the request
\* goes out with the cookie of this moment.
Send ==
    /\ permits > 0
    /\ queue # <<>>
    /\ LET r == Head(queue) IN
        Become(r, [req[r] EXCEPT !.pc = "sent", !.cookie = jar])
    /\ queue' = Tail(queue)
    /\ permits' = permits - 1
    /\ UNCHANGED <<loginBy, future, jar, expiries>>

\* The site ends the session, for the requests on their way too.
Expire ==
    /\ expiries < MaxExpiries
    /\ expiries' = expiries + 1
    /\ jar' = IF jar = "valid" THEN "expired" ELSE jar
    /\ req' = [r \in Requests |->
            IF req[r].cookie = "valid" THEN [req[r] EXCEPT !.cookie = "expired"] ELSE req[r]]
    /\ UNCHANGED <<permits, queue, loginBy, future>>

----------------------------------------------------------------------------
(* relogin() *)

\* Mutant of Relogin: everybody logs in for itself.
ReloginAlone(r) ==
    /\ loginBy' = r
    /\ future' = [future EXCEPT ![r] = "pending"]
    /\ Become(r, Req("loading", "login"))

\* Somebody logs in: await its future.  Nobody does: create one and read the
\* credentials in a thread.
Relogin(r) ==
    \/ /\ loginBy # NoRequest
       /\ Become(r, [Req("following", req[r].stage) EXCEPT !.follows = loginBy])
       /\ UNCHANGED <<loginBy, future>>
    \/ /\ loginBy = NoRequest
       /\ loginBy' = r
       /\ future' = [future EXCEPT ![r] = "pending"]
       /\ Become(r, Req("loading", "login"))

\* Mutant of LoginFails: the future is forgotten.
LoginFailsSilently(r) ==
    /\ UNCHANGED future
    /\ loginBy' = NoRequest
    /\ Become(r, Over("failed"))

\* login() raises: the followers get the exception, and so does the caller.
LoginFails(r) ==
    /\ future' = IF future[r] = "pending" THEN [future EXCEPT ![r] = "failed"] ELSE future
    /\ loginBy' = NoRequest
    /\ Become(r, Over("failed"))

\* The loop has scheduled a request: a permit is there for the first in the
\* queue, or the future it awaits is done.
Scheduled ==
    \/ permits > 0 /\ queue # <<>>
    \/ \E r \in Requests : req[r].pc = "following" /\ future[req[r].follows] # "pending"

\* The credentials are there: the cookies are cleared and the login is sent,
\* under the semaphore like every request.  Or there are none.  The thread's
\* answer queues up behind what the loop has scheduled before it; where it
\* came first, the two orders give the same state.
Loaded(r) ==
    /\ req[r].pc = "loading"
    /\ ~Scheduled
    /\ \/ /\ jar' = "none"
          /\ Acquire(r, "login", "none")
          /\ UNCHANGED <<loginBy, future>>
       \/ /\ LoginFails(r)
          /\ UNCHANGED <<permits, jar, queue>>
    /\ UNCHANGED expiries

\* The cookies are saved, or the failure to save them is logged.  Resolving a
\* future that a follower has cancelled raises, and the leader's own request
\* fails with it.
Saved(r) ==
    /\ req[r].pc = "saving"
    /\ \/ /\ future[r] = "pending"
          /\ future' = [future EXCEPT ![r] = "resolved"]
          /\ loginBy' = NoRequest
          /\ Acquire(r, "retry", jar)
       \/ /\ future[r] # "pending"
          /\ LoginFails(r)
          /\ UNCHANGED <<permits, queue>>
    /\ UNCHANGED <<jar, expiries>>

\* A follower goes on when the future is done.
Wake(r) ==
    /\ req[r].pc = "following"
    /\ \/ /\ future[req[r].follows] = "resolved"
          /\ Acquire(r, "retry", jar)
       \/ /\ future[req[r].follows] = "failed"
          /\ Become(r, Over("failed"))
          /\ UNCHANGED <<permits, queue>>
       \* CancelledError, though nobody has cancelled this task.  A leader that
       \* follows itself leaves relogin() on its way out.
       \/ /\ future[req[r].follows] = "cancelled"
          /\ Become(r, Over("cancelled"))
          /\ UNCHANGED <<permits, queue>>
    /\ loginBy' = IF loginBy = r THEN NoRequest ELSE loginBy
    /\ UNCHANGED <<future, jar, expiries>>

----------------------------------------------------------------------------
(* The response arrives; the permit is returned before it is looked at. *)

\* The session cookie was good: the answer.
Answered(r) ==
    /\ req[r].pc = "sent" /\ req[r].stage = "first"
    /\ req[r].cookie = "valid"
    /\ Become(r, Over("answered"))
    /\ permits' = permits + 1
    /\ UNCHANGED <<queue, loginBy, future, jar, expiries>>

\* Mutant of SessionError: relogin() is awaited inside the semaphore.
SessionErrorInside(r) ==
    /\ req[r].pc = "sent" /\ req[r].stage = "first"
    /\ req[r].cookie # "valid"
    /\ Relogin(r)
    /\ UNCHANGED <<permits, queue, jar, expiries>>

\* The response is the login page.
SessionError(r) ==
    /\ req[r].pc = "sent" /\ req[r].stage = "first"
    /\ req[r].cookie # "valid"
    /\ Relogin(r)
    /\ permits' = permits + 1
    /\ UNCHANGED <<queue, jar, expiries>>

\* The response to the login itself.  A login whose response counts as a
\* session error calls relogin() again, and awaits its own future.
LoginResponse(r) ==
    /\ req[r].pc = "sent" /\ req[r].stage = "login"
    /\ \/ /\ "none" \in LoginVerdicts
          /\ jar' = "valid"
          /\ Become(r, Req("saving", "login"))
          /\ UNCHANGED <<loginBy, future>>
       \/ /\ "rejected" \in LoginVerdicts
          /\ LoginFails(r)
          /\ UNCHANGED jar
       \/ /\ "session" \in LoginVerdicts
          /\ Relogin(r)
          /\ UNCHANGED jar
    /\ permits' = permits + 1
    /\ UNCHANGED <<queue, expiries>>

\* The response to the retry is the answer, whatever it is.
RetryResponse(r) ==
    /\ req[r].pc = "sent" /\ req[r].stage = "retry"
    /\ Become(r, Over("answered"))
    /\ permits' = permits + 1
    /\ UNCHANGED <<queue, loginBy, future, jar, expiries>>

\* The exchange fails (the network, the client's 20 seconds).
Failed(r) ==
    /\ req[r].pc = "sent"
    /\ \/ /\ req[r].stage = "login"
          /\ LoginFails(r)
       \/ /\ req[r].stage # "login"
          /\ Become(r, Over("failed"))
          /\ UNCHANGED <<loginBy, future>>
    /\ permits' = permits + 1
    /\ UNCHANGED <<queue, jar, expiries>>

Respond(r) ==
    \/ Answered(r)
    \/ SessionError(r)
    \/ LoginResponse(r)
    \/ RetryResponse(r)
    \/ Failed(r)

----------------------------------------------------------------------------
LeaveQueue(r) ==
    IF req[r].pc = "queued"
    THEN \E i \in DOMAIN queue : queue[i] = r /\ queue' = RemoveAt(queue, i)
    ELSE UNCHANGED queue

\* Mutant of Timeout: a permit is returned whether or not one was held.
TimeoutReturnsPermit(r) ==
    /\ r \in Timed
    /\ req[r].pc \in {"queued", "sent", "loading", "saving", "following"}
    /\ LeaveQueue(r)
    /\ permits' = permits + 1
    /\ future' =
            IF req[r].pc = "following" /\ future[req[r].follows] = "pending"
            THEN [future EXCEPT ![req[r].follows] = "cancelled"] ELSE future
    /\ loginBy' = IF loginBy = r THEN NoRequest ELSE loginBy
    /\ Become(r, Over("cancelled"))
    /\ UNCHANGED <<jar, expiries>>

\* wait_for cancels the task: it leaves the queue or returns its permit, and
\* the future it awaits is cancelled.  A leader leaves relogin() without
\* touching its own: CancelledError is not an Exception.
Timeout(r) ==
    /\ r \in Timed
    /\ req[r].pc \in {"queued", "sent", "loading", "saving", "following"}
    /\ LeaveQueue(r)
    /\ permits' = IF req[r].pc = "sent" THEN permits + 1 ELSE permits
    /\ future' =
            IF req[r].pc = "following" /\ future[req[r].follows] = "pending"
            THEN [future EXCEPT ![req[r].follows] = "cancelled"] ELSE future
    /\ loginBy' = IF loginBy = r THEN NoRequest ELSE loginBy
    /\ Become(r, Over("cancelled"))
    /\ UNCHANGED <<jar, expiries>>

Next ==
    \/ Send
    \/ Expire
    \/ \E r \in Requests :
        \/ Start(r)
        \/ Respond(r)
        \/ Loaded(r)
        \/ Saved(r)
        \/ Wake(r)
        \/ Timeout(r)

\* The loop runs what is ready, every exchange and every thread ends, and so
\* does the time of a timed request.  Nobody has to start a request.
Fairness ==
    /\ WF_vars(Send)
    /\ \A r \in Requests :
        WF_vars(Respond(r)) /\ WF_vars(Loaded(r)) /\ WF_vars(Saved(r)) /\ WF_vars(Wake(r))
    /\ \A r \in Timed : WF_vars(Timeout(r))

Spec == Init /\ [][Next]_vars

FairSpec == Spec /\ Fairness

----------------------------------------------------------------------------
ReqRecords ==
    [pc : {"idle", "queued", "sent", "loading", "saving", "following"} \union Outcomes,
     stage : {"first", "login", "retry"},
     cookie : Cookies,
     follows : Requests \union {NoRequest}]

TypeOK ==
    /\ permits \in 0 .. MaxConcurrent
    /\ queue \in Seq(Requests)
    /\ loginBy \in Requests \union {NoRequest}
    /\ future \in [Requests -> {"none", "pending", "resolved", "failed", "cancelled"}]
    /\ jar \in Cookies
    /\ expiries \in Nat
    /\ req \in [Requests -> ReqRecords]

\* The semaphore always has exactly the permits its senders do not hold:
\* none is lost when a login is awaited, fails or is cancelled, and nobody
\* holds one while it waits for somebody else's login, which needs one itself.
PermitsConserved ==
    permits + Cardinality({r \in Requests : req[r].pc = "sent"}) = MaxConcurrent

\* At most one request logs in at any time.
SingleLogin ==
    \A r \in Requests : req[r].stage = "login" => loginBy = r

\* A login that is over has settled its future, so that its followers go on:
\* only a leader that was cancelled leaves one behind.
FutureSettled ==
    \A r \in Requests :
        future[r] = "pending" /\ loginBy # r => req[r].pc = "cancelled"

\* A follower of a login that nobody will end: its leader was cancelled, or
\* awaits itself.
Stranded(r) ==
    /\ req[r].pc = "following"
    /\ LET leader == req[r].follows IN
        future[leader] = "pending" /\ (loginBy # leader \/ req[leader].pc = "following")

\* The next step of a request waits for no other request.
GoesOn(r) ==
    \/ req[r].pc \in {"sent", "loading", "saving"}
    \/ req[r].pc = "queued" /\ permits > 0
    \/ req[r].pc = "following" /\ future[req[r].follows] \in {"resolved", "failed", "cancelled"}

\* As long as a request is under way that is not stranded, some request goes on: requests that
\* queue for a permit, the login they wait for, which needs a permit itself, and the senders that
\* hold the permits never all wait for each other.
NoDeadlock ==
    (\E r \in Requests : req[r].pc \notin Outcomes \union {"idle"} /\ ~Stranded(r)) =>
        \E r \in Requests : GoesOn(r)

\* Every request ends, unless it is stranded: queued requests and the login
\* they wait for never wait for each other.
RequestEnds ==
    \A r \in Requests :
        req[r].pc \notin Outcomes \union {"idle"}
            ~> (req[r].pc \in Outcomes \/ Stranded(r))

\* The docstring of relogin(): one login runs, and the other requests wait
\* for it.  So a request that follows stops following.
FollowerReleased ==
    \A r \in Requests : req[r].pc = "following" ~> req[r].pc # "following"

\* The docstring of _detect_authentication_error: a session error is a request
\* that was redirected to the login page and was not made to it.  So a login
\* does not wait for a login.
LoginNeverFollows ==
    \A r \in Requests : req[r].pc = "following" => req[r].stage # "login"

\* The comment in request(): the retry carries the new cookies.
RetryCarriesCookies ==
    \A r \in Requests :
        req[r].pc = "sent" /\ req[r].stage = "retry" => req[r].cookie # "none"
=============================================================================
