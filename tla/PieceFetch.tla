----------------------------- MODULE PieceFetch -----------------------------
(***************************************************************************)
(* How the relay hands verified pieces of a torrent to its streams         *)
(* (modules/relay/service.py: get_piece_data, _fetch_piece_with_retry,     *)
(* _fetch_piece_once and process_alerts).                                  *)
(*                                                                         *)
(* Two worlds meet here.  libtorrent verifies pieces, reads them from disk *)
(* and posts alerts on threads of its own; the event loop runs the streams *)
(* and the fetch tasks they share, and drains the alerts.  What the loop   *)
(* runs between two awaits is one action; libtorrent's steps come between  *)
(* any two of them.                                                        *)
(*                                                                         *)
(* One torrent is modelled.  It can be deleted and added again: a handle   *)
(* is the number of the addition it belongs to and is valid only while     *)
(* that addition lasts.                                                    *)
(***************************************************************************)
EXTENDS Naturals, Sequences, FiniteSets

CONSTANTS
    Readers,    \* streams
    Pieces,     \* piece indices; with one torrent, the request keys
    Tasks,      \* identities of asyncio fetch tasks
    NoTask, NoPiece,
    MaxAdds     \* bound: how often the torrent is added

ASSUME ConstantsOK ==
    /\ NoTask \notin Tasks
    /\ NoPiece \notin Pieces
    /\ MaxAdds \in Nat \ {0}

VARIABLES
    \* libtorrent
    handle,     \* the valid handle, 0 when the torrent is not in the session
    adds,       \* how often the torrent has been added
    have,       \* the pieces that are verified and on disk
    reads,      \* per piece: disk reads asked for and not finished
    alerts,     \* per piece: the posted alerts, oldest first
    \* the service
    fetchTask,  \* RelayService._piece_fetch_tasks
    pending,    \* RelayService._pending_piece_reads; a future is named by its task
    task,       \* per task: where it stands
    reader      \* per stream: where it stands

vars == <<handle, adds, have, reads, alerts, fetchTask, pending, task, reader>>

torrentVars == <<handle, adds, have>>

\* What a disk read or a fetch ends with: the bytes, FileNotFoundError, or
\* any other error.
Results == {"data", "missing", "failed"}

LastAttempt == 3    \* for attempt in range(4)

Task(pc, p, h, attempt, result) ==
    [pc |-> pc, piece |-> p, handle |-> h, attempt |-> attempt, result |-> result]

NewTask(p, h) == Task("ready", p, h, 0, "none")
Over(result) == Task("done", NoPiece, 0, 0, result)

Reader(pc, h, t) == [pc |-> pc, handle |-> h, task |-> t]

Closed == Reader("closed", 0, NoTask)

Init ==
    /\ handle = 1 /\ adds = 1
    /\ have = {}
    /\ reads = [p \in Pieces |-> 0]
    /\ alerts = [p \in Pieces |-> <<>>]
    /\ fetchTask = [p \in Pieces |-> NoTask]
    /\ pending = [p \in Pieces |-> NoTask]
    /\ task = [t \in Tasks |-> Over("none")]
    /\ reader = [r \in Readers |-> Closed]

----------------------------------------------------------------------------
(* The streams. *)

Live(t) == t # NoTask /\ task[t].pc # "done"

\* Task identities nothing refers to.
Unused ==
    {t \in Tasks :
        /\ ~Live(t)
        /\ \A p \in Pieces : fetchTask[p] # t /\ pending[p] # t
        /\ \A r \in Readers : reader[r].task # t}

\* A request for a byte range makes a stream that keeps the torrent's handle.
Open(r) ==
    /\ reader[r].pc = "closed"
    /\ handle # 0
    /\ reader' = [reader EXCEPT ![r] = Reader("open", handle, NoTask)]
    /\ UNCHANGED <<torrentVars, reads, alerts, fetchTask, pending, task>>

\* get_piece_data up to its await: share the task that fetches the piece, or
\* create it.
Wait(r, t) == reader' = [reader EXCEPT ![r] = Reader("waiting", @.handle, t)]

GetPieceShared(r, p) ==
    /\ Live(fetchTask[p])
    /\ Wait(r, fetchTask[p])
    /\ UNCHANGED <<fetchTask, task>>

GetPieceNew(r, p) ==
    /\ ~Live(fetchTask[p])
    /\ Unused # {}
    /\ LET t == CHOOSE u \in Unused : TRUE IN
        /\ task' = [task EXCEPT ![t] = NewTask(p, reader[r].handle)]
        /\ fetchTask' = [fetchTask EXCEPT ![p] = t]
        /\ Wait(r, t)

\* Mutant of GetPiece: every stream fetches for itself.
GetPieceAlone(r, p) ==
    /\ reader[r].pc = "open"
    /\ reader[r].handle = handle
    /\ Unused # {}
    /\ LET t == CHOOSE u \in Unused : TRUE IN
        /\ task' = [task EXCEPT ![t] = NewTask(p, reader[r].handle)]
        /\ fetchTask' = [fetchTask EXCEPT ![p] = t]
        /\ Wait(r, t)
    /\ UNCHANGED <<torrentVars, reads, alerts, pending>>

GetPiece(r, p) ==
    /\ reader[r].pc = "open"
    /\ reader[r].handle = handle
    /\ GetPieceShared(r, p) \/ GetPieceNew(r, p)
    /\ UNCHANGED <<torrentVars, reads, alerts, pending>>

\* On a handle that is no longer valid the info hash is empty and the check
\* for the piece raises: the stream ends with the error.
GetPieceStale(r) ==
    /\ reader[r].pc = "open"
    /\ reader[r].handle # handle
    /\ reader' = [reader EXCEPT ![r] = Closed]
    /\ UNCHANGED <<torrentVars, reads, alerts, fetchTask, pending, task>>

\* The await returns: the stream goes on with the bytes, an exception ends it.
Collect(r) ==
    /\ reader[r].pc = "waiting"
    /\ ~Live(reader[r].task)
    /\ reader' = [reader EXCEPT ![r] =
            IF task[@.task].result = "data" THEN Reader("open", @.handle, NoTask)
            ELSE Closed]
    /\ UNCHANGED <<torrentVars, reads, alerts, fetchTask, pending, task>>

\* Mutant of Disconnect: without asyncio.shield the cancellation of the stream
\* cancels the task it awaits.
DisconnectUnshielded(r) ==
    /\ reader[r].pc # "closed"
    /\ reader' = [reader EXCEPT ![r] = Closed]
    /\ LET t == reader[r].task IN
        IF t # NoTask /\ Live(t)
        THEN /\ task' = [task EXCEPT ![t] = Over("failed")]
             /\ fetchTask' = [fetchTask EXCEPT ![task[t].piece] = NoTask]
             /\ pending' = [p \in Pieces |-> IF pending[p] = t THEN NoTask ELSE pending[p]]
        ELSE UNCHANGED <<fetchTask, pending, task>>
    /\ UNCHANGED <<torrentVars, reads, alerts>>

\* The client goes away or has enough.  asyncio.shield keeps the cancellation
\* of the stream away from the task.
Disconnect(r) ==
    /\ reader[r].pc # "closed"
    /\ reader' = [reader EXCEPT ![r] = Closed]
    /\ UNCHANGED <<torrentVars, reads, alerts, fetchTask, pending, task>>

----------------------------------------------------------------------------
(* The fetch tasks. *)

\* Mutant of Finish: the finished task stays in the dictionary.
FinishKept(t, result) ==
    /\ task' = [task EXCEPT ![t] = Over(result)]
    /\ UNCHANGED fetchTask

\* _fetch_piece_with_retry returns or raises, and removes itself.
Finish(t, result) ==
    /\ task' = [task EXCEPT ![t] = Over(result)]
    /\ fetchTask' = IF fetchTask[task[t].piece] = t
                    THEN [fetchTask EXCEPT ![task[t].piece] = NoTask]
                    ELSE fetchTask

\* Mutant of Attempt: a piece that is there already is not asked for.
AttemptWithoutRead(t) ==
    /\ task[t].pc \in {"ready", "sleeping"}
    /\ task' = [task EXCEPT ![t].pc = "awaiting", ![t].result = "none"]
    /\ pending' = [pending EXCEPT ![task[t].piece] = t]
    /\ UNCHANGED <<torrentVars, reads, alerts, fetchTask, reader>>

\* _fetch_piece_once up to its await: register the future, then look for the
\* piece; what is not there yet is read when its alert comes.  The check
\* raises on an invalid handle, before the try block that would remove the
\* future.
Attempt(t) ==
    /\ task[t].pc \in {"ready", "sleeping"}
    /\ pending' = [pending EXCEPT ![task[t].piece] = t]
    /\ \/ /\ task[t].handle = handle
          /\ task' = [task EXCEPT ![t].pc = "awaiting", ![t].result = "none"]
          /\ reads' = IF task[t].piece \in have
                      THEN [reads EXCEPT ![task[t].piece] = @ + 1] ELSE reads
          /\ UNCHANGED fetchTask
       \/ /\ task[t].handle # handle
          /\ Finish(t, "failed")
          /\ UNCHANGED reads
    /\ UNCHANGED <<torrentVars, alerts, reader>>

\* The future is resolved: a missing file is tried again after a pause, all
\* else ends the task.
Resume(t) ==
    /\ task[t].pc = "awaiting"
    /\ task[t].result # "none"
    /\ pending' = IF pending[task[t].piece] = t
                  THEN [pending EXCEPT ![task[t].piece] = NoTask] ELSE pending
    /\ \/ /\ task[t].result = "missing" /\ task[t].attempt < LastAttempt
          /\ task' = [task EXCEPT ![t].pc = "sleeping", ![t].attempt = @ + 1]
          /\ UNCHANGED fetchTask
       \/ /\ task[t].result # "missing" \/ task[t].attempt = LastAttempt
          /\ Finish(t, task[t].result)
    /\ UNCHANGED <<torrentVars, reads, alerts, reader>>

----------------------------------------------------------------------------
(* process_alerts takes every posted alert and handles them in order.  An    *)
(* alert touches only its own piece, so that it is described piece by piece. *)

\* The first result of a read among the alerts of a piece resolves its
\* future; later results find no future and are dropped.
HasResult(s) == \E i \in DOMAIN s : s[i] # "finished"

FirstResult(s) ==
    s[CHOOSE i \in DOMAIN s : s[i] # "finished" /\ \A j \in 1 .. i - 1 : s[j] = "finished"]

Resolved(p) == pending[p] # NoTask /\ HasResult(alerts[p])

\* Mutant of Reread: the alert of a finished piece is used for the priorities only.
NeverReread(p) == FALSE

\* A piece that finishes while its future is registered is read.  A piece
\* finishes once, before all its reads, so that its alert comes first.
Reread(p) == pending[p] # NoTask /\ alerts[p] # <<>> /\ Head(alerts[p]) = "finished"

ProcessAlerts ==
    /\ \E p \in Pieces : alerts[p] # <<>>
    /\ alerts' = [p \in Pieces |-> <<>>]
    /\ reads' = [p \in Pieces |-> IF Reread(p) THEN reads[p] + 1 ELSE reads[p]]
    /\ pending' = [p \in Pieces |-> IF Resolved(p) THEN NoTask ELSE pending[p]]
    /\ task' = [t \in Tasks |->
            IF task[t].pc = "awaiting" /\ task[t].result = "none"
                /\ Resolved(task[t].piece) /\ pending[task[t].piece] = t
            THEN [task[t] EXCEPT !.result = FirstResult(alerts[task[t].piece])]
            ELSE task[t]]
    /\ UNCHANGED <<torrentVars, fetchTask, reader>>

----------------------------------------------------------------------------
(* libtorrent *)

\* A piece passes its hash check.
PieceFinished(p) ==
    /\ handle # 0
    /\ p \notin have
    /\ have' = have \union {p}
    /\ alerts' = [alerts EXCEPT ![p] = Append(@, "finished")]
    /\ UNCHANGED <<handle, adds, reads, fetchTask, pending, task, reader>>

\* A disk read ends, with the bytes or an error.
ReadDone(p, result) ==
    /\ reads[p] > 0
    /\ reads' = [reads EXCEPT ![p] = @ - 1]
    /\ alerts' = [alerts EXCEPT ![p] = Append(@, result)]
    /\ UNCHANGED <<torrentVars, fetchTask, pending, task, reader>>

\* The torrent is deleted.  What its old handle still posts carries no info
\* hash and is dropped.
RemoveTorrent ==
    /\ handle # 0
    /\ handle' = 0
    /\ have' = {}
    /\ reads' = [p \in Pieces |-> 0]
    /\ alerts' = [p \in Pieces |-> <<>>]
    /\ UNCHANGED <<adds, fetchTask, pending, task, reader>>

AddTorrent ==
    /\ handle = 0
    /\ adds < MaxAdds
    /\ adds' = adds + 1
    /\ handle' = adds + 1
    /\ UNCHANGED <<have, reads, alerts, fetchTask, pending, task, reader>>

----------------------------------------------------------------------------
Next ==
    \/ \E r \in Readers :
        \/ Open(r)
        \/ \E p \in Pieces : GetPiece(r, p)
        \/ GetPieceStale(r)
        \/ Collect(r)
        \/ Disconnect(r)
    \/ \E t \in Tasks : Attempt(t) \/ Resume(t)
    \/ ProcessAlerts
    \/ \E p \in Pieces :
        \/ PieceFinished(p)
        \/ \E result \in Results : ReadDone(p, result)
    \/ RemoveTorrent
    \/ AddTorrent

\* The loop runs what is ready and drains the alerts it is notified of, a
\* pause ends, and libtorrent finishes the reads it has taken.  Nothing
\* obliges a piece to arrive, a client to stay or a torrent to remain.
Fairness ==
    /\ \A t \in Tasks : WF_vars(Attempt(t)) /\ WF_vars(Resume(t))
    /\ \A r \in Readers : WF_vars(Collect(r))
    /\ WF_vars(ProcessAlerts)
    /\ \A p \in Pieces : WF_vars(\E result \in Results : ReadDone(p, result))

Spec == Init /\ [][Next]_vars

FairSpec == Spec /\ Fairness

----------------------------------------------------------------------------
TaskRecords ==
    [pc : {"ready", "awaiting", "sleeping", "done"}, piece : Pieces \union {NoPiece},
     handle : Nat, attempt : 0 .. LastAttempt, result : Results \union {"none"}]

ReaderRecords ==
    [pc : {"closed", "open", "waiting"}, handle : Nat, task : Tasks \union {NoTask}]

TypeOK ==
    /\ handle \in Nat /\ adds \in Nat
    /\ have \subseteq Pieces
    /\ reads \in [Pieces -> Nat]
    /\ alerts \in [Pieces -> Seq(Results \union {"finished"})]
    /\ fetchTask \in [Pieces -> Tasks \union {NoTask}]
    /\ pending \in [Pieces -> Tasks \union {NoTask}]
    /\ task \in [Tasks -> TaskRecords]
    /\ reader \in [Readers -> ReaderRecords]

\* At most one task fetches a piece at any time, across retries and across a
\* deletion and re-addition of the torrent, and the dictionary of tasks names
\* exactly the ones that run: it does not grow with the pieces ever streamed.
OneFetchPerPiece ==
    /\ \A t, u \in Tasks :
        Live(t) /\ Live(u) /\ task[t].piece = task[u].piece => t = u
    /\ \A p \in Pieces :
        fetchTask[p] # NoTask => Live(fetchTask[p]) /\ task[fetchTask[p]].piece = p

\* A task that waits for a piece that is there is never forgotten: its future
\* is registered, and a read or an alert that will resolve it is on its way,
\* however the arrival of the piece falls between the registration, the
\* check and the draining of the alerts.
NoLostWakeup ==
    \A t \in Tasks :
        task[t].pc = "awaiting" /\ task[t].result = "none" =>
            LET p == task[t].piece IN
            /\ pending[p] = t
            /\ p \in have => reads[p] > 0 \/ alerts[p] # <<>>

\* One piece costs at most two disk reads at a time: the one asked for when a
\* task finds the piece there and the one asked for by its alert.
ReadsBounded ==
    \A p \in Pieces :
        reads[p] + Cardinality({i \in DOMAIN alerts[p] : alerts[p][i] # "finished"}) <= 2

\* A stream that waits for a piece that is there gets an answer, unless the
\* torrent is deleted.
ReaderAnswered ==
    \A r \in Readers, p \in Pieces :
        (/\ reader[r].pc = "waiting" /\ Live(reader[r].task)
         /\ task[reader[r].task].piece = p /\ p \in have)
        ~> (reader[r].pc # "waiting" \/ handle = 0)

\* The tasks implement a single flight per piece.
WaitsFor == [r \in Readers |->
    IF reader[r].pc = "waiting" /\ Live(reader[r].task)
    THEN task[reader[r].task].piece ELSE NoPiece]

Answer == [r \in Readers |->
    IF reader[r].pc = "waiting" /\ ~Live(reader[r].task)
    THEN task[reader[r].task].result ELSE "none"]

Flights == {p \in Pieces : \E t \in Tasks : Live(t) /\ task[t].piece = p}

Abstract == INSTANCE SingleFlight WITH
    Clients <- Readers, Keys <- Pieces, Outcomes <- Results,
    NoKey <- NoPiece, NoOutcome <- "none",
    flights <- Flights, waitsFor <- WaitsFor, answer <- Answer

ImplementsSingleFlight == Abstract!Spec
=============================================================================
