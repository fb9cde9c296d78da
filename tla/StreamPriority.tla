--------------------------- MODULE StreamPriority ---------------------------
(***************************************************************************)
(* How the relay tells libtorrent what to download while a torrent is      *)
(* watched (modules/relay/entities.py, and the queue and the loop of       *)
(* modules/relay/service.py).                                              *)
(*                                                                         *)
(* Streams register with their file, move from piece to piece and          *)
(* unregister, on the event loop.  At every change they ask for a run of   *)
(* the priority manager.  A run reads the streams and writes priorities,   *)
(* connection limit and deadlines in a worker thread, step by step, while  *)
(* the streams go on; only one run is under way at a time.                 *)
(*                                                                         *)
(* One torrent with one file is modelled.  What libtorrent was told last   *)
(* and what the Torrent object remembers of it are the same except for the *)
(* connection limit, which the settings change behind its back.            *)
(***************************************************************************)
EXTENDS Integers, FiniteSets, FiniteSetsExt

CONSTANTS
    Streams,
    LastPiece,              \* the file has the pieces 0 .. LastPiece
    Prefetch,               \* Torrent.prefetch_piece_count
    StreamingConnections,   \* 50
    InitLimit, InitDefault, \* the settings when the torrent is added
    Limits,                 \* values the torrent connections limit is changed to
    Defaults,               \* values the default piece priority is changed to
    MaxChanges              \* bound: how often an administrator changes them

ASSUME ConstantsOK ==
    /\ IsFiniteSet(Streams)
    /\ LastPiece \in Nat
    /\ Prefetch \in Nat \ {0}
    /\ StreamingConnections \in Nat
    /\ InitLimit \in Nat /\ Limits \subseteq Nat
    /\ InitDefault \in Nat /\ Defaults \subseteq Nat
    /\ MaxChanges \in Nat

Pieces == 0 .. LastPiece

PRIO_0 == 0

NoDeadline == -1

VARIABLES
    stream,         \* per stream: where it stands, and current_stream_piece
    have,           \* the pieces that are verified
    alerted,        \* piece_finished alerts are posted and not yet handled
    queued,         \* the torrent is in priority_update_queue
    manager,        \* the run of priority_manager: its next step, what it has read
    priority,       \* the priority of the torrent's pieces
    default,        \* Torrent._default_piece_priority
    limit,          \* RelayService._torrent_connections_limit
    maxConnections, \* the limit libtorrent applies to the torrent
    cachedMax,      \* Torrent._max_connections
    deadlines,      \* Torrent._active_deadlines
    changes

vars == <<stream, have, alerted, queued, manager, priority, default, limit,
          maxConnections, cachedMax, deadlines, changes>>

told == <<priority, maxConnections, cachedMax, deadlines>>
settings == <<default, limit, changes>>

Stream(pc, p) == [pc |-> pc, piece |-> p]

\* pc: the next step of the run; read: the connection limit or the deadlines
\* it has computed.
NoTarget == [p \in Pieces |-> NoDeadline]
Manager(pc, connections, target) == [pc |-> pc, connections |-> connections, target |-> target]
At(pc) == Manager(pc, 0, NoTarget)

Init ==
    /\ stream = [s \in Streams |-> Stream("none", 0)]
    /\ have \in SUBSET Pieces
    /\ alerted = FALSE
    /\ queued = FALSE
    /\ manager = At("idle")
    /\ default = InitDefault /\ limit = InitLimit
    /\ priority = default
    /\ maxConnections = limit /\ cachedMax = limit
    /\ deadlines = NoTarget
    /\ changes = 0

Registered == {s \in Streams : stream[s].pc # "none"}

\* has_active_streams
Active == Registered # {}

----------------------------------------------------------------------------
(* The streams. *)

\* A stream object is made: it registers itself and asks for nothing.
Create(s, p) ==
    /\ stream[s].pc = "none"
    /\ stream' = [stream EXCEPT ![s] = Stream("created", p)]
    /\ UNCHANGED <<have, alerted, queued, manager, told, settings>>

\* The client goes away before the response body is read: the generator
\* never runs, and so does not its finally block.
Abandon(s) ==
    /\ stream[s].pc = "created"
    /\ stream' = [stream EXCEPT ![s].pc = "leaked"]
    /\ UNCHANGED <<have, alerted, queued, manager, told, settings>>

\* The generator runs and comes to its first piece.
Begin(s) ==
    /\ stream[s].pc = "created"
    /\ stream' = [stream EXCEPT ![s].pc = "running"]
    /\ queued' = TRUE
    /\ UNCHANGED <<have, alerted, manager, told, settings>>

\* Mutant of Advance: the move to the next piece is not announced.
AdvanceSilently(s) ==
    /\ stream[s].pc = "running"
    /\ stream[s].piece \in have
    /\ stream[s].piece < LastPiece
    /\ stream' = [stream EXCEPT ![s].piece = @ + 1]
    /\ UNCHANGED <<have, alerted, queued, manager, told, settings>>

\* A piece has been sent: on to the next.
Advance(s) ==
    /\ stream[s].pc = "running"
    /\ stream[s].piece \in have
    /\ stream[s].piece < LastPiece
    /\ stream' = [stream EXCEPT ![s].piece = @ + 1]
    /\ queued' = TRUE
    /\ UNCHANGED <<have, alerted, manager, told, settings>>

\* The range is sent, the client has gone or a piece has failed: the finally
\* block starts destroy() as a task.
End(s) ==
    /\ stream[s].pc = "running"
    /\ stream' = [stream EXCEPT ![s].pc = "ending"]
    /\ UNCHANGED <<have, alerted, queued, manager, told, settings>>

\* destroy() up to its pause of 0.25 seconds.
BeginDestroy(s) ==
    /\ stream[s].pc = "ending"
    /\ stream' = [stream EXCEPT ![s].pc = "destroying"]
    /\ queued' = TRUE
    /\ UNCHANGED <<have, alerted, manager, told, settings>>

\* Mutant of EndDestroy: the run that was asked for before is enough.
EndDestroySilently(s) ==
    /\ stream[s].pc = "destroying"
    /\ stream' = [stream EXCEPT ![s] = Stream("none", 0)]
    /\ UNCHANGED <<have, alerted, queued, manager, told, settings>>

\* destroy() after it: the stream unregisters.
EndDestroy(s) ==
    /\ stream[s].pc = "destroying"
    /\ stream' = [stream EXCEPT ![s] = Stream("none", 0)]
    /\ queued' = TRUE
    /\ UNCHANGED <<have, alerted, manager, told, settings>>

----------------------------------------------------------------------------
(* libtorrent and the administrator. *)

PieceFinished(p) ==
    /\ p \notin have
    /\ have' = have \union {p}
    /\ alerted' = TRUE
    /\ UNCHANGED <<stream, queued, manager, told, settings>>

\* process_alerts, as far as the priorities are concerned.
ProcessAlerts ==
    /\ alerted
    /\ alerted' = FALSE
    /\ queued' = TRUE
    /\ UNCHANGED <<stream, have, manager, told, settings>>

\* update_default_priority
UpdateDefaultPriority(p) ==
    /\ changes < MaxChanges
    /\ changes' = changes + 1
    /\ default' = p
    /\ queued' = TRUE
    /\ UNCHANGED <<stream, have, alerted, manager, told, limit>>

\* update_settings with a new limit: every torrent of the session gets it,
\* watched or not, and no Torrent object is told.
UpdateSettings(l) ==
    /\ changes < MaxChanges
    /\ changes' = changes + 1
    /\ limit' = l
    /\ maxConnections' = l
    /\ UNCHANGED <<stream, have, alerted, queued, manager, priority, cachedMax,
                   deadlines, default>>

----------------------------------------------------------------------------
(* get_deadlines *)

Missing == Pieces \ have

\* How far a piece is from the piece of a stream: the file is wrapped around.
Distance(s, p) ==
    LET current == stream[s].piece IN
    IF p >= current THEN p - current ELSE (LastPiece - current + 1) + p

\* The first missing pieces from the stream's own.
Wanted(s) ==
    {p \in Missing :
        Cardinality({q \in Missing : Distance(s, q) < Distance(s, p)}) < Prefetch}

Boundary == {0, LastPiece} \intersect Missing

\* Mutant of Deadline: no piece is urgent.
DeadlineNeverUrgent(s, p) == 2000 + Distance(s, p) * 1000

\* The current piece is due at once, the others later the further they are.
Deadline(s, p) == IF p = stream[s].piece THEN 0 ELSE 2000 + Distance(s, p) * 1000

\* A stream that is being destroyed asks for nothing, but still counts as active.
Asking == {s \in Registered : stream[s].pc # "destroying"}

AskedFor(p) ==
    (IF Active /\ p \in Boundary THEN {0} ELSE {})
    \union {Deadline(s, p) : s \in {t \in Asking : p \in Wanted(t)}}

\* The least of what the streams and the boundary ask for.
GetDeadlines ==
    [p \in Pieces |-> IF AskedFor(p) = {} THEN NoDeadline ELSE Min(AskedFor(p))]

----------------------------------------------------------------------------
(* priority_manager: a run starts when the queue is drained, and takes its   *)
(* steps in a thread.                                                       *)

StartRun ==
    /\ manager.pc = "idle"
    /\ queued
    /\ queued' = FALSE
    /\ manager' = At("priority")
    /\ UNCHANGED <<stream, have, alerted, told, settings>>

\* Watched, and not at priority 0?  Between the look at the streams and the
\* call of libtorrent the streams go on.
CheckPriority ==
    /\ manager.pc = "priority"
    /\ manager' = At(IF Active /\ priority # PRIO_0 THEN "raise" ELSE "limit")
    /\ UNCHANGED <<stream, have, alerted, queued, told, settings>>

Raise ==
    /\ manager.pc = "raise"
    /\ priority' = PRIO_0
    /\ manager' = At("limit")
    /\ UNCHANGED <<stream, have, alerted, queued, maxConnections, cachedMax, deadlines,
                   settings>>

CheckConnections ==
    /\ manager.pc = "limit"
    /\ manager' = Manager("connect", IF Active THEN StreamingConnections ELSE limit, NoTarget)
    /\ UNCHANGED <<stream, have, alerted, queued, told, settings>>

\* Mutant of Connect: the limit is only ever raised.
ConnectRaises ==
    /\ manager.pc = "connect"
    /\ IF manager.connections > cachedMax
       THEN maxConnections' = manager.connections /\ cachedMax' = manager.connections
       ELSE UNCHANGED <<maxConnections, cachedMax>>
    /\ manager' = At("deadlines")
    /\ UNCHANGED <<stream, have, alerted, queued, priority, deadlines, settings>>

\* The Torrent object compares with what it remembers.
Connect ==
    /\ manager.pc = "connect"
    /\ IF manager.connections # cachedMax
       THEN maxConnections' = manager.connections /\ cachedMax' = manager.connections
       ELSE UNCHANGED <<maxConnections, cachedMax>>
    /\ manager' = At("deadlines")
    /\ UNCHANGED <<stream, have, alerted, queued, priority, deadlines, settings>>

ComputeDeadlines ==
    /\ manager.pc = "deadlines"
    /\ manager' = Manager("apply", 0, GetDeadlines)
    /\ UNCHANGED <<stream, have, alerted, queued, told, settings>>

\* What is no longer wanted is reset, what is wanted is set.
ApplyDeadlines ==
    /\ manager.pc = "apply"
    /\ deadlines' = manager.target
    /\ manager' = At("restore")
    /\ UNCHANGED <<stream, have, alerted, queued, priority, maxConnections, cachedMax,
                   settings>>

CheckRestore ==
    /\ manager.pc = "restore"
    /\ manager' = At(IF ~Active /\ priority # default THEN "lower" ELSE "idle")
    /\ UNCHANGED <<stream, have, alerted, queued, told, settings>>

Lower ==
    /\ manager.pc = "lower"
    /\ priority' = default
    /\ manager' = At("idle")
    /\ UNCHANGED <<stream, have, alerted, queued, maxConnections, cachedMax, deadlines,
                   settings>>

ManagerStep ==
    \/ StartRun \/ CheckPriority \/ Raise \/ CheckConnections \/ Connect
    \/ ComputeDeadlines \/ ApplyDeadlines \/ CheckRestore \/ Lower

Next ==
    \/ ManagerStep
    \/ \E s \in Streams :
        \/ \E p \in Pieces : Create(s, p)
        \/ Abandon(s)
        \/ Begin(s)
        \/ Advance(s)
        \/ End(s)
        \/ BeginDestroy(s)
        \/ EndDestroy(s)
    \/ \E p \in Pieces : PieceFinished(p)
    \/ ProcessAlerts
    \/ \E p \in Defaults : UpdateDefaultPriority(p)
    \/ \E l \in Limits : UpdateSettings(l)

\* The loop and the thread run what is ready.  A client may wait forever, and
\* no piece has to arrive.
Fairness ==
    /\ WF_vars(ManagerStep)
    /\ WF_vars(ProcessAlerts)
    /\ \A s \in Streams : WF_vars(BeginDestroy(s)) /\ WF_vars(EndDestroy(s))

Spec == Init /\ [][Next]_vars

FairSpec == Spec /\ Fairness

----------------------------------------------------------------------------
TypeOK ==
    /\ stream \in [Streams ->
            [pc : {"none", "created", "leaked", "running", "ending", "destroying"},
             piece : Pieces]]
    /\ have \subseteq Pieces
    /\ alerted \in BOOLEAN /\ queued \in BOOLEAN
    /\ manager \in
            [pc : {"idle", "priority", "raise", "limit", "connect", "deadlines", "apply",
                   "restore", "lower"},
             connections : Nat, target : [Pieces -> Nat \union {NoDeadline}]]
    /\ priority \in Nat /\ default \in Nat
    /\ limit \in Nat /\ maxConnections \in Nat /\ cachedMax \in Nat
    /\ deadlines \in [Pieces -> Nat \union {NoDeadline}]
    /\ changes \in Nat

\* Nothing is under way and nothing is asked for: no further run will come
\* until something changes.
Settled == manager.pc = "idle" /\ ~queued /\ ~alerted

Unstarted(s) == stream[s].pc \in {"created", "leaked"}

Started == {s \in Registered : ~Unstarted(s)}

\* No change of the streams is lost between the steps of a run.  When all is
\* quiet a watched torrent downloads by deadline only (priority 0), and one
\* that nobody watches has its default priority back.
PrioritySettled ==
    Settled =>
        /\ Started # {} => priority = PRIO_0
        /\ ~Active => priority = default

\* When all is quiet the deadlines are the ones the streams ask for now, and
\* the piece each stream stands at is due at once.
DeadlinesSettled ==
    Settled =>
        /\ Started = Registered => deadlines = GetDeadlines
        /\ \A s \in Started :
            stream[s].pc = "running" /\ stream[s].piece \in Missing =>
                deadlines[stream[s].piece] = 0

\* When all is quiet a torrent that nobody watches has given back the
\* connections of its streams, whatever the settings did meanwhile.
ConnectionsReleased ==
    Settled /\ ~Active => {maxConnections, cachedMax} \subseteq Limits \union {InitLimit}

\* A stream that stands at a missing piece gets it made urgent, or moves on.
PieceMadeUrgent ==
    \A s \in Streams, p \in Pieces :
        (stream[s] = Stream("running", p) /\ p \in Missing)
            ~> (deadlines[p] = 0 \/ p \in have \/ stream[s] # Stream("running", p))

\* After the last stream the default priority comes back, or somebody watches
\* again.
DefaultRestored == ~Active ~> (priority = default \/ Active)
=============================================================================
