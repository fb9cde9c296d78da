------------------------------- MODULE Playbacks -------------------------------
(***************************************************************************)
(* The limit of concurrent playbacks: stream/router.py around              *)
(* playbacks/service.py and the playback histories.  A request verifies    *)
(* its key in a thread, is held against the limit, prepares the torrent,   *)
(* saves the history and only then registers a stream that counts.  It     *)
(* counts while the Torrent object of its file is the relay's: the object  *)
(* goes when the torrent is deleted, and when the same torrent of a second *)
(* indexer is prepared, which adds it again; what plays plays on.          *)
(* A deletion and the addition of a torrent are a step each here           *)
(* (TorrentLifecycle has their transactions).                              *)
(***************************************************************************)
EXTENDS Naturals, FiniteSets

CONSTANTS
    Streams,      \* GET and HEAD requests of /{api_key}/stream/{token}
    Viewers,      \* users
    PlayIds,      \* playback ids
    PlayOf(_),    \* per request: the playback id of its token
    ReleaseOf(_), \* per playback: the torrent of an indexer it plays, as its token says
    HashOf(_),    \* per torrent of an indexer: its info hash
    MaxLimit,     \* bound: the largest max_concurrent_streams
    MaxChanges,   \* bound: how often an administrator changes a limit
    NoPlay

ASSUME PlaybacksAssumption ==
    /\ IsFiniteSet(Streams) /\ MaxLimit \in Nat /\ MaxChanges \in Nat
    /\ \A s \in Streams : PlayOf(s) \in PlayIds

NoLimit == 0    \* max_concurrent_streams is None; a limit is greater than 0

VARIABLES
    limit,        \* per user: max_concurrent_streams
    viewers,      \* the users that exist
    start,        \* per request: where it stands, whose it is, the limit it read
    stored,       \* the torrents of indexers with a row, which the relay has too
    histories,    \* the playback ids with a row, each with its user
    changes

playbackVars == <<limit, viewers, start, stored, histories, changes>>

\* Checked, and not registered yet.
Starting == {"preparing", "saving"}
NoStart(pc) ==
    [pc |-> pc, user |-> NoPlay, play |-> NoPlay, lim |-> NoLimit, overlapped |-> FALSE,
     hidden |-> FALSE]

\* Requests that are over, or refused, keep nothing.
UnderWay ==
    [pc : {"verified", "playing"} \union Starting, user : Viewers, play : PlayIds, lim : Nat,
     overlapped : BOOLEAN, hidden : BOOLEAN]
Starts == UnderWay \union {NoStart("idle"), NoStart("over")}

PlaybacksTypeOK ==
    /\ limit \in [Viewers -> NoLimit..MaxLimit]
    /\ viewers \subseteq Viewers
    /\ start \in [Streams -> Starts]
    /\ stored \subseteq {ReleaseOf(p) : p \in PlayIds}
    /\ histories \subseteq [play : PlayIds, user : Viewers]
    /\ changes \in 0..MaxChanges

PlaybacksInit ==
    /\ limit \in [Viewers -> NoLimit..MaxLimit]
    /\ viewers = Viewers
    /\ start = [s \in Streams |-> NoStart("idle")]
    /\ stored = {} /\ histories = {}
    /\ changes = 0

\* RelayService.get_active_streams: those that have registered, in the files of the Torrent
\* objects of now.
Active == {s \in Streams : start[s].pc = "playing" /\ ~start[s].hidden}

\* The playbacks that check_playback_limit counts.
OtherPlays(u, p) == {start[s].play : s \in {t \in Active : start[t].user = u}} \ {p}

-------------------------------------------------------------------------------
\* verify_api_key in a thread: the user's row as it is now.
Verify(s, u) ==
    /\ start[s].pc = "idle"
    /\ start' = [start EXCEPT ![s] =
                   IF u \in viewers
                   THEN [pc |-> "verified", user |-> u, play |-> PlayOf(s), lim |-> limit[u],
                         overlapped |-> FALSE, hidden |-> FALSE]
                   ELSE NoStart("over")]
    /\ UNCHANGED <<limit, viewers, stored, histories, changes>>

\* Mutant of AtLimit: one playback too many.
AtLimitOffByOne(s) ==
    /\ start[s].lim # NoLimit
    /\ Cardinality(OtherPlays(start[s].user, start[s].play)) > start[s].lim

AtLimit(s) ==
    /\ start[s].lim # NoLimit
    /\ Cardinality(OtherPlays(start[s].user, start[s].play)) >= start[s].lim

\* overlapped is a history variable: another playback of the user is between check and stream.
CheckLimit(s) ==
    /\ start[s].pc = "verified"
    /\ LET before == {t \in Streams : /\ start[t].pc \in Starting
                                      /\ start[t].user = start[s].user
                                      /\ start[t].play # start[s].play}
       IN start' = [start EXCEPT ![s] =
                      IF AtLimit(s) THEN NoStart("over")
                      ELSE [@ EXCEPT !.pc = "preparing", !.overlapped = before # {}]]
    /\ UNCHANGED <<limit, viewers, stored, histories, changes>>

\* Who has a file of hash h, or streams from one, has it of an object that is no longer the relay's.
Hide(h) ==
    [s \in Streams |->
       IF start[s].pc \in {"saving", "playing"} /\ HashOf(ReleaseOf(start[s].play)) = h
       THEN [start[s] EXCEPT !.hidden = TRUE] ELSE start[s]]

\* prepare_for_stream finds the torrent, or it fails before it has changed anything.
FindTorrent(s) ==
    /\ start[s].pc = "preparing"
    /\ \/ /\ ReleaseOf(start[s].play) \in stored
          /\ start' = [start EXCEPT ![s].pc = "saving"]
       \/ start' = [start EXCEPT ![s] = NoStart("over")]
    /\ UNCHANGED <<limit, viewers, stored, histories, changes>>

\* Or it adds the torrent, in the place of one of another indexer with the same info hash; a range
\* that is none, or a commit that fails, comes after.
AddTorrent(s) ==
    LET release == ReleaseOf(start[s].play) IN
    /\ start[s].pc = "preparing" /\ release \notin stored
    /\ \/ /\ start' = [Hide(HashOf(release)) EXCEPT ![s].pc = "saving"]
          /\ stored' = stored \union {release}
       \/ /\ start' = [Hide(HashOf(release)) EXCEPT ![s] = NoStart("over")]
          /\ stored' \in {stored, stored \union {release}}
    /\ UNCHANGED <<limit, viewers, histories, changes>>

\* TorrentsService.delete, by a user or a job: every row of the hash goes, and the object.
DeleteTorrent(h) ==
    /\ stored' = {release \in stored : HashOf(release) # h}
    /\ start' = Hide(h)
    /\ UNCHANGED <<limit, viewers, histories, changes>>

\* get_or_create: a row that is there stays whoever it is of; a user that is gone makes the
\* insertion fail, which is logged only.
HistoriesAfter(s) ==
    IF start[s].user \in viewers /\ \A h \in histories : h.play # start[s].play
    THEN histories \union {[play |-> start[s].play, user |-> start[s].user]}
    ELSE histories

\* The history is saved or its writing fails; then a HEAD is answered, and a GET registers
\* its stream without another await.
SaveAndRegister(s) ==
    /\ start[s].pc = "saving"
    /\ histories' \in {histories, HistoriesAfter(s)}
    /\ \/ start' = [start EXCEPT ![s].pc = "playing"]
       \/ start' = [start EXCEPT ![s] = NoStart("over")]
    /\ UNCHANGED <<limit, viewers, stored, changes>>

EndStream(s) ==
    /\ start[s].pc = "playing"
    /\ start' = [start EXCEPT ![s] = NoStart("over")]
    /\ UNCHANGED <<limit, viewers, stored, histories, changes>>

-------------------------------------------------------------------------------
SetLimit(u, n) ==
    /\ changes < MaxChanges /\ u \in viewers /\ n # limit[u]
    /\ limit' = [limit EXCEPT ![u] = n] /\ changes' = changes + 1
    /\ UNCHANGED <<viewers, start, stored, histories>>

\* The histories of a user go with the row; streams that run go on.
DeleteViewer(u) ==
    /\ changes < MaxChanges /\ u \in viewers
    /\ viewers' = viewers \ {u} /\ changes' = changes + 1
    /\ histories' = {h \in histories : h.user # u}
    /\ UNCHANGED <<limit, start, stored>>

PlaybacksNext ==
    \/ \E s \in Streams, u \in Viewers : Verify(s, u)
    \/ \E s \in Streams : CheckLimit(s) \/ FindTorrent(s) \/ AddTorrent(s) \/ SaveAndRegister(s) \/ EndStream(s)
    \/ \E p \in PlayIds : DeleteTorrent(HashOf(ReleaseOf(p)))
    \/ \E u \in Viewers : DeleteViewer(u) \/ \E n \in NoLimit..MaxLimit : SetLimit(u, n)

PlaybacksSpec == PlaybacksInit /\ [][PlaybacksNext]_playbackVars

-------------------------------------------------------------------------------
\* The starts of user u, on their way or playing, that overlapped no other when they were checked
\* and whose Torrent object is the relay's.
Alone(u) ==
    {s \in Streams : /\ start[s].pc \in Starting \union {"playing"}
                     /\ start[s].user = u /\ ~start[s].overlapped /\ ~start[s].hidden}

\* Start s was held against a limit that the playbacks of starts are within.
Allows(s, starts) ==
    start[s].lim = NoLimit \/ Cardinality({start[t].play : t \in starts}) <= start[s].lim

\* A user plays more than the limit allowed in two ways only: through playbacks that were let in
\* while another one of the same user was on its way, and through those whose torrent was deleted, or
\* added again for a second indexer, while they were saved or played, because the count forgets
\* them (relay/service.py:137-142, :256, :299).  The others are together within the limit
\* that one of them was held against (playbacks/service.py:39-59, router.py:67-129).
OverrunNeedsOverlap ==
    \A u \in Viewers : Alone(u) # {} => \E s \in Alone(u) : Allows(s, Alone(u))
===============================================================================
