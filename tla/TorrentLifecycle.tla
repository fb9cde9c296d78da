--------------------------- MODULE TorrentLifecycle ---------------------------
(***************************************************************************)
(* How torrents come and go (modules/stream, modules/torrents,             *)
(* modules/torrent_files, modules/indexers).  Two things have to agree:    *)
(* the rows of the database and the torrents of the relay, which is        *)
(* rebuilt from the rows when the process starts.                          *)
(*                                                                         *)
(* A request to stream adds a torrent; an administrator, the deletion of   *)
(* an account and the nightly clean-up delete some.  All of them change    *)
(* the relay in the middle of a transaction.  SQLite has one writer: the   *)
(* first statement that writes takes the write lock, for as long as the    *)
(* transaction lasts; others wait ten seconds for it and fail.  Reads see  *)
(* what is committed.                                                      *)
(*                                                                         *)
(* Rows and cached files are keyed by indexer and torrent, the relay by    *)
(* info hash, and two indexers may offer the same torrent.  What an        *)
(* indexer offers under one info hash is one torrent: an item is the pair  *)
(* of the two.                                                             *)
(***************************************************************************)
EXTENDS FiniteSets

CONSTANTS
    Indexers,
    Hashes,         \* info hashes
    Items,          \* what the indexers offer
    Clients,        \* requests to stream
    Deleters,       \* requests and jobs that delete
    NoItem,
    NoOne           \* "nobody writes"

ASSUME ConstantsOK ==
    /\ Items \subseteq Indexers \X Hashes
    /\ NoItem \notin Items
    /\ NoOne \notin Clients \union Deleters
    /\ Clients \intersect Deleters = {}

Indexer(i) == i[1]
Hash(i) == i[2]

HashesOf(rows) == {Hash(i) : i \in rows}
OfIndexer(items, x) == {i \in items : Indexer(i) = x}
OfHash(items, h) == {i \in items : Hash(i) = h}

VARIABLES
    db,         \* what is committed: accounts, cached files, torrent rows, pinned rows
    tx,         \* the open write transaction: its owner, and the database as it sees it
    session,    \* the info hashes of the relay's torrents
    prep,       \* per request to stream: where it stands
    del         \* per request or job that deletes: where it stands

vars == <<db, tx, session, prep, del>>

Databases ==
    [accounts : SUBSET Indexers, files : SUBSET Items, rows : SUBSET Items,
     persisted : SUBSET Items]

Transaction(owner, state) == [owner |-> owner, db |-> state]
NoTx(state) == Transaction(NoOne, state)

Prep(pc, i) == [pc |-> pc, item |-> i]
PrepIdle == Prep("idle", NoItem)

\* kind: "one", "account" or "cleanup"; todo: the info hashes still to delete;
\* hash: the one whose rows are deleted and whose torrent is next.
Del(pc, kind, x, todo) ==
    [pc |-> pc, kind |-> kind, indexers |-> x, todo |-> todo, hash |-> NoItem]
DelIdle == Del("idle", "one", {}, {})

Init ==
    /\ db = [accounts |-> {}, files |-> {}, rows |-> {}, persisted |-> {}]
    /\ tx = NoTx(db)
    /\ session = {}
    /\ prep = [c \in Clients |-> PrepIdle]
    /\ del = [d \in Deleters |-> DelIdle]

----------------------------------------------------------------------------
(* The write lock. *)

MayWrite(o) == tx.owner \in {NoOne, o}

\* A statement of o writes.
Write(o, state) == tx' = Transaction(o, state) /\ UNCHANGED db

\* A transaction that does nothing else but write.
WriteAtOnce(state) ==
    /\ tx.owner = NoOne
    /\ db' = state
    /\ tx' = NoTx(state)

Commit == db' = tx.db /\ tx' = NoTx(tx.db)
Rollback == tx' = NoTx(db) /\ UNCHANGED db

----------------------------------------------------------------------------
(* prepare_for_stream, under the keyed lock of the item. *)

Goto(c, pc) == prep' = [prep EXCEPT ![c].pc = pc]
PrepEnds(c) == prep' = [prep EXCEPT ![c] = PrepIdle]

Request(c, i) ==
    /\ prep[c].pc = "idle"
    /\ \A e \in Clients : prep[e].item # i
    /\ prep' = [prep EXCEPT ![c] = Prep("row", i)]
    /\ UNCHANGED <<db, tx, session, del>>

\* Is there a row?
FindRow(c) ==
    /\ prep[c].pc = "row"
    /\ Goto(c, IF prep[c].item \in db.rows THEN "present" ELSE "file")
    /\ UNCHANGED <<db, tx, session, del>>

\* There is one: the request goes on with the torrent, if the relay has it, and
\* ends with 404 if not.  Either way the lock of the item is released.
FindTorrent(c) ==
    /\ prep[c].pc = "present"
    /\ PrepEnds(c)
    /\ UNCHANGED <<db, tx, session, del>>

\* There is none: is the torrent file in the cache?
FindFile(c) ==
    /\ prep[c].pc = "file"
    /\ Goto(c, IF prep[c].item \in db.files THEN "insert" ELSE "download")
    /\ UNCHANGED <<db, tx, session, del>>

Download(c) ==
    /\ prep[c].pc = "download"
    /\ Goto(c, "save") \/ PrepEnds(c)
    /\ UNCHANGED <<db, tx, session, del>>

WithFile(i) == [db EXCEPT !.files = @ \union {i}]

\* A transaction of its own.  The file may have come into the cache meanwhile
\* (409), the account may be gone (the foreign key), the lock may be taken.
SaveFile(c) ==
    /\ prep[c].pc = "save"
    /\ \/ /\ prep[c].item \notin db.files
          /\ Indexer(prep[c].item) \in db.accounts
          /\ WriteAtOnce(WithFile(prep[c].item))
          /\ Goto(c, "insert")
       \/ /\ \/ prep[c].item \in db.files
             \/ Indexer(prep[c].item) \notin db.accounts
             \/ tx.owner # NoOne
          /\ PrepEnds(c)
          /\ UNCHANGED <<db, tx>>
    /\ UNCHANGED <<session, del>>

WithRow(i) == [db EXCEPT !.rows = @ \union {i}]

\* Mutant of Insert: the row is committed before the torrent is added.
InsertCommits(c) ==
    /\ prep[c].pc = "insert"
    /\ prep[c].item \in db.files
    /\ prep[c].item \notin db.rows
    /\ WriteAtOnce(WithRow(prep[c].item))
    /\ Goto(c, "add")
    /\ UNCHANGED <<session, del>>

\* The file index is checked and the row inserted, if its cached file and its
\* account are still there (the foreign keys) and the row is not (the primary
\* key).
Insert(c) ==
    /\ prep[c].pc = "insert"
    /\ \/ /\ MayWrite(c)
          /\ prep[c].item \in db.files
          /\ Indexer(prep[c].item) \in db.accounts
          /\ prep[c].item \notin db.rows
          /\ Write(c, WithRow(prep[c].item))
          /\ Goto(c, "add")
       \* An index that is no video, a violated key, a lock that is taken.
       \/ PrepEnds(c) /\ UNCHANGED <<db, tx>>
    /\ UNCHANGED <<session, del>>

\* The torrent is added to the relay, which knows it already when the other
\* indexer's is there.  Or libtorrent refuses it, and the row is taken back.
Add(c) ==
    /\ prep[c].pc = "add"
    /\ \/ /\ session' = session \union {Hash(prep[c].item)}
          /\ Goto(c, "commit")
          /\ UNCHANGED <<db, tx>>
       \/ /\ PrepEnds(c)
          /\ Rollback
          /\ UNCHANGED session
    /\ UNCHANGED del

\* The stream is made without the lock.
CommitRow(c) ==
    /\ prep[c].pc = "commit"
    /\ Commit
    /\ PrepEnds(c)
    /\ UNCHANGED <<session, del>>

----------------------------------------------------------------------------
(* Deletion. *)

\* DELETE /torrents/{info_hash}
DeleteOne(d, h) ==
    /\ del[d].pc = "idle"
    /\ del' = [del EXCEPT ![d] = Del("row", "one", {}, {h})]
    /\ UNCHANGED <<db, tx, session, prep>>

\* DELETE /indexers/{indexer_id}: the torrents of the account are looked up,
\* then deleted one by one, then the account.
DeleteIndexer(d, x) ==
    /\ del[d].pc = "idle"
    /\ x \in db.accounts
    /\ LET todo == HashesOf(OfIndexer(db.rows, x)) IN
        del' = [del EXCEPT ![d] =
            Del(IF todo = {} THEN "account" ELSE "row", "account", {x}, todo)]
    /\ UNCHANGED <<db, tx, session, prep>>

\* The clean-up of an account: some of its torrents that are not pinned, which
\* ones depends on the history and on the site.
Cleanup(d, x) ==
    /\ del[d].pc = "idle"
    /\ \E found \in SUBSET OfIndexer(db.rows \ db.persisted, x) :
        /\ found # {}
        /\ del' = [del EXCEPT ![d] = Del("row", "cleanup", {x}, HashesOf(found))]
    /\ UNCHANGED <<db, tx, session, prep>>

\* The database as o sees it.
View(o) == IF tx.owner = o THEN tx.db ELSE db

\* Mutant of WithoutHash: only the first row of the info hash is deleted.
WithoutFirst(state, h) ==
    LET all == OfHash(state.rows, h)
        first == IF all = {} THEN {} ELSE {CHOOSE i \in all : TRUE}
    IN
    [state EXCEPT !.rows = @ \ first, !.persisted = @ \ first]

\* DELETE goes by info hash alone.
WithoutHash(state, h) ==
    [state EXCEPT !.rows = @ \ OfHash(@, h), !.persisted = @ \ OfHash(@, h)]

DelEnds(d) == del' = [del EXCEPT ![d] = DelIdle]

\* The row first.  The lock can only be missing for the first of them.
DeleteRow(d, h) ==
    /\ del[d].pc = "row" /\ h \in del[d].todo
    /\ \/ /\ MayWrite(d)
          /\ Write(d, WithoutHash(View(d), h))
          /\ del' = [del EXCEPT ![d].pc = "relay", ![d].hash = h]
       \/ /\ ~MayWrite(d)
          /\ DelEnds(d)
          /\ UNCHANGED <<db, tx>>
    /\ UNCHANGED <<session, prep>>

\* What comes after a torrent: the next, the account, the end of the request.
AfterRelay(d, todo) ==
    CASE todo # {} -> "row"
      [] todo = {} /\ del[d].kind = "account" -> "account"
      [] OTHER -> "commit"

\* Then the torrent, with the files it has downloaded, in the middle of the
\* transaction.
DeleteTorrent(d) ==
    /\ del[d].pc = "relay"
    /\ session' = session \ {del[d].hash}
    /\ LET todo == del[d].todo \ {del[d].hash} IN
        del' = [del EXCEPT ![d].pc = AfterRelay(d, todo), ![d].todo = todo]
    /\ UNCHANGED <<db, tx, prep>>

WithoutAccount(state, x) ==
    [state EXCEPT !.accounts = @ \ x,
                  !.files = {i \in @ : Indexer(i) \notin x}]

\* The account goes, and its cached files with it.  A row that was inserted
\* after the look-up forbids it (the foreign key), and all rows are back.
DeleteAccount(d) ==
    /\ del[d].pc = "account"
    /\ \/ /\ MayWrite(d)
          /\ \A i \in View(d).rows : Indexer(i) \notin del[d].indexers
          /\ Write(d, WithoutAccount(View(d), del[d].indexers))
          /\ del' = [del EXCEPT ![d].pc = "commit"]
       \/ /\ MayWrite(d)
          /\ \E i \in View(d).rows : Indexer(i) \in del[d].indexers
          /\ DelEnds(d)
          /\ Rollback
       \/ /\ ~MayWrite(d)
          /\ DelEnds(d)
          /\ UNCHANGED <<db, tx>>
    /\ UNCHANGED <<session, prep>>

CommitDelete(d) ==
    /\ del[d].pc = "commit"
    /\ Commit
    /\ DelEnds(d)
    /\ UNCHANGED <<session, prep>>

----------------------------------------------------------------------------
(* What else writes, each a transaction that touches nothing but rows. *)

AddAccount(x) ==
    /\ x \notin db.accounts
    /\ WriteAtOnce([db EXCEPT !.accounts = @ \union {x}])
    /\ UNCHANGED <<session, prep, del>>

\* The source provider saves what a search has found, under another lock than
\* the streams.
ProviderSaves(i) ==
    /\ i \notin db.files
    /\ Indexer(i) \in db.accounts
    /\ WriteAtOnce(WithFile(i))
    /\ UNCHANGED <<session, prep, del>>

\* Files that were not used for a time and have no row.
Retention ==
    /\ \E expired \in SUBSET (db.files \ db.rows) :
        /\ expired # {}
        /\ WriteAtOnce([db EXCEPT !.files = @ \ expired])
    /\ UNCHANGED <<session, prep, del>>

\* PUT /torrents/{info_hash}: the first row of the info hash is pinned or not,
\* if its torrent is in the relay.
Pin(i, pinned) ==
    /\ i \in db.rows
    /\ Hash(i) \in session
    /\ WriteAtOnce([db EXCEPT !.persisted = IF pinned THEN @ \union {i} ELSE @ \ {i}])
    /\ UNCHANGED <<session, prep, del>>

\* The process crashes or is restarted, at any time.  What is not committed
\* is lost, and the torrents are restored from the rows, each by itself.
Restart ==
    /\ \E broken \in SUBSET HashesOf(db.rows) :
        session' = HashesOf(db.rows) \ broken
    /\ tx' = NoTx(db)
    /\ prep' = [c \in Clients |-> PrepIdle]
    /\ del' = [d \in Deleters |-> DelIdle]
    /\ UNCHANGED db

----------------------------------------------------------------------------
PrepareStep(c) ==
    \/ FindRow(c) \/ FindTorrent(c) \/ FindFile(c) \/ Download(c) \/ SaveFile(c)
    \/ Insert(c) \/ Add(c) \/ CommitRow(c)

DeleteStep(d) ==
    \/ \E h \in Hashes : DeleteRow(d, h)
    \/ DeleteTorrent(d) \/ DeleteAccount(d) \/ CommitDelete(d)

Next ==
    \/ \E c \in Clients : PrepareStep(c) \/ \E i \in Items : Request(c, i)
    \/ \E d \in Deleters :
        \/ DeleteStep(d)
        \/ \E h \in Hashes : DeleteOne(d, h)
        \/ \E x \in Indexers : DeleteIndexer(d, x) \/ Cleanup(d, x)
    \/ \E x \in Indexers : AddAccount(x)
    \/ \E i \in Items : ProviderSaves(i) \/ \E pinned \in BOOLEAN : Pin(i, pinned)
    \/ Retention
    \/ Restart

Fairness ==
    /\ \A c \in Clients : WF_vars(PrepareStep(c))
    /\ \A d \in Deleters : WF_vars(DeleteStep(d))

Spec == Init /\ [][Next]_vars

FairSpec == Spec /\ Fairness

----------------------------------------------------------------------------
TypeOK ==
    /\ db \in Databases
    /\ tx \in [owner : Clients \union Deleters \union {NoOne}, db : Databases]
    /\ session \subseteq Hashes
    /\ prep \in [Clients ->
            [pc : {"idle", "row", "present", "file", "download", "save", "insert", "add",
                   "commit"},
             item : Items \union {NoItem}]]
    /\ del \in [Deleters ->
            [pc : {"idle", "row", "relay", "account", "commit"},
             kind : {"one", "account", "cleanup"},
             indexers : SUBSET Indexers, todo : SUBSET Hashes,
             hash : Hashes \union {NoItem}]]

\* The relay never seeds a torrent that has no row: nothing would delete it or
\* find it after a restart.  Though rows and torrents change one after the
\* other, in transactions that may fail, and two rows may share a torrent.
NoOrphan == tx.owner = NoOne => session \subseteq HashesOf(db.rows)

Current == IF tx.owner = NoOne THEN db ELSE tx.db

\* The rows, as the writer sees them, whose torrent is not in the relay and is
\* not just being added.
Stranded ==
    {i \in Current.rows :
        /\ Hash(i) \notin session
        /\ ~\E c \in Clients : tx.owner = c /\ prep[c].pc = "add" /\ prep[c].item = i}

RollsBack == \E d \in Deleters : tx.owner = d /\ tx'.owner = NoOne /\ db' = db

\* A row loses its torrent only in two ways: the deletion of an account is
\* rolled back after its torrents have gone, or a restart cannot restore it.
\* No other order of requests, deletions and failures gets there.
OnlyRollbackStrands ==
    [][Stranded' \subseteq Stranded \/ RollsBack \/ Restart]_vars

\* The tooltip of the pin in the web client: a pinned torrent is not deleted
\* automatically.  So the clean-up finds no info hash of a pinned one.
PinnedSpared ==
    [][\A d \in Deleters :
        del[d].pc = "idle" /\ del'[d].pc = "row" /\ del'[d].kind = "cleanup" =>
            HashesOf(db.persisted) \intersect del'[d].todo = {}]_vars
=============================================================================
