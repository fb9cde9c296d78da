------------------------ MODULE TorrentLifecycle_proofs ------------------------
(***************************************************************************)
(* Proofs about TorrentLifecycle, for any indexers, info hashes, requests  *)
(* and deletions.                                                          *)
(*                                                                         *)
(* That the relay has no torrent without a row is not inductive: it is     *)
(* silent while a transaction is open, and that is when the relay changes. *)
(* What carries it is that only the owner of the write lock touches the    *)
(* relay, after its statement: the torrents then have rows in the owner's  *)
(* view or in what is committed, whichever way the transaction ends.       *)
(***************************************************************************)
EXTENDS TorrentLifecycle, TLAPS

\* Inductive strengthening of NoOrphan.
ClosedIsCommitted == tx.owner = NoOne => tx.db = db

\* A request owns the lock from its insertion to its commit, and its view is
\* what is committed and its row, which is new.
PrepareOwns ==
    \A c \in Clients :
        /\ tx.owner = c <=> prep[c].pc \in {"add", "commit"}
        /\ prep[c].pc # "idle" => prep[c].item \in Items
        /\ prep[c].pc \in {"add", "commit"} =>
            prep[c].item \notin db.rows /\ tx.db.rows = db.rows \union {prep[c].item}

\* A deletion that changes the relay owns the lock, and its view has lost rows
\* only, those of the torrent that is next among them.
DeleteOwns ==
    \A d \in Deleters :
        /\ tx.owner = d => del[d].pc # "idle" /\ tx.db.rows \subseteq db.rows
        /\ del[d].pc \in {"relay", "commit"} => tx.owner = d
        /\ del[d].pc = "relay" =>
            del[d].hash \in Hashes /\ OfHash(tx.db.rows, del[d].hash) = {}

\* The torrents have rows: the committed ones before a request has added its
\* torrent, else the writer's, but for the one that is deleted next.
TorrentsHaveRows ==
    /\ tx.owner = NoOne => session \subseteq HashesOf(db.rows)
    /\ \A c \in Clients :
        /\ prep[c].pc = "add" => session \subseteq HashesOf(db.rows)
        /\ prep[c].pc = "commit" => session \subseteq HashesOf(tx.db.rows)
    /\ \A d \in Deleters : tx.owner = d =>
        session \subseteq
            HashesOf(tx.db.rows) \union (IF del[d].pc = "relay" THEN {del[d].hash} ELSE {})

IInv ==
    /\ TypeOK
    /\ ClosedIsCommitted
    /\ PrepareOwns
    /\ DeleteOwns
    /\ TorrentsHaveRows

-----------------------------------------------------------------------------
LEMMA ItemParts ==
    ASSUME NEW i \in Items
    PROVE  Indexer(i) \in Indexers /\ Hash(i) \in Hashes
BY ConstantsOK DEF Indexer, Hash

LEMMA HashesOfUnion ==
    ASSUME NEW R, NEW S
    PROVE  /\ HashesOf(R \union S) = HashesOf(R) \union HashesOf(S)
           /\ R \subseteq S => HashesOf(R) \subseteq HashesOf(S)
BY DEF HashesOf

\* Deleting the rows of an info hash deletes that hash and no other.
LEMMA HashesWithout ==
    ASSUME NEW state \in Databases, NEW h
    PROVE  /\ WithoutHash(state, h) \in Databases
           /\ WithoutHash(state, h).rows \subseteq state.rows
           /\ OfHash(WithoutHash(state, h).rows, h) = {}
           /\ HashesOf(state.rows) \subseteq HashesOf(WithoutHash(state, h).rows) \union {h}
BY DEF WithoutHash, Databases, OfHash, HashesOf

LEMMA PcAlone ==
    ASSUME NEW P, NEW I, NEW r \in [pc : P, item : I], NEW pc
    PROVE  [r EXCEPT !.pc = pc] = [pc |-> pc, item |-> r.item]
OBVIOUS

\* Owners are of one kind.
LEMMA OneOwner ==
    /\ \A c \in Clients : c # NoOne /\ c \notin Deleters
    /\ \A d \in Deleters : d # NoOne /\ d \notin Clients
BY ConstantsOK

-----------------------------------------------------------------------------
LEMMA InitIInv == Init => IInv
BY ConstantsOK DEF Init, IInv, TypeOK, Databases, NoTx, Transaction, PrepIdle, Prep,
   DelIdle, Del, ClosedIsCommitted, PrepareOwns, DeleteOwns, TorrentsHaveRows, HashesOf

\* A request that goes on without writing.
LEMMA PrepMoves ==
    ASSUME IInv, NEW c \in Clients, NEW new,
           new \in [pc : {"idle", "row", "present", "file", "download", "save", "insert"},
                    item : Items \union {NoItem}],
           new.pc # "idle" => new.item \in Items,
           prep' = [prep EXCEPT ![c] = new],
           prep[c].pc \notin {"add", "commit"},
           UNCHANGED <<tx, session, del>>, db' = db
    PROVE  IInv'
<1>. USE DEF IInv
<1>1. TypeOK'
  BY DEF TypeOK
<1>2. ClosedIsCommitted' /\ DeleteOwns'
  BY DEF ClosedIsCommitted, DeleteOwns
<1>3. PrepareOwns'
  BY DEF PrepareOwns, TypeOK
<1>4. TorrentsHaveRows'
  BY DEF TorrentsHaveRows, TypeOK
<1>. QED
  BY <1>1, <1>2, <1>3, <1>4

\* A transaction that changes no torrent rows and is committed at once.
LEMMA AtOnceStep ==
    ASSUME IInv, NEW state \in Databases, state.rows = db.rows, WriteAtOnce(state),
           UNCHANGED <<session, del>>,
           \/ UNCHANGED prep
           \/ \E c \in Clients : prep[c].pc = "save" /\ prep' = [prep EXCEPT ![c].pc = "insert"]
    PROVE  IInv'
<1>. USE DEF IInv, WriteAtOnce, NoTx, Transaction
<1>1. /\ db' = state /\ tx' = [owner |-> NoOne, db |-> state] /\ tx.owner = NoOne
      /\ \A c \in Clients : prep[c].pc \notin {"add", "commit"}
      /\ \A d \in Deleters : del[d].pc \notin {"relay", "commit"}
  BY OneOwner DEF PrepareOwns, DeleteOwns
<1>2. TypeOK'
  BY <1>1 DEF TypeOK
<1>3. ClosedIsCommitted' /\ DeleteOwns'
  BY <1>1, OneOwner DEF ClosedIsCommitted, DeleteOwns
<1>4. /\ \A c \in Clients : prep'[c].pc \notin {"add", "commit"}
      /\ \A c \in Clients : prep'[c].pc # "idle" => prep'[c].item \in Items
  BY <1>1 DEF TypeOK, PrepareOwns
<1>5. PrepareOwns'
  BY <1>1, <1>4, OneOwner DEF PrepareOwns
<1>6. TorrentsHaveRows'
  BY <1>1, <1>4, OneOwner DEF TorrentsHaveRows
<1>. QED
  BY <1>2, <1>3, <1>5, <1>6

\* The steps of a request that read, download and save.
LEMMA ReadStep ==
    ASSUME IInv, NEW c \in Clients,
           \/ \E i \in Items : Request(c, i)
           \/ FindRow(c) \/ FindTorrent(c) \/ FindFile(c) \/ Download(c) \/ SaveFile(c)
    PROVE  IInv'
<1>. USE DEF IInv
<1>0. /\ prep[c].pc # "idle" => prep[c].item \in Items
      /\ prep[c] = [pc |-> prep[c].pc, item |-> prep[c].item]
      /\ prep \in [Clients -> [pc : {"idle", "row", "present", "file", "download", "save",
                                     "insert", "add", "commit"},
                               item : Items \union {NoItem}]]
  BY DEF TypeOK, PrepareOwns
<1>1. ASSUME NEW i \in Items, Request(c, i)
      PROVE  IInv'
  BY <1>1, PrepMoves DEF Request, Prep
<1>2. ASSUME NEW pc \in {"row", "present", "file", "download", "save", "insert"},
             Goto(c, pc), prep[c].pc \notin {"idle", "add", "commit"},
             UNCHANGED <<tx, session, del>>, db' = db
      PROVE  IInv'
  <2>1. prep' = [prep EXCEPT ![c] = [prep[c] EXCEPT !.pc = pc]]
    BY <1>2 DEF Goto
  <2>2. [prep[c] EXCEPT !.pc = pc] = Prep(pc, prep[c].item)
    BY <1>0, PcAlone DEF Prep
  <2>. QED
    BY <1>2, <2>1, <2>2, <1>0, PrepMoves DEF Prep
<1>3. ASSUME PrepEnds(c), prep[c].pc \notin {"add", "commit"},
             UNCHANGED <<tx, session, del>>, db' = db
      PROVE  IInv'
  BY <1>3, PrepMoves DEF PrepEnds, PrepIdle, Prep
<1>4. CASE FindRow(c) \/ FindFile(c)
  BY <1>4, <1>2 DEF FindRow, FindFile
<1>5. CASE FindTorrent(c)
  BY <1>5, <1>3 DEF FindTorrent
<1>6. CASE Download(c)
  BY <1>6, <1>2, <1>3 DEF Download
<1>7. CASE SaveFile(c)
  <2>1. CASE WriteAtOnce(WithFile(prep[c].item)) /\ Goto(c, "insert")
    <3>1. WithFile(prep[c].item) \in Databases /\ WithFile(prep[c].item).rows = db.rows
      BY <1>7, <1>0 DEF SaveFile, WithFile, TypeOK, Databases
    <3>. QED
      BY <1>7, <2>1, <3>1, AtOnceStep DEF SaveFile, Goto
  <2>2. CASE PrepEnds(c) /\ UNCHANGED <<db, tx>>
    BY <1>7, <2>2, <1>3 DEF SaveFile
  <2>. QED
    BY <1>7, <2>1, <2>2 DEF SaveFile
<1>. QED
  BY <1>1, <1>4, <1>5, <1>6, <1>7

-----------------------------------------------------------------------------
LEMMA InsertStep ==
    ASSUME IInv, NEW c \in Clients, Insert(c)
    PROVE  IInv'
<1>. USE DEF IInv
<1>1. CASE PrepEnds(c) /\ UNCHANGED <<db, tx>>
  BY <1>1, PrepMoves DEF Insert, PrepEnds, PrepIdle, Prep
<1>2. CASE MayWrite(c) /\ Write(c, WithRow(prep[c].item)) /\ Goto(c, "add")
  <2>1. /\ tx.owner = NoOne /\ db' = db /\ session' = session /\ del' = del
        /\ tx' = [owner |-> c, db |-> WithRow(prep[c].item)]
        /\ prep[c].pc = "insert" /\ prep[c].item \in Items /\ prep[c].item \notin db.rows
        /\ prep' = [prep EXCEPT ![c].pc = "add"]
    BY <1>2 DEF Insert, MayWrite, Write, Transaction, Goto, PrepareOwns
  <2>2. /\ prep'[c].pc = "add" /\ prep'[c].item = prep[c].item
        /\ \A e \in Clients : e # c => prep'[e] = prep[e] /\ prep[e].pc \notin {"add", "commit"}
        /\ \A d \in Deleters : del[d].pc \notin {"relay", "commit"}
    BY <2>1, OneOwner DEF TypeOK, PrepareOwns, DeleteOwns
  <2>3. /\ WithRow(prep[c].item) \in Databases
        /\ WithRow(prep[c].item).rows = db.rows \union {prep[c].item}
    BY <2>1 DEF WithRow, TypeOK, Databases
  <2>4. TypeOK'
    BY <2>1, <2>3 DEF TypeOK
  <2>5. ClosedIsCommitted' /\ DeleteOwns'
    BY <2>1, <2>2, OneOwner DEF ClosedIsCommitted, DeleteOwns
  <2>6. PrepareOwns'
    BY <2>1, <2>2, <2>3 DEF PrepareOwns
  <2>7. TorrentsHaveRows'
    BY <2>1, <2>2, OneOwner DEF TorrentsHaveRows
  <2>. QED
    BY <2>4, <2>5, <2>6, <2>7
<1>. QED
  BY <1>1, <1>2 DEF Insert

\* A request or a deletion gives the lock back: its view is committed, or
\* dropped.
LEMMA CloseStep ==
    ASSUME IInv, NEW o \in Clients \union Deleters, tx.owner \in {o, NoOne},
           Commit \/ Rollback,
           session' = session, session \subseteq HashesOf(db'.rows),
           \/ o \in Clients /\ PrepEnds(o) /\ del' = del
           \/ o \in Deleters /\ DelEnds(o) /\ prep' = prep
    PROVE  IInv'
<1>. USE DEF IInv
<1>1. /\ db' \in Databases /\ tx' = [owner |-> NoOne, db |-> db']
  BY DEF Commit, Rollback, NoTx, Transaction, TypeOK
<1>2. TypeOK'
  BY <1>1 DEF TypeOK, PrepEnds, DelEnds, PrepIdle, Prep, DelIdle, Del
<1>3. \A c \in Clients : /\ prep'[c].pc \notin {"add", "commit"}
                         /\ prep'[c].pc # "idle" => prep'[c].item \in Items
  BY OneOwner DEF PrepareOwns, PrepEnds, PrepIdle, Prep, TypeOK
<1>4. \A d \in Deleters : del'[d].pc \notin {"relay", "commit"}
  BY OneOwner DEF DeleteOwns, DelEnds, DelIdle, Del, TypeOK
<1>5. ClosedIsCommitted' /\ PrepareOwns' /\ DeleteOwns'
  BY <1>1, <1>3, <1>4, OneOwner DEF ClosedIsCommitted, PrepareOwns, DeleteOwns
<1>6. TorrentsHaveRows'
  BY <1>1, <1>3, OneOwner DEF TorrentsHaveRows
<1>. QED
  BY <1>2, <1>5, <1>6

LEMMA AddStep ==
    ASSUME IInv, NEW c \in Clients, Add(c)
    PROVE  IInv'
<1>. USE DEF IInv
<1>1. /\ tx.owner = c /\ prep[c].pc = "add" /\ prep[c].item \in Items
      /\ tx.db.rows = db.rows \union {prep[c].item}
      /\ session \subseteq HashesOf(db.rows)
      /\ \A e \in Clients : e # c => prep[e].pc \notin {"add", "commit"}
      /\ \A d \in Deleters : del[d].pc \notin {"relay", "commit"}
  BY OneOwner DEF Add, PrepareOwns, DeleteOwns, TorrentsHaveRows
<1>2. CASE session' = session \union {Hash(prep[c].item)} /\ Goto(c, "commit") /\ UNCHANGED <<db, tx>>
  <2>1. /\ db' = db /\ tx' = tx /\ del' = del
        /\ prep' = [prep EXCEPT ![c].pc = "commit"]
    BY <1>2 DEF Goto, Add
  <2>2. /\ prep'[c].pc = "commit" /\ prep'[c].item = prep[c].item
        /\ \A e \in Clients : e # c => prep'[e] = prep[e]
    BY <2>1, <1>1 DEF TypeOK
  <2>3. TypeOK'
    BY <2>1, <1>1, <1>2, ItemParts DEF TypeOK
  <2>4. ClosedIsCommitted' /\ DeleteOwns'
    BY <2>1 DEF ClosedIsCommitted, DeleteOwns
  <2>5. PrepareOwns'
    BY <2>1, <2>2, <1>1 DEF PrepareOwns
  <2>6. session' \subseteq HashesOf(tx.db.rows)
    BY <1>1, <1>2 DEF HashesOf
  <2>7. TorrentsHaveRows'
    BY <2>1, <2>2, <2>6, <1>1, OneOwner DEF TorrentsHaveRows
  <2>. QED
    BY <2>3, <2>4, <2>5, <2>7
<1>3. CASE PrepEnds(c) /\ Rollback /\ UNCHANGED session
  BY <1>1, <1>3, CloseStep DEF Rollback, Add
<1>. QED
  BY <1>2, <1>3 DEF Add

LEMMA CommitRowStep ==
    ASSUME IInv, NEW c \in Clients, CommitRow(c)
    PROVE  IInv'
<1>1. tx.owner = c /\ session \subseteq HashesOf(tx.db.rows)
  BY DEF IInv, CommitRow, PrepareOwns, TorrentsHaveRows
<1>2. db' = tx.db /\ Commit /\ PrepEnds(c) /\ session' = session /\ del' = del
  BY DEF CommitRow, Commit
<1>. QED
  BY <1>1, <1>2, CloseStep

-----------------------------------------------------------------------------
\* A deletion begins: it does not own the lock yet.
LEMMA DeleteBegins ==
    ASSUME IInv, NEW d \in Deleters, del[d].pc = "idle",
           NEW new,
           new \in [pc : {"row", "account"}, kind : {"one", "account", "cleanup"},
                    indexers : SUBSET Indexers, todo : SUBSET Hashes,
                    hash : Hashes \union {NoItem}],
           del' = [del EXCEPT ![d] = new],
           UNCHANGED <<db, tx, session, prep>>
    PROVE  IInv'
<1>. USE DEF IInv
<1>1. TypeOK'
  BY DEF TypeOK
<1>2. ClosedIsCommitted' /\ PrepareOwns'
  BY DEF ClosedIsCommitted, PrepareOwns
<1>3. tx.owner # d
  BY DEF DeleteOwns
<1>4. DeleteOwns' /\ TorrentsHaveRows'
  BY <1>3 DEF TypeOK, DeleteOwns, TorrentsHaveRows
<1>. QED
  BY <1>1, <1>2, <1>4

LEMMA BeginStep ==
    ASSUME IInv, NEW d \in Deleters,
           \/ \E h \in Hashes : DeleteOne(d, h)
           \/ \E x \in Indexers : DeleteIndexer(d, x) \/ Cleanup(d, x)
    PROVE  IInv'
<1>0. /\ \A rows \in SUBSET Items : HashesOf(rows) \subseteq Hashes
      /\ \A x : \A rows \in SUBSET Items : OfIndexer(rows, x) \subseteq rows
      /\ db.rows \subseteq Items
  BY ItemParts DEF HashesOf, OfIndexer, IInv, TypeOK, Databases
<1>1. ASSUME NEW h \in Hashes, DeleteOne(d, h)
      PROVE  IInv'
  BY <1>1, DeleteBegins DEF DeleteOne, Del
<1>2. ASSUME NEW x \in Indexers, DeleteIndexer(d, x)
      PROVE  IInv'
  <2> DEFINE todo == HashesOf(OfIndexer(db.rows, x))
             new == Del(IF todo = {} THEN "account" ELSE "row", "account", {x}, todo)
  <2>1. todo \subseteq Hashes
    BY <1>0
  <2>2. del[d].pc = "idle" /\ del' = [del EXCEPT ![d] = new] /\ UNCHANGED <<db, tx, session, prep>>
    BY <1>2 DEF DeleteIndexer
  <2>3. new \in [pc : {"row", "account"}, kind : {"one", "account", "cleanup"},
                 indexers : SUBSET Indexers, todo : SUBSET Hashes,
                 hash : Hashes \union {NoItem}]
    BY <2>1 DEF Del
  <2> HIDE DEF new
  <2>. QED
    BY <2>2, <2>3, DeleteBegins
<1>3. ASSUME NEW x \in Indexers, Cleanup(d, x)
      PROVE  IInv'
  <2>1. PICK found \in SUBSET OfIndexer(db.rows \ db.persisted, x) :
            del' = [del EXCEPT ![d] = Del("row", "cleanup", {x}, HashesOf(found))]
    BY <1>3 DEF Cleanup
  <2>2. HashesOf(found) \subseteq Hashes
    <3>1. db.rows \ db.persisted \in SUBSET Items
      BY <1>0
    <3>. QED
      BY <1>0, <3>1
  <2>. QED
    BY <1>3, <2>1, <2>2, DeleteBegins DEF Cleanup, Del
<1>. QED
  BY <1>1, <1>2, <1>3

\* A deletion that has the lock, or takes it, goes on: its view loses rows.
LEMMA DeleteWrites ==
    ASSUME IInv, NEW d \in Deleters, MayWrite(d),
           NEW state \in Databases, state.rows \subseteq View(d).rows, Write(d, state),
           NEW new,
           new \in [pc : {"relay", "commit"}, kind : {"one", "account", "cleanup"},
                    indexers : SUBSET Indexers, todo : SUBSET Hashes,
                    hash : Hashes \union {NoItem}],
           new.pc = "relay" => new.hash \in Hashes /\ OfHash(state.rows, new.hash) = {},
           session \subseteq
               HashesOf(state.rows) \union (IF new.pc = "relay" THEN {new.hash} ELSE {}),
           del' = [del EXCEPT ![d] = new],
           UNCHANGED <<session, prep>>
    PROVE  IInv'
<1>. USE DEF IInv
<1>1. /\ db' = db /\ tx' = [owner |-> d, db |-> state]
      /\ session' = session /\ prep' = prep /\ del'[d] = new
      /\ \A e \in Deleters : e # d => del'[e] = del[e] /\ del[e].pc \notin {"relay", "commit"}
      /\ \A c \in Clients : prep[c].pc \notin {"add", "commit"}
  BY OneOwner DEF Write, Transaction, MayWrite, TypeOK, PrepareOwns, DeleteOwns
<1>2. View(d).rows \subseteq db.rows
  BY DEF View, DeleteOwns
<1>3. TypeOK'
  BY <1>1 DEF TypeOK
<1>4. ClosedIsCommitted'
  BY <1>1, OneOwner DEF ClosedIsCommitted
<1>5. PrepareOwns'
  BY <1>1, OneOwner DEF PrepareOwns
<1>6. DeleteOwns'
  BY <1>1, <1>2 DEF DeleteOwns
<1>7. TorrentsHaveRows'
  BY <1>1, OneOwner DEF TorrentsHaveRows
<1>. QED
  BY <1>3, <1>4, <1>5, <1>6, <1>7

\* The torrents have rows in the view of a deletion that may write, and is not
\* just between a row and its torrent.
LEMMA ViewHasRows ==
    ASSUME IInv, NEW d \in Deleters, MayWrite(d), del[d].pc # "relay"
    PROVE  session \subseteq HashesOf(View(d).rows) /\ View(d) \in Databases
BY OneOwner DEF IInv, TypeOK, MayWrite, View, TorrentsHaveRows

\* A deletion that does not own the lock gives up.
LEMMA DeleteFails ==
    ASSUME IInv, NEW d \in Deleters, tx.owner # d, DelEnds(d),
           UNCHANGED <<db, tx, session, prep>>
    PROVE  IInv'
<1>. USE DEF IInv, DelEnds, DelIdle, Del
<1>1. TypeOK'
  BY DEF TypeOK
<1>2. ClosedIsCommitted' /\ PrepareOwns'
  BY DEF ClosedIsCommitted, PrepareOwns
<1>3. DeleteOwns' /\ TorrentsHaveRows'
  BY DEF TypeOK, DeleteOwns, TorrentsHaveRows
<1>. QED
  BY <1>1, <1>2, <1>3

LEMMA DeleteRowStep ==
    ASSUME IInv, NEW d \in Deleters, NEW h \in Hashes, DeleteRow(d, h)
    PROVE  IInv'
<1>1. CASE MayWrite(d) /\ Write(d, WithoutHash(View(d), h))
           /\ del' = [del EXCEPT ![d].pc = "relay", ![d].hash = h]
  <2>1. /\ del[d].pc = "row" /\ UNCHANGED <<session, prep>>
        /\ session \subseteq HashesOf(View(d).rows) /\ View(d) \in Databases
    BY <1>1, ViewHasRows DEF DeleteRow
  <2>2. /\ WithoutHash(View(d), h) \in Databases
        /\ WithoutHash(View(d), h).rows \subseteq View(d).rows
        /\ OfHash(WithoutHash(View(d), h).rows, h) = {}
        /\ session \subseteq HashesOf(WithoutHash(View(d), h).rows) \union {h}
    BY <2>1, HashesWithout
  <2> DEFINE new == [del[d] EXCEPT !.pc = "relay", !.hash = h]
  <2>3. /\ new.pc = "relay" /\ new.hash = h /\ del' = [del EXCEPT ![d] = new]
        /\ new \in [pc : {"relay", "commit"}, kind : {"one", "account", "cleanup"},
                    indexers : SUBSET Indexers, todo : SUBSET Hashes,
                    hash : Hashes \union {NoItem}]
    BY <1>1 DEF IInv, TypeOK
  <2> HIDE DEF new
  <2>. QED
    BY <1>1, <2>1, <2>2, <2>3, DeleteWrites
<1>2. CASE ~MayWrite(d) /\ DelEnds(d) /\ UNCHANGED <<db, tx>>
  <2>1. /\ tx.owner # d /\ session' = session /\ prep' = prep /\ db' = db /\ tx' = tx
    BY <1>2 DEF DeleteRow, MayWrite
  <2>. QED
    BY <1>2, <2>1, DeleteFails
<1>. QED
  BY <1>1, <1>2 DEF DeleteRow

LEMMA DeleteTorrentStep ==
    ASSUME IInv, NEW d \in Deleters, DeleteTorrent(d)
    PROVE  IInv'
<1>. USE DEF IInv
<1> DEFINE todo == del[d].todo \ {del[d].hash}
           new == [del[d] EXCEPT !.pc = AfterRelay(d, todo), !.todo = todo]
<1>1. /\ tx.owner = d /\ del[d].pc = "relay" /\ d # NoOne /\ d \notin Clients
      /\ session' = session \ {del[d].hash} /\ db' = db /\ tx' = tx /\ prep' = prep
      /\ del' = [del EXCEPT ![d] = new]
      /\ session \subseteq HashesOf(tx.db.rows) \union {del[d].hash}
  BY OneOwner DEF DeleteTorrent, DeleteOwns, TorrentsHaveRows
<1>2. AfterRelay(d, todo) \in {"row", "account", "commit"}
  BY DEF AfterRelay
<1>3. new \in [pc : {"row", "account", "commit"}, kind : {"one", "account", "cleanup"},
              indexers : SUBSET Indexers, todo : SUBSET Hashes,
              hash : Hashes \union {NoItem}]
  BY <1>2 DEF TypeOK
<1> HIDE DEF new
<1>4. /\ del'[d].pc \in {"row", "account", "commit"}
      /\ \A e \in Deleters : e # d => del'[e] = del[e] /\ del[e].pc \notin {"relay", "commit"}
  BY <1>1, <1>3 DEF TypeOK, DeleteOwns
<1>5. TypeOK'
  BY <1>1, <1>3 DEF TypeOK
<1>6. ClosedIsCommitted' /\ PrepareOwns'
  BY <1>1 DEF ClosedIsCommitted, PrepareOwns
<1>7. DeleteOwns'
  BY <1>1, <1>4 DEF DeleteOwns
<1>8. TorrentsHaveRows'
  BY <1>1, <1>4 DEF TorrentsHaveRows, PrepareOwns
<1>. QED
  BY <1>5, <1>6, <1>7, <1>8

LEMMA DeleteAccountStep ==
    ASSUME IInv, NEW d \in Deleters, DeleteAccount(d)
    PROVE  IInv'
<1>0. del[d].pc = "account" /\ session' = session /\ prep' = prep
  BY DEF DeleteAccount
<1>1. CASE /\ MayWrite(d)
           /\ Write(d, WithoutAccount(View(d), del[d].indexers))
           /\ del' = [del EXCEPT ![d].pc = "commit"]
  <2>1. session \subseteq HashesOf(View(d).rows) /\ View(d) \in Databases
    BY <1>0, <1>1, ViewHasRows
  <2> DEFINE state == WithoutAccount(View(d), del[d].indexers)
             new == [del[d] EXCEPT !.pc = "commit"]
  <2>2. state \in Databases /\ state.rows = View(d).rows
    BY <2>1 DEF WithoutAccount, Databases
  <2>3. /\ new.pc = "commit" /\ del' = [del EXCEPT ![d] = new]
        /\ new \in [pc : {"relay", "commit"}, kind : {"one", "account", "cleanup"},
                    indexers : SUBSET Indexers, todo : SUBSET Hashes,
                    hash : Hashes \union {NoItem}]
    BY <1>1 DEF IInv, TypeOK
  <2>4. Write(d, state)
    BY <1>1
  <2> HIDE DEF state, new
  <2>. QED
    BY <1>0, <1>1, <2>1, <2>2, <2>3, <2>4, DeleteWrites
<1>2. CASE MayWrite(d) /\ DelEnds(d) /\ Rollback
  <2>1. session \subseteq HashesOf(db.rows)
    BY <1>0, <1>2, OneOwner, HashesOfUnion
       DEF IInv, MayWrite, TorrentsHaveRows, DeleteOwns
  <2>2. db' = db /\ tx.owner \in {d, NoOne} /\ del' = [del EXCEPT ![d] = DelIdle]
    BY <1>2 DEF Rollback, MayWrite, DelEnds
  <2>. QED
    BY <1>0, <1>2, <2>1, <2>2, CloseStep
<1>3. CASE ~MayWrite(d) /\ DelEnds(d) /\ UNCHANGED <<db, tx>>
  <2>1. tx.owner # d
    BY <1>3 DEF MayWrite
  <2>. QED
    BY <1>0, <1>3, <2>1, DeleteFails
<1>. QED
  BY <1>1, <1>2, <1>3 DEF DeleteAccount

LEMMA CommitDeleteStep ==
    ASSUME IInv, NEW d \in Deleters, CommitDelete(d)
    PROVE  IInv'
<1>1. tx.owner = d /\ session \subseteq HashesOf(tx.db.rows)
  BY DEF IInv, CommitDelete, DeleteOwns, TorrentsHaveRows
<1>2. db' = tx.db /\ Commit /\ DelEnds(d) /\ session' = session /\ prep' = prep
  BY DEF CommitDelete, Commit
<1>. QED
  BY <1>1, <1>2, CloseStep

-----------------------------------------------------------------------------
LEMMA OtherWritesStep ==
    ASSUME IInv,
           \/ \E x \in Indexers : AddAccount(x)
           \/ \E i \in Items : ProviderSaves(i) \/ \E pinned \in BOOLEAN : Pin(i, pinned)
           \/ Retention
    PROVE  IInv'
<1>0. db \in Databases
  BY DEF IInv, TypeOK
<1>1. ASSUME NEW x \in Indexers, AddAccount(x)
      PROVE  IInv'
  <2>. DEFINE state == [db EXCEPT !.accounts = @ \union {x}]
  <2>1. state \in Databases /\ state.rows = db.rows
    BY <1>0 DEF Databases
  <2>2. WriteAtOnce(state) /\ UNCHANGED <<session, prep, del>>
    BY <1>1 DEF AddAccount
  <2>. HIDE DEF state
  <2>. QED
    BY <2>1, <2>2, AtOnceStep
<1>2. ASSUME NEW i \in Items, ProviderSaves(i)
      PROVE  IInv'
  <2>1. WithFile(i) \in Databases /\ WithFile(i).rows = db.rows
    BY <1>0 DEF WithFile, Databases
  <2>. QED
    BY <1>2, <2>1, AtOnceStep DEF ProviderSaves
<1>3. ASSUME NEW i \in Items, NEW pinned \in BOOLEAN, Pin(i, pinned)
      PROVE  IInv'
  <2>. DEFINE state == [db EXCEPT !.persisted = IF pinned THEN @ \union {i} ELSE @ \ {i}]
  <2>1. state \in Databases /\ state.rows = db.rows
    BY <1>0 DEF Databases
  <2>2. WriteAtOnce(state) /\ UNCHANGED <<session, prep, del>>
    BY <1>3 DEF Pin
  <2>. HIDE DEF state
  <2>. QED
    BY <2>1, <2>2, AtOnceStep
<1>4. CASE Retention
  <2>1. PICK expired \in SUBSET (db.files \ db.rows) :
            WriteAtOnce([db EXCEPT !.files = @ \ expired])
    BY <1>4 DEF Retention
  <2>. DEFINE state == [db EXCEPT !.files = @ \ expired]
  <2>2. state \in Databases /\ state.rows = db.rows
    BY <1>0 DEF Databases
  <2>3. WriteAtOnce(state) /\ UNCHANGED <<session, prep, del>>
    BY <1>4, <2>1 DEF Retention
  <2>. HIDE DEF state
  <2>. QED
    BY <2>2, <2>3, AtOnceStep
<1>. QED
  BY <1>1, <1>2, <1>3, <1>4

LEMMA RestartStep ==
    ASSUME IInv, Restart
    PROVE  IInv'
<1>. USE DEF IInv
<1>1. /\ db' = db /\ db \in Databases /\ tx' = [owner |-> NoOne, db |-> db]
      /\ session' \subseteq HashesOf(db.rows) /\ HashesOf(db.rows) \subseteq Hashes
      /\ prep' = [c \in Clients |-> PrepIdle] /\ del' = [d \in Deleters |-> DelIdle]
  BY ItemParts DEF Restart, NoTx, Transaction, TypeOK, Databases, HashesOf
<1>2. TypeOK'
  BY <1>1 DEF TypeOK, PrepIdle, Prep, DelIdle, Del
<1>3. ClosedIsCommitted' /\ PrepareOwns' /\ DeleteOwns'
  BY <1>1, OneOwner DEF ClosedIsCommitted, PrepareOwns, DeleteOwns, PrepIdle, Prep,
     DelIdle, Del
<1>4. TorrentsHaveRows'
  BY <1>1, OneOwner DEF TorrentsHaveRows, PrepIdle, Prep
<1>. QED
  BY <1>2, <1>3, <1>4

\* The invariant is inductive.
LEMMA NextIInv == IInv /\ [Next]_vars => IInv'
<1>. SUFFICES ASSUME IInv, [Next]_vars
     PROVE  IInv'
  OBVIOUS
<1>1. CASE Next
  <2>1. ASSUME NEW c \in Clients, PrepareStep(c) \/ \E i \in Items : Request(c, i)
        PROVE  IInv'
    BY <2>1, ReadStep, InsertStep, AddStep, CommitRowStep DEF PrepareStep
  <2>2. ASSUME NEW d \in Deleters,
               \/ DeleteStep(d)
               \/ \E h \in Hashes : DeleteOne(d, h)
               \/ \E x \in Indexers : DeleteIndexer(d, x) \/ Cleanup(d, x)
        PROVE  IInv'
    BY <2>2, BeginStep, DeleteRowStep, DeleteTorrentStep, DeleteAccountStep,
       CommitDeleteStep DEF DeleteStep
  <2>. QED
    BY <1>1, <2>1, <2>2, OtherWritesStep, RestartStep DEF Next
<1>2. CASE UNCHANGED vars
  BY <1>2 DEF vars, IInv, TypeOK, ClosedIsCommitted, PrepareOwns, DeleteOwns,
     TorrentsHaveRows
<1>. QED
  BY <1>1, <1>2

\* In every reachable state: the lock, the rows and the torrents agree.
THEOREM Invariance == Spec => []IInv
BY InitIInv, NextIInv, PTL DEF Spec

\* The rows, the torrents and the requests have their types.
THEOREM TypeCorrect == Spec => []TypeOK
<1>1. IInv => TypeOK
  BY DEF IInv
<1>. QED
  BY <1>1, Invariance, PTL

\* The relay never seeds a torrent without a row, once no transaction is open.
THEOREM NoOrphanHolds == Spec => []NoOrphan
<1>1. IInv => NoOrphan
  BY DEF IInv, TorrentsHaveRows, NoOrphan
<1>. QED
  BY <1>1, Invariance, PTL

-----------------------------------------------------------------------------
\* Nothing is stranded by a step after which the writer sees no more rows, the
\* relay has all its torrents and a request that adds its torrent still does.
LEMMA NothingStranded ==
    ASSUME Current'.rows \subseteq Current.rows, session \subseteq session',
           \A c \in Clients : tx.owner = c /\ prep[c].pc = "add" =>
               tx'.owner = c /\ prep'[c] = prep[c]
    PROVE  Stranded' \subseteq Stranded
BY DEF Stranded

\* Nor by a step of a request, the new row of which is excused while its
\* torrent is added, and was not there before if it is taken back.
LEMMA PrepareStrands ==
    ASSUME IInv, NEW c \in Clients, PrepareStep(c) \/ \E i \in Items : Request(c, i)
    PROVE  Stranded' \subseteq Stranded
<1>. USE DEF IInv
<1>1. ASSUME prep[c].pc \notin {"add", "commit"}, UNCHANGED <<session, tx, db>>,
             \A e \in Clients : e # c => prep'[e] = prep[e]
      PROVE  Stranded' \subseteq Stranded
  BY <1>1, NothingStranded DEF Current, PrepareOwns
<1>2. ASSUME \/ \E i \in Items : Request(c, i)
             \/ FindRow(c) \/ FindTorrent(c) \/ FindFile(c) \/ Download(c)
      PROVE  Stranded' \subseteq Stranded
  BY <1>1, <1>2 DEF Request, FindRow, FindTorrent, FindFile, Download, Goto, PrepEnds,
     TypeOK
<1>3. CASE SaveFile(c)
  <2>1. CASE UNCHANGED <<db, tx>> /\ PrepEnds(c)
    BY <1>1, <1>3, <2>1 DEF SaveFile, PrepEnds, TypeOK
  <2>2. CASE WriteAtOnce(WithFile(prep[c].item)) /\ Goto(c, "insert")
    <3>1. /\ tx.owner = NoOne /\ tx' = NoTx(db') /\ db'.rows = db.rows /\ session' = session
      BY <1>3, <2>2 DEF WriteAtOnce, SaveFile, WithFile, TypeOK, Databases
    <3>. QED
      BY <3>1, OneOwner, NothingStranded DEF Current, NoTx, Transaction
  <2>. QED
    BY <1>3, <2>1, <2>2 DEF SaveFile
<1>4. CASE Insert(c)
  <2>1. CASE PrepEnds(c) /\ UNCHANGED <<db, tx>>
    BY <1>1, <1>4, <2>1 DEF Insert, PrepEnds, TypeOK
  <2>2. CASE MayWrite(c) /\ Write(c, WithRow(prep[c].item)) /\ Goto(c, "add")
    <3>1. /\ tx.owner = NoOne /\ tx'.owner = c /\ tx'.db.rows = db.rows \union {prep[c].item}
          /\ session' = session /\ prep'[c].pc = "add" /\ prep'[c].item = prep[c].item
      BY <1>4, <2>2 DEF Insert, MayWrite, Write, Transaction, WithRow, Goto, TypeOK,
         Databases, PrepareOwns
    <3>. QED
      BY <3>1, OneOwner DEF Stranded, Current
  <2>. QED
    BY <1>4, <2>1, <2>2 DEF Insert
<1>5. CASE Add(c)
  <2>1. /\ tx.owner = c /\ tx.owner # NoOne /\ prep[c].item \notin db.rows
        /\ tx.db.rows = db.rows \union {prep[c].item}
    BY <1>5, OneOwner DEF Add, PrepareOwns
  <2>2. CASE session' = session \union {Hash(prep[c].item)} /\ UNCHANGED <<db, tx>>
    BY <2>1, <2>2 DEF Stranded, Current
  <2>3. CASE session' = session /\ Rollback
    BY <2>1, <2>3 DEF Stranded, Current, Rollback, NoTx, Transaction
  <2>. QED
    BY <1>5, <2>2, <2>3 DEF Add
<1>6. CASE CommitRow(c)
  <2>1. tx.owner = c /\ tx.owner # NoOne /\ prep[c].pc = "commit"
    BY <1>6, OneOwner DEF CommitRow, PrepareOwns
  <2>2. session' = session /\ tx' = NoTx(tx.db) /\ db' = tx.db
    BY <1>6 DEF CommitRow, Commit
  <2>. QED
    BY <2>1, <2>2, NothingStranded DEF Current, NoTx, Transaction
<1>. QED
  BY <1>2, <1>3, <1>4, <1>5, <1>6 DEF PrepareStep

\* A deletion takes a torrent only when no row of it is left in its view, so
\* that only its rollback can strand a row.
LEMMA DeleteStrands ==
    ASSUME IInv, NEW d \in Deleters,
           \/ DeleteStep(d)
           \/ \E h \in Hashes : DeleteOne(d, h)
           \/ \E x \in Indexers : DeleteIndexer(d, x) \/ Cleanup(d, x)
    PROVE  Stranded' \subseteq Stranded \/ RollsBack
<1>. USE DEF IInv
<1>1. ASSUME UNCHANGED <<db, tx, session, prep>>
      PROVE  Stranded' \subseteq Stranded
  BY <1>1 DEF Stranded, Current
<1>2. CASE \/ \E h \in Hashes : DeleteOne(d, h)
           \/ \E x \in Indexers : DeleteIndexer(d, x) \/ Cleanup(d, x)
  BY <1>1, <1>2 DEF DeleteOne, DeleteIndexer, Cleanup
<1>3. ASSUME NEW state \in Databases, MayWrite(d), Write(d, state),
             state.rows \subseteq View(d).rows, UNCHANGED <<session, prep>>
      PROVE  Stranded' \subseteq Stranded
  BY <1>3, OneOwner, NothingStranded DEF Write, Transaction, MayWrite, View, Current
<1>4. ASSUME MayWrite(d)
      PROVE  View(d) \in Databases
  BY <1>4 DEF View, TypeOK
<1>5. ASSUME NEW h \in Hashes, DeleteRow(d, h)
      PROVE  Stranded' \subseteq Stranded
  <2>1. CASE MayWrite(d) /\ Write(d, WithoutHash(View(d), h))
    BY <1>3, <1>4, <1>5, <2>1, HashesWithout DEF DeleteRow
  <2>2. CASE UNCHANGED <<db, tx>>
    BY <1>1, <1>5, <2>2 DEF DeleteRow
  <2>. QED
    BY <1>5, <2>1, <2>2 DEF DeleteRow
<1>6. CASE DeleteTorrent(d)
  <2>1. /\ tx.owner = d /\ tx.owner # NoOne /\ tx.owner \notin Clients
        /\ OfHash(tx.db.rows, del[d].hash) = {}
        /\ session' = session \ {del[d].hash} /\ tx' = tx /\ db' = db
    BY <1>6, OneOwner DEF DeleteTorrent, DeleteOwns
  <2>. QED
    BY <2>1 DEF Stranded, Current, OfHash
<1>7. CASE DeleteAccount(d)
  <2>1. CASE MayWrite(d) /\ Write(d, WithoutAccount(View(d), del[d].indexers))
    <3>1. /\ WithoutAccount(View(d), del[d].indexers) \in Databases
          /\ WithoutAccount(View(d), del[d].indexers).rows = View(d).rows
      BY <1>4, <2>1 DEF WithoutAccount, Databases
    <3>. QED
      BY <1>3, <1>7, <2>1, <3>1 DEF DeleteAccount
  <2>2. CASE MayWrite(d) /\ Rollback
    <3>1. CASE tx.owner = d
      BY <2>2, <3>1 DEF RollsBack, Rollback, NoTx, Transaction
    <3>2. CASE tx.owner = NoOne
      BY <1>7, <2>2, <3>2, OneOwner, NothingStranded
         DEF DeleteAccount, Rollback, NoTx, Transaction, Current
    <3>. QED
      BY <2>2, <3>1, <3>2 DEF MayWrite
  <2>3. CASE UNCHANGED <<db, tx>>
    BY <1>1, <1>7, <2>3 DEF DeleteAccount
  <2>. QED
    BY <1>7, <2>1, <2>2, <2>3 DEF DeleteAccount
<1>8. CASE CommitDelete(d)
  <2>1. /\ tx.owner = d /\ tx.owner # NoOne /\ tx.owner \notin Clients
        /\ db' = tx.db /\ tx' = NoTx(tx.db) /\ session' = session
    BY <1>8, OneOwner DEF CommitDelete, DeleteOwns, Commit
  <2>. QED
    BY <2>1, NothingStranded DEF Current, NoTx, Transaction
<1>. QED
  BY <1>2, <1>5, <1>6, <1>7, <1>8 DEF DeleteStep

LEMMA OtherWritesStrand ==
    ASSUME IInv,
           \/ \E x \in Indexers : AddAccount(x)
           \/ \E i \in Items : ProviderSaves(i) \/ \E pinned \in BOOLEAN : Pin(i, pinned)
           \/ Retention
    PROVE  Stranded' \subseteq Stranded
<1>1. /\ tx.owner = NoOne /\ tx' = NoTx(db') /\ db'.rows = db.rows /\ session' = session
  BY DEF IInv, TypeOK, Databases, AddAccount, ProviderSaves, Pin, Retention, WriteAtOnce,
     WithFile
<1>. QED
  BY <1>1, OneOwner, NothingStranded DEF Current, NoTx, Transaction

\* Only the rollback of a deletion, or a restart that cannot restore it, leaves
\* a row without its torrent.
THEOREM OnlyRollbackStrandsHolds == Spec => OnlyRollbackStrands
<1>1. IInv /\ [Next]_vars => [Stranded' \subseteq Stranded \/ RollsBack \/ Restart]_vars
  <2>. SUFFICES ASSUME IInv, Next
       PROVE  Stranded' \subseteq Stranded \/ RollsBack \/ Restart
    OBVIOUS
  <2>. QED
    BY PrepareStrands, DeleteStrands, OtherWritesStrand DEF Next
<1>. QED
  BY <1>1, Invariance, PTL DEF Spec, OnlyRollbackStrands

-----------------------------------------------------------------------------
(* Pinned torrents. *)

\* A clean-up begins in no other way than by its own look for rows.
LEMMA OnlyCleanupBegins ==
    ASSUME IInv, [Next]_vars, NEW d \in Deleters,
           del[d].pc = "idle", del'[d].pc = "row", del'[d].kind = "cleanup"
    PROVE  \E x \in Indexers : Cleanup(d, x)
<1>. USE DEF IInv
<1>1. ASSUME del'[d] = del[d]
      PROVE  FALSE
  BY <1>1
<1>2. ASSUME NEW c \in Clients, PrepareStep(c) \/ \E i \in Items : Request(c, i)
      PROVE  FALSE
  BY <1>1, <1>2 DEF PrepareStep, Request, FindRow, FindTorrent, FindFile, Download, SaveFile,
     Insert, Add, CommitRow
<1>3. ASSUME NEW e \in Deleters, DeleteStep(e)
      PROVE  FALSE
  <2>1. /\ del[e].pc # "idle"
        /\ \A f \in Deleters : f # e => del'[f] = del[f]
    BY <1>3 DEF DeleteStep, DeleteRow, DeleteTorrent, DeleteAccount, CommitDelete, DelEnds, TypeOK
  <2>. QED
    BY <1>1, <2>1
<1>4. ASSUME NEW e \in Deleters, NEW h \in Hashes, DeleteOne(e, h)
      PROVE  FALSE
  BY <1>1, <1>4 DEF DeleteOne, Del, TypeOK
<1>5. ASSUME NEW e \in Deleters, NEW x \in Indexers, DeleteIndexer(e, x)
      PROVE  FALSE
  BY <1>1, <1>5 DEF DeleteIndexer, Del, TypeOK
<1>6. ASSUME NEW e \in Deleters, NEW x \in Indexers, Cleanup(e, x)
      PROVE  e = d
  BY <1>1, <1>6 DEF Cleanup, TypeOK
<1>7. ASSUME \/ \E x \in Indexers : AddAccount(x)
             \/ \E i \in Items : ProviderSaves(i) \/ \E pinned \in BOOLEAN : Pin(i, pinned)
             \/ Retention
             \/ UNCHANGED vars
      PROVE  FALSE
  BY <1>1, <1>7 DEF AddAccount, ProviderSaves, Pin, Retention, vars
<1>8. ASSUME Restart
      PROVE  FALSE
  BY <1>8 DEF Restart, DelIdle, Del
<1>. QED
  BY <1>2, <1>3, <1>4, <1>5, <1>6, <1>7, <1>8 DEF Next

\* What a clean-up is about to delete are info hashes of rows of its indexer that are not pinned.
LEMMA CleanupFinds ==
    ASSUME IInv, NEW d \in Deleters, NEW x \in Indexers, Cleanup(d, x)
    PROVE  /\ del'[d].indexers = {x}
           /\ \A h \in del'[d].todo : \E i \in db.rows \ db.persisted : Indexer(i) = x /\ Hash(i) = h
<1>1. PICK found \in SUBSET OfIndexer(db.rows \ db.persisted, x) :
         del' = [del EXCEPT ![d] = Del("row", "cleanup", {x}, HashesOf(found))]
  BY DEF Cleanup
<1>2. del'[d].indexers = {x} /\ del'[d].todo = HashesOf(found)
  BY <1>1 DEF IInv, TypeOK, Del
<1>. QED
  BY <1>1, <1>2 DEF HashesOf, OfIndexer

\* A clean-up never finds what is pinned for its own indexer (torrents/repository.py:57): the pin
\* that it passes over is that of another indexer's row.
OwnPinsSpared ==
    [][\A d \in Deleters :
        del[d].pc = "idle" /\ del'[d].pc = "row" /\ del'[d].kind = "cleanup" =>
            \A i \in db.persisted :
                Indexer(i) \in del'[d].indexers => Hash(i) \notin del'[d].todo]_vars

\* What a clean-up finds for an indexer holds no info hash of a row pinned there, since an indexer
\* offers an info hash once.
THEOREM OwnPinsSparedHolds == Spec => OwnPinsSpared
<1>1. IInv /\ [Next]_vars =>
        [\A d \in Deleters :
            del[d].pc = "idle" /\ del'[d].pc = "row" /\ del'[d].kind = "cleanup" =>
                \A i \in db.persisted :
                    Indexer(i) \in del'[d].indexers => Hash(i) \notin del'[d].todo]_vars
  <2>. SUFFICES ASSUME IInv, [Next]_vars, NEW d \in Deleters,
                       del[d].pc = "idle", del'[d].pc = "row", del'[d].kind = "cleanup",
                       NEW i \in db.persisted, Indexer(i) \in del'[d].indexers,
                       Hash(i) \in del'[d].todo
       PROVE  FALSE
    OBVIOUS
  <2>1. PICK x \in Indexers : Cleanup(d, x)
    BY OnlyCleanupBegins
  <2>2. Indexer(i) = x /\ \E j \in db.rows \ db.persisted : Indexer(j) = x /\ Hash(j) = Hash(i)
    BY <2>1, CleanupFinds
  <2>3. db.rows \subseteq Items /\ db.persisted \subseteq Items
    BY DEF IInv, TypeOK, Databases
  <2>4. \A j \in Items : Indexer(j) = Indexer(i) /\ Hash(j) = Hash(i) => j = i
    BY <2>3, ConstantsOK DEF Indexer, Hash
  <2>. QED
    BY <2>2, <2>3, <2>4
<1>. QED
  BY <1>1, Invariance, PTL DEF Spec, OwnPinsSpared

\* The tooltip of the pin is right where no two indexers offer the same info hash: the shared hash
\* is the only way for a clean-up to delete a torrent that is pinned (torrents/repository.py:46, :57).
THEOREM PinnedSparedUnlessShared ==
    ASSUME \A i, j \in Items : Hash(i) = Hash(j) => i = j
    PROVE  Spec => PinnedSpared
<1>1. IInv /\ [Next]_vars =>
        [\A d \in Deleters :
            del[d].pc = "idle" /\ del'[d].pc = "row" /\ del'[d].kind = "cleanup" =>
                HashesOf(db.persisted) \intersect del'[d].todo = {}]_vars
  <2>. SUFFICES ASSUME IInv, [Next]_vars, NEW d \in Deleters,
                       del[d].pc = "idle", del'[d].pc = "row", del'[d].kind = "cleanup",
                       NEW i \in db.persisted, Hash(i) \in del'[d].todo
       PROVE  FALSE
    BY DEF HashesOf
  <2>1. PICK x \in Indexers : Cleanup(d, x)
    BY OnlyCleanupBegins
  <2>2. PICK j \in db.rows \ db.persisted : Hash(j) = Hash(i)
    BY <2>1, CleanupFinds
  <2>3. i \in Items /\ j \in Items
    BY DEF IInv, TypeOK, Databases
  <2>. QED
    BY <2>2, <2>3
<1>. QED
  BY <1>1, Invariance, PTL DEF Spec, PinnedSpared
=============================================================================
