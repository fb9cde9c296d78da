# StremHU Source: specifications, model checks and proofs

StremHU Source is a server that lets its users watch torrents while they are
downloaded. It is one Python process: a FastAPI application on an asyncio event
loop (`src/server/app`), a libtorrent session embedded in it (the *relay*), and an
SQLite database. This directory holds TLA+ models of the parts of that process
where the order of events matters, TLC configurations that check them on small
instances, and TLAPS proofs for instances of every size.

Paths below are relative to `src/server/app/` unless they begin with `src/`.

    tlasany M.tla                              parse a module
    tlc -workers 2 -config MCx.cfg MCx         check a run
    tlapm M_proofs.tla                         check the proofs

## 1. Inventory

### 1.1 How the program runs

Everything that is `async` runs on one event loop, so that two coroutines interleave
at their `await`s and nowhere else: **in the models, the code between two awaits is
one action.** Four things break this simple picture, and most hazards come from them.

- **libtorrent's own threads** verify pieces, read them from disk and post alerts.
  They step between any two steps of the loop.
- **`asyncio.to_thread`**: the priority manager and some database work
  run in worker threads. Each access they make to shared state is an action of its own.
- **Cancellation**: a client that goes away, or `asyncio.wait_for`, raises
  `CancelledError` at whatever a task awaits; it is not an `Exception`, so that
  `except Exception` does not see it, and it cancels the future the task awaits.
- **Transactions**: a request's session commits when the request ends, what it did to
  libtorrent or to the disk has happened long before.

### 1.2 Components

| Component | Code | State | Operations | Status |
|---|---|---|---|---|
| Keyed lock | `common/keyed_lock.py` | a lock and a reference count per key in use | enter, wait, cancel, leave | modelled |
| Relay: piece fetch | `modules/relay/service.py` | futures and tasks per piece; libtorrent's pieces, reads and alerts | `get_piece_data`, retry, `process_alerts`, deletion and re-addition of a torrent | modelled |
| Relay: streams and priorities | `modules/relay/entities.py`, `service.py` | streams with their current piece; priority, connection limit and deadlines of a torrent; the queue of runs | stream life cycle, `priority_manager`, `update_settings`, `update_default_priority` | modelled |
| Indexer session | `modules/indexer_definitions/base_indexer_definition.py` | semaphore, cookies, the future of a login in progress | `request`, `relogin`, `login`, timeouts of the callers | partly (the HTTP client's own retries are left out) |
| Stream preparation, torrent life cycle | `modules/stream`, `modules/torrents` | torrent rows, the relay's torrents, resume data | prepare a stream, add, delete, restore, save resume data, retention, priorities in bulk | partly |
| Torrent file cache | `modules/torrent_files` | cached `.torrent` files (row and bytes) | create, touch, clean up | partly |
| Torrent source provider | `modules/torrent_source_provider` | lookups in progress, the session each runs on | shared lookup, search, download and save what is missing | modelled |
| Network settings | `modules/network`, `modules/system`, `boot/network.py` | the settings row, DNS records, certificate, set-up in progress | set up, roll back, sync the address, renew, restart, boot | modelled |
| Indexer accounts | `modules/indexers`, `modules/indexer_accounts` | the account row, the client's cookies, a cached user id | log in, renew the session, delete, clean up by hit-and-run | partly |
| Playback limit and history | `modules/playbacks`, `modules/playback_histories` | streams per user, history rows | check the limit, prepare, record, register | modelled |
| Pairings | `modules/pairings` | codes with a status and an expiry | create, authorise, poll, expire, clean up | modelled |
| Torrent selection | `modules/torrent_streams`, `modules/media_attributes` | none (pure) | read names, filter, rank, group, choose the file | modelled |
| Byte ranges | `modules/stream/service.py`, `modules/relay/entities.py` | the piece a stream is at and what is left of it | parse the header, cut the pieces, send chunks | modelled |
| Users, authentication | `modules/users`, `modules/auth` | account rows, session cookies | register, sign in and out, create, update and delete accounts | modelled |
| Preferences | `modules/user_preference_definitions`, `system_preference_definitions`, `preference_definitions`, `attribute_exclusions` | ordered rows per owner | create, update, delete, reorder, remove an attribute | partly (no exclusions) |
| System and relay settings | `modules/settings`, `modules/relay_settings` | one row each | read, write, tell the relay | not modelled (what they change is, in StreamPriority and IndexerAccounts) |
| Indexer integrations | `modules/indexer_definitions/integrations` | none | read the pages of seven sites | partly (what is made of a page, not the selectors) |
| Torznab interface | `modules/torznab` | none | parse a query, search, order, cut a page | modelled |
| Stremio and Kodi interfaces | `modules/stremio`, `modules/kodi` | none | format answers | not modelled |
| Application shell | `main.py`, `scheduler.py`, `sync.py` | jobs | start, schedule, stop | not modelled on its own |

The web client (`src/client`) talks to the server over HTTP and keeps nothing the
server depends on; it is not modelled.

### 1.3 How they interact

A player asks `stream/router.py` for a byte range. `StreamService` prepares the
torrent under a **keyed lock** for its id: it finds the row and the relay's torrent, or gets
the `.torrent` file from the **cache** or from the site through the **indexer session**, inserts
the row and adds the torrent to the **relay**. Then it makes a **stream**, which
registers itself with its file, asks for runs of the **priority manager** as it moves, and gets its pieces from
the **piece fetch**. The playback is recorded under a second keyed lock. Scheduled jobs save
resume data, clean up torrents (**accounts**, retention) and renew certificates
(**network**) in the same process at the same time.

### 1.4 What is hard, and what makes each component correct

The full list, at its lines, is `hazards` in `PROJECT.json`. In short:

- **Keyed lock.** A lock object is created and dropped with its users while
  others queue and are cancelled. Correct: one body per key, the dictionary holds
  exactly the keys in use, a queued task is served.
- **Piece fetch.** A piece may finish between any two lines of the code that looks for it;
  its alert and several read results may be drained in one batch; streams join, leave and
  are cancelled; the torrent may be deleted and added again under a waiting task.
  Correct: one fetch per piece, no lost wake-up, a bounded number of reads, everybody who
  waits for an existing piece is answered.
- **Streams and priorities.** The manager reads the streams from a thread while they change,
  and requests for a run are merged. Correct: whenever all is quiet, what
  libtorrent was told fits the streams there are now; the piece a stream waits for becomes urgent.
- **Indexer session.** Many requests meet one expired session; the login that repairs it
  needs the semaphore they use; any of them may time out as leader or as follower.
  Correct: one login at a time, no permit lost, every request ends.
- **Torrent life cycle.** Database, relay and disk are changed in one operation that can fail
  in the middle or be cut off by a crash, by several requests at once, and two rows may share a torrent of the relay.
  Correct: the relay never seeds a torrent without a row; a row keeps its torrent until it is deleted.
- **Byte ranges.** A file begins and ends anywhere in its pieces; header, pieces, offsets and chunks each have their own
  idea of an end. Correct: what is sent is what was asked for, to the byte.
- **Torrent source provider.** A lookup is shared by awaiting one task, which runs on the database session of whoever
  started it. Correct: nobody is given an outcome from before the call, a file is downloaded once, and the rows of a lookup
  are readable for whoever started it (a follower may come too late for them).
- **Network.** DNS record, certificate and settings are three systems with one rollback, and a set-up, a five-minute job and a
  daily job read the row long before they write it. Correct: the certificate in the settings is for the host in the settings; the record heals;
  the process comes to serve what the settings say.
- **Indexer accounts.** The client of a site outlives the account, and a site's list decides what is deleted.
  Correct: what the site's list wanted seeded when it was read is not deleted.
- **Users, preferences, playback limit, pairings.** Handlers run in threads and look before they write. Correct: once there is an account there is one, but for
  two administrators who delete each other at once (the last administrator may still demote himself); preferences are numbered without gaps; the limit is only
  exceeded by starts that overlap and by streams whose torrent was deleted or added again under them; a code links the device it was read from.
- **Selection, searches, Torznab.** Rules that are each simple and meet in one place: folders that inherit seasons, categories with one or several
  attributes, pages that repeat. Correct: they agree with a definition that is written the other way round.

## 2. Modules

| Module | Models | Abstract specification | Proofs |
|---|---|---|---|
| `KeyedLock` | `common/keyed_lock.py` | `KeyedMutex` | `KeyedLock_proofs` |
| `PieceFetch` | the piece path of `RelayService` | `SingleFlight` | `PieceFetch_proofs` |
| `IndexerSession` | `IndexerClient.request`, `relogin`, `login` | | `IndexerSession_proofs` |
| `StreamPriority` | `Stream`, `File`, `Torrent`, the manager's loop | | `StreamPriority_proofs` |
| `TorrentLifecycle` | `prepare_for_stream`, the deletions, the file cache, restore | | `TorrentLifecycle_proofs` |
| `RangeStream` | `_parse_range_header`, `_stream_inner` | | `Answers_proofs` |
| `TorrentProvider` | `TorrentSourceProviderService` and the searches it starts | | `Services_proofs` |
| `NetworkSettings` | `NetworkService`, the certificate, the DDNS providers, restart and boot | | `Services_proofs` |
| `Playbacks` | the limit of playbacks around `stream/router.py` | | `Handlers_proofs` |
| `Pairings` | `PairingsService` | | `Handlers_proofs` |
| `Accounts` | `UsersService`, the guards, `auth/router.py` | | `Handlers_proofs` |
| `Preferences` | the three services of preference definitions | | `Handlers_proofs` |
| `Orders` | Python's sort and list comprehensions, as the others use them | | `Answers_proofs` |
| `Selection` | `StreamFileResolver`, `SeriesParser` | a reference definition in the property | `Answers_proofs` |
| `Ranking` | `TorrentStreamsService`, the attribute parser | a reference definition in the property | `Answers_proofs` |
| `Integrations` | the code of the seven sites, as operators | | |
| `IndexerSearch` | the searches of `BaseIndexerDefinition` over `Integrations` | a reference definition in the property | `Answers_proofs` |
| `IndexerAccounts` | accounts, sign-ins and clean-up over `Integrations` | | `Services_proofs` |
| `Torznab` | the Torznab query, search and pages | a reference definition in the property | `Answers_proofs` |
| `MCServer` | one run of the components from `TorrentProvider` on | | |

The `MC*` modules give the constants of the runs what a `.cfg` cannot say.

### 2.1 KeyedLock

`locks` and `refCounts` are `_locks` and `_ref_counts`. A lock object has an identity
from `LockObjs` and can be reused only when neither the dictionary nor a task refers to it;
that is what makes "two bodies under two objects for one key" expressible. `Enter` is
`__call__` up to its first suspension, `Resume` the acquisition by the first waiter, `Cancel` a
waiter that is cancelled, `Leave` the release and the `finally` block, which run without a
suspension between them. `asyncio.Lock` is modelled from its use.

The refinement: the set of running bodies, with their keys, behaves as `KeyedMutex`, in which a
body starts under a key only when none runs there.

### 2.2 PieceFetch

`fetchTask` is `_piece_fetch_tasks`, `pending` is `_pending_piece_reads` (a future is named by
the task that made it), and `task` and `reader` say where fetch tasks and streams stand. `handle`, `have`,
`reads` and `alerts` are libtorrent. A handle is the number of the addition it belongs to, so
that a stream that outlives a deletion holds an invalid one, on which `have_piece`
raises as it does in the code, after the future is registered and before the `try` block.
`ProcessAlerts` handles the whole batch that was posted; because an alert touches only its own
piece, the batch is a function per piece. Of it: the alert of the finished piece asks for a read if a
future is registered, the first result resolves the future, the others find none.

The refinement: live tasks are the flights of `SingleFlight`; a stream that awaits one waits for
its piece; a task that ends lands for all its waiters at once; a stream that disconnects leaves
the flight alone (`asyncio.shield`).

### 2.3 IndexerSession

A request is one task. `pc` and `stage` say where it stands: queued for the semaphore, sent,
reading credentials, saving cookies, following somebody's login; for its first sending,
the login it leads, or its retry. A future is named by its leader. `Timeout` is
`asyncio.wait_for`: it takes the task out of the queue or returns its permit, and cancels the
future that the task awaits, for a follower the shared one. A permit that is free is taken without a suspension (`Acquire`), so that
a request, a login or a retry goes out in the step that decides it, unless it has to queue; the answer of a thread comes after what the loop has
scheduled before it (`Scheduled`). What a response to a
login means is a constant (`LoginVerdicts`), because each site decides it: accepted, rejected, or
"session expired" (which is what the detector of filelist says of its own login page).

Partly modelled: the pages of the sites, searches and downloads above `request`, and the database
rows the credentials and cookies are kept in are left out.

### 2.4 StreamPriority

Streams go through created, running, ending and destroying; the pause in `destroy()` separates the last
two, and a stream whose generator never starts is *leaked*: it stays registered. The run of
`priority_manager` is one step per access to shared state: look at the streams, then call libtorrent
with what was seen. `queued` is the set of torrents for which a run is asked, with one torrent a
Boolean. Deadlines are computed as in `get_deadlines`: the first `Prefetch`
missing pieces from the current one on, wrapped around the end of the file, at 2000 + 1000 ms per piece of
distance, 0 for the current one, and 0 for the boundary pieces; the least wins.

What libtorrent was told and what `Torrent` remembers are one variable, except for the
connection limit: `update_settings` sets it on every handle and tells no `Torrent`.

### 2.5 TorrentLifecycle

An *item* is what an indexer offers: an indexer and an info hash. `db` is what SQLite has committed: the accounts, the
cached `.torrent` files, the torrent rows and the pinned ones among them. `tx` is the open write transaction, with
the database as its owner sees it; SQLite has one writer, whose first writing statement takes the lock
(`connect_args` waits ten seconds for it and fails), and readers see what is committed. A transaction that does nothing between
its first write and its commit is one action (`WriteAtOnce`). `session` is the set of info hashes in the relay.

A request goes through `FindRow` ... `CommitRow`, one action per database statement or call of the relay, each of which
may fail; the keyed lock of the item is the guard of `Request` (that it excludes is KeyedLock's). A deletion has a list of info
hashes, deletes the rows of one, then its torrent, and so on; the account comes last and can be refused by the
foreign key of a row that was inserted after the look-up, which rolls everything back. `Restart` may happen at any
point: it empties the relay, drops the transaction and restores the rows' torrents, each of which may fail by itself.

The model takes for granted that an indexer offers an info hash under one id, and that a commit that is reached succeeds.
Not in it: `full_download` and the priorities it sets, resume data, `touch`, and the clean-ups of two accounts that run in two
threads over one session.

### 2.6 RangeStream

One stream, from the header of its request to the last byte it sends. Bytes are named by their position in the
torrent, so that `sent` says which bytes went out and in which order. `PieceOf`, `StartOffset`, `EndOffset` and `Slice` are the code's own
arithmetic; the last piece of a torrent is as short as libtorrent makes it, and a slice is cut at the end of the buffer, as
Python's is. A header is its kind and its numbers; *malformed* stands for everything answered by 416 because of its form, and for
what `int()` and `split()` raise on. `Requested` says what a header asks for as a set, without the code's arithmetic. How a piece is
waited for is PieceFetch's; here it is there, or the stream breaks off.

An empty file (`size` 0) passes the parser when there is no header, as the range 0 to -1; it sends nothing, but it may
wait for the piece it would be in (`PieceOfFile` says so).

### 2.7 TorrentProvider

A request is one call of the provider and what its caller does with the answer; the task it starts has its name. `ongoing` is
`_ongoing_tasks`. `JoinLookup` and `StartLookup` are the two branches up to the first await, `LeaderWakes` runs the `finally` block. The
lookup goes through `Search` (any set of indexers answers), `ListFiles` (the cached rows), and per missing file `Acquire`, `Check`, `Download` and
`SaveFile` under the keyed lock of the item, which is a guard here. `closed` holds the requests whose session has been committed and
closed. The rows that were read in it can no longer be loaded then, and each source has one, that of the indexer's account, whether its file was cached or freshly downloaded (`Detached`). `StreamSaves` and `Retention`
change the cache from outside, and the former is the conflict a lookup can lose.

### 2.8 NetworkSettings

`settings` is the committed row, `tx` the open write transaction, `served` the row the process was started with. A set-up is a request
(`Ask`, `Wake`, `EndRequest`) and a task of the same name with its stages (`ReadSettings`, `SelfSign`, `Locate`, `Point`, `Reach`, `Restore`, `Challenge`,
`Prove`, `ClearTxt`, `SaveSetup`); a second request joins the task of the first. `SyncStep` is the five-minute job, `RenewalStep` the daily one, which
shares `Challenge`, `Prove` and `ClearTxt` with the set-ups. Every exchange with a provider, the certificate authority or the server itself may fail. `exiting` is the restart that
sleeps two seconds before `os._exit`; `Restart` may therefore come before the request's transaction commits. A certificate is named by the host it was
issued for and a serial number (`issued` counts what the authority has signed), so that a renewal changes the row and has to restart the process to be served; the
self-signed one is made anew at every boot (`boot/network.py`), and its number says nothing. The ages of a certificate and of the last synchronisation are free. Reverse proxy mode, in which the row is neither read nor
written, is left out.

### 2.9 Playbacks, Pairings, Accounts, Preferences

Four small modules whose handlers look and write in separate steps, because they run in threads or await in between.

- `Playbacks`: `Verify` reads the user's row, `CheckLimit` counts the registered streams, `FindTorrent` or `AddTorrent`, and `SaveAndRegister`, are what lies between the check and the
  moment the stream counts. The count goes through the `Torrent` objects the relay has now: one that is replaced, when the same info hash is prepared for a second indexer
  (`AddTorrent`), or removed (`DeleteTorrent`), hides the streams that play from it (`Hide`). Deletion and addition are a step each here; TorrentLifecycle has their transactions. `overlapped` is a history variable: another playback of the user was between check and stream when this one was checked.
- `Pairings`: a device stands for one `device_code`. `ChooseCode` and `InsertPairing` are the two halves of `init`, `EnterCode` and `Link` those of `verify`. Of several
  rows with one code any may come first. `since` is a history variable: the rows inserted between a device's look and its insertion.
- `Accounts`: `Look...` are guards and checks, `CommitWrite` applies the write to the table as it is by then: the unique index refuses a name, an update
  writes the columns that changed, a deleted row fails it.
- `Preferences`: from its first flush to its commit a handler has the write lock, so that `WriteCreateDefinition` and `DeleteDefinition` are one step; a reorder
  writes only orders that differ from those it has read. `disturbed` is a history variable: the owners whose order was last changed by something that renumbers only a part. Which attributes a
  user excludes is left out: no order and no definition depends on it.

### 2.10 Selection, Ranking, Orders

`Selection` and `Ranking` answer a question the initial state asks. A name of a file or a folder is what the parser reads from it: an
exact `SxxEyy`, seasons, episodes, a lone number; a stream is its attributes, and of those an indexer names the last of each category counts. `Selection` chooses a file: `AnswerByName` are the early returns of
`resolve()`, and `BuildTree`, `Traverse` and `EndWalk` the walk down the folders. The recursion of `_traverse_tree` is that walk, one step per folder: `walk.pending` are the calls
it has still to make, each a folder with the season it inherits, and they may be made in any order, because none depends on what another found. `Ranking` lists streams in one step: `FindByImdbId` is the filter, the order and the smart filter. The properties define the answer the other way
round: a file is looked at from its own place upwards (`IsEpisode`), and a stream is shown when no stream of its group is better and fewer groups
than the limit have a better one. The regular expressions that read the names are not modelled.

`Orders` is what `Ranking`, `Torznab` and the searches make of Python's `sort`, of a comprehension with a condition and of a slice. An order is a set of
pairs, and the element at a place is the one that so many come before (`InOrder`): a definition without a fold or a recursion, because the prover
can reason about counting and cannot do an induction over a list. `InOrder` means something for a strict total order only, and that the orders it is used
with are such is part of the proofs (`StrictTotal`).

### 2.11 Integrations, IndexerSearch, IndexerAccounts

`Integrations` holds, as operators by site, what the code makes of a response: whether it is an expired session (`Detect`), which rows it accepts and
under which title (`Accepted`, `TitleOf`), what is on the page of one torrent (`FetchTorrent`), what the hit-and-run page says (`ListUsable`), and whether a login can come through at all (`SignsIn`: not at filelist, where the
login's own first request counts as an expired session). A page is what
the selectors find on it. `IndexerSearch` runs a search on it page by page, with a session that may expire at any page; `blind` records that a login form was read as
a page: one that the code of the site does not recognise, or one that answers the request sent again after a login, which no code looks into (`CutShort`). `IndexerAccounts` has the account row, the client's cookies and bithumen's cached user id, sign-ins, the renewal of the session, deletion, restart,
and the clean-up from its rules to the deletion. `owed` is the site's own list per user, which changes at any time (`Counts`) with what is downloaded, here or elsewhere. The process may start with an account that
an earlier one has stored. Its history variables say what the property must except: what came `late`, after the list was read, `overlapped` sign-ins, a sweep that is
`orphaned` because the account was signed out since, or `astray` because its list was read from another page.

### 2.12 Torznab

A query is what the parameters' patterns make of it. A program asks page after page, every page is a search of its own in which the sources come in any order
(`SetToSeqs`) and some may be missing (`lost`); it goes on from the end of one page up to the total that page has told. The number of seeders of a source does not
change between two pages: if it did, no order that begins with it could be exact. Beyond the code, the module contains the program, which asks as the capabilities tell it to.

### 2.13 MCServer

No action of the modules 2.7 to 2.12 reads a variable of another of them, so that steps in between each other show nothing more. `MCServer` extends
all of them, so that its run checks the very definitions the theorems are about, and lets the initial state choose one that runs (`focus`); the others stay as they begin. One run
therefore checks them all, each on its full state space. The liveness properties of `NetworkSettings` are checked under its fairness, given for the behaviours in which it runs.

## 3. Runs

| Run | Configuration | Instance | Distinct states | Shows |
|---|---|---|---|---|
| `keyed_lock` | `MCKeyedLock.cfg` | 3 tasks, 2 keys, 3 lock objects | 613 | `MutualExclusion`, `DictionaryExact`, `WaiterServed`, refinement of `KeyedMutex`; no deadlock |
| `piece_fetch` | `MCPieceFetch.cfg` | 2 streams, 1 piece, 4 task identities, 2 additions | 184 250 | `OneFetchPerPiece`, `NoLostWakeup`, `ReadsBounded`, `ReaderAnswered`, refinement of `SingleFlight` |
| `indexer_session` | `MCIndexerSession.cfg` | 3 requests, two with a timeout, 1 connection, 1 expiry | 12 227 | `PermitsConserved`, `SingleLogin`, `FutureSettled`, `NoDeadlock`, `RequestEnds` |
| `stream_priority` | `MCStreamPriority.cfg` | 2 streams, 3 pieces, 1 settings change | 4.4 million | `PrioritySettled`, `DeadlinesSettled`, `ConnectionsReleased` |
| `stream_priority_live` | `MCStreamPriorityLive.cfg` | 1 stream, 3 pieces, 1 settings change | 538 000 | `PieceMadeUrgent`, `DefaultRestored` |
| `torrent_lifecycle` | `MCTorrentLifecycle.cfg` | 2 requests, 2 deletions, 3 items: one info hash at both indexers, another at one | 3.2 million | `NoOrphan`, `OnlyRollbackStrands`; no deadlock |
| `range_stream` | `MCRangeStream.cfg` | pieces of up to 4 bytes, torrents of up to 10, chunks of 2, headers with numbers up to 11 | 708 000 | `RefusedRightly`, `SentInOrder`, `SentCompletely`, `PieceOfFile` |
| `server` | `MCServer.cfg` | two of everything, eleven components | 1.11 million | `SharedDownload`, `FreshLookup`, `OnlyFollowersBreak`, `CertificateOfHost`, `RecordHeals`, `ServesSettings`, `OverrunNeedsOverlap`, `LinkedAsSeen`, `LastAccount`, `PriorityExact`, `FileOfEpisode`, `ShownAreBest`, `SearchExact`, `OwedKept`, `PagesExact` |
| `cleanup_pinned` | `MCTorrentLifecyclePinned.cfg` | 1 request, 1 deletion, 3 items | | `PinnedSpared` is violated |
| `relogin_hang` | `MCIndexerSessionHang.cfg` | 2 requests, one with a timeout | | `FollowerReleased` is violated |
| `filelist_login` | `MCIndexerSessionFilelist.cfg` | 2 requests | | `LoginNeverFollows` is violated |
| `retry_cookies` | `MCIndexerSessionRetry.cfg` | 3 requests, 1 connection | | `RetryCarriesCookies` is violated |

Type correctness of every module with proofs is part of its inductive invariant (section 4) and needs no run.

Every property is stated above its definition, with the behaviour of the code it is about. Every
property of a passing run is also known to fail on at least one plausible bug of the code, written as an
operator next to the definition it would replace (`mutants` in `PROJECT.json`).

### Bounds, and why they are enough

- **KeyedLock**: a holder, a waiter and a newcomer is the smallest cast for every race of the
  lock (the holder leaves, the waiter is cancelled, the newcomer enters); two keys show that they do not mix;
  an object per task is the most that can be in use. Proved for all sizes.
- **PieceFetch**: one piece, because pieces share nothing but the batch of alerts; two streams to share, leave
  and rejoin; a task per stream can run, be finished and still be referred to, so that four identities never run out;
  two additions give one stale handle. All four attempts are made. Proved for all sizes, safety and refinement.
- **IndexerSession**: leader, follower and a third that comes late; one connection makes the
  semaphore contended, `MaxExpiries` lets a session end while a retry is on its way, and the cookies
  a former run left are chosen freely at the start. The retry without cookies needs permits to be short: three requests over one (iptorrents allows one, huntorrent three, the others five). The safety properties are proved for all sizes.
- **StreamPriority**: three pieces have a first, a middle and a last one (both boundaries and the
  wrap-around); `Prefetch` is 1 where the code has 4 or 8, so that pieces exist that are wanted by no
  stream; two streams suffice for one to arrive or leave while a run acts on the other. One change of a setting is
  enough to put the remembered connection limit out of step. `have` is chosen freely at the start.

- **TorrentLifecycle**: two indexers and one common info hash give the shared torrent; a second info hash gives an account with
  two torrents, whose deletion has a middle. Two requests and two deletions are enough for one of each to run
  between the steps of another of each. Requests are interchangeable, and so are deletions: both are symmetry sets, which is sound
  because the run checks no liveness. Proved for all sizes.

- **RangeStream**: ten bytes in pieces of one to four give ranges within one piece, over a border and over whole pieces between, files that
  share their first or last piece with others, a short last piece, and views of several chunks with a rest. Proved for all sizes.

- **TorrentProvider**: two requests (leader and follower, or two leaders under two keys), two items at two sites, a film's key and a torrent's key that share an item. Proved for all
  sizes.
- **NetworkSettings**: two set-ups (the second of another kind, or joining), two hosts of which one provider clears TXT records, two public
  addresses. `MaxEvents` is 1: one change of the address, failed synchronisation, renewal or crash at any point; it bounds only what comes from outside, set-ups and their failures
  are not counted. `MaxIssued` is 3, more than the set-ups and the renewal of an instance ask for. `CertificateOfHost` is proved for any number.
- **Playbacks**: three streams over two playbacks of one user, so that two of them may be one playback; a limit of 0 (none) or 1 (`MaxLimit`) and one change of it (`MaxChanges`). The two playbacks are of one torrent at
  two indexers, so that either replaces the object of the other; deletions have no bound. The playback of a request is fixed by its token: which one has which is a matter of names. Users do not share anything.
- **Pairings**: two devices, codes and users: a code can be another device's, expired, linked, or taken twice.
- **Accounts**: two accounts, two browsers and two names: administrators who delete each other, and a name taken between look and write.
- **Preferences**: two definitions of one owner, two editing requests, and lists of up to two categories (`MaxIds`): a tie and a gap need no more.
- **Selection**: all combinations of seven file names, six folder names (alone or below the folder of a season), a second, smaller file, and four torrent names. `MaxEpisode` is 3 where the code has 100.
  Proved for all names and folders of any depth.
- **Ranking**: three torrents with categories of each kind, at most two of which are shown. Proved for all sizes.
- **IndexerSearch**: up to three pages, a limit of 3 rows (`Limit`, 300 in the code) and of 2 for iptorrents (`Most`, 20), rows that lack a part and rows that repeat. Proved for all sizes.
- **IndexerAccounts**: two users and a torrent that the site wants of either at any time, two sign-ins, one of each user, at once; bithumen (which caches the user's id and does not know its list), ncore (which does know its list)
  and filelist (where no login comes through, so that only a stored account is there).
- **Torznab**: four sources, two with equal seeders and one that cannot be built, pages of 0 to 3 (`LimitDefault` 2, `LimitMax` 3), every season, episode and malformed
  parameter. Proved for all sizes.

`CHECK_DEADLOCK FALSE` is set where the model really may stop: the torrent of PieceFetch is deleted
for the last time its bound allows, every request of IndexerSession has been made, the streams of
StreamPriority are leaked, the stream of RangeStream has ended, and in `server` questions are answered, requests are made and
events are used up.

### Fairness

Only what the process itself guarantees: the event loop runs whatever is ready, a worker thread and a pause end, libtorrent
finishes a disk read it has accepted and notifies the loop of alerts, a body under a keyed lock ends
(the code in it has its own timeouts), an HTTP exchange ends (the client has a
20-second timeout), and `wait_for` fires. Weak fairness is enough for all of them, because none
is disabled by others once it is enabled, or the property allows for it. In `NetworkSettings` the scheduler starts its jobs, and one synchronisation is strongly
fair: that of a row whose last one was more than a day ago (`SyncLocate(TRUE)`), because a row that is looked at again and again is a day old at some time. There is **no** fairness on
clients (they need not read, ask or leave), on the arrival of a piece, on deletions, settings
or expiries.

## 4. Proofs

TLAPS checks these for every value of the constants that satisfies the named assumption of the module (`ConstantsOK`, and in the small
modules `AccountsAssumption` and its like: finite sets of tasks, markers such as `NoLock` outside the sets they extend, positive bounds), which
TLC evaluates in every run. In `TorrentProvider` and `NetworkSettings` the assumption is an operator (`ProviderConstantsOK`,
`NetworkConstantsOK`), which the theorems state as their hypothesis and `MCServer` assumes.

| Theorem | Statement |
|---|---|
| `KeyedLock_proofs!Invariance` | `Spec => []IInv` |
| `KeyedLock_proofs!MutualExclusionHolds` | `Spec => []MutualExclusion` |
| `KeyedLock_proofs!DictionaryExactHolds` | `Spec => []DictionaryExact` |
| `KeyedLock_proofs!WaiterNotStuckHolds` | `Spec => []WaiterNotStuck` |
| `KeyedLock_proofs!Refinement` | `Spec => ImplementsMutex` |
| `TorrentLifecycle_proofs!Invariance` | `Spec => []IInv` |
| `TorrentLifecycle_proofs!TypeCorrect` | `Spec => []TypeOK` |
| `TorrentLifecycle_proofs!NoOrphanHolds` | `Spec => []NoOrphan` |
| `TorrentLifecycle_proofs!OnlyRollbackStrandsHolds` | `Spec => OnlyRollbackStrands` |
| `TorrentLifecycle_proofs!OwnPinsSparedHolds` | `Spec => OwnPinsSpared` |
| `TorrentLifecycle_proofs!PinnedSparedUnlessShared` | `Spec => PinnedSpared`, if no two items share an info hash |
| `PieceFetch_proofs!Invariance` | `Spec => []IInv` |
| `PieceFetch_proofs!OneFetchPerPieceHolds` | `Spec => []OneFetchPerPiece` |
| `PieceFetch_proofs!NoLostWakeupHolds` | `Spec => []NoLostWakeup` |
| `PieceFetch_proofs!ReadsBoundedHolds` | `Spec => []ReadsBounded` |
| `PieceFetch_proofs!Refinement` | `Spec => ImplementsSingleFlight` |
| `Answers_proofs!Invariance` | `Spec => []IInv` |
| `Answers_proofs!BytesSentInOrder` | `Spec => []SentInOrder` |
| `Answers_proofs!AllBytesSent` | `Spec => []SentCompletely` |
| `Answers_proofs!OnlyPiecesOfFile` | `Spec => []PieceOfFile` |
| `Answers_proofs!HeadersRefusedRightly` | `Spec => []RefusedRightly` |
| `IndexerSession_proofs!Invariance` | `Spec => []IInv` |
| `IndexerSession_proofs!TypeCorrect` | `Spec => []TypeOK` |
| `IndexerSession_proofs!PermitsConservedHolds` | `Spec => []PermitsConserved` |
| `IndexerSession_proofs!SingleLoginHolds` | `Spec => []SingleLogin` |
| `IndexerSession_proofs!FutureSettledHolds` | `Spec => []FutureSettled` |
| `IndexerSession_proofs!NoDeadlockHolds` | `Spec => []NoDeadlock` |
| `IndexerSession_proofs!OnlyLoginPagesFollow` | `Spec => []LoginNeverFollows`, if no response to a login counts as an expired session |
| `IndexerSession_proofs!BareRetryExplainedHolds` | `Spec => BareRetryExplained` |
| `IndexerSession_proofs!NobodyStranded` | `Spec => [](\A r \in Requests : ~Stranded(r))`, if moreover no request has a deadline |
| `StreamPriority_proofs!Invariance` | `Spec => []IInv` |
| `StreamPriority_proofs!TypeCorrect` | `Spec => []TypeOK` |
| `StreamPriority_proofs!PrioritySettledHolds` | `Spec => []PrioritySettled` |
| `StreamPriority_proofs!DeadlinesSettledHolds` | `Spec => []DeadlinesSettled` |
| `StreamPriority_proofs!ConnectionsReleasedHolds` | `Spec => []ConnectionsReleased` |
| `Services_proofs!ProviderInvariance` | `ProviderSpec => []ProviderIInv` |
| `Services_proofs!SharedDownloadHolds` | `ProviderSpec => []SharedDownload` |
| `Services_proofs!OnlyFollowersBreakHolds` | `ProviderSpec => []OnlyFollowersBreak` |
| `Services_proofs!FreshLookupHolds` | `ProviderSpec => FreshLookup` |
| `Services_proofs!NetworkInvariance` | `NetworkSpec => []NetworkIInv` |
| `Services_proofs!CertificateOfHostHolds` | `NetworkSpec => []CertificateOfHost` |
| `Services_proofs!IndexerAccountsInvariance` | `IndexerAccountsSpec => []IndexerAccountsIInv` |
| `Services_proofs!OwedKeptHolds` | `IndexerAccountsSpec => OwedKept` |
| `Handlers_proofs!AccountsInvariance` | `AccountsSpec => []AccountsIInv` |
| `Handlers_proofs!LastAccountHolds` | `AccountsSpec => LastAccount` |
| `Handlers_proofs!PairingsInvariance` | `PairingsSpec => []PairingsIInv` |
| `Handlers_proofs!LinkedAsSeenHolds` | `PairingsSpec => LinkedAsSeen` |
| `Handlers_proofs!PlaybacksInvariance` | `PlaybacksSpec => []PlaybacksIInv` |
| `Handlers_proofs!OverrunNeedsOverlapHolds` | `PlaybacksSpec => []OverrunNeedsOverlap` |
| `Handlers_proofs!PreferencesInvariance` | `PreferencesSpec => []PreferencesIInv` |
| `Handlers_proofs!PriorityExactHolds` | `PreferencesSpec => []PriorityExact` |
| `Answers_proofs!ShownAreBestHolds` | `RankingSpec => []ShownAreBest` |
| `Answers_proofs!TorznabInvariance` | `TorznabSpec => []TorznabIInv` |
| `Answers_proofs!PagesExactHolds` | `TorznabSpec => []PagesExact` |
| `Answers_proofs!SearchInvariance` | `SearchSpec => []SearchIInv` |
| `Answers_proofs!SearchExactHolds` | `SearchSpec => []SearchExact` |
| `Answers_proofs!SelectionInvariance` | `SelectionSpec => []SelectionIInv` |
| `Answers_proofs!FileOfEpisodeHolds` | `SelectionSpec => []FileOfEpisode` |

**Keyed lock.** Mutual exclusion is not inductive: a state where a user holds an object that is
no longer in the dictionary satisfies it, and the next newcomer breaks it. `IInv` adds that
every user of a key entered with the object the dictionary holds now (`UsersShareObject`), which needs that an object
is dropped only when nobody uses it (`DroppedUnused`), which needs that the reference count is exactly the number of users
(`CountsExact`), also after a cancellation; plus that two keys never share an object (`ObjectsDistinct`) and
that who is inside holds its object's lock, alone (`HolderLocks`). The counting rests on
two lemmas about the cardinality of `Users(k)` as a task joins and leaves. `WaiterNotStuck` is the state that `WaiterServed` rests on: whoever waits has somebody before
him who is inside, or who is first in the queue of a free lock. It needs that a queue holds exactly the tasks that wait for its object, each once (`QueueOfWaiters`,
`WaitersQueued`; a cancelled task that was queued twice would leave a dead entry at its head), and that an object is locked only while a body runs with it (`LockedByBody`).

**Piece fetch.** `DictLive` says the dictionary names only running tasks, under their own piece, and `LiveInDict` that
every running task is in the dictionary: together they give one fetch per piece. `NoLostWakeup` is a
conjunct of the invariant; it holds because the future is registered before the look
for the piece, in one step of the loop. `WaitersServed` ties each waiting stream to a task that runs or has
an outcome it can be given, which the refinement needs: without it a finished task could land with an outcome that
`SingleFlight` does not know. The first result among the alerts of a piece is chosen with
`CHOOSE`; the proof that there is a first one (`LeastNat`) uses the well-foundedness of the
naturals. `ReadsBounded` has an invariant of its own, `ReadsMatch`: an alert of a piece counts like a read, since the one that says the piece is there stands
for the read it may cause, and what is outstanding is at most two while a task awaits the piece and one otherwise. A bound of two alone is not inductive: a new task
that finds two left over would ask for a third.

**Torrent life cycle.** `NoOrphan` says nothing while a transaction is open, and that is when the relay changes. `IInv`
says what holds then: a request owns the write lock from its insertion to its commit and its view is what is
committed and its own, new row (`PrepareOwns`); a deletion owns it whenever it has a torrent to take, its view has only lost
rows, and none of the torrent's is left in it (`DeleteOwns`); and the relay's torrents have rows in that one of the two databases that
will survive (`TorrentsHaveRows`): in the committed one until a request has added its torrent, from then on in its view, for
a deletion in its view but for the torrent it takes next. The lemma `CloseStep` handles every commit and rollback at once.
`PinnedSparedUnlessShared` shows where the finding on pins (section 5) comes from: what a clean-up finds for one indexer is not pinned there (`OwnPinsSpared`), so
that without a shared info hash nothing pinned is deleted.
`OnlyRollbackStrands` is proved from the same invariant: a row that is taken back was not there before
(`PrepareOwns`), and a torrent that is taken has no row left (`DeleteOwns`).

**Byte ranges.** `SentInOrder` does not say where the loop goes on. `IInv` gives the next byte (`Position`, the first one
plus what was sent) a place in each step: before the first piece it is the first byte asked for, before any other the
piece's beginning (`PositionBeforePiece`), inside a piece the low end of the view, whose high end is the piece's or the range's
(`PositionInView`), and the byte after the last one at the end. That the parser turns a header into the range that is
`Requested` is `AcceptedRange`; that a slice begins where the last one ended is `SliceOfPiece`, which rests on a few lemmas on
division and products.

**Indexer session.** `loginBy` says who leads a login, and the requests say where they stand; `IInv` makes the two agree: whoever is at
a login is the leader, and the leader is at one. That gives one login at a time. A leader whose login goes on after following itself finds its future
settled, which is `FutureSettled`'s hard case. Permits are conserved because those in use are counted by the requests that are sent
(`Sent`), and because the queue holds each of its requests once: a request that is queued twice would be sent with one permit and return two.
`NoDeadlock` takes a second invariant (`WaitIInv`): every request that queues is in the queue (`QueueComplete`), and a future that somebody follows was made (`FuturesMade`).
When all permits are taken, somebody is sent and goes on; when one is free, whoever queues goes on. A request that follows has a future that is settled, or a leader who is still at the
login (`Stranded` excepts the others) and is therefore queued, sent, or between two messages.
What strands a request is then traced to its causes (`CauseIInv`): a future is left open only by a leader that was cancelled, which takes a deadline,
or by one that follows itself, which takes a site that reads its own login as an expired session. `BareRetryExplained` does the same for the retry without a cookie (`BareIInv`): once a login has
succeeded, the jar is empty only while another is under way or after one that has not succeeded; and a retry that does not have to queue goes out in the step that ends the login, or finds its future
settled before the next one can have cleared the cookies.

**Streams and priorities.** The three properties speak of moments when no run of the manager is on its way. `IInv` says for each step
of a run what it has still to set right: what libtorrent was told fits the streams the manager looked at, except for what the steps to come will
tell it. A stream that changes after the look asks for another run, and `queued` remembers that until the present one is over. The
deadline of a piece is the least over the streams that want it; that it exists rests on the well-foundedness of the naturals.

**Torrent source provider.** A key is stored only while its caller leads the lookup stored under it (`StoredIsLed`), so that nobody joins one
whose outcome has been given; an outcome is given only when the lookup has ended, and a session is closed only after its request has used the outcome, so that a leader's
rows are readable and whoever finds them detached follows a request that is over; and one lookup at a time is between the two ends of an item's lock (`OneInside`), where it downloads only what no earlier lookup has
saved (`NotSavedBefore`), since the look for the file is made under the lock as well.

**Network settings.** The row is read by one task and written by another, so `CertificateOfHost` follows the rows that the tasks carry
(`JobOK`): a row that is about to be saved has the certificate of its host, and one that waits for its DNS record has it or will ask for
it, because its task compares with the row it has *seen*, not with the row of now. A synchronisation or a renewal that overwrites a set-up with an older row
therefore writes a row that is consistent in itself.

**Indexer accounts.** While no two sign-ins overlap, a sign-in runs only where there is no account and nothing is renewed (`OneSignsIn`), so that the cookies the client
holds and those the row remembers are the account's or nobody's (`SessionOfAccount`), and the list a clean-up deletes by lacks nothing of what the site wants of the account but what came `late`, unless it is
of another user that bithumen looked up, or the account was deleted since (`ListOfAccount`). The site's own steps keep that because whatever they add while the clean-up deletes is late (`CountsKeeps`). `OwedKept` follows from the
sweep's last step, whose rules delete nothing that is on such a list; each exception of the property is one hypothesis of a conjunct.

**Accounts.** `LastAccount` needs that a deletion about to be made is not of the account of its own session, and that this session's user has existed
(`SessionOfWrite`): when the table is empty after the deletion, that user is another one, and therefore gone.

**Pairings.** The history of a device that has chosen a code knows every row with that code (`RowsKnown`), so that its insertion makes two rows with one code only if the
other device asked at the same time (`CodesApart`); what a user is about to link had the code of the device in front of them (`EntryShown`), also after rows were
deleted or expired in between.

**Playbacks.** `OverrunNeedsOverlap` is not inductive: of the starts that overlapped no other and whose `Torrent` object is the relay's (`Alone`), the one whose limit held may end. The invariant says it
of every subset of them (`AloneAllowed`), so that a step that hides streams keeps it. The step that lets a start in counts: all the others were registered, or it would have overlapped, and the
set of their playbacks with the new one is within its limit.

**Preferences.** The invariant is the types and the property. The work is in the steps: that the places of a list without repetition, less one, are zero to n - 1 (`PlacesExact`), that
an enumeration as long as its set does not repeat (`EnumerationInjective`), that a reorder which covers the rows of an owner numbers them by their last
places (`ListExact`), and that closing the gap after a deletion leaves an enumeration in the old order (`SortedExact`).

**Orders.** Three proofs rest on the same few lemmas. In a finite set under a strict total order the number of those that come before an element (`Rank`) grows
with the order, so that it tells the elements apart, and takes each value from zero to the size of the set, less one: `InOrder` enumerates the set, in order, each element once
(`Enumerates`). What a list has at some of its places is then the list of those elements (`At`), a stable sort enumerates them by the order that decides ties by place, and two
enumerations of one set under one order are the same list.

**Ranking.** The invariant says that the list is the answer to the question; the work is in what that answer is. A torrent's key is a list of numbers of one length, so that the keys are
compared lexicographically, and the place where it was found decides between equal keys: `Before` is strict and total on the torrents found. The first of each group in a list that is in order are
the streams of which no stream of their group is better (`FirstsAreBest`), and the first `limit` of those are the ones that fewer than `limit` of them come before.

**Torznab.** The key of a source ends with its indexer and its id there, so that two sources never tie and every search that lacks none sorts to one and the same list, in whatever
order they came. `TorznabIInv` says by rank which of its sources the program has: those that hold what it asked for, can be built and rank below its offset. A page appends those between two offsets; the
program stops when the offset has passed the total.

**Searches.** While the search reads, what it has collected is exactly what the pages before the present one show (`Reading`), and a login form was not taken for a page; when it
is over, it answers what all the pages show, or, after such a form, some of it, and then the form came as the answer to a request sent again after a login, or the site is not huntorrent, whose detector
looks into the page (`Answered`). Removing rows whose id was
there before leaves each id once, since the first row of an id stays.

**Selection.** `FileOfEpisode` speaks of the end of the walk. On the way, `SelectionIInv` says of every folder still to be visited that no folder above it is of another season,
and that it inherits the season of its place (`VisitRight`); that every file found is the episode; and that every file that is the episode has been found or is
below a folder still to be visited, at or under which it is recognised (`ToBeFound`). A visit moves what it answers for to its children (`LookIntoKeeps`), because the season a folder passes on is the one that
holds at the next place of the path, read from the file upwards (`SeasonAtNext`). That the walk is over when nothing is pending is all that is needed of its end, so that no induction over the
depth of the folders remains.

What these theorems assume of the constants: the torrents found for one question are finitely many and differ in the place where they were found, a limit is positive
(`RankingAssumption`); the sources of a title are finitely many and differ in indexer or id (`TorznabAssumption`); a site has at least a first page (`IndexerSearchAssumption`);
the numbers read from the names of folders and torrents are natural (`SelectionAssumption`).

**Only model-checked.** Liveness and `ENABLED` are out of the prover's reach: `WaiterServed`, `ReaderAnswered`, `RequestEnds`,
`PieceMadeUrgent`, `DefaultRestored`, `RecordHeals` and `ServesSettings` stay with TLC. For the first five the proofs hold the state they rest on: `WaiterNotStuck`,
`NoLostWakeup`, `NoDeadlock`, `DeadlinesSettled` and `PrioritySettled`. Every safety property and action property of a passing run has a theorem.

## 5. Where the code and its comments disagree

1. **A login whose leader times out leaves its followers waiting** (`relogin_hang`).
   The docstring of `relogin()` (`base_indexer_definition.py:316`) says that the other requests
   wait for the one login. The leader settles the shared future under `except Exception` (:330), which does
   not catch the `CancelledError` of `asyncio.wait_for` (`indexers/service.py:184`, :276). A follower
   without a timeout of its own then waits forever.
2. **The login of filelist can wait for itself** (`filelist_login`). The docstring of
   `_detect_authentication_error` (:166) reserves the session error for requests that were not made to the login page;
   the detector of `integrations/filelist.py` (:129-135) has no such condition, and `_login` begins
   with `GET /login.php` (:146).
3. **A retry can go out without cookies** (`retry_cookies`). The comment at
   `base_indexer_definition.py:61` says that the retry carries the new cookies. A second relogin, started by a
   late response to an old request, clears them (:221) while a retry queues. A permit that is free is taken at once, so that this takes as many requests on their way as the site allows: at iptorrents
   one (`integrations/iptorrents.py:283`), which is the run's instance.

`RequestEnds` is checked for everything else: it excepts exactly the followers that the first two strand
(`Stranded`). That the first two have no third cause is a theorem, `NobodyStranded`, and that filelist's has no other is `OnlyLoginPagesFollow`. A retry goes out without cookies only after it
has waited for a permit, and only while a login is under way or after one that did not succeed (`BareRetryExplained`).

4. **A pinned torrent can be deleted automatically** (`cleanup_pinned`). The web client says of the pin that the torrent is not
   deleted automatically (`src/client/src/routes/_protected/relay/torrents/-components/torrent.tsx:247`). The clean-up looks for the pin
   among the rows of one indexer (`torrents/repository.py:57`) and deletes by info hash alone (:46), which takes the pinned row of another
   indexer, the torrent they share and its files. The shared hash is the only cause (`PinnedSparedUnlessShared`).

`OnlyRollbackStrands` names, rather than refutes, a fifth one: when an account is deleted and a stream inserts a row for it
between the look-up of its rows and the deletion of the first, the foreign key refuses the deletion of the account; the rows come back, their torrents and
downloaded files do not, and each of them answers 404 until the process is restarted. No document says otherwise.

## 6. Plan

The modules were written in the order of how much depends on them: KeyedLock, PieceFetch, IndexerSession, StreamPriority, TorrentLifecycle and RangeStream first, each
with its proofs; then TorrentProvider and NetworkSettings with theirs; then the small components around them. What could still be added:

1. StreamPriority with the `Torrent` object that the same info hash of a second indexer replaces (`relay/service.py:256`): the pieces that streams
   of the old object wait for are no longer prioritised (that these streams are not counted any more is in Playbacks).
2. TorrentLifecycle with resume data, commits that fail, and `full_download`.
3. IndexerSearch on IndexerSession instead of on a session that may expire at any page.

## 7. What is not modelled, and why

- Reading: selectors, regular expressions, dates, sizes and quality names. A page is what the selectors find on it, a name what the patterns find in it.
- Formatting: the answers to Stremio and Kodi players, and Torznab's XML. They keep no state and no order, and no property here is about them.
- The rows of system and relay settings and of attribute exclusions: each is read and written by itself. What a setting changes is modelled where it acts.
- The application shell: wiring, migrations, the schedule. What happens at a start is modelled with the component that starts, and a job is an action of the module
  whose data it changes.
- Reverse proxy mode, in which the network settings are neither read nor written.
- Two threads on one SQLAlchemy session, as two accounts are cleaned up at once: SQLAlchemy defines no outcome to choose from.
- The passwords' hashing and encryption, and the content of the session cookie.
- libtorrent's protocol, choking and disk cache: external, modelled by what its interface shows.
- SQLite itself: one writer, readers that see what is committed, foreign keys; the wait for the lock is a choice between getting it and giving up.
- The web client.
