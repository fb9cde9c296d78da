------------------------------- MODULE MCServer -------------------------------
(* The components of the server that share no variable with each other,    *)
(* each small enough for one run together: the initial state chooses which *)
(* one runs (focus) and the others stay as they begin.  Steps of two of    *)
(* them in between each other would show nothing more, for no action of    *)
(* one reads a variable of another.                                        *)
EXTENDS TorrentProvider, NetworkSettings, Playbacks, Pairings, Accounts, Preferences, Selection,
        Ranking, IndexerSearch, IndexerAccounts, Torznab, Integers, FiniteSets, Sequences, TLC

CONSTANTS
    \* requests and keys of the source provider, its items
    r1, r2, k1, k2, t1, t2,
    \* set-up requests, hosts, addresses
    q1, q2, h1, h2, a1, a2, lanIp, e1,
    \* streams, playbacks, devices, codes
    s1, s2, s3, p1, p2, d1, d2, c1, c2,
    \* users, browsers, ids, names
    u1, u2, b1, b2, i1, i2, n1, n2,
    \* requests that edit preferences; sign-ins at a site and its users
    w1, w2, l1, l2, v1, v2

VARIABLES
    focus

vars == <<focus, providerVars, networkVars, playbackVars, pairingVars, accountVars, preferenceVars,
          selectionVars, rankingVars, searchVars, indexerAccountVars, torznabVars>>

-------------------------------------------------------------------------------
\* A film that two sites offer, and one torrent of them that is asked for by its id.
ProviderCallers == {r1, r2}
ProviderKeys == {k1, k2}
ProviderSingle == {k2}
ProviderItems == {t1, t2}
ProviderIndexerOf == t1 :> "ncore" @@ t2 :> "bithumen"
ProviderOffered == k1 :> {t1, t2} @@ k2 :> {t1}

\* Two set-ups of every kind.
Auto(host, conn) ==
    [mode |-> "auto", host |-> host, conn |-> conn, email |-> e1, ip |-> Absent,
     cert |-> [host |-> Absent, serial |-> 0]]
Manual ==
    [mode |-> "manual", host |-> "proxy", conn |-> Absent, email |-> Absent, ip |-> Absent,
     cert |-> [host |-> Absent, serial |-> 0]]
Local ==
    [mode |-> "local", host |-> "lan", conn |-> Absent, email |-> Absent, ip |-> lanIp,
     cert |-> [host |-> "lan", serial |-> 0]]
SetupAsks(q) == IF q = q1 THEN {Auto(h2, "public"), Auto(h1, "local"), Local} ELSE {Manual}
NetworkSetups == {q1, q2}
NetworkHosts == {h1, h2}
NetworkClears == {h1}
NetworkAddresses == {a1, a2}
NetworkEmails == {e1}

\* Three starts over two playbacks, two devices and users, two browsers and accounts.
PlaybackStreams == {s1, s2, s3}
PlaybackViewers == {u1}
PlaybackIds == {p1, p2}
PlaybackOf(s) == IF s = s2 THEN p2 ELSE p1
\* Each at an indexer of its own, both of the same torrent.
PlaybackRelease(p) == p
PlaybackHash(release) == "hash"
PairingDevices == {d1, d2}
PairingCodes == {c1, c2}
PairingOwners == {u1, u2}
AccountBrowsers == {b1, b2}
AccountIds == {i1, i2}
AccountNames == {n1, n2}

\* Two definitions of one owner, and an attribute of one category.
PreferenceOwners == {u1}
PreferenceDefinitions == {d1, d2}
PreferenceCategories == {c1, c2}
PreferenceAttributes == {"hd"}
PreferenceCategoryOf == [x \in {"hd"} |-> c1]
PreferenceEditors == {w1, w2}

\* Two users of a site, of whom it may want the torrent.
AccountUsers == {v1, v2}
AccountTorrents == {t1}
AccountSites == {"bithumen", "filelist", "ncore"}
AccountRules == {"off"}
AccountLogins == {l1, l2}
AccountUserOf(l) == IF l = l1 THEN v1 ELSE v2

-------------------------------------------------------------------------------
\* Names of files, folders and torrents: what is in them, and what is not (No).
No == -1
InName(exact, seasons, episodes, number) ==
    [exact |-> exact, seasons |-> seasons, episodes |-> episodes, number |-> number]
Plain == InName(<<>>, {}, {}, No)
SeasonName(s) == InName(<<>>, {s}, {}, No)
FileNames ==
    {InName(<<1, 1, 1>>, {}, {}, No), InName(<<1, 1, 3>>, {}, {}, No), InName(<<2, 1, 1>>, {}, {}, No),
     InName(<<>>, {}, {2}, No), InName(<<>>, {}, {}, 2), InName(<<>>, {}, {}, 102), Plain}
FolderNames ==
    {SeasonName(0), SeasonName(1), SeasonName(2), Plain, InName(<<1, 2, 2>>, {}, {}, No),
     InName(<<>>, {}, {2}, No)}
TorrentNames == {Plain, SeasonName(1), InName(<<>>, {1, 2}, {}, No), InName(<<1, 2, 2>>, {}, {}, No)}
Paths ==
    {<<>>} \union {<<d>> : d \in FolderNames} \union {<<SeasonName(1), d>> : d \in FolderNames}
LargeFiles == [name : FileNames, path : Paths, size : {2}]
SmallFiles ==
    [name : {InName(<<>>, {}, {2}, No), InName(<<1, 1, 3>>, {}, {}, No)},
     path : {<<>>, <<SeasonName(2)>>}, size : {1}]
Wanted == [season : {0, 1, 2}, episode : {1, 2}] \union [season : {No}, episode : {No}]
NoFiles == [torrent |-> Plain, files |-> {}, wanted |-> [season |-> No, episode |-> No]]
FileSets == {{f, g} : f \in LargeFiles, g \in SmallFiles} \union {{}}
FileQuestions == [torrent : TorrentNames, files : FileSets, wanted : Wanted]

\* Attributes of categories 1 (one of them), 2 (several) and 3 (strict); 4 is the indexer.
A(category, order) == [id |-> order, category |-> category, order |-> order]
Torrent(id, inName, inFile, external, seeders, isKept) ==
    [id |-> id, torrent |-> inName, file |-> inFile, external |-> external,
     indexer |-> A(4, 1), seeders |-> seeders, kept |-> isKept]
First ==
    {Torrent(1, n, f, <<>>, s, isKept) :
       n \in {{A(1, 1), A(1, 2)}, {A(2, 1), A(3, 1)}}, f \in {{}, {A(1, 2), A(2, 2)}}, s \in {0, 5}, isKept \in BOOLEAN}
Second ==
    {Torrent(2, n, f, <<A(2, 1), A(2, 2)>>, 5, FALSE) :
       n \in {{A(1, 1), A(1, 2)}, {A(2, 1), A(3, 1)}, {}}, f \in {{}, {A(1, 2), A(2, 2)}}}
Third == {Torrent(3, n, {}, <<>>, 5, FALSE) : n \in {{A(1, 1)}, {A(2, 1), A(3, 1)}, {}}}
Tastes ==
    [preferences : {<<>>, << <<A(1, 2), A(1, 1)>>, <<A(2, 2)>> >>},
     exclusions : {{}, {A(3, 1)}, {A(2, 1), A(1, 2)}}, seed : {No, 0}, smart : BOOLEAN,
     limit : {1, 2}, grouping : {No, 1}]
\* Without the smart filter there is neither a limit nor a group.
Viewer == {u \in Tastes : ~u.smart => u.limit = 1 /\ u.grouping = No}
NothingFound ==
    [found |-> {}, user |-> [preferences |-> <<>>, exclusions |-> {}, seed |-> No, smart |-> FALSE,
                             limit |-> 1, grouping |-> No]]
RankingFinds == {{x, y, z} : x \in First, y \in Second, z \in Third} \union {{}}
RankingViewings == [found : RankingFinds, user : Viewer]
RankingCatalogue == {A(c, n) : c \in 1..4, n \in 1..3}
RankingMultiple == {2, 3}
RankingStrict == {3}
RankingFallback == {A(1, 3), A(2, 3)}

-------------------------------------------------------------------------------
\* Pages of complete rows and of rows that lack something, with one torrent on several pages.
AllParts == {"columns", "category", "known category", "download", "details"}
PageRow(id, title, parts) == [id |-> id, title |-> title, seeders |-> id, parts |-> parts]
Complete(id) == PageRow(id, "asked", AllParts)
SomeRows ==
    {PageRow(i, t, ps) : i \in {1, 2}, t \in {"asked", "no title"}, ps \in {AllParts, AllParts \ {"download"}}}
      \union {PageRow(1, "other", AllParts)}
SomePages == {<<x>> : x \in SomeRows} \union {<<x, y>> : x, y \in SomeRows}
Contents ==
    {<<x>> : x \in SomePages} \union {<<x, <<y>>>> : x \in SomePages, y \in {Complete(1), Complete(2)}}
      \union {<<x, <<Complete(2), Complete(3)>>, <<Complete(1)>>>> : x \in {<<r>> : r \in SomeRows}}
\* TLC evaluates a definition of its own once, and what a constant stands for at every use.
SiteContents == Contents
SearchRows == [id : 1..3, title : {"asked", "no title", "other"}, seeders : 1..3, parts : SUBSET AllParts]

\* Sources of which two have the same seeders and one cannot be built; every season and episode, and
\* every parameter that is not understood.
Source(from, id, seeders, episodes, buildable) ==
    [indexer |-> from, id |-> id, seeders |-> seeders, episodes |-> episodes, buildable |-> buildable]
TitleSources(imdbid) ==
    IF imdbid = "title"
    THEN {Source(1, 2, 5, {<<1, 1>>}, TRUE), Source(2, 1, 5, {<<1, 1>>, <<1, 2>>}, TRUE),
          Source(1, 1, 9, {<<1, 2>>}, TRUE), Source(2, 2, 7, {<<1, 1>>}, FALSE)}
    ELSE {}
Ep(kind, number) == [kind |-> kind, number |-> number]
Plainly ==
    [t |-> "search", o |-> "xml", imdbid |-> "title", season |-> No, ep |-> Ep("none", No),
     year |-> "absent", cat |-> "absent", offset |-> 0, limit |-> No]
Requests ==
    {[Plainly EXCEPT !.t = t, !.imdbid = i, !.season = s, !.ep = e, !.limit = n] :
       t \in {"caps", "search", "movie"}, i \in {"title", "absent"}, s \in {No, -2, 1, 2024},
       e \in {Ep("none", No), Ep("wrong", No), Ep("number", 1), Ep("day", 1), Ep("day", -2)},
       n \in {No, 0, 1, 5}}
      \union {[Plainly EXCEPT !.t = t] : t \in {"tvsearch", "absent", "music", "unknown"}}
      \union {[Plainly EXCEPT !.o = "wrong"], [Plainly EXCEPT !.imdbid = "wrong"],
              [Plainly EXCEPT !.year = "wrong"], [Plainly EXCEPT !.cat = "wrong"],
              [Plainly EXCEPT !.offset = -2], [Plainly EXCEPT !.limit = -2]}
TorznabQueries == Requests

ASSUME ProviderConstantsOK /\ NetworkConstantsOK

-------------------------------------------------------------------------------
\* A component that does not run begins as it may, in one way.
Init ==
    /\ focus \in {"provider", "network", "playbacks", "pairings", "accounts", "preferences",
                  "selection", "ranking", "search", "indexer accounts", "torznab"}
    /\ (focus # "provider" => files = [i \in {t1, t2} |-> "none"]) /\ ProviderInit
    /\ (focus # "network" => settings = Local /\ dns = [h \in {h1, h2} |-> Absent]) /\ NetworkInit
    /\ (focus # "playbacks" => limit = [u \in {u1} |-> 0]) /\ PlaybacksInit
    /\ PairingsInit /\ AccountsInit /\ PreferencesInit
    /\ (focus # "selection" => question = NoFiles) /\ SelectionInit
    /\ (focus # "ranking" => viewing = NothingFound) /\ RankingInit
    /\ (focus # "search" => /\ site = "ncore" /\ pages = <<<<Complete(1)>>>>
                            /\ progress = [status |-> "looking up", page |-> 1, collected |-> <<>>])
    /\ SearchInit
    /\ (focus # "indexer accounts" => indexer = "filelist" /\ account = SignedOut)
    /\ IndexerAccountsInit
    /\ (focus # "torznab" => query = Plainly) /\ TorznabInit

Next ==
    /\ UNCHANGED focus
    /\ \/ focus = "provider" /\ ProviderNext
       \/ focus # "provider" /\ UNCHANGED providerVars
    /\ \/ focus = "network" /\ NetworkNext
       \/ focus # "network" /\ UNCHANGED networkVars
    /\ \/ focus = "playbacks" /\ PlaybacksNext
       \/ focus # "playbacks" /\ UNCHANGED playbackVars
    /\ \/ focus = "pairings" /\ PairingsNext
       \/ focus # "pairings" /\ UNCHANGED pairingVars
    /\ \/ focus = "accounts" /\ AccountsNext
       \/ focus # "accounts" /\ UNCHANGED accountVars
    /\ \/ focus = "preferences" /\ PreferencesNext
       \/ focus # "preferences" /\ UNCHANGED preferenceVars
    /\ \/ focus = "selection" /\ SelectionNext
       \/ focus # "selection" /\ UNCHANGED selectionVars
    /\ \/ focus = "ranking" /\ ListStreams
       \/ focus # "ranking" /\ UNCHANGED rankingVars
    /\ \/ focus = "search" /\ SearchNext
       \/ focus # "search" /\ UNCHANGED searchVars
    /\ \/ focus = "indexer accounts" /\ IndexerAccountsNext
       \/ focus # "indexer accounts" /\ UNCHANGED indexerAccountVars
    /\ \/ focus = "torznab" /\ TorznabNext
       \/ focus # "torznab" /\ UNCHANGED torznabVars

\* NetworkFairness where the network runs.
Runs(step) == focus = "network" /\ step
Fairness ==
    /\ \A q \in {q1, q2} : WF_networkVars(Runs(Wake(q) \/ EndRequest(q) \/ TaskStep(q)))
    /\ SF_networkVars(Runs(SyncStep /\ SyncLocate(TRUE))) /\ WF_networkVars(Runs(SyncStep))
    /\ WF_networkVars(Runs(RenewalStep))
    /\ WF_networkVars(Runs(Restart))

Spec == Init /\ [][Next]_vars /\ Fairness

===============================================================================
