----------------------------- MODULE IndexerSearch -----------------------------
(***************************************************************************)
(* BaseIndexerDefinition.find_torrents_by_imdb_id on the site of an        *)
(* integration: page after page until one says it is the last or enough    *)
(* torrents are collected; and find_torrent_by_id.  One question, without  *)
(* its 12.5 seconds: a time out is a failure at any point.                 *)
(***************************************************************************)
EXTENDS Integrations, SequencesExt

CONSTANTS
    Asked,          \* the title asked for
    Limit,          \* _TORRENTS_LIMIT, 300
    Most,           \* what iptorrents keeps, 20
    SiteRows,
    SitePages       \* what a site may have: sequences of pages, a page being a sequence of rows

ASSUME IndexerSearchAssumption ==
    /\ \A row \in SiteRows : {"id", "title", "parts"} \subseteq DOMAIN row
    /\ SitePages \subseteq Seq(Seq(SiteRows)) \ {<<>>}

VARIABLES
    site,
    pages,          \* what the site has for this title
    progress,       \* the state of the search, its page, the torrents collected
    blind           \* history: a login form was read as a page of torrents, and when

searchVars == <<site, pages, progress, blind>>

SearchInit ==
    /\ site \in Sites
    /\ pages \in SitePages
    /\ \E status \in {"searching", "looking up"} :
         progress = [status |-> status, page |-> 1, collected |-> <<>>]
    /\ blind = "no"

Torrents == progress.collected
OfTitle(torrents) == At(torrents, {i \in DOMAIN torrents : torrents[i].title = Asked})

PageRead ==
    IF Paged(site) THEN RowsRead(site, pages[progress.page], Asked)
    ELSE IptorrentsPage(pages, Asked, Most)

IsLast == ~Paged(site) \/ progress.page = Len(pages)

\* The last page: each torrent of the title once.
Answer(torrents) == UniqueById(OfTitle(torrents))

\* _find_all: a page more, or the answer; beyond the limit what was collected is the answer as it is.
Collect(rows) ==
    LET all == Torrents \o rows IN
    progress' = CASE IsLast -> [progress EXCEPT !.status = "found", !.collected = Answer(all)]
                  [] ~IsLast /\ Len(all) > Limit ->
                       [progress EXCEPT !.status = "over the limit", !.collected = all]
                  [] OTHER -> [progress EXCEPT !.page = @ + 1, !.collected = all]

\* A login form read as a page: the last one, with nothing on it.
CutShort == progress' = [progress EXCEPT !.status = "found", !.collected = Answer(Torrents)]

\* The response of the site to the request for a page.  A login form has no rows, and no next
\* page; it is no JSON.  (The two requests of iptorrents are one step.)
Fetch ==
    /\ progress.status = "searching"
    /\ \E response \in Responses :
         /\ response.at = "login" => response.form
         /\ ~response.wrong
         /\ CASE Detect(site, response, "other") = "session" ->
                   progress' = [progress EXCEPT !.status = "relogin"] /\ UNCHANGED blind
              [] Detect(site, response, "other") # "session" /\ response.form ->
                   /\ site # "ncore"
                   /\ CutShort
                   /\ blind' = "unrecognised"
              [] OTHER -> Collect(PageRead) /\ UNCHANGED blind
    /\ UNCHANGED <<site, pages>>

\* relogin() comes through, and the request is sent once more.  What the site says to that is not
\* looked into: when the session has ended again meanwhile, also its login form is a page.
Relogin ==
    /\ progress.status = "relogin" /\ SignsIn(site)
    /\ \/ Collect(PageRead) /\ UNCHANGED blind
       \/ site # "ncore" /\ CutShort /\ blind' = "retry"
    /\ UNCHANGED <<site, pages>>

\* An error of the connection or the parser, credentials that the site does not take, or the time is
\* over - also for a login that waits for itself.
SearchFails ==
    /\ progress.status \in {"searching", "relogin", "looking up"}
    /\ progress' = [progress EXCEPT !.status = "failed"]
    /\ UNCHANGED <<site, pages, blind>>

\* find_torrent_by_id: the page of one torrent.
LookUp ==
    /\ progress.status = "looking up"
    /\ \E page \in TorrentPages :
         progress' = [progress EXCEPT !.status = FetchTorrent(site, page)]
    /\ UNCHANGED <<site, pages, blind>>

SearchNext == Fetch \/ Relogin \/ SearchFails \/ LookUp

SearchSpec == SearchInit /\ [][SearchNext]_searchVars

-------------------------------------------------------------------------------
\* What a search that came to its last page answers is each torrent of the title that the pages show
\* completely, once, also when the session expired on the way.  Only a login form read as a page cuts
\* it short: one that the code of the site does not look for, and that is never huntorrent; or at any
\* site one that comes to the request sent again after a login, which nobody looks into
\* (base_indexer_definition.py:61-63, 287-310, huntorrent.py:164-176).
SearchExact ==
    progress.status = "found" /\ Paged(site) =>
      LET Shows(p, i) == /\ Accepted(site, pages[p][i], Asked)
                         /\ TitleOf(site, pages[p][i], Asked) = Asked
          shown == {at \in UNION {{p} \X DOMAIN pages[p] : p \in DOMAIN pages} :
                      Shows(at[1], at[2])}
          ids == {pages[at[1]][at[2]].id : at \in shown}
          answered == [i \in DOMAIN Torrents |-> Torrents[i].id]
      IN /\ Cardinality(ToSet(answered)) = Len(answered)
         /\ ToSet(answered) \subseteq ids
         /\ blind = "no" => ToSet(answered) = ids
         /\ blind = "unrecognised" => site # "huntorrent"
===============================================================================
