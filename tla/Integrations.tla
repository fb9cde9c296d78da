------------------------------ MODULE Integrations ------------------------------
(***************************************************************************)
(* indexer_definitions/integrations: what the code of each site makes of a *)
(* response.  A page is modelled by what the selectors find on it; the     *)
(* client, the relogin and the semaphore are in IndexerSession.            *)
(***************************************************************************)
EXTENDS Orders

Sites == {"bithumen", "filelist", "huntorrent", "insane", "iptorrents", "majomparade", "ncore"}

NoTitle == "no title"       \* a row that links to no title

-------------------------------------------------------------------------------
(* _detect_authentication_error.  A response: where it ended up, whether   *)
(* it holds the login form, and whether it says the credentials are wrong. *)

Responses == [at : {"login", "elsewhere"}, form : BOOLEAN, wrong : BOOLEAN]

AtLogin(response, otherwise) == IF response.at = "login" THEN otherwise ELSE "none"

\* ncore, insane and iptorrents: back at the login page, where it came from decides.
DetectByOrigin(response, request) ==
    AtLogin(response, IF request = "other" THEN "session" ELSE "rejected")

\* bithumen: a 401 is the only word of wrong credentials.
DetectBithumen(response, request) ==
    IF response.wrong THEN "rejected" ELSE AtLogin(response, "session")

\* filelist: a login page with its form is an expired session, whoever asked.
DetectFilelist(response, request) ==
    AtLogin(response, IF ~response.form /\ request = "post" THEN "rejected" ELSE "session")

\* Mutant of DetectHuntorrent: without the look into the body.
DetectHuntorrentByPath(response, request) ==
    IF request = "post" THEN IF response.wrong THEN "rejected" ELSE "none"
    ELSE IF request = "get" THEN "none"
    ELSE AtLogin(response, "session")

\* huntorrent: the login's own requests are never an expired session; other pages are looked into.
DetectHuntorrent(response, request) ==
    IF request = "post" THEN IF response.wrong THEN "rejected" ELSE "none"
    ELSE IF request = "get" THEN "none"
    ELSE IF response.form THEN "session" ELSE AtLogin(response, "session")

DetectMajomparade(response, request) ==
    IF request = "post" THEN IF response.wrong THEN "rejected" ELSE "none"
    ELSE AtLogin(response, "session")

\* request: "get" and "post" are the login's own, "other" is any other.
Detect(site, response, request) ==
    CASE site = "bithumen"    -> DetectBithumen(response, request)
      [] site = "filelist"    -> DetectFilelist(response, request)
      [] site = "huntorrent"  -> DetectHuntorrent(response, request)
      [] site = "majomparade" -> DetectMajomparade(response, request)
      [] OTHER                -> DetectByOrigin(response, request)

\* _login: filelist and huntorrent get a token from the login page first.
LoginRequests(site) ==
    IF site \in {"filelist", "huntorrent"} THEN <<"get", "post">> ELSE <<"post">>

\* Whoever asks for the login page gets it, with its form: the cookies were cleared before.
LoginResponses(request) ==
    IF request = "get" THEN {[at |-> "login", form |-> TRUE, wrong |-> FALSE]} ELSE Responses

\* A login can come through.  At filelist its own first request is taken for an expired session.
SignsIn(site) ==
    \A i \in DOMAIN LoginRequests(site) :
      LET request == LoginRequests(site)[i]
      IN \E response \in LoginResponses(request) : Detect(site, response, request) = "none"

-------------------------------------------------------------------------------
(* _fetch_torrents.  A row is [id, title, seeders, parts], its parts those *)
(* of the row that the code looks for and finds.                           *)

BithumenParts    == {"columns", "category", "download", "title", "details"}
FilelistParts    == {"columns", "known category", "download", "details"}
HuntorrentParts  == {"download", "details"}
InsaneParts      == {"category", "download", "title", "details"}
IptorrentsParts  == {"columns", "known category", "download", "details"}
MajomparadeParts == {"category", "download"}
NcoreParts       == {}      \* JSON, in which nothing is missing

Parts(site) ==
    CASE site = "bithumen"    -> BithumenParts
      [] site = "filelist"    -> FilelistParts
      [] site = "huntorrent"  -> HuntorrentParts
      [] site = "insane"      -> InsaneParts
      [] site = "iptorrents"  -> IptorrentsParts
      [] site = "majomparade" -> MajomparadeParts
      [] site = "ncore"       -> NcoreParts

\* iptorrents takes every row for the title asked for, filelist those without a link.
TitleOf(site, row, asked) ==
    IF site = "iptorrents" \/ (site = "filelist" /\ row.title = NoTitle) THEN asked
    ELSE row.title

Read(site, row, asked) == [row EXCEPT !.title = TitleOf(site, row, asked)]

Accepted(site, row, asked) ==
    /\ Parts(site) \subseteq row.parts \union (IF row.title = NoTitle THEN {} ELSE {"title"})
    /\ site = "filelist" => TitleOf(site, row, asked) = asked

\* The first of each id.
UniqueById(rows) ==
    At(rows, {i \in DOMAIN rows : \A j \in 1..(i - 1) : rows[j].id # rows[i].id})

RowsRead(site, rows, asked) ==
    LET read == At(rows, {i \in DOMAIN rows : Accepted(site, rows[i], asked)})
    IN [i \in DOMAIN read |-> Read(site, read[i], asked)]

\* iptorrents: each id once; the row that was first counts, also when it is of no use.
IptorrentsRows(rows, asked) ==
    LET known == {i \in DOMAIN rows : {"known category", "details"} \subseteq rows[i].parts}
    IN RowsRead("iptorrents", UniqueById(At(rows, known)), asked)

\* Most seeders first; rows with as many stay in their order.
BySeeders(rows) ==
    LET found == {rows[i] : i \in DOMAIN rows}
    IN StableSort(rows, DOMAIN rows, {p \in found \X found : p[1].seeders > p[2].seeders})

\* iptorrents: a second search by number when the first finds nothing, and only the best are kept.
IptorrentsPage(pages, asked, most) ==
    LET first == IptorrentsRows(pages[1], asked)
        rows == IF first # <<>> \/ Len(pages) = 1 THEN first ELSE IptorrentsRows(pages[2], asked)
    IN Take(BySeeders(rows), most)

\* Every other site says whether there is a next page: a link, a button that is not disabled, a total.
Paged(site) == site # "iptorrents"

-------------------------------------------------------------------------------
(* _fetch_torrent, on the page of one torrent.                             *)

TorrentPages == [missing : BOOLEAN, own : BOOLEAN, others : BOOLEAN]

\* Without a link of its own: iptorrents takes the first link there is, and for huntorrent
\* the torrent does not exist; filelist does not know the page of a torrent that does not.
FetchTorrent(site, page) ==
    IF page.missing /\ site \notin {"filelist", "huntorrent"} THEN "none"
    ELSE IF page.own THEN "torrent"
    ELSE IF page.others /\ site \in {"iptorrents", "huntorrent"} THEN "another torrent"
    ELSE IF site = "huntorrent" THEN "none" ELSE "error"

-------------------------------------------------------------------------------
(* _fetch_hit_and_run_ids.  A report is the torrents the page lists as     *)
(* unfinished and as unclear; another page than the expected is a stranger.*)

\* Sites that look for something only their list has; the others find no links and take that
\* for an empty list.
RecognisesList(site) == site \in {"filelist", "majomparade", "ncore"}

\* bithumen asks with the user's id, which it looks up once.
CachesUserId(site) == site = "bithumen"

\* filelist shows finished torrents too: a status that is not understood makes the list unusable.
ListUsable(site, stranger, unclear) ==
    /\ stranger => ~RecognisesList(site)
    /\ unclear => site # "filelist"
===============================================================================
