-------------------------------- MODULE Torznab --------------------------------
(***************************************************************************)
(* torznab: a program like Sonarr asks for a title and reads the results   *)
(* page by page, every page being a search of its own (query.py,           *)
(* service.py, items.py).  A parameter is modelled by what its pattern     *)
(* makes of it; -1 is one that is not there and -2 one that is not         *)
(* understood.  A source is [indexer, id, seeders, episodes, buildable],   *)
(* its episodes those the resolver of Selection finds in it.               *)
(***************************************************************************)
EXTENDS Orders, SequencesExt

CONSTANTS
    Queries,        \* what a program may ask
    Offers(_),      \* Offers(imdbid): the sources of a title
    LimitDefault,   \* 100
    LimitMax        \* 200, as the capabilities say

Missing == -1
Wrong == -2

\* A torrent is known by its indexer and its id there.
ASSUME TorznabAssumption ==
    /\ LimitDefault \in Nat /\ LimitMax \in Nat
    /\ \A q \in Queries :
         /\ q.limit \in Nat \union {Missing, Wrong}
         /\ IsFiniteSet(Offers(q.imdbid))
         /\ \A s \in Offers(q.imdbid) :
              s.seeders \in Nat /\ s.indexer \in Nat /\ s.id \in Nat /\ s.buildable \in BOOLEAN
         /\ \A s, t \in Offers(q.imdbid) : s.indexer = t.indexer /\ s.id = t.id => s = t

VARIABLES
    query,
    session,        \* how far the program is: its offset and what it has received
    lost            \* history: a search lacked a source of the title

torznabVars == <<query, session, lost>>

TorznabInit ==
    /\ query \in Queries
    /\ session = [status |-> "asking", offset |-> 0, received |-> <<>>]
    /\ lost = FALSE

-------------------------------------------------------------------------------
(* parse_torznab_query                                                     *)

Functions == {"caps", "search", "tvsearch", "movie"}

\* An episode is a number, or a day, whose season is a year it is a date of.
ScopeWrong(q) ==
    \/ q.t = "movie" /\ (q.season # Missing \/ q.ep.kind # "none")
    \/ q.ep.kind # "none" /\ q.season = Missing
    \/ q.ep.kind = "day" /\ (q.season \notin 1000..9999 \/ q.ep.number = Wrong)

Malformed(q) ==
    \/ q.t \notin Functions \/ q.o = "wrong"
    \/ /\ q.t # "caps"
       /\ \/ q.season = Wrong \/ q.ep.kind = "wrong" \/ ScopeWrong(q)
          \/ "wrong" \in {q.imdbid, q.year, q.cat}
          \/ q.offset = Wrong \/ q.limit = Wrong

AtMost(m, n) == IF m < n THEN m ELSE n

LimitOf(q) == AtMost(IF q.limit = Missing THEN LimitDefault ELSE q.limit, LimitMax)

-------------------------------------------------------------------------------
(* TorznabService.search                                                   *)

\* Only a season with the number of an episode narrows the search; a day does not.
ContainsEpisode(s, q) ==
    q.season # Missing /\ q.ep.kind = "number" => <<q.season, q.ep.number>> \in s.episodes

\* Mutant of Ordering: seeders only.
OrderingBySeeders(s) == <<-s.seeders>>

Ordering(s) == <<-s.seeders, s.indexer, s.id>>

Precedes(s, t) ==
    LET k == Ordering(s)
        l == Ordering(t)
    IN \E i \in DOMAIN k : k[i] < l[i] /\ \A j \in 1..(i - 1) : k[j] = l[j]

PrecedesOn(S) == {p \in S \X S : Precedes(p[1], p[2])}

Matching(q, candidates) ==
    StableSort(candidates, {i \in DOMAIN candidates : ContainsEpisode(candidates[i], q)},
               PrecedesOn(ToSet(candidates)))

\* An item that cannot be built is left out of its page, and still counts.
PageOf(q, offset, matching) ==
    At(matching, {i \in (offset + 1)..AtMost(offset + LimitOf(q), Len(matching)) : matching[i].buildable})

-------------------------------------------------------------------------------
(* The program that asks.                                                  *)

Refuse ==
    /\ session.status = "asking" /\ Malformed(query)
    /\ session' = [session EXCEPT !.status = "refused"]
    /\ UNCHANGED <<query, lost>>

Capabilities ==
    /\ session.status = "asking" /\ ~Malformed(query) /\ query.t = "caps"
    /\ session' = [session EXCEPT !.status = "told"]
    /\ UNCHANGED <<query, lost>>

\* The next page begins where this one ends, up to the total of this answer.
Receive(items, total) ==
    session' = [offset |-> session.offset + LimitOf(query),
                received |-> session.received \o items,
                status |-> IF LimitOf(query) = 0 THEN "counted"
                           ELSE IF session.offset + LimitOf(query) >= total THEN "over"
                           ELSE "asking"]

\* find_by_imdb_id: cached files come before those it downloads, in any order of the sites, and some
\* do not come.  Errors are passed on only when nothing came.
SearchPage ==
    /\ session.status = "asking" /\ ~Malformed(query) /\ query.t # "caps"
    /\ \E came \in SUBSET Offers(query.imdbid), errors \in BOOLEAN :
         \E candidates \in SetToSeqs(came) :
           LET matching == Matching(query, candidates) IN
           /\ lost' = (lost \/ came # Offers(query.imdbid))
           /\ IF errors /\ candidates = <<>> /\ query.imdbid # "absent"
              THEN session' = [session EXCEPT !.status = "failed"]
              ELSE Receive(PageOf(query, session.offset, matching), Len(matching))
    /\ UNCHANGED query

TorznabNext == Refuse \/ Capabilities \/ SearchPage

TorznabSpec == TorznabInit /\ [][TorznabNext]_torznabVars

-------------------------------------------------------------------------------
\* A program that reads page after page until the total is reached has received every source of the
\* title that holds what it asked for, each once, most seeders first, although each page was a new
\* search whose sources came in an order of its own, as long as none of them lacked a source and no
\* source's seeders changed between them; a limit above the highest one skips nothing for a program that goes by the limits the capabilities tell
\* (torznab/service.py:72-104, :183-192).
PagesExact ==
    session.status = "over" /\ ~lost =>
      LET got == session.received
          wanted == {s \in Offers(query.imdbid) :
                       /\ s.buildable
                       /\ \/ query.season = Missing \/ query.ep.kind # "number"
                          \/ <<query.season, query.ep.number>> \in s.episodes}
      IN /\ ToSet(got) = wanted /\ Len(got) = Cardinality(wanted)
         /\ \A i, j \in DOMAIN got : i < j => got[i].seeders >= got[j].seeders
===============================================================================
