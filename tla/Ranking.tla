-------------------------------- MODULE Ranking --------------------------------
(***************************************************************************)
(* torrent_streams: which of the torrents found a user is shown, in which  *)
(* order.  A name is modelled by the attributes that the parser finds in   *)
(* it.  One step answers the question the initial state asks.              *)
(***************************************************************************)
EXTENDS Orders

CONSTANTS
    Catalogue,      \* the attributes there are
    Viewings,       \* the torrents found and the user they are for: [found, user]
    Multiple,       \* the categories (preferences) a name may have several attributes of
    Strict,         \* of these, those in which one excluded attribute excludes the torrent
    Fallback        \* the attributes a name without one of its category gets

\* The id of a torrent is its place among those found; a limit is at least one.
ASSUME RankingAssumption ==
    \A v \in Viewings :
      /\ IsFiniteSet(v.found)
      /\ \A s \in v.found : s.id \in Int /\ s.seeders \in Nat
      /\ \A s, t \in v.found : s.id = t.id => s = t
      /\ v.user.preferences \in Seq(Seq(Catalogue))
      /\ v.user.limit \in Nat \ {0}

VARIABLES
    viewing,
    listed

rankingVars == <<viewing, listed>>

Unset == -1         \* a category or a number of seeders that is not there
Unlisted == [done |-> FALSE, list |-> <<>>]

-------------------------------------------------------------------------------
(* The attributes of a stream.  Those whose pattern a name matches are     *)
(* [id, category, order].                                                  *)

Of(attributes, c) == {a \in attributes : a.category = c}

CategoriesOf(attributes) == {a.category : a \in attributes}

\* In a category with one attribute the first pattern that matches counts.
Matched(attributes) ==
    {a \in attributes : \/ a.category \in Multiple
                        \/ \A b \in Of(attributes, a.category) : a.order <= b.order}

\* What no pattern finds is taken from what the indexer says, of a category the last, and then from
\* the fallbacks.
ParseTorrentName(attributes, external) ==
    LET WithFallback(found, other) == found \union {a \in other : a.category \notin CategoriesOf(found)}
        said == {external[i] : i \in {j \in DOMAIN external :
                   \A k \in DOMAIN external : external[k].category = external[j].category => k <= j}}
    IN WithFallback(WithFallback(Matched(attributes), said), Fallback)

\* The attributes in the name of the file replace those of the torrent, category by category.
ResolveAttributes(torrent, file, external) ==
    LET own == Matched(file) IN
    own \union {a \in ParseTorrentName(torrent, external) : a.category \notin CategoriesOf(own)}

-------------------------------------------------------------------------------
(* TorrentStreamsService.  A torrent found is [id, torrent, file, external,*)
(* indexer, seeders, kept], external a sequence; a user has preferences,   *)
(* exclusions and a smart filter.                                          *)

\* The definition of the indexer is an attribute of a category of its own.
StreamAttributes(s) == ResolveAttributes(s.torrent, s.file, s.external) \union {s.indexer}

InCategory(s, c) == Of(StreamAttributes(s), c)

\* Several attributes of a category are tolerated as long as one of them is wanted, unless the
\* category is strict; the indexer is an attribute of a category too.
Excluded(s, u) ==
    \E c \in CategoriesOf(StreamAttributes(s)) :
      IF c \in Multiple \ Strict THEN InCategory(s, c) \subseteq u.exclusions
      ELSE InCategory(s, c) \intersect u.exclusions # {}

\* At least so many seeders: more than the value of the user.
Passes(s, u) == (u.seed = Unset \/ s.seeders > u.seed) /\ ~Excluded(s, u)

\* A preference is a sequence of attributes, best first; what is not in it comes last.
RankIn(s, preference) ==
    LET places == {i \in DOMAIN preference : preference[i] \in StreamAttributes(s)} IN
    IF places = {} THEN Len(preference)
    ELSE (CHOOSE i \in places : \A j \in places : i <= j) - 1

\* A torrent that is in the relay comes first, then the preferences in their order, then seeders.
SortKey(s, u) ==
    <<IF s.kept THEN 0 ELSE 1>>
      \o [i \in DOMAIN u.preferences |-> RankIn(s, u.preferences[i])] \o <<-s.seeders>>

KeyBefore(k, l) ==
    \E i \in DOMAIN k : k[i] < l[i] /\ \A j \in 1..(i - 1) : k[j] = l[j]

\* Python's sort is stable: streams of equal keys stay in the order they were found.
Before(s, t, u) ==
    \/ KeyBefore(SortKey(s, u), SortKey(t, u))
    \/ SortKey(s, u) = SortKey(t, u) /\ s.id < t.id

OrderOf(found, u) == {p \in found \X found : Before(p[1], p[2], u)}

SortStreams(found, u) ==
    LET passing == {s \in found : Passes(s, u)} IN InOrder(passing, OrderOf(passing, u))

\* The first of each group, a group being the same attributes of one category.
FirstOfGroups(list, u) ==
    At(list, {i \in DOMAIN list :
                \A j \in 1..(i - 1) : InCategory(list[j], u.grouping) # InCategory(list[i], u.grouping)})

\* Mutant of SmartFilter: the limit is taken before the groups.
SmartFilterLimitsFirst(list, u) ==
    IF u.smart THEN FirstOfGroups(Take(list, u.limit), u) ELSE list

SmartFilter(list, u) ==
    IF ~u.smart THEN list
    ELSE Take(IF u.grouping = Unset THEN list ELSE FirstOfGroups(list, u), u.limit)

FindByImdbId(found, u) == SmartFilter(SortStreams(found, u), u)

-------------------------------------------------------------------------------
RankingInit == viewing \in Viewings /\ listed = Unlisted

ListStreams ==
    /\ listed = Unlisted
    /\ listed' = [done |-> TRUE, list |-> FindByImdbId(viewing.found, viewing.user)]
    /\ UNCHANGED viewing

RankingSpec == RankingInit /\ [][ListStreams]_rankingVars

-------------------------------------------------------------------------------
\* A stream is shown when it passes the filter, no stream of its group is better and fewer groups
\* than the limit have a better one; and those that are shown are in order (service.py:63-94).
ShownAreBest ==
    listed.done =>
      LET u == viewing.user
          passing == {s \in viewing.found : Passes(s, u)}
          SameGroup(s, t) ==
              \/ s = t
              \/ /\ u.smart /\ u.grouping # Unset
                 /\ InCategory(s, u.grouping) = InCategory(t, u.grouping)
          best == {s \in passing : \A t \in passing : SameGroup(s, t) => ~Before(t, s, u)}
          shown == {s \in best : u.smart => Cardinality({t \in best : Before(t, s, u)}) < u.limit}
      IN /\ {listed.list[i] : i \in DOMAIN listed.list} = shown
         /\ \A i, j \in DOMAIN listed.list : i < j => Before(listed.list[i], listed.list[j], u)
===============================================================================
