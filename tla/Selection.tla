------------------------------- MODULE Selection -------------------------------
(***************************************************************************)
(* torrent_streams: which file of a torrent a film or an episode is.       *)
(* Names are modelled by what the parsers read from them: the seasons, the *)
(* episodes and the last number in the name of a file or a folder.  The    *)
(* initial state asks a question; the recursion over the tree of folders   *)
(* is a walk, one step per folder, whose open calls are its state.         *)
(***************************************************************************)
EXTENDS Integers, FiniteSets, Sequences

CONSTANTS
    Questions,      \* [torrent, files, wanted]
    Folders,        \* the names of folders
    MaxEpisode      \* bound: the longest range of episodes is 100 in the code

VARIABLES
    question,
    walk,           \* the folders to visit, each with the season it inherits, and the files found
    answer

selectionVars == <<question, walk, answer>>

None == -1          \* a season or a number that is not there

\* Seasons are numbers, in the names of folders and of torrents; a path is a sequence of folders.
ASSUME SelectionAssumption ==
    /\ \A name \in Folders \union {q.torrent : q \in Questions} :
         /\ name.exact # <<>> => name.exact[1] \in Nat
         /\ name.seasons \subseteq Nat /\ name.number \in Nat \union {None}
    /\ \A q \in Questions : \A f \in q.files : f.path \in Seq(Folders)

-------------------------------------------------------------------------------
(* SeriesParser                                                            *)

\* A name is what is written in it: [exact (SxxEyy), seasons, episodes, number (a lone one)].

ExpandRange(first, last) ==
    IF last < first THEN {first}
    ELSE first..(IF last - first > MaxEpisode THEN first + MaxEpisode ELSE last)

\* A number of three digits is a season and an episode; years are none.
Standalone(n, context) ==
    IF n = None \/ n >= 2000 THEN [seasons |-> context, episodes |-> {}]
    ELSE IF n >= 100
         THEN [seasons |-> context \union {n \div 100}, episodes |-> {n % 100}]
         ELSE [seasons |-> context, episodes |-> {n}]

Parse(name, context) ==
    IF name.exact # <<>>
    THEN [seasons |-> {name.exact[1]}, episodes |-> ExpandRange(name.exact[2], name.exact[3])]
    ELSE IF name.seasons # {} \/ name.episodes # {}
    THEN [seasons |-> name.seasons, episodes |-> name.episodes]
    ELSE Standalone(name.number, context)

\* A season counts only when it is the only one.
Season(parsed, inherited) ==
    IF Cardinality(parsed.seasons) = 1 THEN CHOOSE s \in parsed.seasons : TRUE ELSE inherited

OrFirst(season) == IF season = None THEN 1 ELSE season

-------------------------------------------------------------------------------
(* StreamFileResolver.  A file is [name, path, size], its path the names   *)
(* of the folders it is in, from the root; samples are left out.           *)

Largest(files) == {f \in files : \A g \in files : g.size <= f.size}

FileMatches(f, inherited, wanted) ==
    LET parsed == Parse(f.name, {inherited} \ {None, 0}) IN
    /\ OrFirst(Season(parsed, inherited)) = wanted.season
    /\ wanted.episode \in parsed.episodes

FolderSeason(folder, inherited) == Season(Parse(folder, {}), inherited)

\* Mutant of Pruned: a folder without a season prunes whatever is not of the first.
PrunedByDefault(season, wanted) == OrFirst(season) # wanted.season

\* A folder of another season is not looked into.
Pruned(season, wanted) == season # None /\ season # wanted.season

\* A folder that is this one episode gives all its files.
WholeFolder(folder, season, wanted) ==
    OrFirst(season) = wanted.season /\ Parse(folder, {}).episodes = {wanted.episode}

-------------------------------------------------------------------------------
(* resolve().                                                              *)

SelectionInit ==
    /\ question \in Questions
    /\ walk = [pending |-> {}, matches |-> {}]
    /\ answer = [status |-> "asked", found |-> {}]

Give(files) == answer' = [status |-> "given", found |-> files]

TorrentName == Parse(question.torrent, {})

IsFilm == question.wanted.season = None

OtherSeason == TorrentName.seasons # {} /\ question.wanted.season \notin TorrentName.seasons

OneEpisode == Cardinality(TorrentName.episodes) = 1

\* A film is the largest file; the name of the torrent may settle an episode.
AnswerByName ==
    /\ answer.status = "asked"
    /\ \/ IsFilm /\ Give(Largest(question.files))
       \/ ~IsFilm /\ OtherSeason /\ Give({})
       \/ /\ ~IsFilm /\ ~OtherSeason /\ OneEpisode
          /\ Give(IF question.wanted.episode \in TorrentName.episodes
                  THEN Largest(question.files) ELSE {})
    /\ UNCHANGED <<question, walk>>

\* The files of a folder, at any depth.
AllFilesIn(folder) ==
    {f \in question.files :
       Len(folder) <= Len(f.path) /\ \A i \in 1..Len(folder) : f.path[i] = folder[i]}

\* The children of a folder: its files are looked at, its folders are to be visited.
LookInto(folder, season, others) ==
    LET here == {f \in AllFilesIn(folder) : Len(f.path) = Len(folder)}
        Child(f) == [folder |-> Append(folder, f.path[Len(folder) + 1]), inherited |-> season]
    IN walk' = [pending |-> others \union {Child(f) : f \in AllFilesIn(folder) \ here},
                matches |-> walk.matches
                              \union {f \in here : FileMatches(f, season, question.wanted)}]

BuildTree ==
    /\ answer.status = "asked" /\ ~IsFilm /\ ~OtherSeason /\ ~OneEpisode
    /\ LookInto(<<>>, Season(TorrentName, None), {})
    /\ answer' = [answer EXCEPT !.status = "walking"]
    /\ UNCHANGED question

\* _traverse_tree of a folder.
Traverse(visit) ==
    LET name == visit.folder[Len(visit.folder)]
        season == FolderSeason(name, visit.inherited)
        others == walk.pending \ {visit}
    IN /\ answer.status = "walking"
       /\ \/ /\ Pruned(season, question.wanted)
             /\ walk' = [walk EXCEPT !.pending = others]
          \/ /\ ~Pruned(season, question.wanted) /\ WholeFolder(name, season, question.wanted)
             /\ walk' = [pending |-> others, matches |-> walk.matches \union AllFilesIn(visit.folder)]
          \/ /\ ~Pruned(season, question.wanted) /\ ~WholeFolder(name, season, question.wanted)
             /\ LookInto(visit.folder, season, others)
       /\ UNCHANGED <<question, answer>>

EndWalk ==
    /\ answer.status = "walking" /\ walk.pending = {}
    /\ Give(Largest(walk.matches))
    /\ UNCHANGED <<question, walk>>

SelectionNext ==
    \/ AnswerByName \/ BuildTree \/ EndWalk
    \/ \E visit \in walk.pending : Traverse(visit)

SelectionSpec == SelectionInit /\ [][SelectionNext]_selectionVars

-------------------------------------------------------------------------------
(* Reference definitions.                                                  *)

\* The season that holds at a place of the path: that of the last folder up to there which
\* names one season.
SeasonAt(f, n, top) ==
    LET naming == {i \in 1..n : FolderSeason(f.path[i], None) # None} IN
    IF naming = {} THEN top
    ELSE FolderSeason(f.path[CHOOSE i \in naming : \A j \in naming : j <= i], None)

\* No folder on the way down is of another season, as far as the folder that is the episode, or
\* down to the file, which names the episode itself.
IsEpisode(f, top, wanted) ==
    \E n \in 0..Len(f.path) :
      /\ \A i \in 1..n : SeasonAt(f, i, top) \in {None, wanted.season}
      /\ \/ n > 0 /\ WholeFolder(f.path[n], SeasonAt(f, n, top), wanted)
         \/ n = Len(f.path) /\ FileMatches(f, SeasonAt(f, n, top), wanted)

\* The file chosen for an episode is the largest of those whose place in the folders and whose name
\* say that episode, read from the file upwards instead of down the tree, and there is one whenever
\* the torrent has such a file and its name does not speak against it (stream_file_resolver.py:76-181).
FileOfEpisode ==
    answer.status = "given" /\ ~IsFilm /\ ~OtherSeason /\ ~OneEpisode =>
      answer.found = Largest({f \in question.files :
                                IsEpisode(f, Season(TorrentName, None), question.wanted)})
===============================================================================
