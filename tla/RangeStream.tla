----------------------------- MODULE RangeStream -----------------------------
(***************************************************************************)
(* From the Range header of a request to the bytes of its response          *)
(* (StreamService._parse_range_header, Stream._stream_inner).  A file       *)
(* begins and ends anywhere in the pieces of its torrent; the stream takes   *)
(* its pieces one after the other, cuts the first and the last to the        *)
(* range, and sends what is left of each in chunks.                          *)
(*                                                                         *)
(* Bytes are named by their position in the torrent.                        *)
(***************************************************************************)
EXTENDS Integers, Sequences

CONSTANTS
    Files,      \* a file: its place in its torrent, and the torrent's sizes
    Headers,    \* a Range header, or none
    ChunkSize   \* CHUNK_SIZE

HeaderKinds == {"none", "malformed", "from_to", "from", "suffix"}

ASSUME ConstantsOK ==
    /\ Files \subseteq [offset : Nat, size : Nat, pieceSize : Nat \ {0}, torrentSize : Nat]
    /\ \A f \in Files : f.offset + f.size <= f.torrentSize
    /\ Headers \subseteq [kind : HeaderKinds, first : Nat, last : Int]
    /\ ChunkSize \in Nat \ {0}

VARIABLES
    file,       \* the file that is streamed
    header,     \* what the request asked for
    pc,         \* "parse", "piece", "chunk", "done", "refused" or "gone"
    range,      \* the first and the last byte of the response, in the file
    piece,      \* current_stream_piece
    view,       \* the bytes of the current piece that are still to be sent
    sent        \* the bytes that were sent

vars == <<file, header, pc, range, piece, view, sent>>

Init ==
    /\ file \in Files
    /\ header \in Headers
    /\ pc = "parse"
    /\ range = [start |-> 0, end |-> -1]
    /\ piece = 0
    /\ view = [lo |-> 0, hi |-> 0]
    /\ sent = <<>>

----------------------------------------------------------------------------
(* The header. *)

Larger(a, b) == IF a >= b THEN a ELSE b
Smaller(a, b) == IF a <= b THEN a ELSE b

\* Mutant of StartByte: a suffix longer than the file starts before it.
StartUnclamped(h, size) == IF h.kind = "suffix" THEN size - h.last ELSE h.first

StartByte(h, size) ==
    CASE h.kind = "none" -> 0
      [] h.kind = "suffix" -> Larger(size - h.last, 0)
      [] OTHER -> h.first

EndByte(h, size) == IF h.kind = "from_to" THEN h.last ELSE size - 1

\* 416, and the errors of int() and split().
Refused(h, size) ==
    \/ h.kind = "malformed"
    \/ h.kind = "suffix" /\ h.last <= 0
    \/ /\ h.kind # "none"
       /\ \/ StartByte(h, size) < 0
          \/ EndByte(h, size) < 0
          \/ StartByte(h, size) > EndByte(h, size)
          \/ EndByte(h, size) >= size

----------------------------------------------------------------------------
(* The pieces. *)

PieceOf(f, b) == (b + f.offset) \div f.pieceSize

FirstPiece == PieceOf(file, range.start)

\* Mutant of LastPiece: of the byte after the last.
PieceAfter == PieceOf(file, range.end + 1)

LastPiece == PieceOf(file, range.end)

\* What libtorrent returns: the last piece of a torrent may be shorter.
BufferLength(p) == Smaller(file.pieceSize, file.torrentSize - p * file.pieceSize)

\* Mutant of StartOffset: as if the file began with its piece.
OffsetInFile(p) == IF p = FirstPiece THEN range.start % file.pieceSize ELSE 0

StartOffset(p) ==
    IF p = FirstPiece THEN (range.start + file.offset) % file.pieceSize ELSE 0

\* Mutant of EndOffset: without the last byte.
EndExclusive(p) ==
    IF p = LastPiece THEN (range.end + file.offset) % file.pieceSize ELSE BufferLength(p)

EndOffset(p) ==
    IF p = LastPiece THEN 1 + ((range.end + file.offset) % file.pieceSize)
    ELSE BufferLength(p)

\* A slice of the buffer: an end beyond it is cut, an end before the start gives
\* nothing.
Slice(p) ==
    LET base == p * file.pieceSize
        end == Smaller(EndOffset(p), BufferLength(p))
    IN  [lo |-> base + StartOffset(p), hi |-> base + Larger(end, StartOffset(p))]

Bytes(lo, hi) == [i \in 1..(hi - lo) |-> lo + i - 1]

----------------------------------------------------------------------------
ParseRangeHeader ==
    /\ pc = "parse"
    /\ IF Refused(header, file.size)
       THEN pc' = "refused" /\ UNCHANGED <<range, piece>>
       ELSE /\ pc' = "piece"
            /\ range' = [start |-> StartByte(header, file.size),
                         end |-> EndByte(header, file.size)]
            /\ piece' = PieceOf(file, StartByte(header, file.size))
    /\ UNCHANGED <<file, header, view, sent>>

\* The next turn of the loop has its piece.
GetPieceData ==
    /\ pc = "piece" /\ piece <= LastPiece
    /\ view' = Slice(piece)
    /\ pc' = "chunk"
    /\ UNCHANGED <<file, header, range, piece, sent>>

SendChunk ==
    /\ pc = "chunk" /\ view.lo < view.hi
    /\ LET hi == Smaller(view.lo + ChunkSize, view.hi) IN
        /\ sent' = sent \o Bytes(view.lo, hi)
        /\ view' = [view EXCEPT !.lo = hi]
    /\ UNCHANGED <<file, header, pc, range, piece>>

NextPiece ==
    /\ pc = "chunk" /\ view.lo >= view.hi
    /\ piece' = piece + 1
    /\ pc' = "piece"
    /\ UNCHANGED <<file, header, range, view, sent>>

Finish ==
    /\ pc = "piece" /\ piece > LastPiece
    /\ pc' = "done"
    /\ UNCHANGED <<file, header, range, piece, view, sent>>

\* The client is gone, or the piece could not be read.
BreakOff ==
    /\ pc \in {"piece", "chunk"}
    /\ pc' = "gone"
    /\ UNCHANGED <<file, header, range, piece, view, sent>>

Next == ParseRangeHeader \/ GetPieceData \/ SendChunk \/ NextPiece \/ Finish \/ BreakOff

Spec == Init /\ [][Next]_vars

----------------------------------------------------------------------------
TypeOK ==
    /\ file \in Files
    /\ header \in Headers
    /\ pc \in {"parse", "piece", "chunk", "done", "refused", "gone"}
    /\ range \in [start : Nat, end : Int]
    /\ piece \in Nat
    /\ view \in [lo : Nat, hi : Nat]
    /\ sent \in Seq(Nat)

\* What a header asks for, as a set: all of the file, the bytes from the first to
\* the last it names, those from the first on, or as many as it names at the end.
Requested ==
    {b \in 0..(file.size - 1) :
        CASE header.kind = "none" -> TRUE
          [] header.kind = "from_to" -> header.first <= b /\ b <= header.last
          [] header.kind = "from" -> header.first <= b
          [] header.kind = "suffix" -> b >= file.size - header.last
          [] OTHER -> FALSE}

\* A request is refused only if nothing in the file answers it, or it names a
\* last byte beyond the file.
RefusedRightly ==
    pc = "refused" =>
        Requested = {} \/ (header.kind = "from_to" /\ header.last >= file.size)

\* At every moment, what was sent is a beginning of what was asked for: no gap,
\* no repetition and no byte of a neighbouring file, over the cuts in the first
\* and last piece and the borders of pieces and chunks.
SentInOrder ==
    \A i \in 1..Len(sent) :
        sent[i] = file.offset + range.start + i - 1 /\ sent[i] - file.offset \in Requested

\* A stream that runs to its end has sent all of it, which is as much as the
\* Content-Length announced.
SentCompletely ==
    pc = "done" =>
        /\ Len(sent) = range.end - range.start + 1
        /\ \A b \in Requested : \E i \in 1..Len(sent) : sent[i] = file.offset + b

\* A stream asks only for pieces of its file, which are the ones that the
\* deadlines are wrapped around in; for another one it might wait forever.  (An
\* empty file that does not begin with a piece asks for the one it would be in.)
PieceOfFile ==
    (pc = "piece" /\ piece <= LastPiece) \/ pc = "chunk" =>
        /\ file.size > 0 => piece \in PieceOf(file, 0)..PieceOf(file, file.size - 1)
        /\ piece * file.pieceSize < file.torrentSize
=============================================================================
