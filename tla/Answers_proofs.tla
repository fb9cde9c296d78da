----------------------------- MODULE Answers_proofs -----------------------------
(***************************************************************************)
(* Proofs about what is answered: the bytes of a range (RangeStream), the  *)
(* streams a user is shown (Ranking), the pages of a program that asks for *)
(* a title (Torznab), the torrents an indexer's site has (IndexerSearch)   *)
(* and the file of an episode (Selection) - for files, streams, sources,   *)
(* pages and folders of any number.                                        *)
(***************************************************************************)
EXTENDS RangeStream, Ranking, Torznab, IndexerSearch, Selection, FiniteSetTheorems, WellFoundedInduction, TLAPS

(***************************************************************************)
(* RangeStream.  The next byte to send has a place of its own in every     *)
(* step: the first requested one before the first piece, the beginning of  *)
(* the piece before any other, the low end of the view inside a piece, the *)
(* byte after the last one at the end.                                     *)
(***************************************************************************)
\* The first and the last requested byte, in the torrent.
FirstByte == range.start + file.offset
LastByte == range.end + file.offset

\* Where the next byte to send is.
Position == FirstByte + Len(sent)

\* What the header is turned into: a range of the file, or nothing of an empty one.
RangeInFile ==
    /\ range.end < file.size
    /\ range.start <= range.end + 1
    /\ range.start = range.end + 1 => file.size = 0
    /\ \A b \in Int : b \in Requested <=> range.start <= b /\ b <= range.end

SentFromFirst == \A i \in 1..Len(sent) : sent[i] = FirstByte + i - 1

PositionBeforePiece ==
    pc = "piece" =>
        /\ FirstPiece <= piece /\ piece <= LastPiece + 1
        /\ Position = IF piece > LastPiece THEN LastByte + 1
                      ELSE IF piece = FirstPiece THEN FirstByte
                      ELSE piece * file.pieceSize

PositionInView ==
    pc = "chunk" =>
        /\ FirstPiece <= piece /\ piece <= LastPiece
        /\ view.lo = Position /\ view.lo <= view.hi
        /\ view.hi = IF piece = LastPiece THEN LastByte + 1 ELSE (piece + 1) * file.pieceSize

IInv ==
    /\ TypeOK
    /\ RefusedRightly
    /\ pc \in {"parse", "refused"} => sent = <<>>
    /\ pc \notin {"parse", "refused"} => RangeInFile /\ SentFromFirst
    /\ pc \in {"piece", "chunk", "gone"} => Position <= LastByte + 1
    /\ pc = "done" => Position = LastByte + 1
    /\ PositionBeforePiece
    /\ PositionInView

-----------------------------------------------------------------------------
(* Arithmetic. *)

LEMMA DivMod ==
    ASSUME NEW a \in Int, NEW p \in Nat \ {0}
    PROVE  /\ a \div p \in Int /\ a % p \in Int
           /\ a = p * (a \div p) + (a % p) /\ 0 <= a % p /\ a % p < p
OBVIOUS

LEMMA TimesMonotonic ==
    ASSUME NEW q \in Int, NEW r \in Int, NEW p \in Nat \ {0}, q < r
    PROVE  p * q + p <= p * r
<1>1. r - q \in Nat /\ r - q >= 1
  OBVIOUS
<1>2. \A n \in Nat : n >= 1 => p * n >= p
  BY Z3
<1>. QED
  BY <1>1, <1>2

LEMMA DivMonotonic ==
    ASSUME NEW a \in Int, NEW b \in Int, NEW p \in Nat \ {0}, a <= b
    PROVE  a \div p <= b \div p
<1>. SUFFICES ASSUME b \div p < a \div p
     PROVE  FALSE
  BY DivMod
<1>1. p * (b \div p) + p <= p * (a \div p)
  BY DivMod, TimesMonotonic
<1>. QED
  BY <1>1, DivMod

LEMMA DivNext ==
    ASSUME NEW a \in Int, NEW b \in Int, NEW p \in Nat \ {0}, a <= b + 1
    PROVE  a \div p <= (b \div p) + 1
<1>. SUFFICES ASSUME (b \div p) + 1 < a \div p
     PROVE  FALSE
  BY DivMod
<1>1. p * ((b \div p) + 1) + p <= p * (a \div p)
  BY DivMod, TimesMonotonic
<1>2. p * ((b \div p) + 1) = p * (b \div p) + p
  BY DivMod
<1>. QED
  BY <1>1, <1>2, DivMod

LEMMA DivNat ==
    ASSUME NEW a \in Nat, NEW p \in Nat \ {0}
    PROVE  a \div p \in Nat
<1>1. 0 \div p <= a \div p /\ 0 \div p = 0
  BY DivMonotonic
<1>. QED
  BY <1>1, DivMod

LEMMA Products ==
    ASSUME NEW p \in Nat, NEW q \in Int, NEW s \in Nat \ {0}
    PROVE  /\ p * s \in Nat /\ s * q \in Int
           /\ p * s = s * p /\ (p + 1) * s = p * s + s
<1>1. p * s \in Nat
  <2>1. \A n \in Nat : n * s >= 0
    BY Z3
  <2>. QED
    BY <2>1
<1>2. s * q \in Int /\ p * s = s * p
  OBVIOUS
<1>3. (p + 1) * s = p * s + s
  OBVIOUS
<1>. QED
  BY <1>1, <1>2, <1>3

\* The bytes of an interval, in order.
LEMMA BytesInOrder ==
    ASSUME NEW lo \in Nat, NEW hi \in Nat, lo <= hi
    PROVE  /\ Bytes(lo, hi) \in Seq(Nat)
           /\ Len(Bytes(lo, hi)) = hi - lo
           /\ \A i \in 1..(hi - lo) : Bytes(lo, hi)[i] = lo + i - 1
BY DEF Bytes

-----------------------------------------------------------------------------
(* The range in its file and the file in its torrent. *)

LEMMA FileParts ==
    ASSUME TypeOK
    PROVE  /\ file.offset \in Nat /\ file.size \in Nat /\ file.torrentSize \in Nat
           /\ file.pieceSize \in Nat \ {0}
           /\ file.offset + file.size <= file.torrentSize
           /\ range.start \in Nat /\ range.end \in Int
           /\ FirstByte \in Nat /\ LastByte \in Int
BY ConstantsOK DEF TypeOK, FirstByte, LastByte

LEMMA PiecesInOrder ==
    ASSUME NEW f \in Files, NEW start \in Nat, NEW end \in Int, start <= end + 1
    PROVE  /\ PieceOf(f, start) \in Nat /\ PieceOf(f, end) \in Int
           /\ PieceOf(f, start) <= PieceOf(f, end) + 1
           /\ start <= end => PieceOf(f, start) <= PieceOf(f, end)
<1>1. f.offset \in Nat /\ f.pieceSize \in Nat \ {0}
  BY ConstantsOK
<1> DEFINE a == start + f.offset
           b == end + f.offset
<1>2. a \in Nat /\ b \in Int /\ a <= b + 1 /\ (start <= end => a <= b)
  BY <1>1
<1>3. PieceOf(f, start) = a \div f.pieceSize /\ PieceOf(f, end) = b \div f.pieceSize
  BY DEF PieceOf
<1> HIDE DEF a, b
<1>4. a \div f.pieceSize \in Nat /\ b \div f.pieceSize \in Int
  BY <1>1, <1>2, DivNat, DivMod
<1>5. a \div f.pieceSize <= (b \div f.pieceSize) + 1
  BY <1>1, <1>2, DivNext
<1>6. start <= end => a \div f.pieceSize <= b \div f.pieceSize
  BY <1>1, <1>2, DivMonotonic
<1>. QED
  BY <1>3, <1>4, <1>5, <1>6

LEMMA PiecesOfRange ==
    ASSUME TypeOK, RangeInFile
    PROVE  /\ FirstByte <= LastByte + 1 /\ LastByte < file.torrentSize
           /\ FirstPiece \in Nat /\ LastPiece \in Int
           /\ FirstPiece = FirstByte \div file.pieceSize /\ LastPiece = LastByte \div file.pieceSize
           /\ FirstByte = file.pieceSize * FirstPiece + (FirstByte % file.pieceSize)
           /\ LastByte = file.pieceSize * LastPiece + (LastByte % file.pieceSize)
           /\ FirstByte % file.pieceSize \in 0..(file.pieceSize - 1)
           /\ LastByte % file.pieceSize \in 0..(file.pieceSize - 1)
           /\ FirstPiece <= LastPiece + 1
<1>1. FirstByte <= LastByte + 1 /\ LastByte < file.torrentSize
  BY FileParts DEF RangeInFile, FirstByte, LastByte
<1>2. /\ FirstPiece = FirstByte \div file.pieceSize /\ LastPiece = LastByte \div file.pieceSize
  BY DEF FirstPiece, LastPiece, PieceOf, FirstByte, LastByte
<1>3. FirstPiece \in Nat /\ LastPiece \in Int
  BY <1>2, FileParts, DivNat, DivMod
<1>4. /\ FirstByte = file.pieceSize * FirstPiece + (FirstByte % file.pieceSize)
      /\ FirstByte % file.pieceSize \in 0..(file.pieceSize - 1)
  <2>1. FirstByte \in Int /\ file.pieceSize \in Nat \ {0}
    BY FileParts
  <2>2. /\ FirstByte = file.pieceSize * (FirstByte \div file.pieceSize) + (FirstByte % file.pieceSize)
        /\ FirstByte % file.pieceSize \in Int
        /\ 0 <= FirstByte % file.pieceSize /\ FirstByte % file.pieceSize < file.pieceSize
    BY <2>1, DivMod
  <2> DEFINE rest == FirstByte % file.pieceSize
  <2>3. rest \in 0..(file.pieceSize - 1)
    <3> HIDE DEF rest
    <3>. QED
      BY <2>1, <2>2 DEF rest
  <2>. QED
    BY ONLY <1>2, <2>2, <2>3, Zenon
<1>6. /\ LastByte = file.pieceSize * LastPiece + (LastByte % file.pieceSize)
      /\ LastByte % file.pieceSize \in 0..(file.pieceSize - 1)
  <2>1. LastByte \in Int /\ file.pieceSize \in Nat \ {0}
    BY FileParts
  <2>2. /\ LastByte = file.pieceSize * (LastByte \div file.pieceSize) + (LastByte % file.pieceSize)
        /\ LastByte % file.pieceSize \in Int
        /\ 0 <= LastByte % file.pieceSize /\ LastByte % file.pieceSize < file.pieceSize
    BY <2>1, DivMod
  <2> DEFINE rest == LastByte % file.pieceSize
  <2>3. rest \in 0..(file.pieceSize - 1)
    <3> HIDE DEF rest
    <3>. QED
      BY <2>1, <2>2 DEF rest
  <2>. QED
    BY ONLY <1>2, <2>2, <2>3, Zenon
<1>5. FirstPiece <= LastPiece + 1
  BY <1>1, <1>2, FileParts, DivNext
<1>. QED
  BY <1>1, <1>2, <1>3, <1>4, <1>5, <1>6

\* What the loop cuts out of a piece begins where the last one ended, and ends
\* with the piece or with the range.
LEMMA SliceOfPiece ==
    ASSUME TypeOK, RangeInFile, NEW p \in Nat, FirstPiece <= p, p <= LastPiece,
           NEW pos \in Nat, pos <= LastByte + 1,
           pos = IF p = FirstPiece THEN FirstByte ELSE p * file.pieceSize
    PROVE  /\ Slice(p).lo = pos
           /\ Slice(p).hi = IF p = LastPiece THEN LastByte + 1 ELSE (p + 1) * file.pieceSize
           /\ Slice(p).hi \in Nat /\ pos <= Slice(p).hi
<1> DEFINE size == file.pieceSize
           base == p * size
           before == size * LastPiece
<1>0. /\ size \in Nat \ {0} /\ base \in Nat /\ before \in Int /\ LastPiece \in Int
      /\ (p + 1) * file.pieceSize = base + size
  <2>1. size \in Nat \ {0} /\ LastPiece \in Int
    BY FileParts, PiecesOfRange
  <2> HIDE DEF size
  <2>2. base \in Nat /\ before \in Int /\ (p + 1) * size = base + size
    BY <2>1, Products
  <2>. QED
    BY <2>1, <2>2 DEF size
<1>1. /\ StartOffset(p) \in Nat /\ StartOffset(p) < size /\ base + StartOffset(p) = pos
  <2>1. CASE p = FirstPiece
    <3>1. StartOffset(p) = FirstByte % size
      BY <2>1 DEF StartOffset, FirstByte
    <3>2. FirstByte % size \in 0..(size - 1) /\ FirstByte = size * FirstPiece + (FirstByte % size)
      BY PiecesOfRange
    <3>3. base = size * FirstPiece
      BY <1>0, <2>1, Products
    <3> HIDE DEF base, size
    <3>. QED
      BY <1>0, <2>1, <3>1, <3>2, <3>3
  <2>2. CASE p # FirstPiece
    BY <1>0, <2>2 DEF StartOffset
  <2>. QED
    BY <2>1, <2>2
<1>2. /\ LastByte \in Int /\ file.torrentSize \in Nat /\ LastByte < file.torrentSize
      /\ LastByte % size \in 0..(size - 1) /\ LastByte = before + (LastByte % size)
  BY FileParts, PiecesOfRange
<1>3. /\ BufferLength(p) = IF size <= file.torrentSize - base THEN size
                           ELSE file.torrentSize - base
      /\ EndOffset(p) = IF p = LastPiece THEN 1 + (LastByte % size) ELSE BufferLength(p)
  BY DEF BufferLength, EndOffset, Smaller, LastByte
<1>4. Slice(p) = [lo |-> base + StartOffset(p),
                  hi |-> base + Larger(Smaller(EndOffset(p), BufferLength(p)), StartOffset(p))]
  BY DEF Slice
<1>5. CASE p = LastPiece
  <2>1. base = before
    BY <1>5, FileParts
  <2> HIDE DEF base, before, size
  <2>2. /\ EndOffset(p) \in Nat /\ EndOffset(p) <= BufferLength(p)
        /\ base + EndOffset(p) = LastByte + 1 /\ BufferLength(p) \in Int
    BY <1>0, <1>2, <1>3, <1>5, <2>1
  <2>3. Larger(Smaller(EndOffset(p), BufferLength(p)), StartOffset(p)) = EndOffset(p)
    BY <1>0, <1>1, <1>2, <2>2 DEF Smaller, Larger
  <2>. QED
    BY <1>0, <1>1, <1>2, <1>4, <1>5, <2>2, <2>3
<1>6. CASE p < LastPiece
  <2>1. base + size <= before
    <3>1. file.pieceSize * p + file.pieceSize <= file.pieceSize * LastPiece
      BY <1>0, <1>6, TimesMonotonic
    <3>. QED
      BY <3>1, FileParts
  <2> HIDE DEF base, before, size
  <2>2. EndOffset(p) = size /\ BufferLength(p) = size
    BY <1>0, <1>2, <1>3, <1>6, <2>1
  <2>3. Larger(Smaller(EndOffset(p), BufferLength(p)), StartOffset(p)) = size
    BY <1>0, <1>1, <2>2 DEF Smaller, Larger
  <2>. QED
    BY <1>0, <1>1, <1>4, <1>6, <2>3
<1>. QED
  BY <1>0, <1>5, <1>6

-----------------------------------------------------------------------------
(* The steps. *)

\* A header that is refused, and one that is not.
LEMMA RefusedStep ==
    ASSUME TypeOK, Refused(header, file.size)
    PROVE  Requested = {} \/ (header.kind = "from_to" /\ header.last >= file.size)
<1>1. /\ header.kind \in HeaderKinds /\ header.first \in Nat /\ header.last \in Int
      /\ file.size \in Nat
  BY ConstantsOK, FileParts DEF TypeOK
<1>2. CASE header.kind = "malformed"
  BY <1>2 DEF Requested
<1>3. CASE header.kind = "suffix"
  BY <1>1, <1>3 DEF Refused, Requested, StartByte, EndByte, Larger
<1>4. CASE header.kind = "from"
  BY <1>1, <1>4 DEF Refused, Requested, StartByte, EndByte
<1>5. CASE header.kind = "from_to"
  BY <1>1, <1>5 DEF Refused, Requested, StartByte, EndByte
<1>6. header.kind # "none"
  BY DEF Refused
<1>. QED
  BY <1>1, <1>2, <1>3, <1>4, <1>5, <1>6 DEF HeaderKinds

LEMMA AcceptedRange ==
    ASSUME TypeOK, ~Refused(header, file.size),
           NEW start, start = StartByte(header, file.size),
           NEW end, end = EndByte(header, file.size)
    PROVE  /\ start \in Nat /\ end \in Int
           /\ end < file.size /\ start <= end + 1
           /\ start = end + 1 => file.size = 0
           /\ \A b \in Int : b \in Requested <=> start <= b /\ b <= end
<1>1. /\ header.kind \in HeaderKinds /\ header.first \in Nat /\ header.last \in Int
      /\ file.size \in Nat
  BY ConstantsOK, FileParts DEF TypeOK
<1>2. CASE header.kind = "none"
  BY <1>1, <1>2 DEF Requested, StartByte, EndByte
<1>3. CASE header.kind = "suffix"
  BY <1>1, <1>3 DEF Refused, Requested, StartByte, EndByte, Larger
<1>4. CASE header.kind = "from"
  BY <1>1, <1>4 DEF Refused, Requested, StartByte, EndByte
<1>5. CASE header.kind = "from_to"
  BY <1>1, <1>5 DEF Refused, Requested, StartByte, EndByte
<1>6. header.kind # "malformed"
  BY DEF Refused
<1>. QED
  BY <1>1, <1>2, <1>3, <1>4, <1>5, <1>6 DEF HeaderKinds

LEMMA InitInvariant ==
    ASSUME Init
    PROVE  IInv
BY DEF Init, IInv, TypeOK, RefusedRightly, PositionBeforePiece, PositionInView

LEMMA ParseStep ==
    ASSUME IInv, ParseRangeHeader
    PROVE  IInv'
<1>. USE DEF ParseRangeHeader
<1>0. TypeOK /\ sent = <<>> /\ pc = "parse"
  BY DEF IInv
<1>1. CASE Refused(header, file.size)
  <2>1. TypeOK'
    BY <1>0, <1>1 DEF TypeOK
  <2>2. RefusedRightly'
    BY <1>0, <1>1, RefusedStep DEF RefusedRightly, Requested
  <2>. QED
    BY <1>0, <1>1, <2>1, <2>2 DEF IInv, PositionBeforePiece, PositionInView
<1>2. CASE ~Refused(header, file.size)
  <2>1. /\ range'.start \in Nat /\ range'.end \in Int
        /\ range'.end < file.size /\ range'.start <= range'.end + 1
        /\ range'.start = range'.end + 1 => file.size = 0
        /\ \A b \in Int : b \in Requested <=> range'.start <= b /\ b <= range'.end
    BY <1>0, <1>2, AcceptedRange
  <2>2. RangeInFile'
    BY <2>1 DEF RangeInFile, Requested
  <2>3. /\ piece' = FirstPiece' /\ FirstPiece' \in Nat /\ LastPiece' \in Int
        /\ FirstPiece' <= LastPiece' + 1
        /\ range'.start <= range'.end => FirstPiece' <= LastPiece'
    <3>1. file' = file /\ file \in Files /\ piece' = PieceOf(file, range'.start)
      BY <1>0, <1>2 DEF TypeOK
    <3>. QED
      BY <2>1, <3>1, PiecesInOrder DEF FirstPiece, LastPiece
  <2>4. TypeOK'
    BY <1>0, <1>2, <2>1, <2>3 DEF TypeOK
  <2>5. Position' = FirstByte' /\ FirstByte' <= LastByte' + 1 /\ FirstByte' \in Nat /\ LastByte' \in Int
        /\ (FirstByte' = LastByte' + 1 <=> range'.start = range'.end + 1)
    <3>1. file.offset \in Nat /\ file' = file /\ sent' = <<>> /\ Len(<<>>) = 0
      BY <1>0, FileParts
    <3>. QED
      BY <2>1, <3>1 DEF Position, FirstByte, LastByte
  <2>6. PositionBeforePiece'
    <3> HIDE DEF ParseRangeHeader
    <3>1. range'.start \in Nat /\ range'.end \in Int /\ range'.start <= range'.end + 1
      BY <2>1
    <3>2. FirstPiece' > LastPiece' => ~(range'.start <= range'.end)
      BY <2>3
    <3>3. FirstPiece' > LastPiece' => range'.start = range'.end + 1
      BY <3>1, <3>2
    <3>4. FirstPiece' > LastPiece' => FirstByte' = LastByte' + 1
      BY <3>3, <2>5
    <3>5. piece' = FirstPiece' /\ FirstPiece' <= LastPiece' + 1 /\ FirstPiece' \in Nat
      BY <2>3
    <3>6. Position' = FirstByte'
      BY <2>5
    <3>. QED
      BY <3>4, <3>5, <3>6 DEF PositionBeforePiece
  <2>7. SentFromFirst'
    BY <1>0 DEF SentFromFirst
  <2>. QED
    BY <1>2, <2>2, <2>4, <2>5, <2>6, <2>7 DEF IInv, RefusedRightly, PositionInView
<1>. QED
  BY <1>1, <1>2

LEMMA GetPieceStep ==
    ASSUME IInv, GetPieceData
    PROVE  IInv'
<1>1. /\ TypeOK /\ RangeInFile /\ SentFromFirst /\ Position <= LastByte + 1
      /\ FirstPiece <= piece /\ piece <= LastPiece
      /\ Position = IF piece = FirstPiece THEN FirstByte ELSE piece * file.pieceSize
  <2>1. piece \in Nat /\ LastPiece \in Int /\ piece <= LastPiece
    BY PiecesOfRange DEF IInv, GetPieceData, TypeOK
  <2>2. ~(piece > LastPiece)
    BY <2>1
  <2>. QED
    BY <2>1, <2>2 DEF IInv, GetPieceData, PositionBeforePiece
<1>2. Position \in Nat /\ piece \in Nat
  BY <1>1, FileParts DEF Position, TypeOK
<1>3. /\ view'.lo = Position /\ view'.hi \in Nat /\ Position <= view'.hi
      /\ view'.hi = IF piece = LastPiece THEN LastByte + 1 ELSE (piece + 1) * file.pieceSize
      /\ view' = [lo |-> view'.lo, hi |-> view'.hi]
  <2>1. view' = Slice(piece)
    BY DEF GetPieceData
  <2>2. Slice(piece) = [lo |-> Slice(piece).lo, hi |-> Slice(piece).hi]
    BY DEF Slice
  <2>3. /\ Slice(piece).lo = Position
        /\ Slice(piece).hi = IF piece = LastPiece THEN LastByte + 1
                             ELSE (piece + 1) * file.pieceSize
        /\ Slice(piece).hi \in Nat /\ Position <= Slice(piece).hi
    BY <1>1, <1>2, SliceOfPiece
  <2>. QED
    BY ONLY <2>1, <2>2, <2>3
<1>4. TypeOK'
  BY <1>1, <1>2, <1>3 DEF GetPieceData, TypeOK
<1>5. /\ FirstByte' = FirstByte /\ LastByte' = LastByte /\ Position' = Position /\ FirstPiece' = FirstPiece
      /\ LastPiece' = LastPiece /\ piece' = piece /\ file' = file
      /\ (RangeInFile' <=> RangeInFile) /\ (SentFromFirst' <=> SentFromFirst)
  BY DEF GetPieceData, FirstByte, LastByte, Position, FirstPiece, LastPiece, RangeInFile, Requested,
         SentFromFirst
<1>6. PositionInView'
  BY <1>1, <1>3, <1>5 DEF PositionInView
<1>. QED
  BY <1>1, <1>4, <1>5, <1>6 DEF GetPieceData, IInv, RefusedRightly, PositionBeforePiece

\* A view ends within the range.
LEMMA ViewInRange ==
    ASSUME IInv, pc = "chunk"
    PROVE  view.hi <= LastByte + 1
<1>1. /\ TypeOK /\ RangeInFile /\ piece \in Nat /\ piece <= LastPiece
      /\ view.hi = IF piece = LastPiece THEN LastByte + 1 ELSE (piece + 1) * file.pieceSize
  BY DEF IInv, PositionInView, TypeOK
<1>2. CASE piece = LastPiece
  BY <1>1, <1>2, FileParts
<1>3. CASE piece < LastPiece
  <2> DEFINE size == file.pieceSize
  <2>1. size \in Nat \ {0} /\ LastPiece \in Int /\ piece \in Nat /\ LastByte \in Int
    BY <1>1, FileParts, PiecesOfRange
  <2>2. LastByte % size \in 0..(size - 1) /\ LastByte = size * LastPiece + (LastByte % size)
    BY <1>1, PiecesOfRange
  <2>3. view.hi = (piece + 1) * size
    BY <1>1, <1>3, <2>1
  <2> HIDE DEF size
  <2>4. size * piece + size <= size * LastPiece
    BY <1>3, <2>1, TimesMonotonic
  <2>5. (piece + 1) * size = size * piece + size /\ size * piece \in Int /\ size * LastPiece \in Int
    BY <2>1, Products
  <2>. QED
    BY <2>1, <2>2, <2>3, <2>4, <2>5
<1>. QED
  BY <1>1, <1>2, <1>3, PiecesOfRange

LEMMA SendStep ==
    ASSUME IInv, SendChunk
    PROVE  IInv'
<1> DEFINE hi == Smaller(view.lo + ChunkSize, view.hi)
           bytes == Bytes(view.lo, hi)
<1>1. /\ TypeOK /\ RangeInFile /\ SentFromFirst /\ PositionInView /\ pc = "chunk"
      /\ view.lo = Position /\ view.lo \in Nat /\ view.hi \in Nat /\ view.lo < view.hi
      /\ view = [lo |-> view.lo, hi |-> view.hi]
  BY DEF IInv, SendChunk, PositionInView, TypeOK
<1>2. hi \in Nat /\ view.lo < hi /\ hi <= view.hi
  BY <1>1, ConstantsOK DEF Smaller
<1>3. /\ sent' = sent \o bytes /\ view' = [lo |-> hi, hi |-> view.hi]
      /\ UNCHANGED <<file, header, pc, range, piece>>
  BY <1>1 DEF SendChunk
<1> HIDE DEF hi
<1>4. bytes \in Seq(Nat) /\ Len(bytes) = hi - view.lo
      /\ \A i \in 1..(hi - view.lo) : bytes[i] = view.lo + i - 1
  BY <1>1, <1>2, BytesInOrder
<1> HIDE DEF bytes
<1>5. sent \in Seq(Nat) /\ FirstByte \in Nat /\ LastByte \in Int
  BY <1>1, FileParts DEF TypeOK
<1>6. TypeOK'
  BY <1>1, <1>2, <1>3, <1>4, <1>5 DEF TypeOK
<1>7. /\ FirstByte' = FirstByte /\ LastByte' = LastByte /\ FirstPiece' = FirstPiece /\ LastPiece' = LastPiece
      /\ (RangeInFile' <=> RangeInFile)
  BY <1>3 DEF FirstByte, LastByte, FirstPiece, LastPiece, RangeInFile, Requested
<1>8. Len(sent') = Len(sent) + (hi - view.lo) /\ Len(sent) \in Nat
  <2>1. Len(sent \o bytes) = Len(sent) + Len(bytes) /\ Len(sent) \in Nat
    <3>1. bytes \in Seq(Nat) /\ sent \in Seq(Nat)
      BY <1>4, <1>5
    <3>. QED
      BY ONLY <3>1
  <2>. QED
    BY ONLY <1>3, <1>4, <2>1
<1>9. Position' = hi
  BY <1>1, <1>2, <1>5, <1>7, <1>8 DEF Position
<1>10. SentFromFirst'
  <2>. SUFFICES ASSUME NEW i \in 1..Len(sent')
       PROVE  sent'[i] = FirstByte + i - 1
    BY <1>7 DEF SentFromFirst
  <2>1. CASE i <= Len(sent)
    <3>1. sent'[i] = sent[i] /\ i \in 1..Len(sent)
      BY <1>3, <1>4, <1>5, <1>8, <2>1
    <3>. QED
      BY <1>1, <3>1 DEF SentFromFirst
  <2>2. CASE i > Len(sent)
    <3> DEFINE j == i - Len(sent)
    <3>1. j \in 1..(hi - view.lo) /\ j \in 1..Len(bytes)
      BY <1>1, <1>2, <1>4, <1>8, <2>2
    <3>2. sent'[i] = bytes[j]
      BY <1>3, <1>4, <1>5, <1>8, <2>2
    <3>3. bytes[j] = view.lo + j - 1
      BY <1>4, <3>1
    <3>4. view.lo = FirstByte + Len(sent)
      BY <1>1 DEF Position
    <3>. QED
      BY <1>5, <1>8, <2>2, <3>2, <3>3, <3>4
  <2>. QED
    BY <1>8, <2>1, <2>2
<1>11. Position' <= LastByte' + 1
  BY <1>1, <1>2, <1>5, <1>7, <1>9, ViewInRange
<1>12. PositionInView'
  BY <1>1, <1>2, <1>3, <1>7, <1>9 DEF PositionInView
<1>. QED
  BY <1>1, <1>3, <1>6, <1>7, <1>10, <1>11, <1>12
     DEF IInv, RefusedRightly, PositionBeforePiece

LEMMA NextPieceStep ==
    ASSUME IInv, NextPiece
    PROVE  IInv'
<1>1. /\ TypeOK /\ RangeInFile /\ SentFromFirst /\ PositionInView /\ pc = "chunk"
      /\ view.lo \in Nat /\ view.hi \in Nat /\ view.lo >= view.hi /\ piece \in Nat
      /\ pc' = "piece" /\ piece' = piece + 1 /\ UNCHANGED <<file, header, range, view, sent>>
      /\ Position <= LastByte + 1
  BY DEF IInv, NextPiece, TypeOK
<1>2. /\ FirstPiece <= piece /\ piece <= LastPiece
      /\ Position = IF piece = LastPiece THEN LastByte + 1 ELSE (piece + 1) * file.pieceSize
  BY <1>1 DEF PositionInView
<1>3. /\ FirstByte' = FirstByte /\ LastByte' = LastByte /\ Position' = Position /\ FirstPiece' = FirstPiece
      /\ LastPiece' = LastPiece
      /\ (RangeInFile' <=> RangeInFile) /\ (SentFromFirst' <=> SentFromFirst)
  BY <1>1 DEF FirstByte, LastByte, Position, FirstPiece, LastPiece, RangeInFile, Requested, SentFromFirst
<1>4. FirstPiece \in Nat /\ LastPiece \in Int
  BY <1>1, PiecesOfRange
<1>5. TypeOK'
  BY <1>1 DEF TypeOK
<1>6. PositionBeforePiece'
  <2>1. CASE piece = LastPiece
    BY <1>1, <1>2, <1>3, <1>4, <2>1 DEF PositionBeforePiece
  <2>2. CASE piece < LastPiece
    <3>1. /\ FirstPiece <= piece' /\ piece' <= LastPiece + 1 /\ ~(piece' > LastPiece)
          /\ piece' # FirstPiece
      BY <1>1, <1>2, <1>4, <2>2
    <3>2. Position' = piece' * file'.pieceSize
      BY <1>1, <1>2, <1>3, <1>4, <2>2
    <3>. QED
      BY ONLY <1>3, <3>1, <3>2 DEF PositionBeforePiece
  <2>. QED
    BY <1>1, <1>2, <1>4, <2>1, <2>2
<1>. QED
  BY <1>1, <1>3, <1>5, <1>6 DEF IInv, RefusedRightly, PositionInView

LEMMA FinishStep ==
    ASSUME IInv, Finish
    PROVE  IInv'
<1>1. /\ TypeOK /\ RangeInFile /\ SentFromFirst /\ pc = "piece" /\ piece > LastPiece
      /\ pc' = "done" /\ UNCHANGED <<file, header, range, piece, view, sent>>
      /\ Position = LastByte + 1
  BY DEF IInv, Finish, PositionBeforePiece
<1>2. Position' = LastByte' + 1 /\ (RangeInFile' <=> RangeInFile) /\ (SentFromFirst' <=> SentFromFirst)
  BY <1>1 DEF FirstByte, LastByte, Position, RangeInFile, Requested, SentFromFirst
<1>3. TypeOK'
  BY <1>1 DEF TypeOK
<1>. QED
  BY <1>1, <1>2, <1>3 DEF IInv, RefusedRightly, PositionBeforePiece, PositionInView

LEMMA BreakOffStep ==
    ASSUME IInv, BreakOff
    PROVE  IInv'
<1>1. /\ TypeOK /\ RangeInFile /\ SentFromFirst /\ pc \in {"piece", "chunk"}
      /\ pc' = "gone" /\ UNCHANGED <<file, header, range, piece, view, sent>>
      /\ Position <= LastByte + 1
  BY DEF IInv, BreakOff
<1>2. /\ Position' = Position /\ LastByte' = LastByte
      /\ (RangeInFile' <=> RangeInFile) /\ (SentFromFirst' <=> SentFromFirst)
  BY <1>1 DEF FirstByte, LastByte, Position, RangeInFile, Requested, SentFromFirst
<1>3. TypeOK'
  BY <1>1 DEF TypeOK
<1>. QED
  BY <1>1, <1>2, <1>3 DEF IInv, RefusedRightly, PositionBeforePiece, PositionInView

LEMMA StutterStep ==
    ASSUME IInv, UNCHANGED vars
    PROVE  IInv'
BY DEF vars, IInv, TypeOK, RefusedRightly, Requested, RangeInFile, SentFromFirst, Position,
       FirstByte, LastByte, FirstPiece, LastPiece, PositionBeforePiece, PositionInView

-----------------------------------------------------------------------------
(* The theorems. *)

\* The place of the next byte is an invariant of the stream.
THEOREM Invariance == Spec => []IInv
<1>1. Init => IInv
  BY InitInvariant
<1>2. IInv /\ [Next]_vars => IInv'
  BY ParseStep, GetPieceStep, SendStep, NextPieceStep, FinishStep, BreakOffStep, StutterStep
     DEF Next
<1>. QED
  BY <1>1, <1>2, PTL DEF Spec

\* Whatever the header, what was sent is a beginning of what was asked for.
THEOREM BytesSentInOrder == Spec => []SentInOrder
<1>1. IInv => SentInOrder
  <2>. SUFFICES ASSUME IInv, NEW i \in 1..Len(sent)
       PROVE  sent[i] = file.offset + range.start + i - 1 /\ sent[i] - file.offset \in Requested
    BY DEF SentInOrder
  <2>1. /\ TypeOK /\ file.offset \in Nat /\ range.start \in Nat /\ range.end \in Int
        /\ Len(sent) \in Nat /\ i \in Int /\ 1 <= i /\ i <= Len(sent)
    BY FileParts DEF IInv, TypeOK
  <2>2. RangeInFile /\ SentFromFirst /\ Position <= LastByte + 1
    <3>1. sent # <<>>
      BY <2>1
    <3>2. pc \in {"piece", "chunk", "gone", "done"}
      BY <3>1 DEF IInv, TypeOK
    <3>3. Position \in Int /\ LastByte \in Int
      BY <2>1 DEF Position, FirstByte, LastByte
    <3>. QED
      BY <3>2, <3>3 DEF IInv
  <2>3. sent[i] = file.offset + range.start + i - 1
    BY <2>1, <2>2 DEF SentFromFirst, FirstByte
  <2>4. range.start + i - 1 \in Int /\ range.start <= range.start + i - 1
        /\ range.start + i - 1 <= range.end
    BY <2>1, <2>2 DEF Position, FirstByte, LastByte
  <2>5. range.start + i - 1 \in Requested
    BY <2>2, <2>4 DEF RangeInFile
  <2>6. sent[i] - file.offset = range.start + i - 1
    BY <2>1, <2>3
  <2>. QED
    BY <2>3, <2>5, <2>6
<1>. QED
  BY <1>1, Invariance, PTL

\* A stream that ends by itself has sent all of what was asked for.
THEOREM AllBytesSent == Spec => []SentCompletely
<1>1. IInv => SentCompletely
  <2>. SUFFICES ASSUME IInv, pc = "done"
       PROVE  /\ Len(sent) = range.end - range.start + 1
              /\ \A b \in Requested : \E i \in 1..Len(sent) : sent[i] = file.offset + b
    BY DEF SentCompletely
  <2>1. /\ file.offset \in Nat /\ file.size \in Nat
        /\ range.start \in Nat /\ range.end \in Int
        /\ Len(sent) \in Nat /\ RangeInFile /\ SentFromFirst /\ Position = LastByte + 1
    BY FileParts DEF IInv, TypeOK
  <2>2. Len(sent) = range.end - range.start + 1
    BY <2>1 DEF Position, FirstByte, LastByte
  <2>3. ASSUME NEW b \in Requested
        PROVE  \E i \in 1..Len(sent) : sent[i] = file.offset + b
    <3>1. b \in Int
      BY <2>1 DEF Requested
    <3>2. range.start <= b /\ b <= range.end
      BY <2>1, <3>1 DEF RangeInFile
    <3> DEFINE i == b - range.start + 1
    <3>3. i \in 1..Len(sent)
      BY <2>1, <2>2, <3>1, <3>2
    <3>4. sent[i] = FirstByte + i - 1
      BY <2>1, <3>3 DEF SentFromFirst
    <3>5. FirstByte + i - 1 = file.offset + b
      BY <2>1, <3>1 DEF FirstByte
    <3>. QED
      BY <3>3, <3>4, <3>5
  <2>. QED
    BY <2>2, <2>3
<1>. QED
  BY <1>1, Invariance, PTL

\* A stream waits only for pieces of its own file.
THEOREM OnlyPiecesOfFile == Spec => []PieceOfFile
<1>1. IInv => PieceOfFile
  <2>. SUFFICES ASSUME IInv, (pc = "piece" /\ piece <= LastPiece) \/ pc = "chunk"
       PROVE  /\ file.size > 0 => piece \in PieceOf(file, 0)..PieceOf(file, file.size - 1)
              /\ piece * file.pieceSize < file.torrentSize
    BY DEF PieceOfFile
  <2>1. /\ TypeOK /\ RangeInFile /\ piece \in Nat /\ file \in Files /\ file.size \in Nat
        /\ FirstPiece <= piece /\ piece <= LastPiece
        /\ range.start \in Nat /\ range.end \in Int
    BY FileParts DEF IInv, TypeOK, PositionBeforePiece, PositionInView
  <2>2. FirstPiece \in Nat /\ LastPiece \in Int
    BY <2>1, PiecesOfRange
  <2>3. ASSUME file.size > 0
        PROVE  piece \in PieceOf(file, 0)..PieceOf(file, file.size - 1)
    <3>1. range.start <= range.end /\ range.end \in Nat /\ range.end <= file.size - 1
      BY <2>1, <2>3 DEF RangeInFile
    <3>2. PieceOf(file, 0) \in Nat /\ PieceOf(file, 0) <= FirstPiece
      BY <2>1, PiecesInOrder DEF FirstPiece
    <3>3. PieceOf(file, file.size - 1) \in Int /\ LastPiece <= PieceOf(file, file.size - 1)
      <4>1. file.size - 1 \in Int /\ range.end <= file.size - 1 + 1
        BY <2>1, <3>1
      <4>. QED
        BY <2>1, <3>1, <4>1, PiecesInOrder DEF LastPiece
    <3>. QED
      BY <2>1, <2>2, <3>2, <3>3
  <2>4. piece * file.pieceSize < file.torrentSize
    <3> DEFINE size == file.pieceSize
    <3>1. /\ size \in Nat \ {0} /\ LastByte \in Int /\ file.torrentSize \in Nat
          /\ LastByte < file.torrentSize
          /\ LastByte % size \in 0..(size - 1) /\ LastByte = size * LastPiece + (LastByte % size)
      BY <2>1, FileParts, PiecesOfRange
    <3>2. piece * file.pieceSize = piece * size
      OBVIOUS
    <3> HIDE DEF size
    <3>3. piece * size = size * piece /\ piece * size \in Nat /\ size * LastPiece \in Int
      BY <2>1, <2>2, <3>1, Products
    <3>4. size * piece <= size * LastPiece
      <4>1. CASE piece = LastPiece
        BY <3>3, <4>1
      <4>2. CASE piece < LastPiece
        <5>1. size * piece + size <= size * LastPiece
          BY <2>1, <2>2, <3>1, <4>2, TimesMonotonic
        <5>. QED
          BY <3>1, <3>3, <5>1
      <4>. QED
        BY <2>1, <2>2, <4>1, <4>2
    <3>. QED
      BY <3>1, <3>2, <3>3, <3>4
  <2>. QED
    BY <2>3, <2>4
<1>. QED
  BY <1>1, Invariance, PTL

\* Only a header that nothing in the file answers, or that names a byte beyond
\* it, is refused.
THEOREM HeadersRefusedRightly == Spec => []RefusedRightly
<1>1. IInv => RefusedRightly
  BY DEF IInv
<1>. QED
  BY <1>1, Invariance, PTL

-----------------------------------------------------------------------------
(***************************************************************************)
(* Orders.  A list enumerates a set in an order when it holds each of its  *)
(* members once, and those at earlier places come before those at later    *)
(* ones.                                                                   *)
(***************************************************************************)
Enumerates(list, S, R) ==
    /\ list \in [1..Cardinality(S) -> S]
    /\ \A x \in S : \E k \in 1..Cardinality(S) : list[k] = x
    /\ \A i, j \in 1..Cardinality(S) : i < j => <<list[i], list[j]>> \in R

\* How many come before.
Rank(S, R, x) == Cardinality(Below(S, R, x))

LEMMA RankBounds ==
  ASSUME NEW S, IsFiniteSet(S), NEW R, StrictTotal(S, R), NEW x \in S
  PROVE  /\ IsFiniteSet(Below(S, R, x))
         /\ Rank(S, R, x) \in Nat
         /\ Rank(S, R, x) < Cardinality(S)
<1>1. Below(S, R, x) \in SUBSET S /\ x \notin Below(S, R, x)
  BY DEF Below, StrictTotal
<1>2. IsFiniteSet(Below(S, R, x)) /\ Cardinality(Below(S, R, x)) <= Cardinality(S)
      /\ Cardinality(Below(S, R, x)) # Cardinality(S)
  BY <1>1, FS_Subset
<1>3. Cardinality(Below(S, R, x)) \in Nat /\ Cardinality(S) \in Nat
  BY <1>2, FS_CardinalityType
<1> QED  BY <1>2, <1>3 DEF Rank

LEMMA RankGrows ==
  ASSUME NEW S, IsFiniteSet(S), NEW R, StrictTotal(S, R), NEW x \in S, NEW y \in S,
         <<x, y>> \in R
  PROVE  Rank(S, R, x) < Rank(S, R, y)
<1>1. Below(S, R, x) \in SUBSET Below(S, R, y)
  BY DEF Below, StrictTotal
<1>2. x \in Below(S, R, y) /\ x \notin Below(S, R, x)
  BY DEF Below, StrictTotal
<1>3. IsFiniteSet(Below(S, R, y)) /\ Rank(S, R, x) \in Nat /\ Rank(S, R, y) \in Nat
  BY RankBounds
<1>4. Cardinality(Below(S, R, x)) <= Cardinality(Below(S, R, y))
      /\ Cardinality(Below(S, R, x)) # Cardinality(Below(S, R, y))
  BY <1>1, <1>2, <1>3, FS_Subset
<1> QED  BY <1>3, <1>4 DEF Rank

LEMMA RankDecides ==
  ASSUME NEW S, IsFiniteSet(S), NEW R, StrictTotal(S, R), NEW x \in S, NEW y \in S
  PROVE  /\ Rank(S, R, x) < Rank(S, R, y) => <<x, y>> \in R
         /\ Rank(S, R, x) = Rank(S, R, y) => x = y
<1>1. x = y \/ <<x, y>> \in R \/ <<y, x>> \in R
  BY DEF StrictTotal
<1>2. <<x, y>> \in R => Rank(S, R, x) < Rank(S, R, y)
  BY RankGrows
<1>3. <<y, x>> \in R => Rank(S, R, y) < Rank(S, R, x)
  BY RankGrows
<1>4. Rank(S, R, x) \in Nat /\ Rank(S, R, y) \in Nat
  BY RankBounds
<1> QED  BY <1>1, <1>2, <1>3, <1>4

\* Every number of a place is the rank of one.
LEMMA RankOnto ==
  ASSUME NEW S, IsFiniteSet(S), NEW R, StrictTotal(S, R), NEW k \in 1..Cardinality(S)
  PROVE  \E x \in S : Rank(S, R, x) = k - 1
<1> DEFINE f == [x \in S |-> Rank(S, R, x) + 1]
<1>1. Cardinality(S) \in Nat
  BY FS_CardinalityType
<1>2. f \in [S -> 1..Cardinality(S)]
  <2> SUFFICES ASSUME NEW x \in S PROVE Rank(S, R, x) + 1 \in 1..Cardinality(S)
    OBVIOUS
  <2> QED  BY <1>1, RankBounds
<1>3. \A x, y \in S : f[x] = f[y] => x = y
  <2> SUFFICES ASSUME NEW x \in S, NEW y \in S, f[x] = f[y] PROVE x = y
    OBVIOUS
  <2>1. Rank(S, R, x) \in Nat /\ Rank(S, R, y) \in Nat
    BY RankBounds
  <2>2. Rank(S, R, x) = Rank(S, R, y)
    BY <2>1
  <2> QED  BY <2>2, RankDecides
<1>4. f \in Injection(S, 1..Cardinality(S))
  BY <1>2, <1>3 DEF Injection, IsInjective
<1>5. IsFiniteSet(1..Cardinality(S)) /\ Cardinality(1..Cardinality(S)) = Cardinality(S)
  BY <1>1, FS_Interval
<1>6. f \in Surjection(S, 1..Cardinality(S))
  <2> HIDE DEF f
  <2> QED  BY <1>4, <1>5, FS_Injection
<1>7. \E x \in S : f[x] = k
  BY <1>6 DEF Surjection
<1>8. PICK x \in S : Rank(S, R, x) + 1 = k
  BY <1>7
<1>9. Rank(S, R, x) \in Nat
  BY RankBounds
<1> QED  BY <1>8, <1>9

\* InOrder enumerates the set.
LEMMA InOrderEnumerates ==
  ASSUME NEW S, IsFiniteSet(S), NEW R, StrictTotal(S, R)
  PROVE  Enumerates(InOrder(S, R), S, R)
<1> DEFINE n == Cardinality(S)
           Chosen(k) == CHOOSE x \in S : Rank(S, R, x) = k - 1
<1>1. InOrder(S, R) = [k \in 1..n |-> Chosen(k)]
  BY DEF InOrder, Rank
<1>2. n \in Nat
  BY FS_CardinalityType
<1>3. \A k \in 1..n : Chosen(k) \in S /\ Rank(S, R, Chosen(k)) = k - 1
  BY RankOnto
<1> HIDE DEF Chosen
<1>4. \A x \in S : \E k \in 1..n : Chosen(k) = x
  <2> SUFFICES ASSUME NEW x \in S PROVE \E k \in 1..n : Chosen(k) = x
    OBVIOUS
  <2>1. Rank(S, R, x) \in Nat /\ Rank(S, R, x) + 1 \in 1..n
    BY <1>2, RankBounds
  <2>2. Rank(S, R, Chosen(Rank(S, R, x) + 1)) = Rank(S, R, x) /\ Chosen(Rank(S, R, x) + 1) \in S
    BY <1>3, <2>1
  <2>3. Chosen(Rank(S, R, x) + 1) = x
    BY <2>2, RankDecides
  <2> QED  BY <2>1, <2>3
<1>5. ASSUME NEW i \in 1..n, NEW j \in 1..n, i < j PROVE <<Chosen(i), Chosen(j)>> \in R
  <2>1. Rank(S, R, Chosen(i)) < Rank(S, R, Chosen(j))
    BY <1>2, <1>3, <1>5
  <2> QED  BY <1>3, <2>1, RankDecides
<1> QED  BY <1>1, <1>3, <1>4, <1>5 DEF Enumerates

\* The place of a member in a list that enumerates its set is its rank, more one.
LEMMA PlaceIsRank ==
  ASSUME NEW S, IsFiniteSet(S), NEW R, StrictTotal(S, R), NEW list, Enumerates(list, S, R),
         NEW k \in 1..Cardinality(S)
  PROVE  Rank(S, R, list[k]) = k - 1
<1> DEFINE n == Cardinality(S)
           f == [i \in 1..(k - 1) |-> list[i]]
<1>1. n \in Nat /\ k \in Nat /\ 1 <= k /\ k <= n
  BY FS_CardinalityType
<1>2. \A i, j \in 1..n : i < j => <<list[i], list[j]>> \in R /\ <<list[j], list[i]>> \notin R
                                   /\ list[i] # list[j]
  BY DEF Enumerates, StrictTotal
<1>3. Below(S, R, list[k]) = {list[i] : i \in 1..(k - 1)}
  <2>1. ASSUME NEW y \in S, <<y, list[k]>> \in R PROVE \E i \in 1..(k - 1) : list[i] = y
    <3>1. PICK i \in 1..n : list[i] = y
      BY DEF Enumerates
    <3>2. i # k
      BY <2>1, <3>1 DEF StrictTotal
    <3>3. ~(k < i)
      BY <1>2, <2>1, <3>1
    <3> QED  BY <1>1, <3>1, <3>2, <3>3
  <2>2. ASSUME NEW i \in 1..(k - 1) PROVE list[i] \in S /\ <<list[i], list[k]>> \in R
    <3>1. i \in 1..n /\ i < k
      BY <1>1
    <3> QED  BY <3>1, <1>1 DEF Enumerates
  <2> QED  BY <2>1, <2>2 DEF Below
<1>4. f \in Bijection(1..(k - 1), Below(S, R, list[k]))
  <2>1. f \in [1..(k - 1) -> Below(S, R, list[k])]
    BY <1>3
  <2>2. \A i, j \in 1..(k - 1) : f[i] = f[j] => i = j
    <3> SUFFICES ASSUME NEW i \in 1..(k - 1), NEW j \in 1..(k - 1), list[i] = list[j] PROVE i = j
      OBVIOUS
    <3>1. i \in 1..n /\ j \in 1..n /\ i \in Int /\ j \in Int
      BY <1>1
    <3>2. ~(i < j) /\ ~(j < i)
      BY <1>2, <3>1
    <3> QED  BY <3>1, <3>2
  <2>3. \A y \in Below(S, R, list[k]) : \E i \in 1..(k - 1) : f[i] = y
    BY <1>3
  <2> QED  BY <2>1, <2>2, <2>3 DEF Bijection, Injection, Surjection, IsInjective
<1>5. IsFiniteSet(1..(k - 1)) /\ Cardinality(1..(k - 1)) = k - 1
  <2>1. 1 \in Int /\ k - 1 \in Int /\ (1 > k - 1 => k - 1 = 0)
    BY <1>1
  <2> HIDE DEF n, f
  <2> QED  BY <1>1, <2>1, FS_Interval
<1>6. ExistsBijection(1..(k - 1), Below(S, R, list[k]))
  BY <1>4 DEF ExistsBijection
<1>7. Cardinality(Below(S, R, list[k])) = k - 1
  BY <1>5, <1>6, FS_Bijection
<1> QED  BY <1>7 DEF Rank

LEMMA EnumeratedOnce ==
  ASSUME NEW S, IsFiniteSet(S), NEW R, StrictTotal(S, R), NEW list, Enumerates(list, S, R),
         NEW i \in 1..Cardinality(S), NEW j \in 1..Cardinality(S)
  PROVE  /\ list[i] = list[j] => i = j
         /\ <<list[i], list[j]>> \in R <=> i < j
<1>1. list[i] \in S /\ list[j] \in S /\ Cardinality(S) \in Nat
  BY FS_CardinalityType DEF Enumerates
<1>2. i < j \/ i = j \/ j < i
  BY <1>1
<1>3. (i < j => <<list[i], list[j]>> \in R) /\ (j < i => <<list[j], list[i]>> \in R)
  BY DEF Enumerates
<1>4. ~(i < j /\ j < i) /\ ~(i = j /\ i < j)
  BY <1>1
<1> QED  BY <1>1, <1>2, <1>3, <1>4 DEF StrictTotal

LEMMA AscendingTotal ==
  ASSUME NEW places \in SUBSET Int
  PROVE  StrictTotal(places, Ascending(places))
<1>1. \A x, y \in places : <<x, y>> \in Ascending(places) <=> x < y
  <2> SUFFICES ASSUME NEW x \in places, NEW y \in places
               PROVE  <<x, y>> \in Ascending(places) <=> x < y
    OBVIOUS
  <2>1. <<x, y>> \in places \X places /\ <<x, y>>[1] = x /\ <<x, y>>[2] = y
    OBVIOUS
  <2> QED  BY <2>1 DEF Ascending
<1>2. \A x \in places : ~(x < x)
  OBVIOUS
<1>3. \A x, y, z \in places : x < y /\ y < z => x < z
  OBVIOUS
<1>4. \A x, y \in places : x = y \/ x < y \/ y < x
  OBVIOUS
<1> HIDE DEF Ascending
<1> QED  BY <1>1, <1>2, <1>3, <1>4 DEF StrictTotal

\* What a list has at some places, by the places in their order.
LEMMA AtInOrder ==
  ASSUME NEW list, NEW n \in Nat, NEW places \in SUBSET (1..n)
  PROVE  \E order \in [1..Cardinality(places) -> places] :
           /\ At(list, places) = [k \in 1..Cardinality(places) |-> list[order[k]]]
           /\ \A p \in places : \E k \in 1..Cardinality(places) : order[k] = p
           /\ \A i, j \in 1..Cardinality(places) : i < j => order[i] < order[j]
<1> DEFINE order == InOrder(places, Ascending(places))
<1>1. IsFiniteSet(places)
  <2>1. IsFiniteSet(1..n)
    BY FS_Interval
  <2> QED  BY <2>1, FS_Subset
<1>2. Enumerates(order, places, Ascending(places))
  BY <1>1, AscendingTotal, InOrderEnumerates
<1>3. \A i, j \in 1..Cardinality(places) : i < j => order[i] < order[j]
  <2> SUFFICES ASSUME NEW i \in 1..Cardinality(places), NEW j \in 1..Cardinality(places), i < j
               PROVE  order[i] < order[j]
    OBVIOUS
  <2>1. <<order[i], order[j]>> \in Ascending(places)
    BY <1>2 DEF Enumerates
  <2> HIDE DEF order
  <2> QED  BY <2>1 DEF Ascending
<1>4. At(list, places) = [k \in 1..Cardinality(places) |-> list[order[k]]]
  BY DEF At
<1>5. order \in [1..Cardinality(places) -> places]
      /\ \A p \in places : \E k \in 1..Cardinality(places) : order[k] = p
  BY <1>2 DEF Enumerates
<1> HIDE DEF order
<1> QED  BY <1>3, <1>4, <1>5

\* Some places of a list that enumerates a set enumerate a part of it.
LEMMA AtEnumerates ==
  ASSUME NEW S, IsFiniteSet(S), NEW R, StrictTotal(S, R), NEW list, Enumerates(list, S, R),
         NEW places \in SUBSET (1..Cardinality(S))
  PROVE  Enumerates(At(list, places), {list[i] : i \in places}, R)
<1> DEFINE n == Cardinality(S)
           m == Cardinality(places)
           T == {list[i] : i \in places}
<1>1. n \in Nat
  BY FS_CardinalityType
<1>2. PICK order \in [1..m -> places] :
           /\ At(list, places) = [k \in 1..m |-> list[order[k]]]
           /\ \A p \in places : \E k \in 1..m : order[k] = p
           /\ \A i, j \in 1..m : i < j => order[i] < order[j]
  <2>1. places \in SUBSET (1..n)
    OBVIOUS
  <2> HIDE DEF n
  <2> QED  BY <1>1, <2>1, AtInOrder
<1>3. IsFiniteSet(places)
  <2>1. IsFiniteSet(1..n)
    BY <1>1, FS_Interval
  <2> QED  BY <2>1, FS_Subset
<1>4. m = Cardinality(T)
  <2> DEFINE f == [i \in places |-> list[i]]
  <2>1. \A i, j \in places : list[i] = list[j] => i = j
    <3> SUFFICES ASSUME NEW i \in places, NEW j \in places, list[i] = list[j] PROVE i = j
      OBVIOUS
    <3>1. i \in 1..Cardinality(S) /\ j \in 1..Cardinality(S)
      OBVIOUS
    <3> HIDE DEF n, m, T, f
    <3> QED  BY <3>1, EnumeratedOnce, Zenon
  <2>2. f \in Bijection(places, T)
    BY <2>1 DEF Bijection, Injection, Surjection, IsInjective
  <2>3. ExistsBijection(places, T)
    BY <2>2 DEF ExistsBijection
  <2> QED  BY <1>3, <2>3, FS_Bijection
<1>5. At(list, places) \in [1..m -> T]
  BY <1>2
<1>6. \A x \in T : \E k \in 1..m : At(list, places)[k] = x
  <2> SUFFICES ASSUME NEW p \in places PROVE \E k \in 1..m : At(list, places)[k] = list[p]
    OBVIOUS
  <2>1. PICK k \in 1..m : order[k] = p
    BY <1>2
  <2> QED  BY <1>2, <2>1
<1>7. ASSUME NEW i \in 1..m, NEW j \in 1..m, i < j
      PROVE  <<At(list, places)[i], At(list, places)[j]>> \in R
  <2>1. order[i] \in 1..n /\ order[j] \in 1..n /\ order[i] < order[j]
    BY <1>2, <1>7
  <2> QED  BY <1>2, <2>1 DEF Enumerates
<1> HIDE DEF m, T
<1> QED  BY <1>4, <1>5, <1>6, <1>7 DEF Enumerates, T

\* The first of a list that enumerates a set are those with the smallest ranks.
LEMMA TakeSmallest ==
  ASSUME NEW S, IsFiniteSet(S), NEW R, StrictTotal(S, R), NEW list, Enumerates(list, S, R),
         NEW n \in Nat
  PROVE  /\ {Take(list, n)[i] : i \in DOMAIN Take(list, n)} = {x \in S : Rank(S, R, x) < n}
         /\ \A i, j \in DOMAIN Take(list, n) :
              i < j => <<Take(list, n)[i], Take(list, n)[j]>> \in R
<1> DEFINE c == Cardinality(S)
           l == IF n < c THEN n ELSE c
<1>1. c \in Nat /\ l \in Nat /\ l <= c /\ l <= n /\ (l = n \/ l = c)
  BY FS_CardinalityType
<1>2. list \in [1..c -> S]
  BY DEF Enumerates
<1>3. list \in Seq(S) /\ Len(list) = c
  BY <1>1, <1>2
<1>4. Take(list, n) = [i \in 1..l |-> list[i]]
  BY <1>1, <1>3 DEF Take
<1>5. DOMAIN Take(list, n) = 1..l /\ \A i \in 1..l : i \in 1..c /\ Take(list, n)[i] = list[i]
  BY <1>1, <1>4
<1>6. ASSUME NEW i \in 1..l PROVE list[i] \in {x \in S : Rank(S, R, x) < n}
  <2>1. i \in 1..c /\ Rank(S, R, list[i]) = i - 1
    BY <1>5, PlaceIsRank
  <2> QED  BY <1>1, <1>2, <2>1
<1>7. ASSUME NEW x \in S, Rank(S, R, x) < n PROVE \E i \in 1..l : list[i] = x
  <2>1. PICK i \in 1..c : list[i] = x
    BY DEF Enumerates
  <2>2. Rank(S, R, x) = i - 1
    BY <2>1, PlaceIsRank
  <2>3. i \in 1..l
    BY <1>1, <1>7, <2>1, <2>2
  <2> QED  BY <2>1, <2>3
<1>8. ASSUME NEW i \in 1..l, NEW j \in 1..l, i < j PROVE <<list[i], list[j]>> \in R
  BY <1>5, <1>8 DEF Enumerates
<1> HIDE DEF l
<1> QED  BY <1>5, <1>6, <1>7, <1>8

\* Two lists one after the other, where those of the first come before those of the second.
LEMMA EnumeratesBoth ==
  ASSUME NEW A, IsFiniteSet(A), NEW B, IsFiniteSet(B), A \intersect B = {}, NEW R,
         NEW first, Enumerates(first, A, R), NEW second, Enumerates(second, B, R),
         \A x \in A, y \in B : <<x, y>> \in R
  PROVE  Enumerates(first \o second, A \union B, R)
<1> DEFINE a == Cardinality(A)
           b == Cardinality(B)
           both == first \o second
<1>1. a \in Nat /\ b \in Nat /\ Cardinality(A \union B) = a + b
  <2>1. Cardinality(A \intersect B) = 0
    BY FS_EmptySet
  <2>2. a \in Nat /\ b \in Nat
    BY FS_CardinalityType
  <2>3. Cardinality(A \union B) = a + b - Cardinality(A \intersect B)
    BY FS_Union
  <2> QED  BY <2>1, <2>2, <2>3
<1>2. first \in [1..a -> A] /\ second \in [1..b -> B]
  BY DEF Enumerates
<1>3. first \in Seq(A \union B) /\ second \in Seq(A \union B) /\ Len(first) = a /\ Len(second) = b
  BY <1>1, <1>2
<1>4. both \in Seq(A \union B) /\ Len(both) = a + b
  BY <1>3
<1>5. both \in [1..(a + b) -> A \union B]
  <2> HIDE DEF both, a, b
  <2> QED  BY <1>4
<1>6. (\A k \in 1..a : k \in 1..(a + b) /\ both[k] = first[k])
      /\ \A k \in 1..b : a + k \in 1..(a + b) /\ both[a + k] = second[k]
  BY <1>1, <1>3
<1>7. \A x \in A \union B : \E k \in 1..(a + b) : both[k] = x
  <2>1. \A x \in A : \E k \in 1..a : first[k] = x
    BY DEF Enumerates
  <2>2. \A x \in B : \E k \in 1..b : second[k] = x
    BY DEF Enumerates
  <2> HIDE DEF both, a, b
  <2> QED  BY <1>6, <2>1, <2>2
<1>8. ASSUME NEW i \in 1..(a + b), NEW j \in 1..(a + b), i < j PROVE <<both[i], both[j]>> \in R
  <2>1. CASE j <= a
    <3>1. i \in 1..a /\ j \in 1..a
      BY <1>1, <1>8, <2>1
    <3>2. both[i] = first[i] /\ both[j] = first[j]
      BY <1>6, <3>1
    <3>3. <<first[i], first[j]>> \in R
      BY <1>8, <3>1 DEF Enumerates
    <3> QED  BY <3>2, <3>3
  <2>2. CASE i > a
    <3>1. i - a \in 1..b /\ j - a \in 1..b /\ i - a < j - a /\ a + (i - a) = i /\ a + (j - a) = j
      BY <1>1, <1>8, <2>2
    <3>2. both[i] = second[i - a] /\ both[j] = second[j - a]
      BY <1>6, <3>1
    <3> QED  BY <3>1, <3>2 DEF Enumerates
  <2>3. CASE i <= a /\ j > a
    <3>1. i \in 1..a /\ j - a \in 1..b /\ a + (j - a) = j
      BY <1>1, <1>8, <2>3
    <3>2. both[i] = first[i] /\ both[j] = second[j - a]
      BY <1>6, <3>1
    <3> QED  BY <1>2, <3>1, <3>2
  <2>4. j <= a \/ i > a \/ (i <= a /\ j > a)
    BY <1>1
  <2> QED  BY <2>1, <2>2, <2>3, <2>4
<1> HIDE DEF both, a, b
<1>9. both \in [1..Cardinality(A \union B) -> A \union B]
  BY <1>1, <1>5
<1> QED  BY <1>1, <1>7, <1>8, <1>9 DEF Enumerates, both

LEMMA TotalOnPart ==
  ASSUME NEW S, NEW R, StrictTotal(S, R), NEW T \in SUBSET S
  PROVE  StrictTotal(T, R)
BY DEF StrictTotal

\* A set of natural numbers that is not empty has a least one.
LEMMA LeastNumber ==
  ASSUME NEW numbers \in SUBSET Nat, numbers # {}
  PROVE  \E m \in numbers : \A k \in numbers : m <= k
<1> DEFINE less == OpToRel(<, Nat)
<1>1. IsWellFoundedOn(less, Nat)
  BY NatLessThanWellFounded
<1>2. PICK m \in numbers : \A k \in numbers : <<k, m>> \notin less
  <2> HIDE DEF less
  <2> QED  BY <1>1, WFMin
<1>3. \A k \in numbers : ~(k < m)
  <2> SUFFICES ASSUME NEW k \in numbers, k < m
               PROVE  FALSE
    OBVIOUS
  <2>1. <<k, m>> \in Nat \X Nat /\ <<k, m>>[1] = k /\ <<k, m>>[2] = m
    OBVIOUS
  <2>2. <<k, m>> \in less
    BY <2>1 DEF OpToRel
  <2> QED  BY <1>2, <2>2
<1> QED  BY <1>3

\* A list of places with the members they stand for in their stead.
LEMMA EnumeratesImage ==
  ASSUME NEW P, IsFiniteSet(P), NEW Q, NEW order, Enumerates(order, P, Q),
         NEW T, NEW R, NEW f \in Bijection(P, T),
         \A i, j \in P : <<i, j>> \in Q => <<f[i], f[j]>> \in R
  PROVE  Enumerates([k \in 1..Cardinality(P) |-> f[order[k]]], T, R)
<1> DEFINE m == Cardinality(P)
           list == [k \in 1..m |-> f[order[k]]]
<1>1. m = Cardinality(T)
  <2>1. ExistsBijection(P, T)
    BY DEF ExistsBijection
  <2> QED  BY <2>1, FS_Bijection
<1>2. order \in [1..m -> P] /\ f \in [P -> T] /\ \A x \in T : \E p \in P : f[p] = x
  BY DEF Enumerates, Bijection, Injection, Surjection
<1>3. \A x \in T : \E k \in 1..m : list[k] = x
  <2> SUFFICES ASSUME NEW x \in T PROVE \E k \in 1..m : f[order[k]] = x
    OBVIOUS
  <2>1. PICK p \in P : f[p] = x
    BY <1>2
  <2>2. PICK k \in 1..m : order[k] = p
    BY DEF Enumerates
  <2> QED  BY <2>1, <2>2
<1>4. ASSUME NEW i \in 1..m, NEW j \in 1..m, i < j PROVE <<list[i], list[j]>> \in R
  <2>1. <<order[i], order[j]>> \in Q
    BY <1>4 DEF Enumerates
  <2>2. order[i] \in P /\ order[j] \in P
    BY <1>2
  <2> QED  BY <2>1, <2>2
<1>5. list \in [1..m -> T]
  BY <1>2
<1> HIDE DEF m, list
<1>6. Enumerates(list, T, R)
  BY <1>1, <1>3, <1>4, <1>5 DEF Enumerates
<1> QED  BY <1>6 DEF list, m

-----------------------------------------------------------------------------
(***************************************************************************)
(* Ranking.  The keys of a user's preferences, compared one after the      *)
(* other, and then the ids order the streams found strictly and totally,   *)
(* whatever the preferences are; the list is this order of those that      *)
(* pass, so that being shown can be told by counting who comes before.     *)
(***************************************************************************)
\* The order of keys of a length.
LEMMA KeysTotal ==
  ASSUME NEW n \in Nat, NEW k \in [1..n -> Int], NEW l \in [1..n -> Int]
  PROVE  k = l \/ KeyBefore(k, l) \/ KeyBefore(l, k)
<1> SUFFICES ASSUME k # l PROVE KeyBefore(k, l) \/ KeyBefore(l, k)
  OBVIOUS
<1> DEFINE differ == {i \in 1..n : k[i] # l[i]}
<1>1. differ \in SUBSET Nat /\ differ # {}
  OBVIOUS
<1>2. PICK i \in differ : \A j \in differ : i <= j
  BY <1>1, LeastNumber
<1>3. i \in 1..n /\ k[i] # l[i] /\ k[i] \in Int /\ l[i] \in Int
  OBVIOUS
<1>4. \A j \in 1..(i - 1) : j \in 1..n /\ ~(i <= j)
  BY <1>3
<1>5. \A j \in 1..(i - 1) : k[j] = l[j]
  BY <1>2, <1>4
<1>6. k[i] < l[i] \/ l[i] < k[i]
  BY <1>3
<1> QED  BY <1>3, <1>5, <1>6 DEF KeyBefore

LEMMA KeysStrict ==
  ASSUME NEW n \in Nat, NEW k \in [1..n -> Int], NEW l \in [1..n -> Int], NEW m \in [1..n -> Int]
  PROVE  /\ ~KeyBefore(k, k)
         /\ KeyBefore(k, l) /\ KeyBefore(l, m) => KeyBefore(k, m)
<1>1. ~KeyBefore(k, k)
  BY DEF KeyBefore
<1>2. ASSUME KeyBefore(k, l), KeyBefore(l, m) PROVE KeyBefore(k, m)
  <2>1. PICK i \in 1..n : k[i] < l[i] /\ \A j \in 1..(i - 1) : k[j] = l[j]
    BY <1>2 DEF KeyBefore
  <2>2. PICK j \in 1..n : l[j] < m[j] /\ \A h \in 1..(j - 1) : l[h] = m[h]
    BY <1>2 DEF KeyBefore
  <2>3. CASE i < j
    <3>1. i \in 1..(j - 1) /\ \A h \in 1..(i - 1) : h \in 1..(j - 1)
      BY <2>3
    <3>2. k[i] < m[i] /\ \A h \in 1..(i - 1) : k[h] = m[h]
      BY <2>1, <2>2, <3>1
    <3> QED  BY <3>2 DEF KeyBefore
  <2>4. CASE i = j
    <3>1. k[i] < m[i] /\ \A h \in 1..(i - 1) : k[h] = m[h]
      BY <2>1, <2>2, <2>4
    <3> QED  BY <3>1 DEF KeyBefore
  <2>5. CASE j < i
    <3>1. j \in 1..(i - 1) /\ \A h \in 1..(j - 1) : h \in 1..(i - 1)
      BY <2>5
    <3>2. k[j] < m[j] /\ \A h \in 1..(j - 1) : k[h] = m[h]
      BY <2>1, <2>2, <3>1
    <3> QED  BY <3>2 DEF KeyBefore
  <2> QED  BY <2>3, <2>4, <2>5
<1> QED  BY <1>1, <1>2

LEMMA ConcatIsSeq ==
  ASSUME NEW T, NEW a \in Seq(T), NEW b \in Seq(T)
  PROVE  a \o b \in Seq(T) /\ Len(a \o b) = Len(a) + Len(b)
OBVIOUS

LEMMA SortKeyType ==
  ASSUME NEW v \in Viewings, NEW s \in v.found
  PROVE  /\ Len(v.user.preferences) + 2 \in Nat
         /\ SortKey(s, v.user) \in [1..(Len(v.user.preferences) + 2) -> Int]
<1> DEFINE preferences == v.user.preferences
           ranks == [i \in DOMAIN preferences |-> RankIn(s, preferences[i])]
           first == <<IF s.kept THEN 0 ELSE 1>>
           last == <<-s.seeders>>
<1>1. preferences \in Seq(Seq(Catalogue)) /\ s.seeders \in Nat
  BY RankingAssumption
<1>2. ASSUME NEW i \in DOMAIN preferences PROVE RankIn(s, preferences[i]) \in Int
  <2> DEFINE list == preferences[i]
             places == {j \in DOMAIN list : list[j] \in StreamAttributes(s)}
  <2>1. list \in Seq(Catalogue)
    BY <1>1
  <2> HIDE DEF list
  <2>2. Len(list) \in Nat /\ places \in SUBSET Nat
    BY <2>1
  <2>3. CASE places = {}
    BY <2>2, <2>3 DEF RankIn, list
  <2>4. CASE places # {}
    <3> DEFINE least == CHOOSE j \in places : \A k \in places : j <= k
    <3>1. \E j \in places : \A k \in places : j <= k
      BY <2>2, <2>4, LeastNumber
    <3>2. least \in places
      BY <3>1
    <3>3. RankIn(s, list) = least - 1
      BY <2>4 DEF RankIn
    <3>4. least - 1 \in Int
      <4> HIDE DEF places, least
      <4> QED  BY <2>2, <3>2
    <3> HIDE DEF places, least
    <3>5. RankIn(s, list) \in Int
      BY <3>3, <3>4
    <3> QED  BY <3>5 DEF list
  <2> QED  BY <2>3, <2>4
<1>3. ranks \in Seq(Int) /\ Len(ranks) = Len(preferences) /\ Len(preferences) \in Nat
  <2>1. DOMAIN preferences = 1..Len(preferences) /\ Len(preferences) \in Nat
    BY <1>1
  <2>2. ranks \in [1..Len(preferences) -> Int]
    BY <1>2, <2>1
  <2> HIDE DEF ranks
  <2> QED  BY <2>1, <2>2
<1>4. first \in Seq(Int) /\ Len(first) = 1 /\ last \in Seq(Int) /\ Len(last) = 1
  BY <1>1
<1>5. SortKey(s, v.user) = first \o ranks \o last
  BY DEF SortKey
<1>6. /\ first \o ranks \o last \in Seq(Int)
      /\ Len(first \o ranks \o last) = 1 + Len(preferences) + 1
  <2> DEFINE Z == Int
  <2>1. first \in Seq(Z) /\ ranks \in Seq(Z) /\ last \in Seq(Z)
    BY <1>3, <1>4
  <2> HIDE DEF Z, first, ranks, last, preferences
  <2>2. first \o ranks \in Seq(Z) /\ Len(first \o ranks) = Len(first) + Len(ranks)
    BY <2>1, ConcatIsSeq
  <2>3. first \o ranks \o last \in Seq(Z)
        /\ Len(first \o ranks \o last) = Len(first \o ranks) + Len(last)
    BY <2>1, <2>2, ConcatIsSeq
  <2> QED  BY <1>3, <1>4, <2>2, <2>3 DEF Z
<1> DEFINE key == SortKey(s, v.user)
           n == Len(preferences) + 2
<1>7. n \in Nat /\ 1 + Len(preferences) + 1 = n
  BY <1>3
<1>8. key \in Seq(Int) /\ Len(key) = n
  BY <1>5, <1>6, <1>7
<1>9. n \in Nat /\ key \in [1..n -> Int]
  <2> HIDE DEF key, n
  <2> QED  BY <1>7, <1>8
<1> QED  BY <1>9

\* Streams found are in one order, and so is every part of them.
LEMMA FoundTotal ==
  ASSUME NEW v \in Viewings, NEW S \in SUBSET v.found
  PROVE  /\ IsFiniteSet(S)
         /\ \A s, t \in S : <<s, t>> \in OrderOf(S, v.user) <=> Before(s, t, v.user)
         /\ StrictTotal(S, OrderOf(S, v.user))
<1> DEFINE u == v.user
           n == Len(u.preferences) + 2
           R == OrderOf(S, u)
           key(s) == SortKey(s, u)
<1>1. IsFiniteSet(S)
  BY RankingAssumption, FS_Subset
<1>2. \A s, t \in S : <<s, t>> \in R <=> Before(s, t, u)
  <2> SUFFICES ASSUME NEW s \in S, NEW t \in S PROVE <<s, t>> \in R <=> Before(s, t, u)
    OBVIOUS
  <2>1. <<s, t>> \in S \X S /\ <<s, t>>[1] = s /\ <<s, t>>[2] = t
    OBVIOUS
  <2> QED  BY <2>1 DEF OrderOf
<1>3. n \in Nat \/ S = {}
  BY SortKeyType
<1>4. \A s \in S : key(s) \in [1..n -> Int] /\ n \in Nat /\ s.id \in Int
  BY SortKeyType, RankingAssumption
<1>5. \A s, t \in S : s.id = t.id => s = t
  BY RankingAssumption
<1>6. \A s, t \in S : Before(s, t, u) <=> KeyBefore(key(s), key(t)) \/ (key(s) = key(t) /\ s.id < t.id)
  BY DEF Before
<1> HIDE DEF n, u, key, R
<1>7. \A s \in S : ~Before(s, s, u)
  BY <1>4, <1>6, KeysStrict
<1>8. ASSUME NEW s \in S, NEW t \in S, NEW w \in S, Before(s, t, u), Before(t, w, u)
      PROVE  Before(s, w, u)
  <2>1. KeyBefore(key(s), key(t)) /\ KeyBefore(key(t), key(w)) => KeyBefore(key(s), key(w))
    BY <1>4, KeysStrict
  <2>2. s.id \in Int /\ t.id \in Int /\ w.id \in Int
    BY <1>4
  <2>3. s.id < t.id /\ t.id < w.id => s.id < w.id
    BY <2>2
  <2> QED  BY <1>6, <1>8, <2>1, <2>3
<1>9. ASSUME NEW s \in S, NEW t \in S PROVE s = t \/ Before(s, t, u) \/ Before(t, s, u)
  <2>1. key(s) = key(t) \/ KeyBefore(key(s), key(t)) \/ KeyBefore(key(t), key(s))
    BY <1>4, KeysTotal
  <2>2. s.id \in Int /\ t.id \in Int
    BY <1>4
  <2>3. s.id = t.id \/ s.id < t.id \/ t.id < s.id
    BY <2>2
  <2> QED  BY <1>5, <1>6, <2>1, <2>3
<1>10. StrictTotal(S, R)
  BY <1>2, <1>7, <1>8, <1>9 DEF StrictTotal
<1> QED  BY <1>1, <1>2, <1>10 DEF R, u

-----------------------------------------------------------------------------
RankingIInv ==
    /\ viewing \in Viewings
    /\ \/ listed = Unlisted
       \/ listed = [done |-> TRUE, list |-> FindByImdbId(viewing.found, viewing.user)]

\* The theorem is about this list only, so its steps do not touch what it is made of.
THEOREM RankingInvariance == RankingSpec => []RankingIInv
<1>1. RankingInit => RankingIInv
  BY DEF RankingInit, RankingIInv
<1>2. RankingIInv /\ [ListStreams]_rankingVars => RankingIInv'
  BY DEF RankingIInv, ListStreams, rankingVars
<1> QED  BY <1>1, <1>2, PTL DEF RankingSpec

\* The first of each group are those no stream of their group is better than.
LEMMA FirstsAreBest ==
  ASSUME NEW v \in Viewings, NEW S \in SUBSET v.found,
         NEW list, Enumerates(list, S, OrderOf(S, v.user))
  PROVE  LET best == {s \in S : \A t \in S :
                        InCategory(s, v.user.grouping) = InCategory(t, v.user.grouping)
                          => ~Before(t, s, v.user)}
         IN Enumerates(FirstOfGroups(list, v.user), best, OrderOf(S, v.user))
<1> DEFINE u == v.user
           R == OrderOf(S, u)
           n == Cardinality(S)
           group(s) == InCategory(s, u.grouping)
           best == {s \in S : \A t \in S : group(s) = group(t) => ~Before(t, s, u)}
           P == {i \in DOMAIN list : \A j \in 1..(i - 1) : group(list[j]) # group(list[i])}
<1>1. IsFiniteSet(S) /\ StrictTotal(S, R) /\ n \in Nat
      /\ \A s, t \in S : <<s, t>> \in R <=> Before(s, t, u)
  BY FoundTotal, FS_CardinalityType
<1>2. FirstOfGroups(list, u) = At(list, P)
  BY DEF FirstOfGroups
<1> HIDE DEF u, R, group
<1>3. list \in [1..n -> S] /\ DOMAIN list = 1..n /\ \A s \in S : \E k \in 1..n : list[k] = s
  BY DEF Enumerates, R, u
<1>4. \A i, j \in 1..n : <<list[i], list[j]>> \in R <=> i < j
  <2> SUFFICES ASSUME NEW i \in 1..n, NEW j \in 1..n
               PROVE  <<list[i], list[j]>> \in R <=> i < j
    OBVIOUS
  <2> QED  BY <1>1, EnumeratedOnce DEF R, u
<1>5. ASSUME NEW i \in P PROVE list[i] \in best
  <2>1. i \in 1..n /\ \A j \in 1..(i - 1) : group(list[j]) # group(list[i])
    BY <1>3
  <2>2. ASSUME NEW t \in S, group(list[i]) = group(t), Before(t, list[i], u) PROVE FALSE
    <3>1. PICK j \in 1..n : list[j] = t
      BY <1>3
    <3>2. j < i
      BY <1>1, <1>3, <1>4, <2>1, <2>2, <3>1
    <3>3. j \in 1..(i - 1)
      BY <1>1, <2>1, <3>2
    <3> QED  BY <2>1, <2>2, <3>1, <3>3
  <2>3. list[i] \in S
    BY <1>3, <2>1
  <2> QED  BY <2>2, <2>3
<1>6. ASSUME NEW s \in best PROVE \E i \in P : list[i] = s
  <2>1. PICK i \in 1..n : list[i] = s
    BY <1>3
  <2>2. ASSUME NEW j \in 1..(i - 1), group(list[j]) = group(list[i]) PROVE FALSE
    <3>1. j \in 1..n /\ j < i /\ list[j] \in S /\ list[i] \in S
      BY <1>1, <1>3
    <3>2. Before(list[j], list[i], u)
      BY <1>1, <1>4, <3>1
    <3> QED  BY <2>1, <2>2, <3>1, <3>2
  <2>3. i \in P
    BY <1>3, <2>2
  <2> QED  BY <2>1, <2>3
<1>7. P \in SUBSET (1..n)
  BY <1>3
<1>8. best = {list[i] : i \in P}
  <2>1. best \subseteq {list[i] : i \in P}
    BY <1>6
  <2>2. {list[i] : i \in P} \subseteq best
    BY <1>5
  <2> QED  BY <2>1, <2>2
<1>9. Enumerates(At(list, P), {list[i] : i \in P}, R)
  <2>1. Enumerates(list, S, R)
    BY DEF R, u
  <2> HIDE DEF P, n
  <2> QED  BY <1>1, <1>7, <2>1, AtEnumerates DEF n
<1>10. Enumerates(FirstOfGroups(list, u), best, R)
  BY <1>2, <1>8, <1>9
<1> QED  BY <1>10 DEF best, group, R, u

\* What is shown of the best: all of them, or the first ones up to the limit.
LEMMA ShownOfBest ==
  ASSUME NEW v \in Viewings, NEW best \in SUBSET v.found,
         NEW R, StrictTotal(best, R), \A s, t \in best : <<s, t>> \in R <=> Before(s, t, v.user),
         NEW list, Enumerates(list, best, R)
  PROVE  LET u == v.user
             result == IF u.smart THEN Take(list, u.limit) ELSE list
             shown == {s \in best : u.smart => Cardinality({t \in best : Before(t, s, u)}) < u.limit}
         IN /\ {result[i] : i \in DOMAIN result} = shown
            /\ \A i, j \in DOMAIN result : i < j => Before(result[i], result[j], u)
<1> DEFINE u == v.user
           n == Cardinality(best)
           result == IF u.smart THEN Take(list, u.limit) ELSE list
           shown == {s \in best : u.smart => Cardinality({t \in best : Before(t, s, u)}) < u.limit}
<1>1. IsFiniteSet(best) /\ u.limit \in Nat /\ n \in Nat
  BY RankingAssumption, FS_Subset, FS_CardinalityType
<1>2. list \in [1..n -> best] /\ (\A s \in best : \E k \in 1..n : list[k] = s)
      /\ \A i, j \in 1..n : i < j => <<list[i], list[j]>> \in R
  BY DEF Enumerates
<1>3. \A s \in best : Rank(best, R, s) = Cardinality({t \in best : Before(t, s, u)})
  <2> SUFFICES ASSUME NEW s \in best PROVE Below(best, R, s) = {t \in best : Before(t, s, u)}
    BY DEF Rank
  <2> QED  BY DEF Below
<1>4. CASE ~u.smart
  <2>1. result = list /\ shown = best
    BY <1>4
  <2> QED  BY <1>2, <2>1
<1>5. CASE u.smart
  <2> DEFINE first == Take(list, u.limit)
  <2>1. /\ {first[i] : i \in DOMAIN first} = {x \in best : Rank(best, R, x) < u.limit}
        /\ \A i, j \in DOMAIN first : i < j => <<first[i], first[j]>> \in R
    <3> HIDE DEF u
    <3> QED  BY <1>1, TakeSmallest
  <2>2. result = first
    BY <1>5
  <2>3. shown = {x \in best : Rank(best, R, x) < u.limit}
    BY <1>3, <1>5
  <2>4. \A i \in DOMAIN first : first[i] \in best
    <3> HIDE DEF first
    <3> QED  BY <2>1
  <2> HIDE DEF first, result, shown, u
  <2> QED  BY <2>1, <2>2, <2>3, <2>4 DEF u, shown, result
<1> QED  BY <1>4, <1>5

LEMMA ShownAreBestFollows ==
  ASSUME RankingIInv
  PROVE  ShownAreBest
<1> DEFINE u == viewing.user
           passing == {s \in viewing.found : Passes(s, u)}
           R == OrderOf(passing, u)
           sorted == InOrder(passing, R)
           SameGroup(s, t) ==
               \/ s = t
               \/ /\ u.smart /\ u.grouping # Unset
                  /\ InCategory(s, u.grouping) = InCategory(t, u.grouping)
           best == {s \in passing : \A t \in passing : SameGroup(s, t) => ~Before(t, s, u)}
           list == IF u.smart /\ u.grouping # Unset THEN FirstOfGroups(sorted, u) ELSE sorted
           shown == {s \in best : u.smart => Cardinality({t \in best : Before(t, s, u)}) < u.limit}
<1> SUFFICES ASSUME listed.done
             PROVE  /\ {listed.list[i] : i \in DOMAIN listed.list} = shown
                    /\ \A i, j \in DOMAIN listed.list :
                         i < j => Before(listed.list[i], listed.list[j], u)
  BY DEF ShownAreBest
<1>1. viewing \in Viewings /\ listed.list = FindByImdbId(viewing.found, u)
  BY DEF RankingIInv, Unlisted
<1>2. passing \in SUBSET viewing.found /\ best \in SUBSET passing
  OBVIOUS
<1>3. /\ IsFiniteSet(passing) /\ StrictTotal(passing, R)
      /\ \A s, t \in passing : <<s, t>> \in R <=> Before(s, t, u)
  <2> HIDE DEF passing
  <2> QED  BY <1>1, <1>2, FoundTotal
<1>4. Enumerates(sorted, passing, R)
  <2> HIDE DEF passing, R
  <2> QED  BY <1>3, InOrderEnumerates
<1>5. listed.list = IF u.smart THEN Take(list, u.limit) ELSE list
  BY <1>1 DEF FindByImdbId, SmartFilter, SortStreams
<1>6. Enumerates(list, best, R)
  <2>1. CASE u.smart /\ u.grouping # Unset
    <3>1. list = FirstOfGroups(sorted, u)
      BY <2>1
    <3>2. best = {s \in passing : \A t \in passing :
                    InCategory(s, u.grouping) = InCategory(t, u.grouping) => ~Before(t, s, u)}
      BY <2>1
    <3> HIDE DEF passing, sorted, list, best
    <3> QED  BY <1>1, <1>2, <1>4, <3>1, <3>2, FirstsAreBest
  <2>2. CASE ~(u.smart /\ u.grouping # Unset)
    <3>1. \A s \in passing : ~Before(s, s, u)
      <4> HIDE DEF passing, R, u
      <4> QED  BY <1>3 DEF StrictTotal
    <3>2. \A s, t \in passing : SameGroup(s, t) <=> s = t
      BY <2>2
    <3>3. best = passing
      <4> HIDE DEF SameGroup, passing
      <4> QED  BY <3>1, <3>2
    <3>4. list = sorted
      BY <2>2
    <3> QED  BY <1>4, <3>3, <3>4
  <2> QED  BY <2>1, <2>2
<1>7. StrictTotal(best, R) /\ \A s, t \in best : <<s, t>> \in R <=> Before(s, t, u)
  <2> HIDE DEF passing, R, best
  <2> QED  BY <1>2, <1>3, TotalOnPart
<1>8. best \in SUBSET viewing.found
  BY <1>2
<1> DEFINE result == IF u.smart THEN Take(list, u.limit) ELSE list
<1> HIDE DEF passing, R, sorted, SameGroup, best, list
<1>9. /\ {result[i] : i \in DOMAIN result} = shown
      /\ \A i, j \in DOMAIN result : i < j => Before(result[i], result[j], u)
  BY <1>1, <1>6, <1>7, <1>8, ShownOfBest
<1>10. listed.list = result
  BY <1>5
<1> HIDE DEF result, shown
<1> QED  BY <1>9, <1>10

\* Who asks for the streams of a title is shown the best ones (service.py:63-94).
THEOREM ShownAreBestHolds == RankingSpec => []ShownAreBest
<1>1. RankingIInv => ShownAreBest
  BY ShownAreBestFollows
<1> QED  BY <1>1, RankingInvariance, PTL

-----------------------------------------------------------------------------
(***************************************************************************)
(* Torznab.  Every page is cut from the same order, for the order does not *)
(* depend on how the sources came: what a program has received is what     *)
(* comes before its offset in it.                                          *)
(***************************************************************************)
Due(q) == {s \in Offers(q.imdbid) : ContainsEpisode(s, q)}

\* The sources that a program which got as far as the offset has received.
Until(q, offset) ==
    {s \in Due(q) : s.buildable /\ Rank(Due(q), PrecedesOn(Offers(q.imdbid)), s) < offset}

Sessions(sources) ==
    [status : {"asking", "refused", "told", "failed", "counted", "over"}, offset : Nat,
     received : Seq(sources)]

TorznabIInv ==
    /\ query \in Queries
    /\ session \in Sessions(Offers(query.imdbid))
    /\ ~lost => Enumerates(session.received, Until(query, session.offset),
                           PrecedesOn(Offers(query.imdbid)))
    /\ ~lost /\ session.status = "over" => Cardinality(Due(query)) <= session.offset

LEMMA PrecedesMeans ==
  ASSUME NEW q \in Queries, NEW s \in Offers(q.imdbid), NEW t \in Offers(q.imdbid)
  PROVE  Precedes(s, t) <=>
           \/ t.seeders < s.seeders
           \/ t.seeders = s.seeders /\ s.indexer < t.indexer
           \/ t.seeders = s.seeders /\ s.indexer = t.indexer /\ s.id < t.id
<1>1. /\ s.seeders \in Nat /\ s.indexer \in Nat /\ s.id \in Nat
      /\ t.seeders \in Nat /\ t.indexer \in Nat /\ t.id \in Nat
  BY TorznabAssumption
<1> DEFINE k == Ordering(s)
           l == Ordering(t)
           Less(i) == k[i] < l[i] /\ \A j \in 1..(i - 1) : k[j] = l[j]
<1>2. DOMAIN k = 1..3 /\ k[1] = -s.seeders /\ k[2] = s.indexer /\ k[3] = s.id
      /\ l[1] = -t.seeders /\ l[2] = t.indexer /\ l[3] = t.id
  BY DEF Ordering
<1>3. Precedes(s, t) <=> \E i \in 1..3 : Less(i)
  BY <1>2 DEF Precedes
<1> HIDE DEF k, l
<1>4. Less(1) <=> t.seeders < s.seeders
  BY <1>1, <1>2
<1>5. Less(2) <=> t.seeders = s.seeders /\ s.indexer < t.indexer
  <2>1. 1..(2 - 1) = {1}
    OBVIOUS
  <2> QED  BY <1>1, <1>2, <2>1
<1>6. Less(3) <=> t.seeders = s.seeders /\ s.indexer = t.indexer /\ s.id < t.id
  <2>1. 1..(3 - 1) = {1, 2}
    OBVIOUS
  <2> QED  BY <1>1, <1>2, <2>1
<1>7. 1..3 = {1, 2, 3}
  OBVIOUS
<1> HIDE DEF Less
<1> QED  BY <1>3, <1>4, <1>5, <1>6, <1>7

\* Sources have an order of their own, for each is known by its indexer and its id there.
LEMMA PrecedesTotal ==
  ASSUME NEW q \in Queries
  PROVE  /\ IsFiniteSet(Offers(q.imdbid))
         /\ StrictTotal(Offers(q.imdbid), PrecedesOn(Offers(q.imdbid)))
<1> DEFINE S == Offers(q.imdbid)
<1>1. \A s \in S : s.seeders \in Nat /\ s.indexer \in Nat /\ s.id \in Nat
  BY TorznabAssumption
<1>2. \A s, t \in S : s.indexer = t.indexer /\ s.id = t.id => s = t
  BY TorznabAssumption
<1>3. \A s, t \in S : <<s, t>> \in PrecedesOn(S) <=>
           \/ t.seeders < s.seeders
           \/ t.seeders = s.seeders /\ s.indexer < t.indexer
           \/ t.seeders = s.seeders /\ s.indexer = t.indexer /\ s.id < t.id
  <2> SUFFICES ASSUME NEW s \in S, NEW t \in S
               PROVE  <<s, t>> \in PrecedesOn(S) <=> Precedes(s, t)
    BY PrecedesMeans
  <2>1. <<s, t>> \in S \X S /\ <<s, t>>[1] = s /\ <<s, t>>[2] = t
    OBVIOUS
  <2> QED  BY <2>1 DEF PrecedesOn
<1>4. IsFiniteSet(S)
  BY TorznabAssumption
<1> HIDE DEF S
<1>5. \A s \in S : <<s, s>> \notin PrecedesOn(S)
  BY <1>1, <1>3
<1>6. \A s, t, u \in S : <<s, t>> \in PrecedesOn(S) /\ <<t, u>> \in PrecedesOn(S)
                           => <<s, u>> \in PrecedesOn(S)
  <2> SUFFICES ASSUME NEW s \in S, NEW t \in S, NEW u \in S,
                      <<s, t>> \in PrecedesOn(S), <<t, u>> \in PrecedesOn(S)
               PROVE  <<s, u>> \in PrecedesOn(S)
    OBVIOUS
  <2> QED  BY <1>1, <1>3
<1>7. \A s, t \in S : s = t \/ <<s, t>> \in PrecedesOn(S) \/ <<t, s>> \in PrecedesOn(S)
  <2> SUFFICES ASSUME NEW s \in S, NEW t \in S
               PROVE  s = t \/ <<s, t>> \in PrecedesOn(S) \/ <<t, s>> \in PrecedesOn(S)
    OBVIOUS
  <2> QED  BY <1>1, <1>2, <1>3
<1> QED  BY <1>4, <1>5, <1>6, <1>7 DEF StrictTotal, S

\* However they came, those that hold what is asked for are put in that order.
LEMMA MatchingEnumerates ==
  ASSUME NEW q \in Queries, NEW came \in SUBSET Offers(q.imdbid), NEW candidates \in SetToSeqs(came)
  PROVE  Enumerates(Matching(q, candidates), {s \in came : ContainsEpisode(s, q)},
                    PrecedesOn(Offers(q.imdbid)))
<1> DEFINE S == Offers(q.imdbid)
           R == PrecedesOn(S)
           n == Cardinality(came)
           P == {i \in DOMAIN candidates : ContainsEpisode(candidates[i], q)}
           T == {s \in came : ContainsEpisode(s, q)}
           M == PrecedesOn(ToSet(candidates))
           Earlier(i, j) == \/ <<candidates[i], candidates[j]>> \in M
                            \/ <<candidates[j], candidates[i]>> \notin M /\ i < j
           Q == {p \in P \X P : Earlier(p[1], p[2])}
           f == [i \in P |-> candidates[i]]
<1>1. IsFiniteSet(S) /\ StrictTotal(S, R)
  BY PrecedesTotal
<1>2. IsFiniteSet(came) /\ n \in Nat
  BY <1>1, FS_Subset, FS_CardinalityType
<1>3. candidates \in [1..n -> came] /\ \A i, j \in 1..n : i # j => candidates[i] # candidates[j]
  BY DEF SetToSeqs
<1>4. IsFiniteSet(1..n) /\ Cardinality(1..n) = n
  <2>1. 1 \in Int /\ n \in Int /\ (1 > n => n = 0)
    BY <1>2
  <2> HIDE DEF n
  <2> QED  BY <1>2, <2>1, FS_Interval
<1>5. \A s \in came : \E i \in 1..n : candidates[i] = s
  <2>1. candidates \in Injection(1..n, came)
    BY <1>3 DEF Injection, IsInjective
  <2>2. candidates \in Surjection(1..n, came)
    BY <1>2, <1>4, <2>1, FS_Injection
  <2> QED  BY <2>2 DEF Surjection
<1>6. IsFiniteSet(P) /\ P \subseteq 1..n
  <2>1. P \subseteq 1..n
    BY <1>3
  <2> HIDE DEF P
  <2> QED  BY <1>4, <2>1, FS_Subset
<1>7. f \in Bijection(P, T)
  <2>1. f \in [P -> T] /\ \A i, j \in P : f[i] = f[j] => i = j
    BY <1>3
  <2>2. \A s \in T : \E i \in P : f[i] = s
    BY <1>3, <1>5
  <2> HIDE DEF f, P, T
  <2> QED  BY <2>1, <2>2 DEF Bijection, Injection, Surjection, IsInjective
<1>8. \A s, t \in S : Precedes(s, t) <=> <<s, t>> \in R
  <2> SUFFICES ASSUME NEW s \in S, NEW t \in S
               PROVE  <<s, t>> \in R <=> Precedes(s, t)
    OBVIOUS
  <2>1. <<s, t>> \in S \X S /\ <<s, t>>[1] = s /\ <<s, t>>[2] = t
    OBVIOUS
  <2> QED  BY <2>1 DEF PrecedesOn
<1>9. \A i, j \in P : <<i, j>> \in Q <=> <<f[i], f[j]>> \in R
  <2> SUFFICES ASSUME NEW i \in P, NEW j \in P
               PROVE  <<i, j>> \in Q <=> <<f[i], f[j]>> \in R
    OBVIOUS
  <2>1. <<i, j>> \in P \X P /\ <<i, j>>[1] = i /\ <<i, j>>[2] = j
    OBVIOUS
  <2>2. <<i, j>> \in Q <=> Earlier(i, j)
    <3> HIDE DEF P, Earlier
    <3> QED  BY <2>1
  <2>3. f[i] = candidates[i] /\ f[j] = candidates[j] /\ f[i] \in S /\ f[j] \in S
    BY <1>3
  <2>4. Precedes(f[j], f[i]) \/ Precedes(f[i], f[j]) \/ f[i] = f[j]
    <3> HIDE DEF S, R, f
    <3> QED  BY <1>1, <1>8, <2>3 DEF StrictTotal
  <2>5. f[i] = f[j] => i = j /\ ~Precedes(f[i], f[j])
    <3>1. f[i] = f[j] => i = j
      <4>1. i \in 1..n /\ j \in 1..n
        BY <1>6
      <4> QED  BY <1>3, <2>3, <4>1
    <3>2. ~Precedes(f[i], f[i])
      <4> HIDE DEF S, R, f
      <4> QED  BY <1>1, <1>8, <2>3 DEF StrictTotal
    <3> QED  BY <3>1, <3>2
  <2>6. i \in Int /\ j \in Int
    BY <1>6, <1>2
  <2>7. Earlier(i, j) <=> Precedes(f[i], f[j])
    <3>1. f[i] \in ToSet(candidates) /\ f[j] \in ToSet(candidates)
      BY <2>3 DEF ToSet
    <3>2. /\ <<f[i], f[j]>> \in M <=> Precedes(f[i], f[j])
          /\ <<f[j], f[i]>> \in M <=> Precedes(f[j], f[i])
      <4> HIDE DEF f
      <4> QED  BY <3>1 DEF PrecedesOn
    <3>3. Earlier(i, j) <=> Precedes(f[i], f[j]) \/ (~Precedes(f[j], f[i]) /\ i < j)
      <4> HIDE DEF M, f
      <4> QED  BY <2>3, <3>2
    <3> HIDE DEF Earlier, f
    <3>4. i = j => ~(i < j)
      BY <2>6
    <3> QED  BY <2>4, <2>5, <3>3, <3>4
  <2> QED  BY <1>8, <2>2, <2>3, <2>7
<1>10. StrictTotal(P, Q)
  <2>1. \A i \in P : f[i] \in S
    BY <1>3
  <2>2. \A i, j \in P : f[i] = f[j] => i = j
    BY <1>7 DEF Bijection, Injection, IsInjective
  <2> HIDE DEF P, Q, f, S, R
  <2> QED  BY <1>1, <1>9, <2>1, <2>2 DEF StrictTotal
<1>11. Enumerates(InOrder(P, Q), P, Q)
  BY <1>6, <1>10, InOrderEnumerates
<1>12. Enumerates([k \in 1..Cardinality(P) |-> f[InOrder(P, Q)[k]]], T, R)
  <2> HIDE DEF P, Q, f, S, R, T
  <2> QED  BY <1>6, <1>7, <1>9, <1>11, EnumeratesImage
<1>13. Matching(q, candidates) = [k \in 1..Cardinality(P) |-> candidates[InOrder(P, Q)[k]]]
  BY DEF Matching, StableSort
<1>14. [k \in 1..Cardinality(P) |-> f[InOrder(P, Q)[k]]]
         = [k \in 1..Cardinality(P) |-> candidates[InOrder(P, Q)[k]]]
  <2>1. \A k \in 1..Cardinality(P) : InOrder(P, Q)[k] \in P
    BY <1>11 DEF Enumerates
  <2> HIDE DEF P, Q
  <2> QED  BY <2>1
<1> QED  BY <1>12, <1>13, <1>14

\* A page has, of those not received so far, the ones it can be built from.
LEMMA PageContinues ==
  ASSUME NEW q \in Queries, NEW offset \in Nat, LimitOf(q) \in Nat,
         NEW candidates \in SetToSeqs(Offers(q.imdbid)),
         NEW received, Enumerates(received, Until(q, offset), PrecedesOn(Offers(q.imdbid)))
  PROVE  /\ Len(Matching(q, candidates)) = Cardinality(Due(q))
         /\ Enumerates(received \o PageOf(q, offset, Matching(q, candidates)),
                       Until(q, offset + LimitOf(q)), PrecedesOn(Offers(q.imdbid)))
<1> DEFINE R == PrecedesOn(Offers(q.imdbid))
           W == Due(q)
           m == Matching(q, candidates)
           n == Cardinality(W)
           l == LimitOf(q)
           P == {i \in (offset + 1)..AtMost(offset + l, Len(m)) : m[i].buildable}
           B == {m[i] : i \in P}
<1>1. W \in SUBSET Offers(q.imdbid)
  BY DEF Due
<1>2. IsFiniteSet(W) /\ StrictTotal(W, R) /\ n \in Nat
  <2>1. IsFiniteSet(Offers(q.imdbid)) /\ StrictTotal(Offers(q.imdbid), R)
    BY PrecedesTotal
  <2>2. IsFiniteSet(W)
    BY <1>1, <2>1, FS_Subset
  <2>3. StrictTotal(W, R)
    BY <1>1, <2>1, TotalOnPart
  <2> QED  BY <2>2, <2>3, FS_CardinalityType
<1>3. Enumerates(m, W, R)
  <2>1. Offers(q.imdbid) \in SUBSET Offers(q.imdbid)
    OBVIOUS
  <2> QED  BY <2>1, MatchingEnumerates DEF Due
<1>4. m \in [1..n -> W] /\ Len(m) = n
  <2>1. m \in [1..n -> W]
    BY <1>3 DEF Enumerates
  <2> HIDE DEF m, n, W
  <2> QED  BY <1>2, <2>1
<1>5. P \in SUBSET (1..n) /\ \A i \in 1..n : i \in P <=> m[i].buildable /\ offset < i /\ i <= offset + l
  <2> HIDE DEF m, n, l
  <2> QED  BY <1>2, <1>4 DEF AtMost, l
<1>6. \A i \in 1..n : Rank(W, R, m[i]) = i - 1
  <2> HIDE DEF m, W, R
  <2> QED  BY <1>2, <1>3, PlaceIsRank
<1>7. \A s \in W : \E i \in 1..n : m[i] = s
  BY <1>3 DEF Enumerates
<1>8. \A s \in W : Rank(W, R, s) \in Nat
  <2> HIDE DEF W, R
  <2> QED  BY <1>2, RankBounds
<1>9. B = {s \in W : s.buildable /\ offset <= Rank(W, R, s) /\ Rank(W, R, s) < offset + l}
  <2>1. ASSUME NEW i \in P
        PROVE  m[i] \in W /\ m[i].buildable /\ offset <= Rank(W, R, m[i]) /\ Rank(W, R, m[i]) < offset + l
    <3>1. i \in 1..n /\ m[i].buildable /\ offset < i /\ i <= offset + l
      BY <1>5
    <3>2. Rank(W, R, m[i]) = i - 1
      BY <1>6, <3>1
    <3> HIDE DEF W, R, m, n, l
    <3> QED  BY <1>4, <3>1, <3>2 DEF l
  <2>2. ASSUME NEW s \in W, s.buildable, offset <= Rank(W, R, s), Rank(W, R, s) < offset + l
        PROVE  \E i \in P : m[i] = s
    <3>1. PICK i \in 1..n : m[i] = s
      BY <1>7
    <3>2. Rank(W, R, s) = i - 1
      BY <1>6, <3>1
    <3>3. offset < i /\ i <= offset + l
      <4> HIDE DEF W, R, m, n, l
      <4> QED  BY <1>2, <2>2, <3>2 DEF l
    <3> QED  BY <1>5, <2>2, <3>1, <3>3
  <2> HIDE DEF P, W, R, m, l
  <2> QED  BY <2>1, <2>2
<1>10. Enumerates(PageOf(q, offset, m), B, R)
  <2>1. PageOf(q, offset, m) = At(m, P)
    BY DEF PageOf
  <2> HIDE DEF m, W, R, P
  <2> QED  BY <1>2, <1>3, <1>5, <2>1, AtEnumerates
<1> DEFINE A == Until(q, offset)
<1>11. A = {s \in W : s.buildable /\ Rank(W, R, s) < offset}
  BY DEF Until
<1>12. A \intersect B = {} /\ A \union B = Until(q, offset + l)
  <2>1. Until(q, offset + l) = {s \in W : s.buildable /\ Rank(W, R, s) < offset + l}
    BY DEF Until
  <2> HIDE DEF A, B, W, R, l
  <2> QED  BY <1>8, <1>9, <1>11, <2>1 DEF l
<1>13. \A x \in A, y \in B : <<x, y>> \in R
  <2> SUFFICES ASSUME NEW x \in A, NEW y \in B PROVE <<x, y>> \in R
    OBVIOUS
  <2>1. x \in W /\ y \in W /\ Rank(W, R, x) < Rank(W, R, y)
    <3> HIDE DEF A, B, W, R, l
    <3> QED  BY <1>8, <1>9, <1>11
  <2> HIDE DEF A, B, W, R
  <2> QED  BY <1>2, <2>1, RankDecides
<1>14. IsFiniteSet(A) /\ IsFiniteSet(B)
  <2>1. A \in SUBSET W /\ B \in SUBSET W
    <3> HIDE DEF A, B, W, R
    <3> QED  BY <1>9, <1>11
  <2> HIDE DEF A, B, W
  <2> QED  BY <1>2, <2>1, FS_Subset
<1>15. Enumerates(received \o PageOf(q, offset, m), A \union B, R)
  <2>1. Enumerates(received, A, R)
    OBVIOUS
  <2> HIDE DEF A, B, R, m
  <2> QED  BY <1>10, <1>12, <1>13, <1>14, <2>1, EnumeratesBoth
<1> QED  BY <1>4, <1>12, <1>15

\* The search of a page keeps what the invariant says of what is received.
LEMMA LimitIsNat ==
  ASSUME NEW q \in Queries, ~Malformed(q), q.t # "caps"
  PROVE  LimitOf(q) \in Nat
<1>1. q.limit \in Nat \union {Missing, Wrong} /\ q.limit # Wrong
  BY TorznabAssumption DEF Malformed
<1>2. LimitDefault \in Nat /\ LimitMax \in Nat
  BY TorznabAssumption
<1>3. (IF q.limit = Missing THEN LimitDefault ELSE q.limit) \in Nat
  BY <1>1, <1>2
<1> QED  BY <1>2, <1>3 DEF LimitOf, AtMost

LEMMA PageIsSources ==
  ASSUME NEW q \in Queries, NEW offset \in Nat, LimitOf(q) \in Nat,
         NEW came \in SUBSET Offers(q.imdbid), NEW candidates \in SetToSeqs(came)
  PROVE  PageOf(q, offset, Matching(q, candidates)) \in Seq(Offers(q.imdbid))
<1> DEFINE m == Matching(q, candidates)
           T == {s \in came : ContainsEpisode(s, q)}
           P == {i \in (offset + 1)..AtMost(offset + LimitOf(q), Len(m)) : m[i].buildable}
<1>1. m \in [1..Cardinality(T) -> T]
  BY MatchingEnumerates DEF Enumerates
<1>2. Cardinality(T) \in Nat
  <2>1. IsFiniteSet(Offers(q.imdbid))
    BY PrecedesTotal
  <2>2. IsFiniteSet(T)
    BY <2>1, FS_Subset
  <2> QED  BY <2>2, FS_CardinalityType
<1>3. Len(m) = Cardinality(T)
  <2> HIDE DEF m, T
  <2> QED  BY <1>1, <1>2
<1>4. P \in SUBSET (1..Cardinality(T))
  <2> HIDE DEF m, T
  <2> QED  BY <1>2, <1>3 DEF AtMost
<1>5. PageOf(q, offset, m) = At(m, P)
  BY DEF PageOf
<1> HIDE DEF m, P
<1>6. PICK order \in [1..Cardinality(P) -> P] :
        At(m, P) = [k \in 1..Cardinality(P) |-> m[order[k]]]
  <2> DEFINE c == Cardinality(T)
  <2>1. c \in Nat /\ P \in SUBSET (1..c)
    BY <1>2, <1>4
  <2> HIDE DEF c
  <2>2. \E order \in [1..Cardinality(P) -> P] :
          /\ At(m, P) = [k \in 1..Cardinality(P) |-> m[order[k]]]
          /\ \A p \in P : \E k \in 1..Cardinality(P) : order[k] = p
          /\ \A i, j \in 1..Cardinality(P) : i < j => order[i] < order[j]
    BY <2>1, AtInOrder
  <2> QED  BY <2>2
<1>7. Cardinality(P) \in Nat
  <2>1. IsFiniteSet(1..Cardinality(T))
    BY <1>2, FS_Interval
  <2>2. IsFiniteSet(P)
    BY <1>4, <2>1, FS_Subset
  <2> QED  BY <2>2, FS_CardinalityType
<1>8. \A k \in 1..Cardinality(P) : m[order[k]] \in Offers(q.imdbid)
  BY <1>1, <1>4, <1>6
<1>9. At(m, P) \in [1..Cardinality(P) -> Offers(q.imdbid)]
  BY <1>6, <1>8
<1>10. At(m, P) \in Seq(Offers(q.imdbid))
  BY <1>7, <1>9
<1> QED  BY <1>5, <1>10 DEF m

LEMMA TorznabInitInv ==
  TorznabInit => TorznabIInv
<1> SUFFICES ASSUME TorznabInit PROVE TorznabIInv
  OBVIOUS
<1> USE DEF TorznabInit
<1> DEFINE R == PrecedesOn(Offers(query.imdbid))
<1>1. session \in Sessions(Offers(query.imdbid))
  BY DEF Sessions
<1>2. Until(query, 0) = {}
  <2>1. IsFiniteSet(Due(query)) /\ StrictTotal(Due(query), R)
    <3>1. IsFiniteSet(Offers(query.imdbid)) /\ StrictTotal(Offers(query.imdbid), R)
      BY PrecedesTotal
    <3>2. Due(query) \in SUBSET Offers(query.imdbid)
      BY DEF Due
    <3> QED  BY <3>1, <3>2, FS_Subset, TotalOnPart
  <2>2. \A s \in Due(query) : Rank(Due(query), R, s) \in Nat
    <3> HIDE DEF R
    <3> QED  BY <2>1, RankBounds
  <2> QED  BY <2>2 DEF Until
<1>3. Enumerates(<<>>, {}, R)
  <2>1. Cardinality({}) = 0 /\ 1..0 = {}
    BY FS_EmptySet
  <2>2. <<>> \in [1..0 -> {}]
    BY <2>1
  <2> HIDE DEF R
  <2> QED  BY <2>1, <2>2 DEF Enumerates
<1> QED  BY <1>1, <1>2, <1>3 DEF TorznabIInv

LEMMA SearchPageKeeps ==
  ASSUME TorznabIInv, SearchPage
  PROVE  TorznabIInv'
<1> USE DEF SearchPage, TorznabIInv
<1> DEFINE S == Offers(query.imdbid)
           R == PrecedesOn(S)
           l == LimitOf(query)
<1>1. query' = query /\ l \in Nat /\ session.offset \in Nat
  BY LimitIsNat DEF Sessions
<1>0. PICK came \in SUBSET S, errors \in BOOLEAN :
        \E candidates \in SetToSeqs(came) :
          LET matching == Matching(query, candidates) IN
          /\ lost' = (lost \/ came # S)
          /\ IF errors /\ candidates = <<>> /\ query.imdbid # "absent"
             THEN session' = [session EXCEPT !.status = "failed"]
             ELSE Receive(PageOf(query, session.offset, matching), Len(matching))
  OBVIOUS
<1>2. PICK candidates \in SetToSeqs(came) :
        /\ lost' = (lost \/ came # S)
        /\ IF errors /\ candidates = <<>> /\ query.imdbid # "absent"
           THEN session' = [session EXCEPT !.status = "failed"]
           ELSE Receive(PageOf(query, session.offset, Matching(query, candidates)),
                        Len(Matching(query, candidates)))
  BY <1>0
<1> DEFINE m == Matching(query, candidates)
           page == PageOf(query, session.offset, m)
<1>3. CASE session' = [session EXCEPT !.status = "failed"]
  <2>1. session'.status = "failed" /\ session'.offset = session.offset
        /\ session'.received = session.received /\ session' \in Sessions(S)
    BY <1>3 DEF Sessions
  <2>2. ~lost' => ~lost
    BY <1>2
  <2> QED  BY <1>1, <2>1, <2>2
<1>4. CASE Receive(page, Len(m))
  <2>1. page \in Seq(S)
    BY <1>1, <1>2, PageIsSources
  <2>2. /\ session'.offset = session.offset + l
        /\ session'.received = session.received \o page
        /\ session'.status = "over" => session.offset + l >= Len(m)
        /\ session' \in Sessions(S)
    <3> DEFINE status == IF l = 0 THEN "counted"
                         ELSE IF session.offset + l >= Len(m) THEN "over" ELSE "asking"
    <3>1. session' = [offset |-> session.offset + l, received |-> session.received \o page,
                      status |-> status]
      BY <1>4 DEF Receive
    <3>2. session.received \in Seq(S)
      BY DEF Sessions
    <3> HIDE DEF page, m, l, S
    <3>3. session.received \o page \in Seq(S) /\ session.offset + l \in Nat
      BY <1>1, <2>1, <3>2
    <3>4. status \in {"counted", "over", "asking"} /\ (status = "over" => session.offset + l >= Len(m))
      OBVIOUS
    <3> HIDE DEF status
    <3> QED  BY <3>1, <3>3, <3>4 DEF Sessions
  <2>3. ASSUME ~lost'
        PROVE  /\ Len(m) = Cardinality(Due(query))
               /\ Enumerates(session.received \o page, Until(query, session.offset + l), R)
    <3>1. ~lost /\ came = S
      BY <1>2, <2>3
    <3>2. candidates \in SetToSeqs(S) /\ Enumerates(session.received, Until(query, session.offset), R)
      BY <3>1
    <3> QED  BY <1>1, <3>2, PageContinues
  <2> HIDE DEF page, m, l
  <2> QED  BY <1>1, <2>2, <2>3
<1> QED  BY <1>2, <1>3, <1>4

\* The invariant of the program that reads page after page: unless a search lacked a source, it has
\* those of the title that come before its offset in the order of Precedes, each once.
THEOREM TorznabInvariance == TorznabSpec => []TorznabIInv
<1>1. TorznabInit => TorznabIInv
  BY TorznabInitInv
<1>2. TorznabIInv /\ [TorznabNext]_torznabVars => TorznabIInv'
  <2> SUFFICES ASSUME TorznabIInv, [TorznabNext]_torznabVars PROVE TorznabIInv'
    OBVIOUS
  <2>1. CASE Refuse
    BY <2>1 DEF Refuse, TorznabIInv, Sessions
  <2>2. CASE Capabilities
    BY <2>2 DEF Capabilities, TorznabIInv, Sessions
  <2>3. CASE SearchPage
    BY <2>3, SearchPageKeeps
  <2>4. CASE UNCHANGED torznabVars
    BY <2>4 DEF torznabVars, TorznabIInv, Sessions
  <2> QED  BY <2>1, <2>2, <2>3, <2>4 DEF TorznabNext
<1> QED  BY <1>1, <1>2, PTL DEF TorznabSpec

LEMMA PagesExactFollows ==
  ASSUME TorznabIInv
  PROVE  PagesExact
<1> SUFFICES ASSUME session.status = "over", ~lost
             PROVE  LET got == session.received
                        wanted == {s \in Offers(query.imdbid) :
                                     /\ s.buildable
                                     /\ \/ query.season = Missing \/ query.ep.kind # "number"
                                        \/ <<query.season, query.ep.number>> \in s.episodes}
                    IN /\ ToSet(got) = wanted /\ Len(got) = Cardinality(wanted)
                       /\ \A i, j \in DOMAIN got : i < j => got[i].seeders >= got[j].seeders
  BY DEF PagesExact
<1> DEFINE S == Offers(query.imdbid)
           R == PrecedesOn(S)
           W == Due(query)
           got == session.received
           wanted == {s \in S : /\ s.buildable
                                /\ \/ query.season = Missing \/ query.ep.kind # "number"
                                   \/ <<query.season, query.ep.number>> \in s.episodes}
           n == Cardinality(wanted)
<1>1. query \in Queries /\ session.offset \in Nat /\ got \in Seq(S)
      /\ Enumerates(got, Until(query, session.offset), R) /\ Cardinality(W) <= session.offset
  BY DEF TorznabIInv, Sessions
<1>2. IsFiniteSet(S) /\ StrictTotal(S, R)
  BY <1>1, PrecedesTotal
<1>3. W \in SUBSET S /\ wanted = {s \in W : s.buildable} /\ wanted \in SUBSET S
  BY DEF Due, ContainsEpisode
<1>4. IsFiniteSet(W) /\ StrictTotal(W, R) /\ IsFiniteSet(wanted)
  <2> HIDE DEF S, R, W, wanted
  <2> QED  BY <1>2, <1>3, FS_Subset, TotalOnPart
<1>5. Until(query, session.offset) = wanted
  <2>1. \A s \in W : Rank(W, R, s) < session.offset
    <3> SUFFICES ASSUME NEW s \in W PROVE Rank(W, R, s) < session.offset
      OBVIOUS
    <3>1. Rank(W, R, s) \in Nat /\ Rank(W, R, s) < Cardinality(W) /\ Cardinality(W) \in Nat
      <4> HIDE DEF W, R
      <4> QED  BY <1>4, RankBounds, FS_CardinalityType
    <3> QED  BY <1>1, <3>1
  <2>2. Until(query, session.offset) = {s \in W : s.buildable /\ Rank(W, R, s) < session.offset}
    BY DEF Until
  <2> HIDE DEF wanted, W, R
  <2> QED  BY <1>3, <2>1, <2>2
<1>6. Enumerates(got, wanted, R)
  BY <1>1, <1>5
<1> HIDE DEF wanted, got
<1>7. n \in Nat /\ got \in [1..n -> wanted] /\ (\A x \in wanted : \E k \in 1..n : got[k] = x)
      /\ \A i, j \in 1..n : i < j => <<got[i], got[j]>> \in R
  BY <1>4, <1>6, FS_CardinalityType DEF Enumerates
<1>8. Len(got) = n /\ DOMAIN got = 1..n
  <2> HIDE DEF n
  <2> QED  BY <1>1, <1>7
<1>9. ToSet(got) = wanted
  <2> HIDE DEF n
  <2> QED  BY <1>7, <1>8 DEF ToSet
<1>10. ASSUME NEW i \in 1..n, NEW j \in 1..n, i < j PROVE got[i].seeders >= got[j].seeders
  <2>1. <<got[i], got[j]>> \in R /\ got[i] \in S /\ got[j] \in S
    BY <1>3, <1>7, <1>10
  <2>2. Precedes(got[i], got[j])
    <3> HIDE DEF S
    <3> QED  BY <2>1 DEF PrecedesOn
  <2>3. got[i].seeders \in Nat /\ got[j].seeders \in Nat
    BY <1>1, <2>1, TorznabAssumption
  <2> QED  BY <1>1, <2>1, <2>2, <2>3, PrecedesMeans
<1> HIDE DEF n
<1> QED  BY <1>8, <1>9, <1>10 DEF n, wanted, got

\* A program that reads to the total has every source of the title, each once, most seeders first
\* (torznab/service.py:72-104).
THEOREM PagesExactHolds == TorznabSpec => []PagesExact
<1>1. TorznabIInv => PagesExact
  BY PagesExactFollows
<1> QED  BY <1>1, TorznabInvariance, PTL

-----------------------------------------------------------------------------
(***************************************************************************)
(* IndexerSearch, on the sites that are read page by page.                 *)
(***************************************************************************)
LEMMA AtList ==
  ASSUME NEW T, NEW list \in Seq(T), NEW places \in SUBSET DOMAIN list
  PROVE  /\ At(list, places) \in Seq(T)
         /\ ToSet(At(list, places)) = {list[i] : i \in places}
         /\ \A i, j \in DOMAIN At(list, places) : i < j =>
              \E p, q \in places : p < q /\ At(list, places)[i] = list[p] /\ At(list, places)[j] = list[q]
<1> DEFINE n == Len(list)
           m == Cardinality(places)
           some == At(list, places)
<1>1. n \in Nat /\ DOMAIN list = 1..n /\ \A i \in 1..n : list[i] \in T
  OBVIOUS
<1>2. places \in SUBSET (1..n)
  BY <1>1
<1>3. m \in Nat
  <2>1. IsFiniteSet(1..n)
    BY <1>1, FS_Interval
  <2>2. IsFiniteSet(places)
    BY <1>2, <2>1, FS_Subset
  <2> QED  BY <2>2, FS_CardinalityType
<1>4. PICK order \in [1..m -> places] :
           /\ some = [k \in 1..m |-> list[order[k]]]
           /\ \A p \in places : \E k \in 1..m : order[k] = p
           /\ \A i, j \in 1..m : i < j => order[i] < order[j]
  <2> HIDE DEF n
  <2> QED  BY <1>1, <1>2, AtInOrder
<1> HIDE DEF n, m, some
<1>5. some \in [1..m -> T]
  BY <1>1, <1>2, <1>4
<1>6. some \in Seq(T) /\ DOMAIN some = 1..m
  BY <1>3, <1>5
<1>7. ToSet(some) = {list[i] : i \in places}
  BY <1>4, <1>6 DEF ToSet
<1>8. \A i, j \in DOMAIN some : i < j =>
        \E p, q \in places : p < q /\ some[i] = list[p] /\ some[j] = list[q]
  BY <1>4, <1>6
<1> QED  BY <1>6, <1>7, <1>8 DEF some

LEMMA UniqueByIdExact ==
  ASSUME NEW T, NEW rows \in Seq(T)
  PROVE  /\ UniqueById(rows) \in Seq(T)
         /\ \A i, j \in DOMAIN UniqueById(rows) :
              UniqueById(rows)[i].id = UniqueById(rows)[j].id => i = j
         /\ {r.id : r \in ToSet(UniqueById(rows))} = {r.id : r \in ToSet(rows)}
<1> DEFINE places == {i \in DOMAIN rows : \A j \in 1..(i - 1) : rows[j].id # rows[i].id}
           unique == At(rows, places)
<1>1. UniqueById(rows) = unique
  BY DEF UniqueById
<1>2. DOMAIN rows = 1..Len(rows) /\ Len(rows) \in Nat
  OBVIOUS
<1>3. /\ unique \in Seq(T)
      /\ ToSet(unique) = {rows[i] : i \in places}
      /\ \A i, j \in DOMAIN unique : i < j =>
           \E p, q \in places : p < q /\ unique[i] = rows[p] /\ unique[j] = rows[q]
  <2>1. places \in SUBSET DOMAIN rows
    OBVIOUS
  <2> HIDE DEF places
  <2> QED  BY <2>1, AtList
<1>4. \A p, q \in places : p < q => rows[p].id # rows[q].id
  <2> SUFFICES ASSUME NEW p \in places, NEW q \in places, p < q PROVE rows[p].id # rows[q].id
    OBVIOUS
  <2>1. p \in 1..(q - 1)
    BY <1>2
  <2> QED  BY <2>1
<1>5. \A i \in DOMAIN rows : \E p \in places : rows[p].id = rows[i].id
  <2> SUFFICES ASSUME NEW i \in DOMAIN rows PROVE \E p \in places : rows[p].id = rows[i].id
    OBVIOUS
  <2> DEFINE same == {j \in DOMAIN rows : rows[j].id = rows[i].id}
  <2>1. same \in SUBSET Nat /\ same # {}
    BY <1>2
  <2>2. PICK p \in same : \A j \in same : p <= j
    BY <2>1, LeastNumber
  <2>3. ASSUME NEW j \in 1..(p - 1) PROVE rows[j].id # rows[p].id
    <3>1. j \in DOMAIN rows /\ ~(p <= j)
      BY <1>2
    <3> QED  BY <2>2, <3>1
  <2>4. p \in places
    BY <2>3
  <2> QED  BY <2>4
<1> HIDE DEF places, unique
<1>6. ASSUME NEW i \in DOMAIN unique, NEW j \in DOMAIN unique, unique[i].id = unique[j].id
      PROVE  i = j
  <2>1. i \in Int /\ j \in Int
    BY <1>3
  <2>2. ~(i < j) /\ ~(j < i)
    BY <1>3, <1>4, <1>6
  <2> QED  BY <2>1, <2>2
<1>7. {r.id : r \in ToSet(unique)} = {r.id : r \in ToSet(rows)}
  <2>1. ToSet(rows) = {rows[i] : i \in DOMAIN rows} /\ places \subseteq DOMAIN rows
    BY DEF ToSet, places
  <2> QED  BY <1>3, <1>5, <2>1
<1> QED  BY <1>1, <1>3, <1>6, <1>7

-----------------------------------------------------------------------------
\* What the code of a site reads on a page, on the pages before one, and on all of them.
ReadOn(s, rows) ==
    {Read(s, rows[i], Asked) : i \in {j \in DOMAIN rows : Accepted(s, rows[j], Asked)}}

ReadBefore(s, ps, n) == UNION {ReadOn(s, ps[p]) : p \in 1..(n - 1)}

ReadOnAll(s, ps) == UNION {ReadOn(s, ps[p]) : p \in DOMAIN ps}

ReadRows(s) == {Read(s, row, Asked) : row \in SiteRows}

\* The ids of the torrents of the title asked for.
AskedIds(rows) == {r.id : r \in {x \in rows : x.title = Asked}}

\* An answer has each torrent of the title among these rows once.
AnswersExactly(list, s, rows) ==
    /\ list \in Seq(ReadRows(s))
    /\ \A i, j \in DOMAIN list : list[i].id = list[j].id => i = j
    /\ {r.id : r \in ToSet(list)} = AskedIds(rows)

\* While it reads, a search has what the pages before this one show.
Reading ==
    /\ progress.page \in DOMAIN pages /\ blind = "no"
    /\ Torrents \in Seq(ReadRows(site)) /\ ToSet(Torrents) = ReadBefore(site, pages, progress.page)

\* A search that is over answers what all of them show, or less when a login form cut it short.
Answered ==
    \E rows \in SUBSET ReadOnAll(site, pages) :
      /\ AnswersExactly(Torrents, site, rows)
      /\ blind = "no" => rows = ReadOnAll(site, pages)
      /\ blind = "unrecognised" => site # "huntorrent"

SearchIInv ==
    /\ site \in Sites /\ pages \in SitePages
    /\ progress = [status |-> progress.status, page |-> progress.page, collected |-> progress.collected]
    /\ Paged(site) /\ progress.status \in {"searching", "relogin"} => Reading
    /\ Paged(site) /\ progress.status = "found" => Answered

LEMMA SitePagesType ==
  ASSUME pages \in SitePages
  PROVE  /\ pages \in Seq(Seq(SiteRows)) /\ Len(pages) \in Nat
         /\ DOMAIN pages = 1..Len(pages) /\ 1 \in DOMAIN pages
<1>1. pages \in Seq(Seq(SiteRows)) /\ pages # <<>>
  BY IndexerSearchAssumption
<1> QED  BY <1>1

LEMMA AnswerExact ==
  ASSUME NEW s, NEW torrents \in Seq(ReadRows(s))
  PROVE  AnswersExactly(Answer(torrents), s, ToSet(torrents))
<1> DEFINE places == {i \in DOMAIN torrents : torrents[i].title = Asked}
           titled == OfTitle(torrents)
<1>1. titled \in Seq(ReadRows(s)) /\ ToSet(titled) = {torrents[i] : i \in places}
  <2>1. places \in SUBSET DOMAIN torrents /\ titled = At(torrents, places)
    BY DEF OfTitle
  <2> HIDE DEF places, titled
  <2> QED  BY <2>1, AtList
<1>2. {torrents[i] : i \in places} = {x \in ToSet(torrents) : x.title = Asked}
  BY DEF ToSet
<1> HIDE DEF titled
<1>3. /\ UniqueById(titled) \in Seq(ReadRows(s))
      /\ \A i, j \in DOMAIN UniqueById(titled) :
           UniqueById(titled)[i].id = UniqueById(titled)[j].id => i = j
      /\ {r.id : r \in ToSet(UniqueById(titled))} = {r.id : r \in ToSet(titled)}
  BY <1>1, UniqueByIdExact
<1>4. Answer(torrents) = UniqueById(titled)
  BY DEF Answer, titled
<1> QED  BY <1>1, <1>2, <1>3, <1>4 DEF AnswersExactly, AskedIds

LEMMA PageReadExact ==
  ASSUME SearchIInv, Paged(site), progress.page \in DOMAIN pages
  PROVE  /\ PageRead \in Seq(ReadRows(site))
         /\ ToSet(PageRead) = ReadOn(site, pages[progress.page])
<1> DEFINE rows == pages[progress.page]
           places == {i \in DOMAIN rows : Accepted(site, rows[i], Asked)}
           read == At(rows, places)
           all == [i \in DOMAIN read |-> Read(site, read[i], Asked)]
<1>1. rows \in Seq(SiteRows)
  BY SitePagesType DEF SearchIInv
<1>2. PageRead = all
  BY DEF PageRead, RowsRead
<1>3. ReadOn(site, rows) = {Read(site, rows[i], Asked) : i \in places}
  BY DEF ReadOn
<1>4. read \in Seq(SiteRows) /\ ToSet(read) = {rows[i] : i \in places}
  <2>1. places \in SUBSET DOMAIN rows
    OBVIOUS
  <2> HIDE DEF rows, places
  <2> QED  BY <1>1, <2>1, AtList
<1> HIDE DEF rows, places, read
<1>5. DOMAIN all = DOMAIN read /\ all \in [1..Len(read) -> ReadRows(site)] /\ Len(read) \in Nat
  BY <1>4 DEF ReadRows
<1>6. all \in Seq(ReadRows(site))
  <2> HIDE DEF all
  <2> QED  BY <1>5
<1>7. ToSet(all) = {Read(site, r, Asked) : r \in ToSet(read)}
  BY DEF ToSet
<1>8. ToSet(all) = {Read(site, rows[i], Asked) : i \in places}
  <2> HIDE DEF all
  <2> QED  BY <1>4, <1>7
<1> HIDE DEF all
<1> QED  BY <1>2, <1>3, <1>6, <1>8 DEF rows

LEMMA ConcatSet ==
  ASSUME NEW T, NEW a \in Seq(T), NEW b \in Seq(T)
  PROVE  a \o b \in Seq(T) /\ ToSet(a \o b) = ToSet(a) \union ToSet(b)
<1>1. a \o b \in Seq(T) /\ DOMAIN (a \o b) = 1..(Len(a) + Len(b))
      /\ DOMAIN a = 1..Len(a) /\ DOMAIN b = 1..Len(b) /\ Len(a) \in Nat /\ Len(b) \in Nat
  OBVIOUS
<1>2. (\A i \in DOMAIN a : i \in DOMAIN (a \o b) /\ (a \o b)[i] = a[i])
      /\ \A i \in DOMAIN b : Len(a) + i \in DOMAIN (a \o b) /\ (a \o b)[Len(a) + i] = b[i]
  BY <1>1
<1>3. \A i \in DOMAIN (a \o b) : i \in DOMAIN a \/ (i - Len(a) \in DOMAIN b /\ i = Len(a) + (i - Len(a)))
  BY <1>1
<1>4. \A i \in DOMAIN (a \o b) : (a \o b)[i] \in ToSet(a) \union ToSet(b)
  BY <1>2, <1>3 DEF ToSet
<1>5. ToSet(a) \union ToSet(b) \subseteq ToSet(a \o b)
  BY <1>2 DEF ToSet
<1>6. ToSet(a \o b) \subseteq ToSet(a) \union ToSet(b)
  BY <1>4 DEF ToSet
<1> QED  BY <1>1, <1>5, <1>6

LEMMA ReadBeforeMembers ==
  ASSUME NEW s, NEW ps, NEW n, NEW x
  PROVE  x \in ReadBefore(s, ps, n) <=> \E p \in 1..(n - 1) : x \in ReadOn(s, ps[p])
BY DEF ReadBefore

\* What a page adds to what those before it show.
LEMMA ReadNextPage ==
  ASSUME SearchIInv, progress.page \in DOMAIN pages
  PROVE  /\ ReadBefore(site, pages, progress.page) \union ReadOn(site, pages[progress.page])
              = ReadBefore(site, pages, progress.page + 1)
         /\ ReadBefore(site, pages, progress.page) \subseteq ReadOnAll(site, pages)
         /\ progress.page = Len(pages) =>
              ReadBefore(site, pages, progress.page + 1) = ReadOnAll(site, pages)
<1> DEFINE n == progress.page
           next == n + 1
<1>1. n \in Nat /\ 1 <= n /\ n <= Len(pages) /\ Len(pages) \in Nat /\ DOMAIN pages = 1..Len(pages)
  BY SitePagesType DEF SearchIInv
<1>2. /\ \A p : p \in 1..(next - 1) <=> p \in 1..(n - 1) \/ p = n
      /\ \A p \in 1..(n - 1) : p \in DOMAIN pages
      /\ n = Len(pages) => \A p : p \in 1..(next - 1) <=> p \in DOMAIN pages
  BY <1>1
<1> HIDE DEF n, next
<1>3. \A x : x \in ReadOnAll(site, pages) <=> \E p \in DOMAIN pages : x \in ReadOn(site, pages[p])
  BY DEF ReadOnAll
<1>4. \A x : x \in ReadBefore(site, pages, n) <=> \E p \in 1..(n - 1) : x \in ReadOn(site, pages[p])
  BY ReadBeforeMembers
<1>5. \A x : x \in ReadBefore(site, pages, next)
               <=> \E p \in 1..(next - 1) : x \in ReadOn(site, pages[p])
  BY ReadBeforeMembers
<1>6. \A x : x \in ReadBefore(site, pages, next)
               <=> x \in ReadBefore(site, pages, n) \/ x \in ReadOn(site, pages[n])
  BY <1>2, <1>4, <1>5
<1>7. ReadBefore(site, pages, n) \union ReadOn(site, pages[n]) = ReadBefore(site, pages, next)
  BY <1>6
<1>8. ReadBefore(site, pages, n) \subseteq ReadOnAll(site, pages)
  BY <1>2, <1>3, <1>4
<1>9. n = Len(pages) => ReadBefore(site, pages, next) = ReadOnAll(site, pages)
  <2> SUFFICES ASSUME n = Len(pages)
               PROVE  \A x : x \in ReadBefore(site, pages, next) <=> x \in ReadOnAll(site, pages)
    OBVIOUS
  <2> QED  BY <1>2, <1>3, <1>5
<1> QED  BY <1>7, <1>8, <1>9 DEF n, next

LEMMA CollectKeeps ==
  ASSUME SearchIInv, progress.status \in {"searching", "relogin"}, Collect(PageRead),
         UNCHANGED <<site, pages, blind>>
  PROVE  SearchIInv'
<1> DEFINE all == Torrents \o PageRead
<1>1. progress' = [status |-> progress'.status, page |-> progress'.page,
                   collected |-> progress'.collected]
  BY DEF Collect, SearchIInv
<1>2. CASE ~Paged(site)
  BY <1>1, <1>2 DEF SearchIInv, Paged
<1>3. CASE Paged(site)
  <2>1. Reading
    BY <1>3 DEF SearchIInv
  <2>2. PageRead \in Seq(ReadRows(site)) /\ ToSet(PageRead) = ReadOn(site, pages[progress.page])
    BY <1>3, <2>1, PageReadExact DEF Reading
  <2>3. all \in Seq(ReadRows(site)) /\ ToSet(all) = ReadBefore(site, pages, progress.page + 1)
    <3>1. all \in Seq(ReadRows(site)) /\ ToSet(all) = ToSet(Torrents) \union ToSet(PageRead)
      <4>1. Torrents \in Seq(ReadRows(site))
        BY <2>1 DEF Reading
      <4> QED  BY <2>2, <4>1, ConcatSet
    <3> QED  BY <2>1, <2>2, <3>1, ReadNextPage DEF Reading
  <2> HIDE DEF all
  <2>4. CASE IsLast
    <3>1. progress' = [status |-> "found", page |-> progress.page, collected |-> Answer(all)]
      BY <2>4 DEF Collect, SearchIInv, all
    <3>2. progress.page = Len(pages)
      BY <1>3, <2>4 DEF IsLast
    <3>3. ToSet(all) = ReadOnAll(site, pages)
      BY <2>1, <2>3, <3>2, ReadNextPage DEF Reading
    <3>4. AnswersExactly(Answer(all), site, ReadOnAll(site, pages))
      BY <2>3, <3>3, AnswerExact
    <3>5. Answered'
      BY <2>1, <3>1, <3>4 DEF Answered, Torrents, Reading
    <3> QED  BY <3>1, <3>5 DEF SearchIInv
  <2>5. CASE ~IsLast /\ Len(all) > Limit
    <3>1. progress'.status = "over the limit"
      BY <2>5 DEF Collect, SearchIInv, all
    <3> QED  BY <1>1, <3>1 DEF SearchIInv
  <2>6. CASE ~IsLast /\ ~(Len(all) > Limit)
    <3>1. progress' = [status |-> progress.status, page |-> progress.page + 1, collected |-> all]
      BY <2>6 DEF Collect, SearchIInv, all
    <3>2. progress.page + 1 \in DOMAIN pages
      BY <1>3, <2>1, <2>6, SitePagesType DEF IsLast, Reading, SearchIInv
    <3>3. Reading'
      BY <2>1, <2>3, <3>1, <3>2 DEF Reading, Torrents
    <3> QED  BY <3>1, <3>3 DEF SearchIInv
  <2> QED  BY <2>4, <2>5, <2>6
<1> QED  BY <1>2, <1>3

\* A login form that is read as a page: what was collected is the answer.
LEMMA BlindKeeps ==
  ASSUME SearchIInv, progress.status \in {"searching", "relogin"}, UNCHANGED <<site, pages>>,
         CutShort, blind' # "no", blind' = "unrecognised" => site # "huntorrent"
  PROVE  SearchIInv'
<1>1. progress' = [status |-> "found", page |-> progress.page, collected |-> Answer(Torrents)]
  BY DEF SearchIInv, CutShort
<1>2. blind' # "no" /\ (blind' = "unrecognised" => site # "huntorrent")
  OBVIOUS
<1>3. ASSUME Paged(site) PROVE Answered'
  <2>1. Reading
    BY <1>3 DEF SearchIInv
  <2>2. AnswersExactly(Answer(Torrents), site, ToSet(Torrents))
    BY <2>1, AnswerExact DEF Reading
  <2>3. ToSet(Torrents) \in SUBSET ReadOnAll(site, pages)
    BY <2>1, ReadNextPage DEF Reading
  <2> QED  BY <1>1, <1>2, <2>2, <2>3 DEF Answered, Torrents
<1>4. Paged(site)' <=> Paged(site)
  BY DEF Paged
<1>5. progress'.status = "found" /\ progress' = [status |-> progress'.status, page |-> progress'.page,
                                               collected |-> progress'.collected]
  BY <1>1
<1> QED  BY <1>3, <1>4, <1>5 DEF SearchIInv

\* Before the first page nothing is read.
LEMMA NothingBefore ==
  ASSUME NEW s, NEW ps
  PROVE  ReadBefore(s, ps, 1) = {}
<1>1. 1..(1 - 1) = {}
  OBVIOUS
<1> QED  BY <1>1 DEF ReadBefore

LEMMA NothingCollected ==
  ASSUME NEW T
  PROVE  <<>> \in Seq(T) /\ ToSet(<<>>) = {}
BY DEF ToSet

LEMMA SearchInitInv ==
  SearchInit => SearchIInv
<1> SUFFICES ASSUME SearchInit PROVE SearchIInv
  OBVIOUS
<1>1. PICK status \in {"searching", "looking up"} :
        progress = [status |-> status, page |-> 1, collected |-> <<>>]
  BY DEF SearchInit
<1>2. site \in Sites /\ pages \in SitePages /\ blind = "no"
  BY DEF SearchInit
<1>3. 1 \in DOMAIN pages
  BY <1>2, SitePagesType
<1>4. ReadBefore(site, pages, 1) = {}
  BY NothingBefore
<1>5. Torrents \in Seq(ReadRows(site)) /\ ToSet(Torrents) = {}
  <2>1. Torrents = <<>>
    BY <1>1 DEF Torrents
  <2> QED  BY <2>1, NothingCollected
<1>6. Reading
  BY <1>1, <1>2, <1>3, <1>4, <1>5 DEF Reading
<1> QED  BY <1>1, <1>2, <1>6 DEF SearchIInv

LEMMA SearchStepKeeps ==
  SearchIInv /\ [SearchNext]_searchVars => SearchIInv'
<1> SUFFICES ASSUME SearchIInv, [SearchNext]_searchVars PROVE SearchIInv'
  OBVIOUS
<1>1. ASSUME UNCHANGED <<site, pages, blind>>, NEW status,
             progress' = [progress EXCEPT !.status = status],
             status \notin {"searching", "relogin", "found"}
      PROVE  SearchIInv'
  <2>1. progress' = [status |-> status, page |-> progress.page, collected |-> progress.collected]
    BY <1>1 DEF SearchIInv
  <2> QED  BY <1>1, <2>1 DEF SearchIInv
<1>2. ASSUME UNCHANGED <<site, pages, blind>>, progress.status = "searching",
             progress' = [progress EXCEPT !.status = "relogin"]
      PROVE  SearchIInv'
  <2>1. progress' = [status |-> "relogin", page |-> progress.page, collected |-> progress.collected]
    BY <1>2 DEF SearchIInv
  <2>2. Paged(site) => Reading'
    BY <1>2, <2>1 DEF SearchIInv, Reading, Torrents
  <2> QED  BY <1>2, <2>1, <2>2 DEF SearchIInv, Paged
<1>3. CASE Fetch
  <2>1. PICK response \in Responses :
          CASE Detect(site, response, "other") = "session" ->
                 progress' = [progress EXCEPT !.status = "relogin"] /\ UNCHANGED blind
            [] Detect(site, response, "other") # "session" /\ response.form ->
                 /\ site # "ncore"
                 /\ CutShort
                 /\ blind' = "unrecognised"
            [] OTHER -> Collect(PageRead) /\ UNCHANGED blind
    BY <1>3 DEF Fetch
  <2>2. progress.status = "searching" /\ UNCHANGED <<site, pages>>
    BY <1>3 DEF Fetch
  <2>3. CASE Detect(site, response, "other") = "session"
    BY <1>2, <2>1, <2>2, <2>3
  <2>4. CASE Detect(site, response, "other") # "session" /\ response.form
    <3>1. CutShort /\ blind' = "unrecognised"
      BY <2>1, <2>4
    <3>2. site # "huntorrent"
      BY <2>4 DEF Detect, DetectHuntorrent
    <3> QED  BY <2>2, <3>1, <3>2, BlindKeeps
  <2>5. CASE Detect(site, response, "other") # "session" /\ ~response.form
    BY <2>1, <2>2, <2>5, CollectKeeps
  <2> QED  BY <2>3, <2>4, <2>5
<1>4. CASE Relogin
  <2>1. progress.status = "relogin" /\ UNCHANGED <<site, pages>>
    BY <1>4 DEF Relogin
  <2>2. CASE Collect(PageRead) /\ UNCHANGED blind
    BY <2>1, <2>2, CollectKeeps
  <2>3. CASE CutShort /\ blind' = "retry"
    BY <2>1, <2>3, BlindKeeps
  <2> QED  BY <1>4, <2>2, <2>3 DEF Relogin
<1>5. CASE SearchFails
  BY <1>1, <1>5 DEF SearchFails
<1>6. CASE LookUp
  <2>1. PICK page \in TorrentPages : progress' = [progress EXCEPT !.status = FetchTorrent(site, page)]
    BY <1>6 DEF LookUp
  <2>2. FetchTorrent(site, page) \in {"none", "torrent", "another torrent", "error"}
    BY DEF FetchTorrent
  <2> QED  BY <1>1, <1>6, <2>1, <2>2 DEF LookUp
<1>7. CASE UNCHANGED searchVars
  BY <1>7 DEF searchVars, SearchIInv, Reading, Answered, Torrents
<1> QED  BY <1>3, <1>4, <1>5, <1>6, <1>7 DEF SearchNext

\* The invariant of a search on a site that is read page by page: what is collected is what the pages
\* before this one show.
THEOREM SearchInvariance == SearchSpec => []SearchIInv
BY SearchInitInv, SearchStepKeeps, PTL DEF SearchSpec

LEMMA ReadFields ==
  ASSUME NEW s, NEW row \in SiteRows
  PROVE  Read(s, row, Asked).title = TitleOf(s, row, Asked) /\ Read(s, row, Asked).id = row.id
<1>1. {"id", "title", "parts"} \subseteq DOMAIN row
  BY IndexerSearchAssumption
<1> QED  BY <1>1 DEF Read

LEMMA SearchExactFollows ==
  ASSUME SearchIInv
  PROVE  SearchExact
<1> SUFFICES ASSUME progress.status = "found", Paged(site) PROVE SearchExact
  BY DEF SearchExact
<1> DEFINE Shows(p, i) == /\ Accepted(site, pages[p][i], Asked)
                          /\ TitleOf(site, pages[p][i], Asked) = Asked
           shown == {at \in UNION {{p} \X DOMAIN pages[p] : p \in DOMAIN pages} :
                       Shows(at[1], at[2])}
           ids == {pages[at[1]][at[2]].id : at \in shown}
           answered == [i \in DOMAIN Torrents |-> Torrents[i].id]
           all == ReadOnAll(site, pages)
<1>1. PICK rows \in SUBSET all :
        /\ AnswersExactly(Torrents, site, rows)
        /\ blind = "no" => rows = all
        /\ blind = "unrecognised" => site # "huntorrent"
  BY DEF SearchIInv, Answered
<1>2. AskedIds(all) = ids
  <2>0. \A p \in DOMAIN pages : \A i \in DOMAIN pages[p] : pages[p][i] \in SiteRows
    BY SitePagesType DEF SearchIInv
  <2>1. ASSUME NEW x \in AskedIds(all) PROVE x \in ids
    <3>1. PICK r \in all : r.title = Asked /\ x = r.id
      BY DEF AskedIds
    <3>2. PICK p \in DOMAIN pages : r \in ReadOn(site, pages[p])
      BY DEF ReadOnAll
    <3>3. PICK i \in DOMAIN pages[p] : Accepted(site, pages[p][i], Asked) /\ r = Read(site, pages[p][i], Asked)
      BY <3>2 DEF ReadOn
    <3>4. r.title = TitleOf(site, pages[p][i], Asked) /\ r.id = pages[p][i].id
      BY <2>0, <3>3, ReadFields
    <3>5. <<p, i>> \in UNION {{q} \X DOMAIN pages[q] : q \in DOMAIN pages}
          /\ <<p, i>>[1] = p /\ <<p, i>>[2] = i
      OBVIOUS
    <3>6. <<p, i>> \in shown
      BY <3>1, <3>3, <3>4, <3>5
    <3> QED  BY <3>1, <3>4, <3>5, <3>6
  <2>2. ASSUME NEW x \in ids PROVE x \in AskedIds(all)
    <3>1. PICK at \in shown : x = pages[at[1]][at[2]].id
      OBVIOUS
    <3>2. at[1] \in DOMAIN pages /\ at[2] \in DOMAIN pages[at[1]] /\ Shows(at[1], at[2])
      OBVIOUS
    <3> DEFINE r == Read(site, pages[at[1]][at[2]], Asked)
    <3>3. r \in all
      BY <3>2 DEF ReadOnAll, ReadOn
    <3>4. r.title = Asked /\ r.id = x
      BY <2>0, <3>1, <3>2, ReadFields
    <3> HIDE DEF r
    <3> QED  BY <3>3, <3>4 DEF AskedIds
  <2> QED  BY <2>1, <2>2
<1>3. AskedIds(rows) \subseteq ids
  BY <1>2 DEF AskedIds
<1>4. DOMAIN answered = 1..Len(Torrents) /\ Len(Torrents) \in Nat /\ Len(answered) = Len(Torrents)
      /\ DOMAIN Torrents = 1..Len(Torrents)
  <2>1. DOMAIN Torrents = 1..Len(Torrents) /\ Len(Torrents) \in Nat
    BY <1>1 DEF AnswersExactly
  <2>2. answered \in [1..Len(Torrents) -> {Torrents[i].id : i \in DOMAIN Torrents}]
    BY <2>1
  <2>3. DOMAIN answered = 1..Len(Torrents)
    BY <2>1
  <2> HIDE DEF answered
  <2> QED  BY <2>1, <2>2, <2>3
<1>5. ToSet(answered) = AskedIds(rows)
  <2>1. ToSet(answered) = {Torrents[i].id : i \in DOMAIN Torrents}
    BY DEF ToSet
  <2>2. {r.id : r \in ToSet(Torrents)} = {Torrents[i].id : i \in DOMAIN Torrents}
    BY DEF ToSet
  <2> QED  BY <1>1, <2>1, <2>2 DEF AnswersExactly
<1>6. Cardinality(ToSet(answered)) = Len(answered)
  <2> DEFINE n == Len(Torrents)
  <2>1. n \in Nat /\ DOMAIN answered = 1..n /\ Len(answered) = n
        /\ \A i, j \in 1..n : answered[i] = answered[j] => i = j
    BY <1>1, <1>4 DEF AnswersExactly
  <2> HIDE DEF n, answered
  <2>2. IsFiniteSet(1..n) /\ Cardinality(1..n) = n
    <3>1. 1 \in Int /\ n \in Int /\ (1 > n => n = 0)
      BY <2>1
    <3> QED  BY <2>1, <3>1, FS_Interval
  <2> DEFINE f == [i \in 1..n |-> answered[i]]
  <2>3. f \in Bijection(1..n, ToSet(answered))
    BY <2>1 DEF ToSet, Bijection, Injection, Surjection, IsInjective
  <2>4. ExistsBijection(1..n, ToSet(answered))
    BY <2>3 DEF ExistsBijection
  <2> QED  BY <2>1, <2>2, <2>4, FS_Bijection
<1> HIDE DEF answered, ids
<1>7. /\ Cardinality(ToSet(answered)) = Len(answered)
      /\ ToSet(answered) \subseteq ids
      /\ blind = "no" => ToSet(answered) = ids
      /\ blind = "unrecognised" => site # "huntorrent"
  BY <1>1, <1>2, <1>3, <1>5, <1>6
<1> QED  BY <1>7 DEF SearchExact, answered, ids

\* What a search answers is each torrent of the title that the pages show completely, once
\* (base_indexer_definition.py:287-310).
THEOREM SearchExactHolds == SearchSpec => []SearchExact
BY SearchInvariance, SearchExactFollows, PTL

-----------------------------------------------------------------------------
(***************************************************************************)
(* Selection.  The walk over the folders keeps three things: what it has   *)
(* found is the wanted episode; the season a folder inherits is the one    *)
(* that holds there, and no folder above it is of another season; and a    *)
(* file of the episode that is not found yet is within a folder still to   *)
(* be visited, at whose end or below which it is recognised.               *)
(***************************************************************************)
TopSeason == Season(TorrentName, None)

\* No folder down to the n-th is of another season.
OpenTo(f, n) == \A i \in 1..n : SeasonAt(f, i, TopSeason) \in {None, question.wanted.season}

\* The n-th folder is the episode, or the file itself is.
Shows(f, n) ==
    \/ n > 0 /\ WholeFolder(f.path[n], SeasonAt(f, n, TopSeason), question.wanted)
    \/ n = Len(f.path) /\ FileMatches(f, SeasonAt(f, n, TopSeason), question.wanted)

\* The file is recognised at the n-th folder or further down.
ShownFrom(f, n) == \E m \in n..Len(f.path) : OpenTo(f, m) /\ Shows(f, m)

IsWanted(f) == IsEpisode(f, TopSeason, question.wanted)

VisitRight(visit) ==
    /\ visit.folder \in Seq(Folders) /\ Len(visit.folder) > 0
    /\ \A f \in AllFilesIn(visit.folder) :
         /\ OpenTo(f, Len(visit.folder) - 1)
         /\ visit.inherited = SeasonAt(f, Len(visit.folder) - 1, TopSeason)

ToBeFound(f, visits) ==
    \E visit \in visits : f \in AllFilesIn(visit.folder) /\ ShownFrom(f, Len(visit.folder))

WalkRight ==
    /\ walk.matches \subseteq {f \in question.files : IsWanted(f)}
    /\ \A visit \in walk.pending : VisitRight(visit)
    /\ \A f \in question.files :
         IsWanted(f) => f \in walk.matches \/ ToBeFound(f, walk.pending)

SelectionIInv ==
    /\ question \in Questions
    /\ walk \in [pending : SUBSET [folder : Seq(Folders), inherited : Nat \union {None}],
                 matches : SUBSET question.files]
    /\ answer \in [status : {"asked", "walking", "given"}, found : SUBSET question.files]
    /\ answer.status = "asked" => walk.matches = {}
    /\ answer.status = "walking" => WalkRight
    /\ FileOfEpisode

Names == Folders \union {q.torrent : q \in Questions}

\* What a name says of the season is a number; without that it is what it inherits.
LEMMA FolderSeasonSays ==
  ASSUME NEW d \in Names
  PROVE  \/ /\ FolderSeason(d, None) \in Nat
            /\ \A inherited : FolderSeason(d, inherited) = FolderSeason(d, None)
         \/ \A inherited : FolderSeason(d, inherited) = inherited
<1> DEFINE seasons == Parse(d, {}).seasons
<1>1. seasons \subseteq Nat
  <2>1. d.number \in Nat => d.number \div 100 \in Nat
    BY SMT
  <2>2. \A n : n = None \/ n \in Nat => Standalone(n, {}).seasons \subseteq {n \div 100}
    BY SMT DEF Standalone
  <2>3. d.number = None => Standalone(d.number, {}).seasons = {}
    BY DEF Standalone
  <2> QED  BY <2>1, <2>2, <2>3, SelectionAssumption DEF Parse, Names
<1>2. Cardinality(seasons) = 1 => (CHOOSE s \in seasons : TRUE) \in seasons
  <2>1. Cardinality(seasons) = 1 => seasons # {}
    BY FS_EmptySet
  <2> QED  BY <2>1
<1> HIDE DEF seasons
<1>3. \A inherited : FolderSeason(d, inherited) =
        IF Cardinality(seasons) = 1 THEN CHOOSE s \in seasons : TRUE ELSE inherited
  BY DEF FolderSeason, Season, seasons
<1>4. CASE Cardinality(seasons) = 1
  BY <1>1, <1>2, <1>3, <1>4
<1>5. CASE Cardinality(seasons) # 1
  BY <1>3, <1>5
<1> QED  BY <1>4, <1>5

LEMMA FolderSeasonType ==
  ASSUME NEW d \in Names, NEW inherited \in Nat \union {None}
  PROVE  FolderSeason(d, inherited) \in Nat \union {None}
BY FolderSeasonSays

\* Read from the top, the season that holds changes folder by folder.
LEMMA SeasonAtTop ==
  ASSUME NEW f, NEW top
  PROVE  SeasonAt(f, 0, top) = top
<1> DEFINE naming == {i \in 1..0 : FolderSeason(f.path[i], None) # None}
<1>1. naming = {}
  OBVIOUS
<1> QED  BY <1>1 DEF SeasonAt

LEMMA SeasonAtNext ==
  ASSUME NEW f, NEW top, f.path \in Seq(Folders), NEW n \in 1..Len(f.path)
  PROVE  SeasonAt(f, n, top) = FolderSeason(f.path[n], SeasonAt(f, n - 1, top))
<1> DEFINE Naming(m) == {i \in 1..m : FolderSeason(f.path[i], None) # None}
           last(N) == CHOOSE i \in N : \A j \in N : j <= i
<1>1. /\ n \in Nat \ {0} /\ f.path[n] \in Folders
      /\ \A m : SeasonAt(f, m, top) =
                  IF Naming(m) = {} THEN top ELSE FolderSeason(f.path[last(Naming(m))], None)
  BY DEF SeasonAt
<1>2. CASE FolderSeason(f.path[n], None) # None
  <2>1. n \in Naming(n) /\ \A j \in Naming(n) : j <= n
    BY <1>1, <1>2
  <2>2. \A i \in Naming(n) : (\A j \in Naming(n) : j <= i) => i = n
    <3> SUFFICES ASSUME NEW i \in Naming(n), \A j \in Naming(n) : j <= i  PROVE i = n
      OBVIOUS
    <3>1. i \in 1..n
      OBVIOUS
    <3>2. n <= i
      BY <2>1
    <3> HIDE DEF Naming
    <3> QED  BY <1>1, <3>1, <3>2
  <2> HIDE DEF Naming
  <2>3. last(Naming(n)) = n
    BY <2>1, <2>2
  <2>4. SeasonAt(f, n, top) = FolderSeason(f.path[n], None)
    <3>1. Naming(n) # {}
      BY <2>1
    <3> QED  BY <1>1, <2>3, <3>1
  <2> QED  BY <1>1, <1>2, <2>4, FolderSeasonSays DEF Names
<1>3. CASE FolderSeason(f.path[n], None) = None
  <2>1. Naming(n) = Naming(n - 1)
    BY <1>1, <1>3
  <2>2. FolderSeason(f.path[n], SeasonAt(f, n - 1, top)) = SeasonAt(f, n - 1, top)
    <3>1. None \notin Nat
      BY DEF None
    <3> QED  BY <1>1, <1>3, <3>1, FolderSeasonSays DEF Names
  <2> QED  BY <1>1, <2>1, <2>2
<1> QED  BY <1>2, <1>3

-----------------------------------------------------------------------------
\* The definition of IsEpisode, place by place.
LEMMA WantedIsShown ==
  ASSUME NEW f
  PROVE  IsWanted(f) <=> ShownFrom(f, 0)
BY DEF IsWanted, IsEpisode, ShownFrom, OpenTo, Shows

LEMMA PathType ==
  ASSUME question \in Questions, NEW f \in question.files
  PROVE  f.path \in Seq(Folders) /\ Len(f.path) \in Nat
         /\ \A i \in 1..Len(f.path) : f.path[i] \in Folders
<1>1. f.path \in Seq(Folders)
  BY SelectionAssumption
<1> QED  BY <1>1

LEMMA TopSeasonType ==
  ASSUME question \in Questions
  PROVE  TopSeason \in Nat \union {None}
<1>1. question.torrent \in Names
  BY DEF Names
<1> QED  BY <1>1, FolderSeasonType DEF TopSeason, FolderSeason, TorrentName

\* A folder and one of its files: a folder that comes next on its path has it, too.
LEMMA ChildHolds ==
  ASSUME question \in Questions, NEW folder \in Seq(Folders), NEW f \in AllFilesIn(folder),
         Len(f.path) # Len(folder)
  PROVE  LET child == Append(folder, f.path[Len(folder) + 1])
         IN /\ child \in Seq(Folders) /\ Len(child) = Len(folder) + 1
            /\ f \in AllFilesIn(child)
            /\ AllFilesIn(child) \subseteq AllFilesIn(folder)
<1> DEFINE k == Len(folder)
           child == Append(folder, f.path[k + 1])
<1>1. f \in question.files /\ k \in Nat /\ k < Len(f.path) /\ Len(f.path) \in Nat
  BY PathType DEF AllFilesIn
<1>2. f.path[k + 1] \in Folders
  BY <1>1, PathType
<1>3. /\ child \in Seq(Folders) /\ Len(child) = k + 1
      /\ \A i \in 1..k : child[i] = folder[i]
      /\ child[k + 1] = f.path[k + 1]
  BY <1>1, <1>2
<1>4. f \in AllFilesIn(child)
  <2>1. \A i \in 1..(k + 1) : i = k + 1 \/ i \in 1..k
    BY <1>1
  <2> QED  BY <1>1, <1>3, <2>1 DEF AllFilesIn
<1>5. ASSUME NEW g \in AllFilesIn(child)  PROVE g \in AllFilesIn(folder)
  <2>1. g \in question.files /\ Len(g.path) \in Nat /\ k + 1 <= Len(g.path)
        /\ \A i \in 1..(k + 1) : g.path[i] = child[i]
    BY <1>3, <1>5, PathType DEF AllFilesIn
  <2> QED  BY <1>1, <1>3, <2>1 DEF AllFilesIn
<1> QED  BY <1>3, <1>4, <1>5

-----------------------------------------------------------------------------
\* Looking into a folder keeps the walk right, when the folder is open, not the episode itself,
\* and what is to be found is in it or in the other folders.
LEMMA LookIntoKeeps ==
  ASSUME question \in Questions, question' = question,
         NEW folder \in Seq(Folders), NEW season \in Nat \union {None},
         NEW others \in SUBSET [folder : Seq(Folders), inherited : Nat \union {None}],
         walk.matches \subseteq {f \in question.files : IsWanted(f)},
         \A visit \in others : VisitRight(visit),
         \A f \in AllFilesIn(folder) :
            OpenTo(f, Len(folder)) /\ season = SeasonAt(f, Len(folder), TopSeason),
         Len(folder) > 0 =>
            ~WholeFolder(folder[Len(folder)], season, question.wanted),
         \A f \in question.files : IsWanted(f) =>
            \/ f \in walk.matches \/ ToBeFound(f, others)
            \/ f \in AllFilesIn(folder) /\ ShownFrom(f, Len(folder)),
         LookInto(folder, season, others)
  PROVE  /\ walk' \in [pending : SUBSET [folder : Seq(Folders), inherited : Nat \union {None}],
                       matches : SUBSET question.files]
         /\ WalkRight'
<1> DEFINE k == Len(folder)
           here == {f \in AllFilesIn(folder) : Len(f.path) = k}
           below == AllFilesIn(folder) \ here
           Child(f) == [folder |-> Append(folder, f.path[k + 1]), inherited |-> season]
           children == {Child(f) : f \in below}
           found == {f \in here : FileMatches(f, season, question.wanted)}
<1>1. walk' = [pending |-> others \union children, matches |-> walk.matches \union found]
  BY DEF LookInto
<1>2. k \in Nat /\ AllFilesIn(folder) \subseteq question.files
  BY DEF AllFilesIn
<1>3. ASSUME NEW f \in below
      PROVE  /\ Child(f) \in [folder : Seq(Folders), inherited : Nat \union {None}]
             /\ VisitRight(Child(f))
             /\ f \in AllFilesIn(Child(f).folder)
             /\ Len(Child(f).folder) = k + 1
  <2> DEFINE child == Append(folder, f.path[k + 1])
  <2>1. /\ child \in Seq(Folders) /\ Len(child) = k + 1
        /\ f \in AllFilesIn(child) /\ AllFilesIn(child) \subseteq AllFilesIn(folder)
    BY <1>2, <1>3, ChildHolds
  <2>2. Child(f).folder = child /\ Child(f).inherited = season
    OBVIOUS
  <2> HIDE DEF child
  <2>3. \A g \in AllFilesIn(child) :
          OpenTo(g, k) /\ season = SeasonAt(g, k, TopSeason)
    BY <2>1
  <2>4. VisitRight(Child(f))
    <3> DEFINE visit == Child(f)
    <3>1. visit.folder = child /\ visit.inherited = season
      BY <2>2
    <3> HIDE DEF visit
    <3>2. Len(visit.folder) - 1 = k /\ Len(visit.folder) > 0
      BY <1>2, <2>1, <3>1
    <3>3. VisitRight(visit)
      BY <2>1, <2>3, <3>1, <3>2 DEF VisitRight
    <3> QED  BY <3>3 DEF visit
  <2> QED  BY <2>1, <2>2, <2>4 DEF child
<1>4. ASSUME NEW f \in found  PROVE f \in question.files /\ IsWanted(f)
  <2>1. Shows(f, k) /\ OpenTo(f, k) /\ Len(f.path) = k
    BY <1>4 DEF Shows
  <2>2. ShownFrom(f, 0)
    BY <1>2, <2>1 DEF ShownFrom
  <2> QED  BY <1>2, <2>2, WantedIsShown
<1>5. ASSUME NEW f \in question.files, IsWanted(f)
      PROVE  \/ f \in walk.matches \union found
             \/ ToBeFound(f, others \union children)
  <2>1. CASE f \in walk.matches
    BY <2>1
  <2>2. CASE ToBeFound(f, others)
    BY <2>2 DEF ToBeFound
  <2>3. CASE f \in AllFilesIn(folder) /\ ShownFrom(f, k)
    <3>1. PICK m \in k..Len(f.path) : OpenTo(f, m) /\ Shows(f, m)
      BY <2>3 DEF ShownFrom
    <3>2. season = SeasonAt(f, k, TopSeason)
          /\ (k > 0 => f.path[k] = folder[k])
      BY <1>2, <2>3 DEF AllFilesIn
    <3>3. Len(f.path) \in Nat
      BY PathType
    <3>4. CASE m = k
      <4>1. k = Len(f.path) /\ FileMatches(f, season, question.wanted)
        BY <3>1, <3>2, <3>4 DEF Shows
      <4>2. f \in found
        BY <2>3, <4>1
      <4> QED  BY <4>2
    <3>5. CASE m # k
      <4>1. k < Len(f.path) /\ m \in (k + 1)..Len(f.path)
        BY <1>2, <3>3, <3>5
      <4>2. f \in below
        BY <2>3, <1>2, <3>3, <4>1
      <4>3. ShownFrom(f, k + 1)
        BY <3>1, <4>1 DEF ShownFrom
      <4>4. Child(f) \in children
        BY <4>2
      <4> HIDE DEF children, Child
      <4> QED  BY <1>3, <4>2, <4>3, <4>4 DEF ToBeFound
    <3> QED  BY <3>4, <3>5
  <2> QED  BY <1>5, <2>1, <2>2, <2>3
<1> HIDE DEF children, found, below, Child
<1>6. children \subseteq [folder : Seq(Folders), inherited : Nat \union {None}]
      /\ \A visit \in children : VisitRight(visit)
  BY <1>3 DEF children
<1>7. walk'.pending = others \union children /\ walk'.matches = walk.matches \union found
  BY <1>1
<1>8. /\ walk'.matches \subseteq {f \in question.files : IsWanted(f)}
      /\ \A visit \in walk'.pending : VisitRight(visit)
      /\ \A f \in question.files : IsWanted(f) => f \in walk'.matches \/ ToBeFound(f, walk'.pending)
  BY <1>4, <1>5, <1>6, <1>7
<1>9. WalkRight'
  BY <1>8 DEF WalkRight, VisitRight, ToBeFound, ShownFrom, OpenTo, Shows, IsWanted, AllFilesIn,
              TopSeason, TorrentName
<1>10. walk' \in [pending : SUBSET [folder : Seq(Folders), inherited : Nat \union {None}],
                  matches : SUBSET question.files]
  <2>1. walk.matches \union found \subseteq question.files
    BY <1>4
  <2> QED  BY <1>1, <1>6, <2>1
<1> QED  BY <1>9, <1>10

-----------------------------------------------------------------------------
LEMMA AnswerByNameKeeps == SelectionIInv /\ AnswerByName => SelectionIInv'
<1> SUFFICES ASSUME SelectionIInv, AnswerByName  PROVE SelectionIInv'
  OBVIOUS
<1>1. question' = question /\ walk' = walk
  BY DEF AnswerByName
<1>2. PICK files \in SUBSET question.files :
        /\ answer' = [status |-> "given", found |-> files]
        /\ IsFilm \/ OtherSeason \/ OneEpisode
  BY DEF AnswerByName, Give, Largest
<1>3. FileOfEpisode'
  BY <1>1, <1>2 DEF FileOfEpisode, IsFilm, OtherSeason, OneEpisode, TorrentName
<1> QED  BY <1>1, <1>2, <1>3 DEF SelectionIInv

LEMMA BuildTreeKeeps == SelectionIInv /\ BuildTree => SelectionIInv'
<1> SUFFICES ASSUME SelectionIInv, BuildTree  PROVE SelectionIInv'
  OBVIOUS
<1> DEFINE season == Season(TorrentName, None)
           root == << >>
<1>1. /\ question' = question /\ question \in Questions
      /\ walk \in [pending : SUBSET [folder : Seq(Folders), inherited : Nat \union {None}],
                   matches : SUBSET question.files]
      /\ answer \in [status : {"asked", "walking", "given"}, found : SUBSET question.files]
      /\ answer' = [answer EXCEPT !.status = "walking"]
      /\ LookInto(root, season, {})
  BY DEF BuildTree, SelectionIInv
<1>2. season \in Nat \union {None}
  BY <1>1, TopSeasonType DEF TopSeason
<1>3. FileOfEpisode'
  BY <1>1 DEF FileOfEpisode
<1>4. /\ walk' \in [pending : SUBSET [folder : Seq(Folders), inherited : Nat \union {None}],
                    matches : SUBSET question.files]
      /\ WalkRight'
  <2>1. /\ root \in Seq(Folders) /\ Len(root) = 0 /\ ~(Len(root) > 0)
        /\ \A f \in question.files : f \in AllFilesIn(root)
    <3>1. \A f \in question.files : Len(f.path) \in Nat
      BY <1>1, PathType
    <3> QED  BY <3>1 DEF AllFilesIn
  <2>2. walk.matches = {}
    BY DEF SelectionIInv, BuildTree
  <2>3. \A f \in AllFilesIn(root) : OpenTo(f, 0) /\ season = SeasonAt(f, 0, TopSeason)
    BY SeasonAtTop DEF OpenTo, TopSeason
  <2>4. \A f \in question.files : IsWanted(f) => f \in AllFilesIn(root) /\ ShownFrom(f, 0)
    BY <2>1, WantedIsShown
  <2> HIDE DEF root, season
  <2> QED  BY <1>1, <1>2, <2>1, <2>2, <2>3, <2>4, LookIntoKeeps
<1> QED  BY <1>1, <1>3, <1>4 DEF SelectionIInv

LEMMA TraverseKeeps ==
  ASSUME SelectionIInv, NEW visit \in walk.pending, Traverse(visit)
  PROVE  SelectionIInv'
<1> DEFINE k == Len(visit.folder)
           name == visit.folder[k]
           season == FolderSeason(name, visit.inherited)
           others == walk.pending \ {visit}
           wanted == question.wanted
<1>1. /\ question' = question /\ question \in Questions
      /\ answer' = answer /\ answer.status = "walking"
      /\ answer \in [status : {"asked", "walking", "given"}, found : SUBSET question.files]
      /\ WalkRight
      /\ walk \in [pending : SUBSET [folder : Seq(Folders), inherited : Nat \union {None}],
                   matches : SUBSET question.files]
  BY DEF Traverse, SelectionIInv
<1>2. /\ visit.folder \in Seq(Folders) /\ k \in Nat /\ k > 0 /\ name \in Folders
      /\ visit.inherited \in Nat \union {None}
  BY <1>1 DEF WalkRight, VisitRight
<1>3. season \in Nat \union {None}
  BY <1>2, FolderSeasonType DEF Names
<1>4. ASSUME NEW f \in AllFilesIn(visit.folder)
      PROVE  /\ OpenTo(f, k - 1)
             /\ f \in question.files /\ k <= Len(f.path) /\ f.path[k] = name
             /\ season = SeasonAt(f, k, TopSeason)
  <2>1. /\ OpenTo(f, k - 1) /\ visit.inherited = SeasonAt(f, k - 1, TopSeason)
    BY <1>1 DEF WalkRight, VisitRight
  <2>2. f \in question.files /\ k <= Len(f.path) /\ f.path[k] = name
    BY <1>2 DEF AllFilesIn
  <2>3. k \in 1..Len(f.path) /\ f.path \in Seq(Folders)
    BY <1>1, <1>2, <2>2, PathType
  <2> QED  BY <2>1, <2>2, <2>3, SeasonAtNext
<1>5. /\ others \in SUBSET [folder : Seq(Folders), inherited : Nat \union {None}]
      /\ \A v \in others : VisitRight(v)
      /\ walk.matches \subseteq {f \in question.files : IsWanted(f)}
  BY <1>1 DEF WalkRight
<1>6. \A f \in question.files : IsWanted(f) =>
        \/ f \in walk.matches \/ ToBeFound(f, others)
        \/ f \in AllFilesIn(visit.folder) /\ ShownFrom(f, k)
  BY <1>1 DEF WalkRight, ToBeFound
<1>7. FileOfEpisode'
  BY <1>1 DEF FileOfEpisode
<1>8. SUFFICES /\ walk' \in [pending : SUBSET [folder : Seq(Folders), inherited : Nat \union {None}],
                             matches : SUBSET question.files]
               /\ WalkRight'
  BY <1>1, <1>7 DEF SelectionIInv
<1> HIDE DEF season, name, others
<1>9. CASE Pruned(season, wanted) /\ walk' = [walk EXCEPT !.pending = others]
  <2>1. ASSUME NEW f \in AllFilesIn(visit.folder)  PROVE ~ShownFrom(f, k)
    <3>1. SeasonAt(f, k, TopSeason) \notin {None, wanted.season}
      BY <1>4, <1>9 DEF Pruned
    <3>2. \A m \in k..Len(f.path) : ~OpenTo(f, m)
      BY <1>2, <3>1 DEF OpenTo
    <3> QED  BY <3>2 DEF ShownFrom
  <2>2. walk'.pending = others /\ walk'.matches = walk.matches
        /\ walk' \in [pending : SUBSET [folder : Seq(Folders), inherited : Nat \union {None}],
                      matches : SUBSET question.files]
    BY <1>1, <1>5, <1>9
  <2>3. /\ walk'.matches \subseteq {f \in question.files : IsWanted(f)}
        /\ \A v \in walk'.pending : VisitRight(v)
        /\ \A f \in question.files :
             IsWanted(f) => f \in walk'.matches \/ ToBeFound(f, walk'.pending)
    BY <1>5, <1>6, <2>1, <2>2
  <2>4. WalkRight'
    BY <1>1, <2>3 DEF WalkRight, VisitRight, ToBeFound, ShownFrom, OpenTo, Shows, IsWanted,
                      AllFilesIn, TopSeason, TorrentName
  <2> QED  BY <2>2, <2>4
<1>10. ASSUME ~Pruned(season, wanted), NEW f \in AllFilesIn(visit.folder)
       PROVE  OpenTo(f, k)
  <2>1. SeasonAt(f, k, TopSeason) \in {None, wanted.season}
    BY <1>4, <1>10 DEF Pruned
  <2>2. \A i \in 1..k : i = k \/ i \in 1..(k - 1)
    BY <1>2
  <2> QED  BY <1>4, <1>10, <2>1, <2>2 DEF OpenTo
<1>11. CASE /\ ~Pruned(season, wanted) /\ WholeFolder(name, season, wanted)
            /\ walk' = [pending |-> others,
                        matches |-> walk.matches \union AllFilesIn(visit.folder)]
  <2>1. ASSUME NEW f \in AllFilesIn(visit.folder)  PROVE f \in question.files /\ IsWanted(f)
    <3>1. OpenTo(f, k) /\ Shows(f, k)
      BY <1>2, <1>4, <1>10, <1>11 DEF Shows
    <3>2. k \in 0..Len(f.path)
      BY <1>1, <1>2, <1>4, PathType
    <3>3. ShownFrom(f, 0)
      BY <3>1, <3>2 DEF ShownFrom
    <3> QED  BY <1>4, <3>3, WantedIsShown
  <2>2. walk'.pending = others /\ walk'.matches = walk.matches \union AllFilesIn(visit.folder)
    BY <1>11
  <2>3. walk' \in [pending : SUBSET [folder : Seq(Folders), inherited : Nat \union {None}],
                   matches : SUBSET question.files]
    BY <1>1, <1>5, <1>11, <2>1
  <2>4. /\ walk'.matches \subseteq {f \in question.files : IsWanted(f)}
        /\ \A v \in walk'.pending : VisitRight(v)
        /\ \A f \in question.files :
             IsWanted(f) => f \in walk'.matches \/ ToBeFound(f, walk'.pending)
    BY <1>5, <1>6, <2>1, <2>2
  <2>5. WalkRight'
    BY <1>1, <2>4 DEF WalkRight, VisitRight, ToBeFound, ShownFrom, OpenTo, Shows, IsWanted,
                      AllFilesIn, TopSeason, TorrentName
  <2> QED  BY <2>3, <2>5
<1>12. CASE /\ ~Pruned(season, wanted) /\ ~WholeFolder(name, season, wanted)
            /\ LookInto(visit.folder, season, others)
  <2>1. ~WholeFolder(visit.folder[Len(visit.folder)], season, wanted)
    BY <1>12 DEF name
  <2>2. \A f \in AllFilesIn(visit.folder) :
          OpenTo(f, Len(visit.folder)) /\ season = SeasonAt(f, Len(visit.folder), TopSeason)
    BY <1>4, <1>10, <1>12
  <2> QED  BY <1>1, <1>2, <1>3, <1>5, <1>6, <1>12, <2>1, <2>2, LookIntoKeeps
<1> QED  BY <1>9, <1>11, <1>12 DEF Traverse, name, season, others

LEMMA EndWalkKeeps == SelectionIInv /\ EndWalk => SelectionIInv'
<1> SUFFICES ASSUME SelectionIInv, EndWalk  PROVE SelectionIInv'
  OBVIOUS
<1>1. /\ question' = question /\ walk' = walk
      /\ answer' = [status |-> "given", found |-> Largest(walk.matches)]
      /\ walk.matches \subseteq question.files
      /\ WalkRight /\ walk.pending = {}
  BY DEF EndWalk, Give, SelectionIInv
<1>2. walk.matches = {f \in question.files : IsWanted(f)}
  BY <1>1 DEF WalkRight, ToBeFound
<1>3. FileOfEpisode'
  BY <1>1, <1>2 DEF FileOfEpisode, IsWanted, TopSeason, TorrentName
<1>4. Largest(walk.matches) \subseteq question.files
  BY <1>1 DEF Largest
<1> QED  BY <1>1, <1>3, <1>4 DEF SelectionIInv

\* The inductive invariant of the walk holds in every reachable state.
THEOREM SelectionInvariance == SelectionSpec => []SelectionIInv
<1>1. SelectionInit => SelectionIInv
  BY DEF SelectionInit, SelectionIInv, FileOfEpisode
<1>2. SelectionIInv /\ [SelectionNext]_selectionVars => SelectionIInv'
  <2> SUFFICES ASSUME SelectionIInv, [SelectionNext]_selectionVars  PROVE SelectionIInv'
    OBVIOUS
  <2>1. CASE AnswerByName
    BY <2>1, AnswerByNameKeeps
  <2>2. CASE BuildTree
    BY <2>2, BuildTreeKeeps
  <2>3. CASE EndWalk
    BY <2>3, EndWalkKeeps
  <2>4. CASE \E visit \in walk.pending : Traverse(visit)
    BY <2>4, TraverseKeeps
  <2>5. CASE UNCHANGED selectionVars
    BY <2>5 DEF selectionVars, SelectionIInv, WalkRight, VisitRight, ToBeFound, ShownFrom, OpenTo,
                Shows, IsWanted, AllFilesIn, TopSeason, FileOfEpisode, IsFilm, OtherSeason,
                OneEpisode, TorrentName
  <2> QED  BY <2>1, <2>2, <2>3, <2>4, <2>5 DEF SelectionNext
<1> QED  BY <1>1, <1>2, PTL DEF SelectionSpec

\* The walk finds the files of an episode and no other, whatever the folders, their depth and the
\* names on the way, and answers the largest of them (stream_file_resolver.py:76-181).
THEOREM FileOfEpisodeHolds == SelectionSpec => []FileOfEpisode
<1>1. SelectionIInv => FileOfEpisode
  BY DEF SelectionIInv
<1> QED  BY <1>1, SelectionInvariance, PTL
===============================================================================
