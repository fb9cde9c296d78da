----------------------------- MODULE MCRangeStream -----------------------------
(* Every file at every place of torrents of up to MaxTorrentSize bytes in pieces  *)
(* of up to MaxPieceSize, and every header with numbers around its size.          *)
EXTENDS RangeStream

CONSTANTS MaxPieceSize, MaxTorrentSize

MCFiles ==
    {f \in [offset : 0..MaxTorrentSize, size : 0..MaxTorrentSize,
            pieceSize : 1..MaxPieceSize, torrentSize : 0..MaxTorrentSize] :
        f.offset + f.size <= f.torrentSize}

MCHeaders ==
    {h \in [kind : HeaderKinds, first : 0..MaxTorrentSize + 1, last : -1..MaxTorrentSize + 1] :
        /\ h.kind \notin {"from_to", "from"} => h.first = 0
        /\ h.kind \notin {"from_to", "suffix"} => h.last = 0}
=============================================================================
