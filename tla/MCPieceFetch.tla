---------------------------- MODULE MCPieceFetch ----------------------------
(* Two streams of a torrent with one piece that is deleted and added again.  *)
EXTENDS PieceFetch
=============================================================================
