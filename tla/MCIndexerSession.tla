-------------------------- MODULE MCIndexerSession --------------------------
(* Two requests with a timeout and one without share one connection.         *)
EXTENDS IndexerSession
=============================================================================
