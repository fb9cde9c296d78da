-------------------------- MODULE MCTorrentLifecycle --------------------------
(* Two indexers offer the same torrent, and one of them another.             *)
EXTENDS TorrentLifecycle, TLC

CONSTANTS x1, x2, h1, h2

MCItems == {<<x1, h1>>, <<x2, h1>>, <<x1, h2>>}

MCSymmetry == Permutations(Clients) \union Permutations(Deleters)
=============================================================================
