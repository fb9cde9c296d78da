-------------------------- MODULE MCStreamPriority --------------------------
(* A file of three pieces, one or two streams that come and go, and one      *)
(* change of the settings.                                                  *)
EXTENDS StreamPriority, TLC

\* Streams are interchangeable (for the runs without liveness).
StreamSymmetry == Permutations(Streams)
=============================================================================
