----------------------------- MODULE MCKeyedLock -----------------------------
(* Three tasks compete for two keys; with one lock identity per task a new   *)
(* object can always be made.                                               *)
EXTENDS KeyedLock
=============================================================================
