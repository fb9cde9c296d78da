----------------------------- MODULE KeyedMutex -----------------------------
(***************************************************************************)
(* What a per-key lock promises its users: a body that runs under a key    *)
(* runs alone under that key, whatever happens to the tasks that queue for *)
(* it.  Who is served next, and the bookkeeping behind it, is left open.   *)
(***************************************************************************)
CONSTANTS Tasks, Keys

VARIABLE bodies     \* the pairs <<task, key>> whose body is running

Init == bodies = {}

\* A body starts under a key only when none runs under it, and a task runs
\* one body at a time.
Start(t, k) ==
    /\ \A b \in bodies : b[1] # t /\ b[2] # k
    /\ bodies' = bodies \union {<<t, k>>}

Stop(t, k) ==
    /\ <<t, k>> \in bodies
    /\ bodies' = bodies \ {<<t, k>>}

Next == \E t \in Tasks, k \in Keys : Start(t, k) \/ Stop(t, k)

Spec == Init /\ [][Next]_bodies
=============================================================================
