---------------------------- MODULE SingleFlight ----------------------------
(***************************************************************************)
(* What sharing one piece of work between concurrent callers promises:     *)
(* for each key at most one flight is under way, everybody who asked for   *)
(* the key while it was under way gets the outcome of that same flight,    *)
(* and a caller that gives up changes nothing for the others.              *)
(***************************************************************************)
CONSTANTS Clients, Keys, Outcomes, NoKey, NoOutcome

VARIABLES
    flights,    \* the keys with work under way
    waitsFor,   \* per client: the key it waits for
    answer      \* per client: the outcome it was given and has not used yet

vars == <<flights, waitsFor, answer>>

Init ==
    /\ flights = {}
    /\ waitsFor = [c \in Clients |-> NoKey]
    /\ answer = [c \in Clients |-> NoOutcome]

\* A client asks for a key: it joins the flight, or starts one.
Join(c, k) ==
    /\ waitsFor[c] = NoKey /\ answer[c] = NoOutcome
    /\ flights' = flights \union {k}
    /\ waitsFor' = [waitsFor EXCEPT ![c] = k]
    /\ UNCHANGED answer

\* A flight ends, for all its waiters at once.
Land(k, o) ==
    /\ k \in flights
    /\ flights' = flights \ {k}
    /\ waitsFor' = [c \in Clients |-> IF waitsFor[c] = k THEN NoKey ELSE waitsFor[c]]
    /\ answer' = [c \in Clients |-> IF waitsFor[c] = k THEN o ELSE answer[c]]

\* A client uses its answer, or gives up waiting.
Leave(c) ==
    /\ waitsFor[c] # NoKey \/ answer[c] # NoOutcome
    /\ waitsFor' = [waitsFor EXCEPT ![c] = NoKey]
    /\ answer' = [answer EXCEPT ![c] = NoOutcome]
    /\ UNCHANGED flights

Next ==
    \/ \E c \in Clients, k \in Keys : Join(c, k)
    \/ \E k \in Keys, o \in Outcomes : Land(k, o)
    \/ \E c \in Clients : Leave(c)

Spec == Init /\ [][Next]_vars
=============================================================================
