------------------------------ MODULE KeyedLock ------------------------------
(***************************************************************************)
(* common/keyed_lock.py: one asyncio.Lock per key, created by the first    *)
(* task that asks for the key and dropped from the dictionary when the     *)
(* last user has gone.  The stream service serialises the preparation of a *)
(* torrent and the recording of a playback with it, the torrent source     *)
(* provider the saving of a torrent file.                                  *)
(*                                                                         *)
(* A lock object has an identity: a key whose lock was dropped too early   *)
(* gets a second object, and the users of the two no longer exclude each   *)
(* other.  An identity is reused only when nothing refers to the object.   *)
(* The code between two awaits is one action.                              *)
(***************************************************************************)
EXTENDS Naturals, Sequences, FiniteSets, SequencesExt

CONSTANTS
    Tasks,      \* coroutines
    Keys,       \* the keys they ask for
    LockObjs,   \* identities of asyncio.Lock objects
    NoLock,     \* "the key is not in the dictionary"
    NoKey       \* "the task uses no key"

ASSUME ConstantsOK ==
    /\ IsFiniteSet(Tasks)
    /\ NoLock \notin LockObjs
    /\ NoKey \notin Keys

VARIABLES
    locks,      \* KeyedLock._locks
    refCounts,  \* KeyedLock._ref_counts, 0 for a key that is absent
    locked,     \* per lock object: Lock._locked
    waiters,    \* per lock object: Lock._waiters
    pc,         \* per task: "idle", "waiting" (for the lock), "inside" (the body)
    key,        \* per task: the key it uses
    obj         \* per task: the lock object it entered with

vars == <<locks, refCounts, locked, waiters, pc, key, obj>>

Init ==
    /\ locks = [k \in Keys |-> NoLock]
    /\ refCounts = [k \in Keys |-> 0]
    /\ locked = [l \in LockObjs |-> FALSE]
    /\ waiters = [l \in LockObjs |-> <<>>]
    /\ pc = [t \in Tasks |-> "idle"]
    /\ key = [t \in Tasks |-> NoKey]
    /\ obj = [t \in Tasks |-> NoLock]

----------------------------------------------------------------------------
(* asyncio.Lock, as far as the code relies on it. *)

Unreferenced(l) ==
    /\ \A k \in Keys : locks[k] # l
    /\ \A t \in Tasks : obj[t] # l

\* The lock object a task that asks for k uses: the one in the dictionary,
\* or a new one.
ObjectFor(k) ==
    IF locks[k] = NoLock THEN {l \in LockObjs : Unreferenced(l)} ELSE {locks[k]}

\* Lock.acquire suspends when the lock is held or somebody queues for it.
\* A new object is neither.
Busy(k, l) == locks[k] # NoLock /\ (locked[l] \/ waiters[l] # <<>>)

----------------------------------------------------------------------------
(* KeyedLock.__call__ *)

\* Mutants of Unref.
UnrefDropsAtOnce(k) ==          \* the count is kept but not consulted
    /\ refCounts' = [refCounts EXCEPT ![k] = @ - 1]
    /\ locks' = [locks EXCEPT ![k] = NoLock]
UnrefNeverDrops(k) ==           \* the dictionary is never cleaned
    /\ refCounts' = [refCounts EXCEPT ![k] = @ - 1]
    /\ UNCHANGED locks

\* The finally block: the last user removes the key.
Unref(k) ==
    /\ refCounts' = [refCounts EXCEPT ![k] = @ - 1]
    /\ locks' = IF refCounts[k] = 1 THEN [locks EXCEPT ![k] = NoLock] ELSE locks

\* Up to the first suspension: look the lock up or create it with a count of
\* its own, count ourselves, and take the lock if it is free.
Enter(t, k) ==
    /\ pc[t] = "idle"
    /\ \E l \in ObjectFor(k) :
        /\ locks' = [locks EXCEPT ![k] = l]
        /\ refCounts' = [refCounts EXCEPT ![k] = IF locks[k] = NoLock THEN 1 ELSE @ + 1]
        /\ key' = [key EXCEPT ![t] = k]
        /\ obj' = [obj EXCEPT ![t] = l]
        /\ \/ /\ Busy(k, l)
              /\ pc' = [pc EXCEPT ![t] = "waiting"]
              /\ waiters' = [waiters EXCEPT ![l] = Append(@, t)]
              /\ UNCHANGED locked
           \/ /\ ~Busy(k, l)
              /\ pc' = [pc EXCEPT ![t] = "inside"]
              /\ locked' = [locked EXCEPT ![l] = TRUE]
              /\ waiters' = [waiters EXCEPT ![l] = <<>>]

\* The first waiter of a released lock runs again and takes it.
Resume(t) ==
    /\ pc[t] = "waiting"
    /\ ~locked[obj[t]]
    /\ waiters[obj[t]] # <<>> /\ Head(waiters[obj[t]]) = t
    /\ pc' = [pc EXCEPT ![t] = "inside"]
    /\ locked' = [locked EXCEPT ![obj[t]] = TRUE]
    /\ waiters' = [waiters EXCEPT ![obj[t]] = Tail(@)]
    /\ UNCHANGED <<locks, refCounts, key, obj>>

\* A waiter is cancelled (its client has gone): it leaves the queue and
\* runs the finally block without ever having held the lock.
Cancel(t) ==
    /\ pc[t] = "waiting"
    /\ \E i \in DOMAIN waiters[obj[t]] :
        /\ waiters[obj[t]][i] = t
        /\ waiters' = [waiters EXCEPT ![obj[t]] = RemoveAt(@, i)]
    /\ Unref(key[t])
    /\ pc' = [pc EXCEPT ![t] = "idle"]
    /\ key' = [key EXCEPT ![t] = NoKey]
    /\ obj' = [obj EXCEPT ![t] = NoLock]
    /\ UNCHANGED locked

\* Mutant of Leave: a body that ends without releasing its lock.
LeaveLocked(t) ==
    /\ pc[t] = "inside"
    /\ Unref(key[t])
    /\ pc' = [pc EXCEPT ![t] = "idle"]
    /\ key' = [key EXCEPT ![t] = NoKey]
    /\ obj' = [obj EXCEPT ![t] = NoLock]
    /\ UNCHANGED <<locked, waiters>>

\* The body ends (normally, by an exception or cancelled): the lock is
\* released and the finally block runs, with no suspension in between.
Leave(t) ==
    /\ pc[t] = "inside"
    /\ locked' = [locked EXCEPT ![obj[t]] = FALSE]
    /\ Unref(key[t])
    /\ pc' = [pc EXCEPT ![t] = "idle"]
    /\ key' = [key EXCEPT ![t] = NoKey]
    /\ obj' = [obj EXCEPT ![t] = NoLock]
    /\ UNCHANGED waiters

Next ==
    \E t \in Tasks :
        \/ \E k \in Keys : Enter(t, k)
        \/ Resume(t)
        \/ Cancel(t)
        \/ Leave(t)

\* The event loop runs whatever is ready, and a body ends; nothing obliges a
\* task to ask for a lock or to be cancelled.
Fairness == \A t \in Tasks : WF_vars(Resume(t)) /\ WF_vars(Leave(t))

Spec == Init /\ [][Next]_vars

FairSpec == Spec /\ Fairness

----------------------------------------------------------------------------
Users(k) == {t \in Tasks : key[t] = k}

TypeOK ==
    /\ locks \in [Keys -> LockObjs \union {NoLock}]
    /\ refCounts \in [Keys -> Nat]
    /\ locked \in [LockObjs -> BOOLEAN]
    /\ waiters \in [LockObjs -> Seq(Tasks)]
    /\ pc \in [Tasks -> {"idle", "waiting", "inside"}]
    /\ key \in [Tasks -> Keys \union {NoKey}]
    /\ obj \in [Tasks -> LockObjs \union {NoLock}]

\* No two tasks run a body under the same key, though the lock objects come
\* and go and waiters are cancelled at any time.
MutualExclusion ==
    \A t, u \in Tasks :
        pc[t] = "inside" /\ pc[u] = "inside" /\ key[t] = key[u] => t = u

\* The dictionary holds a lock for exactly the keys somebody uses: it does
\* not grow with every torrent ever streamed, and no lock in use is dropped.
DictionaryExact ==
    \A k \in Keys :
        /\ (locks[k] = NoLock) <=> (Users(k) = {})
        /\ refCounts[k] = Cardinality(Users(k))

\* A task that queues for a key is served, or cancelled.
WaiterServed ==
    \A t \in Tasks : pc[t] = "waiting" ~> pc[t] # "waiting"

\* The lock implements the abstract mutual exclusion per key.
Bodies == {<<t, key[t]>> : t \in {u \in Tasks : pc[u] = "inside"}}

Abstract == INSTANCE KeyedMutex WITH bodies <- Bodies

ImplementsMutex == Abstract!Spec
=============================================================================
