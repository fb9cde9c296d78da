-------------------------- MODULE KeyedLock_proofs --------------------------
(***************************************************************************)
(* Proofs about KeyedLock, for any number of tasks, keys and lock objects. *)
(*                                                                         *)
(* Mutual exclusion is not inductive: it needs that every user of a key    *)
(* entered with the object the dictionary holds now, which in turn needs   *)
(* that the reference count of a key is the number of its users, so that   *)
(* the object is dropped only when nobody is left.                         *)
(***************************************************************************)
EXTENDS KeyedLock, FiniteSetTheorems, SequenceTheorems, TLAPS

\* Inductive strengthening of MutualExclusion and DictionaryExact.
UsersIdle == \A t \in Tasks : (pc[t] = "idle") <=> (key[t] = NoKey)

UsersShareObject ==
    \A t \in Tasks : pc[t] # "idle" => locks[key[t]] # NoLock /\ obj[t] = locks[key[t]]

IdleHasNoObject == \A t \in Tasks : pc[t] = "idle" => obj[t] = NoLock

ObjectsDistinct ==
    \A k, m \in Keys : locks[k] # NoLock /\ locks[k] = locks[m] => k = m

HolderLocks ==
    /\ \A t \in Tasks : pc[t] = "inside" => locked[obj[t]]
    /\ \A t, u \in Tasks :
        pc[t] = "inside" /\ pc[u] = "inside" /\ obj[t] = obj[u] => t = u

CountsExact == \A k \in Keys : refCounts[k] = Cardinality(Users(k))

DroppedUnused == \A k \in Keys : (locks[k] = NoLock) <=> (refCounts[k] = 0)

IInv ==
    /\ TypeOK
    /\ UsersIdle
    /\ UsersShareObject
    /\ IdleHasNoObject
    /\ ObjectsDistinct
    /\ HolderLocks
    /\ CountsExact
    /\ DroppedUnused

-----------------------------------------------------------------------------
(* The users of a key, as tasks come and go. *)

LEMMA UsersFinite ==
    ASSUME NEW k \in Keys
    PROVE  IsFiniteSet(Users(k)) /\ Cardinality(Users(k)) \in Nat
BY ConstantsOK, FS_Subset, FS_CardinalityType DEF Users

LEMMA UsersEmpty ==
    ASSUME NEW k \in Keys
    PROVE  (Cardinality(Users(k)) = 0) <=> (Users(k) = {})
BY UsersFinite, FS_EmptySet

\* A task that had no key takes key k.
LEMMA UsersJoin ==
    ASSUME TypeOK, NEW t \in Tasks, NEW k \in Keys,
           key[t] = NoKey, key' = [key EXCEPT ![t] = k]
    PROVE  /\ Cardinality(Users(k)') = Cardinality(Users(k)) + 1
           /\ \A m \in Keys \ {k} : Users(m)' = Users(m)
<1>1. Users(k)' = Users(k) \union {t} /\ t \notin Users(k)
  BY ConstantsOK DEF Users, TypeOK
<1>2. Cardinality(Users(k) \union {t}) = Cardinality(Users(k)) + 1
  BY <1>1, UsersFinite, FS_AddElement
<1>3. \A m \in Keys \ {k} : Users(m)' = Users(m)
  BY ConstantsOK DEF Users, TypeOK
<1>. QED
  BY <1>1, <1>2, <1>3

\* A task that uses a key gives it up.
LEMMA UsersPart ==
    ASSUME TypeOK, NEW t \in Tasks, key[t] \in Keys,
           key' = [key EXCEPT ![t] = NoKey]
    PROVE  /\ Cardinality(Users(key[t])) \in Nat \ {0}
           /\ \A k \in Keys : k = key[t] =>
                Cardinality(Users(k)') = Cardinality(Users(k)) - 1
           /\ \A m \in Keys \ {key[t]} : Users(m)' = Users(m)
<1>1. ASSUME NEW k \in Keys, k = key[t]
      PROVE  Users(k)' = Users(k) \ {t} /\ t \in Users(k)
  BY <1>1, ConstantsOK DEF Users, TypeOK
<1>2. ASSUME NEW k \in Keys, k = key[t]
      PROVE  Cardinality(Users(k) \ {t}) = Cardinality(Users(k)) - 1
  BY <1>1, <1>2, UsersFinite, FS_RemoveElement
<1>3. \A m \in Keys \ {key[t]} : Users(m)' = Users(m)
  BY ConstantsOK DEF Users, TypeOK
<1>4. Cardinality(Users(key[t])) \in Nat \ {0}
  BY <1>1, UsersFinite, UsersEmpty
<1>. QED
  BY <1>1, <1>2, <1>3, <1>4

-----------------------------------------------------------------------------
(* Each action preserves the inductive invariant. *)

\* Initially no key is used and no lock exists.
LEMMA InitIInv == Init => IInv
<1>. SUFFICES ASSUME Init PROVE IInv
  OBVIOUS
<1>1. TypeOK
  BY DEF Init, TypeOK
<1>2. \A k \in Keys : Users(k) = {}
  BY ConstantsOK DEF Init, Users
<1>3. CountsExact
  BY <1>2, FS_EmptySet DEF CountsExact, Init
<1>. QED
  BY <1>1, <1>3 DEF IInv, Init, UsersIdle, UsersShareObject, IdleHasNoObject,
     ObjectsDistinct, HolderLocks, DroppedUnused

\* Entering with the object in the dictionary, or with one that nothing refers to.
LEMMA EnterStep ==
    ASSUME IInv, NEW t \in Tasks, NEW k \in Keys, Enter(t, k)
    PROVE  IInv'
<1>. USE DEF IInv
<1>1. PICK l \in ObjectFor(k) :
        /\ locks' = [locks EXCEPT ![k] = l]
        /\ refCounts' = [refCounts EXCEPT ![k] = IF locks[k] = NoLock THEN 1 ELSE @ + 1]
        /\ key' = [key EXCEPT ![t] = k]
        /\ obj' = [obj EXCEPT ![t] = l]
        /\ \/ /\ Busy(k, l)
              /\ pc' = [pc EXCEPT ![t] = "waiting"]
              /\ waiters' = [waiters EXCEPT ![l] = Append(@, t)]
              /\ UNCHANGED locked
           \/ /\ ~Busy(k, l)
              /\ pc' = [pc EXCEPT ![t] = "inside"]
              /\ locked' = [locked EXCEPT ![l] = TRUE]
              /\ waiters' = [waiters EXCEPT ![l] = <<>>]
  BY DEF Enter
<1>2. pc[t] = "idle" /\ key[t] = NoKey
  BY DEF Enter, UsersIdle
<1>3. /\ l \in LockObjs
      /\ locks[k] = NoLock => Unreferenced(l)
      /\ locks[k] # NoLock => l = locks[k]
  BY <1>1 DEF ObjectFor, TypeOK
<1>4. TypeOK'
  <2>1. waiters' \in [LockObjs -> Seq(Tasks)]
    <3>1. <<>> \in Seq(Tasks) /\ Append(waiters[l], t) \in Seq(Tasks)
      BY <1>3 DEF TypeOK
    <3>. QED
      BY <1>1, <3>1 DEF TypeOK
  <2>2. /\ locks' \in [Keys -> LockObjs \union {NoLock}]
        /\ refCounts' \in [Keys -> Nat]
    BY <1>1, <1>3 DEF TypeOK
  <2>3. locked' \in [LockObjs -> BOOLEAN]
    <3>1. locked' = locked \/ locked' = [locked EXCEPT ![l] = TRUE]
      BY <1>1
    <3>. QED
      BY <3>1, <1>3 DEF TypeOK
  <2>4. /\ pc' \in [Tasks -> {"idle", "waiting", "inside"}]
        /\ key' \in [Tasks -> Keys \union {NoKey}]
        /\ obj' \in [Tasks -> LockObjs \union {NoLock}]
    BY <1>1, <1>3 DEF TypeOK
  <2>. QED
    BY <2>1, <2>2, <2>3, <2>4 DEF TypeOK
<1>5. UsersIdle'
  BY <1>1, ConstantsOK DEF UsersIdle, TypeOK
<1>6. UsersShareObject'
  BY <1>1, <1>2, <1>3, ConstantsOK DEF UsersShareObject, UsersIdle, TypeOK
<1>7. IdleHasNoObject'
  BY <1>1 DEF IdleHasNoObject, TypeOK
<1>8. ObjectsDistinct'
  BY <1>1, <1>3, ConstantsOK DEF ObjectsDistinct, Unreferenced, TypeOK
<1>9. HolderLocks'
  <2>1. CASE pc' = [pc EXCEPT ![t] = "waiting"]
    BY <2>1, <1>1 DEF HolderLocks, TypeOK
  <2>2. CASE pc' = [pc EXCEPT ![t] = "inside"]
    <3>1. ~Busy(k, l) /\ locked' = [locked EXCEPT ![l] = TRUE]
      BY <2>2, <1>1, <1>2 DEF TypeOK
    <3>2. \A u \in Tasks : pc[u] = "inside" => obj[u] # l
      <4>. SUFFICES ASSUME NEW u \in Tasks, pc[u] = "inside", obj[u] = l PROVE FALSE
        OBVIOUS
      <4>1. locked[l]
        BY DEF HolderLocks
      <4>2. locks[k] # NoLock
        BY <1>3 DEF Unreferenced
      <4>. QED
        BY <4>1, <4>2, <3>1 DEF Busy
    <3>. QED
      BY <2>2, <3>1, <3>2, <1>1, <1>3 DEF HolderLocks, TypeOK
  <2>. QED
    BY <2>1, <2>2, <1>1
<1>10. CountsExact'
  <2>. SUFFICES ASSUME NEW m \in Keys PROVE refCounts'[m] = Cardinality(Users(m)')
    BY DEF CountsExact
  <2>1. CASE m = k
    <3>1. refCounts'[k] = refCounts[k] + 1
      BY <1>1 DEF DroppedUnused, TypeOK
    <3>. QED
      BY <2>1, <3>1, <1>1, <1>2, UsersJoin DEF CountsExact
  <2>2. CASE m # k
    BY <2>2, <1>1, <1>2, UsersJoin DEF CountsExact, TypeOK
  <2>. QED
    BY <2>1, <2>2
<1>11. DroppedUnused'
  BY <1>1, <1>3, ConstantsOK DEF DroppedUnused, TypeOK
<1>. QED
  BY <1>4, <1>5, <1>6, <1>7, <1>8, <1>9, <1>10, <1>11

\* A waiter that runs again finds its lock free: nobody is inside with it.
LEMMA ResumeStep ==
    ASSUME IInv, NEW t \in Tasks, Resume(t)
    PROVE  IInv'
<1>. USE DEF IInv, Resume
<1>1. obj[t] \in LockObjs
  BY ConstantsOK DEF UsersShareObject, UsersIdle, TypeOK
<1>2. TypeOK'
  BY <1>1 DEF TypeOK
<1>3. \A u \in Tasks : pc[u] = "inside" => obj[u] # obj[t]
  BY DEF HolderLocks
<1>4. HolderLocks'
  BY <1>1, <1>3 DEF HolderLocks, TypeOK
<1>5. UsersIdle' /\ UsersShareObject' /\ IdleHasNoObject'
  BY DEF UsersIdle, UsersShareObject, IdleHasNoObject, TypeOK
<1>6. ObjectsDistinct' /\ DroppedUnused'
  BY DEF ObjectsDistinct, DroppedUnused
<1>7. CountsExact'
  BY DEF CountsExact, Users
<1>. QED
  BY <1>2, <1>4, <1>5, <1>6, <1>7

\* What giving a key up does to the dictionary, the same for a body that
\* ends and a waiter that is cancelled.
LEMMA PartStep ==
    ASSUME IInv, NEW t \in Tasks, pc[t] # "idle", Unref(key[t]),
           pc' = [pc EXCEPT ![t] = "idle"],
           key' = [key EXCEPT ![t] = NoKey],
           obj' = [obj EXCEPT ![t] = NoLock]
    PROVE  /\ refCounts' \in [Keys -> Nat]
           /\ locks' \in [Keys -> LockObjs \union {NoLock}]
           /\ UsersIdle' /\ UsersShareObject' /\ IdleHasNoObject'
           /\ ObjectsDistinct' /\ CountsExact' /\ DroppedUnused'
<1>. USE DEF IInv, Unref
<1>1. key[t] \in Keys
  BY DEF UsersIdle, TypeOK
<1>2. /\ refCounts[key[t]] = Cardinality(Users(key[t]))
      /\ refCounts[key[t]] \in Nat \ {0}
  BY <1>1, UsersPart DEF CountsExact
<1>3. refCounts' \in [Keys -> Nat]
  BY <1>1, <1>2 DEF TypeOK
<1>4. locks' \in [Keys -> LockObjs \union {NoLock}]
  BY <1>1 DEF TypeOK
<1>5. UsersIdle' /\ IdleHasNoObject'
  BY DEF UsersIdle, IdleHasNoObject, TypeOK
<1>6. CountsExact'
  <2>. SUFFICES ASSUME NEW m \in Keys PROVE refCounts'[m] = Cardinality(Users(m)')
    BY DEF CountsExact
  <2>1. CASE m = key[t]
    BY <2>1, <1>1, <1>2, UsersPart DEF CountsExact, TypeOK
  <2>2. CASE m # key[t]
    BY <2>2, <1>1, UsersPart DEF CountsExact, TypeOK
  <2>. QED
    BY <2>1, <2>2
<1>7. DroppedUnused'
  BY <1>1, <1>2 DEF DroppedUnused, TypeOK
<1>8. ObjectsDistinct'
  BY <1>1 DEF ObjectsDistinct, TypeOK
\* The key is dropped only when its last user goes, so the others keep
\* sharing the object in the dictionary.
<1>9. UsersShareObject'
  <2>. SUFFICES ASSUME NEW u \in Tasks, pc'[u] # "idle"
                PROVE  locks'[key'[u]] # NoLock /\ obj'[u] = locks'[key'[u]]
    BY DEF UsersShareObject
  <2>1. /\ u # t /\ pc[u] # "idle" /\ key'[u] = key[u] /\ obj'[u] = obj[u]
        /\ key[u] \in Keys
    BY DEF TypeOK, UsersIdle
  <2>2. CASE key[u] = key[t]
    <3>1. PICK k \in Keys : k = key[t]
      BY <1>1
    <3>2. Cardinality(Users(k)') = refCounts[k] - 1
      BY <3>1, <1>1, <1>2, UsersPart
    <3>3. u \in Users(k)'
      BY <3>1, <2>1, <2>2 DEF Users
    <3>4. Cardinality(Users(k)') # 0
      <4>1. IsFiniteSet(Users(k)')
        BY ConstantsOK, FS_Subset DEF Users
      <4>. QED
        BY <4>1, <3>3, FS_EmptySet
    <3>5. locks' = locks
      BY <3>1, <3>2, <3>4, <1>2
    <3>. QED
      BY <3>5, <2>1 DEF UsersShareObject
  <2>3. CASE key[u] # key[t]
    BY <2>1, <2>3 DEF UsersShareObject, TypeOK
  <2>. QED
    BY <2>2, <2>3
<1>. QED
  BY <1>3, <1>4, <1>5, <1>6, <1>7, <1>8, <1>9

\* Removing one element of a sequence leaves a sequence of the same elements.
LEMMA RemoveAtType ==
    ASSUME NEW S, NEW s \in Seq(S), NEW i \in 1 .. Len(s)
    PROVE  RemoveAt(s, i) \in Seq(S)
<1>1. SubSeq(s, 1, i - 1) \in Seq(S)
  BY SubSeqProperties
<1>2. SubSeq(s, i + 1, Len(s)) \in Seq(S)
  BY SubSeqProperties
<1>. QED
  BY <1>1, <1>2 DEF RemoveAt

\* A cancelled waiter leaves the queue and gives its key up.
LEMMA CancelStep ==
    ASSUME IInv, NEW t \in Tasks, Cancel(t)
    PROVE  IInv'
<1>. USE DEF IInv, Cancel
<1>1. obj[t] \in LockObjs
  BY ConstantsOK DEF UsersShareObject, UsersIdle, TypeOK
<1>2. waiters' \in [LockObjs -> Seq(Tasks)]
  <2>1. PICK i \in DOMAIN waiters[obj[t]] :
          waiters' = [waiters EXCEPT ![obj[t]] = RemoveAt(@, i)]
    OBVIOUS
  <2>2. waiters[obj[t]] \in Seq(Tasks)
    BY <1>1 DEF TypeOK
  <2>3. RemoveAt(waiters[obj[t]], i) \in Seq(Tasks)
    BY <2>1, <2>2, RemoveAtType
  <2>. QED
    BY <2>1, <2>3 DEF TypeOK
<1>3. /\ refCounts' \in [Keys -> Nat]
      /\ locks' \in [Keys -> LockObjs \union {NoLock}]
      /\ UsersIdle' /\ UsersShareObject' /\ IdleHasNoObject'
      /\ ObjectsDistinct' /\ CountsExact' /\ DroppedUnused'
  BY PartStep
<1>4. TypeOK'
  BY <1>2, <1>3 DEF TypeOK
<1>5. HolderLocks'
  BY DEF HolderLocks, TypeOK
<1>. QED
  BY <1>3, <1>4, <1>5

\* A body that ends was the only holder of its lock, and gives its key up.
LEMMA LeaveStep ==
    ASSUME IInv, NEW t \in Tasks, Leave(t)
    PROVE  IInv'
<1>. USE DEF IInv, Leave
<1>1. obj[t] \in LockObjs
  BY ConstantsOK DEF UsersShareObject, UsersIdle, TypeOK
<1>2. /\ refCounts' \in [Keys -> Nat]
      /\ locks' \in [Keys -> LockObjs \union {NoLock}]
      /\ UsersIdle' /\ UsersShareObject' /\ IdleHasNoObject'
      /\ ObjectsDistinct' /\ CountsExact' /\ DroppedUnused'
  BY PartStep
<1>3. TypeOK'
  BY <1>1, <1>2 DEF TypeOK
<1>4. HolderLocks'
  BY <1>1 DEF HolderLocks, TypeOK
<1>. QED
  BY <1>2, <1>3, <1>4

-----------------------------------------------------------------------------
\* The inductive invariant holds in every reachable state.
THEOREM Invariance == Spec => []IInv
<1>1. Init => IInv
  BY InitIInv
<1>2. IInv /\ [Next]_vars => IInv'
  <2>. SUFFICES ASSUME IInv, [Next]_vars PROVE IInv'
    OBVIOUS
  <2>1. ASSUME NEW t \in Tasks, NEW k \in Keys, Enter(t, k) PROVE IInv'
    BY <2>1, EnterStep
  <2>2. ASSUME NEW t \in Tasks, Resume(t) PROVE IInv'
    BY <2>2, ResumeStep
  <2>3. ASSUME NEW t \in Tasks, Cancel(t) PROVE IInv'
    BY <2>3, CancelStep
  <2>4. ASSUME NEW t \in Tasks, Leave(t) PROVE IInv'
    BY <2>4, LeaveStep
  <2>5. CASE UNCHANGED vars
    BY <2>5 DEF vars, IInv, TypeOK, UsersIdle, UsersShareObject, IdleHasNoObject,
       ObjectsDistinct, HolderLocks, CountsExact, DroppedUnused, Users
  <2>. QED
    BY <2>1, <2>2, <2>3, <2>4, <2>5 DEF Next
<1>. QED
  BY <1>1, <1>2, PTL DEF Spec

\* KeyedLock: whatever tasks come, wait, are cancelled and leave, no two run
\* a body under the same key.
THEOREM MutualExclusionHolds == Spec => []MutualExclusion
<1>1. IInv => MutualExclusion
  BY DEF IInv, UsersIdle, UsersShareObject, HolderLocks, MutualExclusion
<1>. QED
  BY <1>1, Invariance, PTL

\* KeyedLock: the two dictionaries hold exactly the keys in use.
THEOREM DictionaryExactHolds == Spec => []DictionaryExact
<1>1. IInv => DictionaryExact
  BY UsersEmpty DEF IInv, CountsExact, DroppedUnused, DictionaryExact
<1>. QED
  BY <1>1, Invariance, PTL

-----------------------------------------------------------------------------
\* KeyedLock implements KeyedMutex: a body starts when its task takes the
\* lock, at once or after waiting, and every other step is a stutter.
THEOREM Refinement == Spec => ImplementsMutex
<1>1. Init => Abstract!Init
  BY DEF Init, Abstract!Init, Bodies
<1>2. IInv /\ IInv' /\ [Next]_vars => [Abstract!Next]_Bodies
  <2>. SUFFICES ASSUME IInv, IInv', [Next]_vars PROVE [Abstract!Next]_Bodies
    OBVIOUS
  <2>. USE DEF IInv
  \* A task that goes from outside to inside with key k starts a body, alone.
  <2>1. ASSUME NEW t \in Tasks, NEW k \in Keys,
               pc[t] # "inside", pc' = [pc EXCEPT ![t] = "inside"],
               key' = [key EXCEPT ![t] = k]
        PROVE  Abstract!Start(t, k)
    <3>1. \A u \in Tasks : u # t /\ pc[u] = "inside" => key[u] # k
      <4>. SUFFICES ASSUME NEW u \in Tasks, u # t, pc[u] = "inside", key[u] = k
                    PROVE  FALSE
        OBVIOUS
      <4>1. /\ pc'[u] = "inside" /\ key'[u] = k
            /\ pc'[t] = "inside" /\ key'[t] = k
        BY <2>1 DEF TypeOK
      <4>2. obj'[u] = obj'[t]
        BY <4>1 DEF UsersShareObject
      <4>. QED
        BY <4>1, <4>2 DEF HolderLocks
    <3>2. \A b \in Bodies : b[1] # t /\ b[2] # k
      BY <3>1, <2>1 DEF Bodies
    <3>3. Bodies' = Bodies \union {<<t, k>>}
      BY <2>1 DEF Bodies, TypeOK
    <3>. QED
      BY <3>2, <3>3 DEF Abstract!Start
  <2>2. ASSUME NEW t \in Tasks, NEW k \in Keys, Enter(t, k)
        PROVE  [Abstract!Next]_Bodies
    <3>1. pc[t] = "idle" /\ key' = [key EXCEPT ![t] = k]
      BY <2>2 DEF Enter
    <3>2. CASE pc' = [pc EXCEPT ![t] = "inside"]
      BY <3>1, <3>2, <2>1 DEF Abstract!Next
    <3>3. CASE pc' = [pc EXCEPT ![t] = "waiting"]
      <4>1. Bodies' = Bodies
        BY <3>1, <3>3 DEF Bodies, TypeOK
      <4>. QED
        BY <4>1
    <3>. QED
      BY <3>2, <3>3, <2>2 DEF Enter
  <2>3. ASSUME NEW t \in Tasks, Resume(t)
        PROVE  [Abstract!Next]_Bodies
    <3>1. /\ pc[t] = "waiting" /\ pc' = [pc EXCEPT ![t] = "inside"]
          /\ key[t] \in Keys /\ key' = [key EXCEPT ![t] = key[t]]
      BY <2>3 DEF Resume, UsersIdle, TypeOK
    <3>. QED
      BY <3>1, <2>1 DEF Abstract!Next
  <2>4. ASSUME NEW t \in Tasks, Cancel(t)
        PROVE  [Abstract!Next]_Bodies
    <3>1. Bodies' = Bodies
      BY <2>4 DEF Cancel, Bodies, TypeOK
    <3>. QED
      BY <3>1
  <2>5. ASSUME NEW t \in Tasks, Leave(t)
        PROVE  [Abstract!Next]_Bodies
    <3>1. /\ key[t] \in Keys /\ <<t, key[t]>> \in Bodies
          /\ Bodies' = Bodies \ {<<t, key[t]>>}
      BY <2>5 DEF Leave, Bodies, TypeOK, UsersIdle
    <3>. QED
      BY <3>1 DEF Abstract!Next, Abstract!Stop
  <2>6. CASE UNCHANGED vars
    BY <2>6 DEF vars, Bodies
  <2>. QED
    BY <2>2, <2>3, <2>4, <2>5, <2>6 DEF Next
<1>. QED
  BY <1>1, <1>2, Invariance, PTL DEF Spec, ImplementsMutex, Abstract!Spec
-----------------------------------------------------------------------------
(* No waiter is left behind.  That a queue is served is liveness; the state *)
(* it rests on is an invariant: the queue of a lock object holds exactly    *)
(* the tasks that wait for it, once each, and an object is locked only      *)
(* while a body runs with it.                                               *)

QueueOfWaiters ==
    \A l \in LockObjs : \A i \in 1 .. Len(waiters[l]) :
        /\ pc[waiters[l][i]] = "waiting"
        /\ obj[waiters[l][i]] = l
        /\ \A j \in 1 .. Len(waiters[l]) : waiters[l][i] = waiters[l][j] => i = j

WaitersQueued ==
    \A t \in Tasks : pc[t] = "waiting" =>
        \E i \in 1 .. Len(waiters[obj[t]]) : waiters[obj[t]][i] = t

LockedByBody ==
    \A l \in LockObjs : locked[l] => \E t \in Tasks : pc[t] = "inside" /\ obj[t] = l

QueueIInv == QueueOfWaiters /\ WaitersQueued /\ LockedByBody

\* Resume(t) may be taken.
MayResume(t) ==
    /\ pc[t] = "waiting"
    /\ ~locked[obj[t]]
    /\ waiters[obj[t]] # <<>> /\ Head(waiters[obj[t]]) = t

\* A task that waits for a key has one before it that will move: one inside
\* its body, or the one the released lock wakes.
WaiterNotStuck ==
    \A t \in Tasks : pc[t] = "waiting" =>
        \E u \in Tasks : key[u] = key[t] /\ (pc[u] = "inside" \/ MayResume(u))

\* The elements of a sequence without its i-th.
LEMMA RemoveAtElements ==
    ASSUME NEW S, NEW s \in Seq(S), NEW i \in 1 .. Len(s)
    PROVE  /\ Len(RemoveAt(s, i)) = Len(s) - 1
           /\ \A j \in 1 .. Len(s) - 1 :
                RemoveAt(s, i)[j] = IF j < i THEN s[j] ELSE s[j + 1]
<1>. DEFINE p == SubSeq(s, 1, i - 1)
            q == SubSeq(s, i + 1, Len(s))
<1>1. p \in Seq(S) /\ Len(p) = i - 1 /\ \A j \in 1 .. i - 1 : p[j] = s[j]
  BY SubSeqProperties
<1>2. /\ q \in Seq(S) /\ Len(q) = Len(s) - i
      /\ \A j \in 1 .. Len(s) - i : q[j] = s[j + i]
  BY SubSeqProperties
<1>3. RemoveAt(s, i) = p \o q
  BY DEF RemoveAt
<1>. HIDE DEF p, q
<1>4. /\ Len(p \o q) = Len(p) + Len(q)
      /\ \A j \in 1 .. Len(p) + Len(q) :
            (p \o q)[j] = IF j <= Len(p) THEN p[j] ELSE q[j - Len(p)]
  BY <1>1, <1>2, ConcatProperties
<1>5. ASSUME NEW j \in 1 .. Len(s) - 1
      PROVE  (p \o q)[j] = IF j < i THEN s[j] ELSE s[j + 1]
  <2>1. CASE j < i
    BY <2>1, <1>1, <1>2, <1>4
  <2>2. CASE ~(j < i)
    <3>1. j - (i - 1) \in 1 .. Len(s) - i /\ (j - (i - 1)) + i = j + 1
      BY <2>2
    <3>2. j \in 1 .. Len(p) + Len(q) /\ ~(j <= Len(p)) /\ Len(p) = i - 1
      BY <2>2, <1>1, <1>2
    <3>3. (p \o q)[j] = q[j - (i - 1)]
      BY <3>2, <1>4
    <3>. QED
      BY <2>2, <3>1, <3>3, <1>2
  <2>. QED
    BY <2>1, <2>2
<1>. QED
  BY <1>1, <1>2, <1>3, <1>4, <1>5

\* Entering appends the task to the queue of a busy lock; a lock that is not
\* busy, a new one included, has no queue to lose.
LEMMA EnterQueue ==
    ASSUME IInv, QueueIInv, NEW t \in Tasks, NEW k \in Keys, Enter(t, k)
    PROVE  QueueIInv'
<1>. USE DEF IInv, QueueIInv
<1>1. PICK l \in ObjectFor(k) :
        /\ obj' = [obj EXCEPT ![t] = l]
        /\ \/ /\ Busy(k, l)
              /\ pc' = [pc EXCEPT ![t] = "waiting"]
              /\ waiters' = [waiters EXCEPT ![l] = Append(@, t)]
              /\ UNCHANGED locked
           \/ /\ ~Busy(k, l)
              /\ pc' = [pc EXCEPT ![t] = "inside"]
              /\ locked' = [locked EXCEPT ![l] = TRUE]
              /\ waiters' = [waiters EXCEPT ![l] = <<>>]
  BY DEF Enter
<1>2. pc[t] = "idle" /\ obj[t] = NoLock
  BY DEF Enter, IdleHasNoObject
<1>3. /\ l \in LockObjs /\ l # NoLock
      /\ locks[k] = NoLock => \A u \in Tasks : obj[u] # l
  BY <1>1, ConstantsOK DEF ObjectFor, Unreferenced, TypeOK
<1>4. \A m \in LockObjs : /\ waiters[m] \in Seq(Tasks)
                          /\ \A i \in 1 .. Len(waiters[m]) : waiters[m][i] \in Tasks \ {t}
  BY <1>2 DEF QueueOfWaiters, TypeOK
<1>5. CASE Busy(k, l)
  <2>1. /\ pc' = [pc EXCEPT ![t] = "waiting"]
        /\ waiters' = [waiters EXCEPT ![l] = Append(@, t)] /\ locked' = locked
    BY <1>1, <1>5
  <2>2. /\ Len(waiters'[l]) = Len(waiters[l]) + 1
        /\ waiters'[l][Len(waiters[l]) + 1] = t
        /\ \A i \in 1 .. Len(waiters[l]) : waiters'[l][i] = waiters[l][i]
        /\ \A m \in LockObjs \ {l} : waiters'[m] = waiters[m]
    BY <2>1, <1>3, <1>4 DEF TypeOK
  <2>3. QueueOfWaiters'
    <3>. SUFFICES ASSUME NEW m \in LockObjs, NEW i \in 1 .. Len(waiters'[m])
                  PROVE  /\ pc'[waiters'[m][i]] = "waiting"
                         /\ obj'[waiters'[m][i]] = m
                         /\ \A j \in 1 .. Len(waiters'[m]) :
                                waiters'[m][i] = waiters'[m][j] => i = j
      BY DEF QueueOfWaiters
    <3>1. CASE m # l
      BY <3>1, <2>1, <2>2, <1>1, <1>4 DEF QueueOfWaiters, TypeOK
    <3>2. CASE m = l
      <4>1. \A j \in 1 .. Len(waiters'[l]) :
                j \in 1 .. Len(waiters[l]) \/ j = Len(waiters[l]) + 1
        BY <2>2, <1>3, <1>4
      <4>. QED
        BY <3>2, <4>1, <2>1, <2>2, <1>1, <1>3, <1>4 DEF QueueOfWaiters, TypeOK
    <3>. QED
      BY <3>1, <3>2
  <2>4. WaitersQueued'
    <3>. SUFFICES ASSUME NEW u \in Tasks, pc'[u] = "waiting"
                  PROVE  \E i \in 1 .. Len(waiters'[obj'[u]]) : waiters'[obj'[u]][i] = u
      BY DEF WaitersQueued
    <3>1. CASE u = t
      <4>1. obj'[u] = l /\ Len(waiters[l]) + 1 \in 1 .. Len(waiters'[l])
        BY <3>1, <2>2, <1>1, <1>3, <1>4 DEF TypeOK
      <4>. QED
        BY <4>1, <3>1, <2>2
    <3>2. CASE u # t
      <4>1. pc[u] = "waiting" /\ obj'[u] = obj[u] /\ obj[u] \in LockObjs
        BY <3>2, <2>1, <1>1, ConstantsOK DEF TypeOK, UsersShareObject, UsersIdle
      <4>2. PICK i \in 1 .. Len(waiters[obj[u]]) : waiters[obj[u]][i] = u
        BY <4>1 DEF WaitersQueued
      <4>3. i \in 1 .. Len(waiters'[obj[u]]) /\ waiters'[obj[u]][i] = u
        BY <4>1, <4>2, <2>2, <1>3, <1>4
      <4>. QED
        BY <4>1, <4>3
    <3>. QED
      BY <3>1, <3>2
  <2>5. LockedByBody'
    BY <2>1, <1>1, <1>2, <1>3 DEF LockedByBody, TypeOK
  <2>. QED
    BY <2>3, <2>4, <2>5
<1>6. CASE ~Busy(k, l)
  <2>1. /\ pc' = [pc EXCEPT ![t] = "inside"]
        /\ locked' = [locked EXCEPT ![l] = TRUE]
        /\ waiters' = [waiters EXCEPT ![l] = <<>>]
    BY <1>1, <1>6
  <2>2. waiters[l] = <<>>
    <3>1. CASE locks[k] # NoLock
      BY <3>1, <1>6 DEF Busy
    <3>2. CASE locks[k] = NoLock
      <4>1. \A i \in 1 .. Len(waiters[l]) : FALSE
        BY <3>2, <1>3, <1>4 DEF QueueOfWaiters
      <4>. QED
        BY <4>1, <1>3, <1>4, EmptySeq
    <3>. QED
      BY <3>1, <3>2
  <2>3. waiters' = waiters
    BY <2>1, <2>2, <1>3 DEF TypeOK
  <2>4. QueueOfWaiters'
    BY <2>1, <2>3, <1>1, <1>4 DEF QueueOfWaiters, TypeOK
  <2>5. WaitersQueued'
    BY <2>1, <2>3, <1>1, <1>4 DEF WaitersQueued, TypeOK
  <2>6. LockedByBody'
    BY <2>1, <1>1, <1>2, <1>3 DEF LockedByBody, TypeOK
  <2>. QED
    BY <2>4, <2>5, <2>6
<1>. QED
  BY <1>5, <1>6

\* The first of the queue leaves it for its body.
LEMMA ResumeQueue ==
    ASSUME IInv, QueueIInv, NEW t \in Tasks, Resume(t)
    PROVE  QueueIInv'
<1>. USE DEF IInv, QueueIInv, Resume
<1>. DEFINE l == obj[t]
            s == waiters[l]
<1>1. l \in LockObjs /\ s \in Seq(Tasks) /\ s # <<>>
  BY ConstantsOK DEF UsersShareObject, UsersIdle, TypeOK
<1>2. /\ Len(s) \in Nat \ {0} /\ s[1] = t
      /\ Len(waiters'[l]) = Len(s) - 1
      /\ \A i \in 1 .. Len(s) - 1 : waiters'[l][i] = s[i + 1]
      /\ \A m \in LockObjs \ {l} : waiters'[m] = waiters[m]
  BY <1>1, EmptySeq, HeadTailProperties DEF TypeOK
<1>3. pc' = [pc EXCEPT ![t] = "inside"] /\ obj' = obj
      /\ locked' = [locked EXCEPT ![l] = TRUE]
  OBVIOUS
<1>4. \A m \in LockObjs : waiters[m] \in Seq(Tasks)
  BY DEF TypeOK
<1>5. QueueOfWaiters'
  <2>. SUFFICES ASSUME NEW m \in LockObjs, NEW i \in 1 .. Len(waiters'[m])
                PROVE  /\ pc'[waiters'[m][i]] = "waiting"
                       /\ obj'[waiters'[m][i]] = m
                       /\ \A j \in 1 .. Len(waiters'[m]) :
                              waiters'[m][i] = waiters'[m][j] => i = j
    BY DEF QueueOfWaiters
  <2>. HIDE DEF l, s
  <2>1. CASE m # l
    <3>1. \A j \in 1 .. Len(waiters[m]) : waiters[m][j] \in Tasks \ {t}
      BY <2>1, <1>4 DEF QueueOfWaiters, l
    <3>. QED
      BY <2>1, <3>1, <1>2, <1>3 DEF QueueOfWaiters, TypeOK
  <2>2. CASE m = l
    <3>1. ASSUME NEW j \in 1 .. Len(waiters'[m])
          PROVE  j + 1 \in (1 .. Len(s)) \ {1} /\ waiters'[m][j] = s[j + 1]
      <4>1. Len(waiters'[m]) = Len(s) - 1 /\ waiters'[m] = waiters'[l]
        BY <2>2, <1>2
      <4>2. j \in 1 .. Len(s) - 1 /\ Len(s) \in Nat
        BY <4>1, <1>2
      <4>3. j + 1 \in (1 .. Len(s)) \ {1}
        BY <4>2
      <4>. QED
        BY <4>1, <4>2, <4>3, <1>2
    <3>2. 1 \in 1 .. Len(s)
      BY <1>2
    <3>3. s[i + 1] # t /\ s[i + 1] \in Tasks
          /\ pc[s[i + 1]] = "waiting" /\ obj[s[i + 1]] = l
      BY <3>1, <3>2, <1>1, <1>2 DEF QueueOfWaiters, s
    <3>4. \A j \in 1 .. Len(waiters'[m]) : s[i + 1] = s[j + 1] => i + 1 = j + 1
      BY <3>1, <1>1 DEF QueueOfWaiters, s
    <3>5. waiters'[m][i] = s[i + 1]
          /\ \A j \in 1 .. Len(waiters'[m]) : waiters'[m][j] = s[j + 1]
      BY <3>1
    <3>6. pc'[s[i + 1]] = "waiting" /\ obj'[s[i + 1]] = m
      BY <2>2, <3>3, <1>3 DEF TypeOK
    <3>7. \A j \in 1 .. Len(waiters'[m]) : i + 1 = j + 1 => i = j
      OBVIOUS
    <3>. QED
      BY <3>4, <3>5, <3>6, <3>7
  <2>. QED
    BY <2>1, <2>2
<1>6. WaitersQueued'
  <2>. SUFFICES ASSUME NEW u \in Tasks, pc'[u] = "waiting"
                PROVE  \E i \in 1 .. Len(waiters'[obj'[u]]) : waiters'[obj'[u]][i] = u
    BY DEF WaitersQueued
  <2>1. u # t /\ pc[u] = "waiting" /\ obj'[u] = obj[u] /\ obj[u] \in LockObjs
    BY <1>3, ConstantsOK DEF TypeOK, UsersShareObject, UsersIdle
  <2>2. PICK i \in 1 .. Len(waiters[obj[u]]) : waiters[obj[u]][i] = u
    BY <2>1 DEF WaitersQueued
  <2>. HIDE DEF l, s
  <2>3. CASE obj[u] # l
    BY <2>1, <2>2, <2>3, <1>2
  <2>4. CASE obj[u] = l
    <3>1. i # 1 /\ i \in 1 .. Len(s) /\ s[i] = u
      BY <2>1, <2>2, <2>4, <1>2 DEF s
    <3>2. i - 1 \in 1 .. Len(s) - 1 /\ (i - 1) + 1 = i
      BY <3>1, <1>2
    <3>3. i - 1 \in 1 .. Len(waiters'[l]) /\ waiters'[l][i - 1] = u
      BY <3>1, <3>2, <1>2
    <3>. QED
      BY <3>3, <2>1, <2>4
  <2>. QED
    BY <2>3, <2>4
<1>7. LockedByBody'
  BY <1>1, <1>3 DEF LockedByBody, TypeOK
<1>. QED
  BY <1>5, <1>6, <1>7

\* A cancelled waiter takes its one place in the queue with it.
LEMMA CancelQueue ==
    ASSUME IInv, QueueIInv, NEW t \in Tasks, Cancel(t)
    PROVE  QueueIInv'
<1>. USE DEF IInv, QueueIInv, Cancel
<1>. DEFINE l == obj[t]
            s == waiters[l]
<1>1. l \in LockObjs /\ s \in Seq(Tasks) /\ Len(s) \in Nat
  BY ConstantsOK DEF UsersShareObject, UsersIdle, TypeOK
<1>2. PICK g \in 1 .. Len(s) : s[g] = t /\ waiters' = [waiters EXCEPT ![l] = RemoveAt(@, g)]
  <2>1. DOMAIN s = 1 .. Len(s)
    BY <1>1
  <2>. QED
    BY <2>1
<1>3. /\ Len(waiters'[l]) = Len(s) - 1
      /\ \A i \in 1 .. Len(s) - 1 : waiters'[l][i] = IF i < g THEN s[i] ELSE s[i + 1]
      /\ \A m \in LockObjs \ {l} : waiters'[m] = waiters[m]
  BY <1>1, <1>2, RemoveAtElements DEF TypeOK
<1>4. /\ pc' = [pc EXCEPT ![t] = "idle"] /\ obj' = [obj EXCEPT ![t] = NoLock]
      /\ locked' = locked /\ pc[t] = "waiting"
  OBVIOUS
<1>5. \A m \in LockObjs : waiters[m] \in Seq(Tasks)
  BY DEF TypeOK
<1>6. QueueOfWaiters'
  <2>. SUFFICES ASSUME NEW m \in LockObjs, NEW i \in 1 .. Len(waiters'[m])
                PROVE  /\ pc'[waiters'[m][i]] = "waiting"
                       /\ obj'[waiters'[m][i]] = m
                       /\ \A j \in 1 .. Len(waiters'[m]) :
                              waiters'[m][i] = waiters'[m][j] => i = j
    BY DEF QueueOfWaiters
  <2>. HIDE DEF l, s
  <2>1. CASE m # l
    <3>1. \A j \in 1 .. Len(waiters[m]) : waiters[m][j] \in Tasks \ {t}
      BY <2>1, <1>5 DEF QueueOfWaiters, l
    <3>. QED
      BY <2>1, <3>1, <1>3, <1>4 DEF QueueOfWaiters, TypeOK
  <2>2. CASE m = l
    <3>. DEFINE at(j) == IF j < g THEN j ELSE j + 1
    <3>1. ASSUME NEW j \in 1 .. Len(waiters'[m])
          PROVE  at(j) \in (1 .. Len(s)) \ {g} /\ waiters'[m][j] = s[at(j)]
      BY <2>2, <1>1, <1>3
    <3>2. \A j \in 1 .. Len(waiters'[m]) : at(i) = at(j) => i = j
      BY <2>2, <1>1, <1>3
    <3>. HIDE DEF at
    <3>3. s[at(i)] # t /\ s[at(i)] \in Tasks
          /\ pc[s[at(i)]] = "waiting" /\ obj[s[at(i)]] = l
      BY <3>1, <1>1, <1>2 DEF QueueOfWaiters, s
    <3>4. \A j \in 1 .. Len(waiters'[m]) : s[at(i)] = s[at(j)] => i = j
      BY <3>1, <3>2, <1>1 DEF QueueOfWaiters, s
    <3>. QED
      BY <2>2, <3>1, <3>3, <3>4, <1>4 DEF TypeOK
  <2>. QED
    BY <2>1, <2>2
<1>7. WaitersQueued'
  <2>. SUFFICES ASSUME NEW u \in Tasks, pc'[u] = "waiting"
                PROVE  \E i \in 1 .. Len(waiters'[obj'[u]]) : waiters'[obj'[u]][i] = u
    BY DEF WaitersQueued
  <2>1. u # t /\ pc[u] = "waiting" /\ obj'[u] = obj[u] /\ obj[u] \in LockObjs
    BY <1>4, ConstantsOK DEF TypeOK, UsersShareObject, UsersIdle
  <2>2. PICK i \in 1 .. Len(waiters[obj[u]]) : waiters[obj[u]][i] = u
    BY <2>1 DEF WaitersQueued
  <2>. HIDE DEF l, s
  <2>3. CASE obj[u] # l
    BY <2>1, <2>2, <2>3, <1>3
  <2>4. CASE obj[u] = l
    <3>1. i # g /\ i \in 1 .. Len(s) /\ s[i] = u
      BY <2>1, <2>2, <2>4, <1>2 DEF s
    <3>2. CASE i < g
      <4>1. i \in 1 .. Len(waiters'[l]) /\ waiters'[l][i] = u
        BY <3>1, <3>2, <1>1, <1>3
      <4>. QED
        BY <4>1, <2>1, <2>4
    <3>3. CASE i > g
      <4>1. i - 1 \in 1 .. Len(s) - 1 /\ (i - 1) + 1 = i /\ ~(i - 1 < g)
        BY <3>1, <3>3, <1>1
      <4>2. i - 1 \in 1 .. Len(waiters'[l]) /\ waiters'[l][i - 1] = u
        BY <3>1, <4>1, <1>3
      <4>. QED
        BY <4>2, <2>1, <2>4
    <3>. QED
      BY <3>1, <3>2, <3>3, <1>1
  <2>. QED
    BY <2>3, <2>4
<1>8. LockedByBody'
  BY <1>1, <1>4 DEF LockedByBody, TypeOK
<1>. QED
  BY <1>6, <1>7, <1>8

\* A body that ends was in no queue, and unlocks its own object.
LEMMA LeaveQueue ==
    ASSUME IInv, QueueIInv, NEW t \in Tasks, Leave(t)
    PROVE  QueueIInv'
<1>. USE DEF IInv, QueueIInv, Leave
<1>1. obj[t] \in LockObjs
  BY ConstantsOK DEF UsersShareObject, UsersIdle, TypeOK
<1>2. \A m \in LockObjs : \A i \in 1 .. Len(waiters[m]) : waiters[m][i] \in Tasks \ {t}
  BY DEF QueueOfWaiters, TypeOK
<1>3. QueueOfWaiters'
  BY <1>2 DEF QueueOfWaiters, TypeOK
<1>4. WaitersQueued'
  BY DEF WaitersQueued, TypeOK
<1>5. LockedByBody'
  BY <1>1 DEF LockedByBody, TypeOK
<1>. QED
  BY <1>3, <1>4, <1>5

LEMMA QueueInvariance == Spec => []QueueIInv
<1>1. Init => QueueIInv
  BY DEF Init, QueueIInv, QueueOfWaiters, WaitersQueued, LockedByBody
<1>2. IInv /\ QueueIInv /\ [Next]_vars => QueueIInv'
  <2>. SUFFICES ASSUME IInv, QueueIInv, [Next]_vars PROVE QueueIInv'
    OBVIOUS
  <2>1. CASE UNCHANGED vars
    BY <2>1 DEF vars, QueueIInv, QueueOfWaiters, WaitersQueued, LockedByBody
  <2>. QED
    BY <2>1, EnterQueue, ResumeQueue, CancelQueue, LeaveQueue DEF Next
<1>. QED
  BY <1>1, <1>2, Invariance, PTL DEF Spec

\* KeyedLock: a task that waits for a key never waits for nobody, however the
\* tasks before it were served, ended or were cancelled.  With the fairness
\* of the event loop this is what WaiterServed needs.
THEOREM WaiterNotStuckHolds == Spec => []WaiterNotStuck
<1>1. IInv /\ QueueIInv => WaiterNotStuck
  <2>. SUFFICES ASSUME IInv, QueueIInv, NEW t \in Tasks, pc[t] = "waiting"
                PROVE  \E u \in Tasks : key[u] = key[t] /\ (pc[u] = "inside" \/ MayResume(u))
    BY DEF WaiterNotStuck
  <2>. USE DEF IInv, QueueIInv
  <2>1. obj[t] \in LockObjs /\ key[t] \in Keys /\ obj[t] = locks[key[t]]
    BY ConstantsOK DEF UsersShareObject, UsersIdle, TypeOK
  <2>2. \A u \in Tasks : obj[u] = obj[t] /\ pc[u] # "idle" => key[u] = key[t]
    BY <2>1 DEF UsersShareObject, UsersIdle, ObjectsDistinct, TypeOK
  <2>3. CASE locked[obj[t]]
    BY <2>1, <2>2, <2>3 DEF LockedByBody
  <2>4. CASE ~locked[obj[t]]
    <3>1. PICK i \in 1 .. Len(waiters[obj[t]]) : waiters[obj[t]][i] = t
      BY DEF WaitersQueued
    <3>2. waiters[obj[t]] \in Seq(Tasks)
      BY <2>1 DEF TypeOK
    <3>3. PICK u \in Tasks : u = Head(waiters[obj[t]]) /\ u = waiters[obj[t]][1]
                             /\ 1 \in 1 .. Len(waiters[obj[t]]) /\ waiters[obj[t]] # <<>>
      BY <3>1, <3>2
    <3>4. pc[u] = "waiting" /\ obj[u] = obj[t]
      BY <3>3, <2>1 DEF QueueOfWaiters
    <3>. QED
      BY <3>3, <3>4, <2>2, <2>4 DEF MayResume
  <2>. QED
    BY <2>3, <2>4
<1>. QED
  BY <1>1, Invariance, QueueInvariance, PTL
=============================================================================
