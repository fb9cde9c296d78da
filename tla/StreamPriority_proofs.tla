------------------------ MODULE StreamPriority_proofs ------------------------
(***************************************************************************)
(* Proofs about StreamPriority, for any streams, files, settings and       *)
(* prefetch counts.                                                        *)
(*                                                                         *)
(* The properties speak of the moments when all is quiet; the invariant    *)
(* says for every step of a run what it has still to set right.  What the  *)
(* streams change after a step has looked at them asks for another run,    *)
(* which queued remembers until the run of now is over.                    *)
(***************************************************************************)
EXTENDS StreamPriority, FiniteSetTheorems, WellFoundedInduction, TLAPS

\* A run that has not come to the connection limit, or to the deadlines.
BeforeConnect == {"priority", "raise", "limit"}
BeforeDeadlines == BeforeConnect \union {"connect", "deadlines"}

PriorityKept ==
    /\ Started # {} =>
         \/ queued \/ manager.pc \in {"priority", "raise"}
         \/ priority = PRIO_0 /\ manager.pc # "lower"
    /\ ~Active => queued \/ manager.pc # "idle" \/ priority = default

SetLimits == Limits \union {InitLimit}

LimitKept ==
    /\ limit \in SetLimits
    /\ maxConnections = cachedMax \/ maxConnections \in SetLimits
    /\ ~Active =>
         \/ queued \/ manager.pc \in BeforeConnect
         \/ IF manager.pc = "connect" THEN manager.connections \in SetLimits
            ELSE {maxConnections, cachedMax} \subseteq SetLimits

\* What a run has computed, and after it what libtorrent has been told.
Current == IF manager.pc = "apply" THEN manager.target ELSE deadlines

Coming == queued \/ alerted \/ manager.pc \in BeforeDeadlines

DeadlinesKept ==
    /\ Started = Registered => Coming \/ Current = GetDeadlines
    /\ \A s \in Streams :
         stream[s].pc = "running" /\ stream[s].piece \in Missing =>
           Coming \/ Current[stream[s].piece] = 0

IInv == TypeOK /\ PriorityKept /\ LimitKept /\ DeadlinesKept

USE DEF Pieces, PRIO_0, NoDeadline

-----------------------------------------------------------------------------
(* get_deadlines *)

LessThan == {ss \in Nat \X Nat : ss[1] < ss[2]}

LEMMA LeastOfNat ==
    ASSUME NEW S \in SUBSET Nat, S # {}
    PROVE  Min(S) \in S /\ \A y \in S : Min(S) <= y
<1>1. IsWellFoundedOn(LessThan, Nat)
  BY NatLessThanWellFounded, Zenon DEF OpToRel, LessThan
<1>2. PICK x \in S : \A y \in S : <<y, x>> \notin LessThan
  BY <1>1, WFMin, Zenon
<1>3. \A y \in S : x <= y
  <2>. TAKE y \in S
  <2>1. x \in Nat /\ y \in Nat /\ <<y, x>> \notin LessThan
    BY <1>2
  <2>. QED
    BY <2>1 DEF LessThan
<1>. QED
  BY <1>3 DEF Min

LEMMA DistanceNat ==
    ASSUME TypeOK, NEW s \in Streams, NEW p \in Pieces
    PROVE  Distance(s, p) \in Nat /\ Deadline(s, p) \in Nat
BY ConstantsOK DEF TypeOK, Distance, Deadline

LEMMA AskedNat ==
    ASSUME TypeOK, NEW p \in Pieces
    PROVE  AskedFor(p) \subseteq Nat
<1>1. \A s \in Asking : s \in Streams
  BY DEF Asking, Registered
<1>. QED
  BY <1>1, DistanceNat DEF AskedFor

LEMMA GetDeadlinesType ==
    ASSUME TypeOK
    PROVE  GetDeadlines \in [Pieces -> Nat \union {NoDeadline}]
<1>1. \A p \in Pieces : AskedFor(p) # {} => Min(AskedFor(p)) \in Nat
  BY AskedNat, LeastOfNat
<1>. QED
  BY <1>1 DEF GetDeadlines

\* The missing piece a stream stands at is due at once.
LEMMA UrgentPiece ==
    ASSUME TypeOK, NEW s \in Streams, stream[s].pc = "running", stream[s].piece \in Missing
    PROVE  GetDeadlines[stream[s].piece] = 0
<1>. DEFINE p == stream[s].piece
<1>1. p \in Pieces /\ p \in Missing /\ s \in Asking
  BY DEF Missing, Asking, Registered
<1>2. Distance(s, p) = 0 /\ Deadline(s, p) = 0
  BY <1>1 DEF Distance, Deadline, TypeOK
<1>3. {q \in Missing : Distance(s, q) < Distance(s, p)} = {}
  BY <1>2, DistanceNat DEF Missing
<1>4. p \in Wanted(s)
  BY <1>1, <1>3, FS_EmptySet, ConstantsOK DEF Wanted
<1>5. 0 \in AskedFor(p)
  BY <1>1, <1>2, <1>4 DEF AskedFor
<1>6. Min(AskedFor(p)) = 0
  BY <1>1, <1>5, AskedNat, LeastOfNat
<1>. QED
  BY <1>1, <1>5, <1>6 DEF GetDeadlines

\* What the streams ask for depends on where they are and on what is there, no more.
LEMMA SameDeadlines ==
    ASSUME UNCHANGED have, Active' <=> Active, Asking' = Asking,
           \A s \in Asking : stream'[s].piece = stream[s].piece
    PROVE  GetDeadlines' = GetDeadlines
<1>1. Missing' = Missing /\ Boundary' = Boundary
  BY DEF Missing, Boundary
<1>2. \A s \in Asking, p \in Pieces : Distance(s, p)' = Distance(s, p) /\ Deadline(s, p)' = Deadline(s, p)
  BY DEF Distance, Deadline
<1>3. \A s \in Asking : Wanted(s)' = Wanted(s)
  BY <1>1, <1>2 DEF Wanted, Missing
<1>4. \A p \in Pieces : AskedFor(p)' = AskedFor(p)
  BY <1>1, <1>2, <1>3 DEF AskedFor
<1>. QED
  BY <1>4 DEF GetDeadlines

\* Nobody asks for anything where nobody is.
LEMMA NobodyAsks ==
    ASSUME Registered = {}
    PROVE  GetDeadlines = NoTarget
<1>1. \A p \in Pieces : AskedFor(p) = {}
  BY DEF AskedFor, Asking, Active
<1>. QED
  BY <1>1 DEF GetDeadlines, NoTarget

-----------------------------------------------------------------------------
(* Each action preserves the inductive invariant. *)

LEMMA InitIInv == Init => IInv
<1>. SUFFICES ASSUME Init PROVE IInv
  OBVIOUS
<1>1. Registered = {} /\ Started = {} /\ ~Active
  BY DEF Init, Registered, Started, Active, Stream
<1>2. TypeOK
  <2>1. NoTarget \in [Pieces -> Nat \union {NoDeadline}]
    BY DEF NoTarget
  <2>2. Stream("none", 0) \in
          [pc : {"none", "created", "leaked", "running", "ending", "destroying"}, piece : Pieces]
    BY ConstantsOK DEF Stream
  <2>3. manager \in
          [pc : {"idle", "priority", "raise", "limit", "connect", "deadlines", "apply",
                 "restore", "lower"},
           connections : Nat, target : [Pieces -> Nat \union {NoDeadline}]]
    BY <2>1 DEF Init, At, Manager
  <2>4. /\ priority \in Nat /\ default \in Nat
        /\ limit \in Nat /\ maxConnections \in Nat /\ cachedMax \in Nat
    BY ConstantsOK DEF Init
  <2>. QED
    BY <2>1, <2>2, <2>3, <2>4 DEF Init, TypeOK
<1>3. PriorityKept
  BY <1>1 DEF Init, PriorityKept
<1>4. LimitKept
  BY <1>1 DEF Init, LimitKept, SetLimits, At, Manager
<1>5. DeadlinesKept
  BY <1>1, NobodyAsks DEF Init, DeadlinesKept, Current, At, Manager, Stream
<1>. QED
  BY <1>2, <1>3, <1>4, <1>5 DEF IInv

\* The steps of one stream, and of nothing else than its place.
StreamStep(s) ==
    \/ \E p \in Pieces : Create(s, p)
    \/ Abandon(s) \/ Begin(s) \/ Advance(s) \/ End(s) \/ BeginDestroy(s) \/ EndDestroy(s)

\* A stream changes what is asked for only with a run to come, or unstarted.
LEMMA StreamStepKeeps ==
    ASSUME IInv, NEW s \in Streams, StreamStep(s)
    PROVE  IInv'
<1>. USE DEF IInv
<1>1. TypeOK'
  <2>1. ASSUME NEW p \in Pieces, Create(s, p) PROVE TypeOK'
    BY <2>1 DEF Create, TypeOK, Stream, told, settings
  <2>2. CASE Abandon(s) \/ Begin(s) \/ End(s) \/ BeginDestroy(s)
    BY <2>2 DEF Abandon, Begin, End, BeginDestroy, TypeOK, told, settings
  <2>3. CASE Advance(s)
    BY <2>3, ConstantsOK DEF Advance, TypeOK, told, settings
  <2>4. CASE EndDestroy(s)
    BY <2>4, ConstantsOK DEF EndDestroy, TypeOK, Stream, told, settings
  <2>. QED
    BY <2>1, <2>2, <2>3, <2>4 DEF StreamStep
<1>2. UNCHANGED <<have, alerted, manager, told, settings>>
  BY DEF StreamStep, Create, Abandon, Begin, Advance, End, BeginDestroy, EndDestroy
<1>3. CASE queued'
  BY <1>1, <1>2, <1>3 DEF PriorityKept, LimitKept, DeadlinesKept, Coming, told, settings
<1>4. CASE ~queued'
  <2>1. /\ ~queued
        /\ (\E p \in Pieces : Create(s, p)) \/ Abandon(s) \/ End(s)
    <3>1. (\E p \in Pieces : Create(s, p)) \/ Abandon(s) \/ End(s)
      BY <1>4 DEF StreamStep, Begin, Advance, BeginDestroy, EndDestroy
    <3>2. queued' = queued
      BY <3>1 DEF Create, Abandon, End
    <3>. QED
      BY <1>4, <3>1, <3>2
  <2>2. Started' = Started /\ (~Active' => ~Active)
    <3>1. ASSUME NEW p \in Pieces, Create(s, p)
          PROVE  Started' = Started /\ Active'
      BY <3>1 DEF Create, Started, Registered, Active, Unstarted, TypeOK, Stream
    <3>2. CASE Abandon(s)
      BY <3>2 DEF Abandon, Started, Registered, Active, Unstarted, TypeOK
    <3>3. CASE End(s)
      BY <3>3 DEF End, Started, Registered, Active, Unstarted, TypeOK
    <3>. QED
      BY <2>1, <3>1, <3>2, <3>3
  <2>3. PriorityKept' /\ LimitKept'
    BY <1>2, <2>1, <2>2 DEF PriorityKept, LimitKept, told, settings
  <2>4. \A t \in Streams : stream'[t].pc = "running" =>
          stream[t].pc = "running" /\ stream'[t].piece = stream[t].piece
    <3>. DEFINE Same(t) == stream[t].pc = "running" /\ stream'[t].piece = stream[t].piece
    <3>1. ASSUME NEW p \in Pieces, Create(s, p), NEW t \in Streams, stream'[t].pc = "running"
          PROVE  Same(t)
      BY <3>1 DEF Create, TypeOK, Stream
    <3>2. ASSUME Abandon(s), NEW t \in Streams, stream'[t].pc = "running" PROVE Same(t)
      BY <3>2 DEF Abandon, TypeOK
    <3>3. ASSUME End(s), NEW t \in Streams, stream'[t].pc = "running" PROVE Same(t)
      BY <3>3 DEF End, TypeOK
    <3>. QED
      BY <2>1, <3>1, <3>2, <3>3
  <2>5. Started' = Registered' => Coming' \/ Current' = GetDeadlines'
    <3>1. CASE (\E p \in Pieces : Create(s, p)) \/ Abandon(s)
      <4>1. s \in Registered' /\ Unstarted(s)'
        BY <3>1 DEF Create, Abandon, Registered, Unstarted, TypeOK, Stream
      <4>. QED
        BY <4>1 DEF Started
    <3>2. CASE End(s)
      <4>1. Registered' = Registered /\ Asking' = Asking /\ (Active' <=> Active)
        BY <3>2 DEF End, Registered, Asking, Active, TypeOK
      <4>2. \A t \in Asking : stream'[t].piece = stream[t].piece
        BY <3>2 DEF End, TypeOK, Asking, Registered
      <4>3. GetDeadlines' = GetDeadlines
        BY <3>2, <4>1, <4>2, SameDeadlines DEF End
      <4>. QED
        BY <1>2, <2>1, <2>2, <4>1, <4>3 DEF DeadlinesKept, Coming, Current, told
    <3>. QED
      BY <2>1, <3>1, <3>2
  <2>6. DeadlinesKept'
    BY <1>2, <2>1, <2>4, <2>5 DEF DeadlinesKept, Coming, Current, Missing, told
  <2>. QED
    BY <1>1, <2>3, <2>6
<1>. QED
  BY <1>3, <1>4

\* libtorrent and the administrator ask for a run, or change what no run has to set right.
LEMMA WorldStepKeeps ==
    ASSUME IInv,
           \/ \E p \in Pieces : PieceFinished(p)
           \/ ProcessAlerts
           \/ \E p \in Defaults : UpdateDefaultPriority(p)
           \/ \E l \in Limits : UpdateSettings(l)
    PROVE  IInv'
<1>. USE DEF IInv
<1>1. TypeOK'
  <2>1. ASSUME NEW p \in Pieces, PieceFinished(p) PROVE TypeOK'
    BY <2>1 DEF PieceFinished, TypeOK, told, settings
  <2>2. CASE ProcessAlerts
    BY <2>2 DEF ProcessAlerts, TypeOK, told, settings
  <2>3. ASSUME NEW p \in Defaults, UpdateDefaultPriority(p) PROVE TypeOK'
    BY <2>3, ConstantsOK DEF UpdateDefaultPriority, TypeOK, told
  <2>4. ASSUME NEW l \in Limits, UpdateSettings(l) PROVE TypeOK'
    BY <2>4, ConstantsOK DEF UpdateSettings, TypeOK
  <2>. QED
    BY <2>1, <2>2, <2>3, <2>4
<1>2. UNCHANGED <<stream, manager, priority, cachedMax, deadlines>>
  BY DEF PieceFinished, ProcessAlerts, UpdateDefaultPriority, UpdateSettings, told, settings
<1>3. Started' = Started /\ Registered' = Registered /\ (Active' <=> Active)
  BY <1>2 DEF Started, Registered, Active, Unstarted
<1>4. CASE \E p \in Pieces : PieceFinished(p)
  <2>1. alerted' /\ UNCHANGED <<queued, default, limit, maxConnections>>
    BY <1>4 DEF PieceFinished, told, settings
  <2>. QED
    BY <1>1, <1>2, <1>3, <2>1 DEF PriorityKept, LimitKept, DeadlinesKept, Coming
<1>5. CASE ProcessAlerts \/ \E p \in Defaults : UpdateDefaultPriority(p)
  <2>1. queued' /\ UNCHANGED <<limit, maxConnections>>
    BY <1>5 DEF ProcessAlerts, UpdateDefaultPriority, told, settings
  <2>. QED
    BY <1>1, <1>2, <1>3, <2>1 DEF PriorityKept, LimitKept, DeadlinesKept, Coming
<1>6. CASE \E l \in Limits : UpdateSettings(l)
  <2>1. /\ UNCHANGED <<have, alerted, queued, default>>
        /\ limit' \in SetLimits /\ maxConnections' \in SetLimits
    BY <1>6 DEF UpdateSettings, SetLimits
  <2>2. GetDeadlines' = GetDeadlines
    BY <1>2, <1>3, <2>1, SameDeadlines DEF Asking, Registered
  <2>3. PriorityKept' /\ LimitKept'
    BY <1>2, <1>3, <2>1 DEF PriorityKept, LimitKept
  <2>4. DeadlinesKept'
    BY <1>2, <1>3, <2>1, <2>2 DEF DeadlinesKept, Coming, Current, Missing
  <2>. QED
    BY <1>1, <2>3, <2>4
<1>. QED
  BY <1>4, <1>5, <1>6

\* Every step of a run leaves to the rest of it, or to the next, what is still wrong.
LEMMA ManagerStepKeeps ==
    ASSUME IInv, ManagerStep
    PROVE  IInv'
<1>. USE DEF IInv
<1>. USE DEF BeforeConnect, BeforeDeadlines, At, Manager
<1>1. UNCHANGED <<stream, have, alerted, settings>>
  BY DEF ManagerStep, StartRun, CheckPriority, Raise, CheckConnections, Connect, ComputeDeadlines,
     ApplyDeadlines, CheckRestore, Lower
<1>2. TypeOK'
  <2>1. NoTarget \in [Pieces -> Nat \union {NoDeadline}]
    BY DEF NoTarget
  <2>2. CASE StartRun
    BY <2>1, <2>2 DEF StartRun, TypeOK, told, settings
  <2>9. CASE CheckPriority
    BY <2>1, <2>9 DEF CheckPriority, TypeOK, told, settings
  <2>10. CASE Raise
    BY <2>1, <2>10 DEF Raise, TypeOK, settings
  <2>3. CASE CheckConnections
    BY <2>1, <2>3, ConstantsOK DEF CheckConnections, TypeOK, told, settings
  <2>6. CASE Connect
    BY <2>1, <2>6 DEF Connect, TypeOK, settings
  <2>4. CASE ComputeDeadlines
    BY <2>4, GetDeadlinesType DEF ComputeDeadlines, TypeOK, told, settings
  <2>5. CASE ApplyDeadlines
    BY <2>1, <2>5 DEF ApplyDeadlines, TypeOK, settings
  <2>7. CASE CheckRestore
    BY <2>1, <2>7 DEF CheckRestore, TypeOK, told, settings
  <2>8. CASE Lower
    BY <2>1, <2>8 DEF Lower, TypeOK, settings
  <2>. QED
    BY <2>2, <2>3, <2>4, <2>5, <2>6, <2>7, <2>8, <2>9, <2>10 DEF ManagerStep
<1>3. Started' = Started /\ Registered' = Registered /\ (Active' <=> Active) /\ Missing' = Missing
  BY <1>1 DEF Started, Registered, Active, Unstarted, Missing
<1>4. GetDeadlines' = GetDeadlines
  BY <1>1, <1>3, SameDeadlines DEF Asking, Registered
<1>5. Started # {} => Active
  BY DEF Started, Active
<1>6. PriorityKept'
  BY <1>1, <1>3, <1>5 DEF ManagerStep, StartRun, CheckPriority, Raise, CheckConnections, Connect,
     ComputeDeadlines, ApplyDeadlines, CheckRestore, Lower, PriorityKept, told, settings
<1>7. LimitKept'
  BY <1>1, <1>3 DEF ManagerStep, StartRun, CheckPriority, Raise, CheckConnections, Connect,
     ComputeDeadlines, ApplyDeadlines, CheckRestore, Lower, LimitKept, told, settings
<1>8. DeadlinesKept'
  <2>1. CASE ComputeDeadlines
    BY <1>1, <1>3, <1>4, <2>1, UrgentPiece DEF ComputeDeadlines, DeadlinesKept, Coming, Current
  <2>2. CASE ManagerStep /\ ~ComputeDeadlines
    BY <1>1, <1>3, <1>4, <2>2 DEF ManagerStep, StartRun, CheckPriority, Raise, CheckConnections,
       Connect, ApplyDeadlines, CheckRestore, Lower, DeadlinesKept, Coming, Current, told
  <2>. QED
    BY <2>1, <2>2
<1>. QED
  BY <1>2, <1>6, <1>7, <1>8

LEMMA StutterStep ==
    ASSUME IInv, UNCHANGED vars
    PROVE  IInv'
BY DEF IInv, vars, TypeOK, PriorityKept, LimitKept, DeadlinesKept, Coming, Current, GetDeadlines,
   AskedFor, Asking, Wanted, Deadline, Distance, Boundary, Missing, Started, Unstarted, Active,
   Registered

-----------------------------------------------------------------------------
\* The inductive invariant holds in every reachable state.
THEOREM Invariance == Spec => []IInv
<1>1. Init => IInv
  BY InitIInv
<1>2. IInv /\ [Next]_vars => IInv'
  BY StreamStepKeeps, WorldStepKeeps, ManagerStepKeeps, StutterStep DEF Next, StreamStep
<1>. QED
  BY <1>1, <1>2, PTL DEF Spec

\* Every variable keeps its type, the deadlines a run computes among them.
THEOREM TypeCorrect == Spec => []TypeOK
BY Invariance, PTL DEF IInv

\* When all is quiet a watched torrent downloads by deadline only, and one that nobody watches has
\* its default priority back (entities.py:98-118).
THEOREM PrioritySettledHolds == Spec => []PrioritySettled
<1>1. IInv => PrioritySettled
  BY DEF IInv, PriorityKept, PrioritySettled, Settled
<1>. QED
  BY Invariance, <1>1, PTL

\* When all is quiet the deadlines are those the streams ask for now (entities.py:123-176).
THEOREM DeadlinesSettledHolds == Spec => []DeadlinesSettled
<1>1. IInv => DeadlinesSettled
  BY DEF IInv, DeadlinesKept, Coming, Current, BeforeDeadlines, BeforeConnect, DeadlinesSettled,
     Settled, Started, Registered
<1>. QED
  BY Invariance, <1>1, PTL

\* When all is quiet a torrent that nobody watches has given its connections back
\* (entities.py:84-96).
THEOREM ConnectionsReleasedHolds == Spec => []ConnectionsReleased
<1>1. IInv => ConnectionsReleased
  BY DEF IInv, LimitKept, SetLimits, BeforeConnect, ConnectionsReleased, Settled
<1>. QED
  BY Invariance, <1>1, PTL

=============================================================================
