-------------------------- MODULE PieceFetch_proofs --------------------------
(***************************************************************************)
(* Proofs about PieceFetch, for any number of streams, pieces, tasks and   *)
(* additions of the torrent.                                               *)
(*                                                                         *)
(* The dictionary of fetch tasks and the running tasks name each other:    *)
(* that makes the task of a piece unique, which is what keeps the single   *)
(* future of a piece from being overwritten while somebody waits for it,   *)
(* and what maps the end of a task to the landing of its flight.           *)
(***************************************************************************)
EXTENDS PieceFetch, FiniteSetTheorems, SequenceTheorems, WellFoundedInduction, TLAPS

\* A task in the dictionary runs, for that piece.
DictLive ==
    \A p \in Pieces :
        fetchTask[p] # NoTask => Live(fetchTask[p]) /\ task[fetchTask[p]].piece = p

\* A task that runs is in the dictionary.
LiveInDict ==
    \A t \in Tasks :
        Live(t) => task[t].piece \in Pieces /\ fetchTask[task[t].piece] = t

\* A stream waits for a task that runs or has a result.
WaitersServed ==
    \A r \in Readers :
        reader[r].pc = "waiting" =>
            /\ reader[r].task \in Tasks
            /\ task[reader[r].task].pc = "done" => task[reader[r].task].result \in Results

IInv == TypeOK /\ DictLive /\ LiveInDict /\ WaitersServed /\ NoLostWakeup

-----------------------------------------------------------------------------
(* The first result among the alerts of a piece exists when any does. *)

LessThan == {ss \in Nat \X Nat : ss[1] < ss[2]}

\* A non-empty set of naturals has a least element.
LEMMA LeastNat ==
    ASSUME NEW S \in SUBSET Nat, S # {}
    PROVE  \E x \in S : \A y \in S : x <= y
<1>1. IsWellFoundedOn(LessThan, Nat)
  BY NatLessThanWellFounded, Zenon DEF OpToRel, LessThan
<1>2. PICK x \in S : \A y \in S : <<y, x>> \notin LessThan
  BY <1>1, WFMin, Zenon
<1>3. ASSUME NEW y \in S PROVE x <= y
  <2>1. x \in Nat /\ y \in Nat /\ <<y, x>> \notin LessThan
    BY <1>2
  <2>. QED
    BY <2>1 DEF LessThan
<1>. QED
  BY <1>3

\* What resolves a future is a result of a read.
LEMMA FirstResultType ==
    ASSUME NEW s \in Seq(Results \union {"finished"}), HasResult(s)
    PROVE  FirstResult(s) \in Results
<1>. DEFINE S == {i \in DOMAIN s : s[i] # "finished"}
<1>1. S \in SUBSET Nat /\ S # {}
  BY DEF HasResult
<1>2. PICK i \in S : \A j \in S : i <= j
  BY <1>1, LeastNat
<1>3. i \in DOMAIN s /\ s[i] # "finished" /\ \A j \in 1 .. i - 1 : s[j] = "finished"
  BY <1>2
<1>4. PICK k \in DOMAIN s : FirstResult(s) = s[k] /\ s[k] # "finished"
  BY <1>3 DEF FirstResult
<1>. QED
  BY <1>4

-----------------------------------------------------------------------------
(* Each action preserves the inductive invariant. *)

\* Initially nothing runs and no stream is open.
LEMMA InitIInv == Init => IInv
<1>. SUFFICES ASSUME Init PROVE IInv
  OBVIOUS
<1>1. TypeOK
  BY ConstantsOK DEF Init, TypeOK, Over, Task, Closed, Reader, TaskRecords,
     ReaderRecords, LastAttempt, Results
<1>. QED
  BY <1>1 DEF IInv, Init, DictLive, LiveInDict, WaitersServed, NoLostWakeup, Live,
     Over, Task, Closed, Reader

\* Whatever a stream does short of asking for a piece leaves the tasks alone,
\* and never makes it wait for a task.
LEMMA ReaderStep ==
    ASSUME IInv, NEW r \in Readers, NEW h \in Nat, NEW pc \in {"closed", "open"},
           reader' = [reader EXCEPT ![r] = Reader(pc, h, NoTask)],
           UNCHANGED <<torrentVars, reads, alerts, fetchTask, pending, task>>
    PROVE  IInv'
<1>. USE DEF IInv, torrentVars
<1>1. TypeOK'
  BY DEF TypeOK, Reader, ReaderRecords
<1>2. WaitersServed'
  BY DEF WaitersServed, TypeOK, Reader
<1>3. DictLive' /\ LiveInDict' /\ NoLostWakeup'
  BY DEF DictLive, LiveInDict, NoLostWakeup, Live
<1>. QED
  BY <1>1, <1>2, <1>3

\* A stream opens, ends, goes on with its bytes or goes away.
LEMMA StreamStep ==
    ASSUME IInv, NEW r \in Readers,
           Open(r) \/ GetPieceStale(r) \/ Collect(r) \/ Disconnect(r)
    PROVE  IInv'
<1>1. reader[r].handle \in Nat /\ handle \in Nat
  BY DEF IInv, TypeOK, ReaderRecords
<1>. QED
  BY <1>1, ReaderStep DEF Open, GetPieceStale, Collect, Disconnect, Closed, torrentVars

\* A stream asks for a piece: it shares the task of the piece, or makes one,
\* which then is the only one.
LEMMA GetPieceStep ==
    ASSUME IInv, NEW r \in Readers, NEW p \in Pieces, GetPiece(r, p)
    PROVE  IInv'
<1>. USE DEF IInv, GetPiece, torrentVars
<1>1. reader[r].handle \in Nat
  BY DEF TypeOK, ReaderRecords
<1>2. CASE GetPieceShared(r, p)
  <2>. USE <1>2 DEF GetPieceShared, Wait
  <2>1. /\ fetchTask[p] \in Tasks /\ task[fetchTask[p]].pc # "done"
        /\ reader' = [reader EXCEPT ![r] = Reader("waiting", reader[r].handle, fetchTask[p])]
    BY DEF Live, TypeOK
  <2>2. TypeOK'
    BY <1>1, <2>1 DEF TypeOK, Reader, ReaderRecords
  <2>3. WaitersServed'
    BY <2>1 DEF WaitersServed, TypeOK, Reader
  <2>4. DictLive' /\ LiveInDict' /\ NoLostWakeup'
    BY DEF DictLive, LiveInDict, NoLostWakeup, Live
  <2>. QED
    BY <2>2, <2>3, <2>4
<1>3. CASE GetPieceNew(r, p)
  <2>1. PICK t \in Unused :
          /\ task' = [task EXCEPT ![t] = NewTask(p, reader[r].handle)]
          /\ fetchTask' = [fetchTask EXCEPT ![p] = t]
          /\ reader' = [reader EXCEPT ![r] = Reader("waiting", reader[r].handle, t)]
    BY <1>3 DEF GetPieceNew, Wait
  <2>2. /\ t \in Tasks /\ t # NoTask /\ task[t].pc = "done"
        /\ \A q \in Pieces : fetchTask[q] # t /\ pending[q] # t
        /\ \A q \in Readers : reader[q].task # t
    BY ConstantsOK DEF Unused, Live
  <2>3. fetchTask[p] = NoTask
    BY <1>3 DEF GetPieceNew, DictLive
  <2>4. NewTask(p, reader[r].handle) \in TaskRecords
    BY <1>1 DEF NewTask, Task, TaskRecords, LastAttempt, Results
  <2>5. TypeOK'
    BY <1>1, <2>1, <2>2, <2>4 DEF TypeOK, Reader, ReaderRecords
  <2>6. /\ task'[t].pc = "ready" /\ task'[t].piece = p
        /\ \A u \in Tasks : u # t => task'[u] = task[u]
        /\ fetchTask'[p] = t
        /\ \A q \in Pieces : q # p => fetchTask'[q] = fetchTask[q]
    BY <2>1, <2>2 DEF TypeOK, NewTask, Task
  <2>7. DictLive'
    <3>. SUFFICES ASSUME NEW q \in Pieces, fetchTask'[q] # NoTask
                  PROVE  /\ task'[fetchTask'[q]].pc # "done"
                         /\ task'[fetchTask'[q]].piece = q
      BY DEF DictLive, Live
    <3>1. CASE q = p
      BY <3>1, <2>6
    <3>2. CASE q # p
      <4>1. fetchTask[q] \in Tasks /\ fetchTask[q] # t /\ fetchTask'[q] = fetchTask[q]
        BY <3>2, <2>2, <2>6 DEF TypeOK
      <4>2. task[fetchTask[q]].pc # "done" /\ task[fetchTask[q]].piece = q
        BY <4>1 DEF DictLive, Live
      <4>. QED
        BY <4>1, <4>2, <2>6
    <3>. QED
      BY <3>1, <3>2
  <2>8. LiveInDict'
    BY <2>2, <2>3, <2>6 DEF LiveInDict, Live
  <2>9. WaitersServed'
    BY <2>1, <2>2, <2>6 DEF WaitersServed, Reader, TypeOK
  <2>10. NoLostWakeup'
    BY <2>6 DEF NoLostWakeup
  <2>. QED
    BY <2>5, <2>7, <2>8, <2>9, <2>10
<1>. QED
  BY <1>2, <1>3
\* A task that ends leaves the dictionary; its result is what its streams get.
LEMMA FinishStep ==
    ASSUME IInv, NEW t \in Tasks, Live(t), NEW result \in Results, Finish(t, result),
           UNCHANGED <<handle, adds, have, reads, alerts, reader>>,
           pending' \in [Pieces -> Tasks \union {NoTask}],
           \A q \in Pieces \ {task[t].piece} : pending'[q] = pending[q]
    PROVE  IInv'
<1>. USE DEF IInv, Finish
<1>. DEFINE p == task[t].piece
<1>1. p \in Pieces /\ fetchTask[p] = t
  BY DEF LiveInDict
<1>2. Over(result) \in TaskRecords
  BY DEF Over, Task, TaskRecords, LastAttempt
<1>3. TypeOK'
  BY <1>1, <1>2 DEF TypeOK
<1>4. /\ task'[t].pc = "done" /\ task'[t].result = result
      /\ \A u \in Tasks : u # t => task'[u] = task[u]
      /\ fetchTask'[p] = NoTask
      /\ \A q \in Pieces : q # p => fetchTask'[q] = fetchTask[q]
  BY <1>1 DEF TypeOK, Over, Task
<1>5. DictLive'
  <2>. SUFFICES ASSUME NEW q \in Pieces, fetchTask'[q] # NoTask
                PROVE  /\ task'[fetchTask'[q]].pc # "done"
                       /\ task'[fetchTask'[q]].piece = q
    BY DEF DictLive, Live
  <2>1. q # p /\ fetchTask'[q] = fetchTask[q] /\ fetchTask[q] \in Tasks
    BY <1>4 DEF TypeOK
  <2>2. task[fetchTask[q]].pc # "done" /\ task[fetchTask[q]].piece = q
    BY <2>1 DEF DictLive, Live
  <2>. QED
    BY <2>1, <2>2, <1>4
<1>6. LiveInDict'
  BY <1>1, <1>4 DEF LiveInDict, Live
<1>7. WaitersServed'
  BY <1>4 DEF WaitersServed
<1>8. NoLostWakeup'
  <2>. SUFFICES ASSUME NEW u \in Tasks, task'[u].pc = "awaiting", task'[u].result = "none"
                PROVE  /\ pending'[task'[u].piece] = u
                       /\ task'[u].piece \in have =>
                            reads[task'[u].piece] > 0 \/ alerts[task'[u].piece] # <<>>
    BY DEF NoLostWakeup
  <2>1. u # t /\ task'[u] = task[u] /\ task[u].piece # p
    BY <1>1, <1>4, ConstantsOK DEF LiveInDict, Live
  <2>2. /\ task[u].piece \in Pieces /\ pending[task[u].piece] = u
        /\ task[u].piece \in have =>
            reads[task[u].piece] > 0 \/ alerts[task[u].piece] # <<>>
    BY <2>1, ConstantsOK DEF NoLostWakeup, LiveInDict, Live
  <2>. QED
    BY <2>1, <2>2
<1>. QED
  BY <1>3, <1>5, <1>6, <1>7, <1>8

\* A task registers its future, then looks for its piece: nobody else waits
\* for the future it replaces.
LEMMA AttemptStep ==
    ASSUME IInv, NEW t \in Tasks, Attempt(t)
    PROVE  IInv'
<1>. USE DEF IInv, Attempt, torrentVars
<1>. DEFINE p == task[t].piece
<1>1. Live(t) /\ p \in Pieces /\ fetchTask[p] = t
  BY ConstantsOK DEF LiveInDict, Live
<1>2. pending' = [pending EXCEPT ![p] = t]
  OBVIOUS
<1>3. pending' \in [Pieces -> Tasks \union {NoTask}]
  BY <1>1, <1>2 DEF TypeOK
\* Tasks other than t that wait, wait for other pieces.
<1>4. \A u \in Tasks : u # t /\ Live(u) => task[u].piece \in Pieces \ {p}
  BY <1>1 DEF LiveInDict
<1>5. CASE task[t].handle = handle
  <2>1. /\ task' = [task EXCEPT ![t].pc = "awaiting", ![t].result = "none"]
        /\ reads' = IF p \in have THEN [reads EXCEPT ![p] = @ + 1] ELSE reads
        /\ UNCHANGED <<handle, adds, have, alerts, fetchTask, reader>>
    BY <1>5
  <2>2. task'[t] \in TaskRecords
    BY <2>1 DEF TypeOK, TaskRecords
  <2>3. /\ task'[t].pc = "awaiting" /\ task'[t].piece = p
        /\ \A u \in Tasks : u # t => task'[u] = task[u]
    BY <2>1 DEF TypeOK, TaskRecords
  <2>4. reads' \in [Pieces -> Nat] /\ task' \in [Tasks -> TaskRecords]
    BY <1>1, <2>1, <2>2 DEF TypeOK
  <2>5. TypeOK'
    BY <1>3, <2>1, <2>4 DEF TypeOK
  <2>6. DictLive'
    BY <1>1, <2>1, <2>3 DEF DictLive, Live, TypeOK
  <2>7. LiveInDict' /\ WaitersServed'
    BY <1>1, <2>1, <2>3 DEF LiveInDict, WaitersServed, Live
  <2>8. NoLostWakeup'
    <3>. SUFFICES ASSUME NEW u \in Tasks, task'[u].pc = "awaiting",
                         task'[u].result = "none"
                  PROVE  /\ pending'[task'[u].piece] = u
                         /\ task'[u].piece \in have =>
                              reads'[task'[u].piece] > 0 \/ alerts[task'[u].piece] # <<>>
      BY <2>1 DEF NoLostWakeup
    <3>1. CASE u = t
      BY <3>1, <1>1, <1>2, <2>1, <2>3 DEF TypeOK
    <3>2. CASE u # t
      <4>1. task'[u] = task[u] /\ Live(u) /\ task[u].piece \in Pieces \ {p}
        BY <3>2, <2>3, <1>4, ConstantsOK DEF Live
      <4>2. /\ pending[task[u].piece] = u
            /\ task[u].piece \in have =>
                reads[task[u].piece] > 0 \/ alerts[task[u].piece] # <<>>
        BY <4>1 DEF NoLostWakeup
      <4>. QED
        BY <4>1, <4>2, <1>2, <2>1 DEF TypeOK
    <3>. QED
      BY <3>1, <3>2
  <2>. QED
    BY <2>5, <2>6, <2>7, <2>8
<1>6. CASE task[t].handle # handle
  \* The future stays behind, registered for nobody.
  <2>1. Finish(t, "failed") /\ UNCHANGED <<handle, adds, have, reads, alerts, reader>>
    BY <1>6
  <2>2. \A q \in Pieces \ {p} : pending'[q] = pending[q]
    BY <1>2 DEF TypeOK
  <2>. QED
    BY <1>1, <1>3, <2>1, <2>2, FinishStep DEF Results
<1>. QED
  BY <1>5, <1>6
\* A task whose future is resolved pauses before another attempt, or ends.
LEMMA ResumeStep ==
    ASSUME IInv, NEW t \in Tasks, Resume(t)
    PROVE  IInv'
<1>. USE DEF IInv, Resume, torrentVars
<1>. DEFINE p == task[t].piece
<1>1. Live(t) /\ p \in Pieces /\ fetchTask[p] = t
  BY ConstantsOK DEF LiveInDict, Live
<1>2. /\ pending' \in [Pieces -> Tasks \union {NoTask}]
      /\ \A q \in Pieces \ {p} : pending'[q] = pending[q]
  BY <1>1 DEF TypeOK
<1>3. task[t].result \in Results /\ task[t].attempt \in 0 .. LastAttempt
  BY DEF TypeOK, TaskRecords
<1>4. CASE Finish(t, task[t].result)
  <2>1. UNCHANGED <<handle, adds, have, reads, alerts, reader>>
    OBVIOUS
  <2>. QED
    BY <2>1, <1>1, <1>2, <1>3, <1>4, FinishStep
<1>5. CASE /\ task[t].attempt < LastAttempt
           /\ task' = [task EXCEPT ![t].pc = "sleeping", ![t].attempt = @ + 1]
           /\ UNCHANGED fetchTask
  <2>1. task'[t] \in TaskRecords
    BY <1>3, <1>5 DEF TypeOK, TaskRecords, LastAttempt
  <2>2. /\ task'[t].pc = "sleeping" /\ task'[t].piece = p
        /\ \A u \in Tasks : u # t => task'[u] = task[u]
    BY <1>5 DEF TypeOK, TaskRecords
  <2>3. task' \in [Tasks -> TaskRecords]
    BY <1>5, <2>1 DEF TypeOK
  <2>4. TypeOK'
    BY <1>2, <1>5, <2>3 DEF TypeOK
  <2>5. DictLive'
    BY <1>1, <1>5, <2>2 DEF DictLive, Live, TypeOK
  <2>6. LiveInDict' /\ WaitersServed'
    BY <1>1, <1>5, <2>2 DEF LiveInDict, WaitersServed, Live
  <2>7. NoLostWakeup'
    <3>. SUFFICES ASSUME NEW u \in Tasks, task'[u].pc = "awaiting",
                         task'[u].result = "none"
                  PROVE  /\ pending'[task'[u].piece] = u
                         /\ task'[u].piece \in have =>
                              reads[task'[u].piece] > 0 \/ alerts[task'[u].piece] # <<>>
      BY DEF NoLostWakeup
    <3>1. u # t /\ task'[u] = task[u]
      BY <2>2
    <3>2. task[u].piece \in Pieces \ {p}
      BY <1>1, <3>1, ConstantsOK DEF LiveInDict, Live
    <3>. QED
      BY <3>1, <3>2, <1>2 DEF NoLostWakeup
  <2>. QED
    BY <2>4, <2>5, <2>6, <2>7
<1>. QED
  BY <1>4, <1>5

\* The alerts are drained: a future is resolved, or the piece is read again,
\* or nobody waits.
LEMMA ProcessAlertsStep ==
    ASSUME IInv, ProcessAlerts
    PROVE  IInv'
<1>. USE DEF IInv, ProcessAlerts, torrentVars
<1>. DEFINE Woken(t) == /\ task[t].pc = "awaiting" /\ task[t].result = "none"
                        /\ Resolved(task[t].piece) /\ pending[task[t].piece] = t
<1>1. ASSUME NEW t \in Tasks, Woken(t)
      PROVE  task'[t] = [task[t] EXCEPT !.result = FirstResult(alerts[task[t].piece])]
  BY <1>1
<1>2. ASSUME NEW t \in Tasks, ~Woken(t) PROVE task'[t] = task[t]
  BY <1>2
<1>3. ASSUME NEW t \in Tasks, Woken(t)
      PROVE  FirstResult(alerts[task[t].piece]) \in Results
  <2>1. task[t].piece \in Pieces
    BY <1>3, ConstantsOK DEF LiveInDict, Live
  <2>. QED
    BY <2>1, <1>3, FirstResultType DEF TypeOK, Resolved
<1>4. ASSUME NEW t \in Tasks
      PROVE  /\ task'[t] \in TaskRecords
             /\ task'[t].pc = task[t].pc /\ task'[t].piece = task[t].piece
             /\ task'[t].result # task[t].result => Woken(t)
  <2>1. task[t] \in TaskRecords
    BY DEF TypeOK
  <2>2. CASE Woken(t)
    BY <2>1, <2>2, <1>1, <1>3 DEF TaskRecords
  <2>3. CASE ~Woken(t)
    BY <2>1, <2>3, <1>2
  <2>. QED
    BY <2>2, <2>3
<1>5. TypeOK'
  <2>1. task' \in [Tasks -> TaskRecords]
    BY <1>4
  <2>2. reads' \in [Pieces -> Nat] /\ pending' \in [Pieces -> Tasks \union {NoTask}]
    BY DEF TypeOK
  <2>3. alerts' \in [Pieces -> Seq(Results \union {"finished"})]
    BY EmptySeq
  <2>. QED
    BY <2>1, <2>2, <2>3 DEF TypeOK
<1>6. DictLive'
  BY <1>4 DEF DictLive, Live, TypeOK
<1>7. LiveInDict'
  BY <1>4 DEF LiveInDict, Live
<1>8. WaitersServed'
  BY <1>4 DEF WaitersServed
<1>9. NoLostWakeup'
  <2>. SUFFICES ASSUME NEW t \in Tasks, task'[t].pc = "awaiting", task'[t].result = "none"
                PROVE  /\ pending'[task'[t].piece] = t
                       /\ task'[t].piece \in have =>
                            reads'[task'[t].piece] > 0 \/ alerts'[task'[t].piece] # <<>>
    BY DEF NoLostWakeup
  <2>1. ~Woken(t) /\ task'[t] = task[t]
    BY <1>1, <1>2, <1>3 DEF Results, TypeOK, TaskRecords
  <2>2. PICK p \in Pieces : p = task[t].piece
    BY <2>1, ConstantsOK DEF LiveInDict, Live
  <2>3. pending[p] = t /\ (p \in have => reads[p] > 0 \/ alerts[p] # <<>>)
    BY <2>1, <2>2 DEF NoLostWakeup
  <2>4. ~Resolved(p)
    BY <2>1, <2>2, <2>3
  <2>5. pending'[p] = t
    BY <2>3, <2>4
  <2>6. ASSUME p \in have PROVE reads'[p] > 0
    <3>1. reads[p] \in Nat /\ alerts[p] \in Seq(Results \union {"finished"})
      BY DEF TypeOK
    <3>2. CASE alerts[p] = <<>>
      BY <3>1, <3>2, <2>3, <2>6
    <3>3. CASE alerts[p] # <<>>
      <4>1. 1 \in DOMAIN alerts[p] /\ Head(alerts[p]) = alerts[p][1]
        BY <3>1, <3>3
      <4>2. alerts[p][1] = "finished"
        BY <4>1, <2>3, <2>4, ConstantsOK DEF Resolved, HasResult
      <4>3. Reread(p)
        BY <4>1, <4>2, <3>3, <2>3, ConstantsOK DEF Reread
      <4>. QED
        BY <4>3, <3>1
    <3>. QED
      BY <3>2, <3>3
  <2>. QED
    BY <2>1, <2>2, <2>5, <2>6
<1>. QED
  BY <1>5, <1>6, <1>7, <1>8, <1>9

\* libtorrent changes what is on disk and posts alerts; a piece that arrives
\* or a read that ends leaves an alert.
LEMMA LibtorrentStep ==
    ASSUME IInv,
           \/ \E p \in Pieces :
                PieceFinished(p) \/ \E result \in Results : ReadDone(p, result)
           \/ RemoveTorrent
           \/ AddTorrent
    PROVE  IInv'
<1>. USE DEF IInv, torrentVars
<1>1. ASSUME NEW p \in Pieces, PieceFinished(p) PROVE TypeOK' /\ NoLostWakeup'
  <2>. USE <1>1 DEF PieceFinished
  <2>1. alerts[p] \in Seq(Results \union {"finished"})
    BY DEF TypeOK
  <2>2. /\ Append(alerts[p], "finished") \in Seq(Results \union {"finished"})
        /\ Append(alerts[p], "finished") # <<>>
    BY <2>1
  <2>3. alerts' \in [Pieces -> Seq(Results \union {"finished"})]
    BY <2>2 DEF TypeOK
  <2>4. alerts'[p] # <<>> /\ \A q \in Pieces : q # p => alerts'[q] = alerts[q]
    BY <2>2 DEF TypeOK
  <2>5. TypeOK'
    BY <2>3 DEF TypeOK
  <2>6. NoLostWakeup'
    BY <2>4 DEF NoLostWakeup
  <2>. QED
    BY <2>5, <2>6
<1>2. ASSUME NEW p \in Pieces, NEW result \in Results, ReadDone(p, result)
      PROVE  TypeOK' /\ NoLostWakeup'
  <2>. USE <1>2 DEF ReadDone
  <2>1. alerts[p] \in Seq(Results \union {"finished"})
    BY DEF TypeOK
  <2>2. /\ Append(alerts[p], result) \in Seq(Results \union {"finished"})
        /\ Append(alerts[p], result) # <<>>
    BY <2>1
  <2>3. alerts' \in [Pieces -> Seq(Results \union {"finished"})]
    BY <2>2 DEF TypeOK
  <2>4. /\ alerts'[p] # <<>>
        /\ \A q \in Pieces : q # p => alerts'[q] = alerts[q] /\ reads'[q] = reads[q]
    BY <2>2 DEF TypeOK
  <2>5. reads' \in [Pieces -> Nat]
    BY DEF TypeOK
  <2>6. TypeOK'
    BY <2>3, <2>5 DEF TypeOK
  <2>7. NoLostWakeup'
    BY <2>4, ConstantsOK DEF NoLostWakeup, LiveInDict, Live
  <2>. QED
    BY <2>6, <2>7
<1>3. CASE RemoveTorrent
  <2>1. alerts' \in [Pieces -> Seq(Results \union {"finished"})]
    BY <1>3, EmptySeq DEF RemoveTorrent
  <2>2. TypeOK'
    BY <1>3, <2>1 DEF RemoveTorrent, TypeOK
  <2>3. NoLostWakeup'
    BY <1>3 DEF RemoveTorrent, NoLostWakeup
  <2>4. UNCHANGED <<fetchTask, task, reader>>
    BY <1>3 DEF RemoveTorrent
  <2>. QED
    BY <2>2, <2>3, <2>4 DEF DictLive, LiveInDict, WaitersServed, Live
<1>4. CASE AddTorrent
  <2>1. TypeOK' /\ NoLostWakeup'
    BY <1>4 DEF AddTorrent, TypeOK, NoLostWakeup
  <2>2. UNCHANGED <<fetchTask, task, reader>>
    BY <1>4 DEF AddTorrent
  <2>. QED
    BY <2>1, <2>2 DEF DictLive, LiveInDict, WaitersServed, Live
<1>5. ASSUME NEW p \in Pieces,
             PieceFinished(p) \/ \E result \in Results : ReadDone(p, result)
      PROVE  IInv'
  <2>1. UNCHANGED <<fetchTask, task, reader>>
    BY <1>5 DEF PieceFinished, ReadDone
  <2>. QED
    BY <2>1, <1>1, <1>2, <1>5 DEF DictLive, LiveInDict, WaitersServed, Live
<1>. QED
  BY <1>3, <1>4, <1>5

-----------------------------------------------------------------------------
\* The inductive invariant holds in every reachable state.
THEOREM Invariance == Spec => []IInv
<1>1. Init => IInv
  BY InitIInv
<1>2. IInv /\ [Next]_vars => IInv'
  <2>. SUFFICES ASSUME IInv, [Next]_vars PROVE IInv'
    OBVIOUS
  <2>1. ASSUME NEW r \in Readers, NEW p \in Pieces, GetPiece(r, p) PROVE IInv'
    BY <2>1, GetPieceStep
  <2>2. ASSUME NEW r \in Readers,
               Open(r) \/ GetPieceStale(r) \/ Collect(r) \/ Disconnect(r)
        PROVE  IInv'
    BY <2>2, StreamStep
  <2>3. ASSUME NEW t \in Tasks, Attempt(t) PROVE IInv'
    BY <2>3, AttemptStep
  <2>4. ASSUME NEW t \in Tasks, Resume(t) PROVE IInv'
    BY <2>4, ResumeStep
  <2>5. CASE ProcessAlerts
    BY <2>5, ProcessAlertsStep
  <2>6. CASE \/ \E p \in Pieces :
                 PieceFinished(p) \/ \E result \in Results : ReadDone(p, result)
             \/ RemoveTorrent
             \/ AddTorrent
    BY <2>6, LibtorrentStep
  <2>7. CASE UNCHANGED vars
    BY <2>7 DEF vars, torrentVars, IInv, TypeOK, DictLive, LiveInDict, WaitersServed,
       NoLostWakeup, Live
  <2>. QED
    BY <2>1, <2>2, <2>3, <2>4, <2>5, <2>6, <2>7 DEF Next
<1>. QED
  BY <1>1, <1>2, PTL DEF Spec

\* RelayService: one task per piece, and the dictionary names exactly the
\* tasks that run.
THEOREM OneFetchPerPieceHolds == Spec => []OneFetchPerPiece
<1>1. IInv => OneFetchPerPiece
  BY DEF IInv, DictLive, LiveInDict, OneFetchPerPiece
<1>. QED
  BY <1>1, Invariance, PTL

\* RelayService: a task that waits for a piece that is there is never
\* forgotten.
THEOREM NoLostWakeupHolds == Spec => []NoLostWakeup
<1>1. IInv => NoLostWakeup
  BY DEF IInv
<1>. QED
  BY <1>1, Invariance, PTL

-----------------------------------------------------------------------------
(* The reads of a piece.  Every alert of a piece counts like a read: the    *)
(* one that says the piece is there stands for the read it may cause.  Two  *)
(* can be outstanding while a task awaits its future, and one otherwise.    *)

Awaited(p) ==
    \E t \in Tasks : task[t].pc = "awaiting" /\ task[t].result = "none" /\ task[t].piece = p

Outstanding(p) == reads[p] + Len(alerts[p])

ReadsMatch ==
    \A p \in Pieces :
        /\ p \notin have => reads[p] = 0 /\ alerts[p] = <<>>
        /\ Outstanding(p) <= IF Awaited(p) THEN 2 ELSE 1

LEMMA OutstandingType ==
    ASSUME TypeOK, NEW p \in Pieces
    PROVE  reads[p] \in Nat /\ Len(alerts[p]) \in Nat /\ (alerts[p] # <<>> => Len(alerts[p]) > 0)
<1>1. reads[p] \in Nat /\ alerts[p] \in Seq(Results \union {"finished"})
  BY DEF TypeOK
<1>. QED
  BY <1>1

\* What leaves reads, alerts and the tasks that wait alone.
LEMMA SameReads ==
    ASSUME IInv, ReadsMatch, NEW p \in Pieces, UNCHANGED <<have, reads, alerts>>,
           Awaited(p) => Awaited(p)'
    PROVE  /\ p \notin have' => reads'[p] = 0 /\ alerts'[p] = <<>>
           /\ Outstanding(p)' <= IF Awaited(p)' THEN 2 ELSE 1
<1>1. Outstanding(p)' = Outstanding(p)
  BY DEF Outstanding
<1>2. Outstanding(p) <= IF Awaited(p) THEN 2 ELSE 1
  BY DEF ReadsMatch
<1>3. Outstanding(p)' <= IF Awaited(p)' THEN 2 ELSE 1
  <2>1. CASE Awaited(p)
    BY <1>1, <1>2, <2>1
  <2>2. CASE ~Awaited(p)
    <3>1. Outstanding(p) <= 1 /\ Outstanding(p) \in Nat
      BY <1>2, <2>2, OutstandingType DEF IInv, Outstanding
    <3>. QED
      BY <1>1, <3>1
  <2>. QED
    BY <2>1, <2>2
<1>. QED
  BY <1>3 DEF ReadsMatch

\* Who tries has nothing that is awaited, so that its read is at most the second.
LEMMA AttemptReads ==
    ASSUME IInv, ReadsMatch, NEW t \in Tasks, Attempt(t)
    PROVE  ReadsMatch'
<1>. DEFINE p == task[t].piece
<1>1. p \in Pieces /\ fetchTask[p] = t /\ task[t].pc # "awaiting"
  BY ConstantsOK DEF IInv, LiveInDict, Live, Attempt
<1>2. ~Awaited(p)
  BY <1>1, ConstantsOK DEF IInv, LiveInDict, Live, Awaited
<1>3. UNCHANGED <<have, alerts>>
  BY DEF Attempt, torrentVars
<1>4. ASSUME \A u \in Tasks : u # t => task'[u] = task[u], NEW q \in Pieces
      PROVE  Awaited(q) => Awaited(q)'
  BY <1>1, <1>4 DEF Awaited
<1>5. CASE task[t].handle = handle
  <2>1. /\ task' = [task EXCEPT ![t].pc = "awaiting", ![t].result = "none"]
        /\ reads' = IF p \in have THEN [reads EXCEPT ![p] = @ + 1] ELSE reads
    BY <1>5 DEF Attempt
  <2>2. /\ task'[t].pc = "awaiting" /\ task'[t].result = "none" /\ task'[t].piece = p
        /\ \A u \in Tasks : u # t => task'[u] = task[u]
    BY <2>1 DEF IInv, TypeOK, TaskRecords
  <2>. SUFFICES ASSUME NEW q \in Pieces
                PROVE  /\ q \notin have' => reads'[q] = 0 /\ alerts'[q] = <<>>
                       /\ Outstanding(q)' <= IF Awaited(q)' THEN 2 ELSE 1
    BY DEF ReadsMatch
  <2>3. CASE q = p
    <3>1. Awaited(q)'
      BY <2>2, <2>3 DEF Awaited
    <3>2. /\ reads[q] \in Nat /\ Len(alerts[q]) \in Nat /\ reads[q] + Len(alerts[q]) <= 1
          /\ (q \notin have => reads[q] = 0 /\ alerts[q] = <<>>)
      BY <1>2, <2>3, OutstandingType DEF IInv, ReadsMatch, Outstanding
    <3>3. reads'[q] = IF q \in have THEN reads[q] + 1 ELSE reads[q]
      BY <2>1, <2>3 DEF IInv, TypeOK
    <3>. QED
      BY <1>3, <3>1, <3>2, <3>3 DEF Outstanding
  <2>4. CASE q # p
    <3>1. reads'[q] = reads[q]
      BY <2>1, <2>4 DEF IInv, TypeOK
    <3>2. Awaited(q) => Awaited(q)'
      BY <1>4, <2>2
    <3>3. /\ q \notin have => reads[q] = 0 /\ alerts[q] = <<>>
          /\ Outstanding(q) <= IF Awaited(q) THEN 2 ELSE 1
          /\ reads[q] \in Nat /\ Len(alerts[q]) \in Nat
      BY OutstandingType DEF ReadsMatch, IInv
    <3>4. Outstanding(q)' = Outstanding(q) /\ Outstanding(q) \in Nat
      BY <1>3, <3>1, <3>3 DEF Outstanding
    <3>5. CASE Awaited(q)
      BY <1>3, <3>1, <3>2, <3>3, <3>4, <3>5
    <3>6. CASE ~Awaited(q)
      <4>1. Outstanding(q) <= 1
        BY <3>3, <3>6
      <4>. QED
        BY <1>3, <3>1, <3>3, <3>4, <4>1
    <3>. QED
      BY <3>5, <3>6
  <2>. QED
    BY <2>3, <2>4
<1>6. CASE task[t].handle # handle
  <2>1. UNCHANGED reads /\ \A u \in Tasks : u # t => task'[u] = task[u]
    BY <1>6 DEF Attempt, Finish, IInv, TypeOK
  <2>. QED
    BY <1>3, <1>4, <2>1, SameReads DEF ReadsMatch
<1>. QED
  BY <1>5, <1>6

\* An alert that is handled may cause a read, and is gone; what resolves the future is the second.
LEMMA ProcessAlertsReads ==
    ASSUME IInv, ReadsMatch, ProcessAlerts
    PROVE  ReadsMatch'
<1>. SUFFICES ASSUME NEW p \in Pieces
              PROVE  /\ p \notin have' => reads'[p] = 0 /\ alerts'[p] = <<>>
                     /\ Outstanding(p)' <= IF Awaited(p)' THEN 2 ELSE 1
  BY DEF ReadsMatch
<1>1. /\ reads[p] \in Nat /\ Len(alerts[p]) \in Nat
      /\ alerts[p] \in Seq(Results \union {"finished"})
      /\ reads[p] + Len(alerts[p]) <= IF Awaited(p) THEN 2 ELSE 1
      /\ p \notin have => reads[p] = 0 /\ alerts[p] = <<>>
  BY OutstandingType DEF IInv, TypeOK, ReadsMatch, Outstanding
<1>2. /\ alerts'[p] = <<>> /\ have' = have
      /\ reads'[p] = IF Reread(p) THEN reads[p] + 1 ELSE reads[p]
  BY DEF ProcessAlerts, torrentVars
<1>3. Outstanding(p)' = reads'[p]
  BY <1>1, <1>2 DEF Outstanding
<1>4. Reread(p) => p \in have /\ Len(alerts[p]) >= 1
  BY <1>1 DEF Reread
<1>5. ~Resolved(p) => (Awaited(p) => Awaited(p)')
  <2>. SUFFICES ASSUME ~Resolved(p), NEW t \in Tasks,
                       task[t].pc = "awaiting", task[t].result = "none", task[t].piece = p
                PROVE  Awaited(p)'
    BY DEF Awaited
  <2>1. task'[t] = task[t]
    BY DEF ProcessAlerts
  <2>. QED
    BY <2>1 DEF Awaited
<1>6. CASE ~Resolved(p)
  <2>1. CASE alerts[p] = <<>>
    <3>1. ~Reread(p)
      BY <2>1 DEF Reread
    <3>2. reads'[p] = reads[p] /\ reads[p] <= IF Awaited(p) THEN 2 ELSE 1
      BY <1>1, <1>2, <2>1, <3>1
    <3>3. reads'[p] <= IF Awaited(p)' THEN 2 ELSE 1
      <4>1. CASE Awaited(p)
        BY <1>5, <1>6, <3>2, <4>1
      <4>2. CASE ~Awaited(p)
        <5>1. reads'[p] <= 1 /\ reads'[p] \in Nat
          BY <1>1, <3>2, <4>2
        <5>. QED
          BY <5>1
      <4>. QED
        BY <4>1, <4>2
    <3>. QED
      BY <1>1, <1>2, <1>3, <3>2, <3>3
  <2>2. CASE alerts[p] # <<>>
    <3>1. Len(alerts[p]) >= 1
      BY <1>1, <2>2
    <3>2. CASE Awaited(p)
      <4>1. Awaited(p)' /\ reads[p] <= 1
        BY <1>1, <1>5, <1>6, <3>1, <3>2
      <4>. QED
        BY <1>1, <1>2, <1>3, <1>4, <4>1
    <3>3. CASE ~Awaited(p)
      <4>1. reads[p] = 0
        BY <1>1, <3>1, <3>3
      <4>2. reads'[p] <= 1 /\ reads'[p] \in Nat
        BY <1>2, <4>1
      <4>. QED
        BY <1>1, <1>2, <1>3, <1>4, <4>1, <4>2
    <3>. QED
      BY <3>2, <3>3
  <2>. QED
    BY <2>1, <2>2
<1>7. CASE Resolved(p)
  <2>1. PICK i \in DOMAIN alerts[p] : alerts[p][i] # "finished"
    BY <1>7 DEF Resolved, HasResult
  <2>2. Len(alerts[p]) >= 1 /\ (Reread(p) => Len(alerts[p]) >= 2)
    <3>1. DOMAIN alerts[p] = 1 .. Len(alerts[p]) /\ i \in 1 .. Len(alerts[p])
      BY <1>1, <2>1
    <3>2. ASSUME Reread(p) PROVE i # 1
      BY <1>1, <2>1, <3>2 DEF Reread
    <3>. QED
      BY <1>1, <3>1, <3>2
  <2>3. reads[p] + Len(alerts[p]) <= 2
    BY <1>1
  <2>4. reads'[p] <= 1 /\ reads'[p] \in Nat
    BY <1>1, <1>2, <2>2, <2>3
  <2>. QED
    BY <1>1, <1>2, <1>3, <1>4, <2>4
<1>. QED
  BY <1>6, <1>7

\* A piece arrives when nothing of it is outstanding; a read that ends becomes an alert.
LEMMA LibtorrentReads ==
    ASSUME IInv, ReadsMatch,
           \/ \E p \in Pieces :
                PieceFinished(p) \/ \E result \in Results : ReadDone(p, result)
           \/ RemoveTorrent
           \/ AddTorrent
    PROVE  ReadsMatch'
<1>0. UNCHANGED task
  BY DEF PieceFinished, ReadDone, RemoveTorrent, AddTorrent
<1>1. \A q \in Pieces : Awaited(q)' <=> Awaited(q)
  BY <1>0 DEF Awaited
<1>. SUFFICES ASSUME NEW q \in Pieces
              PROVE  /\ q \notin have' => reads'[q] = 0 /\ alerts'[q] = <<>>
                     /\ Outstanding(q)' <= IF Awaited(q)' THEN 2 ELSE 1
  BY DEF ReadsMatch
<1>2. /\ reads[q] \in Nat /\ Len(alerts[q]) \in Nat
      /\ alerts[q] \in Seq(Results \union {"finished"})
      /\ reads[q] + Len(alerts[q]) <= IF Awaited(q) THEN 2 ELSE 1
      /\ q \notin have => reads[q] = 0 /\ alerts[q] = <<>>
  BY OutstandingType DEF IInv, TypeOK, ReadsMatch, Outstanding
<1>3. ASSUME UNCHANGED <<reads, alerts>> \/ (reads'[q] = reads[q] /\ alerts'[q] = alerts[q]),
             q \in have => q \in have'
      PROVE  /\ q \notin have' => reads'[q] = 0 /\ alerts'[q] = <<>>
             /\ Outstanding(q)' <= IF Awaited(q)' THEN 2 ELSE 1
  <2>1. reads'[q] = reads[q] /\ alerts'[q] = alerts[q]
    BY <1>3
  <2>. QED
    BY <1>1, <1>2, <1>3, <2>1 DEF Outstanding
<1>4. ASSUME NEW p \in Pieces, PieceFinished(p)
      PROVE  /\ q \notin have' => reads'[q] = 0 /\ alerts'[q] = <<>>
             /\ Outstanding(q)' <= IF Awaited(q)' THEN 2 ELSE 1
  <2>1. have' = have \union {p} /\ p \notin have /\ reads' = reads
        /\ alerts' = [alerts EXCEPT ![p] = Append(@, "finished")]
    BY <1>4 DEF PieceFinished
  <2>2. CASE q = p
    <3>1. alerts'[q] = Append(<<>>, "finished") /\ reads'[q] = 0
      BY <1>2, <2>1, <2>2 DEF IInv, TypeOK
    <3>2. Len(alerts'[q]) = 1
      BY <3>1
    <3>. QED
      BY <2>1, <2>2, <3>1, <3>2 DEF Outstanding
  <2>3. CASE q # p
    <3>1. alerts'[q] = alerts[q] /\ reads'[q] = reads[q]
      BY <2>1, <2>3 DEF IInv, TypeOK
    <3>. QED
      BY <1>3, <2>1, <3>1
  <2>. QED
    BY <2>2, <2>3
<1>5. ASSUME NEW p \in Pieces, NEW result \in Results, ReadDone(p, result)
      PROVE  /\ q \notin have' => reads'[q] = 0 /\ alerts'[q] = <<>>
             /\ Outstanding(q)' <= IF Awaited(q)' THEN 2 ELSE 1
  <2>1. have' = have /\ reads[p] > 0 /\ reads' = [reads EXCEPT ![p] = @ - 1]
        /\ alerts' = [alerts EXCEPT ![p] = Append(@, result)]
    BY <1>5 DEF ReadDone, torrentVars
  <2>2. CASE q = p
    <3>1. /\ alerts'[q] = Append(alerts[q], result) /\ reads'[q] = reads[q] - 1
          /\ q \in have
      BY <1>2, <2>1, <2>2 DEF IInv, TypeOK
    <3>2. Len(alerts'[q]) = Len(alerts[q]) + 1
      BY <1>2, <3>1
    <3>3. Outstanding(q)' = reads[q] + Len(alerts[q])
      BY <1>2, <3>1, <3>2 DEF Outstanding
    <3>. QED
      BY <1>1, <1>2, <2>1, <3>1, <3>3
  <2>3. CASE q # p
    <3>1. alerts'[q] = alerts[q] /\ reads'[q] = reads[q]
      BY <2>1, <2>3 DEF IInv, TypeOK
    <3>. QED
      BY <1>3, <2>1, <3>1
  <2>. QED
    BY <2>2, <2>3
<1>6. CASE RemoveTorrent
  <2>1. reads'[q] = 0 /\ alerts'[q] = <<>>
    BY <1>6 DEF RemoveTorrent
  <2>2. Outstanding(q)' = 0
    BY <2>1 DEF Outstanding
  <2>. QED
    BY <2>1, <2>2
<1>7. CASE AddTorrent
  BY <1>3, <1>7 DEF AddTorrent
<1>. QED
  BY <1>4, <1>5, <1>6, <1>7

\* The other steps ask for no read and end no wait for one.
LEMMA QuietReads ==
    ASSUME IInv, ReadsMatch, UNCHANGED <<have, reads, alerts>>,
           \A t \in Tasks : task[t].pc = "awaiting" /\ task[t].result = "none" => task'[t] = task[t]
    PROVE  ReadsMatch'
<1>1. \A p \in Pieces : Awaited(p) => Awaited(p)'
  BY DEF Awaited
<1>. QED
  BY <1>1, SameReads DEF ReadsMatch

LEMMA ReadsStep ==
    ASSUME IInv, ReadsMatch, [Next]_vars
    PROVE  ReadsMatch'
<1>1. ASSUME NEW r \in Readers, NEW p \in Pieces, GetPiece(r, p) PROVE ReadsMatch'
  <2>1. UNCHANGED <<have, reads, alerts>>
    BY <1>1 DEF GetPiece, torrentVars
  <2>2. \A t \in Tasks : task[t].pc = "awaiting" => task'[t] = task[t]
    <3>1. CASE GetPieceShared(r, p)
      BY <3>1 DEF GetPieceShared
    <3>2. CASE GetPieceNew(r, p)
      <4>1. PICK t \in Unused : task' = [task EXCEPT ![t] = NewTask(p, reader[r].handle)]
        BY <3>2 DEF GetPieceNew
      <4>2. task[t].pc = "done"
        BY ConstantsOK DEF Unused, Live
      <4>. QED
        BY <4>1, <4>2 DEF IInv, TypeOK
    <3>. QED
      BY <1>1, <3>1, <3>2 DEF GetPiece
  <2>. QED
    BY <2>1, <2>2, QuietReads
<1>2. ASSUME NEW r \in Readers, Open(r) \/ GetPieceStale(r) \/ Collect(r) \/ Disconnect(r)
      PROVE  ReadsMatch'
  BY <1>2, QuietReads DEF Open, GetPieceStale, Collect, Disconnect, torrentVars
<1>3. ASSUME NEW t \in Tasks, Resume(t) PROVE ReadsMatch'
  <2>1. UNCHANGED <<have, reads, alerts>> /\ task[t].result # "none"
    BY <1>3 DEF Resume, torrentVars
  <2>2. \A u \in Tasks : u # t => task'[u] = task[u]
    BY <1>3 DEF Resume, Finish, IInv, TypeOK
  <2>. QED
    BY <2>1, <2>2, QuietReads
<1>4. CASE UNCHANGED vars
  BY <1>4, QuietReads DEF vars, torrentVars
<1>. QED
  BY <1>1, <1>2, <1>3, <1>4, AttemptReads, ProcessAlertsReads, LibtorrentReads DEF Next

\* The results among the alerts of a piece are no more than its alerts.
LEMMA ResultsAmong ==
    ASSUME NEW s \in Seq(Results \union {"finished"})
    PROVE  Cardinality({i \in DOMAIN s : s[i] # "finished"}) \in 0 .. Len(s)
<1>. DEFINE places == {i \in DOMAIN s : s[i] # "finished"}
<1>1. Len(s) \in Nat /\ places \subseteq 1 .. Len(s)
  OBVIOUS
<1>2. IsFiniteSet(1 .. Len(s)) /\ Cardinality(1 .. Len(s)) = Len(s)
  BY <1>1, FS_Interval
<1>. HIDE DEF places
<1>3. IsFiniteSet(places) /\ Cardinality(places) <= Len(s)
  BY <1>1, <1>2, FS_Subset
<1>4. Cardinality(places) \in Nat
  BY <1>3, FS_CardinalityType
<1>. QED
  BY <1>1, <1>3, <1>4 DEF places

\* RelayService: however the arrival of a piece, its alert, the retries and the deletion of the
\* torrent fall, a piece costs at most two disk reads at a time.
THEOREM ReadsBoundedHolds == Spec => []ReadsBounded
<1>1. Init => ReadsMatch
  <2>. SUFFICES ASSUME Init, NEW p \in Pieces
                PROVE  /\ reads[p] = 0 /\ alerts[p] = <<>>
                       /\ Outstanding(p) <= IF Awaited(p) THEN 2 ELSE 1
    BY DEF ReadsMatch
  <2>1. reads[p] = 0 /\ alerts[p] = <<>>
    BY DEF Init
  <2>. QED
    BY <2>1 DEF Outstanding
<1>2. IInv /\ ReadsMatch /\ [Next]_vars => ReadsMatch'
  BY ReadsStep
<1>3. IInv /\ ReadsMatch => ReadsBounded
  <2>. SUFFICES ASSUME IInv, ReadsMatch, NEW p \in Pieces
                PROVE  reads[p] + Cardinality({i \in DOMAIN alerts[p] : alerts[p][i] # "finished"}) <= 2
    BY DEF ReadsBounded
  <2>1. /\ reads[p] \in Nat /\ Len(alerts[p]) \in Nat
        /\ alerts[p] \in Seq(Results \union {"finished"})
    BY OutstandingType DEF IInv, TypeOK
  <2>3. reads[p] + Len(alerts[p]) <= IF Awaited(p) THEN 2 ELSE 1
    BY DEF ReadsMatch, Outstanding
  <2>4. reads[p] + Len(alerts[p]) <= 2
    BY <2>1, <2>3
  <2>2. Cardinality({i \in DOMAIN alerts[p] : alerts[p][i] # "finished"}) \in 0 .. Len(alerts[p])
    BY <2>1, ResultsAmong
  <2>. QED
    BY <2>1, <2>2, <2>4
<1>. QED
  BY <1>1, <1>2, <1>3, Invariance, PTL DEF Spec

-----------------------------------------------------------------------------
(* PieceFetch implements SingleFlight.  The flights are the pieces with a   *)
(* running task, and the steps that neither start nor end a task nor move a *)
(* stream are stutters.                                                     *)

AbsVars == <<Flights, WaitsFor, Answer>>

\* A step that changes no running task's piece, no result of a task that is
\* over and no stream is invisible.
LEMMA Invisible ==
    ASSUME IInv, UNCHANGED reader,
           \A t \in Tasks :
              /\ Live(t)' <=> Live(t)
              /\ task'[t].piece = task[t].piece
              /\ ~Live(t) => task'[t].result = task[t].result
    PROVE  UNCHANGED AbsVars
<1>1. Flights' = Flights
  BY DEF Flights
<1>2. \A r \in Readers : reader[r].pc = "waiting" => reader[r].task \in Tasks
  BY DEF IInv, WaitersServed
<1>3. WaitsFor' = WaitsFor
  BY <1>2 DEF WaitsFor
<1>4. Answer' = Answer
  BY <1>2 DEF Answer
<1>. QED
  BY <1>1, <1>3, <1>4 DEF AbsVars

\* The end of a task is the landing of its flight: the streams that wait for
\* the piece are the ones that wait for this task.
LEMMA FinishLands ==
    ASSUME IInv, NEW t \in Tasks, Live(t), NEW result \in Results, Finish(t, result),
           UNCHANGED reader
    PROVE  Abstract!Next
<1>. USE DEF IInv, Finish
<1>. DEFINE p == task[t].piece
<1>1. p \in Pieces /\ fetchTask[p] = t
  BY DEF LiveInDict
<1>2. /\ ~Live(t)' /\ task'[t].result = result
      /\ \A u \in Tasks : u # t => task'[u] = task[u]
  BY DEF TypeOK, Over, Task, Live
<1>3. \A u \in Tasks : Live(u) /\ task[u].piece = p => u = t
  BY <1>1 DEF LiveInDict
<1>4. \A u \in Tasks : u # t => (Live(u)' <=> Live(u))
  BY <1>2 DEF Live
<1>5. p \in Flights
  BY <1>1 DEF Flights
<1>6. Flights' = Flights \ {p}
  BY <1>1, <1>2, <1>3, <1>4 DEF Flights
<1>7. \A r \in Readers : reader[r].pc = "waiting" => reader[r].task \in Tasks
  BY DEF WaitersServed
\* Who waits for the piece, waits for t.
<1>8. \A r \in Readers : WaitsFor[r] = p <=> (reader[r].pc = "waiting" /\ reader[r].task = t)
  BY <1>1, <1>3, <1>7, ConstantsOK DEF WaitsFor
<1>9. ASSUME NEW r \in Readers
      PROVE  /\ WaitsFor'[r] = IF WaitsFor[r] = p THEN NoPiece ELSE WaitsFor[r]
             /\ Answer'[r] = IF WaitsFor[r] = p THEN result ELSE Answer[r]
  <2>1. CASE reader[r].pc = "waiting" /\ reader[r].task = t
    BY <2>1, <1>2, <1>8 DEF WaitsFor, Answer
  <2>2. CASE ~(reader[r].pc = "waiting" /\ reader[r].task = t)
    <3>1. WaitsFor[r] # p
      BY <2>2, <1>8
    <3>2. WaitsFor'[r] = WaitsFor[r] /\ Answer'[r] = Answer[r]
      BY <2>2, <1>2, <1>4, <1>7 DEF WaitsFor, Answer
    <3>. QED
      BY <3>1, <3>2
  <2>. QED
    BY <2>1, <2>2
<1>10. WaitsFor' = [r \in Readers |-> IF WaitsFor[r] = p THEN NoPiece ELSE WaitsFor[r]]
  <2>1. WaitsFor' = [r \in Readers |-> WaitsFor'[r]]
    BY DEF WaitsFor
  <2>. QED
    BY <2>1, <1>9
<1>11. Answer' = [r \in Readers |-> IF WaitsFor[r] = p THEN result ELSE Answer[r]]
  <2>1. Answer' = [r \in Readers |-> Answer'[r]]
    BY DEF Answer
  <2>. QED
    BY <2>1, <1>9
<1>12. Abstract!Land(p, result)
  BY <1>5, <1>6, <1>10, <1>11 DEF Abstract!Land
<1>. QED
  BY <1>1, <1>12 DEF Abstract!Next

\* A stream that stops waiting, or was not waiting, leaves.
LEMMA ReaderLeaves ==
    ASSUME IInv, NEW r \in Readers, NEW h \in Nat, NEW pc \in {"closed", "open"},
           reader' = [reader EXCEPT ![r] = Reader(pc, h, NoTask)], UNCHANGED task
    PROVE  [Abstract!Next]_AbsVars
<1>. USE DEF IInv
<1>1. reader'[r].pc # "waiting" /\ \A q \in Readers : q # r => reader'[q] = reader[q]
  BY DEF TypeOK, Reader
<1>2. Flights' = Flights
  BY DEF Flights, Live
<1>3. ASSUME NEW q \in Readers
      PROVE  /\ WaitsFor'[q] = IF q = r THEN NoPiece ELSE WaitsFor[q]
             /\ Answer'[q] = IF q = r THEN "none" ELSE Answer[q]
  BY <1>1 DEF WaitsFor, Answer, Live
<1>4. /\ WaitsFor' = [q \in Readers |-> WaitsFor'[q]]
      /\ Answer' = [q \in Readers |-> Answer'[q]]
      /\ WaitsFor = [q \in Readers |-> WaitsFor[q]]
      /\ Answer = [q \in Readers |-> Answer[q]]
  BY DEF WaitsFor, Answer
<1>5. WaitsFor' = [WaitsFor EXCEPT ![r] = NoPiece]
  BY <1>3, <1>4
<1>6. Answer' = [Answer EXCEPT ![r] = "none"]
  BY <1>3, <1>4
<1>7. CASE WaitsFor[r] # NoPiece \/ Answer[r] # "none"
  BY <1>2, <1>5, <1>6, <1>7 DEF Abstract!Next, Abstract!Leave
<1>8. CASE WaitsFor[r] = NoPiece /\ Answer[r] = "none"
  <2>1. WaitsFor' = WaitsFor /\ Answer' = Answer
    BY <1>8, <1>3, <1>4
  <2>. QED
    BY <1>2, <2>1 DEF AbsVars
<1>. QED
  BY <1>7, <1>8

\* A stream that asks for a piece joins its flight, which starts when there
\* is none.
LEMMA GetPieceJoins ==
    ASSUME IInv, IInv', NEW r \in Readers, NEW p \in Pieces, GetPiece(r, p)
    PROVE  Abstract!Join(r, p)
<1>. USE DEF IInv, GetPiece
<1>1. WaitsFor[r] = NoPiece /\ Answer[r] = "none"
  BY DEF WaitsFor, Answer
<1>2. PICK t \in Tasks :
        /\ Live(t)' /\ task'[t].piece = p
        /\ reader' = [reader EXCEPT ![r] = Reader("waiting", reader[r].handle, t)]
        /\ \A u \in Tasks : Live(u) => task'[u] = task[u]
        /\ \A u \in Tasks : Live(u)' => Live(u) \/ u = t
        /\ \A u \in Tasks, q \in Readers : reader[q].task = u => task'[u] = task[u]
  <2>1. CASE GetPieceShared(r, p)
    <3>1. fetchTask[p] \in Tasks /\ Live(fetchTask[p]) /\ task[fetchTask[p]].piece = p
      BY <2>1 DEF GetPieceShared, DictLive, Live, TypeOK
    <3>2. task' = task
      BY <2>1 DEF GetPieceShared
    <3>3. reader' = [reader EXCEPT ![r] = Reader("waiting", reader[r].handle, fetchTask[p])]
      BY <2>1 DEF GetPieceShared, Wait
    <3>. QED
      BY <3>1, <3>2, <3>3 DEF Live
  <2>2. CASE GetPieceNew(r, p)
    <3>1. PICK t \in Unused :
            /\ task' = [task EXCEPT ![t] = NewTask(p, reader[r].handle)]
            /\ reader' = [reader EXCEPT ![r] = Reader("waiting", reader[r].handle, t)]
      BY <2>2 DEF GetPieceNew, Wait
    <3>2. /\ t \in Tasks /\ t # NoTask /\ ~Live(t)
          /\ \A q \in Readers : reader[q].task # t
      BY ConstantsOK DEF Unused
    <3>3. /\ task'[t].pc = "ready" /\ task'[t].piece = p
          /\ \A u \in Tasks : u # t => task'[u] = task[u]
      BY <3>1, <3>2 DEF TypeOK, NewTask, Task
    <3>. QED
      BY <3>1, <3>2, <3>3 DEF Live
  <2>. QED
    BY <2>1, <2>2
<1>3. /\ reader'[r].pc = "waiting" /\ reader'[r].task = t
      /\ \A q \in Readers : q # r => reader'[q] = reader[q]
  BY <1>2 DEF TypeOK, Reader
<1>4. Flights' = Flights \union {p}
  BY <1>2 DEF Flights, Live
<1>5. \A q \in Readers : reader[q].pc = "waiting" => reader[q].task \in Tasks
  BY DEF WaitersServed
<1>6. ASSUME NEW q \in Readers, q # r
      PROVE  WaitsFor'[q] = WaitsFor[q] /\ Answer'[q] = Answer[q]
  BY <1>2, <1>3, <1>5, <1>6 DEF WaitsFor, Answer, Live
<1>7. WaitsFor'[r] = p /\ Answer'[r] = "none"
  BY <1>2, <1>3 DEF WaitsFor, Answer
<1>8. WaitsFor' = [WaitsFor EXCEPT ![r] = p]
  BY <1>6, <1>7 DEF WaitsFor
<1>9. Answer' = Answer
  BY <1>1, <1>6, <1>7 DEF Answer
<1>. QED
  BY <1>1, <1>4, <1>8, <1>9 DEF Abstract!Join

\* RelayService: however pieces, alerts, deletions and disconnections fall,
\* the streams of a piece see one flight and one outcome.
THEOREM Refinement == Spec => ImplementsSingleFlight
<1>1. Init => Abstract!Init
  BY DEF Init, Abstract!Init, Flights, WaitsFor, Answer, Live, Over, Task, Closed, Reader
<1>2. IInv /\ IInv' /\ [Next]_vars => [Abstract!Next]_AbsVars
  <2>. SUFFICES ASSUME IInv, IInv', [Next]_vars PROVE [Abstract!Next]_AbsVars
    OBVIOUS
  <2>1. ASSUME NEW r \in Readers, NEW p \in Pieces, GetPiece(r, p)
        PROVE  [Abstract!Next]_AbsVars
    BY <2>1, GetPieceJoins DEF Abstract!Next
  <2>2. ASSUME NEW r \in Readers,
               Open(r) \/ GetPieceStale(r) \/ Collect(r) \/ Disconnect(r)
        PROVE  [Abstract!Next]_AbsVars
    <3>1. reader[r].handle \in Nat /\ handle \in Nat
      BY DEF IInv, TypeOK, ReaderRecords
    <3>. QED
      BY <2>2, <3>1, ReaderLeaves DEF Open, GetPieceStale, Collect, Disconnect, Closed
  <2>3. ASSUME NEW t \in Tasks, Attempt(t) PROVE [Abstract!Next]_AbsVars
    <3>1. Live(t) /\ task[t] \in TaskRecords
      BY <2>3, ConstantsOK DEF Attempt, Live, IInv, TypeOK
    <3>2. CASE Finish(t, "failed")
      BY <3>1, <3>2, <2>3, FinishLands DEF Attempt, Results
    <3>3. CASE task' = [task EXCEPT ![t].pc = "awaiting", ![t].result = "none"]
      <4>1. \A u \in Tasks : /\ Live(u)' <=> Live(u)
                             /\ task'[u].piece = task[u].piece
                             /\ u # t => task'[u] = task[u]
        BY <3>1, <3>3 DEF Live, IInv, TypeOK, TaskRecords
      <4>. QED
        BY <3>1, <4>1, <2>3, Invisible DEF Attempt
    <3>. QED
      BY <3>2, <3>3, <2>3 DEF Attempt
  <2>4. ASSUME NEW t \in Tasks, Resume(t) PROVE [Abstract!Next]_AbsVars
    <3>1. Live(t) /\ task[t] \in TaskRecords
      BY <2>4, ConstantsOK DEF Resume, Live, IInv, TypeOK
    <3>2. CASE Finish(t, task[t].result)
      BY <3>1, <3>2, <2>4, FinishLands DEF Resume, TaskRecords
    <3>3. CASE task' = [task EXCEPT ![t].pc = "sleeping", ![t].attempt = @ + 1]
      <4>1. \A u \in Tasks : /\ Live(u)' <=> Live(u)
                             /\ task'[u].piece = task[u].piece
                             /\ u # t => task'[u] = task[u]
        BY <3>1, <3>3 DEF Live, IInv, TypeOK, TaskRecords
      <4>. QED
        BY <3>1, <4>1, <2>4, Invisible DEF Resume
    <3>. QED
      BY <3>2, <3>3, <2>4 DEF Resume
  <2>5. CASE ProcessAlerts
    <3>1. ASSUME NEW u \in Tasks
          PROVE  /\ Live(u)' <=> Live(u)
                 /\ task'[u].piece = task[u].piece
                 /\ ~Live(u) => task'[u].result = task[u].result
      BY <2>5, ConstantsOK DEF ProcessAlerts, Live, IInv, TypeOK, TaskRecords
    <3>. QED
      BY <2>5, <3>1, Invisible DEF ProcessAlerts
  <2>6. CASE \/ \E p \in Pieces :
                 PieceFinished(p) \/ \E result \in Results : ReadDone(p, result)
             \/ RemoveTorrent
             \/ AddTorrent
             \/ UNCHANGED vars
    <3>1. UNCHANGED <<task, reader>>
      BY <2>6 DEF PieceFinished, ReadDone, RemoveTorrent, AddTorrent, vars
    <3>. QED
      BY <3>1, Invisible DEF Live
  <2>. QED
    BY <2>1, <2>2, <2>3, <2>4, <2>5, <2>6 DEF Next
<1>. QED
  BY <1>1, <1>2, Invariance, PTL DEF Spec, ImplementsSingleFlight, Abstract!Spec, AbsVars,
     Abstract!vars
=============================================================================
