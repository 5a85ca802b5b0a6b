------------------------- MODULE MarkScheduleProofs -------------------------
(***************************************************************************)
(* Proofs of the safety properties of MarkSchedule, for every number of    *)
(* workers, of collections and of work nodes.                              *)
(*                                                                         *)
(* The properties speak of the JS thread at "evacuate".  The invariant Inv *)
(* says why nobody marks there: the count is that of the tasks (CountInv), *)
(* a MarkerTask is alive exactly while a marking has not reported          *)
(* (MarkerInv), the JS thread passes its waits only at a count of zero and *)
(* a status that is not MARKING (MainInv), and who leaves a marking has    *)
(* found the stack empty (StackInv).                                       *)
(***************************************************************************)
EXTENDS MarkSchedule, FiniteSetTheorems, SequenceTheorems, TLAPS

-----------------------------------------------------------------------------
(* The tasks that are queued or run *)

\* The places in a queue that hold a task of the kinds in S.
Positions(q, S) == {k \in DOMAIN q : q[k] \in S}

QueuedOf(S) == Positions(queue, S)
RunningOf(S) == {w \in Workers : task[w] \in S}

\* How many tasks of the kinds in S have been posted and have not ended.
Count(S) == Cardinality(QueuedOf(S)) + Cardinality(RunningOf(S))

\* Where a thread is, or goes back to when it has posted.
At(i) == IF pc[i] = "post" THEN back[i] ELSE pc[i]

AllTasks == ParallelTasks \cup {"MARKER"}

-----------------------------------------------------------------------------
(* The inductive invariant *)

\* A worker and its task; a worker that does not visit has nothing to visit.
WorkerInv ==
    \A w \in Workers :
        /\ pc[w] \in {"idle", "process", "post", "reduce", "waitRunning", "finish", "notify"}
        /\ pc[w] = "idle" <=> task[w] = NoTask
        /\ pc[w] = "reduce" => task[w] \in ParallelTasks
        /\ pc[w] \in {"waitRunning", "finish", "notify"} => task[w] = "MARKER"
        /\ pc[w] = "post" => back[w] = "process"
        /\ hasWork[w] => pc[w] \in {"process", "post"}

\* The points of the JS thread, whose collections are not concurrent markings,
\* and what it has made sure of before it goes on.
MainInv ==
    /\ pc[Main] \notin {"idle", "reduce", "finish", "notify"}
    /\ At(Main) \in {"check", "help", "waitMark", "asleep", "ongoing", "reset", "process",
                     "waitRunning", "evacuate"} => gcType # "CONCURRENT"
    /\ At(Main) \in {"postMarker", "postOldToNew"} => gcType = "CONCURRENT"
    /\ At(Main) \in {"prepare", "initialize"} /\ gcType = "CONCURRENT"
            => IsEnabled
    /\ At(Main) \in {"roots", "postMarker", "postOldToNew"} /\ gcType = "CONCURRENT"
            => parallelGCTaskPhase = "CONCURRENT"
    /\ At(Main) \in {"waitRunning", "evacuate"} => ~hasWork[Main]
    /\ markStatus = "MARKING" => IsEnabled

\* Before the first marking nothing has been posted.
PhaseInv ==
    parallelGCTaskPhase = "UNDEFINED_TASK" =>
        /\ markStatus = "READY_TO_MARK" /\ queue = << >>
        /\ \A w \in Workers : task[w] = NoTask
        /\ pc[Main] \in {"run", "check", "prepare", "initialize"}

\* runningTaskCount_ is the number of ParallelGCTasks.
CountInv == runningTaskCount = Count(ParallelTasks)

\* The marking whose MarkerTask the JS thread has yet to post.
Beginning == At(Main) \in {"roots", "postMarker"} /\ gcType = "CONCURRENT"

\* There is one MarkerTask from its post to its report, none otherwise: it marks
\* while the status is MARKING and has only to report when it has written the status.
MarkerInv ==
    /\ Count({"MARKER"}) = IF \/ markStatus = "MARKING" /\ ~Beginning
                              \/ markStatus = "MARK_FINISHED" /\ ~notifyMarkingFinished
                           THEN 1 ELSE 0
    /\ notifyMarkingFinished => markStatus = "MARK_FINISHED"
    /\ Queued("MARKER") => markStatus = "MARKING"
    /\ \A w \in Workers : task[w] = "MARKER" =>
            markStatus = IF pc[w] = "notify" THEN "MARK_FINISHED" ELSE "MARKING"
    /\ Beginning => markStatus = "MARKING"

\* A collection that has passed CheckOngoingConcurrentMarking is not overtaken by
\* a marking, and Prepare or its own waiting has seen all tasks end.
PassedInv ==
    /\ At(Main) \in {"ongoing", "reset", "prepare", "initialize", "roots", "process",
                     "waitRunning", "evacuate"} /\ gcType # "CONCURRENT"
            => markStatus # "MARKING"
    /\ At(Main) \in {"prepare", "initialize"} /\ gcType = "CONCURRENT"
            => markStatus = "READY_TO_MARK"
    /\ At(Main) \in {"initialize", "evacuate"} => runningTaskCount = 0

\* Who has found nothing more to visit has left nothing on the stack, or left it to
\* a worker that will look again.
StackInv ==
    At(Main) \in {"waitRunning", "evacuate"} /\ workStack > 0 =>
        \E w \in Workers : pc[w] \in {"process", "post"}

\* What holds as long as the JS thread has not gone on before a marking had reported.
ReportInv == ~missedWait => MarkerInv /\ PassedInv /\ TasksOfThisMarking

Inv == TypeOK /\ WorkerInv /\ MainInv /\ PhaseInv /\ CountInv /\ StackInv /\ ReportInv

-----------------------------------------------------------------------------
(* Counting *)

LEMMA PositionsAreFinite ==
    ASSUME NEW T, NEW q \in Seq(T), NEW S
    PROVE  /\ Positions(q, S) \subseteq 1 .. Len(q)
           /\ IsFiniteSet(Positions(q, S)) /\ Cardinality(Positions(q, S)) \in Nat
<1>1. DOMAIN q = 1 .. Len(q) /\ Len(q) \in Nat
  BY LenProperties
<1>2. IsFiniteSet(1 .. Len(q))
  BY <1>1, FS_Interval
<1>3. Positions(q, S) \in SUBSET (1 .. Len(q))
  BY <1>1 DEF Positions
<1>4. IsFiniteSet(Positions(q, S))
  BY <1>2, <1>3, FS_Subset
<1> QED BY <1>3, <1>4, FS_CardinalityType

\* A task that is posted is counted.
LEMMA AppendCount ==
    ASSUME NEW T, NEW q \in Seq(T), NEW t \in T, NEW S
    PROVE  Cardinality(Positions(Append(q, t), S))
               = Cardinality(Positions(q, S)) + (IF t \in S THEN 1 ELSE 0)
<1>1. /\ DOMAIN q = 1 .. Len(q) /\ Len(q) \in Nat
      /\ DOMAIN Append(q, t) = 1 .. Len(q) + 1
      /\ Append(q, t)[Len(q) + 1] = t
      /\ \A k \in 1 .. Len(q) : Append(q, t)[k] = q[k]
  OBVIOUS
<1> PICK n : n = Len(q) OBVIOUS
<1>2. n + 1 \notin Positions(q, S)
  BY <1>1 DEF Positions
<1>3. CASE t \in S
  <2>1. Positions(Append(q, t), S) = Positions(q, S) \cup {n + 1}
    BY <1>1, <1>3 DEF Positions
  <2> QED BY <1>2, <1>3, <2>1, PositionsAreFinite, FS_AddElement
<1>4. CASE t \notin S
  <2>1. Positions(Append(q, t), S) = Positions(q, S)
    BY <1>1, <1>4 DEF Positions
  <2> QED BY <1>4, <2>1, PositionsAreFinite
<1> QED BY <1>3, <1>4

\* A task that is popped is no longer in the queue, the others are.
LEMMA TailCount ==
    ASSUME NEW T, NEW q \in Seq(T), q # << >>, NEW S
    PROVE  Cardinality(Positions(Tail(q), S))
               = Cardinality(Positions(q, S)) - (IF Head(q) \in S THEN 1 ELSE 0)
<1>1. /\ DOMAIN q = 1 .. Len(q) /\ Len(q) \in Nat /\ Len(q) > 0
      /\ DOMAIN Tail(q) = 1 .. Len(q) - 1 /\ Tail(q) \in Seq(T)
      /\ Head(q) = q[1]
      /\ \A k \in 1 .. Len(q) - 1 : Tail(q)[k] = q[k + 1]
  OBVIOUS
<1> DEFINE Old == Positions(q, S) \ {1}
           New == Positions(Tail(q), S)
           Shift == [k \in Old |-> k - 1]
<1>2. IsFiniteSet(Positions(q, S)) /\ Cardinality(Positions(q, S)) \in Nat
  BY PositionsAreFinite
<1>3. /\ IsFiniteSet(Old)
      /\ Cardinality(Old) = Cardinality(Positions(q, S)) - (IF Head(q) \in S THEN 1 ELSE 0)
  <2>1. 1 \in Positions(q, S) <=> Head(q) \in S
    BY <1>1 DEF Positions
  <2> QED BY <1>2, <2>1, FS_RemoveElement
<1>4. \A k \in Old : k \in 2 .. Len(q) /\ q[k] \in S
  BY <1>1 DEF Positions
<1>5. \A k \in New : k \in 1 .. Len(q) - 1 /\ q[k + 1] \in S
  BY <1>1 DEF Positions
<1>6. \A k \in Old : k - 1 \in New
  BY <1>1, <1>4 DEF Positions
<1>7. \A k \in New : k + 1 \in Old /\ (k + 1) - 1 = k
  BY <1>1, <1>5 DEF Positions
<1>8. Shift \in Bijection(Old, New)
  <2>1. Shift \in [Old -> New]
    BY <1>6
  <2>2. \A j, k \in Old : Shift[j] = Shift[k] => j = k
    BY <1>1, <1>4
  <2>3. \A k \in New : Shift[k + 1] = k
    BY <1>7
  <2>4. \A k \in New : \E j \in Old : Shift[j] = k
    BY <1>7, <2>3
  <2> QED BY <2>1, <2>2, <2>4 DEF Bijection, Injection, Surjection, IsInjective
<1>9. Cardinality(New) = Cardinality(Old)
  BY <1>3, <1>8, FS_Bijection DEF ExistsBijection
<1> QED BY <1>3, <1>9

LEMMA WorkersAreFinite ==
    ASSUME NEW S
    PROVE  IsFiniteSet(RunningOf(S)) /\ Cardinality(RunningOf(S)) \in Nat
<1>1. IsFiniteSet(Workers)
  BY ConstAssumption, FS_Interval DEF Workers
<1>2. RunningOf(S) \in SUBSET Workers
  BY DEF RunningOf
<1>3. IsFiniteSet(RunningOf(S))
  BY <1>1, <1>2, FS_Subset
<1> QED BY <1>3, FS_CardinalityType

\* A count is a number, and zero when no such task is alive.
LEMMA CountType ==
    ASSUME TypeOK, NEW S
    PROVE  /\ Count(S) \in Nat
           /\ Count(S) = 0 <=> \A t \in S : ~Live(t)
<1>1. queue \in Seq(AllTasks)
  BY DEF TypeOK, AllTasks
<1>2. /\ IsFiniteSet(QueuedOf(S)) /\ Cardinality(QueuedOf(S)) \in Nat
      /\ IsFiniteSet(RunningOf(S)) /\ Cardinality(RunningOf(S)) \in Nat
  BY <1>1, PositionsAreFinite, WorkersAreFinite DEF QueuedOf
<1>3. Count(S) = 0 <=> QueuedOf(S) = {} /\ RunningOf(S) = {}
  <2> PICK m, n : m = Cardinality(QueuedOf(S)) /\ n = Cardinality(RunningOf(S)) OBVIOUS
  <2>1. (m = 0 <=> QueuedOf(S) = {}) /\ (n = 0 <=> RunningOf(S) = {})
    BY <1>2, FS_EmptySet
  <2>2. m + n = 0 <=> m = 0 /\ n = 0
    BY <1>2
  <2> QED BY <2>1, <2>2 DEF Count
<1>4. QueuedOf(S) = {} <=> \A t \in S : ~Queued(t)
  BY DEF QueuedOf, Positions, Queued
<1>5. RunningOf(S) = {} <=> \A t \in S : ~\E w \in Workers : task[w] = t
  BY DEF RunningOf
<1> QED BY <1>2, <1>3, <1>4, <1>5 DEF Count, Live

LEMMA CountPost ==
    ASSUME TypeOK, NEW S, NEW t \in AllTasks, queue' = Append(queue, t), task' = task
    PROVE  Count(S)' = Count(S) + (IF t \in S THEN 1 ELSE 0)
<1>1. queue \in Seq(AllTasks)
  BY DEF TypeOK, AllTasks
<1>2. RunningOf(S)' = RunningOf(S)
  BY DEF RunningOf
<1>3. QueuedOf(S)' = Positions(Append(queue, t), S)
  BY DEF QueuedOf
<1>4. Cardinality(QueuedOf(S)') = Cardinality(QueuedOf(S)) + (IF t \in S THEN 1 ELSE 0)
  BY <1>1, <1>3, AppendCount DEF QueuedOf
<1>5. Cardinality(QueuedOf(S)) \in Nat /\ Cardinality(RunningOf(S)) \in Nat
  BY <1>1, PositionsAreFinite, WorkersAreFinite DEF QueuedOf
<1>6. Count(S)' = Cardinality(QueuedOf(S)') + Cardinality(RunningOf(S)')
  BY DEF Count
<1> QED BY <1>2, <1>4, <1>5, <1>6 DEF Count

LEMMA CountStart ==
    ASSUME TypeOK, NEW S, NEW w \in Workers, task[w] = NoTask, NoTask \notin S,
           queue # << >>, queue' = Tail(queue), task' = [task EXCEPT ![w] = Head(queue)]
    PROVE  Count(S)' = Count(S)
<1>1. queue \in Seq(AllTasks)
  BY DEF TypeOK, AllTasks
<1>2. Cardinality(QueuedOf(S)') = Cardinality(QueuedOf(S)) - (IF Head(queue) \in S THEN 1 ELSE 0)
  BY <1>1, TailCount DEF QueuedOf
<1>3. w \notin RunningOf(S)
  BY DEF RunningOf
<1>4. RunningOf(S)' = IF Head(queue) \in S THEN RunningOf(S) \cup {w} ELSE RunningOf(S)
  BY <1>3 DEF RunningOf, TypeOK
<1>5. Cardinality(RunningOf(S)') = Cardinality(RunningOf(S)) + (IF Head(queue) \in S THEN 1 ELSE 0)
  <2> PICK R : R = RunningOf(S) OBVIOUS
  <2>1. IsFiniteSet(R) /\ Cardinality(R) \in Nat
    BY WorkersAreFinite
  <2>2. IF Head(queue) \in S THEN Cardinality(R \cup {w}) = Cardinality(R) + 1 ELSE TRUE
    BY <1>3, <2>1, FS_AddElement
  <2> QED BY <1>4, <2>1, <2>2
<1>6. Cardinality(QueuedOf(S)) \in Nat /\ Cardinality(RunningOf(S)) \in Nat
  BY <1>1, PositionsAreFinite, WorkersAreFinite DEF QueuedOf
<1>7. Count(S)' = Cardinality(QueuedOf(S)') + Cardinality(RunningOf(S)')
  BY DEF Count
<1> QED BY <1>2, <1>5, <1>6, <1>7 DEF Count

LEMMA CountEnd ==
    ASSUME TypeOK, NEW S, NEW w \in Workers, NoTask \notin S,
           queue' = queue, task' = [task EXCEPT ![w] = NoTask]
    PROVE  Count(S)' = Count(S) - (IF task[w] \in S THEN 1 ELSE 0)
<1>1. queue \in Seq(AllTasks)
  BY DEF TypeOK, AllTasks
<1>2. QueuedOf(S)' = QueuedOf(S)
  BY DEF QueuedOf
<1>3. w \in RunningOf(S) <=> task[w] \in S
  BY DEF RunningOf
<1>4. RunningOf(S)' = RunningOf(S) \ {w}
  BY DEF RunningOf, TypeOK
<1>5. Cardinality(RunningOf(S)') = Cardinality(RunningOf(S)) - (IF task[w] \in S THEN 1 ELSE 0)
  <2>1. IsFiniteSet(RunningOf(S)) /\ Cardinality(RunningOf(S)) \in Nat
    BY ONLY WorkersAreFinite
  <2>2. Cardinality(RunningOf(S) \ {w}) = IF w \in RunningOf(S) THEN Cardinality(RunningOf(S)) - 1
                                         ELSE Cardinality(RunningOf(S))
    BY ONLY <2>1, FS_RemoveElement
  <2>3. RunningOf(S)' = RunningOf(S) \ {w} /\ (w \in RunningOf(S) <=> task[w] \in S)
    BY ONLY <1>3, <1>4
  <2> QED
    BY ONLY <2>1, <2>2, <2>3
<1>6. Cardinality(QueuedOf(S)) \in Nat /\ Cardinality(RunningOf(S)) \in Nat
  BY <1>1, PositionsAreFinite, WorkersAreFinite DEF QueuedOf
<1>7. Count(S)' = Cardinality(QueuedOf(S)') + Cardinality(RunningOf(S)')
  BY DEF Count
<1> QED BY <1>2, <1>5, <1>6, <1>7 DEF Count

LEMMA CountSame ==
    ASSUME NEW S, queue' = queue, task' = task
    PROVE  Count(S)' = Count(S)
  BY DEF Count, QueuedOf, RunningOf

-----------------------------------------------------------------------------
(* Types *)

Points == {"run", "check", "help", "waitMark", "asleep", "ongoing", "reset", "prepare",
           "initialize", "roots", "postMarker", "postOldToNew", "process", "post",
           "waitRunning", "evacuate", "idle", "reduce", "finish", "notify"}

PointsOK ==
    /\ pc \in [Threads -> Points]
    /\ back \in [Threads -> {"run", "roots", "help", "process"}]

MarkerOK ==
    /\ markStatus \in {"READY_TO_MARK", "MARKING", "MARK_FINISHED"}
    /\ notifyMarkingFinished \in BOOLEAN
    /\ vmThreadWaitMarkingFinished \in BOOLEAN
    /\ enableMarkType \in {"ENABLE", "CONFIG_DISABLE", "DISABLE", "REQUEST_DISABLE"}
    /\ markType \in {"MARK_YOUNG", "MARK_FULL"}
    /\ maxMarkTaskCount \in Nat
    /\ markingInProgress \in BOOLEAN
    /\ gcType \in {"none", "CONCURRENT", "YOUNG_GC", "OLD_GC", "FULL_GC"}
    /\ toReset \in BOOLEAN
    /\ handling \in BOOLEAN
    /\ cycles \in 0 .. MaxCycles
    /\ missedWait \in BOOLEAN

WorkOK ==
    /\ parallelGCTaskPhase \in {"UNDEFINED_TASK", "CONCURRENT", "OLD", "COMPRESS"}
    /\ workStack \in Nat
    /\ hasWork \in [Threads -> BOOLEAN]
    /\ found \in 0 .. MaxNodes

TasksOK ==
    /\ runningTaskCount \in Nat
    /\ queue \in Seq(AllTasks)
    /\ task \in [Workers -> AllTasks \cup {NoTask}]

LEMMA TypeParts == TypeOK <=> PointsOK /\ MarkerOK /\ WorkOK /\ TasksOK
<1>1. AllTasks \cup {NoTask} = ParallelTasks \cup {"MARKER", NoTask}
  BY DEF AllTasks
<1> QED BY <1>1 DEF TypeOK, PointsOK, MarkerOK, WorkOK, TasksOK, AllTasks, Points

-----------------------------------------------------------------------------
(* Steps *)

\* The actions, flat.
LEMMA StepCases ==
    ASSUME Next
    PROVE  \/ \E i \in Threads : Visit(i)
           \/ \E i \in Threads : PopWorkNodeFromGlobal(i)
           \/ \E i \in Threads : MarkStackDone(i)
           \/ \E i \in Threads : PostParallelGCTask(i)
           \/ \E i \in Threads : WaitRunningTaskFinished(i)
           \/ \E w \in Workers : StartTask(w)
           \/ \E w \in Workers : ReduceTaskCount(w)
           \/ \E w \in Workers : FinishMarking(w)
           \/ \E w \in Workers : NotifyMarkingFinished(w)
           \/ CheckOngoingConcurrentMarking
           \/ WaitMarkingFinished
           \/ UseOngoingMarking
           \/ Reset
           \/ Prepare
           \/ Initialize
           \/ MarkRoots
           \/ PostMarkerTask
           \/ PostOldToNewTask
           \/ FinishCollection
           \/ SpuriousWakeup
           \/ BarrierUpdate
           \/ \E b \in Backgrounds : ChangeGCParams(b)
           \/ \E t \in MarkTypes : TryTriggerConcurrentMarking(t)
           \/ \E t \in GCTypes : CollectGarbage(t)
           \/ CheckSafepoint
  BY DEF Next, WorkerStep, MainStep, ProcessMarkStack, Threads

\* Every step keeps the types.
LEMMA PointsStep ==
    ASSUME Inv, [Next]_vars
    PROVE  PointsOK'
<1>0. TypeOK /\ MainInv /\ WorkerInv /\ PointsOK BY TypeParts DEF Inv
<1>1. ASSUME NEW i \in Threads, Visit(i) PROVE PointsOK'
  BY <1>0, <1>1 DEF PointsOK, Points, Threads, Workers, Main, Visit, Processing,
       PushWorkNodeToGlobal, markerVars, paramVars, gcVars
<1>2. ASSUME NEW i \in Threads, PopWorkNodeFromGlobal(i) PROVE PointsOK'
  BY <1>0, <1>2 DEF PointsOK, Points, Threads, Workers, Main, PopWorkNodeFromGlobal,
       Processing, markerVars, paramVars, gcVars
<1>3. ASSUME NEW i \in Threads, MarkStackDone(i) PROVE PointsOK'
  BY <1>0, <1>3 DEF PointsOK, Points, Threads, Workers, Main, MarkStackDone, Processing,
       markerVars, paramVars, workVars, gcVars
<1>4. ASSUME NEW i \in Threads, PostParallelGCTask(i) PROVE PointsOK'
  BY <1>0, <1>4 DEF PointsOK, Points, Threads, Workers, Main, PostParallelGCTask, markerVars,
       paramVars, workVars, gcVars
<1>5. ASSUME NEW i \in Threads, WaitRunningTaskFinished(i) PROVE PointsOK'
  BY <1>0, <1>5 DEF PointsOK, Points, Threads, Workers, Main, WaitRunningTaskFinished,
       markerVars, paramVars, workVars, gcVars
<1>6. ASSUME NEW w \in Workers, StartTask(w) PROVE PointsOK'
  BY <1>0, <1>6 DEF PointsOK, Points, Threads, Workers, Main, StartTask, markerVars,
       paramVars, gcVars
<1>7. ASSUME NEW w \in Workers, ReduceTaskCount(w) PROVE PointsOK'
  BY <1>0, <1>7 DEF PointsOK, Points, Threads, Workers, Main, ReduceTaskCount, markerVars,
       paramVars, workVars, gcVars
<1>8. ASSUME NEW w \in Workers, FinishMarking(w) PROVE PointsOK'
  BY <1>0, <1>8 DEF PointsOK, Points, Threads, Workers, Main, FinishMarking, paramVars,
       workVars, gcVars
<1>9. ASSUME NEW w \in Workers, NotifyMarkingFinished(w) PROVE PointsOK'
  BY <1>0, <1>9 DEF PointsOK, Points, Threads, Workers, Main, NotifyMarkingFinished,
       paramVars, workVars, gcVars
<1>10. CASE CheckOngoingConcurrentMarking
  BY <1>0, <1>10 DEF PointsOK, Points, Threads, Workers, Main, CheckOngoingConcurrentMarking,
       AfterReset, markerVars, paramVars, workVars, frame, mainFrame
<1>11. CASE WaitMarkingFinished
  BY <1>0, <1>11 DEF PointsOK, Points, Threads, Workers, Main, WaitMarkingFinished, paramVars,
       workVars, frame, mainFrame
<1>12. CASE UseOngoingMarking
  BY <1>0, <1>12 DEF PointsOK, Points, Threads, Workers, Main, UseOngoingMarking, markerVars,
       paramVars, workVars, frame, mainFrame
<1>13. CASE Reset
  BY <1>0, <1>13 DEF PointsOK, Points, Threads, Workers, Main, Reset, ResetMarker, AfterReset,
       paramVars, workVars, frame, mainFrame
<1>14. CASE Prepare
  BY <1>0, <1>14 DEF PointsOK, Points, Threads, Workers, Main, Prepare, markerVars, paramVars,
       workVars, frame, mainFrame
<1>15. CASE Initialize
  BY <1>0, <1>15 DEF PointsOK, Points, Threads, Workers, Main, Initialize, paramVars, frame,
       mainFrame
<1>16. CASE MarkRoots
  BY <1>0, <1>16 DEF PointsOK, Points, Threads, Workers, Main, MarkRoots,
       PushWorkNodeToGlobal, markerVars, paramVars, gcVars
<1>17. CASE PostMarkerTask
  BY <1>0, <1>17 DEF PointsOK, Points, Threads, Workers, Main, PostMarkerTask, markerVars,
       paramVars, workVars, gcVars
<1>18. CASE PostOldToNewTask
  BY <1>0, <1>18 DEF PointsOK, Points, Threads, Workers, Main, PostOldToNewTask, markerVars,
       paramVars, workVars, gcVars
<1>19. CASE FinishCollection
  BY <1>0, <1>19 DEF PointsOK, Points, Threads, Workers, Main, FinishCollection, ResetMarker,
       markerVars, workVars, frame
<1>20. CASE SpuriousWakeup
  BY <1>0, <1>20 DEF PointsOK, Points, Threads, Workers, Main, SpuriousWakeup, markerVars,
       paramVars, workVars, frame, mainFrame
<1>21. CASE BarrierUpdate
  BY <1>0, <1>21 DEF PointsOK, Points, Threads, Workers, Main, BarrierUpdate,
       PushWorkNodeToGlobal, markerVars, paramVars, gcVars
<1>22. ASSUME NEW b \in Backgrounds, ChangeGCParams(b) PROVE PointsOK'
  BY <1>0, <1>22 DEF PointsOK, Points, Threads, Workers, Main, ChangeGCParams,
       EnableConcurrentMarking, markerVars, workVars, gcVars, frame
<1>23. ASSUME NEW t \in MarkTypes, TryTriggerConcurrentMarking(t) PROVE PointsOK'
  BY <1>0, <1>23 DEF PointsOK, Points, Threads, Workers, Main, TryTriggerConcurrentMarking,
       markerVars, paramVars, workVars, frame
<1>24. ASSUME NEW t \in GCTypes, CollectGarbage(t) PROVE PointsOK'
  BY <1>0, <1>24 DEF PointsOK, Points, Threads, Workers, Main, CollectGarbage,
       BeginCollection, markerVars, paramVars, workVars, frame
<1>25. CASE CheckSafepoint
  BY <1>0, <1>25 DEF PointsOK, Points, Threads, Workers, Main, CheckSafepoint,
       BeginCollection, markerVars, paramVars, workVars, frame
<1>26. CASE UNCHANGED vars
  BY <1>0, <1>26 DEF PointsOK, Points, Threads, Workers, Main, vars, markerVars, paramVars,
       workVars, gcVars
<1> QED BY StepCases, <1>1, <1>2, <1>3, <1>4, <1>5, <1>6, <1>7, <1>8, <1>9, <1>10, <1>11,
     <1>12, <1>13, <1>14, <1>15, <1>16, <1>17, <1>18, <1>19, <1>20, <1>21, <1>22, <1>23,
     <1>24, <1>25, <1>26

LEMMA MarkerStep ==
    ASSUME Inv, [Next]_vars
    PROVE  MarkerOK'
<1>0. TypeOK /\ MainInv /\ WorkerInv /\ MarkerOK BY TypeParts DEF Inv
<1>1. ASSUME NEW i \in Threads, Visit(i) PROVE MarkerOK'
  BY <1>0, <1>1, ConstAssumption DEF MarkerOK, Main, ForegroundMarkTaskCount, Visit,
       Processing, PushWorkNodeToGlobal, markerVars, paramVars, gcVars
<1>2. ASSUME NEW i \in Threads, PopWorkNodeFromGlobal(i) PROVE MarkerOK'
  BY <1>0, <1>2, ConstAssumption DEF MarkerOK, Main, ForegroundMarkTaskCount,
       PopWorkNodeFromGlobal, Processing, markerVars, paramVars, gcVars
<1>3. ASSUME NEW i \in Threads, MarkStackDone(i) PROVE MarkerOK'
  BY <1>0, <1>3, ConstAssumption DEF MarkerOK, Main, ForegroundMarkTaskCount, MarkStackDone,
       Processing, markerVars, paramVars, workVars, gcVars
<1>4. ASSUME NEW i \in Threads, PostParallelGCTask(i) PROVE MarkerOK'
  BY <1>0, <1>4, ConstAssumption DEF MarkerOK, Main, ForegroundMarkTaskCount,
       PostParallelGCTask, markerVars, paramVars, workVars, gcVars
<1>5. ASSUME NEW i \in Threads, WaitRunningTaskFinished(i) PROVE MarkerOK'
  BY <1>0, <1>5, ConstAssumption DEF MarkerOK, Main, ForegroundMarkTaskCount,
       WaitRunningTaskFinished, markerVars, paramVars, workVars, gcVars
<1>6. ASSUME NEW w \in Workers, StartTask(w) PROVE MarkerOK'
  BY <1>0, <1>6, ConstAssumption DEF MarkerOK, Main, ForegroundMarkTaskCount, StartTask,
       markerVars, paramVars, gcVars
<1>7. ASSUME NEW w \in Workers, ReduceTaskCount(w) PROVE MarkerOK'
  BY <1>0, <1>7, ConstAssumption DEF MarkerOK, Main, ForegroundMarkTaskCount, ReduceTaskCount,
       markerVars, paramVars, workVars, gcVars
<1>8. ASSUME NEW w \in Workers, FinishMarking(w) PROVE MarkerOK'
  BY <1>0, <1>8, ConstAssumption DEF MarkerOK, Main, ForegroundMarkTaskCount, FinishMarking,
       paramVars, workVars, gcVars
<1>9. ASSUME NEW w \in Workers, NotifyMarkingFinished(w) PROVE MarkerOK'
  BY <1>0, <1>9, ConstAssumption DEF MarkerOK, Main, ForegroundMarkTaskCount,
       NotifyMarkingFinished, paramVars, workVars, gcVars
<1>10. CASE CheckOngoingConcurrentMarking
  <2>1. /\ UNCHANGED <<mainFrame, markerVars, gcType, missedWait>>
        /\ (markType' = markType \/ markType' = "MARK_FULL")
        /\ toReset' \in BOOLEAN /\ markingInProgress' \in BOOLEAN
    BY <1>0, <1>10 DEF CheckOngoingConcurrentMarking, AfterReset, MarkerOK
  <2> QED BY <1>0, <2>1 DEF MarkerOK, mainFrame, markerVars, paramVars
<1>11. CASE WaitMarkingFinished
  BY <1>0, <1>11, ConstAssumption, ZenonT(40) DEF MarkerOK, Main, ForegroundMarkTaskCount,
       WaitMarkingFinished, paramVars, workVars, frame, mainFrame
<1>12. CASE UseOngoingMarking
  BY <1>0, <1>12, ConstAssumption, ZenonT(40) DEF MarkerOK, Main, ForegroundMarkTaskCount,
       UseOngoingMarking, markerVars, paramVars, workVars, frame, mainFrame
<1>13. CASE Reset
  BY <1>0, <1>13, ConstAssumption DEF MarkerOK, Main, ForegroundMarkTaskCount, Reset,
       ResetMarker, AfterReset, paramVars, workVars, frame, mainFrame
<1>14. CASE Prepare
  BY <1>0, <1>14, ConstAssumption DEF MarkerOK, Main, ForegroundMarkTaskCount, Prepare,
       markerVars, paramVars, workVars, frame, mainFrame
<1>15. CASE Initialize
  BY <1>0, <1>15, ConstAssumption DEF MarkerOK, Main, ForegroundMarkTaskCount, Initialize,
       paramVars, frame, mainFrame
<1>16. CASE MarkRoots
  BY <1>0, <1>16, ConstAssumption DEF MarkerOK, Main, ForegroundMarkTaskCount, MarkRoots,
       PushWorkNodeToGlobal, markerVars, paramVars, gcVars
<1>17. CASE PostMarkerTask
  BY <1>0, <1>17, ConstAssumption DEF MarkerOK, Main, ForegroundMarkTaskCount, PostMarkerTask,
       markerVars, paramVars, workVars, gcVars
<1>18. CASE PostOldToNewTask
  BY <1>0, <1>18, ConstAssumption DEF MarkerOK, Main, ForegroundMarkTaskCount,
       PostOldToNewTask, markerVars, paramVars, workVars, gcVars
<1>19. CASE FinishCollection
  BY <1>0, <1>19, ConstAssumption DEF MarkerOK, Main, ForegroundMarkTaskCount,
       FinishCollection, ResetMarker, markerVars, workVars, frame
<1>20. CASE SpuriousWakeup
  BY <1>0, <1>20, ConstAssumption DEF MarkerOK, Main, ForegroundMarkTaskCount, SpuriousWakeup,
       markerVars, paramVars, workVars, frame, mainFrame
<1>21. CASE BarrierUpdate
  BY <1>0, <1>21, ConstAssumption DEF MarkerOK, Main, ForegroundMarkTaskCount, BarrierUpdate,
       PushWorkNodeToGlobal, markerVars, paramVars, gcVars
<1>22. ASSUME NEW b \in Backgrounds, ChangeGCParams(b) PROVE MarkerOK'
  BY <1>0, <1>22, ConstAssumption DEF MarkerOK, Main, ForegroundMarkTaskCount, ChangeGCParams,
       EnableConcurrentMarking, markerVars, workVars, gcVars, frame
<1>23. ASSUME NEW t \in MarkTypes, TryTriggerConcurrentMarking(t) PROVE MarkerOK'
  BY <1>0, <1>23, ConstAssumption DEF MarkerOK, Main, ForegroundMarkTaskCount,
       TryTriggerConcurrentMarking, markerVars, paramVars, workVars, frame
<1>24. ASSUME NEW t \in GCTypes, CollectGarbage(t) PROVE MarkerOK'
  BY <1>0, <1>24, ConstAssumption DEF MarkerOK, Main, ForegroundMarkTaskCount, CollectGarbage,
       BeginCollection, markerVars, paramVars, workVars, frame
<1>25. CASE CheckSafepoint
  BY <1>0, <1>25, ConstAssumption DEF MarkerOK, Main, ForegroundMarkTaskCount, CheckSafepoint,
       BeginCollection, markerVars, paramVars, workVars, frame
<1>26. CASE UNCHANGED vars
  BY <1>0, <1>26, ConstAssumption DEF MarkerOK, Main, ForegroundMarkTaskCount, vars,
       markerVars, paramVars, workVars, gcVars
<1> QED BY StepCases, <1>1, <1>2, <1>3, <1>4, <1>5, <1>6, <1>7, <1>8, <1>9, <1>10, <1>11,
     <1>12, <1>13, <1>14, <1>15, <1>16, <1>17, <1>18, <1>19, <1>20, <1>21, <1>22, <1>23,
     <1>24, <1>25, <1>26

LEMMA PushOK ==
    ASSUME WorkOK, NEW i, PushWorkNodeToGlobal(i)
    PROVE  workStack' \in Nat /\ found' \in 0 .. MaxNodes
<1>1. found \in 0 .. MaxNodes /\ found < MaxNodes /\ found' = found + 1 /\ workStack \in Nat
      /\ workStack' = workStack + 1 /\ MaxNodes \in Nat
  BY ConstAssumption DEF WorkOK, PushWorkNodeToGlobal
<1> QED BY ONLY <1>1

LEMMA WorkStep ==
    ASSUME Inv, [Next]_vars
    PROVE  WorkOK'
<1>0. TypeOK /\ MainInv /\ WorkerInv /\ WorkOK BY TypeParts DEF Inv
<1>1. ASSUME NEW i \in Threads, Visit(i) PROVE WorkOK'
  <2>1. CASE PushWorkNodeToGlobal(i) /\ UNCHANGED hasWork
    BY <1>0, <1>1, <2>1, PushOK DEF WorkOK, Visit, vars, markerVars, paramVars, workVars,
         gcVars, frame, mainFrame
  <2>2. CASE hasWork' = [hasWork EXCEPT ![i] = FALSE] /\ UNCHANGED <<found, workStack, pc, back>>
    BY <1>0, <1>1, <2>2 DEF WorkOK, Visit, vars, markerVars, paramVars, workVars, gcVars,
         frame, mainFrame
  <2> QED BY <1>1, <2>1, <2>2 DEF Visit
<1>2. ASSUME NEW i \in Threads, PopWorkNodeFromGlobal(i) PROVE WorkOK'
  BY <1>0, <1>2, ConstAssumption DEF WorkOK, Threads, Main, PopWorkNodeFromGlobal, Processing,
       markerVars, paramVars, gcVars
<1>3. ASSUME NEW i \in Threads, MarkStackDone(i) PROVE WorkOK'
  BY <1>0, <1>3, ConstAssumption DEF WorkOK, Threads, Main, MarkStackDone, Processing,
       markerVars, paramVars, workVars, gcVars
<1>4. ASSUME NEW i \in Threads, PostParallelGCTask(i) PROVE WorkOK'
  BY <1>0, <1>4, ConstAssumption DEF WorkOK, Threads, Main, PostParallelGCTask, markerVars,
       paramVars, workVars, gcVars
<1>5. ASSUME NEW i \in Threads, WaitRunningTaskFinished(i) PROVE WorkOK'
  BY <1>0, <1>5, ConstAssumption DEF WorkOK, Threads, Main, WaitRunningTaskFinished,
       markerVars, paramVars, workVars, gcVars
<1>6. ASSUME NEW w \in Workers, StartTask(w) PROVE WorkOK'
  BY <1>0, <1>6, ConstAssumption DEF WorkOK, Threads, Main, StartTask, markerVars, paramVars,
       gcVars
<1>7. ASSUME NEW w \in Workers, ReduceTaskCount(w) PROVE WorkOK'
  BY <1>0, <1>7, ConstAssumption DEF WorkOK, Threads, Main, ReduceTaskCount, markerVars,
       paramVars, workVars, gcVars
<1>8. ASSUME NEW w \in Workers, FinishMarking(w) PROVE WorkOK'
  BY <1>0, <1>8, ConstAssumption DEF WorkOK, Threads, Main, FinishMarking, paramVars,
       workVars, gcVars
<1>9. ASSUME NEW w \in Workers, NotifyMarkingFinished(w) PROVE WorkOK'
  BY <1>0, <1>9, ConstAssumption DEF WorkOK, Threads, Main, NotifyMarkingFinished, paramVars,
       workVars, gcVars
<1>10. CASE CheckOngoingConcurrentMarking
  BY <1>0, <1>10, ConstAssumption DEF WorkOK, Threads, Main, CheckOngoingConcurrentMarking,
       AfterReset, markerVars, paramVars, workVars, frame, mainFrame
<1>11. CASE WaitMarkingFinished
  BY <1>0, <1>11, ConstAssumption DEF WorkOK, Threads, Main, WaitMarkingFinished, paramVars,
       workVars, frame, mainFrame
<1>12. CASE UseOngoingMarking
  BY <1>0, <1>12, ConstAssumption DEF WorkOK, Threads, Main, UseOngoingMarking, markerVars,
       paramVars, workVars, frame, mainFrame
<1>13. CASE Reset
  BY <1>0, <1>13, ConstAssumption DEF WorkOK, Threads, Main, Reset, ResetMarker, AfterReset,
       paramVars, workVars, frame, mainFrame
<1>14. CASE Prepare
  BY <1>0, <1>14, ConstAssumption DEF WorkOK, Threads, Main, Prepare, markerVars, paramVars,
       workVars, frame, mainFrame
<1>15. CASE Initialize
  BY <1>0, <1>15, ConstAssumption DEF WorkOK, Threads, Main, Initialize, paramVars, frame,
       mainFrame
<1>16. CASE MarkRoots
  BY <1>0, <1>16, ConstAssumption DEF WorkOK, Threads, Main, MarkRoots, PushWorkNodeToGlobal,
       markerVars, paramVars, gcVars
<1>17. CASE PostMarkerTask
  BY <1>0, <1>17, ConstAssumption DEF WorkOK, Threads, Main, PostMarkerTask, markerVars,
       paramVars, workVars, gcVars
<1>18. CASE PostOldToNewTask
  BY <1>0, <1>18, ConstAssumption DEF WorkOK, Threads, Main, PostOldToNewTask, markerVars,
       paramVars, workVars, gcVars
<1>19. CASE FinishCollection
  BY <1>0, <1>19, ConstAssumption DEF WorkOK, Threads, Main, FinishCollection, ResetMarker,
       markerVars, workVars, frame
<1>20. CASE SpuriousWakeup
  BY <1>0, <1>20, ConstAssumption DEF WorkOK, Threads, Main, SpuriousWakeup, markerVars,
       paramVars, workVars, frame, mainFrame
<1>21. CASE BarrierUpdate
  <2>1. CASE PushWorkNodeToGlobal(Main) /\ UNCHANGED hasWork
    BY <1>0, <1>21, <2>1, PushOK DEF WorkOK, BarrierUpdate, vars, markerVars, paramVars,
         workVars, gcVars, frame, mainFrame
  <2>2. CASE hasWork' = [hasWork EXCEPT ![Main] = TRUE] /\ UNCHANGED <<found, workStack, pc, back>>
    BY <1>0, <1>21, <2>2 DEF WorkOK, BarrierUpdate, vars, markerVars, paramVars, workVars,
         gcVars, frame, mainFrame
  <2> QED BY <1>21, <2>1, <2>2 DEF BarrierUpdate
<1>22. ASSUME NEW b \in Backgrounds, ChangeGCParams(b) PROVE WorkOK'
  BY <1>0, <1>22, ConstAssumption DEF WorkOK, Threads, Main, ChangeGCParams,
       EnableConcurrentMarking, markerVars, workVars, gcVars, frame
<1>23. ASSUME NEW t \in MarkTypes, TryTriggerConcurrentMarking(t) PROVE WorkOK'
  BY <1>0, <1>23, ConstAssumption DEF WorkOK, Threads, Main, TryTriggerConcurrentMarking,
       markerVars, paramVars, workVars, frame
<1>24. ASSUME NEW t \in GCTypes, CollectGarbage(t) PROVE WorkOK'
  BY <1>0, <1>24, ConstAssumption DEF WorkOK, Threads, Main, CollectGarbage, BeginCollection,
       markerVars, paramVars, workVars, frame
<1>25. CASE CheckSafepoint
  BY <1>0, <1>25, ConstAssumption DEF WorkOK, Threads, Main, CheckSafepoint, BeginCollection,
       markerVars, paramVars, workVars, frame
<1>26. CASE UNCHANGED vars
  BY <1>0, <1>26, ConstAssumption DEF WorkOK, Threads, Main, vars, markerVars, paramVars,
       workVars, gcVars
<1> QED BY StepCases, <1>1, <1>2, <1>3, <1>4, <1>5, <1>6, <1>7, <1>8, <1>9, <1>10, <1>11,
     <1>12, <1>13, <1>14, <1>15, <1>16, <1>17, <1>18, <1>19, <1>20, <1>21, <1>22, <1>23,
     <1>24, <1>25, <1>26

LEMMA TasksStep ==
    ASSUME Inv, [Next]_vars
    PROVE  TasksOK'
<1>0. TypeOK /\ MainInv /\ WorkerInv /\ PhaseInv /\ CountInv /\ TasksOK BY TypeParts DEF Inv
<1>1. ASSUME NEW i \in Threads, Visit(i) PROVE TasksOK'
  BY <1>0, <1>1 DEF TasksOK, Visit, Processing, PushWorkNodeToGlobal, markerVars, paramVars,
       gcVars
<1>2. ASSUME NEW i \in Threads, PopWorkNodeFromGlobal(i) PROVE TasksOK'
  BY <1>0, <1>2 DEF TasksOK, PopWorkNodeFromGlobal, Processing, markerVars, paramVars, gcVars
<1>3. ASSUME NEW i \in Threads, MarkStackDone(i) PROVE TasksOK'
  BY <1>0, <1>3 DEF TasksOK, MarkStackDone, Processing, markerVars, paramVars, workVars,
       gcVars
<1>4. ASSUME NEW i \in Threads, PostParallelGCTask(i) PROVE TasksOK'
  <2>1. parallelGCTaskPhase \in {"CONCURRENT", "OLD", "COMPRESS"}
    <3>1. pc[i] = "post" /\ (i # Main => task[i] # NoTask)
      BY <1>0, <1>4 DEF PostParallelGCTask, WorkerInv, Threads
    <3>2. parallelGCTaskPhase # "UNDEFINED_TASK"
      BY <1>0, <3>1 DEF PhaseInv, Threads
    <3> QED BY <1>0, <3>2 DEF TypeOK
  <2>2. parallelGCTaskPhase \in AllTasks
    BY <2>1 DEF AllTasks, ParallelTasks
  <2>3. queue' = Append(queue, parallelGCTaskPhase) /\ runningTaskCount' = runningTaskCount + 1
        /\ task' = task
    BY <1>0, <1>4 DEF PostParallelGCTask
  <2> QED BY <1>0, <2>2, <2>3 DEF TasksOK
<1>5. ASSUME NEW i \in Threads, WaitRunningTaskFinished(i) PROVE TasksOK'
  BY <1>0, <1>5 DEF TasksOK, WaitRunningTaskFinished, markerVars, paramVars, workVars, gcVars
<1>6. ASSUME NEW w \in Workers, StartTask(w) PROVE TasksOK'
  <2>1. /\ queue # << >> /\ queue' = Tail(queue) /\ task' = [task EXCEPT ![w] = Head(queue)]
        /\ runningTaskCount' = runningTaskCount
    BY <1>0, <1>6 DEF StartTask
  <2>2. queue \in Seq(AllTasks) /\ Head(queue) \in AllTasks /\ Tail(queue) \in Seq(AllTasks)
    BY <1>0, <2>1 DEF TasksOK
  <2>3. task' \in [Workers -> AllTasks \cup {NoTask}]
    BY <1>0, <2>1, <2>2 DEF TasksOK
  <2> QED BY <1>0, <2>1, <2>2, <2>3 DEF TasksOK
<1>7. ASSUME NEW w \in Workers, ReduceTaskCount(w) PROVE TasksOK'
  <2>1. /\ queue' = queue /\ task' = [task EXCEPT ![w] = NoTask]
        /\ runningTaskCount' = runningTaskCount - 1 /\ task[w] \in ParallelTasks
    BY <1>0, <1>7 DEF ReduceTaskCount, WorkerInv
  <2>2. Count(ParallelTasks) # 0 /\ Count(ParallelTasks) \in Nat
    BY <1>0, <2>1, CountType DEF Live
  <2>3. runningTaskCount' \in Nat
    BY <1>0, <2>1, <2>2 DEF CountInv
  <2> QED BY <1>0, <2>1, <2>3 DEF TasksOK
<1>8. ASSUME NEW w \in Workers, FinishMarking(w) PROVE TasksOK'
  BY <1>0, <1>8 DEF TasksOK, FinishMarking, paramVars, workVars, gcVars
<1>9. ASSUME NEW w \in Workers, NotifyMarkingFinished(w) PROVE TasksOK'
  BY <1>0, <1>9 DEF NotifyMarkingFinished, TasksOK
<1>10. CASE CheckOngoingConcurrentMarking
  BY <1>0, <1>10 DEF TasksOK, CheckOngoingConcurrentMarking, AfterReset, markerVars,
       paramVars, workVars, frame, mainFrame
<1>11. CASE WaitMarkingFinished
  BY <1>0, <1>11 DEF TasksOK, WaitMarkingFinished, paramVars, workVars, frame, mainFrame
<1>12. CASE UseOngoingMarking
  BY <1>0, <1>12 DEF TasksOK, UseOngoingMarking, markerVars, paramVars, workVars, frame,
       mainFrame
<1>13. CASE Reset
  BY <1>0, <1>13 DEF TasksOK, Reset, ResetMarker, AfterReset, paramVars, workVars, frame,
       mainFrame
<1>14. CASE Prepare
  BY <1>0, <1>14 DEF TasksOK, Prepare, markerVars, paramVars, workVars, frame, mainFrame
<1>15. CASE Initialize
  BY <1>0, <1>15 DEF TasksOK, Initialize, paramVars, frame, mainFrame
<1>16. CASE MarkRoots
  BY <1>0, <1>16 DEF TasksOK, MarkRoots, PushWorkNodeToGlobal, markerVars, paramVars, gcVars
<1>17. CASE PostMarkerTask
  BY <1>0, <1>17 DEF PostMarkerTask, TasksOK, AllTasks
<1>18. CASE PostOldToNewTask
  BY <1>0, <1>18 DEF PostOldToNewTask, TasksOK, AllTasks, ParallelTasks
<1>19. CASE FinishCollection
  BY <1>0, <1>19 DEF TasksOK, FinishCollection, ResetMarker, markerVars, workVars, frame
<1>20. CASE SpuriousWakeup
  BY <1>0, <1>20 DEF TasksOK, SpuriousWakeup, markerVars, paramVars, workVars, frame,
       mainFrame
<1>21. CASE BarrierUpdate
  BY <1>0, <1>21 DEF TasksOK, BarrierUpdate, PushWorkNodeToGlobal, markerVars, paramVars,
       gcVars
<1>22. ASSUME NEW b \in Backgrounds, ChangeGCParams(b) PROVE TasksOK'
  BY <1>0, <1>22 DEF TasksOK, ChangeGCParams, EnableConcurrentMarking, markerVars, workVars,
       gcVars, frame
<1>23. ASSUME NEW t \in MarkTypes, TryTriggerConcurrentMarking(t) PROVE TasksOK'
  BY <1>0, <1>23 DEF TasksOK, TryTriggerConcurrentMarking, markerVars, paramVars, workVars,
       frame
<1>24. ASSUME NEW t \in GCTypes, CollectGarbage(t) PROVE TasksOK'
  BY <1>0, <1>24 DEF TasksOK, CollectGarbage, BeginCollection, markerVars, paramVars,
       workVars, frame
<1>25. CASE CheckSafepoint
  BY <1>0, <1>25 DEF TasksOK, CheckSafepoint, BeginCollection, markerVars, paramVars,
       workVars, frame
<1>26. CASE UNCHANGED vars
  BY <1>0, <1>26 DEF TasksOK, vars, markerVars, paramVars, workVars, gcVars
<1> QED BY StepCases, <1>1, <1>2, <1>3, <1>4, <1>5, <1>6, <1>7, <1>8, <1>9, <1>10, <1>11,
     <1>12, <1>13, <1>14, <1>15, <1>16, <1>17, <1>18, <1>19, <1>20, <1>21, <1>22, <1>23,
     <1>24, <1>25, <1>26

LEMMA TypeStep ==
    ASSUME Inv, [Next]_vars
    PROVE  TypeOK'
<1>1. PointsOK' /\ MarkerOK' /\ WorkOK' /\ TasksOK'
  BY PointsStep, MarkerStep, WorkStep, TasksStep
<1> QED BY <1>1, TypeParts, PTL

\* A worker starts, visits, posts and ends its task as Runner::Run and the tasks do.
LEMMA WorkerInvStep ==
    ASSUME Inv, [Next]_vars
    PROVE  WorkerInv'
<1>0. TypeOK /\ WorkerInv BY DEF Inv
<1>1. ASSUME NEW i \in Threads, Visit(i) PROVE WorkerInv'
  BY <1>0, <1>1 DEF WorkerInv, TypeOK, NoTask, ParallelTasks, Threads, Workers, Main, Visit,
       Processing, PushWorkNodeToGlobal, markerVars, paramVars, gcVars
<1>2. ASSUME NEW i \in Threads, PopWorkNodeFromGlobal(i) PROVE WorkerInv'
  BY <1>0, <1>2 DEF WorkerInv, TypeOK, NoTask, ParallelTasks, Threads, Workers, Main,
       PopWorkNodeFromGlobal, Processing, markerVars, paramVars, gcVars
<1>3. ASSUME NEW i \in Threads, MarkStackDone(i) PROVE WorkerInv'
  BY <1>0, <1>3 DEF WorkerInv, TypeOK, NoTask, ParallelTasks, Threads, Workers, Main,
       MarkStackDone, Processing, markerVars, paramVars, workVars, gcVars
<1>4. ASSUME NEW i \in Threads, PostParallelGCTask(i) PROVE WorkerInv'
  BY <1>0, <1>4 DEF WorkerInv, TypeOK, NoTask, ParallelTasks, Threads, Workers, Main,
       PostParallelGCTask, markerVars, paramVars, workVars, gcVars
<1>5. ASSUME NEW i \in Threads, WaitRunningTaskFinished(i) PROVE WorkerInv'
  BY <1>0, <1>5 DEF WorkerInv, TypeOK, NoTask, ParallelTasks, Threads, Workers, Main,
       WaitRunningTaskFinished, markerVars, paramVars, workVars, gcVars
<1>6. ASSUME NEW w \in Workers, StartTask(w) PROVE WorkerInv'
  BY <1>0, <1>6 DEF WorkerInv, TypeOK, NoTask, ParallelTasks, Threads, Workers, Main,
       StartTask, markerVars, paramVars, gcVars
<1>7. ASSUME NEW w \in Workers, ReduceTaskCount(w) PROVE WorkerInv'
  BY <1>0, <1>7 DEF WorkerInv, TypeOK, NoTask, ParallelTasks, Threads, Workers, Main,
       ReduceTaskCount, markerVars, paramVars, workVars, gcVars
<1>8. ASSUME NEW w \in Workers, FinishMarking(w) PROVE WorkerInv'
  BY <1>0, <1>8 DEF WorkerInv, TypeOK, NoTask, ParallelTasks, Threads, Workers, Main,
       FinishMarking, paramVars, workVars, gcVars
<1>9. ASSUME NEW w \in Workers, NotifyMarkingFinished(w) PROVE WorkerInv'
  BY <1>0, <1>9 DEF WorkerInv, TypeOK, NoTask, ParallelTasks, Threads, Workers, Main,
       NotifyMarkingFinished, paramVars, workVars, gcVars
<1>10. CASE CheckOngoingConcurrentMarking
  BY <1>0, <1>10 DEF WorkerInv, TypeOK, NoTask, ParallelTasks, Threads, Workers, Main,
       CheckOngoingConcurrentMarking, AfterReset, markerVars, paramVars, workVars, frame,
       mainFrame
<1>11. CASE WaitMarkingFinished
  BY <1>0, <1>11 DEF WorkerInv, TypeOK, NoTask, ParallelTasks, Threads, Workers, Main,
       WaitMarkingFinished, paramVars, workVars, frame, mainFrame
<1>12. CASE UseOngoingMarking
  BY <1>0, <1>12 DEF WorkerInv, TypeOK, NoTask, ParallelTasks, Threads, Workers, Main,
       UseOngoingMarking, markerVars, paramVars, workVars, frame, mainFrame
<1>13. CASE Reset
  BY <1>0, <1>13 DEF WorkerInv, TypeOK, NoTask, ParallelTasks, Threads, Workers, Main, Reset,
       ResetMarker, AfterReset, paramVars, workVars, frame, mainFrame
<1>14. CASE Prepare
  BY <1>0, <1>14 DEF WorkerInv, TypeOK, NoTask, ParallelTasks, Threads, Workers, Main,
       Prepare, markerVars, paramVars, workVars, frame, mainFrame
<1>15. CASE Initialize
  BY <1>0, <1>15 DEF WorkerInv, TypeOK, NoTask, ParallelTasks, Threads, Workers, Main,
       Initialize, paramVars, frame, mainFrame
<1>16. CASE MarkRoots
  BY <1>0, <1>16 DEF WorkerInv, TypeOK, NoTask, ParallelTasks, Threads, Workers, Main,
       MarkRoots, PushWorkNodeToGlobal, markerVars, paramVars, gcVars
<1>17. CASE PostMarkerTask
  BY <1>0, <1>17 DEF WorkerInv, TypeOK, NoTask, ParallelTasks, Threads, Workers, Main,
       PostMarkerTask, markerVars, paramVars, workVars, gcVars
<1>18. CASE PostOldToNewTask
  BY <1>0, <1>18 DEF WorkerInv, TypeOK, NoTask, ParallelTasks, Threads, Workers, Main,
       PostOldToNewTask, markerVars, paramVars, workVars, gcVars
<1>19. CASE FinishCollection
  BY <1>0, <1>19 DEF WorkerInv, TypeOK, NoTask, ParallelTasks, Threads, Workers, Main,
       FinishCollection, ResetMarker, markerVars, workVars, frame
<1>20. CASE SpuriousWakeup
  BY <1>0, <1>20 DEF WorkerInv, TypeOK, NoTask, ParallelTasks, Threads, Workers, Main,
       SpuriousWakeup, markerVars, paramVars, workVars, frame, mainFrame
<1>21. CASE BarrierUpdate
  BY <1>0, <1>21 DEF WorkerInv, TypeOK, NoTask, ParallelTasks, Threads, Workers, Main,
       BarrierUpdate, PushWorkNodeToGlobal, markerVars, paramVars, gcVars
<1>22. ASSUME NEW b \in Backgrounds, ChangeGCParams(b) PROVE WorkerInv'
  BY <1>0, <1>22 DEF WorkerInv, TypeOK, NoTask, ParallelTasks, Threads, Workers, Main,
       ChangeGCParams, EnableConcurrentMarking, markerVars, workVars, gcVars, frame
<1>23. ASSUME NEW t \in MarkTypes, TryTriggerConcurrentMarking(t) PROVE WorkerInv'
  BY <1>0, <1>23 DEF WorkerInv, TypeOK, NoTask, ParallelTasks, Threads, Workers, Main,
       TryTriggerConcurrentMarking, markerVars, paramVars, workVars, frame
<1>24. ASSUME NEW t \in GCTypes, CollectGarbage(t) PROVE WorkerInv'
  BY <1>0, <1>24 DEF WorkerInv, TypeOK, NoTask, ParallelTasks, Threads, Workers, Main,
       CollectGarbage, BeginCollection, markerVars, paramVars, workVars, frame
<1>25. CASE CheckSafepoint
  BY <1>0, <1>25 DEF WorkerInv, TypeOK, NoTask, ParallelTasks, Threads, Workers, Main,
       CheckSafepoint, BeginCollection, markerVars, paramVars, workVars, frame
<1>26. CASE UNCHANGED vars
  BY <1>0, <1>26 DEF WorkerInv, TypeOK, NoTask, ParallelTasks, Threads, Workers, Main, vars,
       markerVars, paramVars, workVars, gcVars
<1> QED BY StepCases, <1>1, <1>2, <1>3, <1>4, <1>5, <1>6, <1>7, <1>8, <1>9, <1>10, <1>11,
     <1>12, <1>13, <1>14, <1>15, <1>16, <1>17, <1>18, <1>19, <1>20, <1>21, <1>22, <1>23,
     <1>24, <1>25, <1>26

\* The JS thread goes from wait to wait; ChangeGCParams runs only in the program, so
\* that a marking stays enabled until it has finished.
LEMMA MainInvStep ==
    ASSUME Inv, [Next]_vars
    PROVE  MainInv'
<1>0. TypeOK /\ WorkerInv /\ MainInv BY DEF Inv
<1>1. ASSUME NEW i \in Threads, Visit(i) PROVE MainInv'
  BY <1>0, <1>1 DEF MainInv, At, TypeOK, IsEnabled, Threads, Workers, Main, Visit, Processing,
       PushWorkNodeToGlobal, markerVars, paramVars, gcVars
<1>2. ASSUME NEW i \in Threads, PopWorkNodeFromGlobal(i) PROVE MainInv'
  BY <1>0, <1>2 DEF MainInv, At, TypeOK, IsEnabled, Threads, Workers, Main,
       PopWorkNodeFromGlobal, Processing, markerVars, paramVars, gcVars
<1>3. ASSUME NEW i \in Threads, MarkStackDone(i) PROVE MainInv'
  BY <1>0, <1>3 DEF MainInv, At, TypeOK, IsEnabled, Threads, Workers, Main, MarkStackDone,
       Processing, markerVars, paramVars, workVars, gcVars
<1>4. ASSUME NEW i \in Threads, PostParallelGCTask(i) PROVE MainInv'
  BY <1>0, <1>4 DEF MainInv, At, TypeOK, IsEnabled, Threads, Workers, Main,
       PostParallelGCTask, markerVars, paramVars, workVars, gcVars
<1>5. ASSUME NEW i \in Threads, WaitRunningTaskFinished(i) PROVE MainInv'
  BY <1>0, <1>5 DEF MainInv, At, TypeOK, IsEnabled, Threads, Workers, Main,
       WaitRunningTaskFinished, markerVars, paramVars, workVars, gcVars
<1>6. ASSUME NEW w \in Workers, StartTask(w) PROVE MainInv'
  BY <1>0, <1>6 DEF MainInv, At, TypeOK, IsEnabled, Threads, Workers, Main, StartTask,
       markerVars, paramVars, gcVars
<1>7. ASSUME NEW w \in Workers, ReduceTaskCount(w) PROVE MainInv'
  BY <1>0, <1>7 DEF MainInv, At, TypeOK, IsEnabled, Threads, Workers, Main, ReduceTaskCount,
       markerVars, paramVars, workVars, gcVars
<1>8. ASSUME NEW w \in Workers, FinishMarking(w) PROVE MainInv'
  BY <1>0, <1>8 DEF MainInv, At, TypeOK, IsEnabled, Threads, Workers, Main, FinishMarking,
       paramVars, workVars, gcVars
<1>9. ASSUME NEW w \in Workers, NotifyMarkingFinished(w) PROVE MainInv'
  BY <1>0, <1>9 DEF MainInv, At, TypeOK, IsEnabled, Threads, Workers, Main,
       NotifyMarkingFinished, paramVars, workVars, gcVars
<1>10. CASE CheckOngoingConcurrentMarking
  BY <1>0, <1>10 DEF MainInv, At, TypeOK, IsEnabled, Threads, Workers, Main,
       CheckOngoingConcurrentMarking, AfterReset, markerVars, paramVars, workVars, frame,
       mainFrame
<1>11. CASE WaitMarkingFinished
  BY <1>0, <1>11 DEF MainInv, At, TypeOK, IsEnabled, Threads, Workers, Main,
       WaitMarkingFinished, paramVars, workVars, frame, mainFrame
<1>12. CASE UseOngoingMarking
  BY <1>0, <1>12 DEF MainInv, At, TypeOK, IsEnabled, Threads, Workers, Main,
       UseOngoingMarking, markerVars, paramVars, workVars, frame, mainFrame
<1>13. CASE Reset
  BY <1>0, <1>13 DEF MainInv, At, TypeOK, IsEnabled, Threads, Workers, Main, Reset,
       ResetMarker, AfterReset, paramVars, workVars, frame, mainFrame
<1>14. CASE Prepare
  BY <1>0, <1>14 DEF MainInv, At, TypeOK, IsEnabled, Threads, Workers, Main, Prepare,
       markerVars, paramVars, workVars, frame, mainFrame
<1>15. CASE Initialize
  BY <1>0, <1>15 DEF MainInv, At, TypeOK, IsEnabled, Threads, Workers, Main, Initialize,
       paramVars, frame, mainFrame
<1>16. CASE MarkRoots
  BY <1>0, <1>16 DEF MainInv, At, TypeOK, IsEnabled, Threads, Workers, Main, MarkRoots,
       PushWorkNodeToGlobal, markerVars, paramVars, gcVars
<1>17. CASE PostMarkerTask
  BY <1>0, <1>17 DEF MainInv, At, TypeOK, IsEnabled, Threads, Workers, Main, PostMarkerTask,
       markerVars, paramVars, workVars, gcVars
<1>18. CASE PostOldToNewTask
  BY <1>0, <1>18 DEF MainInv, At, TypeOK, IsEnabled, Threads, Workers, Main, PostOldToNewTask,
       markerVars, paramVars, workVars, gcVars
<1>19. CASE FinishCollection
  BY <1>0, <1>19 DEF MainInv, At, TypeOK, IsEnabled, Threads, Workers, Main, FinishCollection,
       ResetMarker, markerVars, workVars, frame
<1>20. CASE SpuriousWakeup
  BY <1>0, <1>20 DEF MainInv, At, TypeOK, IsEnabled, Threads, Workers, Main, SpuriousWakeup,
       markerVars, paramVars, workVars, frame, mainFrame
<1>21. CASE BarrierUpdate
  BY <1>0, <1>21 DEF MainInv, At, TypeOK, IsEnabled, Threads, Workers, Main, BarrierUpdate,
       PushWorkNodeToGlobal, markerVars, paramVars, gcVars
<1>22. ASSUME NEW b \in Backgrounds, ChangeGCParams(b) PROVE MainInv'
  BY <1>0, <1>22 DEF MainInv, At, TypeOK, IsEnabled, Threads, Workers, Main, ChangeGCParams,
       EnableConcurrentMarking, markerVars, workVars, gcVars, frame
<1>23. ASSUME NEW t \in MarkTypes, TryTriggerConcurrentMarking(t) PROVE MainInv'
  BY <1>0, <1>23 DEF MainInv, At, TypeOK, IsEnabled, Threads, Workers, Main,
       TryTriggerConcurrentMarking, markerVars, paramVars, workVars, frame
<1>24. ASSUME NEW t \in GCTypes, CollectGarbage(t) PROVE MainInv'
  <2>1. t # "CONCURRENT"
    BY <1>24, ConstAssumption
  <2>2. /\ pc' = [pc EXCEPT ![Main] = "check"] /\ gcType' = t /\ markStatus' = markStatus
        /\ hasWork' = hasWork /\ enableMarkType' = enableMarkType
    BY <1>24 DEF CollectGarbage, BeginCollection, markerVars, paramVars, workVars
  <2>3. pc'[Main] = "check" /\ At(Main)' = "check"
    BY <1>0, <2>2 DEF TypeOK, Threads, At
  <2> QED BY <1>0, <2>1, <2>2, <2>3 DEF MainInv, IsEnabled
<1>25. CASE CheckSafepoint
  BY <1>0, <1>25 DEF MainInv, At, TypeOK, IsEnabled, Threads, Workers, Main, CheckSafepoint,
       BeginCollection, markerVars, paramVars, workVars, frame
<1>26. CASE UNCHANGED vars
  BY <1>0, <1>26 DEF MainInv, At, TypeOK, IsEnabled, Threads, Workers, Main, vars, markerVars,
       paramVars, workVars, gcVars
<1> QED BY StepCases, <1>1, <1>2, <1>3, <1>4, <1>5, <1>6, <1>7, <1>8, <1>9, <1>10, <1>11,
     <1>12, <1>13, <1>14, <1>15, <1>16, <1>17, <1>18, <1>19, <1>20, <1>21, <1>22, <1>23,
     <1>24, <1>25, <1>26

\* Nothing is posted before WorkManager::Initialize has set a phase.
LEMMA PhaseInvStep ==
    ASSUME Inv, [Next]_vars
    PROVE  PhaseInv'
<1>0. TypeOK /\ WorkerInv /\ PhaseInv /\ MainInv BY DEF Inv
<1>1. ASSUME NEW i \in Threads, Visit(i) PROVE PhaseInv'
  BY <1>0, <1>1 DEF PhaseInv, TypeOK, WorkerInv, Threads, Workers, Main, Visit, Processing,
       PushWorkNodeToGlobal, markerVars, paramVars, gcVars
<1>2. ASSUME NEW i \in Threads, PopWorkNodeFromGlobal(i) PROVE PhaseInv'
  BY <1>0, <1>2 DEF PhaseInv, TypeOK, WorkerInv, Threads, Workers, Main,
       PopWorkNodeFromGlobal, Processing, markerVars, paramVars, gcVars
<1>3. ASSUME NEW i \in Threads, MarkStackDone(i) PROVE PhaseInv'
  BY <1>0, <1>3 DEF PhaseInv, TypeOK, WorkerInv, Threads, Workers, Main, MarkStackDone,
       Processing, markerVars, paramVars, workVars, gcVars
<1>4. ASSUME NEW i \in Threads, PostParallelGCTask(i) PROVE PhaseInv'
  BY <1>0, <1>4 DEF PhaseInv, TypeOK, WorkerInv, Threads, Workers, Main, PostParallelGCTask,
       markerVars, paramVars, workVars, gcVars
<1>5. ASSUME NEW i \in Threads, WaitRunningTaskFinished(i) PROVE PhaseInv'
  BY <1>0, <1>5 DEF PhaseInv, TypeOK, WorkerInv, Threads, Workers, Main,
       WaitRunningTaskFinished, markerVars, paramVars, workVars, gcVars
<1>6. ASSUME NEW w \in Workers, StartTask(w) PROVE PhaseInv'
  BY <1>0, <1>6 DEF PhaseInv, TypeOK, WorkerInv, Threads, Workers, Main, StartTask,
       markerVars, paramVars, gcVars
<1>7. ASSUME NEW w \in Workers, ReduceTaskCount(w) PROVE PhaseInv'
  BY <1>0, <1>7 DEF PhaseInv, TypeOK, WorkerInv, Threads, Workers, Main, ReduceTaskCount,
       markerVars, paramVars, workVars, gcVars
<1>8. ASSUME NEW w \in Workers, FinishMarking(w) PROVE PhaseInv'
  BY <1>0, <1>8 DEF PhaseInv, TypeOK, WorkerInv, Threads, Workers, Main, FinishMarking,
       paramVars, workVars, gcVars
<1>9. ASSUME NEW w \in Workers, NotifyMarkingFinished(w) PROVE PhaseInv'
  BY <1>0, <1>9 DEF PhaseInv, TypeOK, WorkerInv, Threads, Workers, Main,
       NotifyMarkingFinished, paramVars, workVars, gcVars
<1>10. CASE CheckOngoingConcurrentMarking
  BY <1>0, <1>10 DEF PhaseInv, TypeOK, WorkerInv, Threads, Workers, Main,
       CheckOngoingConcurrentMarking, AfterReset, markerVars, paramVars, workVars, frame,
       mainFrame
<1>11. CASE WaitMarkingFinished
  BY <1>0, <1>11 DEF PhaseInv, TypeOK, WorkerInv, Threads, Workers, Main, WaitMarkingFinished,
       paramVars, workVars, frame, mainFrame
<1>12. CASE UseOngoingMarking
  BY <1>0, <1>12 DEF PhaseInv, TypeOK, WorkerInv, Threads, Workers, Main, UseOngoingMarking,
       markerVars, paramVars, workVars, frame, mainFrame
<1>13. CASE Reset
  BY <1>0, <1>13 DEF PhaseInv, TypeOK, WorkerInv, Threads, Workers, Main, Reset, ResetMarker,
       AfterReset, paramVars, workVars, frame, mainFrame
<1>14. CASE Prepare
  BY <1>0, <1>14 DEF PhaseInv, TypeOK, WorkerInv, Threads, Workers, Main, Prepare, markerVars,
       paramVars, workVars, frame, mainFrame
<1>15. CASE Initialize
  BY <1>0, <1>15 DEF PhaseInv, TypeOK, WorkerInv, Threads, Workers, Main, Initialize,
       paramVars, frame, mainFrame
<1>16. CASE MarkRoots
  BY <1>0, <1>16 DEF PhaseInv, TypeOK, WorkerInv, Threads, Workers, Main, MarkRoots,
       PushWorkNodeToGlobal, markerVars, paramVars, gcVars
<1>17. CASE PostMarkerTask
  BY <1>0, <1>17 DEF PhaseInv, TypeOK, WorkerInv, Threads, Workers, Main, PostMarkerTask,
       markerVars, paramVars, workVars, gcVars
<1>18. CASE PostOldToNewTask
  BY <1>0, <1>18 DEF PhaseInv, TypeOK, WorkerInv, Threads, Workers, Main, PostOldToNewTask,
       markerVars, paramVars, workVars, gcVars
<1>19. CASE FinishCollection
  BY <1>0, <1>19 DEF PhaseInv, TypeOK, WorkerInv, Threads, Workers, Main, FinishCollection,
       ResetMarker, markerVars, workVars, frame
<1>20. CASE SpuriousWakeup
  BY <1>0, <1>20 DEF PhaseInv, TypeOK, WorkerInv, Threads, Workers, Main, SpuriousWakeup,
       markerVars, paramVars, workVars, frame, mainFrame
<1>21. CASE BarrierUpdate
  BY <1>0, <1>21 DEF PhaseInv, TypeOK, WorkerInv, Threads, Workers, Main, BarrierUpdate,
       PushWorkNodeToGlobal, markerVars, paramVars, gcVars
<1>22. ASSUME NEW b \in Backgrounds, ChangeGCParams(b) PROVE PhaseInv'
  BY <1>0, <1>22 DEF PhaseInv, TypeOK, WorkerInv, Threads, Workers, Main, ChangeGCParams,
       EnableConcurrentMarking, markerVars, workVars, gcVars, frame
<1>23. ASSUME NEW t \in MarkTypes, TryTriggerConcurrentMarking(t) PROVE PhaseInv'
  BY <1>0, <1>23 DEF PhaseInv, TypeOK, WorkerInv, Threads, Workers, Main,
       TryTriggerConcurrentMarking, markerVars, paramVars, workVars, frame
<1>24. ASSUME NEW t \in GCTypes, CollectGarbage(t) PROVE PhaseInv'
  BY <1>0, <1>24 DEF PhaseInv, TypeOK, WorkerInv, Threads, Workers, Main, CollectGarbage,
       BeginCollection, markerVars, paramVars, workVars, frame
<1>25. CASE CheckSafepoint
  BY <1>0, <1>25 DEF PhaseInv, TypeOK, WorkerInv, Threads, Workers, Main, CheckSafepoint,
       BeginCollection, markerVars, paramVars, workVars, frame
<1>26. CASE UNCHANGED vars
  BY <1>0, <1>26 DEF PhaseInv, TypeOK, WorkerInv, Threads, Workers, Main, vars, markerVars,
       paramVars, workVars, gcVars
<1> QED BY StepCases, <1>1, <1>2, <1>3, <1>4, <1>5, <1>6, <1>7, <1>8, <1>9, <1>10, <1>11,
     <1>12, <1>13, <1>14, <1>15, <1>16, <1>17, <1>18, <1>19, <1>20, <1>21, <1>22, <1>23,
     <1>24, <1>25, <1>26

\* Only a thread that finds the stack empty leaves ProcessMarkStack.
LEMMA StackInvStep ==
    ASSUME Inv, [Next]_vars
    PROVE  StackInv'
<1>0. TypeOK /\ WorkerInv /\ StackInv /\ MainInv BY DEF Inv
<1>1. ASSUME NEW i \in Threads, Visit(i) PROVE StackInv'
  BY <1>0, <1>1 DEF StackInv, At, TypeOK, WorkerInv, Threads, Workers, Main, Visit,
       Processing, PushWorkNodeToGlobal, markerVars, paramVars, gcVars
<1>2. ASSUME NEW i \in Threads, PopWorkNodeFromGlobal(i) PROVE StackInv'
  BY <1>0, <1>2 DEF StackInv, At, TypeOK, WorkerInv, Threads, Workers, Main,
       PopWorkNodeFromGlobal, Processing, markerVars, paramVars, gcVars
<1>3. ASSUME NEW i \in Threads, MarkStackDone(i) PROVE StackInv'
  BY <1>0, <1>3 DEF StackInv, At, TypeOK, WorkerInv, Threads, Workers, Main, MarkStackDone,
       Processing, markerVars, paramVars, workVars, gcVars
<1>4. ASSUME NEW i \in Threads, PostParallelGCTask(i) PROVE StackInv'
  BY <1>0, <1>4 DEF StackInv, At, TypeOK, WorkerInv, Threads, Workers, Main,
       PostParallelGCTask, markerVars, paramVars, workVars, gcVars
<1>5. ASSUME NEW i \in Threads, WaitRunningTaskFinished(i) PROVE StackInv'
  BY <1>0, <1>5 DEF StackInv, At, TypeOK, WorkerInv, Threads, Workers, Main,
       WaitRunningTaskFinished, markerVars, paramVars, workVars, gcVars
<1>6. ASSUME NEW w \in Workers, StartTask(w) PROVE StackInv'
  BY <1>0, <1>6 DEF StackInv, At, TypeOK, WorkerInv, Threads, Workers, Main, StartTask,
       markerVars, paramVars, gcVars
<1>7. ASSUME NEW w \in Workers, ReduceTaskCount(w) PROVE StackInv'
  BY <1>0, <1>7 DEF StackInv, At, TypeOK, WorkerInv, Threads, Workers, Main, ReduceTaskCount,
       markerVars, paramVars, workVars, gcVars
<1>8. ASSUME NEW w \in Workers, FinishMarking(w) PROVE StackInv'
  BY <1>0, <1>8 DEF StackInv, At, TypeOK, WorkerInv, Threads, Workers, Main, FinishMarking,
       paramVars, workVars, gcVars
<1>9. ASSUME NEW w \in Workers, NotifyMarkingFinished(w) PROVE StackInv'
  BY <1>0, <1>9 DEF StackInv, At, TypeOK, WorkerInv, Threads, Workers, Main,
       NotifyMarkingFinished, paramVars, workVars, gcVars
<1>10. CASE CheckOngoingConcurrentMarking
  BY <1>0, <1>10 DEF StackInv, At, TypeOK, WorkerInv, Threads, Workers, Main,
       CheckOngoingConcurrentMarking, AfterReset, markerVars, paramVars, workVars, frame,
       mainFrame
<1>11. CASE WaitMarkingFinished
  BY <1>0, <1>11 DEF StackInv, At, TypeOK, WorkerInv, Threads, Workers, Main,
       WaitMarkingFinished, paramVars, workVars, frame, mainFrame
<1>12. CASE UseOngoingMarking
  BY <1>0, <1>12 DEF StackInv, At, TypeOK, WorkerInv, Threads, Workers, Main,
       UseOngoingMarking, markerVars, paramVars, workVars, frame, mainFrame
<1>13. CASE Reset
  BY <1>0, <1>13 DEF StackInv, At, TypeOK, WorkerInv, Threads, Workers, Main, Reset,
       ResetMarker, AfterReset, paramVars, workVars, frame, mainFrame
<1>14. CASE Prepare
  BY <1>0, <1>14 DEF StackInv, At, TypeOK, WorkerInv, Threads, Workers, Main, Prepare,
       markerVars, paramVars, workVars, frame, mainFrame
<1>15. CASE Initialize
  BY <1>0, <1>15 DEF StackInv, At, TypeOK, WorkerInv, Threads, Workers, Main, Initialize,
       paramVars, frame, mainFrame
<1>16. CASE MarkRoots
  BY <1>0, <1>16 DEF StackInv, At, TypeOK, WorkerInv, Threads, Workers, Main, MarkRoots,
       PushWorkNodeToGlobal, markerVars, paramVars, gcVars
<1>17. CASE PostMarkerTask
  BY <1>0, <1>17 DEF StackInv, At, TypeOK, WorkerInv, Threads, Workers, Main, PostMarkerTask,
       markerVars, paramVars, workVars, gcVars
<1>18. CASE PostOldToNewTask
  BY <1>0, <1>18 DEF StackInv, At, TypeOK, WorkerInv, Threads, Workers, Main,
       PostOldToNewTask, markerVars, paramVars, workVars, gcVars
<1>19. CASE FinishCollection
  BY <1>0, <1>19 DEF StackInv, At, TypeOK, WorkerInv, Threads, Workers, Main,
       FinishCollection, ResetMarker, markerVars, workVars, frame
<1>20. CASE SpuriousWakeup
  BY <1>0, <1>20 DEF StackInv, At, TypeOK, WorkerInv, Threads, Workers, Main, SpuriousWakeup,
       markerVars, paramVars, workVars, frame, mainFrame
<1>21. CASE BarrierUpdate
  BY <1>0, <1>21 DEF StackInv, At, TypeOK, WorkerInv, Threads, Workers, Main, BarrierUpdate,
       PushWorkNodeToGlobal, markerVars, paramVars, gcVars
<1>22. ASSUME NEW b \in Backgrounds, ChangeGCParams(b) PROVE StackInv'
  BY <1>0, <1>22 DEF StackInv, At, TypeOK, WorkerInv, Threads, Workers, Main, ChangeGCParams,
       EnableConcurrentMarking, markerVars, workVars, gcVars, frame
<1>23. ASSUME NEW t \in MarkTypes, TryTriggerConcurrentMarking(t) PROVE StackInv'
  BY <1>0, <1>23 DEF StackInv, At, TypeOK, WorkerInv, Threads, Workers, Main,
       TryTriggerConcurrentMarking, markerVars, paramVars, workVars, frame
<1>24. ASSUME NEW t \in GCTypes, CollectGarbage(t) PROVE StackInv'
  BY <1>0, <1>24 DEF StackInv, At, TypeOK, WorkerInv, Threads, Workers, Main, CollectGarbage,
       BeginCollection, markerVars, paramVars, workVars, frame
<1>25. CASE CheckSafepoint
  BY <1>0, <1>25 DEF StackInv, At, TypeOK, WorkerInv, Threads, Workers, Main, CheckSafepoint,
       BeginCollection, markerVars, paramVars, workVars, frame
<1>26. CASE UNCHANGED vars
  BY <1>0, <1>26 DEF StackInv, At, TypeOK, WorkerInv, Threads, Workers, Main, vars,
       markerVars, paramVars, workVars, gcVars
<1> QED BY StepCases, <1>1, <1>2, <1>3, <1>4, <1>5, <1>6, <1>7, <1>8, <1>9, <1>10, <1>11,
     <1>12, <1>13, <1>14, <1>15, <1>16, <1>17, <1>18, <1>19, <1>20, <1>21, <1>22, <1>23,
     <1>24, <1>25, <1>26

\* What is queued after a post, and after a worker has popped a task.
LEMMA QueuedPost ==
    ASSUME TypeOK, NEW t \in AllTasks, NEW u, queue' = Append(queue, t)
    PROVE  Queued(u)' <=> Queued(u) \/ u = t
<1>1. queue \in Seq(AllTasks)
  BY DEF TypeOK, AllTasks
<1>2. /\ DOMAIN queue = 1 .. Len(queue) /\ Len(queue) \in Nat
      /\ DOMAIN queue' = 1 .. Len(queue) + 1
      /\ \A k \in 1 .. Len(queue) : queue'[k] = queue[k]
      /\ queue'[Len(queue) + 1] = t
  BY <1>1
<1> QED BY <1>2 DEF Queued

LEMMA QueuedStart ==
    ASSUME TypeOK, NEW u, queue # << >>, queue' = Tail(queue)
    PROVE  /\ Queued(u)' => Queued(u)
           /\ Queued(Head(queue)) /\ Head(queue) \in AllTasks
<1>1. queue \in Seq(AllTasks)
  BY DEF TypeOK, AllTasks
<1>2. /\ DOMAIN queue = 1 .. Len(queue) /\ Len(queue) \in Nat /\ Len(queue) > 0
      /\ DOMAIN queue' = 1 .. Len(queue) - 1
      /\ \A k \in 1 .. Len(queue) - 1 : queue'[k] = queue[k + 1]
      /\ Head(queue) = queue[1]
  BY <1>1
<1> QED BY <1>1, <1>2 DEF Queued

\* One task of a kind is either queued or run by one worker.
LEMMA CountOne ==
    ASSUME TypeOK, NEW t, Count({t}) = 1, NEW w \in Workers, task[w] = t
    PROVE  ~Queued(t) /\ \A v \in Workers : task[v] = t => v = w
<1>1. queue \in Seq(AllTasks)
  BY DEF TypeOK, AllTasks
<1> PICK Q, R : Q = QueuedOf({t}) /\ R = RunningOf({t}) OBVIOUS
<1>2. IsFiniteSet(Q) /\ Cardinality(Q) \in Nat /\ IsFiniteSet(R) /\ Cardinality(R) \in Nat
  BY <1>1, PositionsAreFinite, WorkersAreFinite DEF QueuedOf
<1>3. w \in R
  BY DEF RunningOf
<1>4. Cardinality(R) # 0
  BY <1>2, <1>3, FS_EmptySet
<1>5. Cardinality(Q) + Cardinality(R) = 1
  BY DEF Count
<1>6. Cardinality(Q) = 0 /\ Cardinality(R) = 1
  BY <1>2, <1>4, <1>5
<1>7. Q = {}
  BY <1>2, <1>6, FS_EmptySet
<1>8. \E x : R = {x}
  BY <1>2, <1>6, FS_Singleton
<1>9. ~Queued(t)
  BY <1>7 DEF QueuedOf, Positions, Queued
<1> QED BY <1>3, <1>8, <1>9 DEF RunningOf

\* A task that is posted is a ParallelGCTask of this marking.
LEMMA PhaseIsKnown ==
    ASSUME Inv, NEW i \in Threads, pc[i] = "post"
    PROVE  parallelGCTaskPhase \in ParallelTasks /\ parallelGCTaskPhase \in AllTasks
<1>1. i # Main => task[i] # NoTask
  BY DEF Inv, WorkerInv, Threads
<1>2. parallelGCTaskPhase # "UNDEFINED_TASK"
  BY <1>1 DEF Inv, PhaseInv, Threads
<1> QED BY <1>2 DEF Inv, TypeOK, ParallelTasks, AllTasks

\* Each task is counted from its post to its ReduceTaskCount.
LEMMA CountInvStep ==
    ASSUME Inv, [Next]_vars
    PROVE  CountInv'
<1>0. TypeOK /\ WorkerInv /\ CountInv /\ Count(ParallelTasks) \in Nat BY CountType DEF Inv
<1>1. ASSUME NEW i \in Threads, Visit(i) PROVE CountInv'
  BY <1>0, <1>1, CountSame DEF CountInv, Visit, Processing, PushWorkNodeToGlobal, markerVars,
       paramVars, gcVars
<1>2. ASSUME NEW i \in Threads, PopWorkNodeFromGlobal(i) PROVE CountInv'
  BY <1>0, <1>2, CountSame DEF CountInv, PopWorkNodeFromGlobal, Processing, markerVars,
       paramVars, gcVars
<1>3. ASSUME NEW i \in Threads, MarkStackDone(i) PROVE CountInv'
  BY <1>0, <1>3, CountSame DEF CountInv, MarkStackDone, Processing, markerVars, paramVars,
       workVars, gcVars
<1>4. ASSUME NEW i \in Threads, PostParallelGCTask(i) PROVE CountInv'
  <2>1. parallelGCTaskPhase \in ParallelTasks /\ parallelGCTaskPhase \in AllTasks
    BY <1>0, <1>4, PhaseIsKnown DEF PostParallelGCTask
  <2>2. /\ queue' = Append(queue, parallelGCTaskPhase) /\ task' = task
        /\ runningTaskCount' = runningTaskCount + 1
    BY <1>0, <1>4 DEF PostParallelGCTask
  <2>3. Count(ParallelTasks)' = Count(ParallelTasks) + 1
    BY <1>0, <2>1, <2>2, CountPost
  <2> QED BY <1>0, <2>2, <2>3 DEF CountInv
<1>5. ASSUME NEW i \in Threads, WaitRunningTaskFinished(i) PROVE CountInv'
  BY <1>0, <1>5, CountSame DEF CountInv, WaitRunningTaskFinished, markerVars, paramVars,
       workVars, gcVars
<1>6. ASSUME NEW w \in Workers, StartTask(w) PROVE CountInv'
  <2>0. NoTask \notin ParallelTasks BY DEF NoTask, ParallelTasks
  <2>1. /\ queue # << >> /\ queue' = Tail(queue) /\ task' = [task EXCEPT ![w] = Head(queue)]
        /\ runningTaskCount' = runningTaskCount /\ task[w] = NoTask
    BY <1>0, <1>6 DEF StartTask, WorkerInv
  <2>2. Count(ParallelTasks)' = Count(ParallelTasks)
    BY <1>0, <2>0, <2>1, CountStart
  <2> QED BY <1>0, <2>1, <2>2 DEF CountInv
<1>7. ASSUME NEW w \in Workers, ReduceTaskCount(w) PROVE CountInv'
  <2>0. NoTask \notin ParallelTasks BY DEF NoTask, ParallelTasks
  <2>1. /\ queue' = queue /\ task' = [task EXCEPT ![w] = NoTask]
        /\ runningTaskCount' = runningTaskCount - 1 /\ task[w] \in ParallelTasks
    BY <1>0, <1>7 DEF ReduceTaskCount, WorkerInv
  <2>2. Count(ParallelTasks)' = Count(ParallelTasks) - 1
    BY <1>0, <2>0, <2>1, CountEnd
  <2> QED BY <1>0, <2>1, <2>2 DEF CountInv
<1>8. ASSUME NEW w \in Workers, FinishMarking(w) PROVE CountInv'
  BY <1>0, <1>8, CountSame DEF CountInv, FinishMarking, paramVars, workVars, gcVars
<1>9. ASSUME NEW w \in Workers, NotifyMarkingFinished(w) PROVE CountInv'
  <2>0. NoTask \notin ParallelTasks BY DEF NoTask, ParallelTasks
  <2>1. /\ queue' = queue /\ task' = [task EXCEPT ![w] = NoTask]
        /\ runningTaskCount' = runningTaskCount /\ task[w] = "MARKER"
    BY <1>0, <1>9 DEF NotifyMarkingFinished, WorkerInv
  <2>2. "MARKER" \notin ParallelTasks
    BY DEF ParallelTasks
  <2>3. Count(ParallelTasks)' = Count(ParallelTasks) - 0
    BY <1>0, <2>0, <2>1, <2>2, CountEnd
  <2> QED BY <1>0, <2>1, <2>3 DEF CountInv
<1>10. CASE CheckOngoingConcurrentMarking
  BY <1>0, <1>10, CountSame DEF CountInv, CheckOngoingConcurrentMarking, AfterReset,
       markerVars, paramVars, workVars, frame, mainFrame
<1>11. CASE WaitMarkingFinished
  BY <1>0, <1>11, CountSame DEF CountInv, WaitMarkingFinished, paramVars, workVars, frame,
       mainFrame
<1>12. CASE UseOngoingMarking
  BY <1>0, <1>12, CountSame DEF CountInv, UseOngoingMarking, markerVars, paramVars, workVars,
       frame, mainFrame
<1>13. CASE Reset
  BY <1>0, <1>13, CountSame DEF CountInv, Reset, ResetMarker, AfterReset, paramVars, workVars,
       frame, mainFrame
<1>14. CASE Prepare
  BY <1>0, <1>14, CountSame DEF CountInv, Prepare, markerVars, paramVars, workVars, frame,
       mainFrame
<1>15. CASE Initialize
  BY <1>0, <1>15, CountSame DEF CountInv, Initialize, paramVars, frame, mainFrame
<1>16. CASE MarkRoots
  BY <1>0, <1>16, CountSame DEF CountInv, MarkRoots, PushWorkNodeToGlobal, markerVars,
       paramVars, gcVars
<1>17. CASE PostMarkerTask
  <2>1. "MARKER" \in AllTasks /\ "MARKER" \notin ParallelTasks
    BY DEF AllTasks, ParallelTasks
  <2>2. /\ queue' = Append(queue, "MARKER") /\ task' = task
        /\ runningTaskCount' = runningTaskCount
    BY <1>0, <1>17 DEF PostMarkerTask
  <2>3. Count(ParallelTasks)' = Count(ParallelTasks) + 0
    BY <1>0, <2>1, <2>2, CountPost
  <2> QED BY <1>0, <2>2, <2>3 DEF CountInv
<1>18. CASE PostOldToNewTask
  <2>1. "OLD_TO_NEW" \in AllTasks /\ "OLD_TO_NEW" \in ParallelTasks
    BY DEF AllTasks, ParallelTasks
  <2>2. /\ queue' = Append(queue, "OLD_TO_NEW") /\ task' = task
        /\ runningTaskCount' = runningTaskCount + 1
    BY <1>0, <1>18 DEF PostOldToNewTask
  <2>3. Count(ParallelTasks)' = Count(ParallelTasks) + 1
    BY <1>0, <2>1, <2>2, CountPost
  <2> QED BY <1>0, <2>2, <2>3 DEF CountInv
<1>19. CASE FinishCollection
  BY <1>0, <1>19, CountSame DEF CountInv, FinishCollection, ResetMarker, markerVars, workVars,
       frame
<1>20. CASE SpuriousWakeup
  BY <1>0, <1>20, CountSame DEF CountInv, SpuriousWakeup, markerVars, paramVars, workVars,
       frame, mainFrame
<1>21. CASE BarrierUpdate
  BY <1>0, <1>21, CountSame DEF CountInv, BarrierUpdate, PushWorkNodeToGlobal, markerVars,
       paramVars, gcVars
<1>22. ASSUME NEW b \in Backgrounds, ChangeGCParams(b) PROVE CountInv'
  BY <1>0, <1>22, CountSame DEF CountInv, ChangeGCParams, EnableConcurrentMarking, markerVars,
       workVars, gcVars, frame
<1>23. ASSUME NEW t \in MarkTypes, TryTriggerConcurrentMarking(t) PROVE CountInv'
  BY <1>0, <1>23, CountSame DEF CountInv, TryTriggerConcurrentMarking, markerVars, paramVars,
       workVars, frame
<1>24. ASSUME NEW t \in GCTypes, CollectGarbage(t) PROVE CountInv'
  BY <1>0, <1>24, CountSame DEF CountInv, CollectGarbage, BeginCollection, markerVars,
       paramVars, workVars, frame
<1>25. CASE CheckSafepoint
  BY <1>0, <1>25, CountSame DEF CountInv, CheckSafepoint, BeginCollection, markerVars,
       paramVars, workVars, frame
<1>26. CASE UNCHANGED vars
  BY <1>0, <1>26, CountSame DEF CountInv, vars, markerVars, paramVars, workVars, gcVars
<1> QED BY StepCases, <1>1, <1>2, <1>3, <1>4, <1>5, <1>6, <1>7, <1>8, <1>9, <1>10, <1>11,
     <1>12, <1>13, <1>14, <1>15, <1>16, <1>17, <1>18, <1>19, <1>20, <1>21, <1>22, <1>23,
     <1>24, <1>25, <1>26

\* The JS thread does not take back that it has missed a report.
LEMMA MissedStep ==
    ASSUME Inv, [Next]_vars, ~missedWait'
    PROVE  ~missedWait
<1>0. TypeOK BY DEF Inv
<1>1. ASSUME NEW i \in Threads, Visit(i) PROVE ~missedWait
  BY <1>1 DEF Visit, Processing, markerVars, paramVars, gcVars
<1>2. ASSUME NEW i \in Threads, PopWorkNodeFromGlobal(i) PROVE ~missedWait
  BY <1>0, <1>2 DEF TypeOK, PopWorkNodeFromGlobal, Processing, markerVars, paramVars, gcVars
<1>3. ASSUME NEW i \in Threads, MarkStackDone(i) PROVE ~missedWait
  BY <1>0, <1>3 DEF TypeOK, MarkStackDone, Processing, markerVars, paramVars, workVars, gcVars
<1>4. ASSUME NEW i \in Threads, PostParallelGCTask(i) PROVE ~missedWait
  BY <1>0, <1>4 DEF TypeOK, PostParallelGCTask, markerVars, paramVars, workVars, gcVars
<1>5. ASSUME NEW i \in Threads, WaitRunningTaskFinished(i) PROVE ~missedWait
  BY <1>0, <1>5 DEF TypeOK, WaitRunningTaskFinished, markerVars, paramVars, workVars, gcVars
<1>6. ASSUME NEW w \in Workers, StartTask(w) PROVE ~missedWait
  BY <1>0, <1>6 DEF TypeOK, StartTask, markerVars, paramVars, gcVars
<1>7. ASSUME NEW w \in Workers, ReduceTaskCount(w) PROVE ~missedWait
  BY <1>0, <1>7 DEF TypeOK, ReduceTaskCount, markerVars, paramVars, workVars, gcVars
<1>8. ASSUME NEW w \in Workers, FinishMarking(w) PROVE ~missedWait
  BY <1>0, <1>8 DEF TypeOK, FinishMarking, paramVars, workVars, gcVars
<1>9. ASSUME NEW w \in Workers, NotifyMarkingFinished(w) PROVE ~missedWait
  BY <1>0, <1>9 DEF TypeOK, NotifyMarkingFinished, paramVars, workVars, gcVars
<1>10. CASE CheckOngoingConcurrentMarking
  BY <1>0, <1>10 DEF TypeOK, CheckOngoingConcurrentMarking, AfterReset, markerVars, paramVars,
       workVars, frame, mainFrame
<1>11. CASE WaitMarkingFinished
  BY <1>0, <1>11 DEF TypeOK, WaitMarkingFinished, paramVars, workVars, frame, mainFrame
<1>12. CASE UseOngoingMarking
  BY <1>0, <1>12 DEF TypeOK, UseOngoingMarking, markerVars, paramVars, workVars, frame,
       mainFrame
<1>13. CASE Reset
  BY <1>0, <1>13 DEF TypeOK, Reset, ResetMarker, AfterReset, paramVars, workVars, frame,
       mainFrame
<1>14. CASE Prepare
  BY <1>0, <1>14 DEF TypeOK, Prepare, markerVars, paramVars, workVars, frame, mainFrame
<1>15. CASE Initialize
  BY <1>0, <1>15 DEF TypeOK, Initialize, paramVars, frame, mainFrame
<1>16. CASE MarkRoots
  BY <1>16 DEF MarkRoots, markerVars, paramVars, gcVars
<1>17. CASE PostMarkerTask
  BY <1>0, <1>17 DEF TypeOK, PostMarkerTask, markerVars, paramVars, workVars, gcVars
<1>18. CASE PostOldToNewTask
  BY <1>0, <1>18 DEF TypeOK, PostOldToNewTask, markerVars, paramVars, workVars, gcVars
<1>19. CASE FinishCollection
  BY <1>0, <1>19 DEF TypeOK, FinishCollection, ResetMarker, markerVars, workVars, frame
<1>20. CASE SpuriousWakeup
  BY <1>0, <1>20 DEF TypeOK, SpuriousWakeup, markerVars, paramVars, workVars, frame, mainFrame
<1>21. CASE BarrierUpdate
  BY <1>21 DEF BarrierUpdate, markerVars, paramVars, gcVars
<1>22. ASSUME NEW b \in Backgrounds, ChangeGCParams(b) PROVE ~missedWait
  BY <1>0, <1>22 DEF TypeOK, ChangeGCParams, EnableConcurrentMarking, markerVars, workVars,
       gcVars, frame
<1>23. ASSUME NEW t \in MarkTypes, TryTriggerConcurrentMarking(t) PROVE ~missedWait
  BY <1>0, <1>23 DEF TypeOK, TryTriggerConcurrentMarking, markerVars, paramVars, workVars,
       frame
<1>24. ASSUME NEW t \in GCTypes, CollectGarbage(t) PROVE ~missedWait
  BY <1>0, <1>24 DEF TypeOK, CollectGarbage, BeginCollection, markerVars, paramVars, workVars,
       frame
<1>25. CASE CheckSafepoint
  BY <1>0, <1>25 DEF TypeOK, CheckSafepoint, BeginCollection, markerVars, paramVars, workVars,
       frame
<1>26. CASE UNCHANGED vars
  BY <1>26 DEF vars
<1> QED BY StepCases, <1>1, <1>2, <1>3, <1>4, <1>5, <1>6, <1>7, <1>8, <1>9, <1>10, <1>11,
     <1>12, <1>13, <1>14, <1>15, <1>16, <1>17, <1>18, <1>19, <1>20, <1>21, <1>22, <1>23,
     <1>24, <1>25, <1>26

\* The MarkerTask is one of the tasks, and no ParallelGCTask.
LEMMA TaskFacts ==
    /\ "MARKER" \in AllTasks /\ "MARKER" \notin ParallelTasks /\ NoTask \notin {"MARKER"}
    /\ NoTask \notin ParallelTasks /\ \A t \in ParallelTasks : t \in AllTasks /\ t # "MARKER"
    /\ "OLD_TO_NEW" \in ParallelTasks
  BY DEF AllTasks, ParallelTasks, NoTask

\* A worker with a MarkerTask has the only one, and none is queued.
LEMMA OneMarker ==
    ASSUME TypeOK, MarkerInv, NEW w \in Workers, task[w] = "MARKER"
    PROVE  /\ Count({"MARKER"}) = 1 /\ ~Queued("MARKER")
           /\ \A v \in Workers : task[v] = "MARKER" => v = w
<1>1. Count({"MARKER"}) # 0
  BY CountType DEF Live
<1>2. Count({"MARKER"}) = 1
  BY <1>1 DEF MarkerInv
<1> QED BY <1>2, CountOne

\* When no marker may be alive, none is.
LEMMA NoMarker ==
    ASSUME TypeOK, Count({"MARKER"}) = 0
    PROVE  ~Queued("MARKER") /\ \A w \in Workers : task[w] # "MARKER"
  BY CountType DEF Live

\* FinishMarking, the Reset and the post of a MarkerTask keep status and marker together.
LEMMA MarkerInvStep ==
    ASSUME Inv, [Next]_vars, ~missedWait, ~missedWait'
    PROVE  MarkerInv'
<1>0. TypeOK /\ WorkerInv /\ MainInv /\ MarkerInv /\ PassedInv BY DEF Inv, ReportInv
<1>1. ASSUME NEW i \in Threads, Visit(i) PROVE MarkerInv'
  <2>1. Count({"MARKER"})' = Count({"MARKER"}) /\ (Queued("MARKER")' <=> Queued("MARKER"))
    BY <1>0, <1>1, CountSame DEF Visit, Processing, Queued, markerVars, paramVars, gcVars
  <2> QED BY <1>0, <1>1, <2>1 DEF MarkerInv, Beginning, At, Threads, Workers, Main, TypeOK,
       WorkerInv, MainInv, Visit, Processing, PushWorkNodeToGlobal, markerVars, paramVars,
       gcVars
<1>2. ASSUME NEW i \in Threads, PopWorkNodeFromGlobal(i) PROVE MarkerInv'
  <2>1. Count({"MARKER"})' = Count({"MARKER"}) /\ (Queued("MARKER")' <=> Queued("MARKER"))
    BY <1>0, <1>2, CountSame DEF PopWorkNodeFromGlobal, Processing, Queued, markerVars,
         paramVars, gcVars
  <2> QED BY <1>0, <1>2, <2>1 DEF MarkerInv, Beginning, At, Threads, Workers, Main, TypeOK,
       WorkerInv, MainInv, PopWorkNodeFromGlobal, Processing, markerVars, paramVars, gcVars
<1>3. ASSUME NEW i \in Threads, MarkStackDone(i) PROVE MarkerInv'
  <2>1. Count({"MARKER"})' = Count({"MARKER"}) /\ (Queued("MARKER")' <=> Queued("MARKER"))
    BY <1>0, <1>3, CountSame DEF MarkStackDone, Processing, Queued, markerVars, paramVars,
         workVars, gcVars
  <2> QED BY <1>0, <1>3, <2>1 DEF MarkerInv, Beginning, At, Threads, Workers, Main, TypeOK,
       WorkerInv, MainInv, MarkStackDone, Processing, markerVars, paramVars, workVars, gcVars
<1>4. ASSUME NEW i \in Threads, PostParallelGCTask(i) PROVE MarkerInv'
  <2>1. parallelGCTaskPhase \in ParallelTasks /\ parallelGCTaskPhase \in AllTasks
    BY <1>0, <1>4, PhaseIsKnown DEF PostParallelGCTask
  <2>2. queue' = Append(queue, parallelGCTaskPhase) /\ task' = task
    BY <1>0, <1>4 DEF PostParallelGCTask
  <2>3. parallelGCTaskPhase \notin {"MARKER"}
    BY <2>1, TaskFacts
  <2>4. Count({"MARKER"})' = Count({"MARKER"}) + 0
    BY <1>0, <2>1, <2>2, <2>3, CountPost
  <2>5. Queued("MARKER")' <=> Queued("MARKER")
    BY <1>0, <2>1, <2>2, <2>3, QueuedPost
  <2>6. Count({"MARKER"}) \in Nat
    BY <1>0, CountType
  <2>7. Count({"MARKER"})' = Count({"MARKER"})
    BY ONLY <2>4, <2>6
  <2> QED BY <1>0, <1>4, <2>5, <2>7 DEF MarkerInv, Beginning, At, Threads, Main, TypeOK,
       WorkerInv, MainInv, PostParallelGCTask, markerVars, gcVars
<1>5. ASSUME NEW i \in Threads, WaitRunningTaskFinished(i) PROVE MarkerInv'
  <2>1. Count({"MARKER"})' = Count({"MARKER"}) /\ (Queued("MARKER")' <=> Queued("MARKER"))
    BY <1>0, <1>5, CountSame DEF WaitRunningTaskFinished, Queued, markerVars, paramVars,
         workVars, gcVars
  <2> QED BY <1>0, <1>5, <2>1 DEF MarkerInv, Beginning, At, Threads, Workers, Main, TypeOK,
       WorkerInv, MainInv, WaitRunningTaskFinished, markerVars, paramVars, workVars, gcVars
<1>6. ASSUME NEW w \in Workers, StartTask(w) PROVE MarkerInv'
  <2>1. /\ queue # << >> /\ queue' = Tail(queue) /\ task' = [task EXCEPT ![w] = Head(queue)]
        /\ task[w] = NoTask
    BY <1>0, <1>6 DEF StartTask, WorkerInv
  <2>2. Count({"MARKER"})' = Count({"MARKER"})
    BY <1>0, <2>1, CountStart, TaskFacts
  <2>3. (Queued("MARKER")' => Queued("MARKER")) /\ Queued(Head(queue))
    BY <1>0, <2>1, QueuedStart
  <2> QED BY <1>0, <1>6, <2>1, <2>2, <2>3 DEF MarkerInv, Beginning, At, Threads, Workers,
       Main, TypeOK, StartTask, markerVars, gcVars
<1>7. ASSUME NEW w \in Workers, ReduceTaskCount(w) PROVE MarkerInv'
  <2>1. /\ queue' = queue /\ task' = [task EXCEPT ![w] = NoTask] /\ task[w] \in ParallelTasks
    BY <1>0, <1>7 DEF ReduceTaskCount, WorkerInv
  <2>2. Count({"MARKER"})' = Count({"MARKER"}) - 0
    BY <1>0, <2>1, CountEnd, TaskFacts
  <2>3. Count({"MARKER"}) \in Nat
    BY <1>0, CountType
  <2>4. Count({"MARKER"})' = Count({"MARKER"})
    BY ONLY <2>2, <2>3
  <2>5. Queued("MARKER")' <=> Queued("MARKER")
    BY <2>1 DEF Queued
  <2> QED BY <1>0, <1>7, <2>1, <2>4, <2>5, TaskFacts DEF MarkerInv, Beginning, At, Threads,
       Workers, Main, TypeOK, ReduceTaskCount, markerVars, gcVars
<1>8. ASSUME NEW w \in Workers, FinishMarking(w) PROVE MarkerInv'
  <2>1. task[w] = "MARKER" /\ pc[w] = "finish" /\ markStatus' = "MARK_FINISHED"
        /\ pc' = [pc EXCEPT ![w] = "notify"] /\ queue' = queue /\ task' = task
        /\ notifyMarkingFinished' = notifyMarkingFinished /\ back' = back /\ gcType' = gcType
    BY <1>0, <1>8 DEF FinishMarking, WorkerInv, gcVars
  <2>2. /\ Count({"MARKER"}) = 1 /\ ~Queued("MARKER")
        /\ \A v \in Workers : task[v] = "MARKER" => v = w
    BY <1>0, <2>1, OneMarker
  <2>3. Count({"MARKER"})' = 1 /\ ~Queued("MARKER")'
    BY <2>1, <2>2, CountSame DEF Queued
  <2>4. markStatus = "MARKING" /\ ~Beginning /\ ~notifyMarkingFinished
    BY <1>0, <2>1, <2>2 DEF MarkerInv, TypeOK
  <2>5. pc'[Main] = pc[Main] /\ pc'[w] = "notify"
    BY <1>0, <2>1 DEF TypeOK, Threads, Workers, Main
  <2>6. Beginning' <=> Beginning
    BY <2>1, <2>5 DEF Beginning, At
  <2> QED BY <2>1, <2>2, <2>3, <2>4, <2>5, <2>6 DEF MarkerInv
<1>9. ASSUME NEW w \in Workers, NotifyMarkingFinished(w) PROVE MarkerInv'
  <2>1. task[w] = "MARKER" /\ pc[w] = "notify" /\ markStatus' = markStatus
        /\ queue' = queue /\ task' = [task EXCEPT ![w] = NoTask]
        /\ notifyMarkingFinished' = TRUE /\ back' = back /\ gcType' = gcType
    BY <1>0, <1>9 DEF NotifyMarkingFinished, WorkerInv, gcVars
  <2>2. /\ Count({"MARKER"}) = 1 /\ ~Queued("MARKER")
        /\ \A v \in Workers : task[v] = "MARKER" => v = w
    BY <1>0, <2>1, OneMarker
  <2>3. Count({"MARKER"})' = 1 - 1
    BY <1>0, <2>1, <2>2, CountEnd, TaskFacts
  <2>4. ~Queued("MARKER")' /\ \A v \in Workers : task'[v] # "MARKER"
    BY <1>0, <2>1, <2>2, TaskFacts DEF Queued, TypeOK
  <2>5. markStatus = "MARK_FINISHED" /\ ~Beginning
    BY <1>0, <2>1 DEF MarkerInv
  <2>6. Beginning' <=> Beginning
    BY <1>0, <1>9, <2>1 DEF NotifyMarkingFinished, Beginning, At, TypeOK, Threads, Workers,
         Main
  <2> QED BY <2>1, <2>3, <2>4, <2>5, <2>6 DEF MarkerInv
<1>10. CASE CheckOngoingConcurrentMarking
  <2>1. Count({"MARKER"})' = Count({"MARKER"}) /\ (Queued("MARKER")' <=> Queued("MARKER"))
    BY <1>0, <1>10, CountSame DEF CheckOngoingConcurrentMarking, AfterReset, Queued,
         markerVars, paramVars, workVars, frame, mainFrame
  <2> QED BY <1>0, <1>10, <2>1 DEF MarkerInv, Beginning, At, Threads, Workers, Main, TypeOK,
       WorkerInv, MainInv, CheckOngoingConcurrentMarking, AfterReset, markerVars, paramVars,
       workVars, frame, mainFrame
<1>11. CASE WaitMarkingFinished
  <2>1. Count({"MARKER"})' = Count({"MARKER"}) /\ (Queued("MARKER")' <=> Queued("MARKER"))
    BY <1>0, <1>11, CountSame DEF WaitMarkingFinished, Queued, paramVars, workVars, frame,
         mainFrame
  <2> QED BY <1>0, <1>11, <2>1 DEF MarkerInv, Beginning, At, Threads, Workers, Main, TypeOK,
       WorkerInv, MainInv, WaitMarkingFinished, paramVars, workVars, frame, mainFrame
<1>12. CASE UseOngoingMarking
  <2>1. Count({"MARKER"})' = Count({"MARKER"}) /\ (Queued("MARKER")' <=> Queued("MARKER"))
    BY <1>0, <1>12, CountSame DEF UseOngoingMarking, Queued, markerVars, paramVars, workVars,
         frame, mainFrame
  <2> QED BY <1>0, <1>12, <2>1 DEF MarkerInv, Beginning, At, Threads, Workers, Main, TypeOK,
       WorkerInv, MainInv, UseOngoingMarking, markerVars, paramVars, workVars, frame,
       mainFrame
<1>13. CASE Reset
  <2>1. CASE ResetMarker
    <3>1. /\ markStatus' = "READY_TO_MARK" /\ notifyMarkingFinished' = FALSE
          /\ ~MarkerHoldsMutex /\ queue' = queue /\ task' = task
          /\ pc[Main] = "reset" /\ pc'[Main] \in {"run", "check", "prepare"}
      BY <1>0, <1>13, <2>1 DEF ResetMarker, Reset, AfterReset, TypeOK, Threads, Main,
           mainFrame, frame, workVars
    <3>2. markStatus # "MARKING"
      BY <1>0, <3>1 DEF PassedInv, MainInv, At
    <3>3. Count({"MARKER"}) = 0
      <4> SUFFICES ASSUME Count({"MARKER"}) # 0 PROVE FALSE
        OBVIOUS
      <4>1. Live("MARKER")
        BY <1>0, CountType
      <4>2. PICK w \in Workers : task[w] = "MARKER"
        BY <1>0, <3>2, <4>1 DEF Live, MarkerInv
      <4> QED BY <1>0, <3>1, <3>2, <4>2 DEF MarkerInv, MarkerHoldsMutex
    <3>4. Count({"MARKER"})' = 0 /\ (Queued("MARKER")' <=> Queued("MARKER"))
      BY <3>1, <3>3, CountSame DEF Queued
    <3>5. ~Queued("MARKER") /\ \A w \in Workers : task[w] # "MARKER"
      BY <1>0, <3>3, NoMarker
    <3>6. ~Beginning'
      BY <3>1 DEF Beginning, At
    <3> QED BY <3>1, <3>4, <3>5, <3>6 DEF MarkerInv
  <2> QED BY <1>0, <1>13, <2>1 DEF Reset
<1>14. CASE Prepare
  <2>1. Count({"MARKER"})' = Count({"MARKER"}) /\ (Queued("MARKER")' <=> Queued("MARKER"))
    BY <1>0, <1>14, CountSame DEF Prepare, Queued, markerVars, paramVars, workVars, frame,
         mainFrame
  <2> QED BY <1>0, <1>14, <2>1 DEF MarkerInv, Beginning, At, Threads, Workers, Main, TypeOK,
       WorkerInv, MainInv, Prepare, markerVars, paramVars, workVars, frame, mainFrame
<1>15. CASE Initialize
  <2>1. /\ queue' = queue /\ task' = task /\ gcType' = gcType /\ pc[Main] = "initialize"
        /\ notifyMarkingFinished' = notifyMarkingFinished
        /\ \A w \in Workers : pc'[w] = pc[w]
        /\ pc'[Main] = "roots"
        /\ markStatus' = IF gcType = "CONCURRENT" THEN "MARKING" ELSE markStatus
    BY <1>0, <1>15 DEF Initialize, TypeOK, Threads, Workers, Main, mainFrame, frame
  <2>2. Count({"MARKER"})' = Count({"MARKER"}) /\ (Queued("MARKER")' <=> Queued("MARKER"))
    BY <2>1, CountSame DEF Queued
  <2>3. ~Beginning /\ (Beginning' <=> gcType = "CONCURRENT")
    BY <2>1 DEF Beginning, At
  <2>4. CASE gcType = "CONCURRENT"
    <3>1. markStatus = "READY_TO_MARK"
      BY <1>0, <2>1, <2>4 DEF PassedInv, At
    <3>2. Count({"MARKER"}) = 0
      BY <1>0, <3>1 DEF MarkerInv
    <3>3. ~Queued("MARKER") /\ \A w \in Workers : task[w] # "MARKER"
      BY <1>0, <3>2, NoMarker
    <3> QED BY <1>0, <2>1, <2>2, <2>3, <2>4, <3>1, <3>2, <3>3 DEF MarkerInv
  <2>5. CASE gcType # "CONCURRENT"
    BY <1>0, <2>1, <2>2, <2>3, <2>5 DEF MarkerInv
  <2> QED BY <2>4, <2>5
<1>16. CASE MarkRoots
  <2>1. Count({"MARKER"})' = Count({"MARKER"}) /\ (Queued("MARKER")' <=> Queued("MARKER"))
    BY <1>0, <1>16, CountSame DEF MarkRoots, Queued, markerVars, paramVars, gcVars
  <2> QED BY <1>0, <1>16, <2>1, ZenonT(40) DEF MarkerInv, Beginning, At, Threads, Workers, Main, TypeOK,
       WorkerInv, MainInv, MarkRoots, PushWorkNodeToGlobal, markerVars, paramVars, gcVars
<1>17. CASE PostMarkerTask
  <2>1. /\ queue' = Append(queue, "MARKER") /\ task' = task /\ gcType' = gcType
        /\ markStatus' = markStatus /\ notifyMarkingFinished' = notifyMarkingFinished
        /\ \A w \in Workers : pc'[w] = pc[w]
        /\ pc[Main] = "postMarker" /\ pc'[Main] \in {"postOldToNew", "run"}
    BY <1>0, <1>17 DEF PostMarkerTask, TypeOK, Threads, Workers, Main, markerVars, gcVars
  <2>2. Beginning /\ ~Beginning'
    BY <1>0, <2>1 DEF Beginning, At, MainInv
  <2>3. markStatus = "MARKING" /\ Count({"MARKER"}) = 0 /\ ~notifyMarkingFinished
    BY <1>0, <2>2 DEF MarkerInv
  <2>4. Count({"MARKER"})' = 0 + 1
    BY <1>0, <2>1, <2>3, CountPost, TaskFacts
  <2>5. \A w \in Workers : task[w] # "MARKER"
    BY <1>0, <2>3, NoMarker
  <2> QED BY <2>1, <2>2, <2>3, <2>4, <2>5 DEF MarkerInv
<1>18. CASE PostOldToNewTask
  <2>1. queue' = Append(queue, "OLD_TO_NEW") /\ task' = task
    BY <1>0, <1>18 DEF PostOldToNewTask
  <2>2. "OLD_TO_NEW" \in AllTasks /\ "OLD_TO_NEW" \notin {"MARKER"}
    BY TaskFacts
  <2>3. Count({"MARKER"})' = Count({"MARKER"}) + 0 /\ Count({"MARKER"}) \in Nat
    BY <1>0, <2>1, <2>2, CountPost, CountType
  <2>4. Count({"MARKER"})' = Count({"MARKER"})
    BY ONLY <2>3
  <2>5. Queued("MARKER")' <=> Queued("MARKER")
    BY <1>0, <2>1, <2>2, QueuedPost
  <2> QED BY <1>0, <1>18, <2>1, <2>4, <2>5 DEF MarkerInv, Beginning, At, Threads, Workers,
       Main, TypeOK, PostOldToNewTask, markerVars, gcVars
<1>19. CASE FinishCollection
  <2>1. CASE ResetMarker
    <3>1. /\ markStatus' = "READY_TO_MARK" /\ notifyMarkingFinished' = FALSE
          /\ ~MarkerHoldsMutex /\ queue' = queue /\ task' = task
          /\ pc[Main] = "evacuate" /\ pc'[Main] \in {"run", "check", "prepare"}
      BY <1>0, <1>19, <2>1 DEF ResetMarker, FinishCollection, TypeOK, Threads, Main,
           mainFrame, frame, workVars
    <3>2. markStatus # "MARKING"
      BY <1>0, <3>1 DEF PassedInv, MainInv, At
    <3>3. Count({"MARKER"}) = 0
      <4> SUFFICES ASSUME Count({"MARKER"}) # 0 PROVE FALSE
        OBVIOUS
      <4>1. Live("MARKER")
        BY <1>0, CountType
      <4>2. PICK w \in Workers : task[w] = "MARKER"
        BY <1>0, <3>2, <4>1 DEF Live, MarkerInv
      <4> QED BY <1>0, <3>1, <3>2, <4>2 DEF MarkerInv, MarkerHoldsMutex
    <3>4. Count({"MARKER"})' = 0 /\ (Queued("MARKER")' <=> Queued("MARKER"))
      BY <3>1, <3>3, CountSame DEF Queued
    <3>5. ~Queued("MARKER") /\ \A w \in Workers : task[w] # "MARKER"
      BY <1>0, <3>3, NoMarker
    <3>6. ~Beginning'
      BY <3>1 DEF Beginning, At
    <3> QED BY <3>1, <3>4, <3>5, <3>6 DEF MarkerInv
  <2>2. CASE UNCHANGED <<markerVars, missedWait>>
    <3>1. Count({"MARKER"})' = Count({"MARKER"}) /\ (Queued("MARKER")' <=> Queued("MARKER"))
      BY <1>0, <1>19, CountSame DEF FinishCollection, frame, Queued
    <3> QED BY <1>0, <1>19, <2>2, <3>1 DEF MarkerInv, Beginning, At, Threads, Workers, Main,
         TypeOK, FinishCollection, frame, markerVars, workVars
  <2> QED BY <1>0, <1>19, <2>1, <2>2 DEF FinishCollection
<1>20. CASE SpuriousWakeup
  <2>1. Count({"MARKER"})' = Count({"MARKER"}) /\ (Queued("MARKER")' <=> Queued("MARKER"))
    BY <1>0, <1>20, CountSame DEF SpuriousWakeup, Queued, markerVars, paramVars, workVars,
         frame, mainFrame
  <2> QED BY <1>0, <1>20, <2>1 DEF MarkerInv, Beginning, At, Threads, Workers, Main, TypeOK,
       WorkerInv, MainInv, SpuriousWakeup, markerVars, paramVars, workVars, frame, mainFrame
<1>21. CASE BarrierUpdate
  <2>1. Count({"MARKER"})' = Count({"MARKER"}) /\ (Queued("MARKER")' <=> Queued("MARKER"))
    BY <1>0, <1>21, CountSame DEF BarrierUpdate, Queued, markerVars, paramVars, gcVars
  <2> QED BY <1>0, <1>21, <2>1 DEF MarkerInv, Beginning, At, Threads, Workers, Main, TypeOK,
       WorkerInv, MainInv, BarrierUpdate, PushWorkNodeToGlobal, markerVars, paramVars, gcVars
<1>22. ASSUME NEW b \in Backgrounds, ChangeGCParams(b) PROVE MarkerInv'
  <2>1. Count({"MARKER"})' = Count({"MARKER"}) /\ (Queued("MARKER")' <=> Queued("MARKER"))
    BY <1>0, <1>22, CountSame DEF ChangeGCParams, EnableConcurrentMarking, Queued, markerVars,
         workVars, gcVars, frame
  <2> QED BY <1>0, <1>22, <2>1 DEF MarkerInv, Beginning, At, Threads, Workers, Main, TypeOK,
       WorkerInv, MainInv, ChangeGCParams, EnableConcurrentMarking, markerVars, workVars,
       gcVars, frame
<1>23. ASSUME NEW t \in MarkTypes, TryTriggerConcurrentMarking(t) PROVE MarkerInv'
  <2>1. Count({"MARKER"})' = Count({"MARKER"}) /\ (Queued("MARKER")' <=> Queued("MARKER"))
    BY <1>0, <1>23, CountSame DEF TryTriggerConcurrentMarking, Queued, markerVars, paramVars,
         workVars, frame
  <2> QED BY <1>0, <1>23, <2>1 DEF MarkerInv, Beginning, At, Threads, Workers, Main, TypeOK,
       WorkerInv, MainInv, TryTriggerConcurrentMarking, markerVars, paramVars, workVars, frame
<1>24. ASSUME NEW t \in GCTypes, CollectGarbage(t) PROVE MarkerInv'
  <2>1. Count({"MARKER"})' = Count({"MARKER"}) /\ (Queued("MARKER")' <=> Queued("MARKER"))
    BY <1>0, <1>24, CountSame DEF CollectGarbage, BeginCollection, Queued, markerVars,
         paramVars, workVars, frame
  <2> QED BY <1>0, <1>24, <2>1 DEF MarkerInv, Beginning, At, Threads, Workers, Main, TypeOK,
       WorkerInv, MainInv, CollectGarbage, BeginCollection, markerVars, paramVars, workVars,
       frame
<1>25. CASE CheckSafepoint
  <2>1. Count({"MARKER"})' = Count({"MARKER"}) /\ (Queued("MARKER")' <=> Queued("MARKER"))
    BY <1>0, <1>25, CountSame DEF CheckSafepoint, BeginCollection, Queued, markerVars,
         paramVars, workVars, frame
  <2> QED BY <1>0, <1>25, <2>1 DEF MarkerInv, Beginning, At, Threads, Workers, Main, TypeOK,
       WorkerInv, MainInv, CheckSafepoint, BeginCollection, markerVars, paramVars, workVars,
       frame
<1>26. CASE UNCHANGED vars
  BY <1>0, <1>26, CountSame DEF MarkerInv, Beginning, At, Threads, Workers, Main, Queued,
       vars, markerVars, paramVars, workVars, gcVars
<1> QED BY StepCases, <1>1, <1>2, <1>3, <1>4, <1>5, <1>6, <1>7, <1>8, <1>9, <1>10, <1>11,
     <1>12, <1>13, <1>14, <1>15, <1>16, <1>17, <1>18, <1>19, <1>20, <1>21, <1>22, <1>23,
     <1>24, <1>25, <1>26

\* Where the count is known to be zero, no worker is about to post.
LEMMA NobodyPosts ==
    ASSUME Inv, ~missedWait, At(Main) \in {"initialize", "evacuate"}, NEW w \in Workers
    PROVE  pc[w] # "post" /\ task[w] \notin ParallelTasks
<1>0. TypeOK /\ WorkerInv /\ MainInv /\ MarkerInv /\ PassedInv /\ CountInv
  BY DEF Inv, ReportInv
<1>1. task[w] \notin ParallelTasks
  <2>1. Count(ParallelTasks) = 0
    BY <1>0 DEF PassedInv, CountInv
  <2> QED BY <1>0, <2>1, CountType DEF Live
<1>2. markStatus # "MARKING"
  BY <1>0 DEF PassedInv, MainInv
<1>3. task[w] = "MARKER" => pc[w] = "notify"
  BY <1>0, <1>2 DEF MarkerInv
<1>4. pc[w] # "post"
  BY <1>0, <1>1, <1>3, TaskFacts DEF WorkerInv, TypeOK, AllTasks
<1> QED BY <1>1, <1>4

\* What the JS thread has waited for stays as it is until objects have moved.
LEMMA PassedInvStep ==
    ASSUME Inv, [Next]_vars, ~missedWait, ~missedWait'
    PROVE  PassedInv'
<1>0. /\ TypeOK /\ WorkerInv /\ MainInv /\ MarkerInv /\ PassedInv /\ CountInv
      /\ TypeOK'
  BY TypeStep DEF Inv, ReportInv
<1>1. ASSUME NEW i \in Threads, Visit(i) PROVE PassedInv'
  BY <1>0, <1>1 DEF PassedInv, MainInv, MarkerInv, WorkerInv, At, TypeOK, Threads, Workers,
       Main, Visit, Processing, PushWorkNodeToGlobal, markerVars, paramVars, gcVars
<1>2. ASSUME NEW i \in Threads, PopWorkNodeFromGlobal(i) PROVE PassedInv'
  BY <1>0, <1>2 DEF PassedInv, MainInv, MarkerInv, WorkerInv, At, TypeOK, Threads, Workers,
       Main, PopWorkNodeFromGlobal, Processing, markerVars, paramVars, gcVars
<1>3. ASSUME NEW i \in Threads, MarkStackDone(i) PROVE PassedInv'
  BY <1>0, <1>3 DEF PassedInv, MainInv, MarkerInv, WorkerInv, At, TypeOK, Threads, Workers,
       Main, MarkStackDone, Processing, markerVars, paramVars, workVars, gcVars
<1>4. ASSUME NEW i \in Threads, PostParallelGCTask(i) PROVE PassedInv'
  <2>1. CASE i = Main
    BY <1>0, <1>4, <2>1 DEF PassedInv, At, TypeOK, Threads, Main, PostParallelGCTask,
         markerVars, gcVars
  <2>2. CASE i # Main
    <3>1. i \in Workers /\ pc[i] = "post"
      BY <1>0, <1>4, <2>2 DEF Threads, PostParallelGCTask
    <3>2. At(Main) \notin {"initialize", "evacuate"}
      BY <3>1, NobodyPosts
    <3> QED BY <1>0, <1>4, <3>1, <3>2 DEF PassedInv, At, TypeOK, Threads, Workers, Main,
         PostParallelGCTask, markerVars, gcVars
  <2> QED BY <2>1, <2>2
<1>5. ASSUME NEW i \in Threads, WaitRunningTaskFinished(i) PROVE PassedInv'
  BY <1>0, <1>5 DEF PassedInv, MainInv, MarkerInv, WorkerInv, At, TypeOK, Threads, Workers,
       Main, WaitRunningTaskFinished, markerVars, paramVars, workVars, gcVars
<1>6. ASSUME NEW w \in Workers, StartTask(w) PROVE PassedInv'
  BY <1>0, <1>6 DEF PassedInv, MainInv, MarkerInv, WorkerInv, At, TypeOK, Threads, Workers,
       Main, StartTask, markerVars, paramVars, gcVars
<1>7. ASSUME NEW w \in Workers, ReduceTaskCount(w) PROVE PassedInv'
  <2>1. At(Main) \notin {"initialize", "evacuate"}
    BY <1>0, <1>7, NobodyPosts DEF ReduceTaskCount, WorkerInv
  <2> QED BY <1>0, <1>7, <2>1 DEF PassedInv, At, TypeOK, Threads, Workers, Main,
       ReduceTaskCount, markerVars, gcVars
<1>8. ASSUME NEW w \in Workers, FinishMarking(w) PROVE PassedInv'
  BY <1>0, <1>8 DEF PassedInv, MainInv, MarkerInv, WorkerInv, At, TypeOK, Threads, Workers,
       Main, FinishMarking, paramVars, workVars, gcVars
<1>9. ASSUME NEW w \in Workers, NotifyMarkingFinished(w) PROVE PassedInv'
  BY <1>0, <1>9 DEF PassedInv, MainInv, MarkerInv, WorkerInv, At, TypeOK, Threads, Workers,
       Main, NotifyMarkingFinished, paramVars, workVars, gcVars
<1>10. CASE CheckOngoingConcurrentMarking
  BY <1>0, <1>10 DEF PassedInv, MainInv, MarkerInv, WorkerInv, At, TypeOK, Threads, Workers,
       Main, CheckOngoingConcurrentMarking, AfterReset, markerVars, paramVars, workVars,
       frame, mainFrame
<1>11. CASE WaitMarkingFinished
  BY <1>0, <1>11 DEF PassedInv, MainInv, MarkerInv, WorkerInv, At, TypeOK, Threads, Workers,
       Main, WaitMarkingFinished, paramVars, workVars, frame, mainFrame
<1>12. CASE UseOngoingMarking
  BY <1>0, <1>12 DEF PassedInv, MainInv, MarkerInv, WorkerInv, At, TypeOK, Threads, Workers,
       Main, UseOngoingMarking, markerVars, paramVars, workVars, frame, mainFrame
<1>13. CASE Reset
  BY <1>0, <1>13 DEF PassedInv, MainInv, MarkerInv, WorkerInv, At, TypeOK, Threads, Workers,
       Main, Reset, ResetMarker, AfterReset, paramVars, workVars, frame, mainFrame
<1>14. CASE Prepare
  BY <1>0, <1>14 DEF PassedInv, MainInv, MarkerInv, WorkerInv, At, TypeOK, Threads, Workers,
       Main, Prepare, markerVars, paramVars, workVars, frame, mainFrame
<1>15. CASE Initialize
  BY <1>0, <1>15 DEF PassedInv, MainInv, MarkerInv, WorkerInv, At, TypeOK, Threads, Workers,
       Main, Initialize, paramVars, frame, mainFrame
<1>16. CASE MarkRoots
  BY <1>0, <1>16 DEF PassedInv, MainInv, MarkerInv, WorkerInv, At, TypeOK, Threads, Workers,
       Main, MarkRoots, PushWorkNodeToGlobal, markerVars, paramVars, gcVars
<1>17. CASE PostMarkerTask
  BY <1>0, <1>17 DEF PassedInv, MainInv, MarkerInv, WorkerInv, At, TypeOK, Threads, Workers,
       Main, PostMarkerTask, markerVars, paramVars, workVars, gcVars
<1>18. CASE PostOldToNewTask
  BY <1>0, <1>18 DEF PassedInv, MainInv, MarkerInv, WorkerInv, At, TypeOK, Threads, Workers,
       Main, PostOldToNewTask, markerVars, paramVars, workVars, gcVars
<1>19. CASE FinishCollection
  BY <1>0, <1>19 DEF PassedInv, MainInv, MarkerInv, WorkerInv, At, TypeOK, Threads, Workers,
       Main, FinishCollection, ResetMarker, markerVars, workVars, frame
<1>20. CASE SpuriousWakeup
  BY <1>0, <1>20 DEF PassedInv, MainInv, MarkerInv, WorkerInv, At, TypeOK, Threads, Workers,
       Main, SpuriousWakeup, markerVars, paramVars, workVars, frame, mainFrame
<1>21. CASE BarrierUpdate
  BY <1>0, <1>21 DEF PassedInv, MainInv, MarkerInv, WorkerInv, At, TypeOK, Threads, Workers,
       Main, BarrierUpdate, PushWorkNodeToGlobal, markerVars, paramVars, gcVars
<1>22. ASSUME NEW b \in Backgrounds, ChangeGCParams(b) PROVE PassedInv'
  BY <1>0, <1>22 DEF PassedInv, MainInv, MarkerInv, WorkerInv, At, TypeOK, Threads, Workers,
       Main, ChangeGCParams, EnableConcurrentMarking, markerVars, workVars, gcVars, frame
<1>23. ASSUME NEW t \in MarkTypes, TryTriggerConcurrentMarking(t) PROVE PassedInv'
  BY <1>0, <1>23 DEF PassedInv, MainInv, MarkerInv, WorkerInv, At, TypeOK, Threads, Workers,
       Main, TryTriggerConcurrentMarking, markerVars, paramVars, workVars, frame
<1>24. ASSUME NEW t \in GCTypes, CollectGarbage(t) PROVE PassedInv'
  BY <1>0, <1>24 DEF PassedInv, MainInv, MarkerInv, WorkerInv, At, TypeOK, Threads, Workers,
       Main, CollectGarbage, BeginCollection, markerVars, paramVars, workVars, frame
<1>25. CASE CheckSafepoint
  BY <1>0, <1>25 DEF PassedInv, MainInv, MarkerInv, WorkerInv, At, TypeOK, Threads, Workers,
       Main, CheckSafepoint, BeginCollection, markerVars, paramVars, workVars, frame
<1>26. CASE UNCHANGED vars
  BY <1>0, <1>26 DEF PassedInv, MainInv, MarkerInv, WorkerInv, At, TypeOK, Threads, Workers,
       Main, vars, markerVars, paramVars, workVars, gcVars
<1> QED BY StepCases, <1>1, <1>2, <1>3, <1>4, <1>5, <1>6, <1>7, <1>8, <1>9, <1>10, <1>11,
     <1>12, <1>13, <1>14, <1>15, <1>16, <1>17, <1>18, <1>19, <1>20, <1>21, <1>22, <1>23,
     <1>24, <1>25, <1>26

\* The phase changes only when no task is alive.
LEMMA TasksOfThisMarkingStep ==
    ASSUME Inv, [Next]_vars, ~missedWait, ~missedWait'
    PROVE  TasksOfThisMarking'
<1>0. TypeOK /\ MainInv /\ PassedInv /\ CountInv /\ TasksOfThisMarking BY DEF Inv, ReportInv
<1>1. ASSUME NEW i \in Threads, Visit(i) PROVE TasksOfThisMarking'
  BY <1>0, <1>1 DEF TasksOfThisMarking, Live, Queued, Visit, Processing, PushWorkNodeToGlobal,
       markerVars, paramVars, gcVars
<1>2. ASSUME NEW i \in Threads, PopWorkNodeFromGlobal(i) PROVE TasksOfThisMarking'
  BY <1>0, <1>2 DEF TasksOfThisMarking, Live, Queued, PopWorkNodeFromGlobal, Processing,
       markerVars, paramVars, gcVars
<1>3. ASSUME NEW i \in Threads, MarkStackDone(i) PROVE TasksOfThisMarking'
  BY <1>0, <1>3 DEF TasksOfThisMarking, Live, Queued, MarkStackDone, Processing, markerVars,
       paramVars, workVars, gcVars
<1>4. ASSUME NEW i \in Threads, PostParallelGCTask(i) PROVE TasksOfThisMarking'
  <2>1. parallelGCTaskPhase \in AllTasks /\ queue' = Append(queue, parallelGCTaskPhase)
        /\ task' = task /\ parallelGCTaskPhase' = parallelGCTaskPhase
    BY <1>0, <1>4, PhaseIsKnown DEF PostParallelGCTask
  <2>2. \A u : Queued(u)' <=> Queued(u) \/ u = parallelGCTaskPhase
    BY <1>0, <2>1, QueuedPost
  <2> QED BY <1>0, <2>1, <2>2 DEF TasksOfThisMarking, Live
<1>5. ASSUME NEW i \in Threads, WaitRunningTaskFinished(i) PROVE TasksOfThisMarking'
  BY <1>0, <1>5 DEF TasksOfThisMarking, Live, Queued, WaitRunningTaskFinished, markerVars,
       paramVars, workVars, gcVars
<1>6. ASSUME NEW w \in Workers, StartTask(w) PROVE TasksOfThisMarking'
  <2>1. /\ queue # << >> /\ queue' = Tail(queue) /\ task' = [task EXCEPT ![w] = Head(queue)]
        /\ parallelGCTaskPhase' = parallelGCTaskPhase
    BY <1>0, <1>6 DEF StartTask
  <2>2. \A u : Queued(u)' => Queued(u)
    BY <1>0, <2>1, QueuedStart
  <2>3. Queued(Head(queue))
    BY <1>0, <2>1, QueuedStart
  <2>4. \A v \in Workers : task'[v] = task[v] \/ task'[v] = Head(queue)
    BY <1>0, <2>1 DEF TypeOK
  <2> QED BY <1>0, <2>1, <2>2, <2>3, <2>4 DEF TasksOfThisMarking, Live
<1>7. ASSUME NEW w \in Workers, ReduceTaskCount(w) PROVE TasksOfThisMarking'
  <2>1. /\ queue' = queue /\ parallelGCTaskPhase' = parallelGCTaskPhase
        /\ \A v \in Workers : task'[v] = task[v] \/ task'[v] = NoTask
    BY <1>0, <1>7 DEF ReduceTaskCount, TypeOK
  <2> QED BY <1>0, <2>1, TaskFacts DEF TasksOfThisMarking, Live, Queued
<1>8. ASSUME NEW w \in Workers, FinishMarking(w) PROVE TasksOfThisMarking'
  BY <1>0, <1>8 DEF TasksOfThisMarking, Live, Queued, FinishMarking, paramVars, workVars,
       gcVars
<1>9. ASSUME NEW w \in Workers, NotifyMarkingFinished(w) PROVE TasksOfThisMarking'
  <2>1. /\ queue' = queue /\ parallelGCTaskPhase' = parallelGCTaskPhase
        /\ \A v \in Workers : task'[v] = task[v] \/ task'[v] = NoTask
    BY <1>0, <1>9 DEF NotifyMarkingFinished, TypeOK
  <2> QED BY <1>0, <2>1, TaskFacts DEF TasksOfThisMarking, Live, Queued
<1>10. CASE CheckOngoingConcurrentMarking
  BY <1>0, <1>10 DEF TasksOfThisMarking, Live, Queued, CheckOngoingConcurrentMarking,
       AfterReset, markerVars, paramVars, workVars, frame, mainFrame
<1>11. CASE WaitMarkingFinished
  BY <1>0, <1>11 DEF TasksOfThisMarking, Live, Queued, WaitMarkingFinished, paramVars,
       workVars, frame, mainFrame
<1>12. CASE UseOngoingMarking
  BY <1>0, <1>12 DEF TasksOfThisMarking, Live, Queued, UseOngoingMarking, markerVars,
       paramVars, workVars, frame, mainFrame
<1>13. CASE Reset
  BY <1>0, <1>13 DEF TasksOfThisMarking, Live, Queued, Reset, ResetMarker, AfterReset,
       paramVars, workVars, frame, mainFrame
<1>14. CASE Prepare
  BY <1>0, <1>14 DEF TasksOfThisMarking, Live, Queued, Prepare, markerVars, paramVars,
       workVars, frame, mainFrame
<1>15. CASE Initialize
  <2>1. Count(ParallelTasks) = 0 /\ queue' = queue /\ task' = task
    BY <1>0, <1>15 DEF Initialize, PassedInv, CountInv, At, mainFrame, frame
  <2>2. \A t \in ParallelTasks : ~Live(t)
    BY <1>0, <2>1, CountType
  <2> QED BY <2>1, <2>2 DEF TasksOfThisMarking, Live, Queued
<1>16. CASE MarkRoots
  BY <1>0, <1>16 DEF TasksOfThisMarking, Live, Queued, MarkRoots, PushWorkNodeToGlobal,
       markerVars, paramVars, gcVars
<1>17. CASE PostMarkerTask
  <2>1. queue' = Append(queue, "MARKER") /\ task' = task
        /\ parallelGCTaskPhase' = parallelGCTaskPhase
    BY <1>0, <1>17 DEF PostMarkerTask
  <2>2. \A u : Queued(u)' <=> Queued(u) \/ u = "MARKER"
    BY <1>0, <2>1, QueuedPost, TaskFacts
  <2> QED BY <1>0, <2>1, <2>2, TaskFacts DEF TasksOfThisMarking, Live
<1>18. CASE PostOldToNewTask
  <2>1. queue' = Append(queue, "OLD_TO_NEW") /\ task' = task /\ pc[Main] = "postOldToNew"
        /\ parallelGCTaskPhase' = parallelGCTaskPhase
    BY <1>0, <1>18 DEF PostOldToNewTask
  <2>2. \A u : Queued(u)' <=> Queued(u) \/ u = "OLD_TO_NEW"
    BY <1>0, <2>1, QueuedPost, TaskFacts
  <2>3. parallelGCTaskPhase = "CONCURRENT"
    BY <1>0, <2>1 DEF MainInv, At
  <2> QED BY <1>0, <2>1, <2>2, <2>3 DEF TasksOfThisMarking, Live
<1>19. CASE FinishCollection
  BY <1>0, <1>19 DEF TasksOfThisMarking, Live, Queued, FinishCollection, ResetMarker,
       markerVars, workVars, frame
<1>20. CASE SpuriousWakeup
  BY <1>0, <1>20 DEF TasksOfThisMarking, Live, Queued, SpuriousWakeup, markerVars, paramVars,
       workVars, frame, mainFrame
<1>21. CASE BarrierUpdate
  BY <1>0, <1>21 DEF TasksOfThisMarking, Live, Queued, BarrierUpdate, PushWorkNodeToGlobal,
       markerVars, paramVars, gcVars
<1>22. ASSUME NEW b \in Backgrounds, ChangeGCParams(b) PROVE TasksOfThisMarking'
  BY <1>0, <1>22 DEF TasksOfThisMarking, Live, Queued, ChangeGCParams,
       EnableConcurrentMarking, markerVars, workVars, gcVars, frame
<1>23. ASSUME NEW t \in MarkTypes, TryTriggerConcurrentMarking(t) PROVE TasksOfThisMarking'
  BY <1>0, <1>23 DEF TasksOfThisMarking, Live, Queued, TryTriggerConcurrentMarking,
       markerVars, paramVars, workVars, frame
<1>24. ASSUME NEW t \in GCTypes, CollectGarbage(t) PROVE TasksOfThisMarking'
  BY <1>0, <1>24 DEF TasksOfThisMarking, Live, Queued, CollectGarbage, BeginCollection,
       markerVars, paramVars, workVars, frame
<1>25. CASE CheckSafepoint
  BY <1>0, <1>25 DEF TasksOfThisMarking, Live, Queued, CheckSafepoint, BeginCollection,
       markerVars, paramVars, workVars, frame
<1>26. CASE UNCHANGED vars
  BY <1>0, <1>26 DEF TasksOfThisMarking, Live, Queued, vars, markerVars, paramVars, workVars,
       gcVars
<1> QED BY StepCases, <1>1, <1>2, <1>3, <1>4, <1>5, <1>6, <1>7, <1>8, <1>9, <1>10, <1>11,
     <1>12, <1>13, <1>14, <1>15, <1>16, <1>17, <1>18, <1>19, <1>20, <1>21, <1>22, <1>23,
     <1>24, <1>25, <1>26

-----------------------------------------------------------------------------
(* The theorems *)

LEMMA InitInv == Init => Inv
<1> SUFFICES ASSUME Init PROVE Inv
  OBVIOUS
<1>1. TypeOK
  <2>1. ForegroundMarkTaskCount \in Nat
    BY ConstAssumption DEF ForegroundMarkTaskCount
  <2>2. runningTaskCount \in Nat /\ maxMarkTaskCount \in Nat /\ workStack \in Nat
        /\ found \in 0 .. MaxNodes /\ cycles \in 0 .. MaxCycles
    BY <2>1, ConstAssumption DEF Init
  <2>3. notifyMarkingFinished \in BOOLEAN /\ vmThreadWaitMarkingFinished \in BOOLEAN
        /\ markingInProgress \in BOOLEAN /\ toReset \in BOOLEAN /\ handling \in BOOLEAN
        /\ missedWait \in BOOLEAN
    BY DEF Init
  <2>4. hasWork \in [Threads -> BOOLEAN] /\ task \in [Workers -> ParallelTasks \cup {"MARKER", NoTask}]
    BY DEF Init
  <2>5. \A i \in Threads : (IF i = Main THEN "run" ELSE "idle") \in {"run", "idle"}
    OBVIOUS
  <2>6. pc \in [Threads -> {"run", "idle"}] /\ back \in [Threads -> {"run"}]
    BY <2>5 DEF Init
  <2>7. queue \in Seq(ParallelTasks \cup {"MARKER"})
    BY DEF Init
  <2>8. /\ markStatus = "READY_TO_MARK" /\ enableMarkType = "ENABLE" /\ markType = "MARK_YOUNG"
        /\ parallelGCTaskPhase = "UNDEFINED_TASK" /\ gcType = "none"
    BY DEF Init
  <2> QED
    BY ONLY <2>2, <2>3, <2>4, <2>6, <2>7, <2>8 DEF TypeOK
<1>2. \A S : (\A t \in S : t # NoTask) => Count(S) = 0
  <2> SUFFICES ASSUME NEW S, \A t \in S : t # NoTask PROVE Count(S) = 0
    OBVIOUS
  <2>1. \A t \in S : ~Live(t)
    BY DEF Init, Live, Queued
  <2> QED BY <1>1, <2>1, CountType
<1>3. CountInv
  BY <1>2, TaskFacts DEF Init, CountInv
<1>4. MarkerInv
  <2>1. Count({"MARKER"}) = 0
    BY <1>2, TaskFacts
  <2> QED BY <2>1, TaskFacts DEF Init, MarkerInv, Beginning, At, Queued, Threads, Main
<1>5. WorkerInv /\ MainInv /\ PhaseInv /\ StackInv /\ PassedInv
  BY DEF Init, WorkerInv, MainInv, PhaseInv, StackInv, PassedInv, At, Threads, Workers, Main
<1>6. TasksOfThisMarking
  BY TaskFacts DEF Init, TasksOfThisMarking, Live, Queued
<1> QED BY <1>1, <1>3, <1>4, <1>5, <1>6 DEF Inv, ReportInv

\* Every step of a worker, of the program and of a collection keeps the invariant.
LEMMA InvStep == Inv /\ [Next]_vars => Inv'
<1> SUFFICES ASSUME Inv, [Next]_vars PROVE Inv'
  OBVIOUS
<1>1. TypeOK'
  BY TypeStep
<1>2. WorkerInv' /\ MainInv' /\ PhaseInv' /\ CountInv' /\ StackInv'
  BY WorkerInvStep, MainInvStep, PhaseInvStep, CountInvStep, StackInvStep
<1>3. ReportInv'
  <2> SUFFICES ASSUME ~missedWait' PROVE MarkerInv' /\ PassedInv' /\ TasksOfThisMarking'
    BY DEF ReportInv
  <2>1. ~missedWait
    BY MissedStep
  <2> QED BY <2>1, MarkerInvStep, PassedInvStep, TasksOfThisMarkingStep
<1> QED BY <1>1, <1>2, <1>3 DEF Inv

\* The reason for the properties below.
THEOREM ScheduleInvariant == Spec => []Inv
<1>1. Init => Inv BY InitInv
<1>2. Inv /\ [Next]_vars => Inv' BY InvStep
<1> QED BY <1>1, <1>2, PTL DEF Spec

\* At "evacuate" the count is zero, so that no ParallelGCTask is alive, and the
\* status is not MARKING, so that a MarkerTask has at most to report.
LEMMA NobodyMarks ==
    ASSUME Inv, pc[Main] = "evacuate", ~missedWait
    PROVE  /\ \A t \in AllTasks : ~Queued(t)
           /\ \A w \in Workers : task[w] # NoTask => task[w] = "MARKER" /\ pc[w] = "notify"
<1>0. TypeOK /\ WorkerInv /\ MainInv /\ MarkerInv /\ PassedInv /\ CountInv
  BY DEF Inv, ReportInv
<1>1. markStatus # "MARKING" /\ Count(ParallelTasks) = 0
  BY <1>0 DEF PassedInv, MainInv, CountInv, At
<1>2. \A t \in ParallelTasks : ~Live(t)
  BY <1>0, <1>1, CountType
<1>3. ~Queued("MARKER")
  BY <1>0, <1>1 DEF MarkerInv
<1>4. \A t \in AllTasks : ~Queued(t)
  BY <1>2, <1>3 DEF AllTasks, Live
<1>5. ASSUME NEW w \in Workers, task[w] # NoTask
      PROVE  task[w] = "MARKER" /\ pc[w] = "notify"
  <2>1. task[w] = "MARKER"
    BY <1>0, <1>2, <1>5 DEF TypeOK, Live
  <2> QED BY <1>0, <1>1, <2>1 DEF MarkerInv
<1> QED BY <1>4, <1>5

\* The state of the heap's marking, the work manager, the pool and the JS thread
\* keeps its type.
THEOREM ScheduleTypeCorrect == Spec => []TypeOK
<1>1. Inv => TypeOK BY DEF Inv
<1> QED BY <1>1, ScheduleInvariant, PTL

\* While PartialGC or FullGC moves objects no thread marks, unless
\* WaitMarkingFinished was left before the marking had reported: what
\* WaitRunningTaskFinished and the mark status promise holds to the end.
THEOREM ObjectsMoveAlone == Spec => []MovesAlone
<1>1. Inv => MovesAlone
  BY NobodyMarks DEF MovesAlone, AllTasks
<1> QED BY <1>1, ScheduleInvariant, PTL

\* When objects begin to move no marked object is left to be visited, although
\* each thread leaves ProcessMarkStack when it finds the stack empty for once.
THEOREM NothingIsLeftToMark == Spec => []MarkingIsComplete
<1>1. ASSUME Inv, pc[Main] = "evacuate", ~missedWait
      PROVE  workStack = 0 /\ \A i \in Threads : ~hasWork[i]
  <2>0. TypeOK /\ WorkerInv /\ MainInv /\ StackInv
    BY <1>1 DEF Inv
  <2>1. \A w \in Workers : pc[w] \in {"idle", "notify"}
    BY <1>1, <2>0, NobodyMarks DEF WorkerInv
  <2>2. \A w \in Workers : ~hasWork[w]
    BY <2>0, <2>1 DEF WorkerInv
  <2>3. ~hasWork[Main]
    BY <1>1, <2>0 DEF MainInv, At
  <2>4. ~(workStack > 0)
    BY <1>1, <2>0, <2>1 DEF StackInv, At
  <2>5. workStack = 0
    BY <2>0, <2>4 DEF TypeOK
  <2> QED BY <2>2, <2>3, <2>5 DEF Threads
<1>2. Inv => MarkingIsComplete
  BY <1>1 DEF MarkingIsComplete
<1> QED BY <1>2, ScheduleInvariant, PTL

\* A ParallelGCTask runs in the marking that posted it: Heap::Prepare has seen the
\* last one end before WorkManager::Initialize sets the next phase.
THEOREM TasksStayInTheirMarking == Spec => []TasksOfThisMarking
<1>1. Inv => TasksOfThisMarking
  BY DEF Inv, ReportInv, TasksOfThisMarking
<1> QED BY <1>1, ScheduleInvariant, PTL

\* Heap::runningTaskCount_ is the number of ParallelGCTasks posted and not ended,
\* whoever posts and whatever has been missed.
THEOREM TheCountIsExact == Spec => []CountIsExact
<1>1. Inv => CountIsExact
  BY DEF Inv, CountInv, CountIsExact, Count, QueuedOf, Positions, RunningOf
<1> QED BY <1>1, ScheduleInvariant, PTL

=============================================================================
