----------------------------- MODULE MarkSchedule -----------------------------
(***************************************************************************)
(* Who marks when: the JS thread's collections and concurrent markings     *)
(* (Heap, ConcurrentMarker, PartialGC, FullGC), the MarkerTask and the     *)
(* ParallelGCTasks on the pool's workers, and the WorkManager that hands   *)
(* marking work from thread to thread (ecmascript/mem).                    *)
(*                                                                         *)
(* Objects are abstracted to work nodes: a thread has marked objects in    *)
(* its own nodes or not, the global stack holds full nodes, and visiting   *)
(* an object may fill another node.  Sweeping and the evacuation itself    *)
(* are other components; here "evacuate" is the part of a collection that  *)
(* moves and frees objects and so must find the marking complete.          *)
(*                                                                         *)
(* One step is one critical section, one access to the global stack or one *)
(* write that another thread reads without a lock.                         *)
(***************************************************************************)
EXTENDS Integers, Sequences, FiniteSets

CONSTANTS
    NumWorkers,    \* worker threads of the pool, Taskpool::GetTotalThreadNum()
    GcThreadNum,   \* the gcThreadNum option (7 by default)
    ParallelGC,    \* Heap::parallelGC_
    GCTypes,       \* the collections the program asks for
    MarkTypes,     \* the concurrent markings that allocation may trigger
    Backgrounds,   \* what ChangeGCParams is called with
    MaxNodes,      \* bound on the full work nodes found in one marking
    MaxCycles      \* bound on the collections and concurrent markings begun

Main == 0                  \* MAIN_THREAD_INDEX, the JS thread
Workers == 1 .. NumWorkers
Threads == {Main} \cup Workers

ASSUME ConstAssumption ==
    /\ NumWorkers \in Nat /\ GcThreadNum \in Nat
    /\ ParallelGC \in BOOLEAN
    /\ GCTypes \subseteq {"YOUNG_GC", "OLD_GC", "FULL_GC"}
    /\ MarkTypes \subseteq {"MARK_YOUNG", "MARK_FULL"}
    /\ Backgrounds \subseteq BOOLEAN
    /\ MaxNodes \in Nat /\ MaxCycles \in Nat

VARIABLES
    markStatus,                   \* JSThread: MarkStatusBits
    notifyMarkingFinished, vmThreadWaitMarkingFinished, enableMarkType, \* ConcurrentMarker
    markType, runningTaskCount, maxMarkTaskCount,                       \* Heap
    markingInProgress,            \* PartialGC::markingInProgress_
    parallelGCTaskPhase,          \* WorkManager
    workStack,                    \* the number of nodes on the global stack
    hasWork,                      \* does the thread have objects in its own nodes?
    found,                        \* nodes filled in this marking (at most MaxNodes)
    queue,                        \* the tasks in the pool's queue
    task,                         \* the task each worker runs
    pc, back,                     \* each thread: point, and where a post returns to
    gcType,                       \* what the JS thread is doing
    toReset,                      \* will it Reset the marking it finds, or use it?
    handling,                     \* is it in HandleMarkingFinished, holding the mutex?
    cycles,                       \* collections and markings begun (at most MaxCycles)
    missedWait                    \* history: it went on before a marking had reported

markerVars == <<markStatus, notifyMarkingFinished, vmThreadWaitMarkingFinished>>
paramVars == <<enableMarkType, maxMarkTaskCount>>
workVars == <<workStack, hasWork, found>>
gcVars == <<gcType, toReset, handling, cycles, markType, markingInProgress>>
vars == <<markerVars, paramVars, workVars, gcVars, runningTaskCount, parallelGCTaskPhase,
          queue, task, pc, back, missedWait>>

NoTask == "nullptr"
ParallelTasks == {"OLD_TO_NEW", "CONCURRENT", "OLD", "COMPRESS"}

IsEnabled == enableMarkType \notin {"DISABLE", "CONFIG_DISABLE"}
IsFullMark == markType = "MARK_FULL"

\* waitMarkingFinishedMutex_ is held across steps by these two only.
MarkerHoldsMutex == \E w \in Workers : pc[w] = "notify"

\* min(gcThreadNum, threads - 1) in uint32_t: with no worker at all 0 - 1 wraps
\* around to the largest number, and the option decides.
ForegroundMarkTaskCount ==
    IF NumWorkers = 0 \/ GcThreadNum < NumWorkers - 1 THEN GcThreadNum ELSE NumWorkers - 1

-----------------------------------------------------------------------------
(* WorkManager and Marker::ProcessMarkStack, by any thread *)

CheckCanDistributeTask == ParallelGC /\ runningTaskCount < maxMarkTaskCount

\* A full node goes to the global stack: PushWorkNodeToGlobal(i, true).  If
\* another task may be distributed, the thread goes on to post it.
PushWorkNodeToGlobal(i) ==
    /\ found < MaxNodes
    /\ found' = found + 1
    /\ workStack' = workStack + 1
    /\ IF CheckCanDistributeTask
       THEN pc' = [pc EXCEPT ![i] = "post"] /\ back' = [back EXCEPT ![i] = pc[i]]
       ELSE UNCHANGED <<pc, back>>

\* Heap::PostParallelGCTask.  Between IncreaseTaskCount and the post nothing
\* can tell the difference: who waits for the count waits in both.
PostParallelGCTask(i) ==
    /\ pc[i] = "post"
    /\ runningTaskCount' = runningTaskCount + 1
    /\ queue' = Append(queue, parallelGCTaskPhase)
    /\ pc' = [pc EXCEPT ![i] = back[i]]
    /\ UNCHANGED <<markerVars, paramVars, workVars, gcVars, parallelGCTaskPhase, task, back,
                   missedWait>>

Processing(i) == pc[i] \in {"process", "help"}

\* Visiting an object of the thread's own node marks further objects.
Visit(i) ==
    /\ Processing(i) /\ hasWork[i]
    /\ \/ PushWorkNodeToGlobal(i) /\ UNCHANGED hasWork
       \/ hasWork' = [hasWork EXCEPT ![i] = FALSE] /\ UNCHANGED <<found, workStack, pc, back>>
    /\ UNCHANGED <<markerVars, paramVars, gcVars, runningTaskCount, parallelGCTaskPhase, queue,
                   task, missedWait>>

PopWorkNodeFromGlobal(i) ==
    /\ Processing(i) /\ ~hasWork[i]
    /\ workStack > 0
    /\ workStack' = workStack - 1
    /\ hasWork' = [hasWork EXCEPT ![i] = TRUE]
    /\ UNCHANGED <<markerVars, paramVars, gcVars, found, runningTaskCount, parallelGCTaskPhase,
                   queue, task, pc, back, missedWait>>

\* Mutant of MarkStackDone: only the thread's own nodes are looked at.
MarkStackDoneLocally(i) ==
    /\ Processing(i) /\ ~hasWork[i]
    /\ pc' = [pc EXCEPT ![i] = IF pc[i] = "help" THEN "waitMark"
                               ELSE IF i # Main /\ task[i] # "MARKER" THEN "reduce"
                               ELSE "waitRunning"]
    /\ UNCHANGED <<markerVars, paramVars, workVars, gcVars, runningTaskCount,
                   parallelGCTaskPhase, queue, task, back, missedWait>>

\* Pop returns false: neither the thread's own nodes nor the stack has any.
MarkStackDone(i) ==
    /\ Processing(i) /\ ~hasWork[i]
    /\ workStack = 0
    /\ pc' = [pc EXCEPT ![i] = IF pc[i] = "help" THEN "waitMark"
                               ELSE IF i # Main /\ task[i] # "MARKER" THEN "reduce"
                               ELSE "waitRunning"]
    /\ UNCHANGED <<markerVars, paramVars, workVars, gcVars, runningTaskCount,
                   parallelGCTaskPhase, queue, task, back, missedWait>>

ProcessMarkStack(i) == Visit(i) \/ PopWorkNodeFromGlobal(i) \/ MarkStackDone(i)

\* Mutant of WaitRunningTaskFinished: it does not wait.
DoNotWaitRunningTask(i) ==
    /\ pc[i] = "waitRunning"
    /\ pc' = [pc EXCEPT ![i] = IF i = Main THEN "evacuate" ELSE "finish"]
    /\ UNCHANGED <<markerVars, paramVars, workVars, gcVars, runningTaskCount,
                   parallelGCTaskPhase, queue, task, back, missedWait>>

\* Heap::WaitRunningTaskFinished after marking, by the JS thread or a MarkerTask.
WaitRunningTaskFinished(i) ==
    /\ pc[i] = "waitRunning"
    /\ runningTaskCount <= 0
    /\ pc' = [pc EXCEPT ![i] = IF i = Main THEN "evacuate" ELSE "finish"]
    /\ UNCHANGED <<markerVars, paramVars, workVars, gcVars, runningTaskCount,
                   parallelGCTaskPhase, queue, task, back, missedWait>>

-----------------------------------------------------------------------------
(* The pool's workers *)

\* A free worker pops a task: MarkerTask::Run and ParallelGCTask::Run begin
\* with ProcessMarkStack, ProcessOldToNew with the remembered sets.
StartTask(w) ==
    /\ pc[w] = "idle"
    /\ queue # << >>
    /\ task' = [task EXCEPT ![w] = Head(queue)]
    /\ queue' = Tail(queue)
    /\ pc' = [pc EXCEPT ![w] = "process"]
    /\ \/ UNCHANGED hasWork
       \/ Head(queue) = "OLD_TO_NEW" /\ hasWork' = [hasWork EXCEPT ![w] = TRUE]
    /\ UNCHANGED <<markerVars, paramVars, gcVars, workStack, found, runningTaskCount,
                   parallelGCTaskPhase, back, missedWait>>

\* Mutant of ReduceTaskCount: processing the remembered sets returns early.
ReduceTaskCountMissed(w) ==
    /\ pc[w] = "reduce"
    /\ runningTaskCount' = IF task[w] = "OLD_TO_NEW" THEN runningTaskCount ELSE runningTaskCount - 1
    /\ task' = [task EXCEPT ![w] = NoTask]
    /\ pc' = [pc EXCEPT ![w] = "idle"]
    /\ UNCHANGED <<markerVars, paramVars, workVars, gcVars, parallelGCTaskPhase, queue, back,
                   missedWait>>

\* Heap::ReduceTaskCount at the end of a ParallelGCTask.
ReduceTaskCount(w) ==
    /\ pc[w] = "reduce"
    /\ runningTaskCount' = runningTaskCount - 1
    /\ task' = [task EXCEPT ![w] = NoTask]
    /\ pc' = [pc EXCEPT ![w] = "idle"]
    /\ UNCHANGED <<markerVars, paramVars, workVars, gcVars, parallelGCTaskPhase, queue, back,
                   missedWait>>

\* ConcurrentMarker::FinishMarking takes the mutex and writes the mark status,
\* which the JS thread reads without the mutex.
FinishMarking(w) ==
    /\ pc[w] = "finish"
    /\ ~handling /\ ~MarkerHoldsMutex
    /\ markStatus' = "MARK_FINISHED"
    /\ pc' = [pc EXCEPT ![w] = "notify"]
    /\ UNCHANGED <<notifyMarkingFinished, vmThreadWaitMarkingFinished, paramVars, workVars, gcVars,
                   runningTaskCount, parallelGCTaskPhase, queue, task, back, missedWait>>

\* Mutant of NotifyMarkingFinished: a waiting JS thread is not signalled.
NotifyNoSignal(w) ==
    /\ pc[w] = "notify"
    /\ vmThreadWaitMarkingFinished' = FALSE
    /\ notifyMarkingFinished' = TRUE
    /\ pc' = [pc EXCEPT ![w] = "idle"]
    /\ task' = [task EXCEPT ![w] = NoTask]
    /\ UNCHANGED <<markStatus, paramVars, workVars, gcVars, runningTaskCount, parallelGCTaskPhase,
                   queue, back, missedWait>>

\* The rest of FinishMarking: wake the JS thread if it waits, and report.
NotifyMarkingFinished(w) ==
    /\ pc[w] = "notify"
    /\ vmThreadWaitMarkingFinished' = FALSE
    /\ notifyMarkingFinished' = TRUE
    /\ pc' = [pc EXCEPT ![w] = "idle",
                        ![Main] = IF vmThreadWaitMarkingFinished /\ @ = "asleep"
                                  THEN "ongoing" ELSE @]
    /\ task' = [task EXCEPT ![w] = NoTask]
    /\ UNCHANGED <<markStatus, paramVars, workVars, gcVars, runningTaskCount, parallelGCTaskPhase,
                   queue, back, missedWait>>

WorkerStep(w) ==
    \/ StartTask(w)
    \/ ProcessMarkStack(w)
    \/ PostParallelGCTask(w)
    \/ ReduceTaskCount(w)
    \/ WaitRunningTaskFinished(w)
    \/ FinishMarking(w)
    \/ NotifyMarkingFinished(w)

-----------------------------------------------------------------------------
(* The JS thread, running the program *)

frame == <<runningTaskCount, queue, task, back>>

\* Barriers::Update marks the stored value while a marking is on, or has
\* finished and not been used yet.
BarrierUpdate ==
    /\ pc[Main] = "run"
    /\ markStatus # "READY_TO_MARK"
    /\ \/ ~hasWork[Main] /\ hasWork' = [hasWork EXCEPT ![Main] = TRUE]
          /\ UNCHANGED <<found, workStack, pc, back>>
       \/ hasWork[Main] /\ PushWorkNodeToGlobal(Main) /\ UNCHANGED hasWork
    /\ UNCHANGED <<markerVars, paramVars, gcVars, runningTaskCount, parallelGCTaskPhase, queue,
                   task, missedWait>>

\* ConcurrentMarker::EnableConcurrentMarking
EnableConcurrentMarking(type) ==
    enableMarkType' =
        IF enableMarkType = "CONFIG_DISABLE" THEN enableMarkType
        ELSE IF IsEnabled /\ markStatus = "MARKING" /\ type = "DISABLE" THEN "REQUEST_DISABLE"
        ELSE type

\* Heap::ChangeGCParams
ChangeGCParams(inBackground) ==
    /\ pc[Main] = "run"
    /\ EnableConcurrentMarking(IF inBackground THEN "DISABLE" ELSE "ENABLE")
    /\ maxMarkTaskCount' = IF inBackground THEN 1 ELSE ForegroundMarkTaskCount
    /\ UNCHANGED <<frame, markerVars, workVars, gcVars, parallelGCTaskPhase, pc, missedWait>>

\* Heap::TryTriggerConcurrentMarking, by an allocation: the mark type is chosen
\* from speeds and sizes.  ConcurrentMarker::Mark then begins.
TryTriggerConcurrentMarking(type) ==
    /\ pc[Main] = "run"
    /\ cycles < MaxCycles
    /\ IsEnabled /\ markStatus = "READY_TO_MARK"
    /\ markType' = type
    /\ gcType' = "CONCURRENT"
    /\ cycles' = cycles + 1
    /\ pc' = [pc EXCEPT ![Main] = "prepare"]
    /\ UNCHANGED <<frame, markerVars, paramVars, workVars, parallelGCTaskPhase, toReset, handling,
                   markingInProgress, missedWait>>

\* Heap::CollectGarbage up to the first CheckOngoingConcurrentMarking.
BeginCollection(type) ==
    /\ cycles < MaxCycles
    /\ cycles' = cycles + 1
    /\ gcType' = type
    /\ toReset' = (type = "FULL_GC" \/ (type = "OLD_GC" /\ IsEnabled /\ ~IsFullMark))
    /\ markType' = IF type = "YOUNG_GC" /\ ~IsEnabled THEN "MARK_YOUNG"
                   ELSE IF type = "OLD_GC" /\ ~toReset' THEN "MARK_FULL" ELSE markType
    /\ pc' = [pc EXCEPT ![Main] = "check"]
    /\ UNCHANGED <<frame, markerVars, paramVars, workVars, parallelGCTaskPhase, markingInProgress,
                   missedWait>>

CollectGarbage(type) ==
    /\ pc[Main] = "run"
    /\ BeginCollection(type)
    /\ UNCHANGED handling

\* JSThread::CheckSafepoint: HandleMarkingFinished collects, holding the mutex,
\* if a marking has reported.
CheckSafepoint ==
    /\ pc[Main] = "run"
    /\ markStatus = "MARK_FINISHED"
    /\ ~MarkerHoldsMutex
    /\ notifyMarkingFinished
    /\ BeginCollection("YOUNG_GC")
    /\ handling' = TRUE

-----------------------------------------------------------------------------
(* The JS thread, collecting or starting a concurrent marking *)

mainFrame == <<frame, paramVars, cycles, handling>>

\* An OLD_GC that has dealt with a young marking goes on as a PartialGC with a
\* full mark; a FullGC goes on to Initialize.
AfterReset ==
    /\ toReset' = FALSE
    /\ IF gcType = "OLD_GC"
       THEN /\ markType' = "MARK_FULL"
            /\ pc' = [pc EXCEPT ![Main] = "check"]
       ELSE /\ pc' = [pc EXCEPT ![Main] = "prepare"]
            /\ UNCHANGED markType

\* Heap::CheckOngoingConcurrentMarking.  The JS thread helps with a marking that
\* is still on; whether there is one is read from the status without the mutex.
CheckOngoingConcurrentMarking ==
    /\ pc[Main] = "check"
    /\ \/ /\ IsEnabled /\ markStatus # "READY_TO_MARK"
          /\ pc' = [pc EXCEPT ![Main] = IF markStatus = "MARKING" THEN "help" ELSE "ongoing"]
          /\ UNCHANGED <<toReset, markType, markingInProgress>>
       \/ /\ ~IsEnabled \/ markStatus = "READY_TO_MARK"
          /\ markingInProgress' = FALSE
          /\ IF toReset THEN AfterReset
             ELSE /\ pc' = [pc EXCEPT ![Main] = "prepare"]
                  /\ UNCHANGED <<toReset, markType>>
    /\ UNCHANGED <<mainFrame, markerVars, workVars, parallelGCTaskPhase, gcType, missedWait>>

\* ConcurrentMarker::WaitMarkingFinished
WaitMarkingFinished ==
    /\ pc[Main] = "waitMark"
    /\ ~MarkerHoldsMutex
    /\ IF notifyMarkingFinished
       THEN /\ pc' = [pc EXCEPT ![Main] = "ongoing"]
            /\ UNCHANGED vmThreadWaitMarkingFinished
       ELSE /\ pc' = [pc EXCEPT ![Main] = "asleep"]
            /\ vmThreadWaitMarkingFinished' = TRUE
    /\ UNCHANGED <<mainFrame, markStatus, notifyMarkingFinished, workVars, parallelGCTaskPhase,
                   gcType, toReset, markType, markingInProgress, missedWait>>

\* The condition variable may wake the JS thread for no reason, and
\* WaitMarkingFinished does not test its condition again.
SpuriousWakeup ==
    /\ pc[Main] = "asleep"
    /\ ~MarkerHoldsMutex
    /\ pc' = [pc EXCEPT ![Main] = "ongoing"]
    /\ missedWait' = TRUE
    /\ UNCHANGED <<mainFrame, markerVars, workVars, parallelGCTaskPhase, gcType, toReset,
                   markType, markingInProgress>>

\* CheckOngoingConcurrentMarking has returned true: the result of the marking is
\* used by PartialGC, and thrown away before a FullGC or a new full mark.
UseOngoingMarking ==
    /\ pc[Main] = "ongoing"
    /\ IF toReset
       THEN pc' = [pc EXCEPT ![Main] = "reset"] /\ UNCHANGED markingInProgress
       ELSE pc' = [pc EXCEPT ![Main] = "roots"] /\ markingInProgress' = TRUE
    /\ UNCHANGED <<mainFrame, markerVars, workVars, parallelGCTaskPhase, gcType, toReset,
                   markType, missedWait>>

\* ConcurrentMarker::Reset.  It takes no mutex: a MarkerTask that has written the
\* status and not reported yet will report afterwards.
ResetMarker ==
    /\ markStatus' = "READY_TO_MARK"
    /\ notifyMarkingFinished' = FALSE
    /\ missedWait' = (missedWait \/ MarkerHoldsMutex)
    /\ UNCHANGED vmThreadWaitMarkingFinished

Reset ==
    /\ pc[Main] = "reset"
    /\ ResetMarker
    /\ AfterReset
    /\ UNCHANGED <<mainFrame, workVars, parallelGCTaskPhase, gcType, markingInProgress>>

\* Mutant of Prepare: it does not wait for the tasks of an earlier marking.
PrepareNoWait ==
    /\ pc[Main] = "prepare"
    /\ pc' = [pc EXCEPT ![Main] = "initialize"]
    /\ UNCHANGED <<mainFrame, markerVars, workVars, parallelGCTaskPhase, gcType, toReset,
                   markType, markingInProgress, missedWait>>

\* Heap::Prepare, whose other waits belong to ConcurrentSweep.
Prepare ==
    /\ pc[Main] = "prepare"
    /\ runningTaskCount <= 0
    /\ pc' = [pc EXCEPT ![Main] = "initialize"]
    /\ UNCHANGED <<mainFrame, markerVars, workVars, parallelGCTaskPhase, gcType, toReset,
                   markType, markingInProgress, missedWait>>

\* WorkManager::Initialize gives every thread new nodes; the global stack is
\* left as it is.  InitializeMarking has set the status just before.
Initialize ==
    /\ pc[Main] = "initialize"
    /\ markStatus' = IF gcType = "CONCURRENT" THEN "MARKING" ELSE markStatus
    /\ parallelGCTaskPhase' = IF gcType = "CONCURRENT" THEN "CONCURRENT"
                              ELSE IF gcType = "FULL_GC" THEN "COMPRESS" ELSE "OLD"
    /\ hasWork' = [i \in Threads |-> FALSE]
    /\ found' = 0
    /\ pc' = [pc EXCEPT ![Main] = "roots"]
    /\ UNCHANGED <<mainFrame, notifyMarkingFinished, vmThreadWaitMarkingFinished, workStack, gcType,
                   toReset, markType, markingInProgress, missedWait>>

\* Marker::MarkRoots: what does not fit into a node is pushed, at last the node
\* itself.  A concurrent marking then posts its tasks, a collection marks on.
MarkRoots ==
    /\ pc[Main] = "roots"
    /\ \/ PushWorkNodeToGlobal(Main)
       \/ /\ workStack' \in {workStack, workStack + 1}
          /\ pc' = [pc EXCEPT ![Main] = IF gcType = "CONCURRENT" THEN "postMarker" ELSE "process"]
          /\ UNCHANGED <<found, back>>
    /\ UNCHANGED <<markerVars, paramVars, gcVars, hasWork, runningTaskCount, parallelGCTaskPhase,
                   queue, task, missedWait>>

\* ConcurrentMarker::Mark posts the MarkerTask ...
PostMarkerTask ==
    /\ pc[Main] = "postMarker"
    /\ queue' = Append(queue, "MARKER")
    /\ pc' = [pc EXCEPT ![Main] = IF ~IsFullMark /\ ParallelGC THEN "postOldToNew" ELSE "run"]
    /\ UNCHANGED <<markerVars, paramVars, workVars, gcVars, runningTaskCount, parallelGCTaskPhase,
                   task, back, missedWait>>

\* ... and for a young marking, whatever the number of workers, the task that
\* processes the remembered sets.
PostOldToNewTask ==
    /\ pc[Main] = "postOldToNew"
    /\ runningTaskCount' = runningTaskCount + 1
    /\ queue' = Append(queue, "OLD_TO_NEW")
    /\ pc' = [pc EXCEPT ![Main] = "run"]
    /\ UNCHANGED <<markerVars, paramVars, workVars, gcVars, parallelGCTaskPhase, task, back,
                   missedWait>>

\* The collection moves and frees objects, finishes (PartialGC resets a marking
\* it has used) and CollectGarbage does what is left.
FinishCollection ==
    /\ pc[Main] = "evacuate"
    /\ IF gcType # "FULL_GC" /\ markingInProgress THEN ResetMarker
       ELSE UNCHANGED <<markerVars, missedWait>>
    /\ markType' = "MARK_YOUNG"
    /\ enableMarkType' = IF enableMarkType = "REQUEST_DISABLE"
                            /\ ~(markStatus' = "MARKING") THEN "DISABLE" ELSE enableMarkType
    /\ handling' = FALSE
    /\ pc' = [pc EXCEPT ![Main] = "run"]
    /\ UNCHANGED <<frame, maxMarkTaskCount, workVars, parallelGCTaskPhase, gcType, toReset,
                   cycles, markingInProgress>>

MainStep ==
    \/ ProcessMarkStack(Main)
    \/ PostParallelGCTask(Main)
    \/ WaitRunningTaskFinished(Main)
    \/ CheckOngoingConcurrentMarking
    \/ WaitMarkingFinished
    \/ UseOngoingMarking
    \/ Reset
    \/ Prepare
    \/ Initialize
    \/ MarkRoots
    \/ PostMarkerTask
    \/ PostOldToNewTask
    \/ FinishCollection

-----------------------------------------------------------------------------
Init ==
    /\ markStatus = "READY_TO_MARK"
    /\ notifyMarkingFinished = FALSE
    /\ vmThreadWaitMarkingFinished = FALSE
    /\ enableMarkType = "ENABLE"
    /\ markType = "MARK_YOUNG"
    /\ runningTaskCount = 0
    /\ maxMarkTaskCount = ForegroundMarkTaskCount
    /\ markingInProgress = FALSE
    /\ parallelGCTaskPhase = "UNDEFINED_TASK"
    /\ workStack = 0
    /\ hasWork = [i \in Threads |-> FALSE]
    /\ found = 0
    /\ queue = << >>
    /\ task = [w \in Workers |-> NoTask]
    /\ pc = [i \in Threads |-> IF i = Main THEN "run" ELSE "idle"]
    /\ back = [i \in Threads |-> "run"]
    /\ gcType = "none"
    /\ toReset = FALSE
    /\ handling = FALSE
    /\ cycles = 0
    /\ missedWait = FALSE

Next ==
    \/ \E w \in Workers : WorkerStep(w)
    \/ MainStep
    \/ SpuriousWakeup
    \/ BarrierUpdate
    \/ \E inBackground \in Backgrounds : ChangeGCParams(inBackground)
    \/ \E type \in MarkTypes : TryTriggerConcurrentMarking(type)
    \/ \E type \in GCTypes : CollectGarbage(type)
    \/ CheckSafepoint

\* Threads are scheduled; the program is not obliged to allocate, to store, to
\* collect or to reach a safepoint.
Fairness ==
    /\ \A w \in Workers : WF_vars(WorkerStep(w))
    /\ WF_vars(MainStep)

Spec == Init /\ [][Next]_vars
FairSpec == Spec /\ Fairness

-----------------------------------------------------------------------------
\* The type of the state.
TypeOK ==
    /\ markStatus \in {"READY_TO_MARK", "MARKING", "MARK_FINISHED"}
    /\ notifyMarkingFinished \in BOOLEAN
    /\ vmThreadWaitMarkingFinished \in BOOLEAN
    /\ enableMarkType \in {"ENABLE", "CONFIG_DISABLE", "DISABLE", "REQUEST_DISABLE"}
    /\ markType \in {"MARK_YOUNG", "MARK_FULL"}
    /\ runningTaskCount \in Nat
    /\ maxMarkTaskCount \in Nat
    /\ markingInProgress \in BOOLEAN
    /\ parallelGCTaskPhase \in {"UNDEFINED_TASK", "CONCURRENT", "OLD", "COMPRESS"}
    /\ workStack \in Nat
    /\ hasWork \in [Threads -> BOOLEAN]
    /\ found \in 0 .. MaxNodes
    /\ queue \in Seq(ParallelTasks \cup {"MARKER"})
    /\ task \in [Workers -> ParallelTasks \cup {"MARKER", NoTask}]
    /\ pc \in [Threads -> {"run", "check", "help", "waitMark", "asleep", "ongoing", "reset",
                           "prepare", "initialize", "roots", "postMarker", "postOldToNew",
                           "process", "post", "waitRunning", "evacuate",
                           "idle", "reduce", "finish", "notify"}]
    /\ back \in [Threads -> {"run", "roots", "help", "process"}]
    /\ gcType \in {"none", "CONCURRENT", "YOUNG_GC", "OLD_GC", "FULL_GC"}
    /\ toReset \in BOOLEAN
    /\ handling \in BOOLEAN
    /\ cycles \in 0 .. MaxCycles
    /\ missedWait \in BOOLEAN

-----------------------------------------------------------------------------
(* Safety *)

Queued(t) == \E k \in DOMAIN queue : queue[k] = t
Live(t) == Queued(t) \/ \E w \in Workers : task[w] = t

\* While a collection moves objects no thread marks: every ParallelGCTask has
\* ended, and the MarkerTask has nothing left but to report.  (Unless the JS
\* thread went on before a marking had reported; see missedWait.)
MovesAlone ==
    pc[Main] = "evacuate" /\ ~missedWait =>
        /\ \A t \in ParallelTasks \cup {"MARKER"} : ~Queued(t)
        /\ \A w \in Workers : task[w] # NoTask => pc[w] = "notify"

\* Marking is over when the collection takes it to be: no marked object waits
\* to be visited in any thread's nodes or on the global stack.  A thread that
\* finds the stack empty stops although others may still push to it.
MarkingIsComplete ==
    pc[Main] = "evacuate" /\ ~missedWait =>
        workStack = 0 /\ \A i \in Threads : ~hasWork[i]

\* A task posted for one marking does not run in another, whose marker and
\* remembered sets are different.
TasksOfThisMarking ==
    ~missedWait => \A t \in ParallelTasks : Live(t) =>
        t = parallelGCTaskPhase \/ (t = "OLD_TO_NEW" /\ parallelGCTaskPhase = "CONCURRENT")

\* Heap::runningTaskCount_ counts the ParallelGCTasks that have not ended: who
\* waits for zero waits for all of them, and never for longer.  (The state has its
\* type, which the count stands on.)
CountIsExact ==
    /\ TypeOK
    /\ runningTaskCount = Cardinality({k \in DOMAIN queue : queue[k] \in ParallelTasks})
                          + Cardinality({w \in Workers : task[w] \in ParallelTasks})

-----------------------------------------------------------------------------
(* Liveness *)

\* A collection, or the start of a concurrent marking, gives control back to
\* the program, also when it waits for tasks posted by others.
MainReturns ==
    (pc[Main] # "run" /\ ~missedWait) ~> (pc[Main] = "run" \/ missedWait)

\* "wait for mark finished": a concurrent marking comes to an end by itself.
MarkingEnds ==
    (markStatus = "MARKING" /\ ~missedWait) ~> (markStatus # "MARKING" \/ missedWait)

\* Nothing waits for ever, neither the program for a collection nor a marking for its tasks.
WaitsEnd == MainReturns /\ MarkingEnds
=============================================================================
