------------------------------ MODULE TaskPool ------------------------------
(***************************************************************************)
(* The process-wide pool of GC worker threads: class Taskpool, its Runner  *)
(* and the Runner's TaskQueue (ecmascript/taskpool).  Several VMs share    *)
(* the pool; the first Initialize starts the worker threads, the last      *)
(* Destroy terminates and joins them.                                      *)
(*                                                                         *)
(* One step is one critical section of TaskQueue::mtx_ or Runner::mtx_.    *)
(* A task is opaque here: while it runs it may post further tasks (a       *)
(* marking task hands work to the other workers) and it returns on its     *)
(* own.  Tasks that wait for each other are the subject of MarkSchedule.   *)
(*                                                                         *)
(* The names that every component has (Init, Next, Spec, ...) carry the    *)
(* component's name here, so that ConcurrentMarkProofs can extend TaskPool *)
(* together with the marking whose tasks the pool runs.                    *)
(***************************************************************************)
EXTENDS Naturals, Sequences, FiniteSets

CONSTANTS
    VMs,      \* the EcmaVM instances of the process
    Tasks,    \* the task objects that may be posted, each at most once
    Cores,    \* get_nprocs()
    NoTask    \* nullptr, in runningTask_ and in a worker's local

ASSUME CoresAssumption == Cores \in Nat \ {0}
ASSUME NoTaskAssumption == NoTask \notin Tasks
ASSUME VMsAssumption == IsFiniteSet(VMs)

\* The most worker threads the pool ever starts.
MAX_TASKPOOL_THREAD_NUM == 7

\* EcmaVM calls Initialize with threadNum = DEFAULT_TASKPOOL_THREAD_NUM = 0.
TheMostSuitableThreadNum(threadNum) ==
    LET wanted == IF threadNum > 0 THEN threadNum ELSE Cores - 1
    IN  IF wanted < MAX_TASKPOOL_THREAD_NUM THEN wanted ELSE MAX_TASKPOOL_THREAD_NUM

\* Thread index 0 is the JS thread; the workers are numbered from 1.
WorkerThreads == 1 .. TheMostSuitableThreadNum(0)

VARIABLES
    isInitialized,  \* Taskpool::isInitialized_, the number of VMs using the pool
    vm,             \* vm[v]: is v between its Initialize and its Destroy?
    destroy,        \* progress of the Destroy that holds Taskpool::mutex_
    exited,         \* has ~Taskpool begun, at the exit of the process?
    tasks,          \* TaskQueue::tasks_
    terminate,      \* TaskQueue::terminate_
    pc,             \* where each worker is in Runner::Run
    task,           \* the task each worker's loop variable owns
    runningTask,    \* Runner::runningTask_
    posted,         \* history: the tasks posted so far
    finished        \* history: the tasks whose Run has returned

queueVars == <<tasks, terminate, posted>>
poolVars == <<isInitialized, vm, destroy, exited>>
workerVars == <<pc, task, runningTask>>
taskpoolVars == <<poolVars, queueVars, workerVars, finished>>

-----------------------------------------------------------------------------
(* TaskQueue *)

\* ConditionVariable::Signal: at most one waiting worker is woken.
Signal(p) ==
    IF \E w \in WorkerThreads : p[w] = "wait"
    THEN \E w \in WorkerThreads : p[w] = "wait" /\ pc' = [p EXCEPT ![w] = "pop"]
    ELSE pc' = p

\* ConditionVariable::SignalAll on the workers' program counters.
SignalAll(p) == [w \in WorkerThreads |-> IF p[w] = "wait" THEN "pop" ELSE p[w]]

\* Mutant of PostTask: the waiting workers are not signalled.
PostTaskNoSignal(t) ==
    /\ tasks' = Append(tasks, t)
    /\ posted' = posted \cup {t}
    /\ pc' = pc

\* TaskQueue::PostTask.  Its ASSERT(!terminate_) is not part of a release
\* build, so a task that comes late is pushed all the same.
PostTask(t) ==
    /\ tasks' = Append(tasks, t)
    /\ posted' = posted \cup {t}
    /\ Signal(pc)

\* Mutant of PopTask: terminate_ is tested before the queue.
PopTaskTerminateFirst(w) ==
    /\ pc[w] = "pop"
    /\ \/ /\ terminate
          /\ pc' = [SignalAll(pc) EXCEPT ![w] = "exit"]
          /\ UNCHANGED <<tasks, task>>
       \/ /\ ~terminate
          /\ tasks # << >>
          /\ task' = [task EXCEPT ![w] = Head(tasks)]
          /\ tasks' = Tail(tasks)
          /\ pc' = [pc EXCEPT ![w] = "set"]
       \/ /\ ~terminate
          /\ tasks = << >>
          /\ pc' = [pc EXCEPT ![w] = "wait"]
          /\ UNCHANGED <<tasks, task>>
    /\ UNCHANGED <<poolVars, terminate, posted, runningTask, finished>>

\* One iteration of the loop in TaskQueue::PopTask, by worker w: a queued
\* task is returned even after Terminate; only an empty queue ends the worker.
PopTask(w) ==
    /\ pc[w] = "pop"
    /\ \/ /\ tasks # << >>
          /\ task' = [task EXCEPT ![w] = Head(tasks)]
          /\ tasks' = Tail(tasks)
          /\ pc' = [pc EXCEPT ![w] = "set"]
       \/ /\ tasks = << >>
          /\ terminate
          /\ pc' = [SignalAll(pc) EXCEPT ![w] = "exit"]
          /\ UNCHANGED <<tasks, task>>
       \/ /\ tasks = << >>
          /\ ~terminate
          /\ pc' = [pc EXCEPT ![w] = "wait"]
          /\ UNCHANGED <<tasks, task>>
    /\ UNCHANGED <<poolVars, terminate, posted, runningTask, finished>>

\* The futex behind the condition variable may wake a worker for no reason.
SpuriousWakeup(w) ==
    /\ pc[w] = "wait"
    /\ pc' = [pc EXCEPT ![w] = "pop"]
    /\ UNCHANGED <<poolVars, queueVars, task, runningTask, finished>>

-----------------------------------------------------------------------------
(* Runner::Run, the worker's loop *)

SetRunTask(w) ==
    /\ pc[w] = "set"
    /\ runningTask' = [runningTask EXCEPT ![w] = task[w]]
    /\ pc' = [pc EXCEPT ![w] = "run"]
    /\ UNCHANGED <<poolVars, queueVars, task, finished>>

\* task->Run posts another task from the worker thread.
RunPostsTask(w, t) ==
    /\ pc[w] = "run"
    /\ t \notin posted
    /\ PostTask(t)
    /\ UNCHANGED <<poolVars, terminate, task, runningTask, finished>>

RunReturns(w) ==
    /\ pc[w] = "run"
    /\ finished' = finished \cup {task[w]}
    /\ pc' = [pc EXCEPT ![w] = "clear"]
    /\ UNCHANGED <<poolVars, queueVars, task, runningTask>>

\* Mutant of ClearRunTask: runningTask_ keeps pointing to the deleted task.
ClearRunTaskDangling(w) ==
    /\ pc[w] = "clear"
    /\ task' = [task EXCEPT ![w] = NoTask]
    /\ pc' = [pc EXCEPT ![w] = "pop"]
    /\ UNCHANGED <<poolVars, queueVars, runningTask, finished>>

\* SetRunTask(threadId, nullptr); the unique_ptr then deletes the task.
ClearRunTask(w) ==
    /\ pc[w] = "clear"
    /\ runningTask' = [runningTask EXCEPT ![w] = NoTask]
    /\ task' = [task EXCEPT ![w] = NoTask]
    /\ pc' = [pc EXCEPT ![w] = "pop"]
    /\ UNCHANGED <<poolVars, queueVars, finished>>

-----------------------------------------------------------------------------
(* Taskpool *)

\* The constructor of Runner: an empty queue and a new thread per worker.
NewRunner ==
    /\ tasks' = << >>
    /\ terminate' = FALSE
    /\ pc' = [w \in WorkerThreads |-> "pop"]
    /\ task' = [w \in WorkerThreads |-> NoTask]
    /\ runningTask' = [w \in WorkerThreads |-> NoTask]

\* Mutant of Initialize: every VM constructs a Runner.
InitializeAlways(v) ==
    /\ ~exited
    /\ destroy = "none"
    /\ ~vm[v]
    /\ vm' = [vm EXCEPT ![v] = TRUE]
    /\ isInitialized' = isInitialized + 1
    /\ NewRunner
    /\ UNCHANGED <<destroy, exited, posted, finished>>

\* Initialize by VM v.  The first user constructs a Runner; nothing can be
\* posted to it before the constructor has returned.
Initialize(v) ==
    /\ ~exited
    /\ destroy = "none"
    /\ ~vm[v]
    /\ vm' = [vm EXCEPT ![v] = TRUE]
    /\ isInitialized' = isInitialized + 1
    /\ \/ isInitialized <= 0 /\ NewRunner
       \/ isInitialized > 0 /\ UNCHANGED <<tasks, terminate, workerVars>>
    /\ UNCHANGED <<destroy, exited, posted, finished>>

\* Taskpool::PostTask by a VM (a GC on its JS thread); it takes no mutex_.
VMPostsTask(v, t) ==
    /\ ~exited
    /\ vm[v]
    /\ t \notin posted
    /\ PostTask(t)
    /\ UNCHANGED <<poolVars, terminate, task, runningTask, finished>>

\* Destroy takes mutex_ and counts the VM out; for the last one it goes on to
\* Runner::TerminateThread, else to Runner::TerminateTask.
Destroy(v) ==
    /\ ~exited
    /\ destroy = "none"
    /\ vm[v]
    /\ isInitialized > 0
    /\ vm' = [vm EXCEPT ![v] = FALSE]
    /\ isInitialized' = isInitialized - 1
    /\ destroy' = IF isInitialized' = 0 THEN "terminate" ELSE "flag"
    /\ UNCHANGED <<exited, queueVars, workerVars, finished>>

\* ~Taskpool, when the process exits without destroying its VMs; their JS
\* threads no longer run.  (With no VM left threadPool_ is empty and the
\* destructor changes nothing.)
Exit ==
    /\ ~exited
    /\ destroy = "none"
    /\ isInitialized > 0
    /\ exited' = TRUE
    /\ destroy' = "terminate"
    /\ UNCHANGED <<isInitialized, vm, queueVars, workerVars, finished>>

\* Mutant of Terminate: the waiting workers are not signalled.
TerminateNoSignal ==
    /\ destroy = "terminate"
    /\ terminate' = TRUE
    /\ destroy' = "flagAll"
    /\ UNCHANGED <<isInitialized, vm, exited, tasks, posted, workerVars, finished>>

\* Runner::TerminateThread first terminates the queue.
Terminate ==
    /\ destroy = "terminate"
    /\ terminate' = TRUE
    /\ pc' = SignalAll(pc)
    /\ destroy' = "flagAll"
    /\ UNCHANGED <<isInitialized, vm, exited, tasks, posted, task, runningTask,
                   finished>>

\* Runner::TerminateTask dereferences every non-null runningTask_ entry.  The
\* flag it sets is read by no task, so nothing of it is kept.
TerminateTask ==
    /\ \/ destroy = "flagAll" /\ destroy' = "join"
       \/ destroy = "flag" /\ destroy' = "none"
    /\ UNCHANGED <<isInitialized, vm, exited, queueVars, workerVars, finished>>

\* TerminateThread joins the workers; Destroy or ~Taskpool releases mutex_.
Join ==
    /\ destroy = "join"
    /\ \A w \in WorkerThreads : pc[w] = "exit"
    /\ destroy' = "none"
    /\ isInitialized' = IF exited THEN 0 ELSE isInitialized
    /\ UNCHANGED <<vm, exited, queueVars, workerVars, finished>>

\* The process has ended.
Exited == exited /\ destroy = "none" /\ UNCHANGED taskpoolVars

-----------------------------------------------------------------------------
PoolInit ==
    /\ isInitialized = 0
    /\ vm = [v \in VMs |-> FALSE]
    /\ destroy = "none"
    /\ exited = FALSE
    /\ tasks = << >>
    /\ terminate = TRUE       \* no Runner yet: nothing runs, nothing is queued
    /\ pc = [w \in WorkerThreads |-> "exit"]
    /\ task = [w \in WorkerThreads |-> NoTask]
    /\ runningTask = [w \in WorkerThreads |-> NoTask]
    /\ posted = {}
    /\ finished = {}

WorkerStep(w) ==
    \/ PopTask(w)
    \/ SetRunTask(w)
    \/ RunReturns(w)
    \/ ClearRunTask(w)

DestroyStep == Terminate \/ TerminateTask \/ Join

PoolNext ==
    \/ \E w \in WorkerThreads : WorkerStep(w) \/ SpuriousWakeup(w)
    \/ \E w \in WorkerThreads, t \in Tasks : RunPostsTask(w, t)
    \/ \E v \in VMs : Initialize(v) \/ Destroy(v)
    \/ \E v \in VMs, t \in Tasks : VMPostsTask(v, t)
    \/ Exit
    \/ DestroyStep
    \/ Exited

\* Threads are scheduled and a task returns; nobody is obliged to post, to
\* create or to destroy a VM.
Fairness ==
    /\ \A w \in WorkerThreads : WF_taskpoolVars(WorkerStep(w))
    /\ WF_taskpoolVars(DestroyStep)

PoolSpec == PoolInit /\ [][PoolNext]_taskpoolVars
FairSpec == PoolSpec /\ Fairness

-----------------------------------------------------------------------------
\* The type of the state.
PoolTypeOK ==
    /\ isInitialized \in Nat
    /\ vm \in [VMs -> BOOLEAN]
    /\ destroy \in {"none", "terminate", "flag", "flagAll", "join"}
    /\ exited \in BOOLEAN
    /\ tasks \in Seq(Tasks)
    /\ terminate \in BOOLEAN
    /\ pc \in [WorkerThreads -> {"pop", "wait", "set", "run", "clear", "exit"}]
    /\ task \in [WorkerThreads -> Tasks \cup {NoTask}]
    /\ runningTask \in [WorkerThreads -> Tasks \cup {NoTask}]
    /\ posted \in SUBSET Tasks
    /\ finished \in SUBSET Tasks

Queued(t) == \E i \in DOMAIN tasks : tasks[i] = t
Pending(t) == \E w \in WorkerThreads : task[w] = t /\ pc[w] \in {"set", "run"}

\* A posted task is never lost and never run twice: it is in the queue once,
\* or owned by exactly one worker, or finished, and only one of the three.
\* This is what lets Heap::runningTaskCount_ and the sweeper's
\* remainingTaskNum_ reach zero.  (On one core there is no worker, and the
\* queue is dropped with its Runner.)
NoTaskLostOrDuplicated ==
    /\ WorkerThreads # {} => \A t \in posted :
        \/ Queued(t) /\ ~Pending(t) /\ t \notin finished
        \/ ~Queued(t) /\ Pending(t) /\ t \notin finished
        \/ ~Queued(t) /\ ~Pending(t) /\ t \in finished
    /\ \A i, j \in DOMAIN tasks : tasks[i] = tasks[j] => i = j
    /\ \A w, u \in WorkerThreads : task[w] = task[u] /\ task[w] # NoTask => w = u

\* Runner::TerminateTask, called from another thread, never follows a pointer
\* to a task its worker has deleted: a non-null runningTask_ entry is the task
\* that worker still owns.
RunningTaskIsAlive ==
    \A w \in WorkerThreads : runningTask[w] # NoTask => task[w] = runningTask[w]

\* When the last Destroy has joined the workers, every task that was ever
\* posted has run, also those queued at or after Terminate: Heap::Destroy,
\* which EcmaVM calls next, waits for counters only those tasks decrement.
DrainedWhenJoined ==
    WorkerThreads # {} /\ isInitialized = 0 /\ destroy = "none" => posted = finished

\* Every posted task is eventually run, whatever other workers, other VMs
\* and a termination of the pool do.
EveryTaskRuns == \A t \in Tasks : t \in posted ~> t \in finished

\* Taskpool::Destroy returns: the workers notice terminate_ and can be joined.
DestroyReturns == destroy # "none" ~> destroy = "none"
=============================================================================
