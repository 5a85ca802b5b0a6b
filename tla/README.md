# Verification of the Ark JS runtime

This directory holds TLA+ modules for the parts of the runtime in
`src/ecmascript` that are hardest to test. The memory manager: the task pool,
the scheduling of concurrent and parallel marking, what a marking marks and
remembers under the write barrier, concurrent sweeping with its remembered sets,
and the parallel evacuation. The runtime of the language: the micro job queue,
promises, the loading of cyclic modules, `Atomics.wait` and `Atomics.notify`, and
the hash table under `Map` with its iterators. TLC checks the modules on small
instances; three of them are shown to implement an abstract specification of
what they promise. TLAPS proves the safety properties of all of them for every
value of their constants: the task pool, the marking schedule, marking itself,
concurrent sweeping, the parallel evacuation, promises, the loading of modules, and
the micro job queue, the waiter list and the hash table, these three with the refinement
of their abstract specifications. What is planned is at the end of this file.

## 1. Inventory

Each part of the system, the state it keeps, its operations, how it interacts,
what is hard about it, and what makes it correct.

| Part | State | Operations | Interacts with | What is hard, and what is correct |
|---|---|---|---|---|
| Task pool (`taskpool/`) | user count, queue, `terminate_`, running task per thread | Initialize, Destroy, PostTask, PopTask, Run, Terminate, TerminateTask, Terminate/join | every VM of the process; all GC tasks | VMs come and go while workers run; one `Signal` per post; a queue that is terminated while it fills. Correct: each posted task runs exactly once, and Destroy returns |
| Marking schedule (`mem/heap.cpp`, `concurrent_marker.cpp`, `partial_gc.cpp`, `full_gc.cpp`, `work_manager.cpp`) | mark status, notification, enable type, task count, work nodes | TryTriggerConcurrentMarking, Mark, MarkerTask, ParallelGCTask, CollectGarbage, CheckOngoingConcurrentMarking, Reset, HandleMarkingFinished, ChangeGCParams | pool, write barrier, safepoints | status read without the mutex that protects the notification; termination of parallel marking; tasks that outlive a marking. Correct: objects move only when marking is complete and nobody marks |
| Tri-colour marking and write barrier (`parallel_marker*`, `barriers*`) | mark bits, slots | MarkObject, ProcessMarkStack, ProcessOldToNew, ReMark, Barriers::Update | schedule, remembered sets | the mutator stores while markers scan. Correct: every reachable object is marked at the end of ReMark |
| Concurrent sweeper (`mem/concurrent_sweeper.cpp`), sparse spaces, remembered sets of a region | sweeping and swept lists, `sweepState_`, remaining task counts, old-to-new and sweeping sets, `HAS_BEEN_SWEPT` | Sweep, AsyncSweepSpace, FillSweptRegion, EnsureTaskFinished, EnsureAllTaskFinished, TryFillSweptRegion, WaitAllTaskFinished, EnableConcurrentSweep, PrepareSweeping, InsertOldToNewRSet, MergeRSet | pool, allocation, write barrier, AsyncClearTask | JS thread stores, allocates and helps during a sweep. Correct: each region swept once with its mark bits; no remembered slot lost; no slot of freed memory remembered |
| Parallel evacuator | workloads, the count `parallel_`, forwarding words, promoted regions | EvacuateSpace, EvacuateRegion, UpdateReference, WaitFinished | pool, spaces, remembered sets | threads copy and then update slots found in several records; the phases are kept apart by a count that is first read without its mutex. Correct: afterwards nothing refers to the memory that is freed, no reference is lost, and the next young collection knows all slots it needs |
| Spaces and allocation (free lists, bump pointer, TLABs, collection set) | free object sets per size, region lists, sizes | Allocate, Free, Rebuild, SelectCSet, RevertCSet, Expand | sweeper, GC | sizes counted on two paths; a stale sweep state. Correct: no two objects overlap; sizes are exact |
| Memory control, GC statistics | speeds and limits | Recompute limits | heap | floating-point heuristics: they decide *when*, not *what* |
| Region and memory-map allocators | free lists of mappings | Allocate, Free | spaces | splitting and cached regions |
| Micro jobs, promises, async functions (`jobs/`, `js_promise.cpp`) | ring buffers of jobs, promise state and reactions | Enqueue, ExecutePendingJob, Resolve, Reject, Then | interpreter | a job enqueues jobs, throws, or calls back into the VM while the queue is drained; several functions compete to settle a promise. Correct: each job once, in order, and each reaction once |
| ECMAScript modules (`module/`) | status, DFS index and ancestor index per module | Instantiate, Evaluate, InnerModuleInstantiation, InnerModuleEvaluation | interpreter | cycles, and failures half-way through a cycle. Correct: each module evaluated once, dependencies first, cycles completed together |
| CommonJS `require` | module cache | Require, Load, PutIntoCache | interpreter | cyclic requires, errors |
| Shared memory and `Atomics.wait` (`waiter_list`) | waiter queues by address, mutex | Wait, Notify, time-outs | threads of several VMs | lost wake-ups, time-out racing a notify |
| Containers, hash tables | buckets, ring indices | insert, delete, iterate | interpreter | iterators over a table that is rehashed or cleared under them. Correct: a lookup finds the one live key that is equal to the one looked for; a cursor returns each key that stays once |
| Inline caches, hidden classes | caches, transitions, prototype change markers | load, update, notify | interpreter | stale caches |
| Generators, iterators | execution state | next, return, throw | interpreter | re-entry |
| VM life cycle, safepoints, handles | thread flags, handle scopes | start, suspend, stop | GC, debugger | suspension requests |
| Weak references, finalization registry | weak maps, cells | register, check, clean up | GC, micro jobs | clean-up after a collection |
| Object model, built-ins | heap objects | the ECMA-262 operations | all | sequential |
| Interpreter, stubs, compiler | frames, gates | execution, code generation | all | out of a model checker's reach |
| Bytecode files, snapshot, serializer | files, reference counts | load, unload, encode | loader | formats and I/O |
| Debugger, profiler, NAPI, regular expressions | protocol state | dispatch | VM | glue and tooling |

How the parts of the memory manager meet: allocation on the JS thread may start a
concurrent marking (`TryTriggerConcurrentMarking`), which posts a `MarkerTask`
and, for a young marking, a task for the remembered sets. Marking threads
exchange work nodes over a global stack and post further `ParallelGCTask`s when
they push one. The write barrier marks stored values while a marking is on or
finished. A safepoint or an allocation starts a collection, which helps with,
waits for, uses or throws away a marking that it finds, evacuates (the JS thread
and the pool copy live objects, then update what refers to them), and then
starts a sweep whose `SweeperTask`s run beside the program; an `AsyncClearTask`
clears the mark bits after them.

How the parts of the language runtime meet: loading a file instantiates and
evaluates its modules, and the entry point drains the micro job queue when the
code returns; so does a call from native code. The jobs are the reactions of
promises: settling a promise enqueues them, and running them settles the
promises derived from it. Both the job queue and the lists of reactions are
`TaggedQueue`s. `Atomics.wait` blocks a VM's thread until another VM notifies it.

## 2. Modules

### TaskPool, MCTaskPool, ConcurrentMarkProofs

`TaskPool` models `Taskpool`, `Runner` and `TaskQueue`. One step is one
critical section of `TaskQueue::mtx_` or `Runner::mtx_`, or one point at which
another thread can observe the worker. `pc[w]` is where a worker is in
`Runner::Run`:

| `pc` | in the code |
|---|---|
| `pop`, `wait` | the loop of `TaskQueue::PopTask`, before its test and in `cv_.Wait` |
| `set` | holds the popped task, before `SetRunTask(threadId, task.get())` |
| `run` | in `task->Run`; may post further tasks (`RunPostsTask`) |
| `clear` | `Run` has returned; `SetRunTask(threadId, nullptr)` comes next, then the `unique_ptr` deletes the task |
| `exit` | `PopTask` has returned `nullptr` |

`Destroy` holds `Taskpool::mutex_` from the decrement to the end, in the points
`terminate` (the last user), `flagAll`, `join`, or `flag` (a user that leaves
others behind). `Exit` is `~Taskpool` at process exit with VMs left. The
condition variable signals at most one waiter, and may wake one for no reason.

`posted` and `finished` are history variables. The queue's `ASSERT(!terminate_)`
is compiled out of release builds, so a task that is posted late is pushed all
the same; it is covered by `NoTaskLostOrDuplicated`, `DrainedWhenJoined` and
`EveryTaskRuns` as all others are.

### MarkSchedule, MCMarkSchedule, MarkScheduleProofs

Who marks when. Threads are the JS thread (0, as `MAIN_THREAD_INDEX`) and the
pool's workers. The task pool is used through what `TaskPool` shows of it: a
FIFO queue from which a free worker takes a task, each task run once.

Objects are abstracted to work nodes: `hasWork[i]` says that thread `i` has
marked objects in its own nodes that are still to be visited, `workStack`
counts the nodes on the global stack, `Visit` may fill a node and push it, and
then posts a task if one more may be distributed. The decision to post
(`CheckCanDistributeTask`, under its own lock) and the post
(`IncreaseTaskCount`, then the pool's queue) are two steps, since other threads
can distribute in between.

| `pc` of the JS thread | in the code |
|---|---|
| `run` | the program: `BarrierUpdate`, `ChangeGCParams`, `TryTriggerConcurrentMarking`, `CollectGarbage`, `CheckSafepoint` |
| `check` | `Heap::CheckOngoingConcurrentMarking` reads the status |
| `help` | its `ProcessMarkStack` while the status was MARKING |
| `waitMark`, `asleep` | `ConcurrentMarker::WaitMarkingFinished`, before its test and in `Wait` |
| `ongoing` | the marking is used (`PartialGC`) or goes to `reset` (a full GC, or an old GC that finds a young marking) |
| `prepare`, `initialize` | `Heap::Prepare`, then `WorkManager::Initialize` |
| `roots`, `process`, `waitRunning` | marking by the collection; `ReMark` after a concurrent one |
| `postMarker`, `postOldToNew` | `ConcurrentMarker::Mark` |
| `evacuate` | sweeping and evacuation: objects move |

A worker goes through `process` and `reduce` for a `ParallelGCTask`, and
`process`, `waitRunning`, `finish`, `notify` for the `MarkerTask`. `finish` and
`notify` are the two halves of `FinishMarking`, which holds
`waitMarkingFinishedMutex_` over both; the JS thread reads the status in between
without it. `post` is a thread between the decision and the post.

`missedWait` is a history variable: it becomes true when the JS thread goes on
although a marking has not reported, which happens in two ways that the code
does not exclude: a spurious wake-up (`WaitMarkingFinished` has an `if` where a
loop would be needed) and a Reset between the status and the notification. After
that the safety properties do not hold, and those that say so are conditioned on
`~missedWait`; `CountIsExact` holds without it. `WaitsEnd` is the conjunction of
`MainReturns` (the JS thread comes out of every wait and collection) and
`MarkingEnds` (a marking that is on comes to its end).

### ConcurrentMark, MCConcurrentMark, ConcurrentMarkProofs

What is marked. An object has `Fields`, each of which holds a strong or weak
reference to an object or something else (`Undefined` stands for all that is no
object). `space` says whether an object is allocated and where, `cset` which
objects are in regions of the collection set. The program (`Load`, `Drop`,
`Allocate`, `Store`) holds objects in `locals`: handles, frames, globals.

One behaviour is one marking, from the beginning to the point at which
`PartialGC` goes on to `Sweep` and `Evacuate`:

| `mpc` | in the code |
|---|---|
| `run` | the program |
| `postMarker`, `postOldToNew` | `ConcurrentMarker::Mark`, after `InitializeMarking`, before each of its two posts |
| `help` | a collection has found a marking that is on: its `ProcessMarkStack`, then the wait for the marker's report |
| `mark` | `ReMark`, or `PartialGC::Mark` without a concurrent marking: `ProcessMarkStack`, `ProcessOldToNew`, `ProcessSnapshotRSet`, `WaitRunningTaskFinished` |
| `evacuate` | where the module ends |

The module abstracts from what `MarkSchedule` has in detail. Work nodes are sets of
slots: a pushed object is the set of its slots still to be visited (`work`, and
`mainWork` for those in the JS thread's own node, which nobody else can take
from). So a marker may stop in the middle of an object, and the program may
store into one field while another is visited, as in the code. `MarkerTask` and
the old-to-new task have their places (`markerTask`, `oldToNewTask`);
`ParallelGCTask`s that are posted with a node are the workers' right to take
slots while `parallelGC_` is set.

While the program runs, a worker reads a slot in one step (`ReadSlot`) and
marks or records what it has read in the next (`MarkSlot`), which is the window
between `slot.GetTaggedType()` and `AtomicMark`; once the program is stopped
the two are one step (`VisitSlot`). `RecordWeakReference` reads the slot a
second time, as the code does. A store and its barrier are one step: the barrier runs on
the thread that resets the status, and what it does commutes with markers.

`SelectCSet` takes any set of old objects: the choice is a heuristic on sizes.
Initially the program may have loaded a snapshot, whose objects refer to each
other in any way.

### ConcurrentSweep, MCConcurrentSweep, ConcurrentSweepProofs

`ConcurrentSweeper`, the sweeping half of `SparseSpace` and the remembered sets
of a `Region`. The regions have two slots that may hold an old-to-new
reference: one in an object that stays live, one in an object that a collection
may find dead. `memory[r]` follows the memory of that second object:

| `memory[r]` | meaning |
|---|---|
| `used` | an object is there |
| `garbage` | it is unmarked and not swept yet |
| `inRegion` | a worker has freed it into the region's own free object sets |
| `free` | it is in the allocator's free list |

A `SweeperTask` goes through `take` (`GetSweepingRegionSafe`), `free`
(`FreeRegion` with `ClearRSetInRange`), `add` (`AddSweptRegionSafe`), `set`
(`SetSwept`) for every region and `count` (the end of `AsyncSweepSpace`) for
every space; the order of the spaces is the code's modular rotation. The JS
thread's `mpc` follows its waits: `caller` says on whose behalf
(`EnsureAllTaskFinished`, an allocation's `AllocateAfterSweepingCompleted` with
or without `EnsureTaskFinished`, `TryFillSweptRegion`), `mtype` for which
space. `check` is the test of `remainingTaskNum_` without the mutex, `count in`
and `count out` are separate critical sections.

`stored` (the slots that hold an old-to-new reference) and `taintedRegions`
(the regions that entered a sweep with `HAS_BEEN_SWEPT` already set, see the
observations) are history variables. `FreedSlotForgotten` excludes the tainted
regions: for them a store may take over the sweeping set that a sweeper is about
to clear. `WaitsEnd` is the conjunction of `MainReturns` and `ClearTaskFinishes`.

### ParallelEvacuation, MCParallelEvacuation, ParallelEvacuationProofs

What `ParallelEvacuator` does with the result of a marking. `Init` is any heap
in which the mark bits and the remembered sets are as the properties of
`ConcurrentMark` say (`ReachableIsMarked` makes marked objects refer to live
ones; `MovedSlotsAreRecorded` and `WeakSlotsAreRecorded` say what the sets hold),
with or without slots that are remembered although they have been overwritten
since. So the two modules compose through those three properties.

An object is identified with its region. An address is that of an object as it
was found or that of its copy; `place[o]` says whether the object has been
copied into the new space, promoted, moved with its whole region, or is still
where it was. The age mark, survival rates and allocation failures that decide
between these are left open. A forwarding address is the fact that `place` is
`copied` or `promoted`.

| `pc` | in the code |
|---|---|
| `evacuate`, `enumerate`, `roots` | the JS thread in `EvacuateSpace()`, at the beginning of `UpdateReference` and in `UpdateRoot`/`UpdateWeakReference` |
| `take` | `GetWorkloadSafe`, in either phase |
| `copy` | `EvacuateRegion` |
| `update`, `write` | `UpdateObjectSlot` before and after it has read the slot |
| `count` | a task's decrement of `parallel_` under the mutex |
| `wait`, `asleep` | `WaitFinished`, before its tests and in `condition_.Wait` |

`SlotsOf` is what a workload of the second phase visits: the old-to-new and
sweeping set and then the cross-region set of a region that stays, the body of
objects in the new space. Reading and writing a slot are two steps, since a slot
can be in several records and be updated by two threads. `merged` is what has
been handed over by `TlabAllocator::Finalize`.

### TaggedQueue, MicroJobQueue, JobQueue, MCMicroJobQueue, MicroJobQueueProofs

`TaggedQueue` is the ring buffer as operators on a record of `start`, `end`, capacity and
elements. `MicroJobQueue` is the queue of a VM
and its drains. `calls` is the native stack: `entry` (the code of a file, from
`InvokeEcmaEntrypoint`), `call` (a function called by native code through
`FunctionRef::Call`), `job`, and the drains that follow the first two, each with
the handle `promiseQueue` that `ExecutePendingJob` holds. `heap` keeps replaced
queue objects, since a handle may refer to one. `isProcessingPendingJob` is the
VM's flag, which only the drain of `ExecutePromisePendingJob` sets and tests.

`JobQueue` is what it promises: a FIFO queue of jobs, each of which is started
once. `Abstract == INSTANCE JobQueue WITH waiting <- ...` reads its queue off the
ring buffer in use, and `IsJobQueue == Abstract!Spec` is the refinement.

### Promise, MCPromise, PromiseProofs

The state of all promises is one record, `heap`: the promises with their
reactions, the pairs of resolving functions with `[[AlreadyResolved]]`, the
queue of jobs, and what the host's `PromiseRejectionTracker` takes for unhandled.
The operations of `js_promise.cpp` and of the built-ins are operators from one such
record to the next, named as in the code; an action of the program (`PromiseConstructor`,
`CallThen`, `CallAwait`, `CallResolve`, `CallReject`) applies one of them. A
handler of the program is a body that starts with a job and, some time later,
returns any value it knows or throws; `bodies` is a stack because native code
may drain the queue inside a handler (see `MicroJobQueue`). A foreign thenable is
an object whose `then` is a function of the program: it gets a pair to call when
it likes, or throws.

### ModuleGraph, MCModuleGraph, ModuleGraphProofs

`ExecuteFromFile` with the two walks over the graph of imports,
`Instantiate` and `Evaluate`. The recursion of `InnerModuleInstantiation` and
`InnerModuleEvaluation` is a stack of `frames`; one step is one turn of the loop
over the required modules (`Descend` into a new one, `Revisit` of one that has
been seen) or what follows the loop (`Link`, `ModuleExecution`). The two
functions differ in what happens there and in the statuses (`Walks`); the rest,
Tarjan's algorithm, is the same code twice and is stated once. `Init` chooses
the graph and the modules with a name that cannot be resolved; bodies may throw. `EvaluateFails` needs an uncaught-exception handler of the embedder
(`registered`): without one `HandleUncaughtException` clears the exception and
the walk goes on. The index that evaluation passes on is the code's, which is
not lowered or raised as in ECMA-262 (see the observations).

### WaiterList, WaiterQueue, MCWaiterList, LinkedStructureProofs

`Atomics.wait` and `Atomics.notify` on several VMs. The links of the nodes are
modelled as they are, since removal from the middle is the risk: `pHead`,
`pTail`, `next`, `prev`. `DoWait` is split at the load of the location, which is
not protected: `pc = "add"` is a thread that holds the mutex and has compared.
`sleep` and `lock` are the condition variable, before and after the wake-up.
`expired` is the passing of the time-out.

`WaiterQueue` is the abstract specification: wait compares and joins a queue in
one step, notify takes the oldest ones off it, and a VM that was notified returns
`ok` and nothing else. `IsWaiterQueue` is the refinement: the VM between its load and
`AddNode` already counts as queued.

### LinkedHashTable, OrderedTable, MCLinkedHashTable, LinkedStructureProofs

`tables` is the chain of tables along `NextTable`: the last is the one the map
uses, the others are still reachable from cursors. A table is its capacity,
counts, buckets, and for each entry a key or a hole with the link to the next
entry (in an abandoned table the number of holes before it, as the code reuses
that field). A cursor is a `JSMapIterator` or a running `forEach`, with the
table and index it holds; `UpdatedIndex` is `JSMapIterator::Update`. The garbage
collector frees tables no cursor stands in (`Collect`).

A key is a value as the VM represents it. `Class` says which keys are equal for
`SameValueZero`, with which `IsMatch` compares them, and `Hash` is `LinkedHash::Hash` of
the value: the two are independent, as in the code, which hashes an integer and the
double of the same value by their different bits. `EqualKeysHashAlike` names the case in
which they agree: strings, symbols, objects, and numbers of which each is represented in
one way only (of the zeros, in any). `LookupIsExact` and `IsOrderedTable` are claimed for
keys of that kind and do not hold for others: section 5 says what happens there. BigInts
are left out: they are hashed by an address that the garbage collector may change, so
there `Hash` is not even a function of the value.

`OrderedTable` promises a list of keys, no two of them equal, in the order of
insertion; a cursor is the number of keys it has passed. `IsOrderedTable` is the refinement, with `at` read
off the table through the chain of rehashes. So every operation and every
`next` answers as the abstract one does.

The specification is called `TableSpec` (with `TableInit`, `TableNext`, `tableVars`), and
what an operation returns `answer`, because the proof module extends this module together
with `WaiterList`, with which it shares the lemmas on walks and sequences. A rehash
(`Rehashed`), the update of a cursor and the powers of two are recursive
functions, so that they can be reasoned about.

## 3. Runs

| Run | Instance | Shows |
|---|---|---|
| `task_pool` | 2 VMs, 3 tasks, 3 cores (2 workers) | each posted task is in one place and runs once (`NoTaskLostOrDuplicated`), `TerminateTask` follows no dangling pointer (`RunningTaskIsAlive`), everything has run when the workers are joined (`DrainedWhenJoined`), every task runs and every Destroy returns |
| `mark_schedule` | 2 workers, all collections and markings, 3 cycles, 1 full node per marking plus those of the roots | nobody marks while objects move (`MovesAlone`), the marking is complete then (`MarkingIsComplete`), tasks do not cross markings, the count is exact, every collection returns and every marking ends (`WaitsEnd`) |
| `concurrent_mark` | 2 objects and 1 of the snapshot, 1 field each, 1 worker, both kinds of marking, 2 stores | when objects begin to move, all that the program can reach is marked (`ReachableIsMarked`), every slot that must be updated is in a remembered set (`MovedSlotsAreRecorded`), and a collection that marked by itself has queued all weak slots of dead objects (`WeakSlotsAreRecorded`) |
| `weak_slot` (violation) | 2 objects, full marking | a weak reference that is stored during a concurrent marking is not queued, and keeps the address of a freed object |
| `parallel_evacuation` | 2 objects, 1 worker, every outcome of a young or full marking, parallel or not | the phases are apart (`PhasesAreApart`), nothing refers to freed memory afterwards (`NothingDangles`), no reference to a live object is lost (`ReferencesAreKept`), slots for the next young collection stay recorded (`YoungSlotsAreRemembered`), it ends |
| `sweep_rsets` | 1 region, 1 worker, both slots, both collections, switches | no old-to-new slot is lost, no slot of freed memory stays remembered; all waits end although the clear task waits inside the only worker |
| `sweep_owners` | 3 regions in 2 spaces, 2 workers, 2 sweeps | each region is swept by one thread and with its mark bits; a closed sweep leaves nothing open |
| `micro_jobs` | 4 jobs, 2 nested calls | jobs start once and in order (`IsJobQueue`), a drain that ends normally leaves nothing and the flag tells the truth (`DrainLeavesNothing`), every job runs (`JobsRun`) |
| `promise` | 4 calls of the constructor, `then` and `await`, handlers two deep | one effective resolver per promise (`OneResolver`), each reaction in one place and not twice (`ReactsOnce`), in order (`InOrder`), unhandled rejections are reported exactly (`ReportedAreUnhandled`), derived promises are resolved (`DerivedIsResolved`) |
| `module_graph` | all graphs of 3 modules with up to 2 imports each | a module is complete only with all it needs (`CompleteWithImports`), bodies run once and after those of their imports (`RunsAfterImports`), loading ends (`LoadReturns`) |
| `waiter_list` | 3 VMs, 1 location of 2 values, 4 calls | the links form the list of the waiters (`ListIsLinked`), wait and notify are atomic operations on a queue (`IsWaiterQueue`), notified and timed waits return (`WaitReturns`) |
| `linked_hash_table` | 3 keys, two of them always in one bucket, and a fourth that is equal to one of them and hashed alike; 1 cursor, up to 3 tables alive, smallest capacities 2 and 2 | when equal keys have equal hashes, lookups find exactly the equal keys and tables have room for their entries (`LookupIsExact`), the table with its cursors is an ordered list (`IsOrderedTable`) |

Type invariants are not properties of their own: those of the modules with proofs
are theorems, those of the others are conjuncts of a property named above.

**Bounds.** `MaxCycles = 3` lets a marking be started, reset and followed by
another collection, which is the longest chain the status can remember (it has
three values, and a collection leaves it READY or, after a missed wait, as it
was). `MaxNodes = 1` with the nodes that the roots push gives two nodes at a
time, one for each of two threads. Two workers are the fewest that can overtake
each other; one worker is a run of its own. `MaxSweeps = 2` gives what is left
of one sweep to the next; the second sweep of a region behaves as any later
one. Three regions in two spaces let two tasks meet in one space's list and in
different orders (the two old regions are interchangeable, which `MCSymmetry`
uses; nothing in the module chooses between them). For `concurrent_mark`, two stores and any number of loads and
drops are what it takes to hide an object from a marker: the object is loaded,
its reference is overwritten before the marker reads it, and it is stored where
the marker has already been (or stays in a local variable). With one field per
object these are already two objects and the third that is hidden. One
worker beside the JS thread is a second marker: both mark while a collection
helps.

For `parallel_evacuation`, a reference needs two objects, and every combination
of places (copied, promoted, moved, swept in place) occurs for its two ends; the
second thread is enough to interleave with the JS thread in both phases, and a
worker can take a workload of the second phase before the JS thread does. For
`micro_jobs`, the ring buffer is full at 1, 2 and 3 elements on its way to four
jobs, from several starts, so it wraps and grows in between; two nested calls
put a drain into a job of a drain. For `promise`, four calls make chains of
three promises and two promises that adopt each other. For `module_graph`,
three modules have every cycle that can close below, at or above the module
loaded; files are loaded again and in any order. For `waiter_list`, three
waiters are head, middle and tail. For
`linked_hash_table`, the constants `MIN_CAPACITY` and `MIN_SHRINK_CAPACITY` are
scaled down from 4 and 16 so that three different keys grow and shrink the table and make it
rehash at its own size; the code uses them only in the two capacity functions.

**Fairness.** Weak fairness for each thread's next step: the operating system
schedules threads, every critical section is short, and a mutex that is free
infinitely often is taken. No fairness is assumed of the program: it need not
allocate, store, collect, post or reach a safepoint, nor of spurious
wake-ups. A disjunction per thread, not per action: a thread is in one place.
In `WaiterList` the clock goes on, so a finite time-out passes. In `MicroJobQueue`
and `Promise` code that runs comes to its end; `JobsRun` moreover needs an
embedder that keeps calling functions some of which return normally, since
nothing else drains the queue.

**Deadlock** is checked in all passing runs but `promise`, where the program has
made its calls and may simply stop. Where a module ends at a certain point, it
says so with a stuttering action (`Terminating`, `Exited`, `Evacuated`).

## 4. Proofs

### The task pool

The second part of `ConcurrentMarkProofs` proves, for every finite set of VMs, every set of tasks and
every number of cores:

- `TypeCorrect`: `PoolSpec => []PoolTypeOK`
- `TasksAreKept`: `PoolSpec => []NoTaskLostOrDuplicated`
- `RunningTasksAreAlive`: `PoolSpec => []RunningTaskIsAlive`
- `PoolIsDrained`: `PoolSpec => []DrainedWhenJoined`

The three properties are not inductive. `NoTaskLostOrDuplicated` says where a
*posted* task is, and a step out of an unreachable state in which a worker at
`pop` still owns a task would break it; `DrainedWhenJoined` needs to know why
all workers have left. The inductive invariant `PoolInv` is the conjunction of

- `WorkerInv`: what a worker owns at each point of `Runner::Run`;
- `OwnerInv`: no two places hold the same task;
- `PlaceInv`: a posted task is somewhere;
- `CountInv`: `isInitialized_` is the number of VMs between Initialize and
  Destroy, and the queue is terminated only when it is zero or the process exits;
- `ExitInv`: only a terminated queue ends a worker, and when all are gone the
  queue is empty.

`PoolInvImplies`, `PoolInitInv` and one lemma per action (one step of the proof per
conjunct that the action can disturb) make up the proof. It assumes
`CoresAssumption` (at least one core), `NoTaskAssumption` (`nullptr` is no
task) and `VMsAssumption` (finitely many VMs).

### Marking

`ConcurrentMarkProofs` proves, for any objects, fields, workers, kinds of
marking and number of stores:

- `MarkTypeCorrect`: `Spec => []TypeOK`
- `ReachableObjectsAreMarked`: `Spec => []ReachableIsMarked`
- `MovedSlotsAreKnown`: `Spec => []MovedSlotsAreRecorded`
- `WeakSlotsAreKnown`: `Spec => []WeakSlotsAreRecorded`

All three properties speak of the last state of a marking only; what makes them
true there is the inductive invariant `Inv`, each part of which TLC has checked
as well:

- `HeapInv`: references are to allocated objects, and every slot outside the
  young space that refers into it is in an old-to-new set (the first half of the
  barrier, at all times);
- `MarkInv`, the tri-colour invariant: each slot of a marked object is still to
  be visited, or has been read by a worker that has not marked it yet and still
  holds that value, or its value is marked and recorded. The disjunct for a
  slot that is overwritten between read and mark is why the barrier must mark
  what is stored although a marker has yet to come;
- `RSetInv`: each remembered slot is still to be visited, by whoever is to visit it
  in this phase, or its value is marked;
- `RootInv`: from the second visit of the roots on, what the program holds is marked;
- `WeakInv`: in a collection that marks by itself, each weak slot of a marked
  object is to be visited or queued;
- `PhaseInv`: the points of the JS thread, the marker and its tasks that can
  occur together; in particular nobody has anything to visit before a marking.

`MarkStep`, `MarkProgram` and `MarkCollection` show that a marker, the program
and a collection keep `MarkInv`; the other parts have a lemma each. At the end
nothing is left to visit, so the marked objects, together with those outside
the young space when the marking is a young one, are closed under strong
references and contain the roots (`ReachableFromInv`): what can be reached is
among them. `ReachableIsMarked` needs no induction on paths this way, since
`Reachable` is the intersection of all closed sets. The assumptions are the
ones on the constants that the module names (the snapshot's objects are
objects, `Undefined` is none, the JS thread is no worker, the kinds of marking
are those that exist).

### The marking schedule

`MarkScheduleProofs` proves, for any number of workers, work nodes and
collections, with and without parallel collection, and for every choice of the
kinds of collections and markings:

- `ScheduleTypeCorrect`: `Spec => []TypeOK`
- `TheCountIsExact`: `Spec => []CountIsExact`
- `ObjectsMoveAlone`: `Spec => []MovesAlone`
- `NothingIsLeftToMark`: `Spec => []MarkingIsComplete`
- `TasksStayInTheirMarking`: `Spec => []TasksOfThisMarking`

The properties speak of the JS thread at `evacuate`; why nobody marks then is a
matter of how it came there. The inductive invariant `Inv` is the conjunction of

- `WorkerInv`, `MainInv`: what a thread may do at each point, and that a worker
  with something to visit is in `ProcessMarkStack`;
- `PhaseInv`: before the first marking there are no tasks, so a phase that was
  never set is never read;
- `CountInv`: `runningTaskCount_` is the number of `ParallelGCTask`s in the queue
  or with a worker, by induction over posts and ends: it holds whatever has been
  missed, which is why the count can be waited for;
- `StackInv`: if the JS thread has left `ProcessMarkStack` and a node is on the
  global stack, some worker is still going to look at the stack. Together with
  a count of zero there is no such worker, so the stack is empty;
- `ReportInv`, as long as no report has been missed: there is exactly one
  `MarkerTask` while a marking is on or has not reported, and none otherwise
  (`MarkerInv`); a collection that has passed
  `CheckOngoingConcurrentMarking` is not overtaken by a marking, and has seen the
  count at zero before it sets the phase (`PassedInv`).

Each part has a lemma that every action keeps it, with one step per action. The
only assumption is `ConstAssumption`, the types of the constants.

### Sweeping

`ConcurrentSweepProofs` proves, for any number of spaces, regions in them, workers
and sweeps, with and without concurrent sweeping:

- `SweepTypeCorrect`: `Spec => []TypeOK`
- `RegionsAreSweptOnce`: `Spec => []SweptByOne`
- `ClosedSweepsAreComplete`: `Spec => []ClosedSweepIsComplete`
- `MarksAreKept`: `Spec => []MarkedUntilSwept`
- `SlotsAreRemembered`: `Spec => []NoSlotForgotten`
- `FreedSlotsAreForgotten`: `Spec => []FreedSlotForgotten`

The invariant has three layers. Who sweeps: `PoolInv` and `MainInv` (each task
once in the pool, the points of the JS thread's waits), and `CountInv`, by which
`remainingTaskNum_[s]` is the number of tasks that still have to pass space `s` in
their rotation, and one more while the JS thread helps there. The rounds of a
task reach every space once (`(i + t) % n` is a bijection); that is why a count of
zero closes the space. Where the regions are: `ListInv`, `OwnInv`, and
`DoneInv`, what `EnsureAllTaskFinished` has established of the spaces before
`mtype`; `ClearInv` is the same for the `AsyncClearTask`, which looks at one space
at a time while others are still swept. What is in a region: `DataInv` ties its
memory, mark bits and remembered sets to its place, in particular that the
sweeping set exists only while someone still has to clear or merge it. For a
region that entered its sweep with a stale `HAS_BEEN_SWEPT` only the part without
`FreshOf` holds (see the observations). The assumptions are `ConstAssumption` (a
region is in a space, `nullptr` is no region, there are finitely many regions) and
`NoSetAssumption` (a missing set is not a set of slots).

### Evacuation

`ParallelEvacuationProofs` proves, for any objects, any number of workers, both kinds
of collection and every outcome of a marking that `Init` allows:

- `InvIsInvariant`: `Spec => []Inv`, the inductive invariant
- `ThePhasesAreApart`: `Spec => []PhasesAreApart`
- `NothingIsLeftDangling`: `Spec => []NothingDangles`
- `NoReferenceIsLost`: `Spec => []ReferencesAreKept`
- `YoungSlotsStayRemembered`: `Spec => []YoungSlotsAreRemembered`

The properties speak of the end, and the invariant says how it is approached. It
has one part for each of these questions:

- who is where (`ControlInv`): the points of a thread with what its locals hold
  there, what the JS thread has waited for, and `CountInv`, by which `parallel_` is
  the number of tasks queued or at work. A count of zero means that all workers are
  idle, so one phase ends before the other begins;
- what has gone (`CopyingInv`): a region that goes is a workload, or that of one
  thread, or everything live has left it (`WorkInv`), and what is promoted is in a
  thread's `LocalSpace` or has joined the old space (`PromotedInv`);
- what is recorded (`RecordedInv`): while objects are copied, every slot that will
  have to change is in the set its region's workload will visit. `SetObjectFieldRSet` has
  to keep this for a promoted object with the places of others still open;
- what the roots refer to (`RootsInv`);
- what becomes of the slot of a live object (`UpdateInv`, with `TakenInv` for which
  thread has its record). Two threads may update one slot, and the second may write
  what it read before the first wrote. `SlotOf` says that a slot, and whatever a thread
  has read from it, is the old reference, the new one or undefined; that it
  does not go back; that the record by which it is found (`Kind`) is pending as
  long as it holds the old one; and that it leaves an old-to-new set only for an object
  that was promoted. `KeptOf` adds that a reference to a live object is not lost, which
  for a weak one needs `OnceOf`: a copy has no mark bit, so `UpdateWeakObjectSlot`
  clears a weak slot that it updates twice in a full collection.

`UpdatedWas` and `UpdatedBecomes` are the lemmas about the code's two update functions:
applied to what a slot held they yield what it has to become, and applied again
they change nothing, unless the reference is weak. When nothing is pending any
more (`AtTheEnd`) the properties follow. Besides `NumWorkersAssumption` only
`UndefinedAssumption` is used: `JSTaggedValue::Undefined()` is no reference.

### Micro jobs

`MicroJobQueueProofs` proves, for any jobs, nesting of calls and growth of the queue:

- `FlagIsThatOfADrain`: `Spec => []FlagIsExact`
- `DrainsAreComplete`: `Spec => DrainLeavesNothing`, an action property
- `ImplementsJobQueue`: `Spec => IsJobQueue`, the refinement of `JobQueue`

The first part is about `TaggedQueue` alone. `IsQueue` says what a ring looks like
(from `start` to `end` modulo the capacity, with one element free), and one lemma per
operation what it does to `Q!Elements`, the sequence the ring stands for: `Pop`
takes its head off, `Push` appends to it, whether it wraps, grows and
thereby copies the ring, or replaces the shared empty queue. `StackInv` is the
reason why the handles of drains that nest are harmless: a drain that has
control holds the queue that is in the field, because no code that could replace
the queue runs on top of it, and one that gets control back reloads it.
With these a step of the VM is a step of `JobQueue` or none. The assumptions are
`JobsAssumption` (finitely many jobs, a hole is none) and `MaxNestedAssumption`.

### Promises

`PromiseProofs` proves, for any number of calls and depth of handlers:

- `PromiseTypeCorrect`: `Spec => []TypeOK`
- `OneWayToBeSettled`: `Spec => []OneResolver`
- `HandlersRunInOrder`: `Spec => []InOrder`
- `UnhandledAreReported`: `Spec => []ReportedAreUnhandled`
- `EachThenHasItsEffectOnce`: `Spec => []ReactsOnce`

An action is several operators on the heap in a row, and between two of them a
promise has no resolver although it is pending: its pair is used, and what becomes
of it is about to be decided. So the invariant has a parameter, the promise *in
hand*: `HeapInv(h, p)` excepts `p` from the rule that a pending promise has exactly
one live pair or job that will settle it (`WayInv`). Using a pair puts its promise in
hand; settling it or making the job for a thenable takes it out of hand; an
action begins and ends with none. The other parts are `RefInv` (references go
to what exists, only pending promises have reactions), `QueueInv` (reaction jobs
are those of settled promises, in order) and `ReportInv`. One group of lemmas
says field by field what an operator returns, a second what it keeps.

`ReactsOnce` needs an account of the pairs that reactions are to resolve. `ReactInv(h,
out)` has again a parameter for what is under way: `out` are the pairs in somebody's
hands, those that the program holds (`held`), that a handler runs for (`InRun`), or that an
operation has created or taken and not yet placed. An unused pair is in no hands exactly when some
reaction, at one place `At(h, p, i, k)` of one promise's lists or of the queue, uses
it, and then it is the only one (`SiteInv`); the two lists of a promise use the same
pairs (`ParallelInv`). `then` and `await` take a new pair out of hands when they
register or queue its reaction, settling moves reactions from a list to the queue (the
other list vanishes with it), a job that starts puts its pair back in hands, and the handler
that ends uses it. `RunInv` says that running handlers have different unused pairs
that the program does not hold. `UseInv` is the conjunction for the states between
actions; that a set of places counts one element at most turns it into the
cardinalities of `ReactsOnce`. The assumptions are only that the bounds are
natural numbers.

### The waiter list

`LinkedStructureProofs` proves, for any finite set of VMs, any locations and values and
any number of calls:

- `ListsAreLinked`: `Spec => []ListIsLinked`
- `ImplementsWaiterQueue`: `Spec => IsWaiterQueue`, the refinement of `WaiterQueue`

`Nodes` and `Sleepers` walk the links by recursion, so nothing about them can be
shown by expanding them. `Linked(s, head, tail, links, back)` says without recursion that
a sequence of nodes is linked in both directions, and `AlongIsKept` that a walk along
such links returns the nodes of `s` in question, `Kept(s, S)`, and ends before the
VMs run out. It is proved by induction on the number of nodes passed, where
`UpTo`, the principle used, comes from the least element of a set of numbers
(`LeastElement`). `LinkedAppend` and `LinkedRemove` are `AddNode` and `DeleteNode`, the
latter for the four places a node can have in its list; `KeptAppend`, `KeptRemove` and
`KeptDrop` are what the operations of the list mean for its sleepers.

The invariant `Inv` is the conjunction of `ListsInv` (every location has a linked
sequence of exactly the VMs in a wait there), `OutInv` (all other nodes have no
links; without it `AddNode` would tie two lists together) and `WaitInv` (what the
point in `DoWait` says of `waiting_` and the clock). For the refinement there is one
lemma per action. The comparison of `DoWait` is where a VM joins the abstract
queue, since it holds the mutex from there to `AddNode`; `AddNode` itself, the
clock and the wake-ups are no step of the queue; a notified node that is still
linked is none of its elements. The assumptions are that there are finitely many
VMs and that `nullptr` and the free mutex are no VM.

### The hash table

`LinkedStructureProofs` proves in its second half, for any finite set of keys, any
cursors, any smallest capacities and any number of tables alive:

- `TablesHaveRoom`: `TableSpec => []EntriesFit`, with any hashes and any classes
- `LookupsAreExact`: `TableSpec => []LookupIsExact`, assuming `EqualKeysHashAlike`
- `TablesAreOrdered`: `TableSpec => IsOrderedTable`, the refinement of `OrderedTable`,
  assuming `EqualKeysHashAlike`

The assumption is a hypothesis of the two theorems and not an `ASSUME` of the module: the
code fulfils it for some keys only, and without it both statements are false (section 5).

The inductive invariant is `TableInv`: every table but the last is an `OldTable`, the
last one is a `GoodTable`, and the cursors stand in tables (`CursorsOK`).

- `RoomInv`: there are as many links as entries, they are counted by
  `elements + deleted`, and they fit into the capacity. `HasSufficientCapacity` keeps it
  for a table that goes on; for one that is replaced, the capacity of the new one is computed from
  the number of its keys, which is at most that of all keys since no key has
  two entries (`KeyInv`, `ElementsBound`). Equal keys with different hashes may have one
  each; the same value never has two.
- `ChainInv`: there is a bucket for every entry, that of its key's hash if it has
  a key, such that the head of a bucket is the last entry that belongs to it and each link leads
  to the one before. A hole stays in the chain it was put in, though its key, and with it
  the hash that put it there, is gone; so the bucket of an entry has to be
  existentially quantified (`IsHome`) and cannot be computed. A chain leads
  backwards, so `FindElement` ends, by induction on the place of the entry.
- `OldTable`: the link of a hole is the number of holes up to it, and the next table
  has at least as many entries as this one had keys when it was left (`TablesOK`). So a
  cursor at `index` moves on to the number of keys before it, and that is an entry
  of the next table, which began with these keys in their order.

`Live(t, n)` is the number of keys among the first `n` entries and `OrderOf(tables)` the
keys of the last table, both from `KeptUpTo`, the function of the first half that says
what a sequence keeps. `At(tables, p)` is how many keys a cursor at `p` has passed.
One lemma per operation says what it does to them (`SetEffect`, `DeleteEffect`,
`ClearEffect`, `AdvanceEffect`, `CollectKeeps`): a rehash changes neither the order nor
any `At`, a removal takes one key out and moves exactly the cursors behind it. So far
nothing depends on the hashes: a lookup finds nothing but equal keys, and misses none that
is hashed alike (`PlacesOfKey`).

With `EqualKeysHashAlike` it misses none at all (`NoneMatches`), so `Set` and `Delete` decide
as `OrderedTable` does. The
refinement has one short lemma per action, and `Collect` is a stuttering step. That the keys
in the order are pairwise not equal (`ClassesApart`) is an invariant of the abstract steps
(`ClassesStayApart`); it says which key a removal has to take, and makes lookups
exact, since two entries with equal keys would be two places of the order (`MatchesMeet`). The recursive
functions are shown by induction on entries (`UpTo`): `Rehashed` in `RehashGood`,
`FindElement` in `FindExact`, `UpdatedIndex` in `UpdateFacts`.

The other assumptions: hashes are numbers that do not change, the smallest capacity is positive (4 in the code), the
hole is no key, the marks of unused and closed cursors are no positions, and the keys are so few
that a power of two in an `int32_t` is large enough for them (`KeysAssumption`): the code rounds
a capacity up to one and has no answer beyond it.

### Modules

`ModuleGraphProofs` proves, for any finite set of modules, any graph of imports and
any modules whose names cannot be resolved or whose bodies throw, loaded in any order
and number:

- `ModulesTypeCorrect`: `Spec => []TypeOK`
- `ModulesCompleteWithImports`: `Spec => []CompleteWithImports`
- `ModulesRunAfterImports`: `Spec => []RunsAfterImports`

The properties speak of all that a module needs, which `Needs` computes by recursion,
one step along the imports for each module there is. `NeedsClosed` and `NeedsLeast` show
that this is the least set that holds the imports of the module and is closed under
imports: while a step adds something there is one module less to add, by induction on
the steps (`UpTo`, from the least element of a set of numbers). After that the
recursion is not looked at again.

The inductive invariant `Inv` is the reason why Tarjan's algorithm is right, and has to
be more than the textbook's because of what the code makes of it: modules are left
by earlier loads and by ones that stopped half-way, and an evaluation error becomes an
index. Its parts:

- `GraphInv`: what is complete is complete with its *imports*. This is one
  step of `CompleteWithImports`; the property follows since the complete modules
  are a closed set;
- `OpenInv`, `RootInv`, `CallInv`: the open modules are those on the stack, the calls
  are on it in order, each for an import of the one before, and all that lies above
  the module of a call is needed by it;
- `NumberInv`, `OrderInv`: numbers rise along the stack, and a module whose
  call has ended lies above a call;
- `AncestorInv`: an ancestor index is the number of a module on the stack, and
  no larger than the numbers of the open imports that the loop has passed;
- `ReturnInv`: a call has an ancestor index no larger than those of the modules
  between it and the next call, or will have after its next step; so what has
  been passed to a module whose call has ended is not lost;
- `ExecutedInv`: a module is in `executed` only after its call has reached the end of its
  loop, and as long as nobody has registered for exceptions whenever it has.

The numbers are right only for *clean* modules, those that neither have an
evaluation error nor need a module that has one; `OrderInv`, `AncestorInv` and
`ReturnInv` say nothing about others. It works out because what a clean module needs
is clean (`CleanNeeds`), and the innermost call is for a clean module unless
there is none on the stack (`CleanTop`). `ComponentComplete` is the heart: when a
call ends with its ancestor index equal to its number, what the modules from there
up import is complete or among them, so the component can be taken off the
stack. An import that is open below would have a smaller number, and the call would have
taken it over. For `RunsAfterImports` an import that
is still open when a body runs lies below or is a call in progress, and the
importer is above it, hence needed by it (`CallInv`).

The assumptions are `ModulesAssumption` (finitely many modules), `MaxRequestsAssumption`
(the bound is a number; it bounds what TLC enumerates, and the theorems hold for
each) and `NoModuleAssumption` (the empty handle is no module).

### Only model-checked

All safety properties of the passing runs are stated by a theorem. Liveness under
fairness is beyond the proof system, so these stay with TLC: `EveryTaskRuns` and
`DestroyReturns`, both `WaitsEnd`, `EvacuationEnds`, `WaitReturns`, `LoadReturns`,
`JobsRun` and `DerivedIsResolved`.

What a recursive definition computes is proved where a property needs it, by
induction on numbers through `LeastElement`; the library's induction theorems take an
operator as a parameter and cannot be used.

## 5. Observations

Besides the finding of run `weak_slot`, the following was noted while modelling.
The models contain the behaviour; where a property excludes it, that is said here.

Memory manager:

- A running task may post to a terminated queue, which `task_queue.cpp:22` asserts
  never happens: a marker that hands on a node while the last `Destroy`
  terminates the queue. The task still runs.
- With one pool worker a concurrent young marking never ends: the `MarkerTask`
  waits inside the only worker (`concurrent_marker.cpp:153`) for the old-to-new
  task that is queued behind it. `WaitsEnd` is checked with two workers.
- `FinishMarking` writes the status before the notification; a whole collection
  fits in between, and the notification is then stale, so that a later
  `WaitMarkingFinished` returns at once. `WaitMarkingFinished` also tests its
  condition only once, so a spurious wake-up has the same effect. Both set
  `missedWait`, on which the properties of `MarkSchedule` are conditioned.
- Concurrent marking that is switched off between the end of a marking and its
  use makes the next collection start over existing mark bits
  (`concurrent_marker.cpp:48`), although `concurrent_marker.h:33` says that the
  marking under way is still used.
- A young marking with `parallelGC_` visits the old-to-new sets in the posted
  task, which enumerates the old, non-movable, huge-object and machine-code
  spaces (`heap-inl.h:34`), and `ReMark` visits those of the snapshot space only
  without `parallelGC_` (`concurrent_marker.cpp:81`). A young object that only a
  slot of the snapshot space refers to when the marking begins is then marked
  by nobody. `ReachableIsMarked` leaves out the markings that this concerns
  (`SnapshotSkipped`), and only those.
- `RecordWeakReference` reads the slot again that its caller found weak
  (`parallel_marker-inl.h:84`); the program may have stored a strong reference in
  between, on which `GetWeakReferent` asserts (`js_tagged_value.h:254`).
- `parallel_evacuator.cpp:247` asserts that a queued weak slot still is weak or
  undefined. The program may have overwritten it by anything since it was queued;
  release builds pass over such a slot.
- A weak slot can be recorded twice, in an old-to-new or sweeping set and in the
  cross-region set, or in a weak reference queue and a set. The first update
  forwards it; the second `UpdateWeakObjectSlot` then finds the copy, which has no mark
  bit, and in a full marking writes `Undefined` although the object lives
  (`parallel_evacuator-inl.h:73`). A weak element whose
  object lives is otherwise kept (`weak_ref_old_gc_test.cpp:129`). `ReferencesAreKept` leaves out slots that were
  recorded twice (`before.twice`), and only those that are weak.
- `UpdateRSet` reads a slot again after `UpdateObjectSlot` (`parallel_evacuator.cpp:295`).
  Nobody else writes another value to it in that phase, so the model reads it once.
- `AsyncSweep` hands a region over before it sets `HAS_BEEN_SWEPT`
  (`sparse_space.cpp:141`); `FillSweptRegion` may reset the flag in between, and
  the region then carries it into the next sweep (`taintedRegions`).
  `FreedSlotForgotten` leaves these regions out, so no property catches what follows.
- `heap.cpp:334` promises to wait for existing marking tasks before the Reset.
  It waits for the `MarkerTask`'s report, not for `runningTaskCount_`: a
  `ParallelGCTask` posted after the `MarkerTask` has counted may still mark
  while `Reset` clears the mark bits. `Prepare` waits for it afterwards. No property
  catches what that marking leaves behind: `TasksOfThisMarking` is about the tasks that
  outlive the next `Prepare`.
- `Reset` and `WorkManager::Finish` leave the global work stack as it is. A node
  pushed by the write barrier after the marking had finished, when no task
  could be distributed, is still there when its memory is handed out again
  (`work_manager.cpp:147`).
- `maxEvacuateTaskCount_ - 1` (`heap.cpp:97`) wraps around without a worker.
- `sparse_space.cpp:186` says "Sweep low alive object size at first"; the list
  is sorted ascending and taken from the back (`sparse_space.cpp:197`). The
  order of the list is left open in the model. `sparse_space.cpp:109` adds to
  `liveObjectSize_` twice on one path.

Language runtime:

- `EcmaVM::ExecutePromisePendingJob` says that it "can not reentrant"
  (`ecma_vm.cpp:627`), but `InvokeEcmaEntrypoint` drains without its flag
  (`ecma_vm.cpp:421`): jobs then run inside a job. They still start once and in
  order.
- `ExecutePendingJob` keeps its handle of the script queue over the jobs it runs
  (`micro_job_queue.cpp:71`), where the loop over the promise queue reads it
  again. Nothing enqueues to the script queue, so the model leaves it out.
- Importers of a module whose body threw still run, unless an
  uncaught-exception handler is registered, since `HandleUncaughtException`
  clears the exception (`ecma_vm.cpp:517`) before the walk looks for it.
  `RunsAfterImports` therefore says that imports run before, not that they
  succeed. With a handler, a second import of a failed module returns its error number
  as the DFS index, without an exception, and the assertion on `EvaluationError` at
  `js_module_source_text.cpp:560` fails on a second load.
- Once an error number has been taken for the index, DFS indices may repeat or fall;
  in graphs of four modules or more a member of a cycle may then be marked
  `EVALUATED` before the cycle is complete. `CompleteWithImports` therefore leaves out
  the evaluation of modules that are or need one with an evaluation error; that the
  wrong numbers do no harm to any other module is part of its proof.
- `currentTime + timeout` (`builtins_atomics.cpp:525`) may wrap around for a huge
  finite time-out. Time is an event in the model.
- Keys of a `Map` are compared with SameValueZero (`linked_hash_table.h:329`), for which
  the integer 1 and the double 1.0 are equal (`js_tagged_value-inl.h:353`), but looked for in
  the bucket of `LinkedHash::Hash`, which gives the zeros one hash
  (`linked_hash_table.cpp:236`) and hashes all other numbers by their bits (`:258`). A
  division leaves doubles with the value of an integer (`fast_runtime_stub-inl.h:69`). So
  after `set(1, v)` a `has(2 / 2)` may miss the key and `set(2 / 2, v)` enter it a second
  time, against ECMA-262, which `README.md:14` of the repository promises. The comment
  "key must be string now" (`linked_hash_table.h:326`) is not enforced: any value is a
  key. The model contains this: with different values of `MCHash` for `k1` and `k1b`, TLC
  finds `LookupIsExact` violated after one `Set`. The properties exclude it by
  `EqualKeysHashAlike`.
- Equal BigInts are hashed by their addresses (`linked_hash_table.cpp:258`), with the same
  effect; one that the garbage collector has moved is not even found by itself, and
  `Insert` computes the hash before `GrowCapacity`, which allocates
  (`linked_hash_table.cpp:44`). Addresses are not modelled.

## 6. Not modelled

Within the modelled parts: `fullGCRequested_` (nothing sets it to true), the
full GCs that debug builds run at safepoints, `STWYoungGC` (`CollectGarbage`
does not use it), sizes and limits (collections and markings may begin at any
time instead), logging and statistics, `Heap::Destroy` and a pool without workers
in `MarkSchedule` (planned). Collection-set regions are not swept and are left
out of `ConcurrentSweep`. `ConcurrentMark` has one marking: what an abandoned one
leaves behind is in `MarkSchedule`, and liveness is as well. Hidden classes are
marked like fields and are not told apart from them. `ParallelEvacuation` has one
object per region; verification, tracing and the sizes of regions are left out,
and the forwarding of a full GC (`CompressGCMarker`) is another algorithm.

`Promise` leaves out `Promise.all`, `race`, `resolve`, `reject` and `finally`,
which loop over `then` and the constructor, subclasses with other constructors,
`then` getters that throw, and a rejection tracker that calls back. `ModuleGraph`
leaves out what names resolve to, loading from buffers, a load inside a load, and
the empty program. `LinkedHashTable` leaves out values, sets (the same table
without values), the insertion of weak references, and BigInts as keys. `WaiterList` leaves out the
conversion of arguments and the other atomic operations, which are stores here.

Out of a model checker's reach, or of little use to one: the interpreter, the
stubs and the optimising compiler (translation of bytecode: their correctness is
about every program, not about the interleavings or histories of a small state),
the built-ins of the object model (sequential code that follows ECMA-262), file
formats, debugger and profiler protocols, floating-point heuristics of the memory
controller. They are most of the repository's lines, so the map covers a small
share of it. Other parts and the reason are in `PROJECT.json`, `components`.

## 7. Plan

Done: `TaskPool`, `ConcurrentMark`, `MarkSchedule`, `ConcurrentSweep`,
`ParallelEvacuation`, `MicroJobQueue` with `TaggedQueue` and `JobQueue`, `Promise`,
`ModuleGraph`, `WaiterList` with `WaiterQueue`, and `LinkedHashTable` with `OrderedTable`
(modelled and proved).

Left, in order of importance:

1. Several markings in a row in `ConcurrentMark`, with the work nodes that an
   abandoned one leaves on the global stack; `Heap::Destroy` and zero workers in
   `MarkSchedule`.
2. The free lists and the collection set against a set of free ranges; the
   forwarding of a full GC.
3. CommonJS modules, the finalization registry, prototype caches.
