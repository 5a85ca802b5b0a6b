---------------------------- MODULE ConcurrentMark ----------------------------
(***************************************************************************)
(* What is marked: the object graph, the mark bits and the remembered      *)
(* slots under NonMovableMarker, the write barrier (Barriers::Update) and  *)
(* ConcurrentMarker (ecmascript/mem), from the beginning of a marking to   *)
(* the point at which PartialGC begins to move and free objects.           *)
(*                                                                         *)
(* Markers read a slot in one step and mark what they read in the next     *)
(* while the program may load, store and allocate in between; when it is   *)
(* stopped the two are one step.  Which thread gets which work node is     *)
(* MarkSchedule's business: here the slots still to be visited are a set,  *)
(* except those in the JS thread's own work node, which no other thread    *)
(* can reach.                                                              *)
(*                                                                         *)
(* The store of a value and its write barrier are one step: the barrier    *)
(* reads a status that only the JS thread resets, and marking what a       *)
(* marker has marked already changes nothing.                              *)
(***************************************************************************)
EXTENDS Naturals, FiniteSets

CONSTANTS
    Objects,          \* all that may ever be allocated
    Fields,           \* the fields of an object
    SnapshotObjects,  \* those of the snapshot space
    Workers,          \* worker threads of the pool
    MarkTypes,        \* the concurrent markings that allocation may trigger
    MaxStores,        \* bound on the stores of the program
    Undefined         \* what a slot without an object holds

MarkTypeNames == {"MARK_YOUNG", "MARK_FULL"}

Slots == Objects \X Fields

ASSUME ObjectsAssumption == SnapshotObjects \subseteq Objects
ASSUME UndefinedAssumption == Undefined \notin Objects \cup Slots
ASSUME MainAssumption == "main" \notin Workers
ASSUME MarkTypesAssumption == MarkTypes \subseteq MarkTypeNames
ASSUME MaxStoresAssumption == MaxStores \in Nat

Main == "main"                  \* MAIN_THREAD_INDEX, the JS thread
Threads == Workers \cup {Main}

VARIABLES
    space,         \* where an object is: "free" (not allocated), "young", "old"
    cset,          \* the objects of the collection set's regions
    value,         \* what each slot holds, a JSTaggedValue
    locals,        \* the objects that handles, frames and globals refer to
    oldToNew,      \* the slots in the regions' old-to-new remembered sets
    crossRegion,   \* the slots in the regions' cross-region remembered sets
    weakQueue,     \* the slots in the WorkManager's weak reference queues
    marked,        \* the objects whose mark bit is set
    work,          \* slots of marked objects that any marker may take
    mainWork,      \* slots of marked objects in the JS thread's own node
    rsetTodo,      \* remembered slots that ProcessOldToNew has still to visit
    reading,       \* what each worker has read and not marked yet
    markStatus,    \* JSThread: MarkStatusBits
    markType,      \* Heap::markType_
    parallelGC,    \* Heap::parallelGC_
    markerTask,    \* the MarkerTask
    oldToNewTask,  \* the CONCURRENT_HANDLE_OLD_TO_NEW_TASK
    mpc,           \* where the JS thread is
    stores         \* stores so far (at most MaxStores)

heapVars == <<space, value, locals, oldToNew>>
recordVars == <<crossRegion, weakQueue>>
markVars == <<marked, work, mainWork>>
kindVars == <<cset, markType, parallelGC, stores>>
taskVars == <<markerTask, oldToNewTask>>
vars == <<heapVars, recordVars, markVars, kindVars, taskVars, rsetTodo, reading, markStatus, mpc>>

Owner(s) == s[1]
SlotsOf(objs) == {s \in Slots : Owner(s) \in objs}

Values == [object : Objects \cup {Undefined}, weak : BOOLEAN]
NoValue == [object |-> Undefined, weak |-> FALSE]
IsHeapObject(v) == v.object # Undefined
IsStrong(v) == IsHeapObject(v) /\ ~v.weak
IsWeak(v) == IsHeapObject(v) /\ v.weak

Idle == [slot |-> Undefined, value |-> NoValue]

IsFullMark == markType = "MARK_FULL"
InYoungSpace(o) == space[o] = "young"
InYoungSpaceOrCSet(o) == InYoungSpace(o) \/ o \in cset

-----------------------------------------------------------------------------
(* Marking one object: NonMovableMarker::MarkObject and WorkManager::Push *)

\* A young marking stops at objects outside the young space.
Markable(o) == IsFullMark \/ InYoungSpace(o)

\* The object that v makes the caller mark: AtomicMark succeeds for one caller.
NewlyMarked(v) ==
    IF IsStrong(v) /\ Markable(v.object) /\ v.object \notin marked THEN {v.object} ELSE {}

\* WorkManager::Push(t, object), by a marker that has taken the slots `taken'.
\* The JS thread's node is its own until it is full; then the node goes to the
\* global stack and the object into a new one.
Push(t, objs, taken) ==
    /\ marked' = marked \cup objs
    /\ \/ /\ t # Main
          /\ work' = (work \ taken) \cup SlotsOf(objs)
          /\ UNCHANGED mainWork
       \/ /\ t = Main
          /\ work' = work \ taken
          /\ mainWork' = (mainWork \ taken) \cup SlotsOf(objs)
       \/ /\ t = Main /\ objs # {} /\ mainWork \ taken # {}
          /\ work' = (work \cup mainWork) \ taken
          /\ mainWork' = SlotsOf(objs)

\* Marker::MarkRoots(MAIN_THREAD_INDEX), which ends by handing on the node.
MarkRoots(type) ==
    LET roots == {o \in locals \ marked : type = "MARK_FULL" \/ InYoungSpace(o)}
    IN  /\ marked' = marked \cup roots
        /\ work' = work \cup mainWork \cup SlotsOf(roots)
        /\ mainWork' = {}

-----------------------------------------------------------------------------
(* The program *)

\* A local variable gets the object that a slot holds, weak or not.
Load(s) ==
    /\ mpc = "run"
    /\ Owner(s) \in locals /\ IsHeapObject(value[s])
    /\ locals' = locals \cup {value[s].object}
    /\ UNCHANGED <<space, value, oldToNew, recordVars, markVars, kindVars, taskVars, rsetTodo,
                   reading, markStatus, mpc>>

\* A handle scope ends, a variable is overwritten.
Drop(o) ==
    /\ mpc = "run"
    /\ o \in locals
    /\ locals' = locals \ {o}
    /\ UNCHANGED <<space, value, oldToNew, recordVars, markVars, kindVars, taskVars, rsetTodo,
                   reading, markStatus, mpc>>

\* New objects are not marked, also while a marking is on.
Allocate(o, where) ==
    /\ mpc = "run"
    /\ space[o] = "free"
    /\ space' = [space EXCEPT ![o] = where]
    /\ locals' = locals \cup {o}
    /\ UNCHANGED <<value, oldToNew, recordVars, markVars, kindVars, taskVars, rsetTodo,
                   reading, markStatus, mpc>>

\* The first half of WriteBarrier: the old-to-new remembered set.
RecordOldToNew(s, v) ==
    oldToNew' = IF IsHeapObject(v) /\ ~InYoungSpace(Owner(s)) /\ InYoungSpace(v.object)
                THEN oldToNew \cup {s} ELSE oldToNew

\* Mutant of RecordCrossRegion: a weak value is not recorded.
RecordCrossRegionStrong(s, v) ==
    crossRegion' = IF /\ IsStrong(v) /\ IsFullMark
                      /\ v.object \in cset /\ ~InYoungSpaceOrCSet(Owner(s))
                   THEN crossRegion \cup {s} ELSE crossRegion

\* AtomicInsertCrossRegionRSet, in Barriers::Update and in ProcessMarkStack.
RecordCrossRegion(s, v) ==
    crossRegion' = IF /\ IsHeapObject(v) /\ IsFullMark
                      /\ v.object \in cset /\ ~InYoungSpaceOrCSet(Owner(s))
                   THEN crossRegion \cup {s} ELSE crossRegion

\* Barriers::SetDynObject (v is an object) or SetPrimitive (NoValue), with
\* WriteBarrier and, while marks are in use, Barriers::Update.
Store(s, v) ==
    /\ mpc = "run"
    /\ Owner(s) \in locals
    /\ v = NoValue \/ v.object \in locals
    /\ stores < MaxStores /\ stores' = stores + 1
    /\ value' = [value EXCEPT ![s] = v]
    /\ RecordOldToNew(s, v)
    /\ IF markStatus = "READY_TO_MARK"
       THEN UNCHANGED <<markVars, crossRegion>>
       ELSE Push(Main, NewlyMarked(v), {}) /\ RecordCrossRegion(s, v)
    /\ UNCHANGED <<space, locals, weakQueue, cset, markType, parallelGC, taskVars, rsetTodo,
                   reading, markStatus, mpc>>

-----------------------------------------------------------------------------
(* Marking by any thread *)

\* Workers mark for the MarkerTask, or for ParallelGCTasks that were posted
\* with a work node (only if parallelGC_); the JS thread in collections.
MayMark(t) ==
    IF t = Main THEN mpc \in {"help", "mark"}
    ELSE reading[t] = Idle /\ (markerTask = "process" \/ parallelGC)

\* The slots that thread t can take: of objects in work nodes that it reaches
\* (WorkManager::Pop), or of the remembered sets that are its to process.
RSetSlots(t) == IF (oldToNewTask = "running") <=> (t # Main) THEN rsetTodo ELSE {}
WorkSlots(t) == IF t = Main THEN work \cup mainWork ELSE work

\* Mutant of RecordWeakReference: only an object that moves is recorded.
RecordWeakReferenceMoving(s) ==
    weakQueue' \in
        IF InYoungSpaceOrCSet(Owner(s)) THEN {weakQueue}
        ELSE IF ~IsHeapObject(value[s]) THEN {weakQueue, weakQueue \cup {s}}
        ELSE IF InYoungSpaceOrCSet(value[s].object) THEN {weakQueue \cup {s}} ELSE {weakQueue}

\* RecordWeakReference(t, ref) reads the slot again.  If the program has
\* replaced the weak value by one that is no object, the region it finds is
\* arbitrary.
RecordWeakReference(s) ==
    weakQueue' \in
        IF InYoungSpaceOrCSet(Owner(s)) THEN {weakQueue}
        ELSE IF ~IsHeapObject(value[s]) THEN {weakQueue, weakQueue \cup {s}}
        ELSE IF InYoungSpaceOrCSet(value[s].object) THEN {weakQueue} ELSE {weakQueue \cup {s}}

\* What the visitor of ProcessMarkStack, or HandleOldToNewRSet, does with the
\* value v that it has read from slot s.
MarkValue(s, v) ==
    /\ IF IsWeak(v) THEN RecordWeakReference(s) ELSE UNCHANGED weakQueue
    /\ RecordCrossRegion(s, v)
    /\ UNCHANGED <<heapVars, kindVars, taskVars, markStatus, mpc>>

Stopped == mpc \in {"help", "mark"}

\* A worker reads a slot while the program runs ...
ReadSlot(w, s) ==
    /\ ~Stopped /\ MayMark(w)
    /\ \/ s \in work /\ work' = work \ {s} /\ UNCHANGED rsetTodo
       \/ s \in RSetSlots(w) /\ rsetTodo' = rsetTodo \ {s} /\ UNCHANGED work
    /\ reading' = [reading EXCEPT ![w] = [slot |-> s, value |-> value[s]]]
    /\ UNCHANGED <<heapVars, recordVars, marked, mainWork, kindVars, taskVars, markStatus, mpc>>

\* ... and marks or records what it has read.
MarkSlot(w) ==
    /\ reading[w] # Idle
    /\ Push(w, NewlyMarked(reading[w].value), {})
    /\ MarkValue(reading[w].slot, reading[w].value)
    /\ reading' = [reading EXCEPT ![w] = Idle]
    /\ UNCHANGED rsetTodo

\* Both at once, by any thread, while the program is stopped.
VisitSlot(t, s) ==
    /\ Stopped /\ MayMark(t)
    /\ \/ /\ s \in WorkSlots(t)
          /\ Push(t, NewlyMarked(value[s]), {s})
          /\ UNCHANGED rsetTodo
       \/ /\ s \in RSetSlots(t)
          /\ Push(t, NewlyMarked(value[s]), {})
          /\ rsetTodo' = rsetTodo \ {s}
    /\ MarkValue(s, value[s])
    /\ UNCHANGED reading

-----------------------------------------------------------------------------
(* The tasks of a concurrent marking *)

\* The bits of the regions' sets are visited in turn.  One that the barrier
\* inserts meanwhile may be visited too, but then its value is marked already.
StartOldToNewTask ==
    /\ oldToNewTask = "posted"
    /\ oldToNewTask' = "running"
    /\ rsetTodo' = {s \in oldToNew : Owner(s) \notin SnapshotObjects}
    /\ UNCHANGED <<heapVars, recordVars, markVars, kindVars, markerTask, reading, markStatus, mpc>>

WorkersIdle == \A w \in Workers : reading[w] = Idle

FinishOldToNewTask ==
    /\ oldToNewTask = "running"
    /\ rsetTodo = {} /\ WorkersIdle
    /\ oldToNewTask' = "done"
    /\ UNCHANGED <<heapVars, recordVars, markVars, kindVars, markerTask, rsetTodo, reading,
                   markStatus, mpc>>

\* Heap::WaitRunningTaskFinished
NoRunningTask == oldToNewTask \notin {"posted", "running"} /\ WorkersIdle

\* MarkerTask::Run: ProcessMarkStack finds the global stack empty ...
MarkerTaskStackDone ==
    /\ markerTask = "process"
    /\ work = {}
    /\ markerTask' = "wait"
    /\ UNCHANGED <<heapVars, recordVars, markVars, kindVars, oldToNewTask, rsetTodo, reading,
                   markStatus, mpc>>

\* ... the other tasks end, and it reports.  The barrier may have handed on
\* another node by then.
FinishMarking ==
    /\ markerTask = "wait" /\ NoRunningTask
    /\ markerTask' = "finished"
    /\ markStatus' = "MARK_FINISHED"
    /\ UNCHANGED <<heapVars, recordVars, markVars, kindVars, oldToNewTask, rsetTodo, reading, mpc>>

-----------------------------------------------------------------------------
(* The JS thread: concurrent markings and collections *)

\* OldSpace::SelectCSet, by a full marking: any regions of the old space.
SelectCSet(type) ==
    cset' \in IF type = "MARK_FULL"
              THEN SUBSET {o \in Objects \ SnapshotObjects : space[o] = "old"} ELSE {{}}

\* Heap::TryTriggerConcurrentMarking, ConcurrentMarker::InitializeMarking
TryTriggerConcurrentMarking(type) ==
    /\ mpc = "run" /\ markStatus = "READY_TO_MARK"
    /\ markStatus' = "MARKING"
    /\ markType' = type
    /\ SelectCSet(type)
    /\ MarkRoots(type)
    /\ mpc' = "postMarker"
    /\ UNCHANGED <<heapVars, recordVars, parallelGC, stores, taskVars, rsetTodo, reading>>

\* ConcurrentMarker::Mark, after InitializeMarking
PostMarkerTask ==
    /\ mpc = "postMarker"
    /\ markerTask' = "process"
    /\ mpc' = IF ~IsFullMark /\ parallelGC THEN "postOldToNew" ELSE "run"
    /\ UNCHANGED <<heapVars, recordVars, markVars, kindVars, oldToNewTask, rsetTodo, reading,
                   markStatus>>

PostOldToNewTask ==
    /\ mpc = "postOldToNew"
    /\ oldToNewTask' = "posted"
    /\ mpc' = "run"
    /\ UNCHANGED <<heapVars, recordVars, markVars, kindVars, markerTask, rsetTodo, reading,
                   markStatus>>

\* PartialGC without a concurrent marking: Initialize, and Mark up to the
\* processing.  A young collection visits all remembered sets itself.
MarkFromScratch(type) ==
    /\ mpc = "run" /\ markStatus = "READY_TO_MARK"
    /\ markType' = type
    /\ SelectCSet(type)
    /\ MarkRoots(type)
    /\ rsetTodo' = IF type = "MARK_FULL" THEN {} ELSE oldToNew
    /\ mpc' = "mark"
    /\ UNCHANGED <<heapVars, recordVars, parallelGC, stores, taskVars, reading, markStatus>>

\* PartialGC finds a marking that is still on (CheckOngoingConcurrentMarking):
\* it helps with ProcessMarkStack and waits for the marker's report.
HelpMarking ==
    /\ mpc = "run" /\ markStatus = "MARKING"
    /\ mpc' = "help"
    /\ UNCHANGED <<heapVars, recordVars, markVars, kindVars, taskVars, rsetTodo, reading,
                   markStatus>>

MainStackDone == work = {} /\ mainWork = {}

\* Mutant of ReMark: the roots are not visited again.
ReMarkWithoutRoots ==
    /\ markStatus = "MARK_FINISHED"
    /\ mpc = "run" \/ (mpc = "help" /\ MainStackDone)
    /\ rsetTodo' = IF ~IsFullMark /\ ~parallelGC THEN oldToNew ELSE rsetTodo
    /\ mpc' = "mark"
    /\ UNCHANGED <<heapVars, recordVars, markVars, kindVars, taskVars, reading, markStatus>>

\* ConcurrentMarker::ReMark, up to the processing.  A parallel young marking
\* leaves the remembered sets to the task that Mark posted.
ReMark ==
    /\ markStatus = "MARK_FINISHED"
    /\ mpc = "run" \/ (mpc = "help" /\ MainStackDone)
    /\ MarkRoots(markType)
    /\ rsetTodo' = IF ~IsFullMark /\ ~parallelGC THEN oldToNew ELSE rsetTodo
    /\ mpc' = "mark"
    /\ UNCHANGED <<heapVars, recordVars, kindVars, taskVars, reading, markStatus>>

\* The JS thread and all tasks have nothing left to visit (MarkSchedule says
\* why); PartialGC goes on to Sweep and Evacuate.
FinishMark ==
    /\ mpc = "mark"
    /\ MainStackDone /\ rsetTodo = {} /\ NoRunningTask
    /\ mpc' = "evacuate"
    /\ UNCHANGED <<heapVars, recordVars, markVars, kindVars, taskVars, rsetTodo, reading,
                   markStatus>>

\* Where this module ends: objects move and are freed.
Evacuated == mpc = "evacuate" /\ UNCHANGED vars

-----------------------------------------------------------------------------
\* A snapshot may have been loaded: objects that refer to each other.
SnapshotValues == {NoValue} \cup [object : SnapshotObjects, weak : {FALSE}]

Init ==
    /\ space = [o \in Objects |-> IF o \in SnapshotObjects THEN "old" ELSE "free"]
    /\ cset = {}
    /\ \E loaded \in [SlotsOf(SnapshotObjects) -> SnapshotValues] :
           value = [s \in Slots |-> IF s \in DOMAIN loaded THEN loaded[s] ELSE NoValue]
    /\ locals = SnapshotObjects
    /\ oldToNew = {} /\ crossRegion = {} /\ weakQueue = {}
    /\ marked = {} /\ work = {} /\ mainWork = {} /\ rsetTodo = {}
    /\ reading = [w \in Workers |-> Idle]
    /\ markStatus = "READY_TO_MARK"
    /\ markType = "MARK_YOUNG"
    /\ parallelGC \in BOOLEAN
    /\ markerTask = "none" /\ oldToNewTask = "none"
    /\ mpc = "run"
    /\ stores = 0

Program ==
    \/ \E s \in Slots : Load(s)
    \/ \E o \in Objects : Drop(o)
    \/ \E o \in Objects, where \in {"young", "old"} : Allocate(o, where)
    \/ \E s \in Slots, v \in Values : (IsHeapObject(v) \/ v = NoValue) /\ Store(s, v)

Mark(t) ==
    \/ \E s \in Slots : VisitSlot(t, s)
    \/ t \in Workers /\ (MarkSlot(t) \/ \E s \in Slots : ReadSlot(t, s))

TaskStep == StartOldToNewTask \/ FinishOldToNewTask \/ MarkerTaskStackDone \/ FinishMarking

Collection ==
    \/ \E type \in MarkTypes : TryTriggerConcurrentMarking(type)
    \/ PostMarkerTask \/ PostOldToNewTask
    \/ \E type \in MarkTypeNames : MarkFromScratch(type)
    \/ HelpMarking \/ ReMark \/ FinishMark \/ Evacuated

Next ==
    \/ Program
    \/ \E t \in Threads : Mark(t)
    \/ TaskStep
    \/ Collection

Spec == Init /\ [][Next]_vars

-----------------------------------------------------------------------------
\* The type of the state.
TypeOK ==
    /\ space \in [Objects -> {"free", "young", "old"}]
    /\ cset \subseteq Objects
    /\ value \in [Slots -> Values]
    /\ locals \subseteq Objects
    /\ oldToNew \subseteq Slots /\ crossRegion \subseteq Slots /\ weakQueue \subseteq Slots
    /\ marked \subseteq Objects
    /\ work \subseteq Slots /\ mainWork \subseteq Slots /\ rsetTodo \subseteq Slots
    /\ reading \in [Workers -> [slot : Slots, value : Values] \cup {Idle}]
    /\ markStatus \in {"READY_TO_MARK", "MARKING", "MARK_FINISHED"}
    /\ markType \in MarkTypeNames
    /\ parallelGC \in BOOLEAN
    /\ markerTask \in {"none", "process", "wait", "finished"}
    /\ oldToNewTask \in {"none", "posted", "running", "done"}
    /\ mpc \in {"run", "postMarker", "postOldToNew", "help", "mark", "evacuate"}
    /\ stores \in 0 .. MaxStores

-----------------------------------------------------------------------------
(* Safety *)

\* The objects that the program can still reach: those in every set that has
\* the roots and is closed under strong references.
Closed(S) ==
    /\ locals \subseteq S
    /\ \A s \in Slots : Owner(s) \in S /\ IsStrong(value[s]) => value[s].object \in S
Reachable == {o \in Objects : \A S \in SUBSET Objects : Closed(S) => o \in S}

\* Used a concurrent young marking with parallelGC_ although the snapshot
\* space has remembered slots: ReMark visits them only without parallelGC_.
SnapshotSkipped ==
    /\ markStatus = "MARK_FINISHED" /\ ~IsFullMark /\ parallelGC
    /\ \E s \in oldToNew : Owner(s) \in SnapshotObjects

\* When objects begin to move and to be freed, every object that the program
\* can reach is marked, whatever it loaded, stored, dropped and allocated while
\* the markers were at work.
ReachableIsMarked ==
    mpc = "evacuate" /\ ~SnapshotSkipped =>
        \A o \in Reachable : IsFullMark \/ InYoungSpace(o) => o \in marked

\* The slots that the evacuator will visit to update them are all that need
\* it: a slot, weak or not, of an object that stays where it is and that holds
\* an object that moves is in one of the remembered sets.
Stays(o) == ~InYoungSpaceOrCSet(o) /\ (IsFullMark => o \in marked)
MovedSlotsAreRecorded ==
    mpc = "evacuate" =>
        \A s \in Slots : Stays(Owner(s)) /\ IsHeapObject(value[s])
                         /\ InYoungSpaceOrCSet(value[s].object) => s \in oldToNew \cup crossRegion

\* A weak slot whose object is about to be freed although it stays in its
\* region is found through the weak reference queue only.
DeadWeakSlots ==
    {s \in Slots : /\ Stays(Owner(s)) /\ IsWeak(value[s]) /\ IsFullMark
                   /\ ~InYoungSpaceOrCSet(value[s].object) /\ value[s].object \notin marked}

\* A collection that marks by itself finds all of them.
WeakSlotsAreRecorded ==
    mpc = "evacuate" /\ markStatus = "READY_TO_MARK" => DeadWeakSlots \subseteq weakQueue

-----------------------------------------------------------------------------
(* What a test says and the code does not do *)

\* WeakRefOldGCTest: after an OLD_GC a weak slot of a dead object reads
\* undefined.  Then it must be in the queue also after a concurrent marking.
DeadWeakSlotsAreCleared == mpc = "evacuate" => DeadWeakSlots \subseteq weakQueue
=============================================================================
