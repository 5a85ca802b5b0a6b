-------------------------- MODULE ConcurrentMarkProofs --------------------------
(***************************************************************************)
(* Proofs about ConcurrentMark for any objects, fields and workers.  The   *)
(* inductive invariant Inv is the tri-colour invariant of a marking whose  *)
(* barrier marks what is stored, together with what the remembered sets    *)
(* hold and who has still to visit them.                                   *)
(***************************************************************************)
EXTENDS ConcurrentMark, TaskPool, FiniteSetTheorems, TLAPS

Covered(v) == IsStrong(v) /\ Markable(v.object) => v.object \in marked

\* The slot's value is in the remembered set that it belongs to.
CrossRecorded(s) ==
    IsFullMark /\ IsHeapObject(value[s]) /\ value[s].object \in cset
    /\ ~InYoungSpaceOrCSet(Owner(s)) => s \in crossRegion

\* A worker has read what the slot still holds.
BeingRead(s) == \E w \in Workers : reading[w] = [slot |-> s, value |-> value[s]]

RefersToYoung(s) ==
    ~InYoungSpace(Owner(s)) /\ IsHeapObject(value[s]) /\ InYoungSpace(value[s].object)

\* The heap: references are to allocated objects, and every slot outside the
\* young space that refers into it is remembered.
HeapInv ==
    /\ \A o \in locals : space[o] # "free"
    /\ \A s \in Slots : IsHeapObject(value[s]) => space[value[s].object] # "free"
    /\ \A s \in Slots : space[Owner(s)] = "free" => value[s] = NoValue
    /\ \A s \in Slots : RefersToYoung(s) => s \in oldToNew

\* The tri-colour invariant: a marked object has no slot that still needs a
\* visit, except those that wait for one.
MarkInv ==
    \A s \in Slots : Owner(s) \in marked =>
        \/ s \in work \cup mainWork
        \/ BeingRead(s)
        \/ Covered(value[s]) /\ CrossRecorded(s)

Begun == mpc # "run" \/ markStatus # "READY_TO_MARK"

\* The visit of the remembered slot s is still to come, or comes to nobody.
RSetToCome(s) ==
    /\ markStatus # "READY_TO_MARK"
    /\ IF parallelGC
       THEN \/ Owner(s) \in SnapshotObjects
            \/ mpc \in {"postMarker", "postOldToNew"}
            \/ oldToNewTask = "posted"
       ELSE mpc \in {"postMarker", "run", "help"}

\* The remembered slots of a young marking.
RSetInv ==
    Begun /\ ~IsFullMark =>
        \A s \in oldToNew :
            s \in rsetTodo \/ BeingRead(s) \/ Covered(value[s]) \/ RSetToCome(s)

\* The roots have been marked, and nothing else has become one.
RootInv == mpc \in {"mark", "evacuate"} => \A o \in locals : Markable(o) => o \in marked

\* A collection that marks by itself misses no weak slot.
WeakInv ==
    markStatus = "READY_TO_MARK" =>
        \A s \in Slots :
            /\ Owner(s) \in marked /\ IsWeak(value[s])
            /\ ~InYoungSpaceOrCSet(Owner(s)) /\ ~InYoungSpaceOrCSet(value[s].object)
            => s \in work \cup mainWork \cup weakQueue

\* Which phases of the JS thread, the marker and its tasks go together.
PhaseInv ==
    /\ markStatus = "READY_TO_MARK" =>
           /\ markerTask = "none" /\ oldToNewTask = "none" /\ WorkersIdle
           /\ mpc \in {"run", "mark", "evacuate"}
    /\ ~Begun => marked = {} /\ work = {} /\ mainWork = {} /\ rsetTodo = {}
    /\ markerTask \in {"process", "wait"} => markStatus = "MARKING"
    /\ mpc = "postMarker" => markStatus = "MARKING" /\ markerTask = "none"
    /\ mpc = "postOldToNew" \/ oldToNewTask # "none" => parallelGC
    /\ mpc \in {"mark", "evacuate"} => markStatus # "MARKING"
    /\ mpc = "evacuate" => MainStackDone /\ rsetTodo = {} /\ NoRunningTask
    /\ cset # {} => IsFullMark

Inv == TypeOK /\ HeapInv /\ MarkInv /\ RSetInv /\ RootInv /\ WeakInv /\ PhaseInv

-----------------------------------------------------------------------------
\* A slot belongs to an object.
LEMMA SlotOwner == \A s \in Slots : Owner(s) \in Objects
BY DEF Slots, Owner

\* NoValue is a value, and a value that is an object refers to one of Objects.
LEMMA ValueTypes ==
    /\ NoValue \in Values /\ ~IsHeapObject(NoValue)
    /\ \A v \in Values : IsHeapObject(v) => v.object \in Objects
BY UndefinedAssumption DEF NoValue, Values, IsHeapObject

\* Marking a value marks objects only.
LEMMA NewlyMarkedType == ASSUME NEW v \in Values PROVE NewlyMarked(v) \subseteq Objects
BY ValueTypes DEF NewlyMarked, IsStrong

\* A worker that has read something has read a slot.
LEMMA ReadingType ==
    ASSUME TypeOK, NEW w \in Workers, reading[w] # Idle
    PROVE  reading[w].slot \in Slots /\ reading[w].value \in Values
BY DEF TypeOK

\* The initial state: nothing is allocated but the snapshot, and no marking on.
LEMMA InitInv == Init => Inv
<1> SUFFICES ASSUME Init
             PROVE  Inv
    OBVIOUS
<1> USE DEF Init
<1>1. PICK loaded \in [SlotsOf(SnapshotObjects) -> SnapshotValues] :
          value = [s \in Slots |-> IF s \in DOMAIN loaded THEN loaded[s] ELSE NoValue]
  OBVIOUS
<1>2. SnapshotValues \subseteq Values
  BY ValueTypes, ObjectsAssumption DEF SnapshotValues, Values
<1>3. \A s \in Slots : value[s] \in Values
  BY <1>1, <1>2, ValueTypes
<1>4. TypeOK
  <2>1. value \in [Slots -> Values]
    BY <1>1, <1>3
  <2> QED
    BY <2>1, ObjectsAssumption, MaxStoresAssumption DEF TypeOK, MarkTypeNames
<1>5. HeapInv
  <2>1. \A s \in Slots : IsHeapObject(value[s]) => value[s].object \in SnapshotObjects
    BY <1>1, ValueTypes DEF SnapshotValues
  <2>2. \A s \in Slots : space[Owner(s)] = "free" => value[s] = NoValue
    BY <1>1, SlotOwner, ObjectsAssumption DEF SlotsOf
  <2> QED
    BY <2>1, <2>2, ObjectsAssumption, SlotOwner DEF HeapInv, RefersToYoung, InYoungSpace
<1>6. MarkInv /\ RSetInv /\ RootInv /\ WeakInv
  BY DEF MarkInv, RSetInv, RootInv, WeakInv
<1>7. PhaseInv
  BY DEF PhaseInv, Begun, WorkersIdle
<1> QED
  BY <1>4, <1>5, <1>6, <1>7 DEF Inv

-----------------------------------------------------------------------------
\* Every step preserves the type of the state.
LEMMA TypeStep == TypeOK /\ [Next]_vars => TypeOK'
<1> SUFFICES ASSUME TypeOK, [Next]_vars
             PROVE  TypeOK'
    OBVIOUS
<1> USE DEF heapVars, recordVars, markVars, kindVars, taskVars
<1>0. \A objs : SlotsOf(objs) \subseteq Slots
  BY DEF SlotsOf
<1>1. ASSUME Program
      PROVE  TypeOK'
  <2>1. ASSUME NEW s \in Slots, Load(s) PROVE TypeOK'
    BY <2>1, ValueTypes DEF Load, TypeOK
  <2>2. ASSUME NEW o \in Objects, Drop(o) PROVE TypeOK'
    BY <2>2 DEF Drop, TypeOK
  <2>3. ASSUME NEW o \in Objects, NEW where \in {"young", "old"}, Allocate(o, where)
        PROVE  TypeOK'
    BY <2>3 DEF Allocate, TypeOK
  <2>4. ASSUME NEW s \in Slots, NEW v \in Values, Store(s, v) PROVE TypeOK'
    <3>1. oldToNew' \subseteq Slots /\ value' \in [Slots -> Values]
      BY <2>4 DEF Store, RecordOldToNew, TypeOK
    <3>2. /\ marked' \subseteq Objects /\ crossRegion' \subseteq Slots
          /\ work' \subseteq Slots /\ mainWork' \subseteq Slots
      BY <2>4, <1>0, NewlyMarkedType DEF Store, Push, RecordCrossRegion, TypeOK
    <3>3. stores' \in 0 .. MaxStores
      BY <2>4, MaxStoresAssumption DEF Store, TypeOK
    <3> QED
      BY <2>4, <3>1, <3>2, <3>3 DEF Store, TypeOK
  <2> QED
    BY <1>1, <2>1, <2>2, <2>3, <2>4 DEF Program
<1>2. ASSUME NEW t \in Threads, Mark(t)
      PROVE  TypeOK'
  <2>1. ASSUME NEW s \in Slots, NEW v \in Values, MarkValue(s, v)
        PROVE  weakQueue' \subseteq Slots /\ crossRegion' \subseteq Slots
    BY <2>1 DEF MarkValue, RecordWeakReference, RecordCrossRegion, TypeOK
  <2>2. ASSUME NEW v \in Values, NEW taken, Push(t, NewlyMarked(v), taken)
        PROVE  marked' \subseteq Objects /\ work' \subseteq Slots /\ mainWork' \subseteq Slots
    BY <2>2, <1>0, NewlyMarkedType DEF Push, TypeOK
  <2>3. ASSUME NEW s \in Slots, VisitSlot(t, s) PROVE TypeOK'
    <3>1. value[s] \in Values
      BY DEF TypeOK
    <3> QED
      BY <2>1, <2>2, <2>3, <3>1 DEF VisitSlot, MarkValue, TypeOK
  <2>4. ASSUME t \in Workers, MarkSlot(t) PROVE TypeOK'
    <3>1. reading[t].slot \in Slots /\ reading[t].value \in Values
      BY <2>4, ReadingType DEF MarkSlot
    <3>2. reading' \in [Workers -> [slot : Slots, value : Values] \cup {Idle}]
      BY <2>4 DEF MarkSlot, TypeOK
    <3> QED
      BY <2>1, <2>2, <2>4, <3>1, <3>2 DEF MarkSlot, MarkValue, TypeOK
  <2>5. ASSUME t \in Workers, NEW s \in Slots, ReadSlot(t, s) PROVE TypeOK'
    <3>1. reading' \in [Workers -> [slot : Slots, value : Values] \cup {Idle}]
      BY <2>5 DEF ReadSlot, TypeOK
    <3> QED
      BY <2>5, <3>1 DEF ReadSlot, TypeOK
  <2> QED
    BY <1>2, <2>3, <2>4, <2>5 DEF Mark
<1>3. ASSUME TaskStep
      PROVE  TypeOK'
  BY <1>3 DEF TaskStep, StartOldToNewTask, FinishOldToNewTask, MarkerTaskStackDone,
              FinishMarking, TypeOK
<1>4. ASSUME Collection
      PROVE  TypeOK'
  <2>1. ASSUME NEW type, MarkRoots(type)
        PROVE  marked' \subseteq Objects /\ work' \subseteq Slots /\ mainWork' \subseteq Slots
    BY <2>1, <1>0 DEF MarkRoots, TypeOK
  <2>2. ASSUME NEW type \in MarkTypeNames, SelectCSet(type) PROVE cset' \subseteq Objects
    BY <2>2 DEF SelectCSet, TypeOK
  <2>3. ASSUME NEW type \in MarkTypes, TryTriggerConcurrentMarking(type) PROVE TypeOK'
    BY <2>1, <2>2, <2>3, MarkTypesAssumption DEF TryTriggerConcurrentMarking, TypeOK
  <2>4. ASSUME NEW type \in MarkTypeNames, MarkFromScratch(type) PROVE TypeOK'
    BY <2>1, <2>2, <2>4 DEF MarkFromScratch, TypeOK
  <2>5. CASE ReMark
    BY <2>1, <2>5 DEF ReMark, TypeOK
  <2>6. CASE PostMarkerTask \/ PostOldToNewTask \/ HelpMarking \/ FinishMark \/ Evacuated
    BY <2>6 DEF PostMarkerTask, PostOldToNewTask, HelpMarking, FinishMark, Evacuated, vars, TypeOK
  <2> QED
    BY <1>4, <2>3, <2>4, <2>5, <2>6 DEF Collection
<1>5. CASE UNCHANGED vars
  BY <1>5 DEF vars, TypeOK
<1> QED
  BY <1>1, <1>2, <1>3, <1>4, <1>5 DEF Next

-----------------------------------------------------------------------------
\* Only the program changes the heap.
LEMMA HeapUnchanged ==
    ASSUME [Next]_vars, ~Program
    PROVE  UNCHANGED heapVars
<1>1. CASE \E t \in Threads : Mark(t)
  BY <1>1 DEF Mark, VisitSlot, MarkSlot, ReadSlot, MarkValue
<1>2. CASE TaskStep
  BY <1>2 DEF TaskStep, StartOldToNewTask, FinishOldToNewTask, MarkerTaskStackDone, FinishMarking
<1>3. CASE Collection
  BY <1>3 DEF Collection, TryTriggerConcurrentMarking, PostMarkerTask, PostOldToNewTask,
              MarkFromScratch, HelpMarking, ReMark, FinishMark, Evacuated, vars
<1>4. CASE UNCHANGED vars
  BY <1>4 DEF vars
<1> QED
  BY <1>1, <1>2, <1>3, <1>4 DEF Next

\* The write barrier keeps the remembered sets complete.
LEMMA HeapStep == TypeOK /\ HeapInv /\ [Next]_vars => HeapInv'
<1> SUFFICES ASSUME TypeOK, HeapInv, [Next]_vars
             PROVE  HeapInv'
    OBVIOUS
<1> USE SlotOwner, ValueTypes
<1>1. ASSUME NEW s \in Slots, Load(s) PROVE HeapInv'
  BY <1>1 DEF Load, HeapInv, RefersToYoung, InYoungSpace, TypeOK
<1>2. ASSUME NEW o \in Objects, Drop(o) PROVE HeapInv'
  BY <1>2 DEF Drop, HeapInv, RefersToYoung, InYoungSpace, TypeOK
<1>3. ASSUME NEW o \in Objects, NEW where \in {"young", "old"}, Allocate(o, where)
      PROVE  HeapInv'
  <2>1. space' = [space EXCEPT ![o] = where] /\ space[o] = "free"
        /\ locals' = locals \cup {o} /\ value' = value /\ oldToNew' = oldToNew
    BY <1>3 DEF Allocate
  <2>2. \A p \in Objects : p # o => space'[p] = space[p]
    BY <2>1 DEF TypeOK
  <2>3. space'[o] # "free"
    BY <2>1 DEF TypeOK
  <2>4. \A s \in Slots : IsHeapObject(value[s]) => value[s].object \in Objects \ {o}
    BY <2>1 DEF HeapInv, TypeOK
  <2>5. \A s \in Slots : RefersToYoung(s)' => RefersToYoung(s)
    <3> SUFFICES ASSUME NEW s \in Slots, RefersToYoung(s)'
                 PROVE  RefersToYoung(s)
        OBVIOUS
    <3>1. IsHeapObject(value[s]) /\ value[s] # NoValue
      BY <2>1 DEF RefersToYoung
    <3>2. Owner(s) # o /\ value[s].object # o
      BY <2>1, <2>4, <3>1 DEF HeapInv
    <3> QED
      BY <2>1, <2>2, <2>4, <3>1, <3>2 DEF RefersToYoung, InYoungSpace
  <2>6. \A p \in locals' : space'[p] # "free"
    BY <2>1, <2>2, <2>3 DEF HeapInv, TypeOK
  <2>7. \A s \in Slots : IsHeapObject(value'[s]) => space'[value'[s].object] # "free"
    BY <2>1, <2>2, <2>4 DEF HeapInv
  <2>8. \A s \in Slots : space'[Owner(s)] = "free" => value'[s] = NoValue
    BY <2>1, <2>2, <2>3 DEF HeapInv
  <2> QED
    BY <2>1, <2>5, <2>6, <2>7, <2>8 DEF HeapInv
<1>4. ASSUME NEW s \in Slots, NEW v \in Values, IsHeapObject(v) \/ v = NoValue, Store(s, v)
      PROVE  HeapInv'
  <2>1. /\ value' = [value EXCEPT ![s] = v] /\ space' = space /\ locals' = locals
        /\ Owner(s) \in locals /\ (v = NoValue \/ v.object \in locals)
        /\ RecordOldToNew(s, v)
    BY <1>4 DEF Store
  <2>2. value'[s] = v /\ \A p \in Slots : p # s => value'[p] = value[p]
    BY <2>1 DEF TypeOK
  <2>3. \A p \in Slots : RefersToYoung(p)' => p \in oldToNew'
    <3> SUFFICES ASSUME NEW p \in Slots, RefersToYoung(p)'
                 PROVE  p \in oldToNew'
        OBVIOUS
    <3>1. CASE p = s
      BY <2>1, <2>2, <3>1 DEF RefersToYoung, InYoungSpace, RecordOldToNew
    <3>2. CASE p # s
      BY <2>1, <2>2, <3>2 DEF RefersToYoung, InYoungSpace, RecordOldToNew, HeapInv
    <3> QED
      BY <3>1, <3>2
  <2> QED
    BY <2>1, <2>2, <2>3 DEF HeapInv
<1>5. CASE ~Program
  <2>1. UNCHANGED heapVars
    BY <1>5, HeapUnchanged
  <2> QED
    BY <2>1 DEF heapVars, HeapInv, RefersToYoung, InYoungSpace
<1> QED
  BY <1>1, <1>2, <1>3, <1>4, <1>5 DEF Program

-----------------------------------------------------------------------------
\* The phases of the JS thread, the marker and its tasks stay in step: no
\* task outlives the end of the marking that it belongs to.
LEMMA PhaseStep == TypeOK /\ PhaseInv /\ [Next]_vars => PhaseInv'
<1> SUFFICES ASSUME TypeOK, PhaseInv, [Next]_vars
             PROVE  PhaseInv'
    OBVIOUS
<1> USE DEF PhaseInv, Begun, MainStackDone, NoRunningTask, WorkersIdle, IsFullMark,
            heapVars, recordVars, markVars, kindVars, taskVars
<1>1. CASE Program
  <2>1. ASSUME NEW s \in Slots, Load(s) PROVE PhaseInv'
    BY <2>1 DEF Load
  <2>2. ASSUME NEW o \in Objects, Drop(o) PROVE PhaseInv'
    BY <2>2 DEF Drop
  <2>3. ASSUME NEW o \in Objects, NEW where \in {"young", "old"}, Allocate(o, where)
        PROVE  PhaseInv'
    BY <2>3 DEF Allocate
  <2>4. ASSUME NEW s \in Slots, NEW v \in Values, Store(s, v) PROVE PhaseInv'
    BY <2>4 DEF Store
  <2> QED
    BY <1>1, <2>1, <2>2, <2>3, <2>4 DEF Program
<1>2. ASSUME NEW t \in Threads, Mark(t)
      PROVE  PhaseInv'
  <2>1. ASSUME NEW s \in Slots, VisitSlot(t, s) PROVE PhaseInv'
    BY <2>1 DEF VisitSlot, Stopped, MarkValue
  <2>2. ASSUME t \in Workers, MarkSlot(t) PROVE PhaseInv'
    <3>1. ~WorkersIdle
      BY <2>2 DEF MarkSlot
    <3>2. Begun
      BY <3>1
    <3> QED
      BY <2>2, <3>1, <3>2 DEF MarkSlot, MarkValue
  <2>3. ASSUME t \in Workers, NEW s \in Slots, ReadSlot(t, s) PROVE PhaseInv'
    <3>1. Begun /\ mpc # "mark" /\ mpc # "evacuate" /\ markStatus # "READY_TO_MARK"
      BY <2>3 DEF ReadSlot, RSetSlots, Stopped
    <3> QED
      BY <2>3, <3>1 DEF ReadSlot
  <2> QED
    BY <1>2, <2>1, <2>2, <2>3 DEF Mark
<1>3. CASE TaskStep
  <2>1. CASE StartOldToNewTask \/ FinishOldToNewTask
    BY <2>1 DEF StartOldToNewTask, FinishOldToNewTask
  <2>2. CASE MarkerTaskStackDone
    BY <2>2 DEF MarkerTaskStackDone
  <2>3. CASE FinishMarking
    BY <2>3 DEF FinishMarking
  <2> QED
    BY <1>3, <2>1, <2>2, <2>3 DEF TaskStep
<1>4. CASE Collection
  <2>1. ASSUME NEW type \in MarkTypes, TryTriggerConcurrentMarking(type) PROVE PhaseInv'
    BY <2>1 DEF TryTriggerConcurrentMarking, SelectCSet
  <2>2. ASSUME NEW type \in MarkTypeNames, MarkFromScratch(type) PROVE PhaseInv'
    BY <2>2 DEF MarkFromScratch, SelectCSet
  <2>3. CASE PostMarkerTask
    BY <2>3 DEF PostMarkerTask
  <2>4. CASE PostOldToNewTask
    BY <2>4 DEF PostOldToNewTask
  <2>5. CASE HelpMarking \/ FinishMark \/ Evacuated
    BY <2>5 DEF HelpMarking, FinishMark, Evacuated, vars
  <2>6. CASE ReMark
    BY <2>6 DEF ReMark
  <2> QED
    BY <1>4, <2>1, <2>2, <2>3, <2>4, <2>5, <2>6 DEF Collection
<1>5. CASE UNCHANGED vars
  BY <1>5 DEF vars
<1> QED
  BY <1>1, <1>2, <1>3, <1>4, <1>5 DEF Next

-----------------------------------------------------------------------------
\* WorkManager::Push loses no slot: the node that is handed on, the object that
\* is new and all that was there before are still to be visited.
LEMMA PushKeeps ==
    ASSUME NEW t, NEW v \in Values, NEW taken, Push(t, NewlyMarked(v), taken)
    PROVE  /\ marked \subseteq marked'
           /\ (work \cup mainWork) \ taken \subseteq work' \cup mainWork'
           /\ SlotsOf(marked' \ marked) \subseteq work' \cup mainWork'
           /\ UNCHANGED <<space, markType>> => Covered(v)'
<1>1. marked' = marked \cup NewlyMarked(v)
  BY DEF Push
<1>2. SlotsOf(marked' \ marked) \subseteq SlotsOf(NewlyMarked(v))
  BY <1>1 DEF SlotsOf
<1>3. SlotsOf(NewlyMarked(v)) \subseteq work' \cup mainWork'
  BY DEF Push
<1>4. (work \cup mainWork) \ taken \subseteq work' \cup mainWork'
  BY DEF Push
<1>5. UNCHANGED <<space, markType>> => Covered(v)'
  BY <1>1 DEF NewlyMarked, Covered, Markable, IsFullMark, InYoungSpace
<1> QED
  BY <1>1, <1>2, <1>3, <1>4, <1>5

Unvisited(s) == s \in work \cup mainWork \/ BeingRead(s)
Visited(s) == Covered(value[s]) /\ CrossRecorded(s)

\* A step that adds marks, leaves what was pending pending or visited, and
\* visits the slots that it changes keeps the tri-colour invariant.
LEMMA MarkKeeps ==
    ASSUME MarkInv, UNCHANGED <<space, cset, markType>>,
           marked \subseteq marked', crossRegion \subseteq crossRegion',
           SlotsOf(marked' \ marked) \subseteq work' \cup mainWork',
           \A s \in Slots : \/ Visited(s)'
                            \/ value'[s] = value[s] /\ (Unvisited(s) => Unvisited(s)')
    PROVE  MarkInv'
<1> SUFFICES ASSUME NEW s \in Slots, Owner(s) \in marked', ~Visited(s)'
             PROVE  Unvisited(s)'
    BY DEF MarkInv, Unvisited, Visited
<1>1. CASE Owner(s) \notin marked
  BY <1>1 DEF SlotsOf, Unvisited
<1>2. CASE Owner(s) \in marked
  <2>1. Visited(s) => Visited(s)'
    BY DEF Visited, Covered, CrossRecorded, Markable, IsFullMark, InYoungSpace,
           InYoungSpaceOrCSet
  <2> QED
    BY <1>2, <2>1 DEF MarkInv, Unvisited, Visited
<1> QED
  BY <1>1, <1>2

\* Recording the reference of slot s to v in the cross-region set of its region
\* forgets nothing, and remembers s if v moves and the slot's object does not.
LEMMA CrossKeeps ==
    ASSUME NEW s, NEW v, RecordCrossRegion(s, v)
    PROVE  /\ crossRegion \subseteq crossRegion'
           /\ value'[s] = v /\ UNCHANGED <<space, cset, markType>> => CrossRecorded(s)'
BY DEF RecordCrossRegion, CrossRecorded, IsFullMark, InYoungSpace, InYoungSpaceOrCSet

\* A marker that visits a slot keeps the tri-colour invariant, also if the
\* program has changed the slot since the marker read it.
LEMMA MarkStep ==
    ASSUME TypeOK, MarkInv, NEW t \in Threads, Mark(t)
    PROVE  MarkInv'
<1> USE DEF heapVars, recordVars, markVars, kindVars, taskVars
<1>1. ASSUME NEW s \in Slots, VisitSlot(t, s) PROVE MarkInv'
  <2>1. PICK taken : Push(t, NewlyMarked(value[s]), taken) /\ taken \subseteq {s}
    BY <1>1 DEF VisitSlot
  <2>2. UNCHANGED <<space, value, cset, markType, reading>> /\ RecordCrossRegion(s, value[s])
    BY <1>1 DEF VisitSlot, MarkValue
  <2>3. value[s] \in Values
    BY DEF TypeOK
  <2>4. Visited(s)'
    BY <2>1, <2>2, <2>3, PushKeeps, CrossKeeps DEF Visited
  <2>5. \A p \in Slots : Visited(p)' \/ (Unvisited(p) => Unvisited(p)')
    <3> SUFFICES ASSUME NEW p \in Slots, Unvisited(p), p # s
                 PROVE  Unvisited(p)'
        BY <2>4
    <3>1. p \in work \cup mainWork => p \in work' \cup mainWork'
      BY <2>1, <2>3, PushKeeps
    <3>2. BeingRead(p) => BeingRead(p)'
      BY <2>2 DEF BeingRead
    <3> QED
      BY <3>1, <3>2 DEF Unvisited
  <2> QED
    BY <2>1, <2>2, <2>3, <2>5, PushKeeps, CrossKeeps, MarkKeeps
<1>2. ASSUME t \in Workers, MarkSlot(t) PROVE MarkInv'
  <2>1. PICK s \in Slots, v \in Values : s = reading[t].slot /\ v = reading[t].value
    BY <1>2, ReadingType DEF MarkSlot
  <2>2. Push(t, NewlyMarked(v), {}) /\ RecordCrossRegion(s, v)
        /\ UNCHANGED <<space, value, cset, markType>> /\ reading' = [reading EXCEPT ![t] = Idle]
    BY <1>2, <2>1 DEF MarkSlot, MarkValue
  <2>3. value[s] = v => Visited(s)'
    BY <2>1, <2>2, PushKeeps, CrossKeeps DEF Visited
  <2>4. \A p \in Slots : Visited(p)' \/ (Unvisited(p) => Unvisited(p)')
    <3> SUFFICES ASSUME NEW p \in Slots, Unvisited(p)
                 PROVE  Unvisited(p)' \/ Visited(p)'
        OBVIOUS
    <3>1. CASE p \in work \cup mainWork
      <4>1. (work \cup mainWork) \ {} \subseteq work' \cup mainWork'
        BY <2>1, <2>2, PushKeeps
      <4> QED
        BY <3>1, <4>1 DEF Unvisited
    <3>2. CASE BeingRead(p)
      <4>1. PICK w \in Workers : reading[w] = [slot |-> p, value |-> value[p]]
        BY <3>2 DEF BeingRead
      <4>2. CASE w = t
        <5>1. s = p /\ v = value[p]
          BY <2>1, <4>1, <4>2
        <5> QED
          BY <2>3, <5>1
      <4>3. CASE w # t
        BY <1>2, <2>2, <4>1, <4>3 DEF Unvisited, BeingRead, TypeOK
      <4> QED
        BY <4>2, <4>3
    <3> QED
      BY <3>1, <3>2 DEF Unvisited
  <2> QED
    BY <2>1, <2>2, <2>4, PushKeeps, CrossKeeps, MarkKeeps
<1>3. ASSUME t \in Workers, NEW s \in Slots, ReadSlot(t, s) PROVE MarkInv'
  <2>1. /\ reading[t] = Idle /\ reading' = [reading EXCEPT ![t] = [slot |-> s, value |-> value[s]]]
        /\ UNCHANGED <<space, value, cset, markType, crossRegion, marked, mainWork>>
        /\ work \ {s} \subseteq work'
    BY <1>3, MainAssumption DEF ReadSlot, MayMark, Main
  <2>2. BeingRead(s)'
    BY <1>3, <2>1 DEF BeingRead, TypeOK
  <2>3. \A p \in Slots : Unvisited(p) => Unvisited(p)'
    <3> SUFFICES ASSUME NEW p \in Slots, Unvisited(p)
                 PROVE  Unvisited(p)'
        OBVIOUS
    <3>1. CASE p \in work \cup mainWork
      BY <2>1, <2>2, <3>1 DEF Unvisited
    <3>2. CASE BeingRead(p)
      <4>1. PICK w \in Workers : reading[w] = [slot |-> p, value |-> value[p]]
        BY <3>2 DEF BeingRead
      <4>2. w # t
        BY <2>1, <4>1, UndefinedAssumption DEF Idle
      <4> QED
        BY <2>1, <4>1, <4>2 DEF Unvisited, BeingRead, TypeOK
    <3> QED
      BY <3>1, <3>2 DEF Unvisited
  <2>4. SlotsOf(marked' \ marked) = {}
    BY <2>1 DEF SlotsOf
  <2> QED
    BY <2>1, <2>3, <2>4, MarkKeeps
<1> QED
  BY <1>1, <1>2, <1>3 DEF Mark

-----------------------------------------------------------------------------
\* The write barrier keeps the tri-colour invariant: what is stored is marked
\* while marks are in use, and a new object is referred to by no slot.
LEMMA MarkProgram ==
    ASSUME TypeOK, HeapInv, MarkInv, PhaseInv, Program
    PROVE  MarkInv'
<1> USE DEF recordVars, markVars, kindVars, taskVars
<1>1. ASSUME NEW s \in Slots, Load(s) PROVE MarkInv'
  BY <1>1 DEF Load, MarkInv, BeingRead, Covered, CrossRecorded, Markable, IsFullMark,
              InYoungSpace, InYoungSpaceOrCSet
<1>2. ASSUME NEW o \in Objects, Drop(o) PROVE MarkInv'
  BY <1>2 DEF Drop, MarkInv, BeingRead, Covered, CrossRecorded, Markable, IsFullMark,
              InYoungSpace, InYoungSpaceOrCSet
<1>3. ASSUME NEW o \in Objects, NEW where \in {"young", "old"}, Allocate(o, where)
      PROVE  MarkInv'
  <2>1. /\ space' = [space EXCEPT ![o] = where] /\ space[o] = "free"
        /\ UNCHANGED <<value, marked, work, mainWork, reading, crossRegion, cset, markType>>
    BY <1>3 DEF Allocate
  <2>2. \A p \in Objects : p # o => space'[p] = space[p]
    BY <2>1 DEF TypeOK
  <2>3. \A s \in Slots : Visited(s) => Visited(s)'
    <3> SUFFICES ASSUME NEW s \in Slots, Visited(s)
                 PROVE  Visited(s)'
        OBVIOUS
    <3>1. value[s] \in Values /\ Owner(s) \in Objects
      BY SlotOwner DEF TypeOK
    <3>2. CASE ~IsHeapObject(value[s])
      BY <2>1, <3>2 DEF Visited, Covered, CrossRecorded, IsStrong
    <3>3. CASE IsHeapObject(value[s])
      <4>1. value[s].object \in Objects /\ value[s].object # o /\ Owner(s) # o
        BY <2>1, <3>1, <3>3, ValueTypes DEF HeapInv
      <4> QED
        BY <2>1, <2>2, <3>1, <4>1 DEF Visited, Covered, CrossRecorded, Markable, IsFullMark,
                                      InYoungSpace, InYoungSpaceOrCSet
    <3> QED
      BY <3>2, <3>3
  <2> QED
    BY <2>1, <2>3 DEF MarkInv, BeingRead, Visited
<1>4. ASSUME NEW s \in Slots, NEW v \in Values, Store(s, v) PROVE MarkInv'
  <2>1. /\ value' = [value EXCEPT ![s] = v]
        /\ UNCHANGED <<space, cset, markType, reading>>
    BY <1>4 DEF Store
  <2>2. value'[s] = v /\ \A p \in Slots : p # s => value'[p] = value[p]
    BY <2>1 DEF TypeOK
  <2>3. CASE markStatus = "READY_TO_MARK"
    <3>1. marked' = {}
      BY <1>4, <2>3 DEF Store, PhaseInv, Begun
    <3> QED
      BY <3>1 DEF MarkInv
  <2>4. CASE markStatus # "READY_TO_MARK"
    <3>1. Push(Main, NewlyMarked(v), {}) /\ RecordCrossRegion(s, v)
      BY <1>4, <2>4 DEF Store
    <3>2. Visited(s)'
      BY <2>1, <2>2, <3>1, PushKeeps, CrossKeeps DEF Visited
    <3>3. (work \cup mainWork) \ {} \subseteq work' \cup mainWork'
      BY <3>1, PushKeeps
    <3>4. \A p \in Slots : p # s => (Unvisited(p) => Unvisited(p)')
      BY <2>1, <2>2, <3>3 DEF Unvisited, BeingRead
    <3> QED
      BY <2>1, <2>2, <3>1, <3>2, <3>4, PushKeeps, CrossKeeps, MarkKeeps
  <2> QED
    BY <2>3, <2>4
<1> QED
  BY <1>1, <1>2, <1>3, <1>4 DEF Program

\* Marking the roots, at the beginning (nothing is marked then) or again.
LEMMA MarkCollection ==
    ASSUME TypeOK, MarkInv, PhaseInv, Collection
    PROVE  MarkInv'
<1> USE DEF heapVars, recordVars, markVars, kindVars, taskVars
<1>1. ASSUME NEW type, MarkRoots(type), marked = {}
      PROVE  MarkInv'
  <2>1. SlotsOf(marked') \subseteq work'
    BY <1>1 DEF MarkRoots, SlotsOf
  <2> QED
    BY <2>1 DEF MarkInv, SlotsOf
<1>2. CASE \E type \in MarkTypes : TryTriggerConcurrentMarking(type)
  BY <1>1, <1>2 DEF TryTriggerConcurrentMarking, PhaseInv, Begun
<1>3. CASE \E type \in MarkTypeNames : MarkFromScratch(type)
  BY <1>1, <1>3 DEF MarkFromScratch, PhaseInv, Begun
<1>4. CASE ReMark
  <2>1. MarkRoots(markType) /\ UNCHANGED <<space, value, cset, markType, crossRegion, reading>>
    BY <1>4 DEF ReMark
  <2>2. /\ marked \subseteq marked' /\ work \cup mainWork \subseteq work' \cup mainWork'
        /\ SlotsOf(marked' \ marked) \subseteq work' \cup mainWork'
    BY <2>1 DEF MarkRoots, SlotsOf
  <2>3. \A s \in Slots : Unvisited(s) => Unvisited(s)'
    BY <2>1, <2>2 DEF Unvisited, BeingRead
  <2> QED
    BY <2>1, <2>2, <2>3, MarkKeeps
<1>5. CASE PostMarkerTask \/ PostOldToNewTask \/ HelpMarking \/ FinishMark \/ Evacuated
  BY <1>5 DEF PostMarkerTask, PostOldToNewTask, HelpMarking, FinishMark, Evacuated, vars, MarkInv,
              BeingRead, Covered, CrossRecorded, Markable, IsFullMark, InYoungSpace,
              InYoungSpaceOrCSet
<1> QED
  BY <1>2, <1>3, <1>4, <1>5 DEF Collection

\* Every step keeps the tri-colour invariant.
LEMMA MarkInvStep ==
    ASSUME TypeOK, HeapInv, MarkInv, PhaseInv, [Next]_vars
    PROVE  MarkInv'
<1>1. CASE TaskStep \/ UNCHANGED vars
  BY <1>1 DEF TaskStep, StartOldToNewTask, FinishOldToNewTask, MarkerTaskStackDone, FinishMarking,
              vars, heapVars, recordVars, markVars, kindVars, MarkInv, BeingRead, Covered,
              CrossRecorded, Markable, IsFullMark, InYoungSpace, InYoungSpaceOrCSet
<1> QED
  BY <1>1, MarkProgram, MarkStep, MarkCollection DEF Next

-----------------------------------------------------------------------------
\* From the marking of the roots on, the roots are marked: the program is
\* stopped and makes no new ones.
LEMMA RootStep ==
    ASSUME TypeOK, RootInv, [Next]_vars
    PROVE  RootInv'
<1> USE DEF RootInv, Markable, IsFullMark, InYoungSpace,
            heapVars, recordVars, markVars, kindVars, taskVars
<1>1. CASE Program
  BY <1>1 DEF Program, Load, Drop, Allocate, Store
<1>2. ASSUME NEW t \in Threads, Mark(t)
      PROVE  RootInv'
  <2>1. marked \subseteq marked'
    BY <1>2 DEF Mark, VisitSlot, MarkSlot, ReadSlot, Push
  <2>2. UNCHANGED <<space, locals, markType, mpc>>
    BY <1>2 DEF Mark, VisitSlot, MarkSlot, ReadSlot, MarkValue
  <2> QED
    BY <2>1, <2>2
<1>3. CASE TaskStep \/ UNCHANGED vars
  BY <1>3 DEF TaskStep, StartOldToNewTask, FinishOldToNewTask, MarkerTaskStackDone, FinishMarking,
              vars
<1>4. ASSUME NEW type, MarkRoots(type), markType' = type, UNCHANGED <<space, locals>>
      PROVE  RootInv'
  BY <1>4 DEF MarkRoots
<1>5. CASE Collection
  BY <1>4, <1>5 DEF Collection, TryTriggerConcurrentMarking, MarkFromScratch, ReMark,
                    PostMarkerTask, PostOldToNewTask, HelpMarking, FinishMark, Evacuated, vars
<1> QED
  BY <1>1, <1>2, <1>3, <1>5 DEF Next

-----------------------------------------------------------------------------
Handled(s) == s \in rsetTodo \/ BeingRead(s) \/ Covered(value[s]) \/ RSetToCome(s)

\* The remembered slots in the program's steps: a slot that the barrier adds
\* during a marking holds a marked object.
LEMMA RSetProgram ==
    ASSUME TypeOK, HeapInv, RSetInv, Program
    PROVE  RSetInv'
<1> USE DEF recordVars, markVars, kindVars, taskVars
<1>1. ASSUME NEW s \in Slots, Load(s) PROVE RSetInv'
  BY <1>1 DEF Load, RSetInv, Begun, RSetToCome, BeingRead, Covered, Markable, IsFullMark,
              InYoungSpace
<1>2. ASSUME NEW o \in Objects, Drop(o) PROVE RSetInv'
  BY <1>2 DEF Drop, RSetInv, Begun, RSetToCome, BeingRead, Covered, Markable, IsFullMark,
              InYoungSpace
<1>3. ASSUME NEW o \in Objects, NEW where \in {"young", "old"}, Allocate(o, where)
      PROVE  RSetInv'
  <2>1. /\ space' = [space EXCEPT ![o] = where] /\ space[o] = "free"
        /\ UNCHANGED <<value, oldToNew, marked, reading, markType, rsetTodo, parallelGC,
                       markStatus, oldToNewTask, mpc>>
    BY <1>3 DEF Allocate
  <2>2. \A s \in Slots : Covered(value[s]) => Covered(value[s])'
    <3> SUFFICES ASSUME NEW s \in Slots, Covered(value[s]), IsHeapObject(value[s])
                 PROVE  Covered(value[s])'
        BY <2>1 DEF Covered, IsStrong
    <3>1. value[s].object \in Objects /\ value[s].object # o
      BY <2>1, ValueTypes DEF HeapInv, TypeOK
    <3>2. space'[value[s].object] = space[value[s].object]
      BY <2>1, <3>1 DEF TypeOK
    <3> QED
      BY <2>1, <3>2 DEF Covered, Markable, IsFullMark, InYoungSpace
  <2> QED
    BY <2>1, <2>2 DEF RSetInv, Begun, RSetToCome, BeingRead, IsFullMark, TypeOK
<1>4. ASSUME NEW s \in Slots, NEW v \in Values, Store(s, v) PROVE RSetInv'
  <2>1. /\ value' = [value EXCEPT ![s] = v] /\ oldToNew' \subseteq oldToNew \cup {s}
        /\ mpc = "run"
        /\ UNCHANGED <<space, markType, reading, rsetTodo, parallelGC, markStatus,
                       oldToNewTask, mpc>>
    BY <1>4 DEF Store, RecordOldToNew
  <2>2. value'[s] = v /\ \A p \in Slots : p # s => value'[p] = value[p]
    BY <2>1 DEF TypeOK
  <2> SUFFICES ASSUME Begun, ~IsFullMark, NEW p \in oldToNew'
               PROVE  Handled(p)'
      BY <2>1 DEF RSetInv, Begun, IsFullMark, Handled
  <2>3. Push(Main, NewlyMarked(v), {})
    BY <1>4, <2>1 DEF Begun, Store
  <2>4. CASE p = s
    BY <2>1, <2>2, <2>3, <2>4, PushKeeps DEF Handled
  <2>5. CASE p # s
    <3>1. Handled(p) /\ value'[p] = value[p]
      BY <2>1, <2>2, <2>5 DEF RSetInv, Handled, TypeOK
    <3>2. marked \subseteq marked'
      BY <2>3, PushKeeps
    <3> QED
      BY <2>1, <3>1, <3>2 DEF Handled, BeingRead, Covered, RSetToCome, Markable, IsFullMark,
                              InYoungSpace
  <2> QED
    BY <2>4, <2>5
<1> QED
  BY <1>1, <1>2, <1>3, <1>4 DEF Program

\* A marker that takes a remembered slot covers it, at once or in two steps.
LEMMA RSetMark ==
    ASSUME TypeOK, RSetInv, NEW t \in Threads, Mark(t)
    PROVE  RSetInv'
<1> USE DEF heapVars, recordVars, markVars, kindVars, taskVars
<1>1. UNCHANGED <<value, oldToNew, space, markType, parallelGC, markStatus, oldToNewTask, mpc>>
  BY DEF Mark, VisitSlot, MarkSlot, ReadSlot, MarkValue
<1>2. marked \subseteq marked'
  BY DEF Mark, VisitSlot, MarkSlot, ReadSlot, Push
<1> SUFFICES ASSUME Begun, ~IsFullMark, NEW p \in oldToNew
             PROVE  Handled(p)'
    BY <1>1 DEF RSetInv, Begun, IsFullMark, Handled
<1>3. p \in Slots /\ value[p] \in Values /\ Handled(p)
  BY DEF TypeOK, RSetInv, Handled
<1>4. /\ Covered(value[p]) => Covered(value[p])'
      /\ RSetToCome(p) => RSetToCome(p)'
  BY <1>1, <1>2 DEF Covered, RSetToCome, Markable, IsFullMark, InYoungSpace
<1>5. CASE Covered(value[p]) \/ RSetToCome(p)
  BY <1>4, <1>5 DEF Handled
<1>6. ASSUME NEW s \in Slots, VisitSlot(t, s), p \in rsetTodo \/ BeingRead(p)
      PROVE  Handled(p)'
  <2>1. PICK taken : Push(t, NewlyMarked(value[s]), taken)
    BY <1>6 DEF VisitSlot
  <2>2. p = s => Covered(value[p])'
    BY <1>1, <1>3, <2>1, PushKeeps
  <2>3. p # s => (p \in rsetTodo => p \in rsetTodo')
    BY <1>6 DEF VisitSlot
  <2>4. BeingRead(p) => BeingRead(p)'
    BY <1>1, <1>6 DEF VisitSlot, BeingRead
  <2> QED
    BY <1>6, <2>2, <2>3, <2>4 DEF Handled
<1>7. ASSUME t \in Workers, MarkSlot(t), p \in rsetTodo \/ BeingRead(p)
      PROVE  Handled(p)'
  <2>1. CASE p \in rsetTodo
    BY <1>7, <2>1 DEF MarkSlot, Handled
  <2>2. CASE BeingRead(p)
    <3>1. PICK w \in Workers : reading[w] = [slot |-> p, value |-> value[p]]
      BY <2>2 DEF BeingRead
    <3>2. CASE w = t
      <4>1. Push(t, NewlyMarked(value[p]), {})
        BY <1>7, <3>1, <3>2 DEF MarkSlot
      <4> QED
        BY <1>1, <1>3, <4>1, PushKeeps DEF Handled
    <3>3. CASE w # t
      BY <1>1, <1>7, <3>1, <3>3 DEF MarkSlot, Handled, BeingRead, TypeOK
    <3> QED
      BY <3>2, <3>3
  <2> QED
    BY <1>7, <2>1, <2>2
<1>8. ASSUME t \in Workers, NEW s \in Slots, ReadSlot(t, s), p \in rsetTodo \/ BeingRead(p)
      PROVE  Handled(p)'
  <2>1. reading[t] = Idle /\ reading' = [reading EXCEPT ![t] = [slot |-> s, value |-> value[s]]]
    BY <1>8, MainAssumption DEF ReadSlot, MayMark, Main
  <2>2. p = s => BeingRead(p)'
    BY <1>1, <1>8, <2>1 DEF BeingRead, TypeOK
  <2>3. p # s => (p \in rsetTodo => p \in rsetTodo')
    BY <1>8 DEF ReadSlot
  <2>4. ASSUME BeingRead(p)
        PROVE  BeingRead(p)'
    <3>1. PICK w \in Workers : reading[w] = [slot |-> p, value |-> value[p]]
      BY <2>4 DEF BeingRead
    <3>2. w # t
      BY <1>3, <2>1, <3>1, UndefinedAssumption DEF Idle
    <3> QED
      BY <1>1, <2>1, <3>1, <3>2 DEF BeingRead, TypeOK
  <2> QED
    BY <1>8, <2>2, <2>3, <2>4 DEF Handled
<1> QED
  BY <1>3, <1>5, <1>6, <1>7, <1>8 DEF Mark, Handled

\* Each phase hands the remembered slots on to the next: to the task that Mark
\* posts, to ReMark, or to the collection that marks by itself.
LEMMA RSetStep ==
    ASSUME TypeOK, HeapInv, RSetInv, PhaseInv, [Next]_vars
    PROVE  RSetInv'
<1> USE DEF heapVars, recordVars, markVars, kindVars, taskVars
<1>1. CASE TaskStep
  <2>1. UNCHANGED <<value, oldToNew, space, marked, markType, parallelGC, reading, mpc>>
    BY <1>1 DEF TaskStep, StartOldToNewTask, FinishOldToNewTask, MarkerTaskStackDone, FinishMarking
  <2>2. markStatus = "READY_TO_MARK" <=> markStatus' = "READY_TO_MARK"
    BY <1>1 DEF TaskStep, StartOldToNewTask, FinishOldToNewTask, MarkerTaskStackDone,
                FinishMarking, PhaseInv
  <2> SUFFICES ASSUME Begun, ~IsFullMark, NEW p \in oldToNew
               PROVE  Handled(p)'
      BY <2>1, <2>2 DEF RSetInv, Begun, IsFullMark, Handled
  <2>3. p \in Slots /\ Handled(p)
    BY DEF RSetInv, Handled, TypeOK
  <2>4. CASE StartOldToNewTask
    <3>1. parallelGC /\ markStatus # "READY_TO_MARK"
      BY <2>4 DEF StartOldToNewTask, PhaseInv
    <3>2. p \in rsetTodo' \/ RSetToCome(p)'
      BY <2>1, <2>2, <2>4, <3>1 DEF StartOldToNewTask, RSetToCome
    <3> QED
      BY <3>2 DEF Handled
  <2>5. CASE FinishOldToNewTask \/ MarkerTaskStackDone \/ FinishMarking
    <3>1. UNCHANGED rsetTodo /\ (oldToNewTask = "posted" <=> oldToNewTask' = "posted")
      BY <2>5 DEF FinishOldToNewTask, MarkerTaskStackDone, FinishMarking
    <3> QED
      BY <2>1, <2>2, <2>3, <3>1 DEF Handled, BeingRead, Covered, RSetToCome, Markable,
                                    IsFullMark, InYoungSpace
  <2> QED
    BY <1>1, <2>4, <2>5 DEF TaskStep
<1>2. ASSUME NEW type \in MarkTypes, TryTriggerConcurrentMarking(type) PROVE RSetInv'
  BY <1>2 DEF TryTriggerConcurrentMarking, RSetInv, RSetToCome
<1>3. ASSUME NEW type \in MarkTypeNames, MarkFromScratch(type) PROVE RSetInv'
  BY <1>3 DEF MarkFromScratch, RSetInv, IsFullMark
<1>4. CASE ReMark
  <2>1. /\ UNCHANGED <<value, oldToNew, space, markType, parallelGC, markStatus, reading, oldToNewTask>>
        /\ marked \subseteq marked' /\ markStatus # "READY_TO_MARK" /\ mpc \in {"run", "help"}
        /\ rsetTodo' = IF ~IsFullMark /\ ~parallelGC THEN oldToNew ELSE rsetTodo
    BY <1>4 DEF ReMark, MarkRoots
  <2> SUFFICES ASSUME ~IsFullMark, NEW p \in oldToNew
               PROVE  Handled(p)'
      BY <2>1 DEF RSetInv, IsFullMark, Handled
  <2>2. Handled(p)
    BY <2>1 DEF RSetInv, Begun, Handled
  <2>3. CASE ~parallelGC
    BY <2>1, <2>3 DEF Handled
  <2>4. CASE parallelGC
    BY <2>1, <2>2, <2>4 DEF Handled, BeingRead, Covered, RSetToCome, Markable, IsFullMark,
                            InYoungSpace
  <2> QED
    BY <2>3, <2>4
<1>5. CASE PostMarkerTask \/ PostOldToNewTask \/ HelpMarking \/ FinishMark
  <2>1. UNCHANGED <<value, oldToNew, space, marked, markType, parallelGC, markStatus, reading, rsetTodo>>
    BY <1>5 DEF PostMarkerTask, PostOldToNewTask, HelpMarking, FinishMark
  <2> SUFFICES ASSUME ~IsFullMark, NEW p \in oldToNew
               PROVE  Handled(p)'
      BY <2>1 DEF RSetInv, IsFullMark, Handled
  <2>2. Begun
    BY <1>5 DEF Begun, PostMarkerTask, PostOldToNewTask, HelpMarking, FinishMark
  <2>3. Handled(p)
    BY <2>2 DEF RSetInv, Handled
  <2>4. RSetToCome(p) => RSetToCome(p)'
    BY <1>5, <2>1 DEF RSetToCome, PostMarkerTask, PostOldToNewTask, HelpMarking, FinishMark,
                      PhaseInv, IsFullMark
  <2> QED
    BY <2>1, <2>3, <2>4 DEF Handled, BeingRead, Covered, Markable, IsFullMark, InYoungSpace
<1>6. CASE Evacuated \/ UNCHANGED vars
  BY <1>6 DEF Evacuated, vars, RSetInv, Begun, RSetToCome, BeingRead, Covered, Markable,
              IsFullMark, InYoungSpace
<1> QED
  BY <1>1, <1>2, <1>3, <1>4, <1>5, <1>6, RSetProgram, RSetMark DEF Next, Collection

-----------------------------------------------------------------------------
\* While a collection marks by itself the program is stopped, so that a weak
\* slot is recorded as what it was read to be.
LEMMA WeakStep ==
    ASSUME TypeOK, WeakInv, PhaseInv, [Next]_vars
    PROVE  WeakInv'
<1> USE DEF heapVars, recordVars, markVars, kindVars, taskVars
<1> SUFFICES ASSUME markStatus' = "READY_TO_MARK"
             PROVE  WeakInv'
    BY DEF WeakInv
<1>1. CASE Program
  <2>1. ~Begun /\ UNCHANGED marked
    BY <1>1 DEF Program, Load, Drop, Allocate, Store, Begun
  <2> QED
    BY <2>1 DEF PhaseInv, WeakInv
<1>2. ASSUME NEW t \in Threads, Mark(t)
      PROVE  WeakInv'
  <2>0. UNCHANGED <<value, space, cset, markStatus>>
    BY <1>2 DEF Mark, VisitSlot, MarkSlot, ReadSlot, MarkValue
  <2>1. ~(t \in Workers /\ MarkSlot(t))
    BY <2>0 DEF MarkSlot, PhaseInv, WorkersIdle
  <2>2. ~(t \in Workers /\ \E s \in Slots : ReadSlot(t, s))
    BY <2>0 DEF ReadSlot, RSetSlots, Stopped, PhaseInv, Begun, MainStackDone
  <2>3. PICK s \in Slots : VisitSlot(t, s)
    BY <1>2, <2>1, <2>2 DEF Mark
  <2>4. value[s] \in Values
    BY DEF TypeOK
  <2>5. PICK taken : Push(t, NewlyMarked(value[s]), taken) /\ taken \subseteq {s}
    BY <2>3 DEF VisitSlot
  <2>6. /\ IF IsWeak(value[s]) THEN RecordWeakReference(s) ELSE UNCHANGED weakQueue
    BY <2>3 DEF VisitSlot, MarkValue
  <2>7. weakQueue \subseteq weakQueue'
    BY <2>6 DEF RecordWeakReference
  <2>8. /\ IsWeak(value[s])
        /\ ~InYoungSpaceOrCSet(Owner(s)) /\ ~InYoungSpaceOrCSet(value[s].object)
        => s \in weakQueue'
    BY <2>6 DEF RecordWeakReference, IsWeak
  <2> SUFFICES ASSUME NEW p \in Slots, Owner(p) \in marked', IsWeak(value[p]),
                      ~InYoungSpaceOrCSet(Owner(p)), ~InYoungSpaceOrCSet(value[p].object), p # s
               PROVE  p \in work' \cup mainWork' \cup weakQueue'
      BY <2>0, <2>8 DEF WeakInv, InYoungSpaceOrCSet, InYoungSpace
  <2>9. CASE Owner(p) \in marked
    <3>1. p \in work \cup mainWork \cup weakQueue
      BY <2>0, <2>9 DEF WeakInv
    <3> QED
      BY <2>4, <2>5, <2>7, <3>1, PushKeeps
  <2>10. CASE Owner(p) \notin marked
    BY <2>4, <2>5, <2>10, PushKeeps DEF SlotsOf
  <2> QED
    BY <2>9, <2>10
<1>3. CASE TaskStep
  BY <1>3 DEF TaskStep, StartOldToNewTask, FinishOldToNewTask, MarkerTaskStackDone, FinishMarking,
              PhaseInv
<1>4. ASSUME NEW type \in MarkTypeNames, MarkFromScratch(type) PROVE WeakInv'
  <2>1. marked = {} /\ MarkRoots(type)
    BY <1>4 DEF MarkFromScratch, PhaseInv, Begun
  <2>2. SlotsOf(marked') \subseteq work'
    BY <2>1 DEF MarkRoots, SlotsOf
  <2> QED
    BY <2>2 DEF WeakInv, SlotsOf
<1>5. CASE \/ PostMarkerTask \/ PostOldToNewTask \/ HelpMarking \/ FinishMark \/ Evacuated
           \/ UNCHANGED vars
  BY <1>5 DEF PostMarkerTask, PostOldToNewTask, HelpMarking, FinishMark, Evacuated, vars, WeakInv,
              InYoungSpaceOrCSet, InYoungSpace
<1>6. CASE ReMark \/ \E type \in MarkTypes : TryTriggerConcurrentMarking(type)
  BY <1>6 DEF ReMark, TryTriggerConcurrentMarking
<1> QED
  BY <1>1, <1>2, <1>3, <1>4, <1>5, <1>6 DEF Next, Collection

\* The inductive invariant holds in every state of a marking.
LEMMA Invariant == Spec => []Inv
<1>1. Inv /\ [Next]_vars => Inv'
  BY TypeStep, HeapStep, MarkInvStep, RSetStep, RootStep, WeakStep, PhaseStep DEF Inv
<1> QED
  BY InitInv, <1>1, PTL DEF Spec

-----------------------------------------------------------------------------
\* At the end every marked object has been visited completely.
LEMMA AllVisited ==
    ASSUME Inv, mpc = "evacuate"
    PROVE  \A s \in Slots : Owner(s) \in marked => Visited(s)
<1>1. work = {} /\ mainWork = {} /\ WorkersIdle
  BY DEF Inv, PhaseInv, MainStackDone, NoRunningTask
<1>2. \A s \in Slots : ~BeingRead(s)
  BY <1>1, UndefinedAssumption DEF WorkersIdle, BeingRead, Idle
<1> QED
  BY <1>1, <1>2 DEF Inv, MarkInv, Visited

\* The marked objects, with those that this marking does not concern, are
\* closed: so all that the program can reach is among them.
LEMMA ReachableFromInv == Inv => ReachableIsMarked
<1> SUFFICES ASSUME Inv, mpc = "evacuate", ~SnapshotSkipped
             PROVE  \A o \in Reachable : Markable(o) => o \in marked
    BY DEF ReachableIsMarked, Markable
<1> DEFINE S == {o \in Objects : Markable(o) => o \in marked}
<1>1. locals \subseteq S
  BY DEF Inv, RootInv, TypeOK
<1>2. ASSUME NEW s \in Slots, Owner(s) \in S, IsStrong(value[s])
      PROVE  value[s].object \in S
  <2>1. value[s].object \in Objects
    BY <1>2, ValueTypes DEF Inv, TypeOK, IsStrong
  <2>2. CASE Owner(s) \in marked
    BY <1>2, <2>1, <2>2, AllVisited DEF Visited, Covered
  <2>3. CASE Owner(s) \notin marked /\ Markable(value[s].object)
    <3>1. ~IsFullMark /\ s \in oldToNew
      BY <1>2, <2>3 DEF Inv, HeapInv, RefersToYoung, Markable, IsStrong
    <3>2. Handled(s)
      BY <3>1 DEF Inv, RSetInv, Begun, Handled
    <3>3. ~BeingRead(s) /\ s \notin rsetTodo
      BY UndefinedAssumption DEF Inv, PhaseInv, NoRunningTask, WorkersIdle, BeingRead, Idle
    <3>4. ~RSetToCome(s)
      BY <3>1 DEF Inv, PhaseInv, NoRunningTask, RSetToCome, SnapshotSkipped, TypeOK
    <3> QED
      BY <1>2, <2>1, <3>2, <3>3, <3>4 DEF Handled, Covered
  <2> QED
    BY <2>1, <2>2, <2>3
<1>3. Closed(S)
  BY <1>1, <1>2 DEF Closed
<1>4. S \in SUBSET Objects
  OBVIOUS
<1> QED
  BY <1>3, <1>4 DEF Reachable

\* What moves is found: through the old-to-new sets if it is young, through the
\* cross-region sets if it is in the collection set.
LEMMA MovedFromInv == Inv => MovedSlotsAreRecorded
<1> SUFFICES ASSUME Inv, mpc = "evacuate", NEW s \in Slots, Stays(Owner(s)),
                    IsHeapObject(value[s]), InYoungSpaceOrCSet(value[s].object)
             PROVE  s \in oldToNew \cup crossRegion
    BY DEF MovedSlotsAreRecorded
<1>1. CASE InYoungSpace(value[s].object)
  BY <1>1 DEF Inv, HeapInv, RefersToYoung, Stays, InYoungSpaceOrCSet
<1>2. CASE value[s].object \in cset
  <2>1. IsFullMark
    BY <1>2 DEF Inv, PhaseInv
  <2>2. Owner(s) \in marked
    BY <2>1 DEF Stays
  <2> QED
    BY <1>2, <2>1, <2>2, AllVisited DEF Visited, CrossRecorded, Stays
<1> QED
  BY <1>1, <1>2 DEF InYoungSpaceOrCSet

\* A collection that marks by itself has recorded every weak slot it must clear.
LEMMA WeakFromInv == Inv => WeakSlotsAreRecorded
BY DEF Inv, PhaseInv, MainStackDone, WeakInv, WeakSlotsAreRecorded, DeadWeakSlots, Stays

\* The state of a marking keeps its type.
THEOREM MarkTypeCorrect == Spec => []TypeOK
BY Invariant, PTL DEF Inv

\* When a collection begins to move and free objects, every object that the
\* program can reach is marked.
THEOREM ReachableObjectsAreMarked == Spec => []ReachableIsMarked
BY Invariant, ReachableFromInv, PTL

\* Every slot of an object that stays and that refers to one that moves is
\* then in a remembered set, so that the evacuation updates it.
THEOREM MovedSlotsAreKnown == Spec => []MovedSlotsAreRecorded
BY Invariant, MovedFromInv, PTL

\* A collection that did not mark concurrently has then queued every weak slot
\* of a dead object, so that the evacuation clears it.
THEOREM WeakSlotsAreKnown == Spec => []WeakSlotsAreRecorded
BY Invariant, WeakFromInv, PTL

-----------------------------------------------------------------------------
(***************************************************************************)
(* The pool that the tasks of a marking run on, for any number of VMs,     *)
(* tasks and cores.  The inductive invariant PoolInv adds to the           *)
(* properties of TaskPool what links a worker's program counter to the     *)
(* task it owns, and what the counter isInitialized_ says about who may    *)
(* still post.                                                             *)
(***************************************************************************)

Users == {v \in VMs : vm[v]}

\* What a worker owns at each point of Runner::Run.
WorkerInv ==
    \A w \in WorkerThreads :
        /\ pc[w] \in {"set", "run", "clear"} <=> task[w] # NoTask
        /\ runningTask[w] # NoTask => runningTask[w] = task[w]
        /\ pc[w] = "clear" => task[w] \in finished
        /\ pc[w] \in {"set", "run"} => task[w] \notin finished
        /\ task[w] # NoTask => task[w] \in posted /\ ~Queued(task[w])

\* No two places hold the same task.
OwnerInv ==
    /\ \A w, u \in WorkerThreads : task[w] = task[u] /\ task[w] # NoTask => w = u
    /\ \A i, j \in DOMAIN tasks : tasks[i] = tasks[j] => i = j
    /\ \A i \in DOMAIN tasks : tasks[i] \in posted /\ tasks[i] \notin finished
    /\ finished \subseteq posted

\* A posted task is somewhere.
PlaceInv ==
    WorkerThreads # {} => \A t \in posted : Queued(t) \/ Pending(t) \/ t \in finished

\* isInitialized_ counts the VMs between Initialize and Destroy, and the queue
\* is terminated only when no JS thread can post to it any more.
CountInv ==
    /\ ~exited => isInitialized = Cardinality(Users)
    /\ ~exited /\ isInitialized > 0 => ~terminate
    /\ destroy \in {"flagAll", "join"} => terminate
    /\ destroy \in {"terminate", "flagAll", "join"} => exited \/ isInitialized = 0
    /\ destroy = "none" /\ isInitialized = 0 => terminate /\ \A w \in WorkerThreads : pc[w] = "exit"
    /\ exited /\ destroy = "none" => isInitialized = 0
    /\ destroy = "flag" => ~exited /\ isInitialized > 0

\* Only a terminated queue ends a worker, and the last one finds it empty.
ExitInv ==
    /\ \A w \in WorkerThreads : pc[w] = "exit" => terminate
    /\ WorkerThreads # {} /\ (\A w \in WorkerThreads : pc[w] = "exit") => tasks = << >>

PoolInv == PoolTypeOK /\ WorkerInv /\ OwnerInv /\ PlaceInv /\ CountInv /\ ExitInv

-----------------------------------------------------------------------------
\* The invariant gives the three safety properties that TLC checks.
LEMMA PoolInvImplies ==
    PoolInv => NoTaskLostOrDuplicated /\ RunningTaskIsAlive /\ DrainedWhenJoined
<1> SUFFICES ASSUME PoolInv
             PROVE  NoTaskLostOrDuplicated /\ RunningTaskIsAlive /\ DrainedWhenJoined
    OBVIOUS
<1>1. NoTaskLostOrDuplicated
  <2>1. ASSUME NEW t \in posted, Queued(t)
        PROVE  ~Pending(t) /\ t \notin finished
    BY <2>1, NoTaskAssumption DEF PoolInv, WorkerInv, OwnerInv, Queued, Pending, PoolTypeOK
  <2>2. ASSUME NEW t \in posted, Pending(t)
        PROVE  t \notin finished
    BY <2>2 DEF PoolInv, WorkerInv, Pending
  <2> QED
    BY <2>1, <2>2 DEF NoTaskLostOrDuplicated, PoolInv, PlaceInv, OwnerInv
<1>2. RunningTaskIsAlive
  BY DEF RunningTaskIsAlive, PoolInv, WorkerInv
<1>3. DrainedWhenJoined
  <2> SUFFICES ASSUME WorkerThreads # {}, isInitialized = 0, destroy = "none"
               PROVE  posted = finished
    BY DEF DrainedWhenJoined
  <2>1. \A w \in WorkerThreads : pc[w] = "exit"
    BY DEF PoolInv, CountInv
  <2>2. tasks = << >>
    BY <2>1 DEF PoolInv, ExitInv
  <2>3. ASSUME NEW t \in posted
        PROVE  t \in finished
    BY <2>1, <2>2 DEF PoolInv, PlaceInv, Queued, Pending
  <2> QED
    BY <2>3 DEF PoolInv, OwnerInv
<1> QED
  BY <1>1, <1>2, <1>3

\* Before the first Initialize there are no workers, and the queue is empty.
LEMMA PoolInitInv == PoolInit => PoolInv
<1> SUFFICES ASSUME PoolInit
             PROVE  PoolInv
    OBVIOUS
<1>1. Users = {} /\ Cardinality(Users) = 0
  <2>1. Users = {}
    BY DEF Users, PoolInit
  <2> QED
    BY <2>1, FS_EmptySet
<1>2. PoolTypeOK
  <2>1. tasks \in Seq(Tasks)
    BY DEF PoolInit
  <2> QED
    BY <2>1 DEF PoolInit, PoolTypeOK
<1>3. WorkerInv
  BY DEF PoolInit, WorkerInv
<1>4. OwnerInv /\ PlaceInv
  BY DEF PoolInit, OwnerInv, PlaceInv
<1>5. CountInv
  BY <1>1 DEF PoolInit, CountInv
<1>6. ExitInv
  BY DEF PoolInit, ExitInv
<1> QED
  BY <1>2, <1>3, <1>4, <1>5, <1>6 DEF PoolInv

-----------------------------------------------------------------------------
\* A step of the workers' program counters that only wakes waiting workers.
Wakes ==
    /\ pc' \in [WorkerThreads -> {"pop", "wait", "set", "run", "clear", "exit"}]
    /\ \A w \in WorkerThreads : pc'[w] = pc[w] \/ (pc[w] = "wait" /\ pc'[w] = "pop")

\* ConditionVariable::Signal moves at most one waiter on.
LEMMA SignalWakes == PoolTypeOK /\ Signal(pc) => Wakes
  BY DEF PoolTypeOK, Signal, Wakes

\* ConditionVariable::SignalAll moves all waiters on.
LEMMA SignalAllWakes == PoolTypeOK /\ pc' = SignalAll(pc) => Wakes
  BY DEF PoolTypeOK, SignalAll, Wakes

\* Waking workers disturbs no part of the invariant.
LEMMA WakeKeepsInv ==
    ASSUME PoolInv, Wakes, UNCHANGED <<poolVars, queueVars, task, runningTask, finished>>
    PROVE  PoolInv'
<1> USE DEF Wakes, poolVars, queueVars
<1>1. PoolTypeOK'
  BY DEF PoolInv, PoolTypeOK
<1>2. \A t : (Queued(t) <=> Queued(t)') /\ (Pending(t) <=> Pending(t)')
  BY DEF Queued, Pending
<1>3. WorkerInv'
  BY <1>2 DEF PoolInv, WorkerInv
<1>4. OwnerInv' /\ PlaceInv'
  BY <1>2 DEF PoolInv, OwnerInv, PlaceInv
<1>5. CountInv'
  BY DEF PoolInv, CountInv, Users
<1>6. ExitInv'
  BY DEF PoolInv, ExitInv
<1> QED
  BY <1>1, <1>3, <1>4, <1>5, <1>6 DEF PoolInv

\* A post by somebody who may still post keeps the invariant.
LEMMA PostKeepsInv ==
    ASSUME PoolInv, NEW t \in Tasks, t \notin posted, PostTask(t),
           UNCHANGED <<poolVars, terminate, task, runningTask, finished>>,
           ~terminate \/ \E w \in WorkerThreads : pc[w] = "run"
    PROVE  PoolInv'
<1> USE DEF poolVars
<1>0. Wakes /\ tasks \in Seq(Tasks) /\ tasks' = Append(tasks, t) /\ posted' = posted \cup {t}
  BY SignalWakes DEF PoolInv, PostTask, PoolTypeOK
<1>1. PoolTypeOK'
  BY <1>0 DEF PoolInv, PoolTypeOK, PostTask, Wakes
<1>2. /\ DOMAIN tasks = 1 .. Len(tasks)
      /\ DOMAIN tasks' = 1 .. Len(tasks) + 1
      /\ \A i \in DOMAIN tasks : tasks'[i] = tasks[i]
      /\ tasks'[Len(tasks) + 1] = t
      /\ Len(tasks) \in Nat
  BY <1>0
<1>3. \A u : Queued(u)' <=> Queued(u) \/ u = t
  BY <1>2 DEF Queued
<1>4. \A u : Pending(u)' <=> Pending(u)
  BY <1>0 DEF Pending, Wakes
<1>5. WorkerInv'
  BY <1>0, <1>3 DEF PoolInv, WorkerInv, Wakes
<1>6. OwnerInv'
  <2>1. \A i \in DOMAIN tasks : tasks[i] # t
    BY DEF PoolInv, OwnerInv
  <2>2. \A i, j \in DOMAIN tasks' : tasks'[i] = tasks'[j] => i = j
    BY <1>2, <2>1 DEF PoolInv, OwnerInv
  <2>3. \A i \in DOMAIN tasks' : tasks'[i] \in posted' /\ tasks'[i] \notin finished'
    BY <1>0, <1>2 DEF PoolInv, OwnerInv
  <2> QED
    BY <1>0, <2>2, <2>3 DEF PoolInv, OwnerInv
<1>7. PlaceInv'
  BY <1>0, <1>3, <1>4 DEF PoolInv, PlaceInv
<1>8. CountInv'
  BY <1>0 DEF PoolInv, CountInv, Users, Wakes
<1>9. ExitInv'
  BY <1>0 DEF PoolInv, ExitInv, Wakes
<1> QED
  BY <1>1, <1>5, <1>6, <1>7, <1>8, <1>9 DEF PoolInv

-----------------------------------------------------------------------------
\* Each step of a worker keeps the invariant.
LEMMA PopTaskInv ==
    ASSUME PoolInv, NEW w \in WorkerThreads, PopTask(w)
    PROVE  PoolInv'
<1> USE DEF poolVars
<1>1. CASE tasks # << >>
  <2>0. /\ pc[w] = "pop"
        /\ task' = [task EXCEPT ![w] = Head(tasks)]
        /\ tasks' = Tail(tasks)
        /\ pc' = [pc EXCEPT ![w] = "set"]
        /\ UNCHANGED <<poolVars, terminate, posted, runningTask, finished>>
    BY <1>1 DEF PopTask
  <2>1. /\ tasks \in Seq(Tasks) /\ Len(tasks) \in Nat \ {0} /\ DOMAIN tasks = 1 .. Len(tasks)
        /\ tasks' \in Seq(Tasks) /\ DOMAIN tasks' = 1 .. Len(tasks) - 1
        /\ \A i \in DOMAIN tasks' : i + 1 \in DOMAIN tasks /\ tasks'[i] = tasks[i + 1]
        /\ Head(tasks) = tasks[1] /\ 1 \in DOMAIN tasks /\ Head(tasks) \in Tasks
    BY <1>1, <2>0 DEF PoolInv, PoolTypeOK
  <2>2. PoolTypeOK'
    BY <2>0, <2>1 DEF PoolInv, PoolTypeOK
  <2>3. \A u : Queued(u)' <=> Queued(u) /\ u # Head(tasks)
    <3>1. \A i \in DOMAIN tasks : i # 1 => i - 1 \in DOMAIN tasks' /\ tasks'[i - 1] = tasks[i]
      BY <2>1
    <3>2. \A i \in DOMAIN tasks : i # 1 => tasks[i] # Head(tasks)
      BY <2>1 DEF PoolInv, OwnerInv
    <3>3. \A i \in DOMAIN tasks' : tasks'[i] # Head(tasks)
      BY <2>1, <3>2
    <3> QED
      BY <2>1, <3>1, <3>2, <3>3 DEF Queued
  <2>4. Head(tasks) \in posted /\ Head(tasks) \notin finished /\ Queued(Head(tasks))
    BY <2>1 DEF PoolInv, OwnerInv, Queued
  <2>5. \A u \in WorkerThreads : task[u] # Head(tasks)
    BY <2>1, <2>4, NoTaskAssumption DEF PoolInv, WorkerInv
  <2>6. task[w] = NoTask
    BY <2>0 DEF PoolInv, WorkerInv
  <2>7. \A u : Pending(u)' <=> Pending(u) \/ u = Head(tasks)
    BY <2>0, <2>6 DEF Pending, PoolInv, PoolTypeOK
  <2>8. WorkerInv'
    BY <2>0, <2>1, <2>3, <2>4, NoTaskAssumption DEF PoolInv, WorkerInv, PoolTypeOK
  <2>9. OwnerInv'
    <3>1. \A u, v \in WorkerThreads : task'[u] = task'[v] /\ task'[u] # NoTask => u = v
      BY <2>0, <2>5 DEF PoolInv, OwnerInv, PoolTypeOK
    <3>2. \A i, j \in DOMAIN tasks' : tasks'[i] = tasks'[j] => i = j
      BY <2>1 DEF PoolInv, OwnerInv
    <3>3. \A i \in DOMAIN tasks' : tasks'[i] \in posted' /\ tasks'[i] \notin finished'
      BY <2>0, <2>1 DEF PoolInv, OwnerInv
    <3> QED
      BY <2>0, <3>1, <3>2, <3>3 DEF PoolInv, OwnerInv
  <2>10. PlaceInv'
    BY <2>0, <2>3, <2>7 DEF PoolInv, PlaceInv
  <2>11. CountInv'
    BY <2>0 DEF PoolInv, CountInv, Users, PoolTypeOK
  <2>12. ExitInv'
    BY <2>0 DEF PoolInv, ExitInv, PoolTypeOK
  <2> QED
    BY <2>2, <2>8, <2>9, <2>10, <2>11, <2>12 DEF PoolInv
<1>2. CASE tasks = << >>
  <2>0. /\ pc[w] = "pop" /\ tasks = << >>
        /\ pc' = IF terminate THEN [SignalAll(pc) EXCEPT ![w] = "exit"]
                               ELSE [pc EXCEPT ![w] = "wait"]
        /\ UNCHANGED <<poolVars, queueVars, task, runningTask, finished>>
    BY <1>2 DEF PopTask, queueVars
  <2>1. /\ pc' \in [WorkerThreads -> {"pop", "wait", "set", "run", "clear", "exit"}]
        /\ \A u \in WorkerThreads :
              \/ pc'[u] = pc[u]
              \/ pc[u] \in {"wait", "pop"} /\ pc'[u] \in {"wait", "pop"}
              \/ pc[u] = "pop" /\ pc'[u] = "exit" /\ terminate
    BY <2>0 DEF SignalAll, PoolInv, PoolTypeOK
  <2>2. PoolTypeOK'
    BY <2>0, <2>1 DEF PoolInv, PoolTypeOK, queueVars
  <2>3. \A t : (Queued(t) <=> Queued(t)') /\ (Pending(t) <=> Pending(t)')
    BY <2>0, <2>1 DEF Queued, Pending, queueVars
  <2>4. WorkerInv'
    BY <2>0, <2>1, <2>3 DEF PoolInv, WorkerInv, queueVars
  <2>5. OwnerInv' /\ PlaceInv'
    BY <2>0, <2>3 DEF PoolInv, OwnerInv, PlaceInv, queueVars
  <2>6. CountInv'
    BY <2>0, <2>1 DEF PoolInv, CountInv, Users, queueVars
  <2>7. ExitInv'
    BY <2>0, <2>1 DEF PoolInv, ExitInv, queueVars
  <2> QED
    BY <2>2, <2>4, <2>5, <2>6, <2>7 DEF PoolInv
<1> QED
  BY <1>1, <1>2

\* So does the rest of Runner::Run: taking the popped task for its own, running
\* it (posts included), and letting go of it.
LEMMA RunnerInv ==
    ASSUME PoolInv, NEW w \in WorkerThreads, SetRunTask(w) \/ RunReturns(w) \/ ClearRunTask(w)
    PROVE  PoolInv'
<1> USE DEF poolVars, queueVars
<1>1. CASE SetRunTask(w)
  <2> USE <1>1 DEF SetRunTask
  <2>1. PoolTypeOK'
    BY DEF PoolInv, PoolTypeOK
  <2>2. \A t : (Queued(t) <=> Queued(t)') /\ (Pending(t) <=> Pending(t)')
    BY DEF Queued, Pending, PoolInv, PoolTypeOK
  <2>3. WorkerInv'
    BY <2>2 DEF PoolInv, WorkerInv, PoolTypeOK
  <2>4. OwnerInv' /\ PlaceInv'
    BY <2>2 DEF PoolInv, OwnerInv, PlaceInv
  <2>5. CountInv' /\ ExitInv'
    BY DEF PoolInv, CountInv, ExitInv, Users, PoolTypeOK
  <2> QED
    BY <2>1, <2>3, <2>4, <2>5 DEF PoolInv
<1>2. CASE RunReturns(w)
  <2> USE <1>2 DEF RunReturns
  <2>0. task[w] \in posted /\ task[w] # NoTask /\ task[w] \in Tasks /\ ~Queued(task[w])
    BY DEF PoolInv, WorkerInv, PoolTypeOK
  <2>1. PoolTypeOK'
    BY <2>0 DEF PoolInv, PoolTypeOK
  <2>2. \A t : Queued(t) <=> Queued(t)'
    BY DEF Queued
  <2>3. \A t : Pending(t)' <=> Pending(t) /\ t # task[w]
    BY <2>0 DEF Pending, PoolInv, PoolTypeOK, OwnerInv
  <2>4. WorkerInv'
    BY <2>0, <2>2 DEF PoolInv, WorkerInv, OwnerInv, PoolTypeOK
  <2>5. OwnerInv'
    BY <2>0 DEF PoolInv, OwnerInv, Queued
  <2>6. PlaceInv'
    BY <2>2, <2>3 DEF PoolInv, PlaceInv
  <2>7. CountInv' /\ ExitInv'
    BY DEF PoolInv, CountInv, ExitInv, Users, PoolTypeOK
  <2> QED
    BY <2>1, <2>4, <2>5, <2>6, <2>7 DEF PoolInv
<1>3. CASE ClearRunTask(w)
  <2> USE <1>3 DEF ClearRunTask
  <2>1. PoolTypeOK'
    BY DEF PoolInv, PoolTypeOK
  <2>2. \A t : Queued(t) <=> Queued(t)'
    BY DEF Queued
  <2>3. \A t \in Tasks : Pending(t)' <=> Pending(t)
    BY NoTaskAssumption DEF Pending, PoolInv, PoolTypeOK
  <2>4. WorkerInv'
    BY <2>2 DEF PoolInv, WorkerInv, PoolTypeOK
  <2>5. OwnerInv'
    BY DEF PoolInv, OwnerInv, PoolTypeOK
  <2>6. PlaceInv'
    BY <2>2, <2>3 DEF PoolInv, PlaceInv, PoolTypeOK
  <2>7. CountInv' /\ ExitInv'
    BY DEF PoolInv, CountInv, ExitInv, Users, PoolTypeOK
  <2> QED
    BY <2>1, <2>4, <2>5, <2>6, <2>7 DEF PoolInv
<1> QED
  BY <1>1, <1>2, <1>3

-----------------------------------------------------------------------------
\* Before the process exits, a VM that uses the pool is counted, so the queue
\* it posts to is not terminated.
LEMMA UserIsCounted ==
    ASSUME PoolInv, ~exited, NEW v \in VMs, vm[v]
    PROVE  isInitialized > 0 /\ ~terminate
<1>1. IsFiniteSet(Users) /\ v \in Users
  BY FS_Subset, VMsAssumption DEF Users
<1>2. Cardinality(Users) \in Nat /\ Cardinality(Users) # 0
  BY <1>1, FS_EmptySet, FS_CardinalityType
<1> QED
  BY <1>2 DEF PoolInv, CountInv

\* Taskpool::Initialize keeps the invariant, also when it builds the pool anew.
LEMMA InitializeInv ==
    ASSUME PoolInv, NEW v \in VMs, Initialize(v)
    PROVE  PoolInv'
<1> USE DEF Initialize, workerVars
<1>1. Users' = Users \cup {v} /\ v \notin Users
  BY DEF Users, PoolInv, PoolTypeOK
<1>2. IsFiniteSet(Users)
  BY FS_Subset, VMsAssumption DEF Users
<1>3. Cardinality(Users') = Cardinality(Users) + 1
  BY <1>1, <1>2, FS_AddElement
<1>4. CASE isInitialized > 0
  <2> USE <1>4
  <2>0. UNCHANGED <<tasks, terminate, pc, task, runningTask>>
    BY DEF PoolInv, PoolTypeOK
  <2>1. PoolTypeOK'
    BY <2>0 DEF PoolInv, PoolTypeOK
  <2>2. \A t : (Queued(t) <=> Queued(t)') /\ (Pending(t) <=> Pending(t)')
    BY <2>0 DEF Queued, Pending
  <2>3. WorkerInv' /\ OwnerInv' /\ PlaceInv'
    BY <2>0, <2>2 DEF PoolInv, WorkerInv, OwnerInv, PlaceInv
  <2>4. CountInv'
    BY <2>0, <1>3 DEF PoolInv, CountInv, PoolTypeOK
  <2>5. ExitInv'
    BY <2>0 DEF PoolInv, ExitInv
  <2> QED
    BY <2>1, <2>3, <2>4, <2>5 DEF PoolInv
<1>5. CASE isInitialized = 0
  <2>0. NewRunner
    BY <1>5
  <2>1. PoolTypeOK'
    <3>1. tasks' \in Seq(Tasks)
      BY <2>0 DEF NewRunner
    <3>2. /\ pc' \in [WorkerThreads -> {"pop", "wait", "set", "run", "clear", "exit"}]
          /\ task' \in [WorkerThreads -> Tasks \cup {NoTask}]
          /\ runningTask' \in [WorkerThreads -> Tasks \cup {NoTask}]
      BY <2>0 DEF NewRunner
    <3>3. vm' \in [VMs -> BOOLEAN]
      BY DEF PoolInv, PoolTypeOK
    <3>4. isInitialized' \in Nat
      BY DEF PoolInv, PoolTypeOK
    <3>5. terminate' \in BOOLEAN
      BY <2>0, Zenon DEF NewRunner
    <3> QED
      BY <3>1, <3>2, <3>3, <3>4, <3>5 DEF PoolInv, PoolTypeOK
  <2>2. WorkerInv' /\ OwnerInv'
    BY <2>0 DEF PoolInv, WorkerInv, OwnerInv, NewRunner
  <2>3. PlaceInv'
    <3>1. DrainedWhenJoined
      BY PoolInvImplies
    <3> QED
      BY <1>5, <3>1 DEF DrainedWhenJoined, PlaceInv
  <2>4. CountInv'
    BY <2>0, <1>3, <1>5 DEF PoolInv, CountInv, PoolTypeOK, NewRunner
  <2>5. ExitInv'
    BY <2>0 DEF ExitInv, NewRunner
  <2> QED
    BY <2>1, <2>2, <2>3, <2>4, <2>5 DEF PoolInv
<1> QED
  BY <1>4, <1>5 DEF PoolInv, PoolTypeOK

\* The decrement of Taskpool::Destroy keeps the invariant: the last user, and
\* nobody else, goes on to terminate the queue.
LEMMA DestroyInv ==
    ASSUME PoolInv, NEW v \in VMs, Destroy(v)
    PROVE  PoolInv'
<1> USE DEF Destroy, workerVars, queueVars
<1>1. Users' = Users \ {v} /\ v \in Users
  BY DEF Users, PoolInv, PoolTypeOK
<1>2. IsFiniteSet(Users)
  BY FS_Subset, VMsAssumption DEF Users
<1>3. Cardinality(Users') = Cardinality(Users) - 1
  BY <1>1, <1>2, FS_RemoveElement
<1>4. PoolTypeOK'
  BY DEF PoolInv, PoolTypeOK
<1>5. \A t : (Queued(t) <=> Queued(t)') /\ (Pending(t) <=> Pending(t)')
  BY DEF Queued, Pending
<1>6. WorkerInv' /\ OwnerInv' /\ PlaceInv'
  BY <1>5 DEF PoolInv, WorkerInv, OwnerInv, PlaceInv
<1>7. CountInv'
  BY <1>3 DEF PoolInv, CountInv, PoolTypeOK
<1>8. ExitInv'
  BY DEF PoolInv, ExitInv
<1> QED
  BY <1>4, <1>6, <1>7, <1>8 DEF PoolInv

\* So do the points of Destroy and ~Taskpool after it: the flags, the
\* termination of the queue, and the joining of the workers.
LEMMA DestroyStepInv ==
    ASSUME PoolInv, Exit \/ DestroyStep
    PROVE  PoolInv'
<1> USE DEF queueVars, workerVars
<1>1. CASE Terminate
  <2> USE <1>1 DEF Terminate
  <2>0. Wakes
    BY SignalAllWakes DEF PoolInv
  <2>1. PoolTypeOK'
    BY <2>0 DEF PoolInv, PoolTypeOK, Wakes
  <2>2. \A t : (Queued(t) <=> Queued(t)') /\ (Pending(t) <=> Pending(t)')
    BY <2>0 DEF Queued, Pending, Wakes
  <2>3. WorkerInv' /\ OwnerInv' /\ PlaceInv'
    BY <2>0, <2>2 DEF PoolInv, WorkerInv, OwnerInv, PlaceInv, Wakes
  <2>4. CountInv'
    BY DEF PoolInv, CountInv, Users
  <2>5. ExitInv'
    BY <2>0 DEF PoolInv, ExitInv, Wakes
  <2> QED
    BY <2>1, <2>3, <2>4, <2>5 DEF PoolInv
<1>2. CASE Exit \/ TerminateTask \/ Join
  <2>0. UNCHANGED <<vm, tasks, terminate, posted, pc, task, runningTask, finished>>
    BY <1>2 DEF Exit, TerminateTask, Join
  <2>1. PoolTypeOK'
    <3>1. isInitialized' \in Nat
      BY <1>2 DEF Exit, TerminateTask, Join, PoolInv, PoolTypeOK
    <3>2. destroy' \in {"none", "terminate", "flag", "flagAll", "join"}
      BY <1>2 DEF Exit, TerminateTask, Join
    <3>3. exited' \in BOOLEAN
      BY <1>2 DEF Exit, TerminateTask, Join, PoolInv, PoolTypeOK
    <3> QED
      BY <2>0, <3>1, <3>2, <3>3 DEF PoolInv, PoolTypeOK
  <2>2. \A t : (Queued(t) <=> Queued(t)') /\ (Pending(t) <=> Pending(t)')
    BY <2>0 DEF Queued, Pending
  <2>3. WorkerInv' /\ OwnerInv' /\ PlaceInv'
    BY <2>0, <2>2 DEF PoolInv, WorkerInv, OwnerInv, PlaceInv
  <2>4. Exit => CountInv'
    BY <2>0 DEF Exit, PoolInv, CountInv, Users, PoolTypeOK
  <2>5. TerminateTask => CountInv'
    BY <2>0 DEF TerminateTask, PoolInv, CountInv, Users, PoolTypeOK
  <2>6. Join => CountInv'
    BY <2>0 DEF Join, PoolInv, CountInv, Users, PoolTypeOK
  <2>7. ExitInv'
    BY <2>0 DEF PoolInv, ExitInv
  <2> QED
    BY <1>2, <2>1, <2>3, <2>4, <2>5, <2>6, <2>7 DEF PoolInv
<1> QED
  BY <1>1, <1>2 DEF DestroyStep

\* Every step of the pool keeps the invariant.
LEMMA PoolNextInv == PoolInv /\ [PoolNext]_taskpoolVars => PoolInv'
<1> SUFFICES ASSUME PoolInv, [PoolNext]_taskpoolVars
             PROVE  PoolInv'
    OBVIOUS
<1>1. CASE \E w \in WorkerThreads : WorkerStep(w)
  BY <1>1, PopTaskInv, RunnerInv DEF WorkerStep
<1>2. CASE \E w \in WorkerThreads : SpuriousWakeup(w)
  <2>1. Wakes
    BY <1>2 DEF SpuriousWakeup, Wakes, PoolInv, PoolTypeOK
  <2> QED
    BY <1>2, <2>1, WakeKeepsInv DEF SpuriousWakeup
<1>3. CASE \E w \in WorkerThreads, t \in Tasks : RunPostsTask(w, t)
  BY <1>3, PostKeepsInv DEF RunPostsTask
<1>4. CASE \E v \in VMs : Initialize(v) \/ Destroy(v)
  BY <1>4, InitializeInv, DestroyInv
<1>5. CASE \E v \in VMs, t \in Tasks : VMPostsTask(v, t)
  BY <1>5, PostKeepsInv, UserIsCounted DEF VMPostsTask
<1>6. CASE Exit \/ DestroyStep
  BY <1>6, DestroyStepInv
<1>7. CASE Exited \/ UNCHANGED taskpoolVars
  BY <1>7, WakeKeepsInv DEF Exited, taskpoolVars, workerVars, Wakes, PoolInv, PoolTypeOK
<1> QED
  BY <1>1, <1>2, <1>3, <1>4, <1>5, <1>6, <1>7 DEF PoolNext

-----------------------------------------------------------------------------
\* The variables keep their types, for every number of VMs, tasks and cores:
\* in particular isInitialized_ never goes below zero.
THEOREM TypeCorrect == PoolSpec => []PoolTypeOK
<1>1. PoolInv => PoolTypeOK
  BY DEF PoolInv
<1> QED
  BY <1>1, PoolInitInv, PoolNextInv, PTL DEF PoolSpec

\* Whatever the workers, the VMs and a termination of the pool do, and in
\* whatever order, no posted task is lost or run twice.
THEOREM TasksAreKept == PoolSpec => []NoTaskLostOrDuplicated
<1> QED
  BY PoolInvImplies, PoolInitInv, PoolNextInv, PTL DEF PoolSpec

\* Runner::TerminateTask never follows a stale pointer.
THEOREM RunningTasksAreAlive == PoolSpec => []RunningTaskIsAlive
<1> QED
  BY PoolInvImplies, PoolInitInv, PoolNextInv, PTL DEF PoolSpec

\* The pool has run everything that was posted when the last Destroy has
\* joined its workers.
THEOREM PoolIsDrained == PoolSpec => []DrainedWhenJoined
<1> QED
  BY PoolInvImplies, PoolInitInv, PoolNextInv, PTL DEF PoolSpec
=============================================================================
