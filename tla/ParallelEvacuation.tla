-------------------------- MODULE ParallelEvacuation --------------------------
(***************************************************************************)
(* ParallelEvacuator: the objects of the from-space and of the collection  *)
(* set are copied away by the JS thread and the EvacuationTasks, then all  *)
(* slots that refer to them are updated by the JS thread and the           *)
(* UpdateReferenceTasks (mem/parallel_evacuator.cpp).                      *)
(*                                                                         *)
(* The module begins where ConcurrentMark ends: what is marked, remembered *)
(* and queued is any outcome that its invariants allow.  A region stands   *)
(* for one of its objects, with one field; thread 0 is the JS thread.      *)
(***************************************************************************)
EXTENDS Naturals, FiniteSets

CONSTANTS
    Objects,      \* the objects that the collection finds
    NumWorkers,   \* the threads of the task pool
    Undefined     \* JSTaggedValue::Undefined(), and all that is no heap object

ASSUME NumWorkersAssumption == NumWorkers \in Nat

Main == 0
Workers == 1 .. NumWorkers
Threads == 0 .. NumWorkers

\* An address: that of an object as it was found, or that of its copy.
Addresses == [object : Objects, copied : BOOLEAN]
Original(o) == [object |-> o, copied |-> FALSE]
Copy(o) == [object |-> o, copied |-> TRUE]

\* What a field holds.  A slot is named by the address of the object it is in.
Values == [at : Addresses, weak : BOOLEAN] \cup {Undefined}

ASSUME UndefinedAssumption == Undefined \notin [at : Addresses, weak : BOOLEAN]

VARIABLES
    isFullMark,   \* Heap::IsFullMark
    parallelGC,   \* Heap::parallelGC_
    space,        \* the kind of each object's region: "old" stays, "young" and "cset" go
    marked,       \* the mark bits of the originals; a copy has none
    value,        \* what each slot holds
    roots,        \* what the VM's roots refer to
    globals,      \* what weak globals, the string table and the weak references of the VM do
    oldToNew,     \* old-to-new and sweeping sets of all regions: slots
    crossRegion,  \* cross-region sets of all regions: slots
    weakQueue,    \* the slots in the weak reference queues
    place,        \* where an object has gone: "copied" in the new space, "promoted" to the
                  \* old space, "moved" with its region, or still "here"
    local,        \* the promoted objects in each thread's LocalSpace
    merged,       \* those whose regions are in the old space
    phase,        \* "evacuate", then "update"
    workloads,    \* workloads_: what has been added and not been taken
    parallel,     \* parallel_
    queued,       \* the tasks that the pool has not started
    pc,           \* where each thread is; a worker is idle between tasks
    current,      \* the region a thread evacuates, by the address of its object, or the slot
                  \* it updates, with where it has found it
    todo,         \* the slots it is to update besides
    seen,         \* what it has read from that slot
    before        \* history: what the slots held, and those that were recorded twice

inputVars == <<isFullMark, parallelGC, space, marked, before>>
heapVars == <<value, roots, globals>>
recordVars == <<oldToNew, crossRegion, weakQueue>>
copyVars == <<place, local, merged>>
taskVars == <<phase, workloads, parallel, queued>>
threadVars == <<pc, current, todo, seen>>
vars == <<inputVars, heapVars, recordVars, copyVars, taskVars, threadVars>>

-----------------------------------------------------------------------------
(* What a slot is updated to *)

InYoungSpaceOrCSet(a) ==
    IF a.copied THEN place[a.object] = "copied" ELSE space[a.object] \in {"young", "cset"}
InYoungSpace(a) ==
    IF a.copied THEN place[a.object] = "copied" ELSE space[a.object] = "young"
InNewToNewSet(a) == ~a.copied /\ place[a.object] = "moved"
IsForwardingAddress(a) == ~a.copied /\ place[a.object] \in {"copied", "promoted"}
Test(a) == ~a.copied /\ a.object \in marked

To(v) == [v EXCEPT !.at = Copy(v.at.object)]

\* Mutant of UpdatedWeak: a region that was moved is taken for one that was left.
UpdatedWeakForgetsMoved(v) ==
    IF InYoungSpaceOrCSet(v.at)
    THEN IF IsForwardingAddress(v.at) THEN To(v) ELSE Undefined
    ELSE IF isFullMark /\ ~Test(v.at) THEN Undefined ELSE v

\* UpdateWeakObjectSlot
UpdatedWeak(v) ==
    IF InYoungSpaceOrCSet(v.at)
    THEN IF InNewToNewSet(v.at)
         THEN IF Test(v.at) THEN v ELSE Undefined
         ELSE IF IsForwardingAddress(v.at) THEN To(v) ELSE Undefined
    ELSE IF isFullMark /\ ~Test(v.at) THEN Undefined ELSE v

\* UpdateObjectSlot
Updated(v) ==
    IF v = Undefined THEN v
    ELSE IF v.weak THEN UpdatedWeak(v)
    ELSE IF IsForwardingAddress(v.at) THEN To(v) ELSE v

\* gcUpdateWeak, for a set of references
UpdatedGlobals(S) ==
    {v.at : v \in {UpdatedWeak([at |-> a, weak |-> TRUE]) : a \in S} \ {Undefined}}

-----------------------------------------------------------------------------
(* What marking leaves *)

\* In a young collection old objects are taken to be live.
Live(o) == o \in marked \/ (space[o] = "old" /\ ~isFullMark)
Stays(o) == space[o] = "old"
OldSlots == {Original(o) : o \in {p \in Objects : Stays(p)}}

ReferTo(S, kinds) == {s \in S : value[s] # Undefined /\ space[value[s].at.object] \in kinds}

\* How often a slot is going to be updated.
Records(s) == Cardinality({R \in {<<"rset", oldToNew>>, <<"cross", crossRegion>>, <<"queue", weakQueue>>} :
                            s \in R[2]})

\* Marked objects refer to live ones, and the slots of live objects that stay are recorded as
\* ConcurrentMark's properties say.  What is remembered besides was overwritten since.
Init ==
    /\ isFullMark \in BOOLEAN /\ parallelGC \in BOOLEAN
    /\ space \in [Objects -> {"old", "young"} \cup (IF isFullMark THEN {"cset"} ELSE {})]
    /\ marked \in SUBSET Objects
    /\ \E content \in [Objects -> [object : Objects, weak : BOOLEAN] \cup {Undefined}] :
        value = [s \in Addresses |->
                    IF s.copied \/ content[s.object] = Undefined THEN Undefined
                    ELSE [at |-> Original(content[s.object].object), weak |-> content[s.object].weak]]
    /\ \A o \in Objects : Live(o) /\ value[Original(o)] # Undefined /\ ~value[Original(o)].weak
                            => Live(value[Original(o)].at.object)
    /\ roots = {Original(o) : o \in {p \in Objects : Live(p)}}
    /\ globals = {Original(o) : o \in Objects}
    /\ LET kept == {s \in OldSlots : Live(s.object)}
           deadWeak == {s \in ReferTo(kept, {"old"}) :
                            value[s].weak /\ isFullMark /\ value[s].at.object \notin marked}
       IN  /\ oldToNew \in {ReferTo(kept, {"young"}), OldSlots}
           /\ crossRegion \in {ReferTo(kept, {"cset"}), IF isFullMark THEN OldSlots ELSE {}}
           /\ weakQueue \in {deadWeak, OldSlots}
    /\ place = [o \in Objects |-> "here"]
    /\ local = [t \in Threads |-> {}] /\ merged = {}
    /\ phase = "evacuate" /\ workloads = {} /\ parallel = 0 /\ queued = 0
    /\ pc = [t \in Threads |-> IF t = Main THEN "evacuate" ELSE "idle"]
    /\ current = [t \in Threads |-> Undefined]
    /\ todo = [t \in Threads |-> {}] /\ seen = [t \in Threads |-> Undefined]
    /\ before = [value |-> value, twice |-> {s \in OldSlots : Records(s) > 1}]

-----------------------------------------------------------------------------
(* Tasks and workloads of both phases *)

GoTo(t, label) == pc' = [pc EXCEPT ![t] = label]

\* The tasks are posted under mutex_, which their first GetWorkloadSafe waits for.
PostTasks ==
    /\ parallel' \in IF parallelGC /\ Workers # {} THEN Workers ELSE {0}
    /\ queued' = parallel'

StartTask(w) ==
    /\ pc[w] = "idle" /\ queued > 0
    /\ queued' = queued - 1
    /\ GoTo(w, "take")
    /\ UNCHANGED <<inputVars, heapVars, recordVars, copyVars, phase, workloads, parallel, current, todo, seen>>

\* Mutant of CountDown: the last task wakes nobody.
CountDownSilently(w) ==
    /\ pc[w] = "count"
    /\ parallel' = parallel - 1
    /\ GoTo(w, "idle")
    /\ UNCHANGED <<inputVars, heapVars, recordVars, copyVars, phase, workloads, queued, current, todo, seen>>

\* The end of a task: the last one wakes the JS thread.
CountDown(w) ==
    /\ pc[w] = "count"
    /\ parallel' = parallel - 1
    /\ pc' = [t \in Threads |-> IF t = w THEN "idle"
                                ELSE IF pc[t] = "asleep" /\ parallel' <= 0 THEN "wait" ELSE pc[t]]
    /\ UNCHANGED <<inputVars, heapVars, recordVars, copyVars, phase, workloads, queued, current, todo, seen>>

\* The JS thread, on its way from one phase to the next.
WaitFinished ==
    /\ pc[Main] = "wait"
    /\ GoTo(Main, IF parallel > 0 THEN "asleep" ELSE IF phase = "evacuate" THEN "enumerate" ELSE "done")
    /\ UNCHANGED <<inputVars, heapVars, recordVars, copyVars, taskVars, current, todo, seen>>

\* Mutant of SpuriousWakeup: the condition is not tested again.
SpuriousWakeupGoesOn ==
    /\ pc[Main] = "asleep"
    /\ GoTo(Main, IF phase = "evacuate" THEN "enumerate" ELSE "done")
    /\ UNCHANGED <<inputVars, heapVars, recordVars, copyVars, taskVars, current, todo, seen>>

\* condition_.Wait returns and the loop tests parallel_ again.
SpuriousWakeup ==
    /\ pc[Main] = "asleep"
    /\ GoTo(Main, "wait")
    /\ UNCHANGED <<inputVars, heapVars, recordVars, copyVars, taskVars, current, todo, seen>>

AfterWorkloads(t) == IF t = Main THEN "wait" ELSE "count"

-----------------------------------------------------------------------------
(* EvacuateSpace *)

EvacuateSpace ==
    /\ pc[Main] = "evacuate"
    /\ workloads' = {Original(o) : o \in {p \in Objects : ~Stays(p)}}
    /\ PostTasks
    /\ GoTo(Main, "take")
    /\ UNCHANGED <<inputVars, heapVars, recordVars, copyVars, phase, current, todo, seen>>

TakeEvacuateWorkload(t) ==
    /\ pc[t] = "take" /\ phase = "evacuate"
    /\ \E a \in workloads :
        /\ workloads' = workloads \ {a}
        /\ current' = [current EXCEPT ![t] = a]
    /\ GoTo(t, "copy")
    /\ UNCHANGED <<inputVars, heapVars, recordVars, copyVars, phase, parallel, queued, todo, seen>>

\* Mutant of SetObjectFieldRSet: a weak reference that stays is not recorded.
SetObjectFieldRSetStrong(s, v) ==
    LET young == v # Undefined /\ InYoungSpace(v.at)
        cross == v # Undefined /\ ~young /\ space[v.at.object] = "cset"
    IN  /\ oldToNew' = IF young THEN oldToNew \cup {s} ELSE oldToNew
        /\ crossRegion' = IF cross THEN crossRegion \cup {s} ELSE crossRegion

\* SetObjectFieldRSet: what a promoted object refers to, before anything is updated.
SetObjectFieldRSet(s, v) ==
    LET young == v # Undefined /\ InYoungSpace(v.at)
        cross == v # Undefined /\ ~young /\ (space[v.at.object] = "cset" \/ v.weak)
    IN  /\ oldToNew' = IF young THEN oldToNew \cup {s} ELSE oldToNew
        /\ crossRegion' = IF cross THEN crossRegion \cup {s} ELSE crossRegion

CopyObject(t, o) ==
    /\ value' = [value EXCEPT ![Copy(o)] = value[Original(o)]]
    /\ \/ /\ space[o] = "young"
          /\ place' = [place EXCEPT ![o] = "copied"]
          /\ UNCHANGED <<local, oldToNew, crossRegion>>
       \/ /\ place' = [place EXCEPT ![o] = "promoted"]
          /\ local' = [local EXCEPT ![t] = @ \cup {o}]
          /\ SetObjectFieldRSet(Copy(o), value[Original(o)])

\* EvacuateRegion.  A young region is moved as a whole when most of it is live and the new
\* space has room; an object is promoted for its age, or when the new space has no room.
EvacuateRegion(t) ==
    LET o == current[t].object
    IN  /\ pc[t] = "copy"
        /\ \/ /\ space[o] = "young"
              /\ place' = [place EXCEPT ![o] = "moved"]
              /\ UNCHANGED <<value, local, oldToNew, crossRegion>>
           \/ o \in marked /\ CopyObject(t, o)
           \/ o \notin marked /\ UNCHANGED <<value, place, local, oldToNew, crossRegion>>
        /\ current' = [current EXCEPT ![t] = Undefined]
        /\ GoTo(t, "take")
        /\ UNCHANGED <<inputVars, roots, globals, weakQueue, merged, taskVars, todo, seen>>

\* TlabAllocator::Finalize when no workload is left: the LocalSpace joins the old space.
Finalize(t) ==
    /\ pc[t] = "take" /\ phase = "evacuate" /\ workloads = {}
    /\ merged' = merged \cup local[t]
    /\ local' = [local EXCEPT ![t] = {}]
    /\ GoTo(t, AfterWorkloads(t))
    /\ UNCHANGED <<inputVars, heapVars, recordVars, place, taskVars, current, todo, seen>>

-----------------------------------------------------------------------------
(* UpdateReference *)

UpdateReference ==
    /\ pc[Main] = "enumerate"
    /\ phase' = "update"
    /\ workloads' = {Original(o) : o \in {p \in Objects : Stays(p) \/ place[p] = "moved"}}
                    \cup {Copy(o) : o \in {p \in Objects : place[p] = "copied" \/ p \in merged}}
    /\ PostTasks
    /\ GoTo(Main, "roots")
    /\ UNCHANGED <<inputVars, heapVars, recordVars, copyVars, current, todo, seen>>

\* UpdateRoot, and what UpdateWeakReference does outside the heap; the slots of the weak
\* reference queues come next.
UpdateRoot ==
    /\ pc[Main] = "roots"
    /\ roots' = {Updated([at |-> a, weak |-> FALSE]).at : a \in roots}
    /\ globals' = UpdatedGlobals(globals)
    /\ todo' = [todo EXCEPT ![Main] = {<<"queue", s>> : s \in weakQueue}]
    /\ weakQueue' = {}
    /\ GoTo(Main, IF weakQueue = {} THEN "take" ELSE "update")
    /\ UNCHANGED <<inputVars, value, oldToNew, crossRegion, copyVars, taskVars, current, seen>>

\* UpdateRSet, UpdateNewRegionReference or UpdateAndSweepNewRegionReference: where the
\* workload of the region at address a finds slots.
SlotsOf(a) ==
    IF InNewToNewSet(a) THEN IF Test(a) THEN {<<"field", a>>} ELSE {}
    ELSE IF InYoungSpace(a) THEN {<<"field", a>>}
    ELSE {<<"rset", s>> : s \in oldToNew \cap {a}} \cup {<<"cross", s>> : s \in crossRegion \cap {a}}

TakeUpdateWorkload(t) ==
    /\ pc[t] = "take" /\ phase = "update"
    /\ \E a \in workloads :
        /\ workloads' = workloads \ {a}
        /\ todo' = [todo EXCEPT ![t] = SlotsOf(a)]
        /\ GoTo(t, IF SlotsOf(a) = {} THEN "take" ELSE "update")
    /\ UNCHANGED <<inputVars, heapVars, recordVars, copyVars, phase, parallel, queued, current, seen>>

\* The cross-region set of a region comes after its old-to-new set.
IsNext(t, x) == x \in todo[t] /\ (x[1] = "cross" => <<"rset", x[2]>> \notin todo[t])

ReadSlot(t) ==
    /\ pc[t] = "update"
    /\ \E x \in todo[t] :
        /\ IsNext(t, x)
        /\ current' = [current EXCEPT ![t] = x]
        /\ seen' = [seen EXCEPT ![t] = value[x[2]]]
    /\ GoTo(t, "write")
    /\ UNCHANGED <<inputVars, heapVars, recordVars, copyVars, taskVars, todo>>

\* Mutant of IsDropped: every slot that was updated is dropped.
IsDroppedOnceUpdated(v, u) == u \notin {v, Undefined}

\* UpdateRSet's callback: a slot whose object was promoted is no longer an old-to-new slot.
IsDropped(v, u) == u \notin {v, Undefined} /\ ~InYoungSpace(u.at)

\* The slot is written only if it changes; the cross-region set is cleared.  The queues'
\* slots are updated only if weak.
WriteSlot(t) ==
    LET record == current[t][1]
        s == current[t][2]
        v == seen[t]
        u == IF record = "queue" /\ v # Undefined /\ ~v.weak THEN v ELSE Updated(v)
        left == todo[t] \ {current[t]}
    IN  /\ pc[t] = "write"
        /\ value' = IF u = v THEN value ELSE [value EXCEPT ![s] = u]
        /\ oldToNew' = IF record = "rset" /\ IsDropped(v, u) THEN oldToNew \ {s} ELSE oldToNew
        /\ crossRegion' = IF record = "cross" THEN crossRegion \ {s} ELSE crossRegion
        /\ todo' = [todo EXCEPT ![t] = left]
        /\ current' = [current EXCEPT ![t] = Undefined]
        /\ seen' = [seen EXCEPT ![t] = Undefined]
        /\ GoTo(t, IF left = {} THEN "take" ELSE "update")
        /\ UNCHANGED <<inputVars, roots, globals, weakQueue, copyVars, taskVars>>

NoWorkload(t) ==
    /\ pc[t] = "take" /\ phase = "update" /\ workloads = {}
    /\ GoTo(t, AfterWorkloads(t))
    /\ UNCHANGED <<inputVars, heapVars, recordVars, copyVars, taskVars, current, todo, seen>>

ThreadStep(t) ==
    \/ TakeEvacuateWorkload(t) \/ EvacuateRegion(t) \/ Finalize(t)
    \/ TakeUpdateWorkload(t) \/ ReadSlot(t) \/ WriteSlot(t) \/ NoWorkload(t)

MainStep == EvacuateSpace \/ UpdateReference \/ UpdateRoot \/ WaitFinished \/ ThreadStep(Main)
WorkerStep(w) == StartTask(w) \/ ThreadStep(w) \/ CountDown(w)

\* Finalize and Resume free the from-space and the collection set: the module ends here.
Terminating == pc[Main] = "done" /\ UNCHANGED vars

Next == MainStep \/ SpuriousWakeup \/ (\E w \in Workers : WorkerStep(w)) \/ Terminating

Fairness == WF_vars(MainStep) /\ \A w \in Workers : WF_vars(WorkerStep(w))

Spec == Init /\ [][Next]_vars /\ Fairness

-----------------------------------------------------------------------------
(* Properties *)

\* The values of the variables, the counters of the tasks among them.
TypeOK ==
    /\ isFullMark \in BOOLEAN /\ parallelGC \in BOOLEAN
    /\ space \in [Objects -> {"old", "young", "cset"}] /\ marked \subseteq Objects
    /\ value \in [Addresses -> Values]
    /\ roots \subseteq Addresses /\ globals \subseteq Addresses
    /\ oldToNew \subseteq Addresses /\ crossRegion \subseteq Addresses /\ weakQueue \subseteq Addresses
    /\ place \in [Objects -> {"here", "moved", "copied", "promoted"}]
    /\ local \in [Threads -> SUBSET Objects] /\ merged \subseteq Objects
    /\ phase \in {"evacuate", "update"} /\ workloads \subseteq Addresses
    /\ parallel \in 0 .. NumWorkers /\ queued \in 0 .. parallel
    /\ pc \in [Threads -> {"idle", "evacuate", "take", "copy", "count", "wait", "asleep", "enumerate",
                           "roots", "update", "write", "done"}]

\* Nobody copies once the JS thread has gone on, and nobody updates at the end: parallel_
\* counts the tasks that are not through, although its waiter first reads it unlocked, and
\* what they have promoted is then part of the old space.
PhasesAreApart ==
    /\ TypeOK
    /\ parallel = queued + Cardinality({w \in Workers : pc[w] # "idle"})
    /\ pc[Main] \in {"enumerate", "done"} =>
        /\ parallel = 0 /\ workloads = {}
        /\ merged = {o \in Objects : place[o] = "promoted"}

Final(o) == IF place[o] \in {"copied", "promoted"} THEN Copy(o) ELSE Original(o)

\* When the old memory is freed nothing that lives refers to it: every live object is in its
\* final place, every reference, root and weak global is to the final place of a live object,
\* and dead weak references are undefined; whichever thread copied and updated what.
NothingDangles ==
    pc[Main] = "done" =>
        /\ \A o \in Objects : Live(o) /\ value[Final(o)] # Undefined =>
            LET v == value[Final(o)] IN Live(v.at.object) /\ v.at = Final(v.at.object)
        /\ roots = {Final(o) : o \in {p \in Objects : Live(p)}}
        /\ globals = roots

\* A live object loses no reference, strong or weak, to an object that lives (except a weak
\* one in a slot that was recorded twice).
ReferencesAreKept ==
    pc[Main] = "done" =>
        \A o \in Objects : Live(o) /\ before.value[Original(o)] # Undefined =>
            LET v == before.value[Original(o)]
            IN  Live(v.at.object) /\ (v.weak => Original(o) \notin before.twice) =>
                    value[Final(o)] = [v EXCEPT !.at = Final(v.at.object)]

\* The next young collection finds what it needs: a live slot of the old space that refers to
\* an object that stays young is in an old-to-new set, also when its holder was promoted, or
\* when others in the same set were dropped.
YoungSlotsAreRemembered ==
    pc[Main] = "done" =>
        \A o \in Objects : Live(o) /\ ~InYoungSpace(Final(o)) /\ value[Final(o)] # Undefined =>
            (InYoungSpace(value[Final(o)].at) => Final(o) \in oldToNew)

\* The evacuation comes to an end.
EvacuationEnds == <>(pc[Main] = "done")

=============================================================================
