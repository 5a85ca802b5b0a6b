----------------------- MODULE ParallelEvacuationProofs -----------------------
(***************************************************************************)
(* What ParallelEvacuation promises, proved for any number of objects and  *)
(* threads: the phases are apart, the memory that is freed is referred to  *)
(* by nothing, no reference is lost, and what the next young collection    *)
(* needs is remembered, whichever thread copies and updates what.          *)
(***************************************************************************)
EXTENDS ParallelEvacuation, FiniteSetTheorems, TLAPS

-----------------------------------------------------------------------------
(* The invariant: threads *)

Kinds == {"queue", "rset", "cross", "field"}
SlotRecords == Kinds \X Addresses

\* The locals of the threads.
LocalsInv ==
    /\ current \in [Threads -> Addresses \cup SlotRecords \cup {Undefined}]
    /\ todo \in [Threads -> SUBSET SlotRecords]
    /\ seen \in [Threads -> Values]

\* Where a thread may be, and with what in its locals.
ThreadInv ==
    /\ \A w \in Workers : pc[w] \in {"idle", "take", "copy", "count", "update", "write"}
    /\ pc[Main] \notin {"idle", "count"}
    /\ \A t \in Threads :
        /\ pc[t] = "copy" => phase = "evacuate" /\ \E o \in Objects : current[t] = Original(o) /\ ~Stays(o)
        /\ pc[t] \in {"update", "write"} => phase = "update"
        /\ pc[t] \notin {"update", "write"} => todo[t] = {}
        /\ pc[t] = "write" => current[t] \in todo[t]
        /\ local[t] # {} => pc[t] \in {"take", "copy"} /\ phase = "evacuate"

\* The JS thread's way through the phases, and what it has waited for.
MainInv ==
    /\ pc[Main] \in {"evacuate", "enumerate"} => phase = "evacuate"
    /\ pc[Main] \in {"roots", "done"} => phase = "update"
    /\ pc[Main] \in {"evacuate", "enumerate", "done"} => parallel = 0
    /\ pc[Main] \in {"evacuate", "wait", "asleep", "enumerate", "done"} => workloads = {}
    /\ phase = "evacuate" => \A a \in workloads : \E o \in Objects : a = Original(o) /\ ~Stays(o)

\* parallel_ counts the tasks that are not through.
Busy == {w \in Workers : pc[w] # "idle"}
CountInv == parallel = queued + Cardinality(Busy)

ControlInv == TypeOK /\ LocalsInv /\ ThreadInv /\ MainInv /\ CountInv

-----------------------------------------------------------------------------
(* The invariant: copying *)

\* What lives has left the regions that go.
Placed == \A o \in marked : ~Stays(o) => place[o] # "here"

\* Where an object may have gone.
PlaceInv ==
    /\ phase = "update" => Placed
    /\ \A o \in Objects :
        /\ Stays(o) => place[o] = "here"
        /\ place[o] = "copied" => space[o] = "young" /\ o \in marked
        /\ place[o] = "promoted" => o \in marked
        /\ place[o] = "moved" => space[o] = "young"

\* What is promoted is in the region of a thread, or has joined the old space.
PromotedInv ==
    \A o \in Objects : place[o] = "promoted" <=> o \in merged \/ \E t \in Threads : o \in local[t]

\* A region that goes is a workload, or that of one thread, until its object has gone.
WorkInv ==
    phase = "evacuate" =>
        /\ pc[Main] = "evacuate" => \A o \in Objects : place[o] = "here"
        /\ \A a \in workloads :
            /\ place[a.object] = "here"
            /\ \A t \in Threads : pc[t] = "copy" => current[t] # a
        /\ \A t \in Threads : pc[t] = "copy" =>
            /\ place[current[t].object] = "here"
            /\ \A u \in Threads : pc[u] = "copy" /\ current[t] = current[u] => t = u
        /\ pc[Main] # "evacuate" =>
            \A o \in marked : ~Stays(o) /\ place[o] = "here" =>
                Original(o) \in workloads \/ \E t \in Threads : pc[t] = "copy" /\ current[t] = Original(o)

CopyingInv == PlaceInv /\ PromotedInv /\ WorkInv

\* What the slot of an object held, and the object it referred to; whether the object is old
\* once it has gone.
Was(o) == before.value[Original(o)]
Target(o) == Was(o).at.object
Old(o) == Stays(o) \/ place[o] = "promoted"

\* Slots hold the addresses of originals, and strong references are to what lives.
BeforeInv ==
    \A o \in Objects :
        /\ Was(o) \in Values
        /\ Was(o) # Undefined => Was(o).at = Original(Target(o))
        /\ Live(o) /\ Was(o) # Undefined /\ ~Was(o).weak => Live(Target(o))

\* Which sets a slot of the old space may be in, and in which it is if its referent goes or dies.
RecordInv ==
    /\ \A o \in Objects :
        /\ Original(o) \in oldToNew \cup crossRegion \cup weakQueue => Stays(o)
        /\ Copy(o) \in oldToNew \cup crossRegion => place[o] = "promoted"
        /\ Copy(o) \notin weakQueue
        /\ ~(Copy(o) \in oldToNew /\ Copy(o) \in crossRegion)
        /\ Original(o) \notin before.twice =>
            /\ ~(Original(o) \in oldToNew /\ Original(o) \in crossRegion)
            /\ ~(Original(o) \in oldToNew /\ Original(o) \in weakQueue)
            /\ ~(Original(o) \in crossRegion /\ Original(o) \in weakQueue)
    /\ phase = "evacuate" => \A o \in Objects : Live(o) /\ Old(o) /\ Was(o) # Undefined =>
        /\ space[Target(o)] = "young" => Final(o) \in oldToNew
        /\ space[Target(o)] = "cset" => Final(o) \in crossRegion
        /\ Was(o).weak /\ space[Target(o)] = "old" =>
            /\ ~Stays(o) => Final(o) \in crossRegion
            /\ Stays(o) /\ isFullMark /\ Target(o) \notin marked => Final(o) \in weakQueue

\* Nothing is updated before everything is copied.
CopyInv ==
    phase = "evacuate" =>
        \A o \in Objects : /\ value[Original(o)] = Was(o)
                           /\ value[Final(o)] = Was(o)

RecordedInv == BeforeInv /\ RecordInv /\ CopyInv

\* The roots, before and after UpdateRoot.
RootsInv ==
    IF phase = "evacuate" \/ pc[Main] = "roots"
    THEN /\ roots = {Original(o) : o \in {p \in Objects : Live(p)}}
         /\ globals = {Original(o) : o \in Objects}
    ELSE roots = {Final(o) : o \in {p \in Objects : Live(p)}} /\ globals = roots

-----------------------------------------------------------------------------
(* The invariant: updating *)

\* What the slot of a live object has to become.
Becomes(o) ==
    IF Was(o) = Undefined \/ ~Live(Target(o)) THEN Undefined
    ELSE [Was(o) EXCEPT !.at = Final(Target(o))]

\* How it is found if that is something else.
Kind(o) ==
    IF ~Old(o) THEN "field"
    ELSE IF space[Target(o)] = "young" THEN "rset"
    ELSE IF space[Target(o)] = "cset" \/ ~Stays(o) THEN "cross" ELSE "queue"

\* How the workload of the region at address s finds its slot.
HasRecord(k, s) ==
    \/ k = "field" /\ ((InNewToNewSet(s) /\ Test(s)) \/ (~InNewToNewSet(s) /\ InYoungSpace(s)))
    \/ k = "rset" /\ s \in oldToNew /\ ~InNewToNewSet(s) /\ ~InYoungSpace(s)
    \/ k = "cross" /\ s \in crossRegion /\ ~InNewToNewSet(s) /\ ~InYoungSpace(s)

\* A record that no thread has taken, and one that no thread is through with.
Waits(k, s) ==
    \/ k = "queue" /\ s \in weakQueue
    \/ s \in workloads /\ HasRecord(k, s)
Pending(k, s) == Waits(k, s) \/ \E t \in Threads : <<k, s>> \in todo[t]

\* The thread has read the slot and goes to write it.
Writes(t, s) == pc[t] = "write" /\ current[t][2] = s

\* A record is with one thread when it is no longer waiting.
TakenInv ==
    /\ phase = "update" /\ weakQueue # {} => pc[Main] = "roots"
    /\ \A t \in Threads : \A x \in todo[t] :
        /\ x[1] = "queue" => t = Main /\ weakQueue = {}
        /\ x[1] # "queue" =>
            /\ x[2] \notin workloads
            /\ \A u \in Threads : \A y \in todo[u] : y[1] # "queue" /\ y[2] = x[2] => u = t

\* The slot of object o: it holds what it did, or what it has to; in the first case the record
\* that finds it is pending.  A thread that has read it later than another wrote it knows.  It
\* leaves the old-to-new set only when what it refers to is known to have left the young space.
SlotOf(o) ==
    /\ value[Final(o)] \in {Was(o), Becomes(o), Undefined}
    /\ \A t \in Threads : Writes(t, Final(o)) =>
        /\ seen[t] \in {Was(o), Becomes(o), Undefined}
        /\ seen[t] \in {Becomes(o), Undefined} => value[Final(o)] \in {Becomes(o), Undefined}
    /\ value[Final(o)] \in {Becomes(o), Undefined} \/ Pending(Kind(o), Final(o))
    /\ Old(o) /\ Was(o) # Undefined /\ space[Target(o)] = "young" =>
        \/ Final(o) \in oldToNew
        \/ /\ value[Final(o)] \in {Becomes(o), Undefined}
           /\ Becomes(o) # Undefined => ~InYoungSpace(Becomes(o).at)

\* Its reference is to be kept.
Kept(o) == Was(o) # Undefined /\ Live(Target(o)) /\ (Was(o).weak => Original(o) \notin before.twice)

\* Nobody has lost it, nor is about to.
KeptOf(o) ==
    /\ value[Final(o)] # Undefined
    /\ \A t \in Threads : Writes(t, Final(o)) => seen[t] # Undefined

\* A weak one is updated once.
OnceOf(o) ==
    /\ \A k, l \in Kinds : Pending(k, Final(o)) /\ Pending(l, Final(o)) => k = l
    /\ \A k \in Kinds : Pending(k, Final(o)) => value[Final(o)] = Was(o)
    /\ \A t \in Threads : Writes(t, Final(o)) => seen[t] = Was(o)

\* What holds of the slot of a live object while slots are updated.
SlotInv(o) ==
    /\ SlotOf(o)
    /\ Kept(o) => KeptOf(o)
    /\ Kept(o) /\ Was(o).weak => OnceOf(o)

UpdateInv == phase = "update" => \A o \in Objects : Live(o) => SlotInv(o)

Inv ==
    /\ ControlInv
    /\ CopyingInv /\ RecordedInv /\ RootsInv
    /\ TakenInv /\ UpdateInv

-----------------------------------------------------------------------------
(* Threads, addresses and steps *)

\* The JS thread and the finitely many workers.
LEMMA ThreadFacts ==
    /\ Main \in Threads /\ Main \notin Workers
    /\ \A t : t \in Threads <=> t = Main \/ t \in Workers
    /\ IsFiniteSet(Workers) /\ Cardinality(Workers) = NumWorkers
    /\ Workers \subseteq Nat
<1>1. NumWorkers \in Nat
  BY NumWorkersAssumption
<1>2. Main \in Threads /\ Main \notin Workers /\ \A t : t \in Threads <=> t = Main \/ t \in Workers
  BY <1>1 DEF Main, Threads, Workers
<1>3. IsFiniteSet(Workers) /\ Cardinality(Workers) = NumWorkers
  <2>1. 1 \in Int /\ NumWorkers \in Int /\ (IF 1 > NumWorkers THEN 0 ELSE NumWorkers - 1 + 1) = NumWorkers
    BY <1>1
  <2> QED
    BY <2>1, FS_Interval DEF Workers
<1>4. Workers \subseteq Nat
  BY <1>1 DEF Workers
<1> QED
  BY <1>2, <1>3, <1>4

\* The two addresses of an object.
LEMMA AddressFacts ==
    /\ \A o \in Objects : /\ Original(o) \in Addresses /\ Copy(o) \in Addresses
                          /\ Original(o).object = o /\ Copy(o).object = o
                          /\ Original(o).copied = FALSE /\ Copy(o).copied = TRUE
    /\ \A a \in Addresses : a.object \in Objects /\ (a = Original(a.object) \/ a = Copy(a.object))
    /\ \A o, p : Original(o) # Copy(p)
BY DEF Original, Copy, Addresses

\* A reference is to an object, and stays one when it is updated.
LEMMA UpdatedType ==
    ASSUME NEW v \in Values
    PROVE  /\ v # Undefined => v \in [at : Addresses, weak : BOOLEAN] /\ v.at \in Addresses
           /\ v # Undefined => UpdatedWeak(v) \in Values
           /\ Updated(v) \in Values
<1>1. v # Undefined => v \in [at : Addresses, weak : BOOLEAN] /\ v.at \in Addresses
  BY DEF Values
<1>2. v # Undefined => To(v) \in [at : Addresses, weak : BOOLEAN]
  <2> SUFFICES ASSUME v # Undefined
               PROVE  To(v) \in [at : Addresses, weak : BOOLEAN]
      OBVIOUS
  <2>1. v.at.object \in Objects
    BY <1>1, AddressFacts
  <2>2. Copy(v.at.object) \in Addresses
    BY <2>1, AddressFacts
  <2> QED
    BY <1>1, <2>2 DEF To
<1>3. v # Undefined => UpdatedWeak(v) \in {v, To(v), Undefined}
  BY DEF UpdatedWeak
<1>4. v # Undefined => Updated(v) \in {v, To(v), Undefined}
  BY <1>3 DEF Updated
<1>5. Updated(Undefined) = Undefined
  BY DEF Updated
<1> QED
  BY <1>1, <1>2, <1>3, <1>4, <1>5 DEF Values

\* Every step is that of the JS thread alone, of a worker alone, or of either.
LEMMA Steps ==
    ASSUME [Next]_vars
    PROVE  \/ EvacuateSpace \/ UpdateReference \/ UpdateRoot \/ WaitFinished \/ SpuriousWakeup
           \/ UNCHANGED vars
           \/ \E w \in Workers : StartTask(w) \/ CountDown(w)
           \/ \E t \in Threads : \/ TakeEvacuateWorkload(t) \/ EvacuateRegion(t) \/ Finalize(t)
                                 \/ TakeUpdateWorkload(t) \/ ReadSlot(t) \/ WriteSlot(t) \/ NoWorkload(t)
BY ThreadFacts DEF Next, MainStep, WorkerStep, ThreadStep, Terminating

-----------------------------------------------------------------------------
(* Control *)

\* At the start the JS thread is alone.
LEMMA InitControl == Init => ControlInv
<1> SUFFICES ASSUME Init
             PROVE  ControlInv
    OBVIOUS
<1>1. value \in [Addresses -> Values]
  <2>1. PICK content \in [Objects -> [object : Objects, weak : BOOLEAN] \cup {Undefined}] :
            value = [s \in Addresses |->
                       IF s.copied \/ content[s.object] = Undefined THEN Undefined
                       ELSE [at |-> Original(content[s.object].object), weak |-> content[s.object].weak]]
    BY DEF Init
  <2>2. ASSUME NEW s \in Addresses, content[s.object] # Undefined
        PROVE  [at |-> Original(content[s.object].object), weak |-> content[s.object].weak] \in Values
    <3>1. content[s.object] \in [object : Objects, weak : BOOLEAN]
      BY <2>2, AddressFacts
    <3>2. content[s.object].object \in Objects /\ content[s.object].weak \in BOOLEAN
      BY <3>1
    <3>3. Original(content[s.object].object) \in Addresses
      BY <3>2, AddressFacts
    <3> QED
      BY <3>2, <3>3 DEF Values
  <2>3. Undefined \in Values
    BY DEF Values
  <2> QED
    BY <2>1, <2>2, <2>3
<1>2. /\ roots \subseteq Addresses /\ globals \subseteq Addresses
      /\ oldToNew \subseteq Addresses /\ crossRegion \subseteq Addresses /\ weakQueue \subseteq Addresses
  <2>1. OldSlots \subseteq Addresses
    BY AddressFacts DEF OldSlots
  <2>2. /\ roots = {Original(o) : o \in {p \in Objects : Live(p)}}
        /\ globals = {Original(o) : o \in Objects}
    BY DEF Init
  <2>3. /\ oldToNew \subseteq OldSlots /\ crossRegion \subseteq OldSlots /\ weakQueue \subseteq OldSlots
    BY DEF Init, ReferTo
  <2> QED
    BY <2>1, <2>2, <2>3, AddressFacts
<1>3. TypeOK
  <2>1. /\ isFullMark \in BOOLEAN /\ parallelGC \in BOOLEAN
        /\ space \in [Objects -> {"old", "young", "cset"}] /\ marked \subseteq Objects
    <3>1. {"old", "young"} \cup (IF isFullMark THEN {"cset"} ELSE {}) \subseteq {"old", "young", "cset"}
      OBVIOUS
    <3>2. space \in [Objects -> {"old", "young"} \cup (IF isFullMark THEN {"cset"} ELSE {})]
      BY DEF Init
    <3>3. space \in [Objects -> {"old", "young", "cset"}]
      BY ONLY <3>1, <3>2
    <3> QED
      BY <3>3 DEF Init
  <2>2. /\ place \in [Objects -> {"here", "moved", "copied", "promoted"}]
        /\ local \in [Threads -> SUBSET Objects] /\ merged \subseteq Objects
    BY DEF Init
  <2>3. phase \in {"evacuate", "update"} /\ workloads \subseteq Addresses
    BY DEF Init
  <2>4. parallel \in 0 .. NumWorkers /\ queued \in 0 .. parallel
    <3>1. parallel = 0 /\ queued = 0
      BY DEF Init
    <3> QED
      BY ONLY <3>1, NumWorkersAssumption
  <2>5. pc \in [Threads -> {"idle", "evacuate", "take", "copy", "count", "wait", "asleep", "enumerate",
                            "roots", "update", "write", "done"}]
    BY DEF Init
  <2> QED
    BY <1>1, <1>2, <2>1, <2>2, <2>3, <2>4, <2>5 DEF TypeOK
<1>4. LocalsInv
  BY DEF Init, LocalsInv, Values
<1>5. ThreadInv
  BY ThreadFacts DEF Init, ThreadInv
<1>6. MainInv
  BY ThreadFacts DEF Init, MainInv
<1>7. CountInv
  <2>1. Busy = {}
    BY ThreadFacts DEF Init, Busy
  <2> QED
    <3>1. parallel = 0 /\ queued = 0
      BY DEF Init
    <3>2. Cardinality(Busy) = 0
      BY ONLY <2>1, FS_EmptySet
    <3> QED
      BY ONLY <3>1, <3>2 DEF CountInv
<1> QED
  BY <1>3, <1>4, <1>5, <1>6, <1>7 DEF ControlInv

\* Tasks start with none at work.
LEMMA IdleFacts ==
    ASSUME ControlInv, parallel = 0
    PROVE  queued = 0 /\ Busy = {} /\ \A w \in Workers : pc[w] = "idle"
<1>1. IsFiniteSet(Busy)
  BY ThreadFacts, FS_Subset DEF Busy
<1>2. Cardinality(Busy) \in Nat
  BY <1>1, FS_CardinalityType
<1>3. queued \in Nat /\ queued = 0 /\ parallel = queued + Cardinality(Busy)
  BY DEF ControlInv, TypeOK, CountInv
<1>4. Cardinality(Busy) = 0
  BY <1>2, <1>3
<1>5. Busy = {}
  BY <1>1, <1>4, FS_EmptySet
<1> QED
  BY <1>3, <1>5 DEF Busy

\* No step leaves the types, the counters of the tasks among them.
LEMMA StepKeepsType == ControlInv /\ [Next]_vars => TypeOK' /\ LocalsInv'
<1> SUFFICES ASSUME ControlInv, [Next]_vars
             PROVE  TypeOK' /\ LocalsInv'
    OBVIOUS
<1> USE DEF ControlInv, TypeOK, LocalsInv, inputVars, heapVars, recordVars, copyVars, taskVars, threadVars
<1> DEFINE Labels == {"idle", "evacuate", "take", "copy", "count", "wait", "asleep", "enumerate",
                      "roots", "update", "write", "done"}
<1>0. Main \in Threads /\ Workers \subseteq Threads /\ Workers \subseteq 0 .. NumWorkers /\ NumWorkers \in Nat
  BY ThreadFacts, NumWorkersAssumption DEF Workers
<1>1. CASE UNCHANGED vars
  BY <1>1 DEF vars
<1>2. CASE EvacuateSpace
  <2>1. workloads' \subseteq Addresses
    BY <1>2, AddressFacts DEF EvacuateSpace
  <2>2. parallel' \in 0 .. NumWorkers /\ queued' \in 0 .. parallel'
    BY <1>0, <1>2 DEF EvacuateSpace, PostTasks
  <2>3. pc' \in [Threads -> Labels]
    BY <1>0, <1>2 DEF EvacuateSpace, GoTo
  <2> QED
    BY <1>2, <2>1, <2>2, <2>3 DEF EvacuateSpace
<1>3. CASE UpdateReference
  <2>1. workloads' \subseteq Addresses
    BY <1>3, AddressFacts DEF UpdateReference
  <2>2. parallel' \in 0 .. NumWorkers /\ queued' \in 0 .. parallel'
    BY <1>0, <1>3 DEF UpdateReference, PostTasks
  <2>3. pc' \in [Threads -> Labels]
    BY <1>0, <1>3 DEF UpdateReference, GoTo
  <2> QED
    BY <1>3, <2>1, <2>2, <2>3 DEF UpdateReference
<1>4. CASE UpdateRoot
  <2>1. roots' \subseteq Addresses
    <3>1. ASSUME NEW a \in roots
          PROVE  Updated([at |-> a, weak |-> FALSE]).at \in Addresses
      <4>1. [at |-> a, weak |-> FALSE].at = a /\ a \in Addresses
        OBVIOUS
      <4>2. Copy(a.object) \in Addresses
        BY <4>1, AddressFacts
      <4> QED
        BY <4>1, <4>2 DEF Updated, To
    <3> QED
      BY <1>4, <3>1 DEF UpdateRoot
  <2>2. globals' \subseteq Addresses
    <3>1. ASSUME NEW v \in {UpdatedWeak([at |-> a, weak |-> TRUE]) : a \in globals} \ {Undefined}
          PROVE  v.at \in Addresses
      <4>1. PICK a \in globals : v = UpdatedWeak([at |-> a, weak |-> TRUE])
        OBVIOUS
      <4>2. [at |-> a, weak |-> TRUE].at = a /\ a \in Addresses /\ v # Undefined
        OBVIOUS
      <4>3. Copy(a.object) \in Addresses
        BY <4>2, AddressFacts
      <4> QED
        BY <4>1, <4>2, <4>3 DEF UpdatedWeak, To
    <3>2. globals' = {v.at : v \in {UpdatedWeak([at |-> a, weak |-> TRUE]) : a \in globals} \ {Undefined}}
      BY <1>4 DEF UpdateRoot, UpdatedGlobals
    <3> QED
      BY <3>1, <3>2
  <2>3. todo' \in [Threads -> SUBSET SlotRecords]
    <3>1. {<<"queue", s>> : s \in weakQueue} \in SUBSET SlotRecords
      BY DEF SlotRecords, Kinds
    <3> QED
      BY <1>0, <1>4, <3>1 DEF UpdateRoot
  <2>4. pc' \in [Threads -> Labels]
    BY <1>0, <1>4 DEF UpdateRoot, GoTo
  <2>5. weakQueue' \subseteq Addresses
    BY <1>4 DEF UpdateRoot
  <2> QED
    BY <1>4, <2>1, <2>2, <2>3, <2>4, <2>5 DEF UpdateRoot
<1>5. CASE WaitFinished
  <2>1. pc' \in [Threads -> Labels]
    BY <1>0, <1>5 DEF WaitFinished, GoTo
  <2> QED
    BY <1>5, <2>1 DEF WaitFinished
<1>6. CASE SpuriousWakeup
  <2>1. pc' \in [Threads -> Labels]
    BY <1>0, <1>6 DEF SpuriousWakeup, GoTo
  <2> QED
    BY <1>6, <2>1 DEF SpuriousWakeup
<1>7. ASSUME NEW w \in Workers, StartTask(w)
      PROVE  TypeOK' /\ LocalsInv'
  <2>1. pc' \in [Threads -> Labels]
    BY <1>0, <1>7 DEF StartTask, GoTo
  <2>2. queued' \in 0 .. parallel
    BY <1>7 DEF StartTask
  <2> QED
    BY <1>7, <2>1, <2>2 DEF StartTask
<1>8. ASSUME NEW w \in Workers, CountDown(w)
      PROVE  TypeOK' /\ LocalsInv'
  <2>1. pc' \in [Threads -> Labels]
    BY <1>8 DEF CountDown
  <2>2. parallel' \in 0 .. NumWorkers /\ queued \in 0 .. parallel'
    <3>1. w \in Busy
      BY <1>8 DEF CountDown, Busy
    <3>2. IsFiniteSet(Busy)
      BY ThreadFacts, FS_Subset DEF Busy
    <3>3. Cardinality(Busy) \in Nat /\ Cardinality(Busy) # 0
      BY <3>1, <3>2, FS_CardinalityType, FS_EmptySet
    <3>4. parallel' = parallel - 1 /\ parallel = queued + Cardinality(Busy) /\ queued \in Nat /\ parallel \in 0 .. NumWorkers
      BY <1>0, <1>8 DEF CountDown, CountInv
    <3> QED
      BY ONLY <1>0, <3>3, <3>4
  <2> QED
    BY <1>8, <2>1, <2>2 DEF CountDown
<1>9. ASSUME NEW t \in Threads, TakeEvacuateWorkload(t)
      PROVE  TypeOK' /\ LocalsInv'
  <2>1. pc' \in [Threads -> Labels]
    BY <1>9 DEF TakeEvacuateWorkload, GoTo
  <2>2. workloads' \subseteq Addresses /\ current' \in [Threads -> Addresses \cup SlotRecords \cup {Undefined}]
    BY <1>9 DEF TakeEvacuateWorkload
  <2> QED
    BY <1>9, <2>1, <2>2 DEF TakeEvacuateWorkload
<1>10. ASSUME NEW t \in Threads, EvacuateRegion(t)
       PROVE  TypeOK' /\ LocalsInv'
  <2>1. PICK o \in Objects : current[t] = Original(o) /\ current[t].object = o
    BY <1>10, AddressFacts DEF EvacuateRegion, ThreadInv
  <2>2. Copy(o) \in Addresses /\ value[Original(o)] \in Values
    BY AddressFacts
  <2>3. /\ value' \in [Addresses -> Values] /\ place' \in [Objects -> {"here", "moved", "copied", "promoted"}]
        /\ local' \in [Threads -> SUBSET Objects]
        /\ oldToNew' \subseteq Addresses /\ crossRegion' \subseteq Addresses
    BY <1>10, <2>1, <2>2 DEF EvacuateRegion, CopyObject, SetObjectFieldRSet
  <2>4. pc' \in [Threads -> Labels]
    BY <1>10 DEF EvacuateRegion, GoTo
  <2>5. current' \in [Threads -> Addresses \cup SlotRecords \cup {Undefined}]
    BY <1>10 DEF EvacuateRegion
  <2> QED
    BY <1>10, <2>3, <2>4, <2>5 DEF EvacuateRegion
<1>11. ASSUME NEW t \in Threads, Finalize(t)
       PROVE  TypeOK' /\ LocalsInv'
  <2>1. pc' \in [Threads -> Labels]
    BY <1>11 DEF Finalize, GoTo, AfterWorkloads
  <2>2. merged' \subseteq Objects /\ local' \in [Threads -> SUBSET Objects]
    BY <1>11 DEF Finalize
  <2> QED
    BY <1>11, <2>1, <2>2 DEF Finalize
<1>12. ASSUME NEW t \in Threads, TakeUpdateWorkload(t)
       PROVE  TypeOK' /\ LocalsInv'
  <2>1. PICK a \in workloads : /\ workloads' = workloads \ {a} /\ todo' = [todo EXCEPT ![t] = SlotsOf(a)]
                               /\ pc' = [pc EXCEPT ![t] = IF SlotsOf(a) = {} THEN "take" ELSE "update"]
    BY <1>12 DEF TakeUpdateWorkload, GoTo
  <2>2. SlotsOf(a) \in SUBSET SlotRecords
    BY DEF SlotsOf, SlotRecords, Kinds
  <2>3. todo' \in [Threads -> SUBSET SlotRecords] /\ workloads' \subseteq Addresses
    BY <2>1, <2>2
  <2>4. pc' \in [Threads -> Labels]
    BY <2>1
  <2> QED
    BY <1>12, <2>3, <2>4 DEF TakeUpdateWorkload
<1>13. ASSUME NEW t \in Threads, ReadSlot(t)
       PROVE  TypeOK' /\ LocalsInv'
  <2>1. pc' \in [Threads -> Labels]
    BY <1>13 DEF ReadSlot, GoTo
  <2>2. PICK x \in todo[t] : current' = [current EXCEPT ![t] = x] /\ seen' = [seen EXCEPT ![t] = value[x[2]]]
    BY <1>13 DEF ReadSlot
  <2>3. x \in SlotRecords /\ x[2] \in Addresses
    BY DEF SlotRecords, Kinds
  <2>4. current' \in [Threads -> Addresses \cup SlotRecords \cup {Undefined}] /\ seen' \in [Threads -> Values]
    BY <2>2, <2>3
  <2> QED
    BY <1>13, <2>1, <2>4 DEF ReadSlot
<1>14. ASSUME NEW t \in Threads, WriteSlot(t)
       PROVE  TypeOK' /\ LocalsInv'
  <2>1. pc' \in [Threads -> Labels]
    BY <1>14 DEF WriteSlot, GoTo
  <2>2. current[t] \in SlotRecords /\ current[t][2] \in Addresses /\ seen[t] \in Values
    BY <1>14 DEF WriteSlot, ThreadInv, SlotRecords, Kinds
  <2>3. Updated(seen[t]) \in Values
    BY <2>2, UpdatedType
  <2>4. value' \in [Addresses -> Values]
    BY <1>14, <2>2, <2>3 DEF WriteSlot
  <2>5. oldToNew' \subseteq Addresses /\ crossRegion' \subseteq Addresses
    BY <1>14 DEF WriteSlot
  <2>6. todo' \in [Threads -> SUBSET SlotRecords] /\ seen' \in [Threads -> Values]
        /\ current' \in [Threads -> Addresses \cup SlotRecords \cup {Undefined}]
    BY <1>14 DEF WriteSlot, Values
  <2> QED
    BY <1>14, <2>1, <2>4, <2>5, <2>6 DEF WriteSlot
<1>15. ASSUME NEW t \in Threads, NoWorkload(t)
       PROVE  TypeOK' /\ LocalsInv'
  <2>1. pc' \in [Threads -> Labels]
    BY <1>15 DEF NoWorkload, GoTo, AfterWorkloads
  <2> QED
    BY <1>15, <2>1 DEF NoWorkload
<1> QED
  BY <1>1, <1>2, <1>3, <1>4, <1>5, <1>6, <1>7, <1>8, <1>9, <1>10, <1>11, <1>12, <1>13, <1>14, <1>15, Steps

\* No step brings a thread where its locals, or the phase, do not belong.
LEMMA StepKeepsThreads == ControlInv /\ [Next]_vars => ThreadInv' /\ MainInv'
<1> SUFFICES ASSUME ControlInv, [Next]_vars
             PROVE  ThreadInv' /\ MainInv'
    OBVIOUS
<1> USE DEF inputVars, heapVars, recordVars, copyVars, taskVars, threadVars
<1>0. /\ Main \in Threads /\ Main \notin Workers /\ \A t : t \in Threads <=> t = Main \/ t \in Workers
      /\ NumWorkers \in Nat
  BY ThreadFacts, NumWorkersAssumption
<1>a. /\ pc \in [Threads -> {"idle", "evacuate", "take", "copy", "count", "wait", "asleep", "enumerate",
                             "roots", "update", "write", "done"}]
      /\ local \in [Threads -> SUBSET Objects] /\ current \in [Threads -> Addresses \cup SlotRecords \cup {Undefined}]
      /\ todo \in [Threads -> SUBSET SlotRecords]
      /\ phase \in {"evacuate", "update"} /\ workloads \subseteq Addresses
      /\ parallel \in 0 .. NumWorkers
      /\ ThreadInv /\ MainInv
  BY DEF ControlInv, TypeOK, LocalsInv
<1>1. CASE UNCHANGED vars
  BY <1>1, <1>a DEF vars, ThreadInv, MainInv, Stays
<1>2. CASE EvacuateSpace
  <2>1. \A w \in Workers : pc[w] = "idle"
    BY <1>2, <1>a, IdleFacts DEF EvacuateSpace, MainInv
  <2> QED
    BY <1>0, <1>a, <1>2, <2>1 DEF EvacuateSpace, GoTo, ThreadInv, MainInv, Stays
<1>3. CASE UpdateReference
  <2>1. \A w \in Workers : pc[w] = "idle"
    BY <1>3, <1>a, IdleFacts DEF UpdateReference, MainInv
  <2> QED
    BY <1>0, <1>a, <1>3, <2>1 DEF UpdateReference, GoTo, ThreadInv, MainInv, Stays
<1>4. CASE UpdateRoot
  BY <1>0, <1>a, <1>4 DEF UpdateRoot, GoTo, ThreadInv, MainInv, Stays
<1>5. CASE WaitFinished
  BY <1>0, <1>a, <1>5 DEF WaitFinished, GoTo, ThreadInv, MainInv, Stays
<1>6. CASE SpuriousWakeup
  BY <1>0, <1>a, <1>6 DEF SpuriousWakeup, GoTo, ThreadInv, MainInv, Stays
<1>7. ASSUME NEW w \in Workers, StartTask(w)
      PROVE  ThreadInv' /\ MainInv'
  BY <1>0, <1>a, <1>7 DEF StartTask, GoTo, ThreadInv, MainInv, Stays
<1>8. ASSUME NEW w \in Workers, CountDown(w)
      PROVE  ThreadInv' /\ MainInv'
  <2>1. parallel # 0
    BY <1>8, IdleFacts DEF CountDown
  <2>2. ThreadInv'
    BY <1>0, <1>a, <1>8 DEF CountDown, ThreadInv, Stays
  <2>3. MainInv'
    BY <1>0, <1>a, <1>8, <2>1 DEF CountDown, MainInv, Stays
  <2> QED
    BY <2>2, <2>3
<1>9. ASSUME NEW t \in Threads, TakeEvacuateWorkload(t)
      PROVE  ThreadInv' /\ MainInv'
  BY <1>0, <1>a, <1>9 DEF TakeEvacuateWorkload, GoTo, ThreadInv, MainInv, Stays
<1>10. ASSUME NEW t \in Threads, EvacuateRegion(t)
       PROVE  ThreadInv' /\ MainInv'
  BY <1>0, <1>a, <1>10 DEF EvacuateRegion, CopyObject, GoTo, ThreadInv, MainInv, Stays
<1>11. ASSUME NEW t \in Threads, Finalize(t)
       PROVE  ThreadInv' /\ MainInv'
  BY <1>0, <1>a, <1>11 DEF Finalize, AfterWorkloads, GoTo, ThreadInv, MainInv, Stays
<1>12. ASSUME NEW t \in Threads, TakeUpdateWorkload(t)
       PROVE  ThreadInv' /\ MainInv'
  BY <1>0, <1>a, <1>12 DEF TakeUpdateWorkload, GoTo, ThreadInv, MainInv, Stays
<1>13. ASSUME NEW t \in Threads, ReadSlot(t)
       PROVE  ThreadInv' /\ MainInv'
  BY <1>0, <1>a, <1>13 DEF ReadSlot, GoTo, ThreadInv, MainInv, Stays
<1>14. ASSUME NEW t \in Threads, WriteSlot(t)
       PROVE  ThreadInv' /\ MainInv'
  BY <1>0, <1>a, <1>14 DEF WriteSlot, GoTo, ThreadInv, MainInv, Stays
<1>15. ASSUME NEW t \in Threads, NoWorkload(t)
       PROVE  ThreadInv' /\ MainInv'
  BY <1>0, <1>a, <1>15 DEF NoWorkload, AfterWorkloads, GoTo, ThreadInv, MainInv, Stays
<1> QED
  BY <1>1, <1>2, <1>3, <1>4, <1>5, <1>6, <1>7, <1>8, <1>9, <1>10, <1>11, <1>12, <1>13, <1>14, <1>15, Steps

\* A task is counted from PostTasks, queued or at work, until it counts down.
LEMMA StepKeepsCount == ControlInv /\ [Next]_vars => CountInv'
<1> SUFFICES ASSUME ControlInv, [Next]_vars
             PROVE  CountInv'
    OBVIOUS
<1> USE DEF inputVars, heapVars, recordVars, copyVars, taskVars, threadVars
<1>0. /\ Main \in Threads /\ Main \notin Workers /\ \A t : t \in Threads <=> t = Main \/ t \in Workers
      /\ NumWorkers \in Nat
  BY ThreadFacts, NumWorkersAssumption
<1>a. /\ DOMAIN pc = Threads /\ parallel \in Nat /\ queued \in Nat /\ parallel = queued + Cardinality(Busy)
  BY <1>0 DEF ControlInv, TypeOK, CountInv
<1>b. IsFiniteSet(Busy) /\ Cardinality(Busy) \in Nat
  BY ThreadFacts, FS_Subset, FS_CardinalityType DEF Busy
<1>c. SUFFICES ASSUME ~(\E w \in Workers : StartTask(w) \/ CountDown(w)), ~EvacuateSpace, ~UpdateReference
               PROVE  UNCHANGED <<parallel, queued, Busy>>
  <2>1. ASSUME NEW w \in Workers, StartTask(w)
        PROVE  CountInv'
    <3>1. w \notin Busy /\ Busy' = Busy \cup {w}
      BY <1>0, <1>a, <2>1 DEF StartTask, GoTo, Busy
    <3>2. Cardinality(Busy') = Cardinality(Busy) + 1
      BY <1>b, <3>1, FS_AddElement
    <3>3. parallel' = parallel /\ queued' = queued - 1
      BY <2>1 DEF StartTask
    <3> QED
      BY <1>a, <1>b, <3>2, <3>3 DEF CountInv
  <2>2. ASSUME NEW w \in Workers, CountDown(w)
        PROVE  CountInv'
    <3>1. w \in Busy /\ Busy' = Busy \ {w}
      BY <1>0, <1>a, <2>2 DEF CountDown, Busy
    <3>2. Cardinality(Busy') = Cardinality(Busy) - 1
      BY <1>b, <3>1, FS_RemoveElement
    <3>3. parallel' = parallel - 1 /\ queued' = queued
      BY <2>2 DEF CountDown
    <3> QED
      BY <1>a, <1>b, <3>2, <3>3 DEF CountInv
  <2>3. ASSUME EvacuateSpace \/ UpdateReference
        PROVE  CountInv'
    <3>1. parallel = 0
      BY <2>3 DEF EvacuateSpace, UpdateReference, ControlInv, MainInv
    <3>2. Busy = {} /\ pc'[Main] # "idle" /\ \A w \in Workers : pc'[w] = pc[w]
      BY <1>0, <1>a, <2>3, <3>1, IdleFacts DEF EvacuateSpace, UpdateReference, GoTo
    <3>3. Busy' = {}
      BY <3>2 DEF Busy
    <3>4. Cardinality(Busy') = 0
      BY <3>3, FS_EmptySet
    <3>5. PICK n \in Nat : parallel' = n /\ queued' = n
      BY <1>0, <2>3 DEF EvacuateSpace, UpdateReference, PostTasks, Workers
    <3>6. parallel' = queued' + 0
      <4>1. n = n + 0
        OBVIOUS
      <4> QED
        BY <3>5, <4>1
    <3> QED
      BY <3>4, <3>6 DEF CountInv
  <2>4. ASSUME UNCHANGED <<parallel, queued, Busy>>
        PROVE  CountInv'
    BY <1>a, <2>4 DEF CountInv
  <2> QED
    BY <2>1, <2>2, <2>3, <2>4
<1>d. \A w \in Workers : pc[w] \in {"idle", "take", "copy", "count", "update", "write"}
  BY DEF ControlInv, ThreadInv
<1>1. CASE UNCHANGED vars
  BY <1>1 DEF vars, Busy
<1>2. CASE UpdateRoot \/ WaitFinished \/ SpuriousWakeup
  <2>1. \A w \in Workers : pc'[w] = pc[w]
    BY <1>0, <1>a, <1>2 DEF UpdateRoot, WaitFinished, SpuriousWakeup, GoTo
  <2> QED
    BY <1>2, <2>1 DEF UpdateRoot, WaitFinished, SpuriousWakeup, Busy
<1>3. ASSUME NEW t \in Threads,
             TakeEvacuateWorkload(t) \/ EvacuateRegion(t) \/ Finalize(t)
             \/ TakeUpdateWorkload(t) \/ ReadSlot(t) \/ WriteSlot(t) \/ NoWorkload(t)
      PROVE  UNCHANGED <<parallel, queued, Busy>>
  <2>1. pc[t] # "idle" /\ \E label : label # "idle" /\ GoTo(t, label)
    BY <1>3 DEF TakeEvacuateWorkload, EvacuateRegion, Finalize, TakeUpdateWorkload, ReadSlot, WriteSlot,
                NoWorkload, AfterWorkloads
  <2>2. \A w \in Workers : pc'[w] # "idle" <=> pc[w] # "idle"
    BY <1>0, <1>a, <2>1 DEF GoTo
  <2>3. UNCHANGED <<parallel, queued>>
    BY <1>3 DEF TakeEvacuateWorkload, EvacuateRegion, Finalize, TakeUpdateWorkload, ReadSlot, WriteSlot,
                NoWorkload
  <2> QED
    BY <2>2, <2>3 DEF Busy
<1> QED
  BY <1>c, <1>1, <1>2, <1>3, Steps

\* So the control of the threads is as it should be.
LEMMA StepKeepsControl == ControlInv /\ [Next]_vars => ControlInv'
BY StepKeepsType, StepKeepsThreads, StepKeepsCount DEF ControlInv

-----------------------------------------------------------------------------
(* Copying *)

\* Everything is in its place, and nothing is promoted.
LEMMA InitCopying == Init => CopyingInv
<1> SUFFICES ASSUME Init
             PROVE  CopyingInv
    OBVIOUS
<1>1. PlaceInv /\ PromotedInv
  BY DEF Init, PlaceInv, Placed, PromotedInv, Stays
<1>2. WorkInv
  BY ThreadFacts DEF Init, WorkInv
<1> QED
  BY <1>1, <1>2 DEF CopyingInv

\* An object goes once, from a region that its thread alone has taken.
LEMMA StepKeepsCopying == ControlInv /\ CopyingInv /\ [Next]_vars => CopyingInv'
<1> SUFFICES ASSUME ControlInv, CopyingInv, [Next]_vars
             PROVE  CopyingInv'
    OBVIOUS
<1> USE DEF inputVars, heapVars, recordVars, copyVars, taskVars, threadVars
<1>0. /\ Main \in Threads /\ Main \notin Workers /\ \A t : t \in Threads <=> t = Main \/ t \in Workers
  BY ThreadFacts
<1>a. /\ pc \in [Threads -> {"idle", "evacuate", "take", "copy", "count", "wait", "asleep", "enumerate",
                             "roots", "update", "write", "done"}]
      /\ local \in [Threads -> SUBSET Objects] /\ current \in [Threads -> Addresses \cup SlotRecords \cup {Undefined}]
      /\ place \in [Objects -> {"here", "moved", "copied", "promoted"}] /\ marked \subseteq Objects
      /\ phase \in {"evacuate", "update"} /\ workloads \subseteq Addresses
      /\ ThreadInv /\ MainInv /\ PlaceInv /\ PromotedInv /\ WorkInv
  BY DEF ControlInv, TypeOK, LocalsInv, CopyingInv
<1>b. ASSUME UNCHANGED <<inputVars, copyVars>>
      PROVE  PromotedInv' /\ (phase' = phase => PlaceInv')
  BY <1>b, <1>a DEF PromotedInv, PlaceInv, Placed, Stays
<1>c. ASSUME UNCHANGED <<inputVars, copyVars, phase, workloads, current>>,
             (pc[Main] # "evacuate" /\ pc'[Main] # "evacuate") \/ pc'[Main] = pc[Main],
             \A t \in Threads : pc'[t] = "copy" <=> pc[t] = "copy"
      PROVE  CopyingInv'
  BY <1>a, <1>b, <1>c DEF CopyingInv, WorkInv, Stays
<1>d. ASSUME UNCHANGED <<inputVars, copyVars, phase>>, phase = "update"
      PROVE  CopyingInv'
  BY <1>b, <1>d DEF CopyingInv, WorkInv
<1>1. CASE UNCHANGED vars
  BY <1>c, <1>1 DEF vars
<1>2. CASE EvacuateSpace
  <2>1. \A t \in Threads : pc'[t] # "copy"
    BY <1>0, <1>a, <1>2, IdleFacts DEF EvacuateSpace, MainInv, GoTo
  <2>2. WorkInv'
    BY <1>0, <1>a, <1>2, <2>1, AddressFacts DEF EvacuateSpace, GoTo, MainInv, WorkInv, Stays
  <2> QED
    BY <1>b, <1>2, <2>2 DEF EvacuateSpace, CopyingInv
<1>3. CASE UpdateReference
  <2>1. \A t \in Threads : pc[t] # "copy"
    BY <1>0, <1>a, <1>3, IdleFacts DEF UpdateReference, MainInv
  <2>2. phase = "evacuate" /\ workloads = {}
    BY <1>a, <1>3 DEF UpdateReference, MainInv
  <2>3. \A o \in marked : ~Stays(o) => place[o] # "here"
    BY <1>a, <1>3, <2>1, <2>2 DEF UpdateReference, WorkInv
  <2>4. PlaceInv'
    BY <1>a, <1>3, <2>3 DEF UpdateReference, PlaceInv, Placed, Stays
  <2> QED
    BY <1>b, <1>3, <2>4 DEF UpdateReference, CopyingInv, WorkInv
<1>4. CASE UpdateRoot
  BY <1>a, <1>d, <1>4 DEF UpdateRoot, MainInv
<1>5. CASE WaitFinished
  BY <1>0, <1>a, <1>c, <1>5 DEF WaitFinished, GoTo
<1>6. CASE SpuriousWakeup
  BY <1>0, <1>a, <1>c, <1>6 DEF SpuriousWakeup, GoTo
<1>7. ASSUME NEW w \in Workers, StartTask(w)
      PROVE  CopyingInv'
  BY <1>0, <1>a, <1>c, <1>7 DEF StartTask, GoTo
<1>8. ASSUME NEW w \in Workers, CountDown(w)
      PROVE  CopyingInv'
  <2>1. \A t \in Threads : pc'[t] = "copy" <=> pc[t] = "copy"
    BY <1>0, <1>a, <1>8 DEF CountDown
  <2>2. (pc[Main] # "evacuate" /\ pc'[Main] # "evacuate") \/ pc'[Main] = pc[Main]
    BY <1>0, <1>a, <1>8 DEF CountDown
  <2> QED
    BY <1>c, <1>8, <2>1, <2>2 DEF CountDown
<1>9. ASSUME NEW t \in Threads, TakeEvacuateWorkload(t)
      PROVE  CopyingInv'
  <2>1. PICK a \in workloads : /\ workloads' = workloads \ {a} /\ current' = [current EXCEPT ![t] = a]
                               /\ pc' = [pc EXCEPT ![t] = "copy"] /\ pc[t] = "take" /\ phase' = "evacuate" /\ phase = "evacuate"
    BY <1>9 DEF TakeEvacuateWorkload, GoTo
  <2>2. UNCHANGED <<place, space, marked>>
    BY <1>9 DEF TakeEvacuateWorkload
  <2>3. pc[Main] # "evacuate"
    BY <1>a, <2>1 DEF MainInv
  <2>4. \A u \in Threads : pc'[u] = "copy" =>
            place[current'[u].object] = "here" /\ \A v \in Threads : pc'[v] = "copy" /\ current'[u] = current'[v] => u = v
    BY <1>a, <2>1 DEF WorkInv
  <2>5. \A o \in marked : ~Stays(o) /\ place[o] = "here" =>
            Original(o) \in workloads' \/ \E u \in Threads : pc'[u] = "copy" /\ current'[u] = Original(o)
    BY <1>a, <2>1, <2>3 DEF WorkInv
  <2>6. \A b \in workloads' : place[b.object] = "here" /\ \A u \in Threads : pc'[u] = "copy" => current'[u] # b
    BY <1>a, <2>1 DEF WorkInv
  <2>7. pc'[Main] # "evacuate"
    BY <1>0, <1>a, <2>1, <2>3
  <2>8. WorkInv'
    BY <2>2, <2>4, <2>5, <2>6, <2>7 DEF WorkInv, Stays
  <2> QED
    BY <1>b, <1>9, <2>8 DEF TakeEvacuateWorkload, CopyingInv
<1>10. ASSUME NEW t \in Threads, EvacuateRegion(t)
       PROVE  CopyingInv'
  <2>1. PICK o \in Objects : current[t] = Original(o) /\ ~Stays(o)
    BY <1>a, <1>10 DEF EvacuateRegion, ThreadInv
  <2>2. /\ pc[t] = "copy" /\ phase = "evacuate" /\ phase' = "evacuate" /\ workloads' = workloads
        /\ pc' = [pc EXCEPT ![t] = "take"] /\ current' = [current EXCEPT ![t] = Undefined]
        /\ UNCHANGED <<space, marked>> /\ current[t].object = o
    BY <1>a, <1>10, <2>1, AddressFacts DEF EvacuateRegion, GoTo, ThreadInv
  <2>3. place[o] = "here" /\ pc[Main] # "evacuate"
    BY <1>0, <1>a, <2>2, IdleFacts DEF WorkInv, MainInv
  <2>4. \/ place' = [place EXCEPT ![o] = "moved"] /\ space[o] = "young" /\ UNCHANGED local
        \/ place' = [place EXCEPT ![o] = "copied"] /\ space[o] = "young" /\ o \in marked /\ UNCHANGED local
        \/ place' = [place EXCEPT ![o] = "promoted"] /\ o \in marked /\ local' = [local EXCEPT ![t] = @ \cup {o}]
        \/ o \notin marked /\ UNCHANGED <<place, local>>
    BY <1>10, <2>2 DEF EvacuateRegion, CopyObject
  <2>5. PlaceInv'
    BY <1>a, <2>1, <2>2, <2>4 DEF PlaceInv, Placed, Stays
  <2>6. merged' = merged
    BY <1>10 DEF EvacuateRegion
  <2>7. PromotedInv'
    BY <1>a, <2>3, <2>4, <2>6 DEF PromotedInv
  <2>8. \A p \in Objects : p # o => place'[p] = place[p]
    BY <1>a, <2>4
  <2>9. o \in marked => place'[o] # "here"
    BY <1>a, <2>4
  <2>10. \A u \in Threads : pc'[u] = "copy" => u # t /\ pc[u] = "copy" /\ current'[u] = current[u]
    BY <1>a, <2>2
  <2>11. \A u \in Threads : pc'[u] = "copy" =>
            /\ place'[current'[u].object] = "here"
            /\ \A v \in Threads : pc'[v] = "copy" /\ current'[u] = current'[v] => u = v
    <3> SUFFICES ASSUME NEW u \in Threads, pc'[u] = "copy"
                 PROVE  /\ place'[current'[u].object] = "here"
                        /\ \A v \in Threads : pc'[v] = "copy" /\ current'[u] = current'[v] => u = v
        OBVIOUS
    <3>1. PICK p \in Objects : current[u] = Original(p)
      BY <1>a, <2>10 DEF ThreadInv
    <3>2. p # o
      BY <1>a, <2>1, <2>2, <2>10, <3>1 DEF WorkInv
    <3>3. current'[u].object = p /\ place[p] = "here"
      BY <1>a, <2>2, <2>10, <3>1, AddressFacts DEF WorkInv
    <3> QED
      BY <1>a, <2>2, <2>8, <2>10, <3>2, <3>3 DEF WorkInv
  <2>12. \A b \in workloads : place'[b.object] = "here" /\ \A u \in Threads : pc'[u] = "copy" => current'[u] # b
    <3> SUFFICES ASSUME NEW b \in workloads
                 PROVE  place'[b.object] = "here" /\ \A u \in Threads : pc'[u] = "copy" => current'[u] # b
        OBVIOUS
    <3>1. PICK p \in Objects : b = Original(p)
      BY <1>a, <2>2 DEF MainInv
    <3>2. p # o /\ place[b.object] = "here"
      BY <1>a, <2>1, <2>2, <3>1 DEF WorkInv
    <3>3. b.object = p
      BY <3>1, AddressFacts
    <3> QED
      BY <1>a, <2>2, <2>8, <2>10, <3>2, <3>3 DEF WorkInv
  <2>13. \A p \in marked : ~Stays(p) /\ place'[p] = "here" =>
            Original(p) \in workloads \/ \E u \in Threads : pc'[u] = "copy" /\ current'[u] = Original(p)
    <3> SUFFICES ASSUME NEW p \in marked, ~Stays(p), place'[p] = "here"
                 PROVE  Original(p) \in workloads \/ \E u \in Threads : pc'[u] = "copy" /\ current'[u] = Original(p)
        OBVIOUS
    <3>1. p # o /\ place[p] = "here"
      BY <1>a, <2>8, <2>9
    <3>2. Original(p) # Original(o)
      BY <1>a, <3>1, AddressFacts
    <3>3. Original(p) \in workloads \/ \E u \in Threads : pc[u] = "copy" /\ current[u] = Original(p)
      BY <1>a, <2>2, <2>3, <3>1 DEF WorkInv
    <3>4. ASSUME NEW u \in Threads, pc[u] = "copy", current[u] = Original(p)
          PROVE  pc'[u] = "copy" /\ current'[u] = Original(p)
      BY <1>a, <2>1, <2>2, <3>2, <3>4
    <3> QED
      BY <3>3, <3>4
  <2>14. WorkInv'
    <3>1. pc'[Main] # "evacuate"
      BY <1>0, <1>a, <2>2, <2>3
    <3> QED
      BY <2>2, <2>11, <2>12, <2>13, <3>1 DEF WorkInv, Stays
  <2> QED
    BY <2>5, <2>7, <2>14 DEF CopyingInv
<1>11. ASSUME NEW t \in Threads, Finalize(t)
       PROVE  CopyingInv'
  <2>1. PromotedInv'
    BY <1>a, <1>11 DEF Finalize, PromotedInv
  <2>2. PlaceInv'
    BY <1>a, <1>11 DEF Finalize, PlaceInv, Placed, Stays
  <2>3. \A u \in Threads : pc'[u] = "copy" <=> pc[u] = "copy"
    BY <1>a, <1>11 DEF Finalize, GoTo, AfterWorkloads
  <2>4. (pc[Main] # "evacuate" /\ pc'[Main] # "evacuate") \/ pc'[Main] = pc[Main]
    BY <1>0, <1>a, <1>11 DEF Finalize, GoTo, AfterWorkloads
  <2>5. UNCHANGED <<inputVars, place, phase, workloads, current>>
    BY <1>11 DEF Finalize
  <2>6. WorkInv'
    BY <1>a, <2>3, <2>4, <2>5 DEF WorkInv, Stays
  <2> QED
    BY <2>1, <2>2, <2>6 DEF CopyingInv
<1>12. ASSUME NEW t \in Threads,
              TakeUpdateWorkload(t) \/ ReadSlot(t) \/ WriteSlot(t) \/ NoWorkload(t)
       PROVE  CopyingInv'
  <2>1. UNCHANGED <<inputVars, copyVars, phase>>
    BY <1>12 DEF TakeUpdateWorkload, ReadSlot, WriteSlot, NoWorkload
  <2>2. phase = "update"
    BY <1>a, <1>12 DEF TakeUpdateWorkload, ReadSlot, WriteSlot, NoWorkload, ThreadInv
  <2> QED
    BY <1>d, <2>1, <2>2
<1> QED
  BY <1>1, <1>2, <1>3, <1>4, <1>5, <1>6, <1>7, <1>8, <1>9, <1>10, <1>11, <1>12, Steps

\* Nobody copies once the JS thread has gone on, and nobody updates at the end: WaitFinished
\* leaves its loop only when every posted task has counted down, and a task counts down after
\* its last workload, when its LocalSpace has joined the old space.
THEOREM ThePhasesAreApart == Spec => []PhasesAreApart
<1>1. ControlInv /\ CopyingInv => PhasesAreApart
  <2> SUFFICES ASSUME ControlInv, CopyingInv
               PROVE  PhasesAreApart
      OBVIOUS
  <2>1. TypeOK /\ parallel = queued + Cardinality({w \in Workers : pc[w] # "idle"})
    BY DEF ControlInv, CountInv, Busy
  <2>2. ASSUME pc[Main] \in {"enumerate", "done"}
        PROVE  parallel = 0 /\ workloads = {} /\ merged = {o \in Objects : place[o] = "promoted"}
    <3>1. parallel = 0 /\ workloads = {}
      BY <2>2 DEF ControlInv, MainInv
    <3>2. \A t \in Threads : pc[t] \notin {"take", "copy"}
      BY <2>2, <3>1, IdleFacts, ThreadFacts
    <3>3. \A t \in Threads : local[t] = {}
      BY <3>2 DEF ControlInv, ThreadInv
    <3> QED
      BY <3>1, <3>3 DEF ControlInv, CopyingInv, PromotedInv, TypeOK
  <2> QED
    BY <2>1, <2>2 DEF PhasesAreApart
<1> QED
  BY <1>1, InitControl, InitCopying, StepKeepsControl, StepKeepsCopying, PTL DEF Spec

-----------------------------------------------------------------------------
(* What is recorded, and what the copies hold *)

\* Marking is over: what it has found does not change.
LEMMA InputsStay ==
    ASSUME [Next]_vars
    PROVE  /\ UNCHANGED inputVars
           /\ \A o : (Live(o)' <=> Live(o)) /\ (Stays(o)' <=> Stays(o))
           /\ \A o : Was(o)' = Was(o) /\ Target(o)' = Target(o)
<1>1. UNCHANGED inputVars
  <2>1. CASE \E w \in Workers : StartTask(w) \/ CountDown(w)
    BY <2>1 DEF StartTask, CountDown
  <2>2. CASE \E t \in Threads : \/ TakeEvacuateWorkload(t) \/ EvacuateRegion(t) \/ Finalize(t)
                                \/ TakeUpdateWorkload(t) \/ ReadSlot(t) \/ WriteSlot(t) \/ NoWorkload(t)
    BY <2>2 DEF TakeEvacuateWorkload, EvacuateRegion, Finalize, TakeUpdateWorkload, ReadSlot, WriteSlot, NoWorkload
  <2>3. CASE \/ EvacuateSpace \/ UpdateReference \/ UpdateRoot \/ WaitFinished \/ SpuriousWakeup
             \/ UNCHANGED vars
    BY <2>3 DEF EvacuateSpace, UpdateReference, UpdateRoot, WaitFinished, SpuriousWakeup, vars
  <2> QED
    BY <2>1, <2>2, <2>3, Steps
<1> QED
  BY <1>1 DEF inputVars, Live, Stays, Was, Target

\* Every object has one final address.
LEMMA FinalFacts ==
    /\ \A o \in Objects : Final(o) \in Addresses /\ Final(o).object = o
    /\ \A o \in Objects : place[o] \in {"copied", "promoted"} => Final(o) = Copy(o)
    /\ \A o \in Objects : place[o] \notin {"copied", "promoted"} => Final(o) = Original(o)
    /\ \A o, p \in Objects : Final(o) = Final(p) => o = p
BY AddressFacts DEF Final

\* A slot in two of the sets counts as recorded twice.
LEMMA RecordsOfTwo ==
    ASSUME NEW s, NEW n, NEW m, NEW A, NEW B, n # m, s \in A, s \in B,
           {<<n, A>>, <<m, B>>} \subseteq {<<"rset", oldToNew>>, <<"cross", crossRegion>>, <<"queue", weakQueue>>}
    PROVE  Records(s) > 1
<1> DEFINE All == {<<"rset", oldToNew>>, <<"cross", crossRegion>>, <<"queue", weakQueue>>}
           Found == {R \in All : s \in R[2]}
<1>1. IsFiniteSet({<<"rset", oldToNew>>}) /\ IsFiniteSet({<<n, A>>}) /\ Cardinality({<<n, A>>}) = 1
  BY FS_Singleton
<1>2. IsFiniteSet({<<"rset", oldToNew>>} \cup {<<"cross", crossRegion>>})
  BY <1>1, FS_AddElement
<1>3. IsFiniteSet(({<<"rset", oldToNew>>} \cup {<<"cross", crossRegion>>}) \cup {<<"queue", weakQueue>>})
  BY <1>2, FS_AddElement
<1>4. All = ({<<"rset", oldToNew>>} \cup {<<"cross", crossRegion>>}) \cup {<<"queue", weakQueue>>}
  OBVIOUS
<1>5. IsFiniteSet(Found)
  BY <1>3, <1>4, FS_Subset
<1>6. <<m, B>> \notin {<<n, A>>}
  OBVIOUS
<1>7. Cardinality({<<n, A>>} \cup {<<m, B>>}) = 2
  <2>1. Cardinality({<<n, A>>} \cup {<<m, B>>}) = Cardinality({<<n, A>>}) + 1
    BY <1>1, <1>6, FS_AddElement
  <2> QED
    BY <1>1, <2>1
<1>8. {<<n, A>>} \cup {<<m, B>>} \subseteq Found
  OBVIOUS
<1>9. Cardinality({<<n, A>>} \cup {<<m, B>>}) <= Cardinality(Found)
  BY <1>5, <1>8, FS_Subset
<1>10. Cardinality(Found) \in Nat
  BY <1>5, FS_CardinalityType
<1>11. Cardinality(Found) > 1
  BY <1>7, <1>9, <1>10
<1> QED
  BY <1>11 DEF Records

\* What marking leaves: the slots that have to be updated are recorded.
LEMMA InitRecorded == Init => RecordedInv
<1> SUFFICES ASSUME Init
             PROVE  RecordedInv
    OBVIOUS
<1>1. PICK content \in [Objects -> [object : Objects, weak : BOOLEAN] \cup {Undefined}] :
          value = [s \in Addresses |->
                     IF s.copied \/ content[s.object] = Undefined THEN Undefined
                     ELSE [at |-> Original(content[s.object].object), weak |-> content[s.object].weak]]
  BY DEF Init
<1>2. /\ before.value = value /\ before.twice = {s \in OldSlots : Records(s) > 1}
      /\ place = [o \in Objects |-> "here"]
  BY DEF Init
<1>3. ASSUME NEW o \in Objects
      PROVE  /\ Was(o) = value[Original(o)] /\ Final(o) = Original(o) /\ (Old(o) <=> Stays(o))
             /\ Original(o) \in OldSlots <=> Stays(o)
             /\ Copy(o) \notin OldSlots
  BY <1>2, AddressFacts DEF Was, Final, Old, OldSlots
<1>4. ASSUME NEW o \in Objects, Was(o) # Undefined
      PROVE  /\ Was(o) \in Values /\ Target(o) \in Objects
             /\ Was(o).at = Original(Target(o))
  <2>1. /\ content[o] # Undefined
        /\ Was(o) = [at |-> Original(content[o].object), weak |-> content[o].weak]
    BY <1>1, <1>3, <1>4, AddressFacts, ZenonT(40)
  <2>2. content[o].object \in Objects /\ content[o].weak \in BOOLEAN
    BY <2>1
  <2>3. Original(content[o].object) \in Addresses /\ Was(o) \in [at : Addresses, weak : BOOLEAN]
    BY <2>1, <2>2, AddressFacts
  <2>4. Was(o).at = Original(content[o].object)
    BY <2>1
  <2>5. Target(o) = content[o].object
    BY <2>2, <2>4, AddressFacts DEF Target
  <2> QED
    BY <2>2, <2>3, <2>4, <2>5 DEF Values
<1>5. BeforeInv
  <2>1. ASSUME NEW o \in Objects, Live(o), Was(o) # Undefined, ~Was(o).weak
        PROVE  Live(Target(o))
    BY <1>3, <2>1 DEF Init, Target
  <2> QED
    BY <1>4, <2>1 DEF BeforeInv, Values
<1>6. CopyInv
  BY <1>3 DEF CopyInv
<1>7. ASSUME NEW o \in Objects
      PROVE  /\ Original(o) \in oldToNew \cup crossRegion \cup weakQueue => Stays(o)
             /\ Copy(o) \notin oldToNew \cup crossRegion \cup weakQueue
  <2>1. oldToNew \subseteq OldSlots /\ crossRegion \subseteq OldSlots /\ weakQueue \subseteq OldSlots
    BY DEF Init, ReferTo
  <2> QED
    BY <1>3, <2>1
<1>8. ASSUME NEW o \in Objects, Original(o) \notin before.twice
      PROVE  /\ ~(Original(o) \in oldToNew /\ Original(o) \in crossRegion)
             /\ ~(Original(o) \in oldToNew /\ Original(o) \in weakQueue)
             /\ ~(Original(o) \in crossRegion /\ Original(o) \in weakQueue)
  <2>1. Stays(o) => ~(Records(Original(o)) > 1)
    BY <1>2, <1>3, <1>8
  <2>2. ~(Original(o) \in oldToNew /\ Original(o) \in crossRegion)
    BY <1>7, <2>1, RecordsOfTwo
  <2>3. ~(Original(o) \in oldToNew /\ Original(o) \in weakQueue)
    BY <1>7, <2>1, RecordsOfTwo
  <2>4. ~(Original(o) \in crossRegion /\ Original(o) \in weakQueue)
    BY <1>7, <2>1, RecordsOfTwo
  <2> QED
    BY <2>2, <2>3, <2>4
<1>9. ASSUME NEW o \in Objects, Live(o), Stays(o), Was(o) # Undefined
      PROVE  /\ space[Target(o)] = "young" => Original(o) \in oldToNew
             /\ space[Target(o)] = "cset" => Original(o) \in crossRegion
             /\ Was(o).weak /\ space[Target(o)] = "old" /\ isFullMark /\ Target(o) \notin marked
                  => Original(o) \in weakQueue
  <2> DEFINE kept == {s \in OldSlots : Live(s.object)}
             deadWeak == {s \in ReferTo(kept, {"old"}) :
                            value[s].weak /\ isFullMark /\ value[s].at.object \notin marked}
  <2>1. /\ oldToNew \in {ReferTo(kept, {"young"}), OldSlots}
        /\ crossRegion \in {ReferTo(kept, {"cset"}), IF isFullMark THEN OldSlots ELSE {}}
        /\ weakQueue \in {deadWeak, OldSlots}
    BY DEF Init
  <2>2. Original(o) \in OldSlots /\ Original(o) \in kept /\ value[Original(o)] = Was(o)
    BY <1>3, <1>9, AddressFacts
  <2>3. value[Original(o)] # Undefined /\ value[Original(o)].at.object = Target(o)
    BY <1>9, <2>2 DEF Target
  <2>4. \A K : space[Target(o)] \in K => Original(o) \in ReferTo(kept, K)
    BY <2>2, <2>3 DEF ReferTo
  <2>5. space[Target(o)] = "cset" => isFullMark
    BY <1>4, <1>9 DEF Init
  <2>6. Was(o).weak /\ space[Target(o)] = "old" /\ isFullMark /\ Target(o) \notin marked => Original(o) \in deadWeak
    BY <2>2, <2>3, <2>4
  <2> QED
    BY <2>1, <2>2, <2>4, <2>5, <2>6
<1>10. RecordInv
  BY <1>3, <1>7, <1>8, <1>9 DEF RecordInv
<1> QED
  BY <1>5, <1>6, <1>10 DEF RecordedInv

\* A copied object takes its slot's value with it, and a promoted one is recorded.
LEMMA RegionKeepsRecorded ==
    ASSUME ControlInv, CopyingInv, RecordedInv, [Next]_vars, NEW t \in Threads, EvacuateRegion(t)
    PROVE  RecordedInv'
<1>a. /\ place \in [Objects -> {"here", "moved", "copied", "promoted"}] /\ value \in [Addresses -> Values]
      /\ space \in [Objects -> {"old", "young", "cset"}]
  BY DEF ControlInv, TypeOK
<1>b. /\ UNCHANGED inputVars
      /\ \A o : (Live(o)' <=> Live(o)) /\ (Stays(o)' <=> Stays(o))
      /\ \A o : Was(o)' = Was(o) /\ Target(o)' = Target(o)
  BY InputsStay
<1>c. UNCHANGED <<space, marked, isFullMark, before, phase, weakQueue>>
  BY <1>b DEF EvacuateRegion, inputVars, taskVars
<1>1. PICK o \in Objects : current[t] = Original(o) /\ ~Stays(o)
  BY DEF EvacuateRegion, ControlInv, ThreadInv
<1>2. pc[t] = "copy" /\ phase = "evacuate" /\ phase' = "evacuate" /\ current[t].object = o
  BY <1>1, <1>c, AddressFacts DEF EvacuateRegion, ControlInv, ThreadInv
<1>3. place[o] = "here"
  BY <1>2 DEF CopyingInv, WorkInv
<1>4. \A p \in Objects : value[Original(p)] = Was(p) /\ value[Final(p)] = Was(p)
  BY <1>2 DEF RecordedInv, CopyInv
<1>5. \/ place' = [place EXCEPT ![o] = "moved"] /\ UNCHANGED <<value, oldToNew, crossRegion>>
      \/ UNCHANGED <<place, value, oldToNew, crossRegion>>
      \/ /\ value' = [value EXCEPT ![Copy(o)] = value[Original(o)]]
         /\ \/ place' = [place EXCEPT ![o] = "copied"] /\ UNCHANGED <<oldToNew, crossRegion>>
            \/ place' = [place EXCEPT ![o] = "promoted"] /\ SetObjectFieldRSet(Copy(o), Was(o))
  BY <1>2, <1>4 DEF EvacuateRegion, CopyObject
<1>6. ASSUME NEW p \in Objects, p # o
      PROVE  /\ place'[p] = place[p] /\ Final(p)' = Final(p) /\ (Old(p)' <=> Old(p))
             /\ \A a \in {Original(p), Copy(p), Final(p)} :
                    (a \in oldToNew' <=> a \in oldToNew) /\ (a \in crossRegion' <=> a \in crossRegion)
  <2>1. place'[p] = place[p]
    BY <1>a, <1>5, <1>6
  <2>2. Final(p)' = Final(p) /\ (Old(p)' <=> Old(p))
    BY <2>1, <1>b DEF Final, Old
  <2>3. \A a \in {Original(p), Copy(p), Final(p)} : a # Copy(o)
    BY <1>6, AddressFacts, FinalFacts
  <2>4. ASSUME NEW a, a # Copy(o)
        PROVE  (a \in oldToNew' <=> a \in oldToNew) /\ (a \in crossRegion' <=> a \in crossRegion)
    BY <1>5, <2>4 DEF SetObjectFieldRSet
  <2> QED
    BY <2>1, <2>2, <2>3, <2>4
<1>7. /\ Original(o) \in oldToNew' <=> Original(o) \in oldToNew
      /\ Original(o) \in crossRegion' <=> Original(o) \in crossRegion
  BY <1>5, AddressFacts DEF SetObjectFieldRSet
<1>8. Copy(o) \notin oldToNew \cup crossRegion
  BY <1>3 DEF RecordedInv, RecordInv
<1>9. CopyInv'
  <2> SUFFICES ASSUME NEW p \in Objects
               PROVE  value'[Original(p)] = Was(p) /\ value'[Final(p)'] = Was(p)
      BY <1>b DEF CopyInv
  <2>1. Original(p) # Copy(o) /\ Original(p) \in Addresses /\ Final(p) \in Addresses /\ Copy(o) \in Addresses
    BY AddressFacts, FinalFacts
  <2>2. value'[Original(p)] = Was(p)
    BY <1>a, <1>4, <1>5, <2>1
  <2>3. CASE p # o
    <3>1. Final(p) # Copy(o)
      BY <2>3, AddressFacts, FinalFacts
    <3> QED
      BY <1>a, <1>4, <1>5, <1>6, <2>1, <2>2, <2>3, <3>1
  <2>4. CASE p = o
    <3>1. CASE place'[o] \in {"copied", "promoted"}
      <4>1. Final(o)' = Copy(o)
        BY <3>1 DEF Final
      <4>2. value'[Copy(o)] = Was(o)
        BY <1>a, <1>3, <1>4, <1>5, <2>1, <3>1
      <4> QED
        BY <2>2, <2>4, <4>1, <4>2
    <3>2. CASE place'[o] \notin {"copied", "promoted"}
      <4>1. Final(o)' = Original(o)
        BY <3>2 DEF Final
      <4> QED
        BY <2>2, <2>4, <4>1
    <3> QED
      BY <3>1, <3>2
  <2> QED
    BY <2>3, <2>4
<1>10. RecordInv'
  <2>1. ASSUME NEW p \in Objects
        PROVE  /\ Original(p) \in oldToNew' \cup crossRegion' \cup weakQueue => Stays(p)
               /\ Original(p) \notin before.twice =>
                    /\ ~(Original(p) \in oldToNew' /\ Original(p) \in crossRegion')
                    /\ ~(Original(p) \in oldToNew' /\ Original(p) \in weakQueue)
                    /\ ~(Original(p) \in crossRegion' /\ Original(p) \in weakQueue)
               /\ Copy(p) \notin weakQueue
    BY <1>6, <1>7 DEF RecordedInv, RecordInv
  <2>2. ASSUME NEW p \in Objects
        PROVE  /\ Copy(p) \in oldToNew' \cup crossRegion' => place'[p] = "promoted"
               /\ ~(Copy(p) \in oldToNew' /\ Copy(p) \in crossRegion')
    <3>1. CASE p # o
      BY <1>6, <3>1 DEF RecordedInv, RecordInv
    <3>2. CASE p = o
      BY <1>a, <1>5, <1>8, <3>2 DEF SetObjectFieldRSet
    <3> QED
      BY <3>1, <3>2
  <2>3. ASSUME NEW p \in Objects, Live(p), Old(p)', Was(p) # Undefined
        PROVE  /\ space[Target(p)] = "young" => Final(p)' \in oldToNew'
               /\ space[Target(p)] = "cset" => Final(p)' \in crossRegion'
               /\ Was(p).weak /\ space[Target(p)] = "old" =>
                    /\ ~Stays(p) => Final(p)' \in crossRegion'
                    /\ Stays(p) /\ isFullMark /\ Target(p) \notin marked => Final(p)' \in weakQueue
    <3>1. CASE p # o
      BY <1>2, <1>6, <2>3, <3>1 DEF RecordedInv, RecordInv
    <3>2. CASE p = o
      <4>1. place' = [place EXCEPT ![o] = "promoted"] /\ place'[o] = "promoted"
        BY <1>a, <1>b, <1>1, <1>3, <1>5, <2>3, <3>2 DEF Old
      <4>2. Final(o)' = Copy(o) /\ SetObjectFieldRSet(Copy(o), Was(o))
        BY <1>a, <1>3, <1>5, <4>1 DEF Final
      <4>3. Was(o).at = Original(Target(o)) /\ Target(o) \in Objects
        BY <2>3, <3>2, AddressFacts, UpdatedType DEF RecordedInv, BeforeInv, Target
      <4>4. (InYoungSpace(Was(o).at) <=> space[Target(o)] = "young") /\ Was(o).at.object = Target(o)
        BY <4>3, AddressFacts DEF InYoungSpace
      <4> QED
        BY <1>1, <2>3, <3>2, <4>2, <4>4 DEF SetObjectFieldRSet
    <3> QED
      BY <3>1, <3>2
  <2> QED
    BY <1>b, <1>c, <2>1, <2>2, <2>3 DEF RecordInv
<1>11. BeforeInv'
  BY <1>b DEF RecordedInv, BeforeInv
<1> QED
  BY <1>9, <1>10, <1>11 DEF RecordedInv

\* Records are added for promoted objects only, and dropped only while slots are updated.
LEMMA StepKeepsRecorded == ControlInv /\ CopyingInv /\ RecordedInv /\ [Next]_vars => RecordedInv'
<1> SUFFICES ASSUME ControlInv, CopyingInv, RecordedInv, [Next]_vars
             PROVE  RecordedInv'
    OBVIOUS
<1> USE DEF inputVars, heapVars, recordVars, copyVars, taskVars, threadVars
<1>a. /\ UNCHANGED inputVars
      /\ \A o : (Live(o)' <=> Live(o)) /\ (Stays(o)' <=> Stays(o))
      /\ \A o : Was(o)' = Was(o) /\ Target(o)' = Target(o)
  BY InputsStay
<1>b. BeforeInv'
  BY <1>a DEF RecordedInv, BeforeInv
<1>c. phase \in {"evacuate", "update"}
  BY DEF ControlInv, TypeOK
<1>d. ASSUME UNCHANGED place
      PROVE  \A o : Final(o)' = Final(o) /\ (Old(o)' <=> Old(o))
  BY <1>a, <1>d DEF Final, Old
<1>e. ASSUME UNCHANGED <<place, value, recordVars>>, phase' = "evacuate" => phase = "evacuate"
      PROVE  RecordedInv'
  <2>1. CopyInv'
    BY <1>a, <1>d, <1>e DEF RecordedInv, CopyInv
  <2>2. RecordInv'
    BY <1>a, <1>d, <1>e DEF RecordedInv, RecordInv
  <2> QED
    BY <1>b, <2>1, <2>2 DEF RecordedInv
<1>f. ASSUME UNCHANGED place, oldToNew' \subseteq oldToNew, crossRegion' \subseteq crossRegion,
             weakQueue' \subseteq weakQueue, phase' = "update"
      PROVE  RecordedInv'
  <2>1. CopyInv'
    BY <1>f DEF CopyInv
  <2>2. RecordInv'
    BY <1>a, <1>f DEF RecordedInv, RecordInv
  <2> QED
    BY <1>b, <2>1, <2>2 DEF RecordedInv
<1>1. CASE EvacuateSpace \/ UpdateReference \/ WaitFinished \/ SpuriousWakeup \/ UNCHANGED vars
  BY <1>e, <1>1 DEF EvacuateSpace, UpdateReference, WaitFinished, SpuriousWakeup, vars
<1>2. CASE UpdateRoot
  <2>1. phase' = "update"
    BY <1>2 DEF UpdateRoot, ControlInv, MainInv
  <2> QED
    BY <1>f, <1>2, <2>1 DEF UpdateRoot
<1>3. ASSUME NEW w \in Workers, StartTask(w) \/ CountDown(w)
      PROVE  RecordedInv'
  BY <1>e, <1>3 DEF StartTask, CountDown
<1>4. ASSUME NEW t \in Threads,
             TakeEvacuateWorkload(t) \/ Finalize(t) \/ TakeUpdateWorkload(t) \/ ReadSlot(t) \/ NoWorkload(t)
      PROVE  RecordedInv'
  BY <1>e, <1>4 DEF TakeEvacuateWorkload, Finalize, TakeUpdateWorkload, ReadSlot, NoWorkload
<1>5. ASSUME NEW t \in Threads, WriteSlot(t)
      PROVE  RecordedInv'
  <2>1. phase' = "update"
    BY <1>5 DEF WriteSlot, ControlInv, ThreadInv
  <2>2. UNCHANGED <<place, weakQueue>> /\ oldToNew' \subseteq oldToNew /\ crossRegion' \subseteq crossRegion
    BY <1>5 DEF WriteSlot
  <2> QED
    BY <1>f, <2>1, <2>2
<1> QED
  BY <1>1, <1>2, <1>3, <1>4, <1>5, RegionKeepsRecorded, Steps

-----------------------------------------------------------------------------
(* What references are updated to *)

\* Where an object is when everything is copied: in place if it stays, gone if it lives.
LEMMA PlacesAtUpdate ==
    ASSUME ControlInv, CopyingInv, Placed, NEW o \in Objects
    PROVE  /\ place[o] \in {"here", "moved", "copied", "promoted"} /\ space[o] \in {"old", "young", "cset"}
           /\ Stays(o) => place[o] = "here"
           /\ ~Stays(o) => (Live(o) <=> o \in marked) /\ (o \in marked => place[o] # "here")
           /\ place[o] \in {"copied", "moved"} => space[o] = "young"
           /\ place[o] \in {"copied", "promoted"} => o \in marked /\ Live(o) /\ ~Stays(o)
BY DEF ControlInv, TypeOK, CopyingInv, PlaceInv, Placed, Stays, Live

\* UpdateWeakObjectSlot keeps what lives, and follows it; what it is given was not updated yet.
LEMMA UpdatedWeakOriginal ==
    ASSUME ControlInv, CopyingInv, Placed, NEW o \in Objects, NEW v, v.at = Original(o)
    PROVE  UpdatedWeak(v) = IF ~Live(o) THEN Undefined
                            ELSE IF place[o] \in {"copied", "promoted"} THEN [v EXCEPT !.at = Copy(o)] ELSE v
<1>1. v.at.object = o /\ v.at.copied = FALSE
  BY AddressFacts
<1>2. /\ InYoungSpaceOrCSet(v.at) <=> ~Stays(o)
      /\ InNewToNewSet(v.at) <=> place[o] = "moved"
      /\ IsForwardingAddress(v.at) <=> place[o] \in {"copied", "promoted"}
      /\ Test(v.at) <=> o \in marked
      /\ To(v) = [v EXCEPT !.at = Copy(o)]
  BY <1>1, PlacesAtUpdate DEF InYoungSpaceOrCSet, InNewToNewSet, IsForwardingAddress, Test, To, Stays
<1>3. CASE Stays(o)
  BY <1>2, <1>3, PlacesAtUpdate DEF UpdatedWeak, Live, Stays
<1>4. CASE ~Stays(o)
  BY <1>2, <1>4, PlacesAtUpdate DEF UpdatedWeak
<1> QED
  BY <1>3, <1>4

\* A reference is not JSTaggedValue::Undefined().
LEMMA ReferencesAreNotUndefined ==
    ASSUME NEW a \in Addresses, NEW w \in BOOLEAN
    PROVE  [at |-> a, weak |-> w] # Undefined
<1>1. [at |-> a, weak |-> w] \in [at : Addresses, weak : BOOLEAN]
  OBVIOUS
<1> QED
  BY <1>1, UndefinedAssumption

\* A slot as it was is updated to what it has to become.
LEMMA UpdatedWas ==
    ASSUME ControlInv, CopyingInv, BeforeInv, Placed, NEW o \in Objects, Live(o)
    PROVE  Updated(Was(o)) = Becomes(o)
<1>1. CASE Was(o) = Undefined
  BY <1>1 DEF Updated, Becomes
<1>2. CASE Was(o) # Undefined
  <2>1. /\ Was(o) \in [at : Addresses, weak : BOOLEAN] /\ Was(o).at = Original(Target(o))
        /\ Target(o) \in Objects
    BY <1>2, UpdatedType, AddressFacts DEF BeforeInv, Target
  <2> DEFINE T == Target(o)
             v == Was(o)
  <2>2. [v EXCEPT !.at = Original(T)] = v
    BY <2>1
  <2>3. v # Undefined => Becomes(o) = IF ~Live(T) THEN Undefined
                                     ELSE IF place[T] \in {"copied", "promoted"} THEN [v EXCEPT !.at = Copy(T)] ELSE v
    <3>1. Becomes(o) = IF ~Live(T) THEN Undefined ELSE [v EXCEPT !.at = Final(T)]
      BY <1>2 DEF Becomes
    <3>2. Final(T) = IF place[T] \in {"copied", "promoted"} THEN Copy(T) ELSE Original(T)
      BY DEF Final
    <3> QED
      BY <2>2, <3>1, <3>2
  <2>4. CASE v.weak
    <3>1. Updated(v) = UpdatedWeak(v)
      BY <1>2, <2>4 DEF Updated
    <3> QED
      BY <1>2, <2>1, <2>3, <3>1, UpdatedWeakOriginal
  <2>5. CASE ~v.weak
    <3>1. Live(T)
      BY <1>2, <2>5 DEF BeforeInv
    <3>2. IsForwardingAddress(v.at) <=> place[T] \in {"copied", "promoted"}
      BY <2>1, AddressFacts DEF IsForwardingAddress
    <3>3. To(v) = [v EXCEPT !.at = Copy(T)]
      BY <2>1, AddressFacts DEF To
    <3>4. Updated(v) = IF IsForwardingAddress(v.at) THEN To(v) ELSE v
      BY <1>2, <2>5 DEF Updated
    <3> QED
      BY <1>2, <2>3, <3>1, <3>2, <3>3, <3>4
  <2> QED
    BY <2>4, <2>5
<1> QED
  BY <1>1, <1>2

\* Updated again it stays, or is lost if it is weak: a copy has no mark.
LEMMA UpdatedBecomes ==
    ASSUME ControlInv, CopyingInv, BeforeInv, Placed, NEW o \in Objects, Live(o)
    PROVE  /\ Becomes(o) # Undefined => Was(o) # Undefined /\ Live(Target(o)) /\ Becomes(o) \in [at : Addresses, weak : BOOLEAN]
                                        /\ Becomes(o).at = Final(Target(o)) /\ Target(o) \in Objects
           /\ Updated(Becomes(o)) \in {Becomes(o), Undefined}
           /\ Was(o) # Undefined /\ ~Was(o).weak => Updated(Becomes(o)) = Becomes(o)
           /\ Was(o) # Undefined /\ Live(Target(o)) => Becomes(o) # Undefined
<1>1. CASE Was(o) = Undefined \/ ~Live(Target(o))
  <2>1. Becomes(o) = Undefined
    BY <1>1 DEF Becomes
  <2>2. Updated(Undefined) = Undefined
    BY DEF Updated
  <2> QED
    BY <1>1, <2>1, <2>2
<1>2. CASE Was(o) # Undefined /\ Live(Target(o))
  <2>1. /\ Was(o) \in [at : Addresses, weak : BOOLEAN] /\ Was(o).at = Original(Target(o))
        /\ Target(o) \in Objects
    BY <1>2, UpdatedType, AddressFacts DEF BeforeInv, Target
  <2> DEFINE T == Target(o)
             v == Was(o)
             u == Becomes(o)
  <2>2. u = [v EXCEPT !.at = Final(T)]
    BY <1>2 DEF Becomes
  <2>3. Final(T) \in Addresses /\ Final(T).object = T
    BY <2>1, FinalFacts
  <2>4. u \in [at : Addresses, weak : BOOLEAN] /\ u.at = Final(T) /\ u.weak = v.weak
    BY <2>1, <2>2, <2>3
  <2>5. u # Undefined
    BY <2>4, UndefinedAssumption
  <2>6. CASE place[T] \in {"copied", "promoted"}
    <3>1. u.at = Copy(T) /\ u.at.copied = TRUE /\ u.at.object = T
      BY <2>1, <2>4, <2>6, FinalFacts, AddressFacts
    <3>2. ~IsForwardingAddress(u.at) /\ ~InNewToNewSet(u.at)
      BY <3>1 DEF IsForwardingAddress, InNewToNewSet
    <3>3. UpdatedWeak(u) \in {u, Undefined}
      BY <3>2 DEF UpdatedWeak
    <3>4. Updated(u) \in {u, Undefined} /\ (~v.weak => Updated(u) = u)
      BY <2>4, <2>5, <3>2, <3>3 DEF Updated
    <3> QED
      BY <1>2, <2>1, <2>4, <2>5, <3>4
  <2>7. CASE place[T] \notin {"copied", "promoted"}
    <3>1. u = v
      BY <2>1, <2>2, <2>7, FinalFacts
    <3>2. Updated(u) = u
      BY <3>1, UpdatedWas
    <3> QED
      BY <1>2, <2>1, <2>4, <2>5, <3>2
  <2> QED
    BY <2>6, <2>7
<1> QED
  BY <1>1, <1>2

\* A slot that holds no reference is left alone.
LEMMA UpdatedUndefined == Updated(Undefined) = Undefined
BY DEF Updated

\* The roots are updated at once, by the JS thread.
LEMMA StepKeepsRoots == ControlInv /\ CopyingInv /\ RootsInv /\ [Next]_vars => RootsInv'
<1> SUFFICES ASSUME ControlInv, CopyingInv, RootsInv, [Next]_vars
             PROVE  RootsInv'
    OBVIOUS
<1> USE DEF inputVars, heapVars, recordVars, copyVars, taskVars, threadVars
<1>0. /\ Main \in Threads /\ Main \notin Workers /\ \A t : t \in Threads <=> t = Main \/ t \in Workers
      /\ pc \in [Threads -> {"idle", "evacuate", "take", "copy", "count", "wait", "asleep", "enumerate",
                             "roots", "update", "write", "done"}]
      /\ phase \in {"evacuate", "update"}
  BY ThreadFacts DEF ControlInv, TypeOK
<1>a. \A o : (Live(o)' <=> Live(o)) /\ (Stays(o)' <=> Stays(o))
  BY InputsStay
<1>b. ASSUME UNCHANGED <<roots, globals, phase>>, UNCHANGED place \/ phase = "evacuate",
             pc'[Main] = "roots" <=> pc[Main] = "roots"
      PROVE  RootsInv'
  <2>1. CASE phase = "evacuate" \/ pc[Main] = "roots"
    BY <1>a, <1>b, <2>1 DEF RootsInv
  <2>2. CASE ~(phase = "evacuate" \/ pc[Main] = "roots")
    <3>1. \A o : Final(o)' = Final(o)
      BY <1>b, <2>2 DEF Final
    <3> QED
      BY <1>a, <1>b, <2>2, <3>1 DEF RootsInv
  <2> QED
    BY <2>1, <2>2
<1>1. CASE UNCHANGED vars
  BY <1>b, <1>1 DEF vars
<1>2. CASE EvacuateSpace \/ WaitFinished \/ SpuriousWakeup
  BY <1>0, <1>b, <1>2 DEF EvacuateSpace, WaitFinished, SpuriousWakeup, GoTo
<1>3. CASE UpdateReference
  <2>1. phase = "evacuate" /\ pc'[Main] = "roots" /\ UNCHANGED <<roots, globals>>
    BY <1>0, <1>3 DEF UpdateReference, ControlInv, MainInv, GoTo
  <2> QED
    BY <1>a, <2>1 DEF RootsInv
<1>4. CASE UpdateRoot
  <2>1. phase = "update" /\ phase' = "update" /\ pc'[Main] # "roots" /\ pc[Main] = "roots"
    BY <1>0, <1>4 DEF UpdateRoot, ControlInv, MainInv, GoTo
  <2>2. /\ roots = {Original(o) : o \in {p \in Objects : Live(p)}}
        /\ globals = {Original(o) : o \in Objects}
    BY <2>1 DEF RootsInv
  <2>3. \A o : Final(o)' = Final(o)
    BY <1>4 DEF UpdateRoot, Final
  <2>4. ASSUME NEW o \in Objects
        PROVE  Updated([at |-> Original(o), weak |-> FALSE]).at = Final(o)
    <3> DEFINE v == [at |-> Original(o), weak |-> FALSE]
    <3>1. v.at.object = o /\ v.at.copied = FALSE /\ v.at = Original(o) /\ v.weak = FALSE
      BY AddressFacts
    <3>2. v # Undefined
      BY AddressFacts, ReferencesAreNotUndefined
    <3>3. Updated(v) = IF place[o] \in {"copied", "promoted"} THEN [v EXCEPT !.at = Copy(o)] ELSE v
      BY <3>1, <3>2 DEF Updated, IsForwardingAddress, To
    <3>4. Updated(v).at = Final(o)
      BY <3>1, <3>3 DEF Final
    <3> QED
      BY <3>4
  <2>5. roots' = {Final(o) : o \in {p \in Objects : Live(p)}}
    BY <1>4, <2>2, <2>4 DEF UpdateRoot
  <2>6. ASSUME NEW o \in Objects
        PROVE  /\ ~Live(o) => UpdatedWeak([at |-> Original(o), weak |-> TRUE]) = Undefined
               /\ Live(o) => /\ UpdatedWeak([at |-> Original(o), weak |-> TRUE]) # Undefined
                             /\ UpdatedWeak([at |-> Original(o), weak |-> TRUE]).at = Final(o)
    <3> DEFINE v == [at |-> Original(o), weak |-> TRUE]
    <3>1. v.at = Original(o)
      OBVIOUS
    <3>2. UpdatedWeak(v) = IF ~Live(o) THEN Undefined
                           ELSE IF place[o] \in {"copied", "promoted"} THEN [v EXCEPT !.at = Copy(o)] ELSE v
      BY <2>1, <3>1, UpdatedWeakOriginal DEF CopyingInv, PlaceInv
    <3>3. [v EXCEPT !.at = Copy(o)].at = Copy(o) /\ [v EXCEPT !.at = Copy(o)] # Undefined
      <4>1. v \in [at : Addresses, weak : BOOLEAN] /\ Copy(o) \in Addresses
        BY AddressFacts
      <4> HIDE DEF v
      <4>2. [v EXCEPT !.at = Copy(o)] \in [at : Addresses, weak : BOOLEAN]
        BY <4>1
      <4> QED
        BY <4>1, <4>2, UndefinedAssumption
    <3>4. v # Undefined
      BY AddressFacts, ReferencesAreNotUndefined
    <3> QED
      BY <3>1, <3>2, <3>3, <3>4 DEF Final
  <2>7. globals' = {v.at : v \in {UpdatedWeak([at |-> a, weak |-> TRUE]) : a \in globals} \ {Undefined}}
    BY <1>4 DEF UpdateRoot, UpdatedGlobals
  <2>8. globals' = {Final(o) : o \in {p \in Objects : Live(p)}}
    <3>1. ASSUME NEW x \in globals'
          PROVE  x \in {Final(o) : o \in {p \in Objects : Live(p)}}
      <4>1. PICK a \in globals : /\ UpdatedWeak([at |-> a, weak |-> TRUE]) # Undefined
                                 /\ x = UpdatedWeak([at |-> a, weak |-> TRUE]).at
        BY <2>7
      <4>2. PICK o \in Objects : a = Original(o)
        BY <2>2
      <4> QED
        BY <2>6, <4>1, <4>2
    <3>2. ASSUME NEW o \in Objects, Live(o)
          PROVE  Final(o) \in globals'
      <4>1. Original(o) \in globals
        BY <2>2
      <4> QED
        BY <2>6, <2>7, <3>2, <4>1
    <3> QED
      BY <3>1, <3>2
  <2> QED
    BY <1>a, <2>1, <2>3, <2>5, <2>8 DEF RootsInv
<1>5. ASSUME NEW w \in Workers, StartTask(w) \/ CountDown(w)
      PROVE  RootsInv'
  <2>1. pc'[Main] = "roots" <=> pc[Main] = "roots"
    BY <1>0, <1>5 DEF StartTask, CountDown, GoTo
  <2> QED
    BY <1>b, <1>5, <2>1 DEF StartTask, CountDown
<1>6. ASSUME NEW t \in Threads,
             \/ TakeEvacuateWorkload(t) \/ EvacuateRegion(t) \/ Finalize(t)
             \/ TakeUpdateWorkload(t) \/ ReadSlot(t) \/ WriteSlot(t) \/ NoWorkload(t)
      PROVE  RootsInv'
  <2>1. pc[t] # "roots" /\ \E label : label # "roots" /\ GoTo(t, label)
    BY <1>6 DEF TakeEvacuateWorkload, EvacuateRegion, Finalize, TakeUpdateWorkload, ReadSlot, WriteSlot,
                NoWorkload, AfterWorkloads
  <2>2. pc'[Main] = "roots" <=> pc[Main] = "roots"
    BY <1>0, <2>1 DEF GoTo
  <2>3. UNCHANGED <<roots, globals, phase>> /\ (UNCHANGED place \/ EvacuateRegion(t))
    BY <1>6 DEF TakeEvacuateWorkload, EvacuateRegion, Finalize, TakeUpdateWorkload, ReadSlot, WriteSlot, NoWorkload
  <2>4. EvacuateRegion(t) => phase = "evacuate"
    BY DEF EvacuateRegion, ControlInv, ThreadInv
  <2> QED
    BY <1>b, <2>2, <2>3, <2>4
<1> QED
  BY <1>1, <1>2, <1>3, <1>4, <1>5, <1>6, Steps

-----------------------------------------------------------------------------
(* Who updates what *)

\* The slots of a workload are those of its region, each with its record.
LEMMA SlotsFacts ==
    ASSUME NEW a
    PROVE  /\ \A x \in SlotsOf(a) : x[1] # "queue" /\ x[2] = a
           /\ \A k, s : <<k, s>> \in SlotsOf(a) <=> s = a /\ HasRecord(k, a)
BY DEF SlotsOf, HasRecord

\* A slot is handed to one thread by its workload, or to the JS thread by its queue.
LEMMA StepKeepsTaken == ControlInv /\ TakenInv /\ [Next]_vars => TakenInv'
<1> SUFFICES ASSUME ControlInv, TakenInv, [Next]_vars
             PROVE  TakenInv'
    OBVIOUS
<1> USE DEF inputVars, heapVars, recordVars, copyVars, taskVars, threadVars
<1>0. /\ Main \in Threads /\ Main \notin Workers /\ \A t : t \in Threads <=> t = Main \/ t \in Workers
      /\ pc \in [Threads -> {"idle", "evacuate", "take", "copy", "count", "wait", "asleep", "enumerate",
                             "roots", "update", "write", "done"}]
      /\ phase \in {"evacuate", "update"} /\ todo \in [Threads -> SUBSET SlotRecords]
  BY ThreadFacts DEF ControlInv, TypeOK, LocalsInv
<1>a. ASSUME NEW t \in Threads, pc[t] \notin {"update", "write"} \/ phase = "evacuate"
      PROVE  todo[t] = {}
  BY <1>a DEF ControlInv, ThreadInv
<1>b. ASSUME \A t \in Threads : todo'[t] = {}, phase' = "update" /\ weakQueue' # {} => pc'[Main] = "roots"
      PROVE  TakenInv'
  BY <1>b DEF TakenInv
<1>c. ASSUME \A t \in Threads : todo'[t] \subseteq todo[t], UNCHANGED <<phase, workloads, weakQueue>>,
             pc[Main] = "roots" => pc'[Main] = "roots"
      PROVE  TakenInv'
  BY <1>c DEF TakenInv
<1>1. CASE UNCHANGED vars
  BY <1>c, <1>1 DEF vars
<1>2. CASE EvacuateSpace
  BY <1>a, <1>b, <1>2 DEF EvacuateSpace, ControlInv, MainInv
<1>3. CASE UpdateReference
  <2>1. phase = "evacuate" /\ pc'[Main] = "roots" /\ todo' = todo
    BY <1>0, <1>3 DEF UpdateReference, GoTo, ControlInv, MainInv
  <2> QED
    BY <1>a, <1>b, <2>1
<1>4. CASE UpdateRoot
  <2>1. /\ todo' = [todo EXCEPT ![Main] = {<<"queue", s>> : s \in weakQueue}]
        /\ weakQueue' = {} /\ UNCHANGED <<phase, workloads>>
    BY <1>4 DEF UpdateRoot
  <2>2. /\ todo'[Main] = {<<"queue", s>> : s \in weakQueue}
        /\ \A t \in Threads : t # Main => todo'[t] = todo[t]
    BY <1>0, <2>1
  <2>3. \A x \in todo'[Main] : x[1] = "queue"
    BY <2>2
  <2> QED
    BY <2>1, <2>2, <2>3 DEF TakenInv
<1>5. CASE WaitFinished \/ SpuriousWakeup
  BY <1>0, <1>c, <1>5 DEF WaitFinished, SpuriousWakeup, GoTo
<1>6. ASSUME NEW w \in Workers, StartTask(w) \/ CountDown(w)
      PROVE  TakenInv'
  <2>1. pc[Main] = "roots" => pc'[Main] = "roots"
    BY <1>0, <1>6 DEF StartTask, CountDown, GoTo
  <2> QED
    BY <1>c, <1>6, <2>1 DEF StartTask, CountDown
<1>7. ASSUME NEW t \in Threads, TakeEvacuateWorkload(t)
      PROVE  TakenInv'
  BY <1>a, <1>b, <1>7 DEF TakeEvacuateWorkload
<1>8. ASSUME NEW t \in Threads, EvacuateRegion(t) \/ Finalize(t) \/ ReadSlot(t) \/ NoWorkload(t)
      PROVE  TakenInv'
  <2>1. pc[t] # "roots" /\ \E label : GoTo(t, label)
    BY <1>8 DEF EvacuateRegion, Finalize, ReadSlot, NoWorkload
  <2>2. pc[Main] = "roots" => pc'[Main] = "roots"
    BY <1>0, <2>1 DEF GoTo
  <2> QED
    BY <1>c, <1>8, <2>2 DEF EvacuateRegion, Finalize, ReadSlot, NoWorkload
<1>9. ASSUME NEW t \in Threads, TakeUpdateWorkload(t)
      PROVE  TakenInv'
  <2>1. PICK a \in workloads : workloads' = workloads \ {a} /\ todo' = [todo EXCEPT ![t] = SlotsOf(a)]
    BY <1>9 DEF TakeUpdateWorkload
  <2>2. pc[t] = "take" /\ UNCHANGED <<weakQueue, phase>> /\ \E label : GoTo(t, label)
    BY <1>9 DEF TakeUpdateWorkload
  <2>3. pc[Main] = "roots" => pc'[Main] = "roots"
    BY <1>0, <2>2 DEF GoTo
  <2>4. todo'[t] = SlotsOf(a) /\ \A u \in Threads : u # t => todo'[u] = todo[u]
    BY <1>0, <2>1
  <2>5. \A x \in todo'[t] : x[1] # "queue" /\ x[2] = a
    BY <2>4, SlotsFacts
  <2> QED
    BY <2>1, <2>2, <2>3, <2>4, <2>5 DEF TakenInv
<1>10. ASSUME NEW t \in Threads, WriteSlot(t)
       PROVE  TakenInv'
  <2>1. \A u \in Threads : todo'[u] \subseteq todo[u]
    BY <1>0, <1>10 DEF WriteSlot
  <2>2. pc[Main] = "roots" => pc'[Main] = "roots"
    BY <1>0, <1>10 DEF WriteSlot, GoTo
  <2> QED
    BY <1>c, <1>10, <2>1, <2>2 DEF WriteSlot
<1> QED
  BY <1>1, <1>2, <1>3, <1>4, <1>5, <1>6, <1>7, <1>8, <1>9, <1>10, Steps

-----------------------------------------------------------------------------
(* Updating: the slot of one object *)

\* The objects have their final places.
LEMMA FinalsStay ==
    ASSUME [Next]_vars, UNCHANGED place, NEW o
    PROVE  /\ Final(o)' = Final(o) /\ Becomes(o)' = Becomes(o) /\ Kind(o)' = Kind(o)
           /\ (Old(o)' <=> Old(o)) /\ (Kept(o)' <=> Kept(o))
           /\ \A a : (InYoungSpace(a)' <=> InYoungSpace(a)) /\ (InNewToNewSet(a)' <=> InNewToNewSet(a))
                     /\ (Test(a)' <=> Test(a))
<1>1. /\ UNCHANGED inputVars
      /\ \A p : (Live(p)' <=> Live(p)) /\ (Stays(p)' <=> Stays(p))
      /\ \A p : Was(p)' = Was(p) /\ Target(p)' = Target(p)
  BY InputsStay
<1>2. UNCHANGED <<space, marked, before>>
  BY <1>1 DEF inputVars
<1>3. \A p : Final(p)' = Final(p) /\ (Old(p)' <=> Old(p))
  BY <1>1 DEF Final, Old
<1>4. \A a : (InYoungSpace(a)' <=> InYoungSpace(a)) /\ (InNewToNewSet(a)' <=> InNewToNewSet(a)) /\ (Test(a)' <=> Test(a))
  BY <1>2 DEF InYoungSpace, InNewToNewSet, Test
<1>5. Becomes(o)' = Becomes(o)
  BY <1>1, <1>3 DEF Becomes
<1>6. Kind(o)' = Kind(o)
  BY <1>1, <1>2, <1>3 DEF Kind
<1>7. Kept(o)' <=> Kept(o)
  BY <1>1, <1>2 DEF Kept
<1> QED
  BY <1>3, <1>4, <1>5, <1>6, <1>7

\* A step that leaves the slot, its records and its writers alone.
LEMMA SlotStays ==
    ASSUME [Next]_vars, UNCHANGED place, NEW o, SlotInv(o), NEW f, f = Final(o),
           value'[f] = value[f],
           f \in oldToNew' <=> f \in oldToNew,
           \A k \in Kinds : Pending(k, f)' <=> Pending(k, f),
           \A t \in Threads : Writes(t, f)' => Writes(t, f) /\ seen'[t] = seen[t]
    PROVE  SlotInv(o)'
<1>b. PICK b : b = Becomes(o)
  OBVIOUS
<1>k. PICK K : K = Kind(o)
  OBVIOUS
<1>1. /\ Final(o)' = f /\ Becomes(o)' = b /\ Kind(o)' = K
      /\ (Old(o)' <=> Old(o)) /\ (Kept(o)' <=> Kept(o))
      /\ \A a : InYoungSpace(a)' <=> InYoungSpace(a)
  BY <1>b, <1>k, FinalsStay
<1>2. Was(o)' = Was(o) /\ Target(o)' = Target(o) /\ UNCHANGED space
  BY InputsStay DEF inputVars
<1>3. K \in Kinds
  BY <1>k DEF Kind, Kinds
<1>4. SlotOf(o)'
  BY <1>b, <1>k, <1>1, <1>2, <1>3 DEF SlotInv, SlotOf
<1>5. Kept(o) => KeptOf(o)'
  BY <1>1 DEF SlotInv, KeptOf
<1>6. Kept(o) /\ Was(o).weak => OnceOf(o)'
  BY <1>1, <1>2 DEF SlotInv, OnceOf
<1> QED
  BY <1>1, <1>2, <1>4, <1>5, <1>6 DEF SlotInv

\* Where the workloads find the slot of an object that lives.
LEMMA RecordsOfFinal ==
    ASSUME ControlInv, CopyingInv, RecordInv, Placed, NEW o \in Objects, Live(o)
    PROVE  /\ ~Old(o) => /\ \A k : HasRecord(k, Final(o)) <=> k = "field"
                         /\ Final(o) \notin oldToNew \cup crossRegion \cup weakQueue
           /\ Old(o) => \A k : HasRecord(k, Final(o)) <=> (k = "rset" /\ Final(o) \in oldToNew)
                                                           \/ (k = "cross" /\ Final(o) \in crossRegion)
           /\ place[o] = "promoted" => Final(o) = Copy(o) /\ ~Stays(o)
           /\ Stays(o) => Final(o) = Original(o)
<1>1. CASE ~Old(o)
  <2>1. ~Stays(o) /\ o \in marked /\ place[o] \in {"copied", "moved"} /\ space[o] = "young"
    BY <1>1, PlacesAtUpdate DEF Old
  <2>2. CASE place[o] = "moved"
    <3>1. Final(o) = Original(o) /\ InNewToNewSet(Final(o)) /\ Test(Final(o))
      BY <2>1, <2>2, AddressFacts, FinalFacts DEF InNewToNewSet, Test
    <3> QED
      BY <1>1, <2>1, <2>2, <3>1 DEF HasRecord, RecordInv
  <2>3. CASE place[o] = "copied"
    <3>1. Final(o) = Copy(o) /\ ~InNewToNewSet(Final(o)) /\ InYoungSpace(Final(o))
      BY <2>1, <2>3, AddressFacts, FinalFacts DEF InNewToNewSet, InYoungSpace
    <3> QED
      BY <1>1, <2>1, <2>3, <3>1 DEF HasRecord, RecordInv
  <2> QED
    BY <2>1, <2>2, <2>3
<1>2. CASE Old(o)
  <2>1. ~InNewToNewSet(Final(o)) /\ ~InYoungSpace(Final(o))
    <3>1. CASE place[o] = "promoted"
      BY <3>1, AddressFacts, FinalFacts DEF InNewToNewSet, InYoungSpace
    <3>2. CASE Stays(o) /\ place[o] = "here"
      BY <3>2, AddressFacts, FinalFacts DEF InNewToNewSet, InYoungSpace, Stays
    <3> QED
      BY <1>2, <3>1, <3>2, PlacesAtUpdate DEF Old
  <2>2. place[o] = "promoted" => Final(o) = Copy(o) /\ ~Stays(o)
    BY FinalFacts, PlacesAtUpdate
  <2>3. Stays(o) => Final(o) = Original(o)
    BY FinalFacts, PlacesAtUpdate
  <2> QED
    BY <1>2, <2>1, <2>2, <2>3 DEF HasRecord
<1> QED
  BY <1>1, <1>2, PlacesAtUpdate DEF Old

\* When the update begins, every slot whose reference is to change is recorded.
LEMMA UpdateBegins ==
    ASSUME ControlInv, CopyingInv, RecordedInv, [Next]_vars, UpdateReference, NEW o \in Objects, Live(o)
    PROVE  SlotInv(o)'
<1>f. PICK f : f = Final(o)
  OBVIOUS
<1>b. PICK b : b = Becomes(o)
  OBVIOUS
<1>k. PICK K : K = Kind(o)
  OBVIOUS
<1>t. PICK T : T = Target(o)
  OBVIOUS
<1>0. /\ phase = "evacuate" /\ phase' = "update" /\ workloads = {} /\ parallel = 0
      /\ UNCHANGED <<inputVars, heapVars, recordVars, copyVars, todo, seen>>
  BY DEF UpdateReference, ControlInv, MainInv
<1>1. Placed
  <2>1. \A t \in Threads : pc[t] # "copy"
    BY <1>0, IdleFacts, ThreadFacts DEF UpdateReference
  <2> QED
    BY <1>0, <2>1 DEF UpdateReference, CopyingInv, WorkInv, Placed, ControlInv, TypeOK
<1>2. UNCHANGED <<place, value, oldToNew, crossRegion, weakQueue, space, marked, isFullMark, before, merged>>
  BY <1>0 DEF inputVars, heapVars, recordVars, copyVars
<1>3. /\ Final(o)' = f /\ Becomes(o)' = b /\ Kind(o)' = K
      /\ (Old(o)' <=> Old(o)) /\ (Kept(o)' <=> Kept(o))
  BY <1>f, <1>b, <1>k, <1>2, FinalsStay
<1>4. Was(o)' = Was(o) /\ Target(o)' = T /\ (Stays(o)' <=> Stays(o))
  BY <1>t, InputsStay
<1>5. value'[f] = Was(o)
  BY <1>f, <1>0, <1>2 DEF RecordedInv, CopyInv
<1>6. \A t \in Threads : todo'[t] = {} /\ ~Writes(t, f)'
  <2>1. \A t \in Threads : todo[t] = {} /\ pc[t] # "write"
    BY <1>0 DEF ControlInv, ThreadInv
  <2>2. pc' = [pc EXCEPT ![Main] = "roots"]
    BY DEF UpdateReference, GoTo
  <2>3. \A t \in Threads : pc'[t] # "write"
    BY <2>1, <2>2 DEF ControlInv, TypeOK
  <2> QED
    BY <1>0, <2>1, <2>3 DEF Writes
<1>7. merged = {p \in Objects : place[p] = "promoted"}
  <2>1. \A t \in Threads : pc[t] \notin {"take", "copy"}
    BY <1>0, IdleFacts, ThreadFacts DEF UpdateReference
  <2> QED
    BY <2>1 DEF CopyingInv, PromotedInv, ControlInv, ThreadInv, TypeOK
<1>8. f \in workloads'
  <2>1. workloads' = {Original(p) : p \in {q \in Objects : Stays(q) \/ place[q] = "moved"}}
                     \cup {Copy(p) : p \in {q \in Objects : place[q] = "copied" \/ q \in merged}}
    BY DEF UpdateReference
  <2>2. (Stays(o) /\ place[o] = "here") \/ place[o] \in {"moved", "copied", "promoted"}
    BY <1>1, PlacesAtUpdate
  <2> QED
    BY <1>f, <1>7, <2>1, <2>2, FinalFacts
<1>9. \A k : HasRecord(k, f)' <=> HasRecord(k, f)
  <2>1. \A a : (InYoungSpace(a)' <=> InYoungSpace(a)) /\ (InNewToNewSet(a)' <=> InNewToNewSet(a)) /\ (Test(a)' <=> Test(a))
    BY <1>2, FinalsStay
  <2> QED
    BY <1>2, <2>1 DEF HasRecord
<1>10. \A k : Pending(k, f)' <=> (k = "queue" /\ f \in weakQueue) \/ HasRecord(k, f)
  BY <1>2, <1>6, <1>8, <1>9 DEF Pending, Waits
<1>11. /\ ~Old(o) => (\A k : HasRecord(k, f) <=> k = "field") /\ f \notin oldToNew \cup crossRegion \cup weakQueue
       /\ Old(o) => \A k : HasRecord(k, f) <=> (k = "rset" /\ f \in oldToNew) \/ (k = "cross" /\ f \in crossRegion)
       /\ place[o] = "promoted" => f = Copy(o) /\ ~Stays(o)
       /\ Stays(o) => f = Original(o)
  BY <1>f, <1>1, RecordsOfFinal DEF RecordedInv
<1>12. Old(o) /\ Was(o) # Undefined =>
          /\ space[T] = "young" => f \in oldToNew
          /\ space[T] = "cset" => f \in crossRegion
          /\ Was(o).weak /\ space[T] = "old" =>
               /\ ~Stays(o) => f \in crossRegion
               /\ Stays(o) /\ isFullMark /\ T \notin marked => f \in weakQueue
  BY <1>f, <1>t, <1>0 DEF RecordedInv, RecordInv
<1>13. Was(o) # Undefined => T \in Objects /\ Was(o) \in [at : Addresses, weak : BOOLEAN] /\ Was(o).at = Original(T)
  BY <1>t, UpdatedType, AddressFacts DEF RecordedInv, BeforeInv, Target
<1>14. Was(o) = b \/ Pending(K, f)'
  <2>1. CASE Was(o) = Undefined
    BY <1>b, <2>1 DEF Becomes
  <2>2. CASE ~Old(o)
    BY <1>10, <1>11, <1>k, <2>2 DEF Kind
  <2>3. CASE Old(o) /\ Was(o) # Undefined
    <3>1. CASE space[T] \in {"young", "cset"} \/ (~Stays(o) /\ Was(o).weak)
      BY <1>10, <1>11, <1>12, <1>13, <2>3, <1>t, <1>k, <3>1 DEF Kind, ControlInv, TypeOK
    <3>2. CASE space[T] = "old" /\ ~(~Stays(o) /\ Was(o).weak)
      <4>1. Final(T) = Original(T)
        BY <1>13, <2>3, <3>2, FinalFacts DEF CopyingInv, PlaceInv, Stays
      <4>2. Live(T) => b = Was(o)
        BY <1>13, <2>3, <1>b, <1>t, <4>1 DEF Becomes
      <4>3. ~Was(o).weak => Live(T)
        BY <1>t, <2>3 DEF RecordedInv, BeforeInv
      <4>4. ~Live(T) => isFullMark /\ T \notin marked /\ Was(o).weak /\ Stays(o)
        BY <1>13, <2>3, <3>2, <4>3 DEF Live
      <4>5. ~Live(T) => f \in weakQueue /\ K = "queue"
        BY <1>12, <2>3, <3>2, <1>t, <1>k, <4>4 DEF Kind
      <4> QED
        BY <1>10, <4>2, <4>5
    <3> QED
      BY <1>13, <2>3, <3>1, <3>2 DEF ControlInv, TypeOK
  <2> QED
    BY <2>1, <2>2, <2>3
<1>15. SlotOf(o)'
  <2>1. Old(o) /\ Was(o) # Undefined /\ space[T] = "young" => f \in oldToNew'
    BY <1>2, <1>12
  <2> QED
    BY <1>2, <1>3, <1>4, <1>5, <1>6, <1>14, <2>1 DEF SlotOf
<1>16. Kept(o) => KeptOf(o)'
  BY <1>3, <1>5, <1>6 DEF Kept, KeptOf
<1>17. Kept(o) /\ Was(o).weak => OnceOf(o)'
  <2> SUFFICES ASSUME Kept(o), Was(o).weak
               PROVE  OnceOf(o)'
      OBVIOUS
  <2>1. Original(o) \notin before.twice
    BY DEF Kept
  <2>2. ASSUME NEW k \in Kinds, NEW l \in Kinds, Pending(k, f)', Pending(l, f)'
        PROVE  k = l
    <3>1. /\ (k = "queue" /\ f \in weakQueue) \/ HasRecord(k, f)
          /\ (l = "queue" /\ f \in weakQueue) \/ HasRecord(l, f)
      BY <1>10, <2>2
    <3>2. CASE ~Old(o)
      BY <1>11, <3>1, <3>2
    <3>3. CASE Old(o)
      <4>1. /\ ~(f \in oldToNew /\ f \in crossRegion)
            /\ ~(f \in oldToNew /\ f \in weakQueue)
            /\ ~(f \in crossRegion /\ f \in weakQueue)
        BY <1>11, <2>1, <3>3 DEF RecordedInv, RecordInv, Old
      <4>2. /\ HasRecord(k, f) => (k = "rset" /\ f \in oldToNew) \/ (k = "cross" /\ f \in crossRegion)
            /\ HasRecord(l, f) => (l = "rset" /\ f \in oldToNew) \/ (l = "cross" /\ f \in crossRegion)
        BY <1>11, <3>3
      <4> QED
        BY <3>1, <4>1, <4>2
    <3> QED
      BY <3>2, <3>3
  <2> QED
    BY <1>3, <1>4, <1>5, <1>6, <2>2 DEF OnceOf
<1> QED
  BY <1>3, <1>4, <1>15, <1>16, <1>17 DEF SlotInv

\* A thread remembers what it has read, which another may overtake.
LEMMA ReadKeepsSlot ==
    ASSUME ControlInv, [Next]_vars, NEW t \in Threads, ReadSlot(t), NEW o \in Objects, SlotInv(o)
    PROVE  SlotInv(o)'
<1>f. PICK f : f = Final(o)
  OBVIOUS
<1>b. PICK b : b = Becomes(o)
  OBVIOUS
<1>k. PICK K : K = Kind(o)
  OBVIOUS
<1>0. /\ pc \in [Threads -> {"idle", "evacuate", "take", "copy", "count", "wait", "asleep", "enumerate",
                             "roots", "update", "write", "done"}]
      /\ current \in [Threads -> Addresses \cup SlotRecords \cup {Undefined}]
      /\ todo \in [Threads -> SUBSET SlotRecords] /\ seen \in [Threads -> Values]
  BY DEF ControlInv, TypeOK, LocalsInv
<1>1. PICK x \in todo[t] : current' = [current EXCEPT ![t] = x] /\ seen' = [seen EXCEPT ![t] = value[x[2]]]
  BY DEF ReadSlot
<1>2. /\ pc[t] = "update" /\ pc' = [pc EXCEPT ![t] = "write"]
      /\ UNCHANGED <<value, oldToNew, crossRegion, weakQueue, place, workloads, todo>>
  BY DEF ReadSlot, GoTo, heapVars, recordVars, copyVars, taskVars
<1>3. /\ Final(o)' = f /\ Becomes(o)' = b /\ Kind(o)' = K
      /\ (Old(o)' <=> Old(o)) /\ (Kept(o)' <=> Kept(o))
      /\ \A a : (InYoungSpace(a)' <=> InYoungSpace(a)) /\ (InNewToNewSet(a)' <=> InNewToNewSet(a)) /\ (Test(a)' <=> Test(a))
  BY <1>f, <1>b, <1>k, <1>2, FinalsStay
<1>4. Was(o)' = Was(o) /\ Target(o)' = Target(o) /\ UNCHANGED space
  BY InputsStay DEF inputVars
<1>5. \A k : Pending(k, f)' <=> Pending(k, f)
  BY <1>2, <1>3 DEF Pending, Waits, HasRecord
<1>6. \A u \in Threads : Writes(u, f)' => \/ Writes(u, f) /\ seen'[u] = seen[u]
                                          \/ u = t /\ x[2] = f /\ seen'[u] = value[f]
  BY <1>0, <1>1, <1>2 DEF Writes
<1>7. SlotOf(o)'
  BY <1>f, <1>b, <1>k, <1>2, <1>3, <1>4, <1>5, <1>6 DEF SlotInv, SlotOf
<1>8. Kept(o) => KeptOf(o)'
  BY <1>f, <1>2, <1>3, <1>6 DEF SlotInv, KeptOf
<1>9. Kept(o) /\ Was(o).weak => OnceOf(o)'
  <2> SUFFICES ASSUME Kept(o), Was(o).weak
               PROVE  OnceOf(o)'
      OBVIOUS
  <2>1. x = <<x[1], x[2]>> /\ x[1] \in Kinds
    BY <1>0, <1>1 DEF SlotRecords
  <2>2. x[2] = f => Pending(x[1], f)
    BY <1>1, <2>1 DEF Pending
  <2>3. x[2] = f => value[f] = Was(o)
    BY <1>f, <2>1, <2>2 DEF SlotInv, OnceOf
  <2>4. \A u \in Threads : Writes(u, f)' => seen'[u] = Was(o)
    BY <1>f, <1>6, <2>3 DEF SlotInv, OnceOf
  <2> QED
    BY <1>f, <1>2, <1>3, <1>4, <1>5, <2>4 DEF SlotInv, OnceOf
<1> QED
  BY <1>3, <1>4, <1>7, <1>8, <1>9 DEF SlotInv

\* Whatever was read, what is written is what the slot has to become, or nothing that matters.
LEMMA WriteKeepsSlot ==
    ASSUME ControlInv, CopyingInv, RecordedInv, TakenInv, [Next]_vars, phase = "update",
           NEW t \in Threads, WriteSlot(t), NEW o \in Objects, Live(o), SlotInv(o)
    PROVE  SlotInv(o)'
<1>f. PICK f : f = Final(o)
  OBVIOUS
<1>b. PICK b : b = Becomes(o)
  OBVIOUS
<1>k. PICK K : K = Kind(o)
  OBVIOUS
<1>w. PICK w : w = Was(o)
  OBVIOUS
<1>r. PICK k, s, v : k = current[t][1] /\ s = current[t][2] /\ v = seen[t]
  OBVIOUS
<1>u. PICK u : u = IF k = "queue" /\ v # Undefined /\ ~v.weak THEN v ELSE Updated(v)
  OBVIOUS
<1>0. /\ pc \in [Threads -> {"idle", "evacuate", "take", "copy", "count", "wait", "asleep", "enumerate",
                             "roots", "update", "write", "done"}]
      /\ current \in [Threads -> Addresses \cup SlotRecords \cup {Undefined}]
      /\ todo \in [Threads -> SUBSET SlotRecords] /\ seen \in [Threads -> Values]
      /\ value \in [Addresses -> Values]
  BY DEF ControlInv, TypeOK, LocalsInv
<1>1. pc[t] = "write" /\ current[t] \in todo[t]
  BY DEF WriteSlot, ControlInv, ThreadInv
<1>2. current[t] = <<k, s>> /\ k \in Kinds /\ s \in Addresses
  BY <1>0, <1>1, <1>r DEF SlotRecords
<1>3. /\ value' = IF u = v THEN value ELSE [value EXCEPT ![s] = u]
      /\ oldToNew' = IF k = "rset" /\ IsDropped(v, u) THEN oldToNew \ {s} ELSE oldToNew
      /\ crossRegion' = IF k = "cross" THEN crossRegion \ {s} ELSE crossRegion
      /\ todo' = [todo EXCEPT ![t] = todo[t] \ {<<k, s>>}]
      /\ seen' = [seen EXCEPT ![t] = Undefined] /\ current' = [current EXCEPT ![t] = Undefined]
      /\ UNCHANGED <<place, weakQueue, workloads>>
  BY <1>2, <1>r, <1>u DEF WriteSlot, copyVars, taskVars
<1>4. pc'[t] # "write" /\ \A u2 \in Threads : u2 # t => pc'[u2] = pc[u2]
  BY <1>0 DEF WriteSlot, GoTo
<1>5. /\ Final(o)' = f /\ Becomes(o)' = b /\ Kind(o)' = K
      /\ (Old(o)' <=> Old(o)) /\ (Kept(o)' <=> Kept(o))
      /\ \A a : (InYoungSpace(a)' <=> InYoungSpace(a)) /\ (InNewToNewSet(a)' <=> InNewToNewSet(a)) /\ (Test(a)' <=> Test(a))
  BY <1>f, <1>b, <1>k, <1>3, FinalsStay
<1>6. Was(o)' = w /\ Target(o)' = Target(o) /\ UNCHANGED space
  BY <1>w, InputsStay DEF inputVars
<1>7. \A u2 \in Threads : Writes(u2, f)' => u2 # t /\ Writes(u2, f) /\ seen'[u2] = seen[u2]
  BY <1>0, <1>3, <1>4 DEF Writes
<1>8. <<k, s>> \in todo[t] /\ (k # "queue" => s \notin workloads)
  BY <1>1, <1>2 DEF TakenInv
<1>9. \A l : Pending(l, f) /\ <<l, f>> # <<k, s>> => Pending(l, f)'
  <2> SUFFICES ASSUME NEW l, Pending(l, f), <<l, f>> # <<k, s>>
               PROVE  Pending(l, f)'
      OBVIOUS
  <2>1. CASE Waits(l, f)
    <3>1. f \in workloads => (f \in oldToNew' <=> f \in oldToNew) /\ (f \in crossRegion' <=> f \in crossRegion)
      BY <1>3, <1>8
    <3>2. Waits(l, f)'
      BY <1>3, <1>5, <2>1, <3>1 DEF Waits, HasRecord
    <3> QED
      BY <3>2 DEF Pending
  <2>2. ASSUME NEW u2 \in Threads, <<l, f>> \in todo[u2]
        PROVE  <<l, f>> \in todo'[u2]
    BY <1>0, <1>3, <2>2
  <2> QED
    BY <2>1, <2>2 DEF Pending
<1>10. \A l : Pending(l, f)' => Pending(l, f)
  <2> SUFFICES ASSUME NEW l, Pending(l, f)'
               PROVE  Pending(l, f)
      OBVIOUS
  <2>1. CASE Waits(l, f)'
    <3>1. Waits(l, f)
      BY <1>3, <1>5, <2>1 DEF Waits, HasRecord
    <3> QED
      BY <3>1 DEF Pending
  <2>2. ASSUME NEW u2 \in Threads, <<l, f>> \in todo'[u2]
        PROVE  <<l, f>> \in todo[u2]
    BY <1>0, <1>3, <2>2
  <2> QED
    BY <2>1, <2>2 DEF Pending
<1>11. CASE s # f
  <2>1. value'[f] = value[f] /\ (f \in oldToNew' <=> f \in oldToNew)
    BY <1>0, <1>2, <1>3, <1>11
  <2>2. \A l \in Kinds : Pending(l, f)' <=> Pending(l, f)
    BY <1>9, <1>10, <1>11
  <2>3. UNCHANGED place
    BY <1>3
  <2> QED
    BY <1>f, <1>7, <2>1, <2>2, <2>3, SlotStays
<1>12. CASE s = f
  <2>1. /\ v \in {w, b, Undefined} /\ (v \in {b, Undefined} => value[f] \in {b, Undefined})
        /\ value[f] \in {w, b, Undefined}
        /\ value[f] \in {b, Undefined} \/ Pending(K, f)
    BY <1>f, <1>b, <1>k, <1>w, <1>r, <1>1, <1>12 DEF SlotInv, SlotOf, Writes
  <2>2. BeforeInv /\ Placed
    BY DEF RecordedInv, CopyingInv, PlaceInv
  <2>3. /\ Updated(w) = b /\ Updated(b) \in {b, Undefined} /\ Updated(Undefined) = Undefined
        /\ w # Undefined /\ ~w.weak => Updated(b) = b
        /\ w # Undefined /\ Live(Target(o)) => b # Undefined
    BY <1>b, <1>w, <2>2, UpdatedWas, UpdatedBecomes, UpdatedUndefined
  <2>4. u = v \/ u \in {b, Undefined}
    BY <1>u, <2>1, <2>3
  <2>5. value'[f] = IF u = v THEN value[f] ELSE u
    BY <1>0, <1>2, <1>3, <1>12
  <2>6. value'[f] \in {b, Undefined} \/ Pending(K, f)'
    <3> SUFFICES ASSUME value'[f] \notin {b, Undefined}
                 PROVE  Pending(K, f)'
        OBVIOUS
    <3>1. u = v /\ v = w /\ w \notin {b, Undefined} /\ Pending(K, f)
      BY <2>1, <2>4, <2>5
    <3>2. k = "queue" /\ ~w.weak
      BY <1>u, <2>3, <3>1
    <3>3. K # "queue"
      <4> SUFFICES ASSUME K = "queue"
                   PROVE  FALSE
          OBVIOUS
      <4>1. Stays(o) /\ space[Target(o)] \notin {"young", "cset"}
        BY <1>k DEF Kind
      <4>2. /\ w \in [at : Addresses, weak : BOOLEAN] /\ w.at = Original(Target(o)) /\ Target(o) \in Objects
            /\ Live(Target(o))
        BY <1>w, <2>2, <3>1, <3>2, UpdatedType, AddressFacts DEF BeforeInv, Target
      <4>3. Final(Target(o)) = Original(Target(o))
        BY <2>2, <4>1, <4>2, PlacesAtUpdate, FinalFacts DEF Stays
      <4>4. b = [w EXCEPT !.at = Original(Target(o))]
        BY <1>b, <1>w, <3>1, <4>2, <4>3 DEF Becomes
      <4>5. b = w
        BY <4>2, <4>4
      <4> QED
        BY <3>1, <4>5
    <3> QED
      BY <1>9, <3>1, <3>2, <3>3
  <2>7. Old(o) /\ w # Undefined /\ space[Target(o)] = "young" =>
            \/ f \in oldToNew'
            \/ value'[f] \in {b, Undefined} /\ (b # Undefined => ~InYoungSpace(b.at))
    <3> SUFFICES ASSUME Old(o), w # Undefined, space[Target(o)] = "young", f \notin oldToNew'
                 PROVE  value'[f] \in {b, Undefined} /\ (b # Undefined => ~InYoungSpace(b.at))
        OBVIOUS
    <3>1. CASE f \in oldToNew
      <4>1. IsDropped(v, u)
        BY <1>3, <3>1
      <4>2. u = b /\ u # v /\ ~InYoungSpace(u.at)
        BY <2>4, <4>1 DEF IsDropped
      <4> QED
        BY <2>5, <4>2
    <3>2. CASE f \notin oldToNew
      <4>1. value[f] \in {b, Undefined} /\ (b # Undefined => ~InYoungSpace(b.at))
        BY <1>f, <1>b, <1>w, <3>2 DEF SlotInv, SlotOf
      <4> QED
        BY <2>4, <2>5, <4>1
    <3> QED
      BY <3>1, <3>2
  <2>8. SlotOf(o)'
    <3>1. value'[f] \in {w, b, Undefined}
      BY <2>1, <2>4, <2>5
    <3>2. \A u2 \in Threads : Writes(u2, f)' =>
              /\ seen'[u2] \in {w, b, Undefined}
              /\ seen'[u2] \in {b, Undefined} => value'[f] \in {b, Undefined}
      <4> SUFFICES ASSUME NEW u2 \in Threads, Writes(u2, f)'
                   PROVE  /\ seen'[u2] \in {w, b, Undefined}
                          /\ seen'[u2] \in {b, Undefined} => value'[f] \in {b, Undefined}
          OBVIOUS
      <4>1. Writes(u2, f) /\ seen'[u2] = seen[u2]
        BY <1>7
      <4>2. seen[u2] \in {w, b, Undefined} /\ (seen[u2] \in {b, Undefined} => value[f] \in {b, Undefined})
        BY <1>f, <1>b, <1>w, <4>1 DEF SlotInv, SlotOf
      <4> QED
        BY <2>4, <2>5, <4>1, <4>2
    <3> QED
      BY <1>5, <1>6, <2>6, <2>7, <3>1, <3>2 DEF SlotOf
  <2>9. Kept(o) => KeptOf(o)'
    <3> SUFFICES ASSUME Kept(o)
                 PROVE  KeptOf(o)'
        OBVIOUS
    <3>1. w # Undefined /\ b # Undefined /\ v # Undefined /\ value[f] # Undefined
      BY <1>f, <1>w, <1>r, <1>1, <1>12, <2>3 DEF SlotInv, Kept, KeptOf, Writes
    <3>2. u # Undefined
      <4>1. CASE w.weak
        <5>1. v = w
          BY <1>f, <1>w, <1>r, <1>1, <1>12, <4>1 DEF SlotInv, OnceOf, Writes
        <5> QED
          BY <1>u, <2>3, <3>1, <5>1
      <4>2. CASE ~w.weak
        BY <1>u, <2>1, <2>3, <3>1, <4>2
      <4> QED
        BY <4>1, <4>2
    <3>3. \A u2 \in Threads : Writes(u2, f)' => seen'[u2] # Undefined
      BY <1>f, <1>7 DEF SlotInv, KeptOf
    <3> QED
      BY <1>5, <2>5, <3>1, <3>2, <3>3 DEF KeptOf
  <2>10. Kept(o) /\ w.weak => OnceOf(o)'
    <3> SUFFICES ASSUME Kept(o), w.weak
                 PROVE  OnceOf(o)'
        OBVIOUS
    <3>1. \A l \in Kinds : Pending(l, f) => l = k
      <4>1. Pending(k, f)
        BY <1>8, <1>12 DEF Pending
      <4> QED
        BY <1>f, <1>w, <1>2, <4>1 DEF SlotInv, OnceOf
    <3>2. ASSUME NEW u2 \in Threads, u2 # t
          PROVE  <<k, f>> \notin todo[u2]
      <4>1. CASE k = "queue"
        BY <1>8, <1>12, <3>2, <4>1 DEF TakenInv
      <4>2. CASE k # "queue"
        BY <1>8, <1>12, <3>2, <4>2 DEF TakenInv
      <4> QED
        BY <4>1, <4>2
    <3>3. ~Waits(k, f)
      <4>1. k = "queue" => weakQueue = {}
        BY <1>8 DEF TakenInv
      <4>2. k = "queue" => ~HasRecord(k, f)
        BY DEF HasRecord
      <4> QED
        BY <1>8, <1>12, <4>1, <4>2 DEF Waits
    <3>4. \A l \in Kinds : ~Pending(l, f)'
      <4> SUFFICES ASSUME NEW l \in Kinds, Pending(l, f)'
                   PROVE  FALSE
          OBVIOUS
      <4>1. l = k
        BY <1>10, <3>1
      <4>2. ~Waits(k, f)'
        BY <1>3, <1>5, <3>3 DEF Waits, HasRecord
      <4>3. PICK u2 \in Threads : <<k, f>> \in todo'[u2]
        BY <4>1, <4>2 DEF Pending
      <4>4. u2 # t /\ <<k, f>> \in todo[u2]
        BY <1>0, <1>3, <1>12, <4>3
      <4> QED
        BY <3>2, <4>4
    <3>5. \A u2 \in Threads : ~Writes(u2, f)'
      <4> SUFFICES ASSUME NEW u2 \in Threads, Writes(u2, f)'
                   PROVE  FALSE
          OBVIOUS
      <4>1. u2 # t /\ pc[u2] = "write" /\ current[u2][2] = f
        BY <1>7 DEF Writes
      <4>2. current[u2] \in todo[u2]
        BY <4>1 DEF ControlInv, ThreadInv
      <4>3. current[u2] = <<current[u2][1], f>> /\ current[u2][1] \in Kinds
        BY <1>0, <4>1, <4>2 DEF SlotRecords
      <4>4. Pending(current[u2][1], f)
        BY <4>2, <4>3 DEF Pending
      <4>5. current[u2] = <<k, f>>
        BY <3>1, <4>3, <4>4
      <4> QED
        BY <3>2, <4>1, <4>2, <4>5
    <3> QED
      BY <1>5, <3>4, <3>5 DEF OnceOf
  <2> QED
    BY <1>5, <1>6, <2>8, <2>9, <2>10 DEF SlotInv
<1> QED
  BY <1>11, <1>12

\* No step loses a slot that is still to be updated, nor what it refers to.
LEMMA StepKeepsUpdates ==
    ControlInv /\ CopyingInv /\ RecordedInv /\ TakenInv /\ UpdateInv /\ [Next]_vars => UpdateInv'
<1> SUFFICES ASSUME ControlInv, CopyingInv, RecordedInv, TakenInv, UpdateInv, [Next]_vars, phase' = "update",
                    NEW o \in Objects, Live(o)
             PROVE  SlotInv(o)'
  BY InputsStay DEF UpdateInv
<1> USE DEF inputVars, heapVars, recordVars, copyVars, taskVars, threadVars
<1>f. PICK f : f = Final(o)
  OBVIOUS
<1>0. /\ Main \in Threads /\ Main \notin Workers /\ \A t : t \in Threads <=> t = Main \/ t \in Workers
      /\ pc \in [Threads -> {"idle", "evacuate", "take", "copy", "count", "wait", "asleep", "enumerate",
                             "roots", "update", "write", "done"}]
      /\ todo \in [Threads -> SUBSET SlotRecords]
      /\ phase \in {"evacuate", "update"}
  BY ThreadFacts DEF ControlInv, TypeOK, LocalsInv
<1>a. phase = "update" => SlotInv(o)
  BY DEF UpdateInv
<1>b. ASSUME phase = "update", UNCHANGED <<place, value, oldToNew, seen, current>>,
             \A k \in Kinds : Pending(k, f)' <=> Pending(k, f),
             \A t \in Threads : pc'[t] = "write" => pc[t] = "write"
      PROVE  SlotInv(o)'
  <2>1. \A t \in Threads : Writes(t, f)' => Writes(t, f) /\ seen'[t] = seen[t]
    BY <1>b DEF Writes
  <2>2. value'[f] = value[f] /\ (f \in oldToNew' <=> f \in oldToNew)
    BY <1>b
  <2> QED
    BY <1>a, <1>b, <1>f, <2>1, <2>2, SlotStays
<1>c. ASSUME UNCHANGED <<place, oldToNew, crossRegion>>
      PROVE  \A k : HasRecord(k, f)' <=> HasRecord(k, f)
  <2>1. \A a : (InYoungSpace(a)' <=> InYoungSpace(a)) /\ (InNewToNewSet(a)' <=> InNewToNewSet(a)) /\ (Test(a)' <=> Test(a))
    BY <1>c, FinalsStay
  <2> QED
    BY <1>c, <2>1 DEF HasRecord
<1>d. ASSUME phase = "update", UNCHANGED <<place, value, recordVars, workloads, todo, seen, current>>,
             \A t \in Threads : pc'[t] = "write" => pc[t] = "write"
      PROVE  SlotInv(o)'
  <2>1. \A k \in Kinds : Pending(k, f)' <=> Pending(k, f)
    BY <1>c, <1>d DEF Pending, Waits
  <2> QED
    BY <1>b, <1>d, <2>1
<1>1. CASE UNCHANGED vars
  BY <1>d, <1>1 DEF vars
<1>2. CASE EvacuateSpace
  BY <1>2 DEF EvacuateSpace, ControlInv, MainInv
<1>3. CASE UpdateReference
  BY <1>3, UpdateBegins
<1>4. CASE UpdateRoot
  <2>1. /\ todo' = [todo EXCEPT ![Main] = {<<"queue", s>> : s \in weakQueue}]
        /\ weakQueue' = {} /\ UNCHANGED <<place, value, oldToNew, crossRegion, workloads, seen, current, phase>>
        /\ pc[Main] = "roots"
    BY <1>4 DEF UpdateRoot
  <2>2. /\ todo'[Main] = {<<"queue", s>> : s \in weakQueue} /\ todo[Main] = {}
        /\ \A t \in Threads : t # Main => todo'[t] = todo[t]
    BY <1>0, <2>1 DEF ControlInv, ThreadInv
  <2>3. \A t \in Threads : pc'[t] = "write" => pc[t] = "write"
    BY <1>0, <1>4 DEF UpdateRoot, GoTo
  <2>4. ASSUME NEW k \in Kinds
        PROVE  Pending(k, f)' <=> Pending(k, f)
    <3>1. <<k, f>> \in todo'[Main] <=> k = "queue" /\ f \in weakQueue
      BY <2>2
    <3>2. Waits(k, f) <=> (k = "queue" /\ f \in weakQueue) \/ (f \in workloads /\ HasRecord(k, f))
      BY DEF Waits
    <3>3. Waits(k, f)' <=> f \in workloads /\ HasRecord(k, f)
      BY <1>c, <2>1 DEF Waits
    <3> QED
      BY <1>0, <2>2, <3>1, <3>2, <3>3 DEF Pending
  <2> QED
    BY <1>b, <2>1, <2>3, <2>4
<1>5. CASE WaitFinished \/ SpuriousWakeup
  <2>1. \A t \in Threads : pc'[t] = "write" => pc[t] = "write"
    BY <1>0, <1>5 DEF WaitFinished, SpuriousWakeup, GoTo
  <2> QED
    BY <1>d, <1>5, <2>1 DEF WaitFinished, SpuriousWakeup
<1>6. ASSUME NEW w \in Workers, StartTask(w) \/ CountDown(w)
      PROVE  SlotInv(o)'
  <2>1. \A t \in Threads : pc'[t] = "write" => pc[t] = "write"
    BY <1>0, <1>6 DEF StartTask, CountDown, GoTo
  <2> QED
    BY <1>d, <1>6, <2>1 DEF StartTask, CountDown
<1>7. ASSUME NEW t \in Threads, TakeEvacuateWorkload(t) \/ EvacuateRegion(t) \/ Finalize(t)
      PROVE  FALSE
  <2>1. phase = "evacuate"
    BY <1>7 DEF TakeEvacuateWorkload, EvacuateRegion, Finalize, ControlInv, ThreadInv
  <2>2. phase' = phase
    BY <1>7 DEF TakeEvacuateWorkload, EvacuateRegion, Finalize
  <2> QED
    BY <2>1, <2>2
<1>8. ASSUME NEW t \in Threads, TakeUpdateWorkload(t)
      PROVE  SlotInv(o)'
  <2>1. PICK a \in workloads : /\ workloads' = workloads \ {a} /\ todo' = [todo EXCEPT ![t] = SlotsOf(a)]
                               /\ pc' = [pc EXCEPT ![t] = IF SlotsOf(a) = {} THEN "take" ELSE "update"]
    BY <1>8 DEF TakeUpdateWorkload, GoTo
  <2>2. /\ phase = "update" /\ pc[t] = "take"
        /\ UNCHANGED <<place, value, oldToNew, crossRegion, weakQueue, seen, current>>
    BY <1>8 DEF TakeUpdateWorkload
  <2>3. \A u \in Threads : pc'[u] = "write" => pc[u] = "write"
    BY <1>0, <2>1
  <2>4. /\ todo[t] = {} /\ todo'[t] = SlotsOf(a)
        /\ \A u \in Threads : u # t => todo'[u] = todo[u]
    BY <1>0, <2>1, <2>2 DEF ControlInv, ThreadInv
  <2>5. ASSUME NEW k \in Kinds
        PROVE  Pending(k, f)' <=> Pending(k, f)
    <3>1. <<k, f>> \in todo'[t] <=> f = a /\ HasRecord(k, a)
      BY <2>4, SlotsFacts
    <3>2. Waits(k, f) <=> (k = "queue" /\ f \in weakQueue) \/ (f \in workloads /\ HasRecord(k, f))
      BY DEF Waits
    <3>3. Waits(k, f)' <=> (k = "queue" /\ f \in weakQueue) \/ (f \in workloads /\ f # a /\ HasRecord(k, f))
      BY <1>c, <2>1, <2>2 DEF Waits
    <3> QED
      BY <2>1, <2>4, <3>1, <3>2, <3>3 DEF Pending
  <2> QED
    BY <1>b, <2>2, <2>3, <2>5
<1>9. ASSUME NEW t \in Threads, ReadSlot(t)
      PROVE  SlotInv(o)'
  <2>1. phase = "update"
    BY <1>9 DEF ReadSlot
  <2> QED
    BY <1>9, <1>a, <2>1, ReadKeepsSlot
<1>10. ASSUME NEW t \in Threads, WriteSlot(t)
       PROVE  SlotInv(o)'
  <2>1. phase = "update"
    BY <1>10 DEF WriteSlot
  <2> QED
    BY <1>10, <1>a, <2>1, WriteKeepsSlot
<1>11. ASSUME NEW t \in Threads, NoWorkload(t)
       PROVE  SlotInv(o)'
  <2>1. \A u \in Threads : pc'[u] = "write" => pc[u] = "write"
    BY <1>0, <1>11 DEF NoWorkload, GoTo, AfterWorkloads
  <2> QED
    BY <1>d, <1>11, <2>1 DEF NoWorkload
<1> QED
  BY <1>1, <1>2, <1>3, <1>4, <1>5, <1>6, <1>7, <1>8, <1>9, <1>10, <1>11, Steps

-----------------------------------------------------------------------------
(* The end *)

\* The inductive invariant of the evacuation: the control of the threads, the copying, the
\* records, the roots, and the slot of every live object while threads update it.
THEOREM InvIsInvariant == Spec => []Inv
<1>1. Init => Inv
  <2>1. Init => RootsInv /\ TakenInv /\ UpdateInv
    BY DEF Init, RootsInv, TakenInv, UpdateInv
  <2> QED
    BY <2>1, InitControl, InitCopying, InitRecorded DEF Inv, CopyingInv, RecordedInv
<1>2. Inv /\ [Next]_vars => Inv'
  BY StepKeepsControl, StepKeepsCopying, StepKeepsRecorded, StepKeepsRoots, StepKeepsTaken, StepKeepsUpdates
     DEF Inv, CopyingInv, RecordedInv
<1> QED
  BY <1>1, <1>2, PTL DEF Spec

\* When the JS thread is through nothing is left to update.
LEMMA AtTheEnd ==
    ASSUME Inv, pc[Main] = "done"
    PROVE  /\ phase = "update" /\ Placed
           /\ \A o \in Objects : Live(o) =>
                /\ value[Final(o)] \in {Becomes(o), Undefined}
                /\ SlotInv(o)
<1>1. phase = "update" /\ parallel = 0 /\ workloads = {}
  BY DEF Inv, ControlInv, MainInv
<1>2. \A t \in Threads : pc[t] \notin {"update", "write"}
  BY <1>1, IdleFacts, ThreadFacts DEF Inv
<1>3. weakQueue = {} /\ \A t \in Threads : todo[t] = {}
  BY <1>1, <1>2 DEF Inv, TakenInv, ControlInv, ThreadInv
<1>4. \A k, s : ~Pending(k, s)
  BY <1>1, <1>3 DEF Pending, Waits
<1>5. Placed
  BY <1>1 DEF Inv, CopyingInv, PlaceInv
<1>6. \A o \in Objects : Live(o) => SlotInv(o)
  BY <1>1 DEF Inv, UpdateInv
<1>7. \A o \in Objects : Live(o) => value[Final(o)] \in {Becomes(o), Undefined}
  BY <1>4, <1>6 DEF SlotInv, SlotOf
<1> QED
  BY <1>1, <1>5, <1>6, <1>7

\* When the from-space and the collection set are freed nothing that lives refers to them,
\* whichever thread copied and updated what, and however often a slot was recorded.
THEOREM NothingIsLeftDangling == Spec => []NothingDangles
<1>1. Inv => NothingDangles
  <2> SUFFICES ASSUME Inv, pc[Main] = "done"
               PROVE  /\ \A o \in Objects : Live(o) /\ value[Final(o)] # Undefined =>
                           Live(value[Final(o)].at.object) /\ value[Final(o)].at = Final(value[Final(o)].at.object)
                      /\ roots = {Final(o) : o \in {p \in Objects : Live(p)}}
                      /\ globals = roots
      BY DEF NothingDangles
  <2>1. ASSUME NEW o \in Objects, Live(o), value[Final(o)] # Undefined
        PROVE  Live(value[Final(o)].at.object) /\ value[Final(o)].at = Final(value[Final(o)].at.object)
    <3>1. value[Final(o)] = Becomes(o) /\ Becomes(o) # Undefined /\ Placed
      BY <2>1, AtTheEnd
    <3>2. Live(Target(o)) /\ Becomes(o).at = Final(Target(o)) /\ Target(o) \in Objects
      BY <2>1, <3>1, UpdatedBecomes DEF Inv, RecordedInv
    <3>3. Becomes(o).at.object = Target(o)
      BY <3>2, FinalFacts
    <3> QED
      BY <3>1, <3>2, <3>3
  <2>2. roots = {Final(o) : o \in {p \in Objects : Live(p)}} /\ globals = roots
    BY AtTheEnd DEF Inv, RootsInv
  <2> QED
    BY <2>1, <2>2
<1> QED
  BY <1>1, InvIsInvariant, PTL

\* A live object loses no reference to an object that lives: a strong one survives being
\* updated twice, a weak one is updated once unless its slot was recorded twice.
THEOREM NoReferenceIsLost == Spec => []ReferencesAreKept
<1>1. Inv => ReferencesAreKept
  <2> SUFFICES ASSUME Inv, pc[Main] = "done", NEW o \in Objects, Live(o), Was(o) # Undefined,
                      Live(Target(o)), Was(o).weak => Original(o) \notin before.twice
               PROVE  value[Final(o)] = [Was(o) EXCEPT !.at = Final(Target(o))]
      BY DEF ReferencesAreKept, Was, Target
  <2>1. value[Final(o)] \in {Becomes(o), Undefined} /\ SlotInv(o)
    BY AtTheEnd
  <2>2. value[Final(o)] # Undefined
    BY <2>1 DEF SlotInv, Kept, KeptOf
  <2> QED
    BY <2>1, <2>2 DEF Becomes
<1> QED
  BY <1>1, InvIsInvariant, PTL

\* The next young collection finds what it needs: a slot of the old space that refers to an
\* object that stays young is in an old-to-new set, and is dropped from it only when the
\* update has found that the object was promoted.
THEOREM YoungSlotsStayRemembered == Spec => []YoungSlotsAreRemembered
<1>1. Inv => YoungSlotsAreRemembered
  <2> SUFFICES ASSUME Inv, pc[Main] = "done", NEW o \in Objects, Live(o), ~InYoungSpace(Final(o)),
                      value[Final(o)] # Undefined, InYoungSpace(value[Final(o)].at)
               PROVE  Final(o) \in oldToNew
      BY DEF YoungSlotsAreRemembered
  <2>1. value[Final(o)] = Becomes(o) /\ Becomes(o) # Undefined /\ SlotInv(o) /\ Placed
    BY AtTheEnd
  <2>2. Was(o) # Undefined /\ Becomes(o).at = Final(Target(o)) /\ Target(o) \in Objects
    BY <2>1, UpdatedBecomes DEF Inv, RecordedInv
  <2>3. space[Target(o)] = "young"
    <3>1. Final(Target(o)) = Original(Target(o)) \/ (Final(Target(o)) = Copy(Target(o)) /\ place[Target(o)] # "copied")
          \/ space[Target(o)] = "young"
      BY <2>1, <2>2, PlacesAtUpdate, FinalFacts DEF Inv, CopyingInv
    <3> QED
      BY <2>1, <2>2, <3>1, AddressFacts DEF InYoungSpace
  <2>4. Old(o)
    <3>1. o \in marked \/ Stays(o)
      BY DEF Live, Stays
    <3>2. CASE Stays(o)
      BY <3>2 DEF Old
    <3>3. CASE ~Stays(o)
      <4>1. place[o] \in {"moved", "copied", "promoted"}
        BY <2>1, <3>1, <3>3, PlacesAtUpdate DEF Inv, CopyingInv
      <4>2. place[o] # "copied"
        BY FinalFacts, AddressFacts DEF InYoungSpace
      <4>3. place[o] # "moved"
        <5>1. place[o] = "moved" => Final(o) = Original(o) /\ space[o] = "young"
          BY <2>1, PlacesAtUpdate, FinalFacts DEF Inv, CopyingInv
        <5> QED
          BY <5>1, AddressFacts DEF InYoungSpace
      <4> QED
        BY <4>1, <4>2, <4>3 DEF Old
    <3> QED
      BY <3>2, <3>3
  <2> QED
    BY <2>1, <2>2, <2>3, <2>4 DEF SlotInv, SlotOf
<1> QED
  BY <1>1, InvIsInvariant, PTL

=============================================================================
