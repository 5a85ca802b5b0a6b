--------------------------- MODULE ConcurrentSweep ---------------------------
(***************************************************************************)
(* ConcurrentSweeper, the sweeping half of SparseSpace and the remembered  *)
(* sets of a Region (ecmascript/mem), driven by the JS thread's collections *)
(* and allocations.                                                        *)
(*                                                                         *)
(* A sweep hands the regions of each space to pool workers (SweeperTask);  *)
(* the JS thread goes on running, storing old-to-new references and        *)
(* allocating, takes swept regions back (FillSweptRegion), and helps and   *)
(* waits before the next collection (EnsureAllTaskFinished).  A pool task  *)
(* AsyncClearTask clears the mark bits once sweeping is over.              *)
(*                                                                         *)
(* A region is abstracted to two slots that may hold an old-to-new         *)
(* reference: one in an object that stays live, one in an object that a    *)
(* collection may find dead, whose memory is then swept and reused.  One   *)
(* step is one critical section or one access to state another thread      *)
(* touches.  Parallel GC is on (the default).                              *)
(***************************************************************************)
EXTENDS Integers, Sequences, FiniteSets

CONSTANTS
    Regions,      \* the regions of the swept spaces (no region is in the CSet)
    SpaceOf,      \* the space of each region
    FreeListNum,  \* FREE_LIST_NUM, the number of swept spaces (3 in the code)
    NumWorkers,   \* worker threads of the task pool
    MaxSweeps,    \* bound on the number of collections that sweep
    Collections,  \* the collections the program runs: TRUE a full, FALSE an old GC
    StoredSlots,  \* the slots it stores old-to-new references in
    Switches,     \* what Heap::ChangeGCParams asks of the sweeper
    NoSet,        \* nullptr, for a RememberedSet*
    NoRegion      \* nullptr, for a Region*

OLD_SPACE == 0
NON_MOVABLE == 1
Types == OLD_SPACE .. FreeListNum - 1

ASSUME ConstAssumption ==
    /\ FreeListNum \in Nat \ {0, 1}
    /\ NumWorkers \in Nat
    /\ MaxSweeps \in Nat
    /\ IsFiniteSet(Regions) /\ NoRegion \notin Regions
    /\ SpaceOf \in [Regions -> Types]
    /\ Collections \subseteq BOOLEAN
    /\ StoredSlots \subseteq {"live", "dying"}
    /\ Switches \subseteq {"ENABLE", "DISABLE"}

Slots == {"live", "dying"}
ASSUME NoSetAssumption == NoSet \notin SUBSET Slots

\* The pool tasks: SweeperTask(type) for each space, and AsyncClearTask.
ClearTask == FreeListNum
Tasks == Types \cup {ClearTask}

VARIABLES
    sweepingList, \* SparseSpace::sweepingList_ of each space
    sweptList,    \* SparseSpace::sweptList_, a set: its order has no effect
    sweepState,   \* SparseSpace::sweepState_
    compressSweepState, \* sweepState_ of compressSpace_, the spare old space
    remainingTaskNum, isSweeping, startSpaceType, enableType, \* ConcurrentSweeper
    clearTaskFinished,                                        \* Heap
    oldToNewSet, sweepingRSet, hasBeenSwept,                  \* Region
    marked,       \* does the region still have its mark bits?
    memory,       \* the memory of the region's dying object
    queue,        \* the tasks in the pool's queue
    tpc, tindex, tregion,             \* each task: point, loop index, region
    mpc, caller, mtype, mregion,      \* the JS thread: point, caller, space, region
    gc,           \* the last collection begun: is it a full GC?
    sweeps,       \* how many sweeps have begun (bounded by MaxSweeps)
    stored,       \* history: the slots that hold an old-to-new reference
    taintedRegions \* history: the regions that entered a sweep already flagged

spaceVars == <<sweepingList, sweptList, sweepState, compressSweepState>>
sweeperVars == <<remainingTaskNum, isSweeping, startSpaceType, enableType>>
rsetVars == <<oldToNewSet, sweepingRSet, hasBeenSwept, stored>>
regionVars == <<rsetVars, marked, memory>>
taskVars == <<queue, tpc, tindex, tregion>>
mainVars == <<mpc, caller, mtype, mregion>>
gcVars == <<gc, sweeps, taintedRegions>>
vars == <<spaceVars, sweeperVars, clearTaskFinished, regionVars, taskVars, mainVars, gcVars>>

-----------------------------------------------------------------------------
(* Region and SparseSpace *)

SetOf(rset) == IF rset = NoSet THEN {} ELSE rset

\* Mutant of MergeRSetForConcurrentSweeping: the sweeping set replaces the
\* slots inserted since the sweep began.
MergeOverwrites(r) ==
    /\ oldToNewSet' = [oldToNewSet EXCEPT ![r] =
           IF sweepingRSet[r] = NoSet THEN @ ELSE sweepingRSet[r]]
    /\ sweepingRSet' = [sweepingRSet EXCEPT ![r] = NoSet]

\* Region::MergeRSetForConcurrentSweeping
MergeRSetForConcurrentSweeping(r) ==
    /\ oldToNewSet' = [oldToNewSet EXCEPT ![r] =
           IF sweepingRSet[r] = NoSet THEN @ ELSE SetOf(@) \cup sweepingRSet[r]]
    /\ sweepingRSet' = [sweepingRSet EXCEPT ![r] = NoSet]

\* SortSweepingRegion puts the regions of a space in the order of the sizes of
\* their live objects, which may be any.
SortedLists(R) ==
    {q \in [1 .. Cardinality(R) -> R] : \A i, j \in DOMAIN q : q[i] = q[j] => i = j}

RegionsOf(s) == {r \in Regions : SpaceOf[r] = s}
Free(s) == {r \in RegionsOf(s) : memory[r] = "free"}

\* sweepingList_.back() and pop_back(), under lock_
LastRegion(s) == sweepingList[s][Len(sweepingList[s])]
AllButLast(s) == SubSeq(sweepingList[s], 1, Len(sweepingList[s]) - 1)

\* What FreeRegion leaves in a remembered set and in the memory of r; the
\* freed ranges go to the region's free sets, and for the JS thread also to the
\* allocator.
ClearRange(rset, r) == IF rset = NoSet \/ memory[r] # "garbage" THEN rset ELSE rset \ {"dying"}
Freed(r, isMain) ==
    IF memory[r] # "garbage" THEN memory[r] ELSE IF isMain THEN "free" ELSE "inRegion"

-----------------------------------------------------------------------------
(* The pool: SweeperTask::Run and AsyncClearTask::Run *)

Running == {t \in Tasks : tpc[t] \notin {"idle", "queued"}}

\* A free worker pops the next task.
StartTask ==
    /\ queue # << >>
    /\ Cardinality(Running) < NumWorkers
    /\ queue' = Tail(queue)
    /\ tpc' = [tpc EXCEPT ![Head(queue)] = IF Head(queue) = ClearTask THEN "wait" ELSE "take"]
    /\ tindex' = [tindex EXCEPT ![Head(queue)] = startSpaceType]
    /\ UNCHANGED <<spaceVars, sweeperVars, clearTaskFinished, regionVars, tregion, mainVars,
                   gcVars>>

\* The space that task t sweeps in the round tindex[t] of its loop.
TaskSpace(t) ==
    ((tindex[t] + t) % (FreeListNum - startSpaceType)) + startSpaceType

\* Mutant of TakeRegion: pop_back is forgotten.
TakeRegionNoPop(t) ==
    LET s == TaskSpace(t) IN
    /\ tpc[t] = "take"
    /\ \/ /\ sweepingList[s] # << >>
          /\ tregion' = [tregion EXCEPT ![t] = LastRegion(s)]
          /\ tpc' = [tpc EXCEPT ![t] = "free"]
       \/ /\ sweepingList[s] = << >>
          /\ tpc' = [tpc EXCEPT ![t] = "count"]
          /\ UNCHANGED tregion
    /\ UNCHANGED <<spaceVars, sweeperVars, clearTaskFinished, regionVars, queue, tindex,
                   mainVars, gcVars>>

\* AsyncSweep: GetSweepingRegionSafe.
TakeRegion(t) ==
    LET s == TaskSpace(t) IN
    /\ tpc[t] = "take"
    /\ \/ /\ sweepingList[s] # << >>
          /\ tregion' = [tregion EXCEPT ![t] = LastRegion(s)]
          /\ sweepingList' = [sweepingList EXCEPT ![s] = AllButLast(s)]
          /\ tpc' = [tpc EXCEPT ![t] = "free"]
       \/ /\ sweepingList[s] = << >>
          /\ tpc' = [tpc EXCEPT ![t] = "count"]
          /\ UNCHANGED <<sweepingList, tregion>>
    /\ UNCHANGED <<sweptList, sweepState, compressSweepState, sweeperVars, clearTaskFinished,
                   regionVars,
                   queue, tindex, mainVars, gcVars>>

\* FreeRegion(current, false), with ConcurrentSweeper::ClearRSetInRange: only
\* a concurrent sweep clears the sweeping set.
FreeRegion(t) ==
    LET r == tregion[t] IN
    /\ tpc[t] = "free"
    /\ IF enableType \in {"ENABLE", "REQUEST_DISABLE"}
       THEN /\ sweepingRSet' = [sweepingRSet EXCEPT ![r] = ClearRange(@, r)]
            /\ UNCHANGED oldToNewSet
       ELSE /\ oldToNewSet' = [oldToNewSet EXCEPT ![r] = ClearRange(@, r)]
            /\ UNCHANGED sweepingRSet
    /\ memory' = [memory EXCEPT ![r] = Freed(r, FALSE)]
    /\ tpc' = [tpc EXCEPT ![t] = "add"]
    /\ UNCHANGED <<spaceVars, sweeperVars, clearTaskFinished, hasBeenSwept, stored, marked,
                   queue, tindex, tregion, mainVars, gcVars>>

\* AddSweptRegionSafe, under lock_
AddSweptRegion(t) ==
    LET r == tregion[t] IN
    /\ tpc[t] = "add"
    /\ sweptList' = [sweptList EXCEPT ![SpaceOf[r]] = @ \cup {r}]
    /\ tpc' = [tpc EXCEPT ![t] = "set"]
    /\ UNCHANGED <<sweepingList, sweepState, compressSweepState, sweeperVars, clearTaskFinished,
                   regionVars,
                   queue, tindex, tregion, mainVars, gcVars>>

\* current->SetSwept(), after the region has been handed over
SetSwept(t) ==
    /\ tpc[t] = "set"
    /\ hasBeenSwept' = [hasBeenSwept EXCEPT ![tregion[t]] = TRUE]
    /\ tregion' = [tregion EXCEPT ![t] = NoRegion]
    /\ tpc' = [tpc EXCEPT ![t] = "take"]
    /\ UNCHANGED <<spaceVars, sweeperVars, clearTaskFinished, oldToNewSet, sweepingRSet, stored,
                   marked, memory, queue, tindex, mainVars, gcVars>>

\* The end of AsyncSweepSpace, under mutexs_[type]; the last round ends the task.
CountDown(t) ==
    LET s == TaskSpace(t) IN
    /\ tpc[t] = "count"
    /\ remainingTaskNum' = [remainingTaskNum EXCEPT ![s] = @ - 1]
    /\ IF tindex[t] + 1 < FreeListNum
       THEN tindex' = [tindex EXCEPT ![t] = @ + 1] /\ tpc' = [tpc EXCEPT ![t] = "take"]
       ELSE tindex' = [tindex EXCEPT ![t] = 0] /\ tpc' = [tpc EXCEPT ![t] = "idle"]
    /\ UNCHANGED <<spaceVars, isSweeping, startSpaceType, enableType, clearTaskFinished,
                   regionVars, queue, tregion, mainVars, gcVars>>

\* Mutant of ClearTaskWaits: ReclaimRegions does not call WaitAllTaskFinished.
ClearTaskDoesNotWait ==
    /\ tpc[ClearTask] = "wait"
    /\ tpc' = [tpc EXCEPT ![ClearTask] = "clear"]
    /\ UNCHANGED <<spaceVars, sweeperVars, clearTaskFinished, regionVars, queue, tindex, tregion,
                   mainVars, gcVars>>

\* WaitAllTaskFinished by the AsyncClearTask: one space after the other.
ClearTaskWaits ==
    LET i == tindex[ClearTask] IN
    /\ tpc[ClearTask] = "wait"
    /\ \/ /\ isSweeping /\ i < FreeListNum
          /\ remainingTaskNum[i] <= 0
          /\ tindex' = [tindex EXCEPT ![ClearTask] = i + 1]
          /\ UNCHANGED tpc
       \/ /\ ~isSweeping \/ i = FreeListNum
          /\ tpc' = [tpc EXCEPT ![ClearTask] = "clear"]
          /\ UNCHANGED tindex
    /\ UNCHANGED <<spaceVars, sweeperVars, clearTaskFinished, regionVars, queue, tregion,
                   mainVars, gcVars>>

\* ReclaimRegions clears the mark bits of the old regions and reports.
ClearMarkBits ==
    /\ tpc[ClearTask] = "clear"
    /\ marked' = [r \in Regions |-> FALSE]
    /\ clearTaskFinished' = TRUE
    /\ tpc' = [tpc EXCEPT ![ClearTask] = "idle"]
    /\ tindex' = [tindex EXCEPT ![ClearTask] = 0]
    /\ UNCHANGED <<spaceVars, sweeperVars, rsetVars, memory, queue, tregion,
                   mainVars, gcVars>>

TaskStep(t) ==
    \/ TakeRegion(t)
    \/ FreeRegion(t)
    \/ AddSweptRegion(t)
    \/ SetSwept(t)
    \/ CountDown(t)

-----------------------------------------------------------------------------
(* The JS thread, running the program *)

\* It comes back from a wait, and its locals are gone.
Return == mpc' = "run" /\ caller' = "none" /\ mtype' = OLD_SPACE

\* Mutant of Store: the set is taken over although the region is not swept yet.
StoreAdoptsUnswept(r, slot) ==
    /\ mpc = "run"
    /\ slot = "dying" => memory[r] = "used"
    /\ stored' = [stored EXCEPT ![r] = @ \cup {slot}]
    /\ IF oldToNewSet[r] = NoSet /\ sweepingRSet[r] # NoSet
       THEN /\ oldToNewSet' = [oldToNewSet EXCEPT ![r] = sweepingRSet[r] \cup {slot}]
            /\ sweepingRSet' = [sweepingRSet EXCEPT ![r] = NoSet]
       ELSE /\ oldToNewSet' = [oldToNewSet EXCEPT ![r] = SetOf(@) \cup {slot}]
            /\ UNCHANGED sweepingRSet
    /\ UNCHANGED <<spaceVars, sweeperVars, clearTaskFinished, hasBeenSwept, marked,
                   memory, taskVars, mainVars, gcVars>>

\* Region::InsertOldToNewRSet by the write barrier: the first insertion may take
\* over the sweeping set of a region that has been swept.
Store(r, slot) ==
    /\ mpc = "run"
    /\ slot = "dying" => memory[r] = "used"
    /\ stored' = [stored EXCEPT ![r] = @ \cup {slot}]
    /\ IF oldToNewSet[r] = NoSet /\ sweepingRSet[r] # NoSet /\ hasBeenSwept[r]
       THEN /\ oldToNewSet' = [oldToNewSet EXCEPT ![r] = sweepingRSet[r] \cup {slot}]
            /\ sweepingRSet' = [sweepingRSet EXCEPT ![r] = NoSet]
       ELSE /\ oldToNewSet' = [oldToNewSet EXCEPT ![r] = SetOf(@) \cup {slot}]
            /\ UNCHANGED sweepingRSet
    /\ UNCHANGED <<spaceVars, sweeperVars, clearTaskFinished, hasBeenSwept, marked,
                   memory, taskVars, mainVars, gcVars>>

\* ConcurrentSweeper::EnableConcurrentSweep, from Heap::ChangeGCParams.
EnableConcurrentSweep(type) ==
    /\ mpc = "run"
    /\ enableType # "CONFIG_DISABLE"
    /\ enableType' = IF enableType # "DISABLE" /\ isSweeping /\ type = "DISABLE"
                     THEN "REQUEST_DISABLE" ELSE type
    /\ UNCHANGED <<spaceVars, remainingTaskNum, isSweeping, startSpaceType, clearTaskFinished,
                   regionVars, taskVars, mainVars, gcVars>>

\* SparseSpace::Allocate.  With nothing in the free list it first refills it
\* from the swept regions if the space is being swept.
Allocate(s) ==
    /\ mpc = "run"
    /\ \/ \E r \in Free(s) :
              /\ memory' = [memory EXCEPT ![r] = "used"]
              /\ UNCHANGED mainVars
       \/ /\ Free(s) = {}
          /\ sweepState[s] = "SWEEPING"
          /\ mpc' = "fill" /\ caller' = "alloc" /\ mtype' = s
          /\ UNCHANGED <<memory, mregion>>
    /\ UNCHANGED <<spaceVars, sweeperVars, clearTaskFinished, rsetVars, marked,
                   taskVars, gcVars>>

\* Heap::Prepare at the start of a collection: EnsureAllTaskFinished returns at
\* once unless a sweep is open.
StartGC(fullGC) ==
    /\ mpc = "run"
    /\ sweeps < MaxSweeps
    /\ gc' = fullGC
    /\ \/ isSweeping /\ mpc' = "check" /\ caller' = "all" /\ mtype' = startSpaceType
       \/ ~isSweeping /\ mpc' = "clearWait" /\ UNCHANGED <<caller, mtype>>
    /\ UNCHANGED <<spaceVars, sweeperVars, clearTaskFinished, regionVars, taskVars, mregion,
                   sweeps, taintedRegions>>

-----------------------------------------------------------------------------
(* The JS thread in WaitingTaskFinish(mtype) *)

mainFrame == <<gcVars, compressSweepState, marked, stored, clearTaskFinished, isSweeping,
               startSpaceType, enableType>>

\* Mutant of CheckRemaining: FinishSweeping is skipped if no task remains.
CheckRemainingSkipsFill ==
    /\ mpc = "check"
    /\ mpc' = IF remainingTaskNum[mtype] > 0 THEN "count in" ELSE "filled"
    /\ UNCHANGED <<mainFrame, spaceVars, remainingTaskNum, oldToNewSet, sweepingRSet,
                   hasBeenSwept, memory, taskVars, caller, mtype, mregion>>

\* The unlocked test of remainingTaskNum_.
CheckRemaining ==
    /\ mpc = "check"
    /\ mpc' = IF remainingTaskNum[mtype] > 0 THEN "count in" ELSE "fill"
    /\ UNCHANGED <<mainFrame, spaceVars, remainingTaskNum, oldToNewSet, sweepingRSet,
                   hasBeenSwept, memory, taskVars, caller, mtype, mregion>>

\* The JS thread counts itself in as a sweeper, under mutexs_[type].
CountIn ==
    /\ mpc = "count in"
    /\ remainingTaskNum' = [remainingTaskNum EXCEPT ![mtype] = @ + 1]
    /\ mpc' = "take"
    /\ UNCHANGED <<mainFrame, spaceVars, oldToNewSet, sweepingRSet, hasBeenSwept, memory,
                   taskVars, caller, mtype, mregion>>

MainTakesRegion ==
    /\ mpc = "take"
    /\ \/ /\ sweepingList[mtype] # << >>
          /\ mregion' = LastRegion(mtype)
          /\ sweepingList' = [sweepingList EXCEPT ![mtype] = AllButLast(mtype)]
          /\ mpc' = "free"
       \/ /\ sweepingList[mtype] = << >>
          /\ mpc' = "count out"
          /\ UNCHANGED <<sweepingList, mregion>>
    /\ UNCHANGED <<mainFrame, sweptList, sweepState, remainingTaskNum, oldToNewSet,
                   sweepingRSet, hasBeenSwept, memory, taskVars, caller, mtype>>

\* FreeRegion(current, true) and MergeRSetForConcurrentSweeping.
MainFreesRegion ==
    LET r == mregion
        cleared == IF enableType \in {"ENABLE", "REQUEST_DISABLE"}
                   THEN ClearRange(sweepingRSet[r], r) ELSE sweepingRSet[r]
    IN
    /\ mpc = "free"
    /\ memory' = [memory EXCEPT ![r] = Freed(r, TRUE)]
    /\ oldToNewSet' = [oldToNewSet EXCEPT ![r] =
           IF cleared = NoSet THEN @ ELSE SetOf(@) \cup cleared]
    /\ sweepingRSet' = [sweepingRSet EXCEPT ![r] = NoSet]
    /\ mregion' = NoRegion
    /\ mpc' = "take"
    /\ UNCHANGED <<mainFrame, spaceVars, remainingTaskNum, hasBeenSwept, taskVars, caller, mtype>>

\* Mutant of CountOut: the helper is not counted out.
CountOutForgotten ==
    /\ mpc = "count out"
    /\ mpc' = "wait"
    /\ UNCHANGED <<mainFrame, spaceVars, remainingTaskNum, oldToNewSet, sweepingRSet,
                   hasBeenSwept, memory, taskVars, caller, mtype, mregion>>

\* The end of the JS thread's own AsyncSweepSpace, under mutexs_[type].
CountOut ==
    /\ mpc = "count out"
    /\ remainingTaskNum' = [remainingTaskNum EXCEPT ![mtype] = @ - 1]
    /\ mpc' = "wait"
    /\ UNCHANGED <<mainFrame, spaceVars, oldToNewSet, sweepingRSet, hasBeenSwept, memory,
                   taskVars, caller, mtype, mregion>>

\* cvs_[type].Wait until the count is zero.
WaitTasks ==
    /\ mpc = "wait"
    /\ remainingTaskNum[mtype] <= 0
    /\ mpc' = "fill"
    /\ UNCHANGED <<mainFrame, spaceVars, remainingTaskNum, oldToNewSet, sweepingRSet,
                   hasBeenSwept, memory, taskVars, caller, mtype, mregion>>

\* FillSweptRegion: an empty list is left alone, sweepState_ too.
FillSweptRegion ==
    /\ mpc = "fill"
    /\ mpc' = IF sweptList[mtype] = {} THEN "filled" ELSE "drain"
    /\ UNCHANGED <<mainFrame, spaceVars, remainingTaskNum, oldToNewSet, sweepingRSet,
                   hasBeenSwept, memory, taskVars, caller, mtype, mregion>>

\* The loop of FillSweptRegion: GetSweptRegionSafe, CollectFreeObjectSet,
\* ResetSwept, MergeRSetForConcurrentSweeping.
DrainSweptRegion ==
    /\ mpc = "drain"
    /\ \/ \E r \in sweptList[mtype] :
              /\ sweptList' = [sweptList EXCEPT ![mtype] = @ \ {r}]
              /\ memory' = [memory EXCEPT ![r] = IF @ = "inRegion" THEN "free" ELSE @]
              /\ hasBeenSwept' = [hasBeenSwept EXCEPT ![r] = FALSE]
              /\ MergeRSetForConcurrentSweeping(r)
              /\ UNCHANGED <<sweepState, mpc>>
       \/ /\ sweptList[mtype] = {}
          /\ sweepState' = [sweepState EXCEPT ![mtype] = "SWEPT"]
          /\ mpc' = "filled"
          /\ UNCHANGED <<sweptList, memory, hasBeenSwept, oldToNewSet, sweepingRSet>>
    /\ UNCHANGED <<mainFrame, sweepingList, remainingTaskNum, taskVars, caller, mtype, mregion>>

\* EnsureAllTaskFinished goes to the next space, or closes the sweep.
EnsureAllTaskFinished ==
    /\ mpc = "filled" /\ caller = "all"
    /\ \/ /\ mtype + 1 < FreeListNum
          /\ mtype' = mtype + 1 /\ mpc' = "check"
          /\ UNCHANGED <<isSweeping, enableType>>
       \/ /\ mtype + 1 = FreeListNum
          /\ isSweeping' = FALSE
          /\ enableType' = IF enableType = "REQUEST_DISABLE" THEN "DISABLE" ELSE enableType
          /\ mpc' = "clearWait"
          /\ UNCHANGED mtype
    /\ UNCHANGED <<spaceVars, remainingTaskNum, startSpaceType, clearTaskFinished, regionVars,
                   taskVars, caller, mregion, gcVars>>

\* AllocateAfterSweepingCompleted: allocate from what was filled, else
\* EnsureTaskFinished(spaceType_) and try once more.
AllocateAfterSweepingCompleted ==
    /\ mpc = "filled" /\ caller \in {"alloc", "one"}
    /\ \/ \E r \in Free(mtype) :
              /\ memory' = [memory EXCEPT ![r] = "used"]
              /\ Return
       \/ /\ Free(mtype) = {}
          /\ caller = "alloc" /\ isSweeping
          /\ caller' = "one" /\ mpc' = "check"
          /\ UNCHANGED <<memory, mtype>>
       \/ /\ Free(mtype) = {}
          /\ caller = "one" \/ ~isSweeping
          /\ Return /\ UNCHANGED memory
    /\ UNCHANGED <<spaceVars, sweeperVars, clearTaskFinished, rsetVars, marked,
                   taskVars, mregion, gcVars>>

\* TryFillSweptRegion at the end of the collection: the next space, or done.
TryFillSweptRegion ==
    /\ mpc = "filled" /\ caller = "try"
    /\ \/ /\ mtype + 1 < FreeListNum
          /\ mtype' = mtype + 1 /\ mpc' = "fill" /\ UNCHANGED caller
       \/ /\ mtype + 1 = FreeListNum
          /\ Return
    /\ UNCHANGED <<spaceVars, sweeperVars, clearTaskFinished, regionVars, taskVars, mregion,
                   gcVars>>

-----------------------------------------------------------------------------
(* The JS thread, collecting *)

\* WaitClearTaskFinished, then marking: dead is the set of regions whose dying
\* object is found unreachable.
MarkOldGC(dead) ==
    /\ mpc = "clearWait" /\ ~gc
    /\ clearTaskFinished
    /\ startSpaceType' = OLD_SPACE
    /\ dead \subseteq {r \in Regions : memory[r] = "used"}
    /\ marked' = [r \in Regions |-> TRUE]
    /\ memory' = [r \in Regions |-> IF r \in dead THEN "garbage" ELSE memory[r]]
    /\ stored' = [r \in Regions |-> IF r \in dead THEN stored[r] \ {"dying"} ELSE stored[r]]
    /\ mpc' = "sweep"
    /\ UNCHANGED <<spaceVars, remainingTaskNum, isSweeping, enableType, clearTaskFinished,
                   oldToNewSet, sweepingRSet, hasBeenSwept, taskVars, caller, mtype, mregion,
                   gcVars>>

\* The same in a full GC.  It promotes every young object, so FullGC::Initialize
\* clears the remembered sets, and it moves the old space into new regions.
MarkFullGC(dead) ==
    LET moved == RegionsOf(OLD_SPACE) IN
    /\ mpc = "clearWait" /\ gc
    /\ clearTaskFinished
    /\ startSpaceType' = NON_MOVABLE
    /\ dead \subseteq {r \in Regions \ moved : memory[r] = "used"}
    /\ marked' = [r \in Regions |-> r \notin moved]
    /\ memory' = [r \in Regions |-> IF r \in moved THEN "used"
                                    ELSE IF r \in dead THEN "garbage" ELSE memory[r]]
    /\ stored' = [r \in Regions |-> {}]
    /\ oldToNewSet' = [r \in Regions |->
           IF r \in moved \/ oldToNewSet[r] = NoSet THEN NoSet ELSE {}]
    /\ hasBeenSwept' = [r \in Regions |-> r \notin moved /\ hasBeenSwept[r]]
    /\ mpc' = "sweep"
    /\ UNCHANGED <<spaceVars, remainingTaskNum, isSweeping, enableType, clearTaskFinished,
                   sweepingRSet, taskVars, caller, mtype, mregion, gcVars>>

SweptSpaces == startSpaceType .. FreeListNum - 1
SweptRegions == {r \in Regions : SpaceOf[r] \in SweptSpaces}

\* Memory that was free and not yet reused returns to the space's garbage:
\* RebuildFreeList drops every free list, and the sweep finds the hole again.
RebuildFreeList(mem) ==
    [r \in Regions |-> IF r \in SweptRegions /\ mem[r] \in {"free", "inRegion"}
                       THEN "garbage" ELSE mem[r]]

\* Sweep(fullGC) with concurrent sweeping: PrepareSweeping for every space,
\* then the tasks are posted.
SweepConcurrently ==
    /\ mpc = "sweep"
    /\ enableType \in {"ENABLE", "REQUEST_DISABLE"}
    /\ oldToNewSet' = [r \in Regions |-> IF r \in SweptRegions THEN NoSet ELSE oldToNewSet[r]]
    /\ sweepingRSet' = [r \in Regions |-> IF r \in SweptRegions THEN oldToNewSet[r]
                                                                 ELSE sweepingRSet[r]]
    /\ \E lists \in [SweptSpaces -> UNION {SortedLists(RegionsOf(s)) : s \in SweptSpaces}] :
          /\ \A s \in SweptSpaces : lists[s] \in SortedLists(RegionsOf(s))
          /\ sweepingList' = [s \in Types |->
                 IF s \in SweptSpaces THEN sweepingList[s] \o lists[s] ELSE sweepingList[s]]
    /\ sweepState' = [s \in Types |-> IF s \in SweptSpaces THEN "SWEEPING" ELSE sweepState[s]]
    /\ memory' = RebuildFreeList(memory)
    /\ taintedRegions' = {r \in SweptRegions : hasBeenSwept[r]}
    /\ isSweeping' = TRUE
    /\ remainingTaskNum' = [s \in Types |-> IF s \in SweptSpaces
                               THEN FreeListNum - startSpaceType ELSE remainingTaskNum[s]]
    /\ queue' = queue \o [i \in 1 .. FreeListNum - startSpaceType |-> startSpaceType + i - 1]
    /\ tpc' = [t \in Tasks |-> IF t \in SweptSpaces THEN "queued" ELSE tpc[t]]
    /\ sweeps' = sweeps + 1
    /\ mpc' = "resume"
    /\ UNCHANGED <<sweptList, compressSweepState, startSpaceType, enableType, clearTaskFinished,
                   hasBeenSwept, stored,
                   marked, tindex, tregion, caller, mtype, mregion, gc>>

\* Sweep(fullGC) without: SparseSpace::Sweep on the JS thread.
SweepNow ==
    /\ mpc = "sweep"
    /\ enableType \in {"DISABLE", "CONFIG_DISABLE"}
    /\ oldToNewSet' = [r \in Regions |-> IF r \in SweptRegions
          THEN IF memory[r] \in {"garbage", "free", "inRegion"} /\ oldToNewSet[r] # NoSet
               THEN oldToNewSet[r] \ {"dying"} ELSE oldToNewSet[r]
          ELSE oldToNewSet[r]]
    /\ memory' = [r \in Regions |-> IF r \in SweptRegions /\ memory[r] # "used"
                                    THEN "free" ELSE memory[r]]
    /\ sweepState' = [s \in Types |-> IF s \in SweptSpaces THEN "SWEEPING" ELSE sweepState[s]]
    /\ sweeps' = sweeps + 1
    /\ mpc' = "resume"
    /\ UNCHANGED <<sweepingList, sweptList, compressSweepState, sweeperVars, clearTaskFinished,
                   sweepingRSet,
                   hasBeenSwept, stored, marked, taskVars, caller, mtype, mregion, gc,
                   taintedRegions>>

\* Heap::Resume makes the spare old space of a full GC the old space and posts
\* the AsyncClearTask; the collection ends with TryFillSweptRegion.
Resume ==
    /\ mpc = "resume"
    /\ clearTaskFinished' = FALSE
    /\ queue' = Append(queue, ClearTask)
    /\ tpc' = [tpc EXCEPT ![ClearTask] = "queued"]
    /\ mpc' = "fill" /\ caller' = "try" /\ mtype' = startSpaceType
    /\ IF gc
       THEN /\ sweepState' = [sweepState EXCEPT ![OLD_SPACE] = compressSweepState]
            /\ compressSweepState' = sweepState[OLD_SPACE]
       ELSE UNCHANGED <<sweepState, compressSweepState>>
    /\ UNCHANGED <<sweepingList, sweptList, sweeperVars, regionVars, tindex, tregion, mregion,
                   gcVars>>

MainStep ==
    \/ CheckRemaining
    \/ CountIn
    \/ MainTakesRegion
    \/ MainFreesRegion
    \/ CountOut
    \/ WaitTasks
    \/ FillSweptRegion
    \/ DrainSweptRegion
    \/ EnsureAllTaskFinished
    \/ AllocateAfterSweepingCompleted
    \/ TryFillSweptRegion
    \/ \E dead \in SUBSET Regions : MarkOldGC(dead) \/ MarkFullGC(dead)
    \/ SweepConcurrently
    \/ SweepNow
    \/ Resume

-----------------------------------------------------------------------------
Init ==
    /\ sweepingList = [s \in Types |-> << >>]
    /\ sweptList = [s \in Types |-> {}]
    /\ sweepState = [s \in Types |-> "NO_SWEEP"]
    /\ compressSweepState = "NO_SWEEP"
    /\ remainingTaskNum = [s \in Types |-> 0]
    /\ isSweeping = FALSE
    /\ startSpaceType = OLD_SPACE
    /\ enableType = "ENABLE"
    /\ clearTaskFinished = TRUE
    /\ oldToNewSet = [r \in Regions |-> NoSet]
    /\ sweepingRSet = [r \in Regions |-> NoSet]
    /\ hasBeenSwept = [r \in Regions |-> FALSE]
    /\ marked = [r \in Regions |-> FALSE]
    /\ memory = [r \in Regions |-> "used"]
    /\ queue = << >>
    /\ tpc = [t \in Tasks |-> "idle"]
    /\ tindex = [t \in Tasks |-> 0]
    /\ tregion = [t \in Tasks |-> NoRegion]
    /\ mpc = "run" /\ caller = "none" /\ mtype = OLD_SPACE /\ mregion = NoRegion
    /\ gc = FALSE
    /\ sweeps = 0
    /\ stored = [r \in Regions |-> {}]
    /\ taintedRegions = {}

ClearTaskStep == ClearTaskWaits \/ ClearMarkBits

Next ==
    \/ StartTask
    \/ \E t \in Types : TaskStep(t)
    \/ ClearTaskStep
    \/ \E r \in Regions, slot \in StoredSlots : Store(r, slot)
    \/ \E type \in Switches : EnableConcurrentSweep(type)
    \/ \E s \in Types : Allocate(s)
    \/ \E fullGC \in Collections : StartGC(fullGC)
    \/ MainStep

\* Worker threads and the JS thread are scheduled; the program is not obliged
\* to store, allocate or collect.
Fairness ==
    /\ WF_vars(StartTask)
    /\ \A t \in Types : WF_vars(TaskStep(t))
    /\ WF_vars(ClearTaskStep)
    /\ WF_vars(MainStep)

Spec == Init /\ [][Next]_vars
FairSpec == Spec /\ Fairness

-----------------------------------------------------------------------------
\* The type of the state.
TypeOK ==
    /\ sweepingList \in [Types -> Seq(Regions)]
    /\ sweptList \in [Types -> SUBSET Regions]
    /\ sweepState \in [Types -> {"NO_SWEEP", "SWEEPING", "SWEPT"}]
    /\ compressSweepState \in {"NO_SWEEP", "SWEEPING", "SWEPT"}
    /\ remainingTaskNum \in [Types -> 0 .. FreeListNum + 1]
    /\ isSweeping \in BOOLEAN
    /\ startSpaceType \in {OLD_SPACE, NON_MOVABLE}
    /\ enableType \in {"ENABLE", "CONFIG_DISABLE", "DISABLE", "REQUEST_DISABLE"}
    /\ clearTaskFinished \in BOOLEAN
    /\ oldToNewSet \in [Regions -> (SUBSET Slots) \cup {NoSet}]
    /\ sweepingRSet \in [Regions -> (SUBSET Slots) \cup {NoSet}]
    /\ hasBeenSwept \in [Regions -> BOOLEAN]
    /\ marked \in [Regions -> BOOLEAN]
    /\ memory \in [Regions -> {"used", "garbage", "inRegion", "free"}]
    /\ queue \in Seq(Tasks)
    /\ tpc \in [Tasks -> {"idle", "queued", "take", "free", "add", "set", "count", "wait", "clear"}]
    /\ tindex \in [Tasks -> 0 .. FreeListNum]
    /\ tregion \in [Tasks -> Regions \cup {NoRegion}]
    /\ mpc \in {"run", "check", "count in", "take", "free", "count out", "wait", "fill", "drain",
                "filled", "clearWait", "sweep", "resume"}
    /\ caller \in {"none", "all", "alloc", "one", "try"}
    /\ mtype \in Types
    /\ mregion \in Regions \cup {NoRegion}
    /\ gc \in BOOLEAN
    /\ sweeps \in 0 .. MaxSweeps
    /\ stored \in [Regions -> SUBSET Slots]
    /\ taintedRegions \in SUBSET Regions

-----------------------------------------------------------------------------
(* Safety *)

Listed(r) == \E i \in DOMAIN sweepingList[SpaceOf[r]] : sweepingList[SpaceOf[r]][i] = r

\* Task t has taken region r off the list and not handed it back yet.
Holds(t, r) == tregion[t] = r /\ tpc[t] \in {"free", "add"}

\* A region being swept is in one place only: still listed, held by one worker
\* or by the JS thread, or handed back.  Two sweepers of one region would free
\* the same memory twice.
SweptByOne ==
    \A r \in Regions :
        LET s == SpaceOf[r]
            listed == {i \in DOMAIN sweepingList[s] : sweepingList[s][i] = r}
            holders == {t \in Types : Holds(t, r)}
        IN  Cardinality(listed) + Cardinality(holders)
              + (IF mregion = r THEN 1 ELSE 0) + (IF r \in sweptList[s] THEN 1 ELSE 0) <= 1

\* The JS thread's stores during a sweep, the set the sweeper clears and the
\* merge of the two lose no reference: a slot that holds an old-to-new
\* reference is remembered.  (The state has its type.)
NoSlotForgotten ==
    /\ TypeOK
    /\ \A r \in Regions : stored[r] \subseteq SetOf(oldToNewSet[r]) \cup SetOf(sweepingRSet[r])

\* A slot of freed memory is not remembered, so that a later young GC does not
\* take what is left there for a reference.  (For a region that did not enter
\* the sweep with a stale flag; see taintedRegions.)
FreedSlotForgotten ==
    \A r \in Regions \ taintedRegions : memory[r] \in {"inRegion", "free"} =>
        "dying" \notin SetOf(oldToNewSet[r]) \cup SetOf(sweepingRSet[r])

\* The AsyncClearTask clears no mark bit that a sweeper still has to read, of
\* this sweep or of one begun while the task was queued.
MarkedUntilSwept ==
    \A r \in Regions :
        \/ memory[r] = "garbage" /\ mpc # "sweep"
        \/ Listed(r)
        \/ \E t \in Types : tregion[t] = r /\ tpc[t] = "free"
        => marked[r]

\* Once EnsureAllTaskFinished has returned nothing of the sweep is left: no
\* region to sweep or to take back, no task that will still touch one, every
\* freed range in the free list and every remembered set in one piece.  The
\* marking that follows relies on it.
ClosedSweepIsComplete ==
    ~isSweeping =>
        /\ \A s \in Types : sweepingList[s] = << >> /\ sweptList[s] = {} /\ remainingTaskNum[s] = 0
        /\ \A t \in Types : tpc[t] = "idle"
        /\ \A r \in Regions : sweepingRSet[r] = NoSet /\ memory[r] # "inRegion"
        /\ mpc # "sweep" => \A r \in Regions : memory[r] # "garbage"

(* Liveness *)

\* The JS thread comes back from every wait of a collection or an allocation:
\* helping, counting in and counting out never leaves remainingTaskNum_ above
\* zero for good.
MainReturns == mpc # "run" ~> mpc = "run"

\* The AsyncClearTask, which waits inside a pool worker for the sweeper's tasks,
\* does not starve them: the next collection's WaitClearTaskFinished returns.
ClearTaskFinishes == ~clearTaskFinished ~> clearTaskFinished

\* Nobody waits for ever: neither the JS thread nor the task it may wait for.
WaitsEnd == MainReturns /\ ClearTaskFinishes
=============================================================================
