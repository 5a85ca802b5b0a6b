------------------------ MODULE ConcurrentSweepProofs ------------------------
(***************************************************************************)
(* What ConcurrentSweep promises of the sweep, proved for every number of  *)
(* spaces, regions, workers and collections: no region is swept twice, a   *)
(* closed sweep leaves nothing behind, no remembered slot is lost and none *)
(* outlives the memory it lay in, and the AsyncClearTask clears no mark    *)
(* bit that is still to be read.                                           *)
(***************************************************************************)
EXTENDS ConcurrentSweep, FiniteSetTheorems, SequenceTheorems, TLAPS

-----------------------------------------------------------------------------
(* The invariant *)

\* The space that task t sweeps in round i of its loop.
SpaceAt(t, i) == ((i + t) % (FreeListNum - startSpaceType)) + startSpaceType

Sweeps == {"take", "free", "add", "set", "count"}
Active(t) == tpc[t] \in Sweeps

\* Task t has still to count itself out of space s.
Pending(t, s) ==
    \/ tpc[t] = "queued" /\ s \in SweptSpaces
    \/ Active(t) /\ \E i \in tindex[t] .. FreeListNum - 1 : SpaceAt(t, i) = s

\* No task will touch a region of space s any more.
Over(s) == sweepingList[s] = << >> /\ \A t \in Types : ~Pending(t, s)

\* The JS thread is counted in as a sweeper of space s.
Helps(s) == mpc \in {"take", "free", "count out"} /\ mtype = s

\* Task t has region r in its local variable.
At(t, r, pc) == tregion[t] = r /\ tpc[t] = pc
Keeps(t, r) == tregion[t] = r /\ tpc[t] \in {"free", "add", "set"}

\* The garbage of region r has still to be freed; it is freed, and still to be
\* taken back by the JS thread.
Unfreed(r) == Listed(r) \/ mregion = r \/ \E t \in Types : At(t, r, "free")
Handed(r) == r \in sweptList[SpaceOf[r]] \/ \E t \in Types : At(t, r, "add")

\* The queue holds each posted task once; the sweeper's tasks run only while a
\* sweep is open, each in a round of its loop, with a region of its space.
PoolInv ==
    /\ \A i, k \in DOMAIN queue : queue[i] = queue[k] => i = k
    /\ \A t \in Tasks : tpc[t] = "queued" <=> \E i \in DOMAIN queue : queue[i] = t
    /\ \A t \in Types :
        /\ tpc[t] \in {"idle", "queued"} \cup Sweeps
        /\ tpc[t] # "idle" => isSweeping /\ t \in SweptSpaces
        /\ Active(t) => tindex[t] \in SweptSpaces
        /\ tpc[t] \in {"free", "add", "set"} =>
               tregion[t] \in Regions /\ SpaceOf[tregion[t]] = TaskSpace(t)
    /\ tpc[ClearTask] \in {"idle", "queued", "wait", "clear"}
    /\ clearTaskFinished = TRUE <=> tpc[ClearTask] = "idle"

\* The points of WaitingTaskFinish, and with FinishSweeping after it.
Waits == {"check", "count in", "take", "free", "count out", "wait"}
Finishes == Waits \cup {"fill", "drain", "filled"}

\* Where the JS thread may be, and with what in its locals.
MainInv ==
    /\ mpc \in {"clearWait", "sweep"} => ~isSweeping
    /\ mpc \in {"sweep", "resume"} => clearTaskFinished
    /\ mpc \in Waits => isSweeping /\ caller \in {"all", "one"}
    /\ mpc \in Waits \ {"check"} => mtype \in SweptSpaces
    /\ IF mpc = "free" THEN mregion \in Regions /\ SpaceOf[mregion] = mtype
                       ELSE mregion = NoRegion
    /\ caller = "all" /\ mpc \in Finishes => isSweeping /\ mtype \in SweptSpaces
    /\ isSweeping => enableType \in {"ENABLE", "REQUEST_DISABLE"}
    /\ mpc \in {"clearWait", "sweep"} \/ (caller = "all" /\ mpc \in Finishes) =>
           sweeps < MaxSweeps

\* EnsureAllTaskFinished leaves each space with nothing of the sweep in it.
DoneInv ==
    /\ caller = "all" /\ mpc \in Finishes =>
           \A s \in startSpaceType .. mtype - 1 : Over(s) /\ sweptList[s] = {}
    /\ caller \in {"all", "one"} /\ mpc \in {"fill", "drain", "filled"} => Over(mtype)
    /\ caller \in {"all", "one"} /\ mpc = "filled" => sweptList[mtype] = {}

\* remainingTaskNum_ counts the sweepers of the space, the JS thread included.
CountInv ==
    \A s \in Types :
        remainingTaskNum[s] = Cardinality({t \in Types : Pending(t, s)})
                                + (IF Helps(s) THEN 1 ELSE 0)

\* The lists hold regions of their space, each once, and only during a sweep; a
\* sweeper leaves a space behind when its list is empty.
ListInv ==
    /\ \A s \in Types :
        /\ \A i \in DOMAIN sweepingList[s] : SpaceOf[sweepingList[s][i]] = s
        /\ \A i, k \in DOMAIN sweepingList[s] : sweepingList[s][i] = sweepingList[s][k] => i = k
        /\ \A r \in sweptList[s] : SpaceOf[r] = s
        /\ ~isSweeping \/ s \notin SweptSpaces => sweepingList[s] = << >> /\ sweptList[s] = {}
        /\ \A t \in SweptSpaces :
               ~Pending(t, s) \/ (tpc[t] = "count" /\ TaskSpace(t) = s) => sweepingList[s] = << >>
    /\ mpc \in {"count out", "wait"} => sweepingList[mtype] = << >>

\* A region is in one place.
OwnInv ==
    \A r \in Regions :
        /\ Listed(r) => mregion # r /\ r \notin sweptList[SpaceOf[r]]
                          /\ \A t \in Types : ~Keeps(t, r)
        /\ mregion = r => r \notin sweptList[SpaceOf[r]] /\ \A t \in Types : ~Keeps(t, r)
        /\ \A t \in Types : Holds(t, r) => r \notin sweptList[SpaceOf[r]]
        /\ \A t, u \in Types : Keeps(t, r) /\ Keeps(u, r) => t = u

\* No sweeper is left in the spaces that the AsyncClearTask has waited for.
Left(s) == Over(s) /\ ~(mpc = "free" /\ mtype = s)
ClearInv ==
    /\ tpc[ClearTask] = "wait" =>
           /\ tindex[ClearTask] \in startSpaceType .. FreeListNum
           /\ isSweeping => \A s \in startSpaceType .. tindex[ClearTask] - 1 : Left(s)
    /\ tpc[ClearTask] = "clear" /\ isSweeping => \A s \in SweptSpaces : Left(s)

\* What the place of a region says of its memory, its mark bits and its set.
DataOf(r) ==
    /\ memory[r] = "garbage" /\ mpc # "sweep" => Unfreed(r)
    /\ mpc = "sweep" /\ SpaceOf[r] \notin SweptSpaces => memory[r] = "used"
    /\ memory[r] = "inRegion" => Handed(r)
    /\ sweepingRSet[r] # NoSet => Unfreed(r) \/ Handed(r)
    /\ Unfreed(r) \/ (mpc = "sweep" /\ SpaceOf[r] \in SweptSpaces) => marked[r] = TRUE

\* The slots of a dead object hold no reference; the others are remembered.
SlotsOf(r) ==
    /\ memory[r] # "used" => "dying" \notin stored[r]
    /\ stored[r] \subseteq SetOf(oldToNewSet[r]) \cup SetOf(sweepingRSet[r])

\* In a region that entered the sweep with its flag reset.
FreshOf(r) ==
    /\ Unfreed(r) => hasBeenSwept[r] = FALSE
    /\ memory[r] = "garbage" /\ mpc # "sweep" => "dying" \notin SetOf(oldToNewSet[r])
    /\ memory[r] \in {"inRegion", "free"} =>
           "dying" \notin SetOf(oldToNewSet[r]) \cup SetOf(sweepingRSet[r])

RegionInv(r) == DataOf(r) /\ SlotsOf(r) /\ (r \notin taintedRegions => FreshOf(r))
DataInv == \A r \in Regions : RegionInv(r)

Inv ==
    /\ TypeOK
    /\ PoolInv /\ MainInv /\ DoneInv
    /\ CountInv /\ ListInv /\ OwnInv /\ ClearInv
    /\ DataInv

-----------------------------------------------------------------------------
(* The rounds of a task *)

LEMMA ModSmall ==
    ASSUME NEW n \in Nat \ {0}, NEW x \in 0 .. n - 1
    PROVE  x % n = x
OBVIOUS

LEMMA ModWrap ==
    ASSUME NEW n \in Nat \ {0}, NEW x \in n .. n + n - 1
    PROVE  x % n = x - n
OBVIOUS

LEMMA ModWrapTwice ==
    ASSUME NEW n \in Nat \ {0}, NEW x \in n + n .. n + n + n - 1
    PROVE  x % n = x - (n + n)
OBVIOUS

\* The loop of SweeperTask::Run visits every swept space once, from whichever
\* type it starts.
LEMMA Rounds ==
    ASSUME startSpaceType \in {OLD_SPACE, NON_MOVABLE}, NEW t \in SweptSpaces
    PROVE  /\ \A i \in SweptSpaces : SpaceAt(t, i) \in SweptSpaces
           /\ \A i, j \in SweptSpaces : SpaceAt(t, i) = SpaceAt(t, j) => i = j
           /\ \A s \in SweptSpaces : \E i \in SweptSpaces : SpaceAt(t, i) = s
<1> PICK m : m = FreeListNum - startSpaceType OBVIOUS
<1> PICK S : S = startSpaceType OBVIOUS
<1>1. /\ m \in Nat \ {0} /\ S \in {0, 1} /\ FreeListNum = S + m
  BY ConstAssumption DEF OLD_SPACE, NON_MOVABLE
<1>2. SweptSpaces = S .. S + m - 1
  BY <1>1 DEF SweptSpaces
<1>3. \A i : SpaceAt(t, i) = ((i + t) % m) + S
  BY DEF SpaceAt
<1>4. t \in Int /\ S <= t /\ t <= S + m - 1
  BY <1>1, <1>2
<1>5. \A i \in SweptSpaces : /\ i \in Int /\ S <= i /\ i <= S + m - 1
                             /\ \/ i + t < m /\ (i + t) % m = i + t
                                \/ m <= i + t /\ i + t < m + m /\ (i + t) % m = i + t - m
                                \/ m + m <= i + t /\ (i + t) % m = i + t - (m + m)
  <2> TAKE i \in SweptSpaces
  <2>1. i \in Int /\ S <= i /\ i <= S + m - 1
    BY <1>1, <1>2
  <2>2. i + t \in Nat /\ i + t < m + m + m
    BY ONLY <2>1, <1>4, <1>1
  <2>3. /\ i + t < m => (i + t) % m = i + t
        /\ m <= i + t /\ i + t < m + m => (i + t) % m = i + t - m
        /\ m + m <= i + t /\ i + t < m + m + m => (i + t) % m = i + t - (m + m)
    <3> PICK x \in Nat : x = i + t
      BY ONLY <2>2
    <3>1. x \in 0 .. m - 1 => x % m = x
      BY ONLY <1>1, ModSmall
    <3>2. x \in m .. m + m - 1 => x % m = x - m
      BY ONLY <1>1, ModWrap
    <3>3. x \in m + m .. m + m + m - 1 => x % m = x - (m + m)
      BY ONLY <1>1, ModWrapTwice
    <3>4. /\ x < m => x \in 0 .. m - 1
          /\ m <= x /\ x < m + m => x \in m .. m + m - 1
          /\ m + m <= x /\ x < m + m + m => x \in m + m .. m + m + m - 1
      BY ONLY <1>1, x \in Nat
    <3>5. /\ x < m => x % m = x
          /\ m <= x /\ x < m + m => x % m = x - m
          /\ m + m <= x /\ x < m + m + m => x % m = x - (m + m)
      BY ONLY <3>1, <3>2, <3>3, <3>4
    <3> QED BY ONLY <3>5, <2>1, <1>1, <1>4, x \in Nat, x = i + t
  <2> QED BY ONLY <2>1, <2>2, <2>3, <1>1, <1>4
<1>6. ASSUME NEW i \in SweptSpaces PROVE SpaceAt(t, i) \in SweptSpaces
  <2>1. /\ i \in Int /\ S <= i /\ i <= S + m - 1
        /\ \/ i + t < m /\ (i + t) % m = i + t
           \/ m <= i + t /\ i + t < m + m /\ (i + t) % m = i + t - m
           \/ m + m <= i + t /\ (i + t) % m = i + t - (m + m)
    BY <1>5
  <2>2. ((i + t) % m) + S \in S .. S + m - 1
    BY ONLY <2>1, <1>1, <1>4
  <2> QED BY <2>2, <1>2, <1>3
<1>7. ASSUME NEW i \in SweptSpaces, NEW j \in SweptSpaces, SpaceAt(t, i) = SpaceAt(t, j)
      PROVE  i = j
  <2>1. /\ i \in Int /\ S <= i /\ i <= S + m - 1
        /\ \/ i + t < m /\ (i + t) % m = i + t
           \/ m <= i + t /\ i + t < m + m /\ (i + t) % m = i + t - m
           \/ m + m <= i + t /\ (i + t) % m = i + t - (m + m)
    BY <1>5
  <2>2. /\ j \in Int /\ S <= j /\ j <= S + m - 1
        /\ \/ j + t < m /\ (j + t) % m = j + t
           \/ m <= j + t /\ j + t < m + m /\ (j + t) % m = j + t - m
           \/ m + m <= j + t /\ (j + t) % m = j + t - (m + m)
    BY <1>5
  <2>3. ((i + t) % m) + S = ((j + t) % m) + S
    BY <1>7, <1>3
  <2> PICK a : a = (i + t) % m OBVIOUS
  <2> PICK b : b = (j + t) % m OBVIOUS
  <2>4. /\ a \in Int /\ b \in Int
        /\ a = i + t \/ a = i + t - m \/ a = i + t - (m + m)
        /\ b = j + t \/ b = j + t - m \/ b = j + t - (m + m)
        /\ a + S = b + S
    BY ONLY <2>1, <2>2, <2>3, <1>1, <1>4, a = (i + t) % m, b = (j + t) % m
  <2> QED BY ONLY <2>1, <2>2, <2>4, <1>1, <1>4
<1>8. ASSUME NEW s \in SweptSpaces PROVE \E i \in SweptSpaces : SpaceAt(t, i) = s
  <2>1. s \in Int /\ S <= s /\ s <= S + m - 1
    BY <1>1, <1>2
  <2> PICK k : k = s - S - t OBVIOUS
  <2>2. k \in Int /\ k + t = s - S /\ -(S + m - 1) <= k /\ k <= m - 1 - S
    BY ONLY <2>1, <1>1, <1>4, k = s - S - t
  <2>3. PICK i \in S .. S + m - 1 : i = k \/ i = k + m \/ i = k + (m + m)
    <3>1. \/ k \in S .. S + m - 1 \/ k + m \in S .. S + m - 1 \/ k + (m + m) \in S .. S + m - 1
      BY ONLY <2>2, <1>1
    <3> QED BY ONLY <3>1
  <2>4. /\ i \in Int /\ S <= i /\ i <= S + m - 1
        /\ \/ i + t < m /\ (i + t) % m = i + t
           \/ m <= i + t /\ i + t < m + m /\ (i + t) % m = i + t - m
           \/ m + m <= i + t /\ (i + t) % m = i + t - (m + m)
    BY <1>5, <2>3, <1>2
  <2>5. ((i + t) % m) + S = s
    <3> PICK a : a = (i + t) % m OBVIOUS
    <3>1. /\ a \in Int
          /\ \/ i + t < m /\ a = i + t
             \/ m <= i + t /\ i + t < m + m /\ a = i + t - m
             \/ m + m <= i + t /\ a = i + t - (m + m)
      BY ONLY <2>4, <1>1, <1>4, a = (i + t) % m
    <3>2. a + S = s
      BY ONLY <3>1, <2>1, <2>2, <2>3, <2>4, <1>1, <1>4
    <3> QED BY ONLY <3>2, a = (i + t) % m
  <2> QED BY <2>5, <2>3, <1>2, <1>3
<1> QED BY <1>6, <1>7, <1>8

-----------------------------------------------------------------------------
(* The sweepers of a space *)

LEMMA SweptFacts ==
    ASSUME startSpaceType \in {OLD_SPACE, NON_MOVABLE}
    PROVE  /\ SweptSpaces \subseteq Types /\ startSpaceType \in SweptSpaces
           /\ FreeListNum - 1 \in SweptSpaces
           /\ \A s \in SweptSpaces : s .. FreeListNum - 1 \subseteq SweptSpaces
           /\ FreeListNum \in Nat /\ startSpaceType \in Nat /\ startSpaceType < FreeListNum
  BY ConstAssumption DEF SweptSpaces, Types, OLD_SPACE, NON_MOVABLE

LEMMA SpacesOfTasks ==
    ASSUME TypeOK, PoolInv
    PROVE  /\ \A t \in Types : Active(t) => /\ TaskSpace(t) = SpaceAt(t, tindex[t])
                                            /\ TaskSpace(t) \in SweptSpaces
                                            /\ Pending(t, TaskSpace(t))
           /\ \A t \in Types : tpc[t] = "queued" => \A s \in SweptSpaces : Pending(t, s)
           /\ \A t \in Types : \A s : Pending(t, s) =>
                  isSweeping /\ t \in SweptSpaces /\ s \in SweptSpaces
<1>1. startSpaceType \in {OLD_SPACE, NON_MOVABLE}
  BY DEF TypeOK
<1>2. \A t \in Types : TaskSpace(t) = SpaceAt(t, tindex[t])
  BY DEF TaskSpace, SpaceAt
<1>3. ASSUME NEW t \in Types, Active(t)
      PROVE  TaskSpace(t) \in SweptSpaces /\ Pending(t, TaskSpace(t))
  <2>1. t \in SweptSpaces /\ tindex[t] \in SweptSpaces
    BY <1>3 DEF PoolInv, Active, Sweeps
  <2>2. SpaceAt(t, tindex[t]) \in SweptSpaces
    BY <1>1, <2>1, Rounds
  <2>3. tindex[t] \in tindex[t] .. FreeListNum - 1
    BY <2>1, <1>1, SweptFacts DEF SweptSpaces
  <2> QED BY <1>2, <1>3, <2>2, <2>3 DEF Pending
<1>4. ASSUME NEW t \in Types, NEW s, Pending(t, s)
      PROVE  isSweeping /\ t \in SweptSpaces /\ s \in SweptSpaces
  <2>1. CASE tpc[t] = "queued" /\ s \in SweptSpaces
    BY <2>1 DEF PoolInv
  <2>2. CASE Active(t) /\ \E i \in tindex[t] .. FreeListNum - 1 : SpaceAt(t, i) = s
    <3>1. isSweeping /\ t \in SweptSpaces /\ tindex[t] \in SweptSpaces
      BY <2>2 DEF PoolInv, Active, Sweeps
    <3>2. tindex[t] .. FreeListNum - 1 \subseteq SweptSpaces
      BY <1>1, <3>1, SweptFacts
    <3>3. \A i \in SweptSpaces : SpaceAt(t, i) \in SweptSpaces
      BY <1>1, <3>1, Rounds
    <3> QED BY <2>2, <3>1, <3>2, <3>3
  <2> QED BY <1>4, <2>1, <2>2 DEF Pending
<1>5. \A t \in Types : tpc[t] = "queued" => \A s \in SweptSpaces : Pending(t, s)
  BY DEF Pending
<1> QED BY <1>2, <1>3, <1>4, <1>5

\* The last part of a round: the task counts itself out of its space only.
LEMMA RoundEnds ==
    ASSUME TypeOK, PoolInv, NEW t \in Types, Active(t), NEW s
    PROVE  /\ (\E i \in tindex[t] + 1 .. FreeListNum - 1 : SpaceAt(t, i) = s) <=>
                  Pending(t, s) /\ s # TaskSpace(t)
<1>1. startSpaceType \in {OLD_SPACE, NON_MOVABLE}
  BY DEF TypeOK
<1>2. t \in SweptSpaces /\ tindex[t] \in SweptSpaces /\ tpc[t] # "queued"
  BY DEF PoolInv, Active, Sweeps
<1>3. /\ tindex[t] .. FreeListNum - 1 \subseteq SweptSpaces
      /\ tindex[t] .. FreeListNum - 1 = {tindex[t]} \cup (tindex[t] + 1 .. FreeListNum - 1)
      /\ tindex[t] \notin tindex[t] + 1 .. FreeListNum - 1
  BY <1>1, <1>2, SweptFacts DEF SweptSpaces
<1>4. \A i, j \in SweptSpaces : SpaceAt(t, i) = SpaceAt(t, j) => i = j
  BY <1>1, <1>2, Rounds
<1>5. TaskSpace(t) = SpaceAt(t, tindex[t])
  BY SpacesOfTasks
<1>6. Pending(t, s) <=> \E i \in tindex[t] .. FreeListNum - 1 : SpaceAt(t, i) = s
  BY <1>2 DEF Pending
<1> QED BY <1>2, <1>3, <1>4, <1>5, <1>6

LEMMA PendingSame ==
    ASSUME UNCHANGED <<tpc, tindex, startSpaceType>>
    PROVE  \A t, s : Pending(t, s)' <=> Pending(t, s)
  BY DEF Pending, Active, Sweeps, SpaceAt, SweptSpaces

\* A sweep once closed, or not begun: all its tasks are idle.
LEMMA ClosedIsIdle ==
    ASSUME TypeOK, PoolInv, MainInv, ListInv, isSweeping = FALSE
    PROVE  /\ \A t \in Types : tpc[t] = "idle"
           /\ \A s \in Types : sweepingList[s] = << >> /\ sweptList[s] = {}
           /\ \A t \in Types : \A s : ~Pending(t, s)
           /\ \A s : ~Helps(s)
           /\ mregion = NoRegion
           /\ \A r \in Regions : ~Unfreed(r) /\ ~Handed(r)
<1>1. \A t \in Types : tpc[t] = "idle"
  BY DEF PoolInv
<1>2. \A s \in Types : sweepingList[s] = << >> /\ sweptList[s] = {}
  BY DEF ListInv
<1>3. \A t \in Types : \A s : ~Pending(t, s)
  BY <1>1 DEF Pending, Active, Sweeps
<1>4. mpc \notin Waits
  BY DEF MainInv
<1>5. (\A s : ~Helps(s)) /\ mregion = NoRegion
  BY <1>4 DEF Helps, MainInv, Waits
<1>6. ASSUME NEW r \in Regions PROVE ~Unfreed(r) /\ ~Handed(r)
  <2>1. SpaceOf[r] \in Types /\ r # NoRegion
    BY ConstAssumption
  <2>2. ~Listed(r)
    BY <1>2, <2>1 DEF Listed
  <2> QED BY <1>1, <1>2, <1>5, <2>1, <2>2 DEF Unfreed, Handed, At
<1> QED BY <1>1, <1>2, <1>3, <1>5, <1>6

LEMMA PendingSameAt ==
    ASSUME NEW t, tpc'[t] = tpc[t], tindex'[t] = tindex[t], startSpaceType' = startSpaceType
    PROVE  /\ \A s : Pending(t, s)' <=> Pending(t, s)
           /\ TaskSpace(t)' = TaskSpace(t)
  BY DEF Pending, Active, Sweeps, SpaceAt, SweptSpaces, TaskSpace

LEMMA PendingWhileActive ==
    ASSUME NEW t, Active(t), tpc'[t] \in Sweeps, tindex'[t] = tindex[t],
           startSpaceType' = startSpaceType
    PROVE  /\ \A s : Pending(t, s)' <=> Pending(t, s)
           /\ TaskSpace(t)' = TaskSpace(t)
  BY DEF Pending, Active, Sweeps, SpaceAt, SweptSpaces, TaskSpace

LEMMA ClearTaskIsNoSweeper == ClearTask \notin Types /\ ClearTask \in Tasks /\ Types \subseteq Tasks
  BY ConstAssumption DEF ClearTask, Types, Tasks, OLD_SPACE

\* The task a free worker pops, and where it begins.
LEMMA StartFacts ==
    ASSUME TypeOK, PoolInv, StartTask
    PROVE  /\ Head(queue) \in Tasks /\ tpc[Head(queue)] = "queued"
           /\ Head(queue) \in Types => /\ tpc'[Head(queue)] = "take"
                                       /\ tindex'[Head(queue)] = startSpaceType
           /\ Head(queue) = ClearTask => /\ tpc'[ClearTask] = "wait"
                                         /\ tindex'[ClearTask] = startSpaceType
           /\ \A t \in Tasks \ {Head(queue)} : tpc'[t] = tpc[t] /\ tindex'[t] = tindex[t]
<1>1. /\ queue \in Seq(Tasks) /\ queue # << >>
      /\ tpc' = [tpc EXCEPT ![Head(queue)] = IF Head(queue) = ClearTask THEN "wait" ELSE "take"]
      /\ tindex' = [tindex EXCEPT ![Head(queue)] = startSpaceType]
  BY DEF StartTask, TypeOK
<1>2. DOMAIN tpc = Tasks /\ DOMAIN tindex = Tasks
  BY DEF TypeOK
<1>3. 1 \in DOMAIN queue /\ queue[1] = Head(queue) /\ Head(queue) \in Tasks
  BY <1>1
<1>4. tpc[Head(queue)] = "queued"
  BY <1>3 DEF PoolInv
<1> QED BY <1>1, <1>2, <1>3, <1>4, ClearTaskIsNoSweeper

\* In this step task t counts itself out of space s.
Leaves(t, s) == tpc[t] = "count" /\ tpc'[t] # "count" /\ s = TaskSpace(t)

\* Once a sweep has begun a task only leaves spaces behind, each by counting
\* itself out.
LEMMA PendingStep ==
    ASSUME TypeOK, PoolInv, MainInv, ListInv, [Next]_vars, ~SweepConcurrently
    PROVE  \A t \in Types : \A s : Pending(t, s)' <=> Pending(t, s) /\ ~Leaves(t, s)
<1> USE ClearTaskIsNoSweeper
<1> DEFINE Goal(t) == \A s : Pending(t, s)' <=> Pending(t, s) /\ ~Leaves(t, s)
<1>0. startSpaceType \in {OLD_SPACE, NON_MOVABLE} /\ DOMAIN tpc = Tasks /\ DOMAIN tindex = Tasks
  BY DEF TypeOK
<1>1. ASSUME NEW t \in Types, tpc'[t] = tpc[t], tindex'[t] = tindex[t],
             startSpaceType' = startSpaceType
      PROVE  Goal(t)
  BY <1>1, PendingSameAt DEF Leaves
<1>2. ASSUME NEW u \in Types, UNCHANGED startSpaceType,
             \A t \in Types \ {u} : tpc'[t] = tpc[t] /\ tindex'[t] = tindex[t],
             Goal(u)
      PROVE  \A t \in Types : Goal(t)
  BY <1>1, <1>2
<1>3. CASE StartTask
  <2> PICK u : u = Head(queue) OBVIOUS
  <2>1. startSpaceType' = startSpaceType
    BY <1>3 DEF StartTask, sweeperVars
  <2>2. CASE u \in Types
    <3>1. /\ tpc[u] = "queued" /\ tpc'[u] = "take" /\ tindex'[u] = startSpaceType
          /\ \A t \in Types \ {u} : tpc'[t] = tpc[t] /\ tindex'[t] = tindex[t]
      BY <1>3, <2>2, StartFacts
    <3>2. u \in SweptSpaces
      BY <2>2, <3>1 DEF PoolInv
    <3>3. ASSUME NEW s PROVE Pending(u, s)' <=> s \in SweptSpaces
      <4>1. Pending(u, s)' <=> \E i \in startSpaceType .. FreeListNum - 1 : SpaceAt(u, i) = s
        BY <2>1, <3>1 DEF Pending, Active, Sweeps, SpaceAt
      <4>2. startSpaceType .. FreeListNum - 1 = SweptSpaces
        BY DEF SweptSpaces
      <4>3. /\ \A i \in SweptSpaces : SpaceAt(u, i) \in SweptSpaces
            /\ \A x \in SweptSpaces : \E i \in SweptSpaces : SpaceAt(u, i) = x
        BY <1>0, <3>2, Rounds
      <4> QED BY ONLY <4>1, <4>2, <4>3
    <3>4. ASSUME NEW s PROVE Pending(u, s) <=> s \in SweptSpaces
      BY <3>1 DEF Pending, Active, Sweeps
    <3>5. Goal(u)
      BY <3>1, <3>3, <3>4 DEF Leaves
    <3> QED BY <1>2, <2>1, <2>2, <3>1, <3>5
  <2>3. CASE u \notin Types
    <3>1. \A t \in Types : tpc'[t] = tpc[t] /\ tindex'[t] = tindex[t]
      BY <1>3, <2>3, StartFacts
    <3> QED BY <1>1, <2>1, <3>1
  <2> QED BY <2>2, <2>3
<1>4. ASSUME NEW u \in Types, TakeRegion(u) \/ FreeRegion(u) \/ AddSweptRegion(u) \/ SetSwept(u)
      PROVE  \A t \in Types : Goal(t)
  <2>1. /\ tpc[u] \in Sweeps /\ tpc[u] # "count" /\ tpc'[u] \in Sweeps
        /\ \A t \in Types \ {u} : tpc'[t] = tpc[t]
        /\ UNCHANGED <<tindex, startSpaceType>>
    BY <1>0, <1>4 DEF TakeRegion, FreeRegion, AddSweptRegion, SetSwept, Sweeps, sweeperVars
  <2>2. Goal(u)
    BY <2>1, PendingWhileActive DEF Leaves, Active
  <2> QED BY <1>2, <2>1, <2>2
<1>5. ASSUME NEW u \in Types, CountDown(u)
      PROVE  \A t \in Types : Goal(t)
  <2>1. /\ tpc[u] = "count" /\ Active(u) /\ startSpaceType' = startSpaceType
        /\ tindex[u] \in SweptSpaces
        /\ \A t \in Types \ {u} : tpc'[t] = tpc[t] /\ tindex'[t] = tindex[t]
    BY <1>0, <1>5 DEF CountDown, Sweeps, Active, PoolInv
  <2>2. CASE tindex[u] + 1 < FreeListNum
    <3>1. tpc'[u] = "take" /\ tindex'[u] = tindex[u] + 1
      BY <1>0, <1>5, <2>2 DEF CountDown
    <3>2. \A s : Pending(u, s)' <=> \E i \in tindex[u] + 1 .. FreeListNum - 1 : SpaceAt(u, i) = s
      BY <2>1, <3>1 DEF Pending, Active, Sweeps, SpaceAt
    <3>3. \A s : Pending(u, s)' <=> Pending(u, s) /\ s # TaskSpace(u)
      BY <2>1, <3>2, RoundEnds
    <3>4. Goal(u)
      BY <2>1, <3>1, <3>3 DEF Leaves
    <3> QED BY <1>2, <2>1, <3>4
  <2>3. CASE ~(tindex[u] + 1 < FreeListNum)
    <3>1. tpc'[u] = "idle"
      BY <1>0, <1>5, <2>3 DEF CountDown
    <3>2. \A s : ~Pending(u, s)'
      BY <3>1 DEF Pending, Active, Sweeps
    <3>3. ~ \E i \in tindex[u] + 1 .. FreeListNum - 1 : TRUE
      BY <1>0, <2>1, <2>3, SweptFacts DEF SweptSpaces
    <3>4. \A s : ~(Pending(u, s) /\ s # TaskSpace(u))
      BY <2>1, <3>3, RoundEnds
    <3>5. Goal(u)
      BY <2>1, <3>1, <3>2, <3>4 DEF Leaves
    <3> QED BY <1>2, <2>1, <3>5
  <2> QED BY <2>2, <2>3
<1>6. CASE ClearTaskStep \/ Resume
  <2>1. /\ \A t \in Types : tpc'[t] = tpc[t] /\ tindex'[t] = tindex[t]
        /\ startSpaceType' = startSpaceType
    BY <1>0, <1>6 DEF ClearTaskStep, ClearTaskWaits, ClearMarkBits, Resume, sweeperVars
  <2> QED BY <1>1, <2>1
<1>7. CASE \E dead \in SUBSET Regions : MarkOldGC(dead) \/ MarkFullGC(dead)
  <2>1. mpc = "clearWait" /\ tpc' = tpc
    BY <1>7 DEF MarkOldGC, MarkFullGC, taskVars
  <2>2. \A t \in Types : tpc[t] = "idle"
    BY <2>1 DEF MainInv, PoolInv
  <2>3. \A t \in Types : \A s : ~Pending(t, s) /\ ~Pending(t, s)'
    BY <2>1, <2>2 DEF Pending, Active, Sweeps
  <2> QED BY <2>3
<1>8. ASSUME UNCHANGED <<tpc, tindex, startSpaceType>>
      PROVE  \A t \in Types : Goal(t)
  BY <1>1, <1>8
<1>9. CASE \E r \in Regions, slot \in StoredSlots : Store(r, slot)
  BY <1>8, <1>9 DEF Store, taskVars, sweeperVars
<1>10. CASE \E type \in Switches : EnableConcurrentSweep(type)
  BY <1>8, <1>10 DEF EnableConcurrentSweep, taskVars, sweeperVars
<1>11. CASE (\E s \in Types : Allocate(s)) \/ (\E fullGC \in Collections : StartGC(fullGC))
  BY <1>8, <1>11 DEF Allocate, StartGC, taskVars, sweeperVars
<1>12. CASE CheckRemaining \/ CountIn \/ MainTakesRegion \/ MainFreesRegion \/ CountOut
              \/ WaitTasks \/ FillSweptRegion \/ DrainSweptRegion
  BY <1>8, <1>12 DEF CheckRemaining, CountIn, MainTakesRegion, MainFreesRegion, CountOut,
       WaitTasks, FillSweptRegion, DrainSweptRegion, taskVars, mainFrame
<1>13. CASE EnsureAllTaskFinished \/ AllocateAfterSweepingCompleted \/ TryFillSweptRegion
              \/ SweepNow
  BY <1>8, <1>13 DEF EnsureAllTaskFinished, AllocateAfterSweepingCompleted,
       TryFillSweptRegion, SweepNow, taskVars, sweeperVars
<1>14. CASE vars' = vars
  BY <1>8, <1>14 DEF vars, taskVars, sweeperVars
<1> QED
  BY <1>3, <1>4, <1>5, <1>6, <1>7, <1>9, <1>10, <1>11, <1>12, <1>13, <1>14
     DEF Next, TaskStep, MainStep

-----------------------------------------------------------------------------
(* The lists of a space *)

\* pop_back takes one region off the list, and leaves the others there.
LEMMA Popped ==
    ASSUME TypeOK, ListInv, NEW s \in Types, sweepingList[s] # << >>,
           sweepingList' = [sweepingList EXCEPT ![s] = AllButLast(s)]
    PROVE  /\ sweepingList' \in [Types -> Seq(Regions)]
           /\ LastRegion(s) \in Regions /\ SpaceOf[LastRegion(s)] = s /\ Listed(LastRegion(s))
           /\ \A r \in Regions : Listed(r)' <=> Listed(r) /\ r # LastRegion(s)
           /\ \A c \in Types :
                 /\ c # s => sweepingList'[c] = sweepingList[c]
                 /\ \A i \in DOMAIN sweepingList'[c] :
                       i \in DOMAIN sweepingList[c] /\ sweepingList'[c][i] = sweepingList[c][i]
<1> PICK q : q = sweepingList[s] OBVIOUS
<1> PICK n : n = Len(q) OBVIOUS
<1> PICK p : p = SubSeq(q, 1, n - 1) OBVIOUS
<1>1. q \in Seq(Regions) /\ q # << >> /\ n \in Nat /\ DOMAIN q = 1 .. n /\ n # 0
  BY LenProperties, EmptySeq DEF TypeOK
<1>2. \A i \in 1 .. n : q[i] \in Regions
  BY <1>1, ElementOfSeq
<1>3. p \in Seq(Regions) /\ DOMAIN p = 1 .. n - 1 /\ \A i \in 1 .. n - 1 : p[i] = q[i]
  <2>1. \A i \in 1 .. n - 1 : q[i] \in Regions
    BY <1>1, <1>2
  <2>2. /\ p \in Seq(Regions) /\ Len(p) = (IF 1 <= n - 1 THEN (n - 1) - 1 + 1 ELSE 0)
        /\ \A i \in 1 .. (n - 1) - 1 + 1 : p[i] = q[1 + i - 1]
    BY <1>1, <2>1, SubSeqProperties
  <2>3. Len(p) = n - 1
    BY <1>1, <2>2
  <2>4. DOMAIN p = 1 .. n - 1
    BY <2>2, <2>3, LenProperties
  <2>5. \A i \in 1 .. n - 1 : i \in 1 .. (n - 1) - 1 + 1 /\ 1 + i - 1 = i
    BY <1>1
  <2> QED BY <2>2, <2>4, <2>5
<1>4. LastRegion(s) = q[n] /\ AllButLast(s) = p
  BY DEF LastRegion, AllButLast
<1>5. sweepingList \in [Types -> Seq(Regions)]
  BY DEF TypeOK
<1>6. /\ sweepingList' \in [Types -> Seq(Regions)] /\ sweepingList'[s] = p
      /\ \A c \in Types : c # s => sweepingList'[c] = sweepingList[c]
  BY <1>3, <1>4, <1>5
<1>7. /\ \A i \in DOMAIN q : SpaceOf[q[i]] = s
      /\ \A i, k \in DOMAIN q : q[i] = q[k] => i = k
  BY DEF ListInv
<1>8. n \in DOMAIN q /\ \A i \in DOMAIN q : i # n => i \in DOMAIN p
  BY <1>1, <1>3
<1>9. \A i \in DOMAIN p : i \in DOMAIN q /\ p[i] = q[i] /\ i # n
  BY <1>1, <1>3
<1>10. q[n] \in Regions /\ SpaceOf[q[n]] = s /\ Listed(q[n])
  BY <1>2, <1>1, <1>7, <1>8 DEF Listed
<1>11. ASSUME NEW r \in Regions PROVE Listed(r)' <=> Listed(r) /\ r # q[n]
  <2>1. SpaceOf[r] \in Types
    BY ConstAssumption
  <2>2. CASE SpaceOf[r] # s
    BY <1>6, <1>10, <2>1, <2>2 DEF Listed
  <2>3. CASE SpaceOf[r] = s
    <3>1. Listed(r) <=> \E i \in DOMAIN q : q[i] = r
      BY <2>3 DEF Listed
    <3>2. Listed(r)' <=> \E i \in DOMAIN p : p[i] = r
      BY <1>6, <2>3 DEF Listed
    <3> QED BY <3>1, <3>2, <1>7, <1>8, <1>9
  <2> QED BY <2>2, <2>3
<1>12. ASSUME NEW c \in Types, NEW i \in DOMAIN sweepingList'[c]
       PROVE  i \in DOMAIN sweepingList[c] /\ sweepingList'[c][i] = sweepingList[c][i]
  BY <1>6, <1>9
<1> QED BY <1>4, <1>6, <1>10, <1>11, <1>12

\* AddSweepingRegion and the sort put every region of the space on its list, once.
LEMMA SortedListFacts ==
    ASSUME NEW s \in Types, NEW q \in SortedLists(RegionsOf(s))
    PROVE  /\ q \in Seq(Regions)
           /\ \A i \in DOMAIN q : SpaceOf[q[i]] = s
           /\ \A i, k \in DOMAIN q : q[i] = q[k] => i = k
           /\ \A r \in Regions : SpaceOf[r] = s => \E i \in DOMAIN q : q[i] = r
<1> PICK R : R = RegionsOf(s) OBVIOUS
<1> PICK n : n = Cardinality(R) OBVIOUS
<1>1. R \subseteq Regions /\ IsFiniteSet(R) /\ n \in Nat
  BY ConstAssumption, FS_Subset, FS_CardinalityType DEF RegionsOf
<1>2. q \in [1 .. n -> R] /\ \A i, k \in DOMAIN q : q[i] = q[k] => i = k
  BY DEF SortedLists
<1>3. q \in Injection(1 .. n, R)
  BY <1>2 DEF Injection, IsInjective
<1>4. Cardinality(1 .. n) = n
  BY <1>1, FS_Interval
<1>5. q \in Surjection(1 .. n, R)
  BY <1>1, <1>3, <1>4, FS_Injection
<1>6. \A r \in R : \E i \in 1 .. n : q[i] = r
  BY <1>5 DEF Surjection
<1>7. q \in Seq(Regions)
  BY <1>1, <1>2
<1> QED BY <1>2, <1>6, <1>7 DEF RegionsOf

\* The lists and the tasks of a sweep that has just begun.
LEMMA SweepBegins ==
    ASSUME TypeOK, PoolInv, MainInv, ListInv, SweepConcurrently
    PROVE  /\ isSweeping = FALSE
           /\ sweepingList' \in [Types -> Seq(Regions)]
           /\ \A s \in Types \ SweptSpaces : sweepingList'[s] = << >>
           /\ \A s \in SweptSpaces :
                 /\ \A i \in DOMAIN sweepingList'[s] : SpaceOf[sweepingList'[s][i]] = s
                 /\ \A i, k \in DOMAIN sweepingList'[s] :
                       sweepingList'[s][i] = sweepingList'[s][k] => i = k
           /\ \A r \in Regions : Listed(r)' <=> SpaceOf[r] \in SweptSpaces
           /\ \A t \in Types : tpc'[t] = IF t \in SweptSpaces THEN "queued" ELSE "idle"
           /\ tpc'[ClearTask] = "idle" /\ tpc[ClearTask] = "idle"
           /\ \A t \in Types : \A s : Pending(t, s)' <=> t \in SweptSpaces /\ s \in SweptSpaces
           /\ queue' \in [1 .. FreeListNum - startSpaceType -> Tasks]
           /\ \A i \in DOMAIN queue' : queue'[i] = startSpaceType + i - 1
<1> USE ClearTaskIsNoSweeper
<1>0. startSpaceType \in {OLD_SPACE, NON_MOVABLE} /\ mpc = "sweep"
  BY DEF TypeOK, SweepConcurrently
<1>1. isSweeping = FALSE
  BY <1>0 DEF MainInv, TypeOK
<1>2. SweptSpaces \subseteq Types
  BY <1>0, SweptFacts
<1>3. \A s \in Types : sweepingList[s] = << >>
  BY <1>1, ClosedIsIdle
<1> PICK lists \in [SweptSpaces -> UNION {SortedLists(RegionsOf(s)) : s \in SweptSpaces}] :
        /\ \A s \in SweptSpaces : lists[s] \in SortedLists(RegionsOf(s))
        /\ sweepingList' = [s \in Types |->
               IF s \in SweptSpaces THEN sweepingList[s] \o lists[s] ELSE sweepingList[s]]
  BY DEF SweepConcurrently
<1>4. ASSUME NEW s \in SweptSpaces
      PROVE  /\ sweepingList'[s] = lists[s] /\ lists[s] \in Seq(Regions)
             /\ \A i \in DOMAIN lists[s] : SpaceOf[lists[s][i]] = s
             /\ \A i, k \in DOMAIN lists[s] : lists[s][i] = lists[s][k] => i = k
             /\ \A r \in Regions : SpaceOf[r] = s => \E i \in DOMAIN lists[s] : lists[s][i] = r
  <2>1. s \in Types
    BY <1>2
  <2>2. /\ lists[s] \in Seq(Regions)
        /\ \A i \in DOMAIN lists[s] : SpaceOf[lists[s][i]] = s
        /\ \A i, k \in DOMAIN lists[s] : lists[s][i] = lists[s][k] => i = k
        /\ \A r \in Regions : SpaceOf[r] = s => \E i \in DOMAIN lists[s] : lists[s][i] = r
    BY <2>1, SortedListFacts
  <2>3. sweepingList'[s] = << >> \o lists[s]
    BY <1>3, <2>1
  <2>4. << >> \o lists[s] = lists[s]
    BY <2>2, ConcatEmptySeq
  <2> QED BY <2>2, <2>3, <2>4
<1>5. \A s \in Types \ SweptSpaces : sweepingList'[s] = << >>
  BY <1>3
<1>6. sweepingList' \in [Types -> Seq(Regions)]
  <2>1. ASSUME NEW s \in Types PROVE sweepingList'[s] \in Seq(Regions)
    <3>1. CASE s \in SweptSpaces
      BY <1>4, <3>1
    <3>2. CASE s \notin SweptSpaces
      <4>1. sweepingList'[s] = << >> /\ << >> \in Seq(Regions)
        BY <1>5, <3>2
      <4> QED BY <4>1
    <3> QED BY <3>1, <3>2
  <2>2. sweepingList' = [s \in Types |-> sweepingList'[s]]
    OBVIOUS
  <2> QED BY <2>1, <2>2
<1>7. ASSUME NEW r \in Regions PROVE Listed(r)' <=> SpaceOf[r] \in SweptSpaces
  <2>1. SpaceOf[r] \in Types
    BY ConstAssumption
  <2>2. Listed(r)' <=> \E i \in DOMAIN sweepingList'[SpaceOf[r]] : sweepingList'[SpaceOf[r]][i] = r
    BY DEF Listed
  <2>3. CASE SpaceOf[r] \in SweptSpaces
    <3> PICK s \in SweptSpaces : s = SpaceOf[r]
      BY <2>3
    <3>1. sweepingList'[s] = lists[s] /\ \E i \in DOMAIN lists[s] : lists[s][i] = r
      BY <1>4, ZenonT(40)
    <3> QED BY <2>2, <2>3, <3>1
  <2>4. CASE SpaceOf[r] \notin SweptSpaces
    <3>1. sweepingList'[SpaceOf[r]] = << >>
      BY <1>5, <2>1, <2>4
    <3> QED BY <2>2, <2>4, <3>1
  <2> QED BY <2>3, <2>4
<1>8. /\ tpc' = [t \in Tasks |-> IF t \in SweptSpaces THEN "queued" ELSE tpc[t]]
      /\ startSpaceType' = startSpaceType
  BY DEF SweepConcurrently
<1>9. (\A t \in Types : tpc[t] = "idle") /\ tpc[ClearTask] = "idle"
  BY <1>0, <1>1, ClosedIsIdle DEF MainInv, PoolInv
<1>10. /\ \A t \in Types : tpc'[t] = IF t \in SweptSpaces THEN "queued" ELSE "idle"
       /\ tpc'[ClearTask] = "idle"
  BY <1>2, <1>8, <1>9
<1>11. \A t \in Types : \A s : Pending(t, s)' <=> t \in SweptSpaces /\ s \in SweptSpaces
  BY <1>8, <1>10 DEF Pending, Active, Sweeps, SweptSpaces
<1>12. queue = << >>
  <2>1. queue \in Seq(Tasks) /\ \A t \in Tasks : tpc[t] # "queued"
    BY <1>9 DEF Tasks, TypeOK
  <2>2. \A i \in DOMAIN queue : queue[i] \in Tasks
    BY <2>1
  <2>3. \A t \in Tasks : ~ \E i \in DOMAIN queue : queue[i] = t
    BY <2>1 DEF PoolInv
  <2>4. \A i \in DOMAIN queue : FALSE
    BY <2>2, <2>3
  <2>5. Len(queue) = 0
    <3>1. Len(queue) \in Nat /\ DOMAIN queue = 1 .. Len(queue)
      BY <2>1, LenProperties
    <3>2. 1 \notin 1 .. Len(queue)
      BY <2>4, <3>1
    <3> QED BY <3>1, <3>2
  <2> QED BY <2>1, <2>5, EmptySeq
<1>13. /\ queue' \in [1 .. FreeListNum - startSpaceType -> Tasks]
       /\ \A i \in DOMAIN queue' : queue'[i] = startSpaceType + i - 1
  <2> PICK f : f = [i \in 1 .. FreeListNum - startSpaceType |-> startSpaceType + i - 1] OBVIOUS
  <2>1. queue' = << >> \o f
    BY <1>12 DEF SweepConcurrently
  <2>2. FreeListNum - startSpaceType \in Nat /\ startSpaceType \in Nat /\ FreeListNum \in Nat
    BY <1>0, SweptFacts
  <2>3. \A i \in 1 .. FreeListNum - startSpaceType : startSpaceType + i - 1 \in SweptSpaces
    BY <2>2 DEF SweptSpaces
  <2>4. f \in [1 .. FreeListNum - startSpaceType -> Tasks]
    BY <1>2, <2>3
  <2>5. f \in Seq(Tasks)
    BY <2>2, <2>4
  <2>6. queue' = f
    BY <2>1, <2>5, ConcatEmptySeq
  <2> QED BY <2>4, <2>6
<1>14. \A s \in SweptSpaces :
          /\ \A i \in DOMAIN sweepingList'[s] : SpaceOf[sweepingList'[s][i]] = s
          /\ \A i, k \in DOMAIN sweepingList'[s] :
                sweepingList'[s][i] = sweepingList'[s][k] => i = k
  <2> TAKE s \in SweptSpaces
  <2>1. /\ sweepingList'[s] = lists[s]
        /\ \A i \in DOMAIN lists[s] : SpaceOf[lists[s][i]] = s
        /\ \A i, k \in DOMAIN lists[s] : lists[s][i] = lists[s][k] => i = k
    BY <1>4
  <2> QED BY <2>1, ZenonT(40)
<1> QED BY ONLY <1>1, <1>5, <1>6, <1>7, <1>9, <1>10, <1>11, <1>13, <1>14, Zenon

-----------------------------------------------------------------------------
(* Where the JS thread is *)

LEMMA FiniteTypes ==
    /\ IsFiniteSet(Types) /\ Cardinality(Types) = FreeListNum
    /\ \A S \in SUBSET Types : /\ IsFiniteSet(S) /\ Cardinality(S) \in Nat
                               /\ Cardinality(S) <= FreeListNum
                               /\ Cardinality(S) = 0 <=> S = {}
<1>1. FreeListNum \in Nat /\ FreeListNum # 0 /\ Types = 0 .. FreeListNum - 1
  BY ConstAssumption DEF Types, OLD_SPACE
<1>2. IsFiniteSet(Types) /\ Cardinality(Types) = FreeListNum
  BY <1>1, FS_Interval
<1>3. \A S \in SUBSET Types : IsFiniteSet(S) /\ Cardinality(S) <= FreeListNum
  BY <1>2, FS_Subset
<1> QED BY <1>2, <1>3, FS_CardinalityType, FS_EmptySet

\* What the count of a space says of its sweepers.
LEMMA CountFacts ==
    ASSUME TypeOK, CountInv, NEW s \in Types
    PROVE  /\ remainingTaskNum[s] \in Nat
           /\ remainingTaskNum[s] <= FreeListNum + 1
           /\ ~Helps(s) => remainingTaskNum[s] <= FreeListNum
           /\ remainingTaskNum[s] <= 0 <=> ~Helps(s) /\ \A t \in Types : ~Pending(t, s)
<1> PICK S : S = {t \in Types : Pending(t, s)} OBVIOUS
<1>1. /\ IsFiniteSet(S) /\ Cardinality(S) \in Nat /\ Cardinality(S) <= FreeListNum
      /\ Cardinality(S) = 0 <=> S = {}
  BY FiniteTypes
<1>2. remainingTaskNum[s] = Cardinality(S) + (IF Helps(s) THEN 1 ELSE 0)
  BY DEF CountInv
<1>3. FreeListNum \in Nat
  BY ConstAssumption
<1> PICK c : c = Cardinality(S) OBVIOUS
<1>4. /\ c \in Nat /\ c <= FreeListNum
      /\ c = 0 <=> S = {}
      /\ remainingTaskNum[s] = IF Helps(s) THEN c + 1 ELSE c
  BY <1>1, <1>2
<1>5. /\ remainingTaskNum[s] \in Nat /\ remainingTaskNum[s] <= FreeListNum + 1
      /\ ~Helps(s) => remainingTaskNum[s] <= FreeListNum
      /\ remainingTaskNum[s] <= 0 <=> ~Helps(s) /\ S = {}
  BY ONLY <1>3, <1>4
<1> QED BY <1>5

LEMMA MainInvStep ==
    ASSUME TypeOK, PoolInv, MainInv, CountInv, ListInv, [Next]_vars
    PROVE  MainInv'
<1>0. /\ startSpaceType \in {OLD_SPACE, NON_MOVABLE} /\ mtype \in Types
      /\ SweptSpaces \subseteq Types /\ startSpaceType \in SweptSpaces
      /\ \A s \in Types : s + 1 < FreeListNum /\ s \in SweptSpaces => s + 1 \in SweptSpaces
      /\ FreeListNum \in Nat /\ sweeps \in Nat /\ MaxSweeps \in Nat
      /\ NoRegion \notin Regions
  <2>1. startSpaceType \in {OLD_SPACE, NON_MOVABLE} /\ mtype \in Types /\ sweeps \in 0 .. MaxSweeps
    BY DEF TypeOK
  <2>2. SweptSpaces \subseteq Types /\ startSpaceType \in SweptSpaces
    BY <2>1, SweptFacts
  <2>3. \A s \in Types : s + 1 < FreeListNum /\ s \in SweptSpaces => s + 1 \in SweptSpaces
    BY <2>1, ConstAssumption DEF SweptSpaces, Types, OLD_SPACE, NON_MOVABLE
  <2> QED BY <2>1, <2>2, <2>3, ConstAssumption
<1>1. startSpaceType' = startSpaceType => SweptSpaces' = SweptSpaces
  BY DEF SweptSpaces
<1> USE DEF MainInv, Waits, Finishes
<1>2. CASE StartTask \/ (\E t \in Types : TaskStep(t)) \/ ClearTaskWaits
  <2>1. UNCHANGED <<mpc, caller, mtype, mregion, isSweeping, startSpaceType, enableType,
                    clearTaskFinished, sweeps>>
    BY <1>2 DEF StartTask, TaskStep, TakeRegion, FreeRegion, AddSweptRegion, SetSwept, CountDown,
         ClearTaskWaits, mainVars, sweeperVars, gcVars
  <2> QED BY <1>1, <2>1
<1>3. CASE ClearMarkBits
  BY <1>1, <1>3 DEF ClearMarkBits, mainVars, sweeperVars, gcVars
<1>4. CASE \E r \in Regions, slot \in StoredSlots : Store(r, slot)
  BY <1>1, <1>4 DEF Store, mainVars, sweeperVars, gcVars
<1>5. CASE \E type \in Switches : EnableConcurrentSweep(type)
  <2>1. PICK type \in Switches : EnableConcurrentSweep(type)
    BY <1>5
  <2>2. type \in {"ENABLE", "DISABLE"}
    BY ConstAssumption
  <2> QED BY <1>1, <2>1, <2>2 DEF EnableConcurrentSweep, mainVars, gcVars
<1>6. CASE \E s \in Types : Allocate(s)
  <2>1. mpc = "run" /\ UNCHANGED <<isSweeping, startSpaceType, enableType, clearTaskFinished, sweeps>>
    BY <1>6 DEF Allocate, sweeperVars, gcVars
  <2>2. CASE UNCHANGED mainVars
    BY <1>1, <2>1, <2>2 DEF mainVars
  <2>3. CASE mpc' = "fill" /\ caller' = "alloc" /\ mregion' = mregion
    BY <1>1, <2>1, <2>3
  <2> QED BY <1>6, <2>2, <2>3 DEF Allocate
<1>7. CASE \E fullGC \in Collections : StartGC(fullGC)
  <2>1. /\ mpc = "run" /\ sweeps < MaxSweeps /\ mregion' = mregion
        /\ UNCHANGED <<isSweeping, startSpaceType, enableType, clearTaskFinished, sweeps>>
    BY <1>7 DEF StartGC, sweeperVars, gcVars
  <2>2. CASE isSweeping /\ mpc' = "check" /\ caller' = "all" /\ mtype' = startSpaceType
    BY <1>0, <1>1, <2>1, <2>2
  <2>3. CASE ~isSweeping /\ mpc' = "clearWait" /\ UNCHANGED <<caller, mtype>>
    BY <1>1, <2>1, <2>3
  <2> QED BY <1>7, <2>2, <2>3 DEF StartGC
<1>8. CASE CheckRemaining
  <2>1. mpc = "check" /\ ~Helps(mtype)
    BY <1>8 DEF CheckRemaining, Helps
  <2>2. remainingTaskNum[mtype] > 0 => \E t \in Types : Pending(t, mtype)
    BY <1>0, <2>1, CountFacts
  <2>3. remainingTaskNum[mtype] > 0 => mtype \in SweptSpaces
    BY <2>2, SpacesOfTasks
  <2> QED BY <1>1, <1>8, <2>3 DEF CheckRemaining, mainFrame, gcVars
<1>9. CASE CountIn \/ CountOut \/ WaitTasks
  BY <1>1, <1>9 DEF CountIn, CountOut, WaitTasks, mainFrame, gcVars
<1>10. CASE MainTakesRegion
  <2>1. sweepingList[mtype] # << >> => LastRegion(mtype) \in Regions /\ SpaceOf[LastRegion(mtype)] = mtype
    <3>1. ASSUME sweepingList[mtype] # << >>
          PROVE  LastRegion(mtype) \in Regions /\ SpaceOf[LastRegion(mtype)] = mtype
      <4>1. sweepingList' = [sweepingList EXCEPT ![mtype] = AllButLast(mtype)]
        BY <1>10, <3>1 DEF MainTakesRegion
      <4> QED BY <1>0, <3>1, <4>1, Popped
    <3> QED BY <3>1
  <2> QED BY <1>1, <1>10, <2>1 DEF MainTakesRegion, mainFrame, gcVars
<1>11. CASE MainFreesRegion
  BY <1>1, <1>11 DEF MainFreesRegion, mainFrame, gcVars
<1>12. CASE FillSweptRegion \/ DrainSweptRegion
  <2>1. /\ mpc \in {"fill", "drain"} /\ mpc' \in {"drain", "filled"}
        /\ UNCHANGED <<caller, mtype, mregion>>
        /\ UNCHANGED <<isSweeping, startSpaceType, enableType, clearTaskFinished, sweeps>>
    BY <1>12 DEF FillSweptRegion, DrainSweptRegion, mainFrame, gcVars
  <2> QED BY <1>1, <2>1
<1>13. CASE EnsureAllTaskFinished
  BY <1>0, <1>1, <1>13 DEF EnsureAllTaskFinished, gcVars
<1>14. CASE AllocateAfterSweepingCompleted
  BY <1>1, <1>14 DEF AllocateAfterSweepingCompleted, Return, sweeperVars, gcVars
<1>15. CASE TryFillSweptRegion
  BY <1>1, <1>15 DEF TryFillSweptRegion, Return, sweeperVars, gcVars
<1>16. CASE \E dead \in SUBSET Regions : MarkOldGC(dead) \/ MarkFullGC(dead)
  <2>1. /\ mpc = "clearWait" /\ mpc' = "sweep" /\ clearTaskFinished
        /\ UNCHANGED <<caller, mtype, mregion>>
        /\ UNCHANGED <<isSweeping, enableType, clearTaskFinished, sweeps>>
    BY <1>16 DEF MarkOldGC, MarkFullGC, gcVars
  <2> QED BY <2>1
<1>17. CASE SweepConcurrently
  BY <1>1, <1>17 DEF SweepConcurrently, sweeperVars
<1>18. CASE SweepNow
  BY <1>1, <1>18 DEF SweepNow, sweeperVars
<1>19. CASE Resume
  BY <1>1, <1>19 DEF Resume, sweeperVars, gcVars
<1>20. CASE vars' = vars
  <2>1. UNCHANGED <<mpc, caller, mtype, mregion, isSweeping, startSpaceType, enableType,
                    clearTaskFinished, sweeps>>
    BY <1>20 DEF vars, mainVars, sweeperVars, gcVars
  <2> QED BY <1>1, <2>1
<1> QED
  BY <1>2, <1>3, <1>4, <1>5, <1>6, <1>7, <1>8, <1>9, <1>10, <1>11, <1>12, <1>13, <1>14,
     <1>15, <1>16, <1>17, <1>18, <1>19, <1>20
     DEF Next, MainStep, ClearTaskStep

-----------------------------------------------------------------------------
(* What a step leaves alone *)

\* A task moves by being started, or by a step of its own.
LEMMA TaskMoves ==
    ASSUME TypeOK, PoolInv, [Next]_vars, ~SweepConcurrently
    PROVE  \A t \in Types :
               \/ tpc'[t] = tpc[t] /\ tindex'[t] = tindex[t] /\ tregion'[t] = tregion[t]
               \/ tpc[t] = "queued" /\ tpc'[t] = "take" /\ StartTask
               \/ TaskStep(t)
<1> USE ClearTaskIsNoSweeper
<1> DEFINE Goal(t) == \/ tpc'[t] = tpc[t] /\ tindex'[t] = tindex[t] /\ tregion'[t] = tregion[t]
                      \/ tpc[t] = "queued" /\ tpc'[t] = "take" /\ StartTask
                      \/ TaskStep(t)
<1>0. DOMAIN tpc = Tasks /\ DOMAIN tindex = Tasks /\ DOMAIN tregion = Tasks
  BY DEF TypeOK
<1>1. CASE StartTask
  <2>1. tregion' = tregion
    BY <1>1 DEF StartTask
  <2> QED BY <1>1, <2>1, StartFacts
<1>2. ASSUME NEW u \in Types, TaskStep(u) PROVE \A t \in Types : Goal(t)
  <2>1. \A t \in Types \ {u} : tpc'[t] = tpc[t] /\ tindex'[t] = tindex[t] /\ tregion'[t] = tregion[t]
    BY <1>0, <1>2
       DEF TaskStep, TakeRegion, FreeRegion, AddSweptRegion, SetSwept, CountDown
  <2> QED BY <1>2, <2>1
<1>3. CASE ClearTaskStep \/ Resume
  BY <1>0, <1>3 DEF ClearTaskStep, ClearTaskWaits, ClearMarkBits, Resume
<1>4. ASSUME UNCHANGED <<tpc, tindex, tregion>> PROVE \A t \in Types : Goal(t)
  BY <1>4
<1>5. CASE \E r \in Regions, slot \in StoredSlots : Store(r, slot)
  BY <1>4, <1>5 DEF Store, taskVars
<1>6. CASE \E type \in Switches : EnableConcurrentSweep(type)
  BY <1>4, <1>6 DEF EnableConcurrentSweep, taskVars
<1>7. CASE (\E s \in Types : Allocate(s)) \/ (\E fullGC \in Collections : StartGC(fullGC))
  BY <1>4, <1>7 DEF Allocate, StartGC, taskVars
<1>8. CASE CheckRemaining \/ CountIn \/ MainTakesRegion \/ MainFreesRegion \/ CountOut
             \/ WaitTasks \/ FillSweptRegion \/ DrainSweptRegion
  BY <1>4, <1>8 DEF CheckRemaining, CountIn, MainTakesRegion, MainFreesRegion, CountOut,
     WaitTasks, FillSweptRegion, DrainSweptRegion, taskVars
<1>9. CASE EnsureAllTaskFinished \/ AllocateAfterSweepingCompleted \/ TryFillSweptRegion
             \/ SweepNow \/ (\E dead \in SUBSET Regions : MarkOldGC(dead) \/ MarkFullGC(dead))
  BY <1>4, <1>9 DEF EnsureAllTaskFinished, AllocateAfterSweepingCompleted,
     TryFillSweptRegion, SweepNow, MarkOldGC, MarkFullGC, taskVars
<1>10. CASE vars' = vars
  BY <1>4, <1>10 DEF vars, taskVars
<1> QED
  BY <1>1, <1>2, <1>3, <1>5, <1>6, <1>7, <1>8, <1>9, <1>10 DEF Next, MainStep

\* Only a marking, which begins when no sweep is open and the AsyncClearTask is
\* done, chooses other spaces.
LEMMA SpacesChange ==
    ASSUME [Next]_vars, startSpaceType' # startSpaceType
    PROVE  mpc = "clearWait" /\ clearTaskFinished
<1>1. CASE StartTask \/ (\E t \in Types : TaskStep(t)) \/ ClearTaskStep
  BY <1>1 DEF StartTask, TaskStep, TakeRegion, FreeRegion, AddSweptRegion, SetSwept, CountDown,
       ClearTaskStep, ClearTaskWaits, ClearMarkBits, sweeperVars
<1>2. CASE \/ \E r \in Regions, slot \in StoredSlots : Store(r, slot)
           \/ \E type \in Switches : EnableConcurrentSweep(type)
           \/ \E s \in Types : Allocate(s)
           \/ \E fullGC \in Collections : StartGC(fullGC)
  BY <1>2 DEF Store, EnableConcurrentSweep, Allocate, StartGC, sweeperVars
<1>3. CASE MainStep
  BY <1>3 DEF MainStep, CheckRemaining, CountIn, MainTakesRegion, MainFreesRegion, CountOut,
     WaitTasks, FillSweptRegion, DrainSweptRegion, mainFrame, EnsureAllTaskFinished,
     AllocateAfterSweepingCompleted, TryFillSweptRegion, MarkOldGC, MarkFullGC,
     SweepConcurrently, SweepNow, Resume, sweeperVars
<1> QED BY <1>1, <1>2, <1>3 DEF Next, vars, sweeperVars

LEMMA SpacesStay ==
    ASSUME TypeOK, MainInv, [Next]_vars, isSweeping = TRUE
    PROVE  startSpaceType' = startSpaceType /\ SweptSpaces' = SweptSpaces /\ ~SweepConcurrently
<1>1. mpc \notin {"clearWait", "sweep"}
  BY DEF MainInv
<1>2. startSpaceType' = startSpaceType
  BY <1>1, SpacesChange
<1> QED BY <1>1, <1>2 DEF SweptSpaces, SweepConcurrently

\* The lists shrink while a sweep goes on; sweptList_ takes what a task held.
LEMMA ListsShrink ==
    ASSUME TypeOK, ListInv, [Next]_vars, ~SweepConcurrently
    PROVE  /\ sweepingList' \in [Types -> Seq(Regions)]
           /\ \A s \in Types :
                 /\ sweepingList[s] = << >> => sweepingList'[s] = << >>
                 /\ \A i \in DOMAIN sweepingList'[s] :
                       i \in DOMAIN sweepingList[s] /\ sweepingList'[s][i] = sweepingList[s][i]
           /\ \A s \in Types : \A r \in sweptList'[s] \ sweptList[s] :
                 \E t \in Types : tpc[t] = "add" /\ tregion[t] = r /\ SpaceOf[r] = s
<1> DEFINE Shrinks == /\ sweepingList' \in [Types -> Seq(Regions)]
                      /\ \A s \in Types :
                            /\ sweepingList[s] = << >> => sweepingList'[s] = << >>
                            /\ \A i \in DOMAIN sweepingList'[s] :
                                  /\ i \in DOMAIN sweepingList[s]
                                  /\ sweepingList'[s][i] = sweepingList[s][i]
           Grows == \A s \in Types : \A r \in sweptList'[s] \ sweptList[s] :
                        \E t \in Types : tpc[t] = "add" /\ tregion[t] = r /\ SpaceOf[r] = s
<1>0. /\ sweepingList \in [Types -> Seq(Regions)] /\ sweptList \in [Types -> SUBSET Regions]
      /\ mtype \in Types
  BY DEF TypeOK
<1>1. ASSUME sweepingList' = sweepingList PROVE Shrinks
  BY <1>0, <1>1
<1>2. ASSUME NEW s \in Types, sweepingList[s] # << >>,
             sweepingList' = [sweepingList EXCEPT ![s] = AllButLast(s)]
      PROVE  Shrinks
  BY <1>2, Popped
<1>3. ASSUME sweptList' = sweptList PROVE Grows
  BY <1>3
<1> HIDE DEF Shrinks, Grows
<1>4. ASSUME NEW t \in Types, TaskStep(t) PROVE Shrinks /\ Grows
  <2>1. CASE TakeRegion(t)
    <3>1. Grows
      BY <1>3, <2>1 DEF TakeRegion
    <3>2. CASE sweepingList' = sweepingList
      BY <1>1, <3>1, <3>2
    <3>3. CASE /\ sweepingList[TaskSpace(t)] # << >>
               /\ sweepingList' = [sweepingList EXCEPT ![TaskSpace(t)] = AllButLast(TaskSpace(t))]
      <4>1. TaskSpace(t) \in DOMAIN sweepingList \/ sweepingList' = sweepingList
        BY <1>0, <3>3
      <4> QED BY <1>0, <1>1, <1>2, <3>1, <3>3, <4>1
    <3> QED BY <2>1, <3>2, <3>3 DEF TakeRegion
  <2>2. CASE FreeRegion(t) \/ SetSwept(t) \/ CountDown(t)
    <3>1. UNCHANGED <<sweepingList, sweptList>>
      BY <2>2 DEF FreeRegion, SetSwept, CountDown, spaceVars
    <3> QED BY <1>1, <1>3, <3>1
  <2>3. CASE AddSweptRegion(t)
    <3>1. sweepingList' = sweepingList
      BY <2>3 DEF AddSweptRegion
    <3>2. Grows
      BY <1>0, <2>3 DEF AddSweptRegion, Grows
    <3> QED BY <1>1, <3>1, <3>2
  <2> QED BY <1>4, <2>1, <2>2, <2>3 DEF TaskStep
<1>5. CASE StartTask \/ ClearTaskStep
  <2>1. UNCHANGED <<sweepingList, sweptList>>
    BY <1>5 DEF StartTask, ClearTaskStep, ClearTaskWaits, ClearMarkBits, spaceVars
  <2> QED BY <1>1, <1>3, <2>1 DEF Shrinks, Grows
<1>6. CASE \/ \E r \in Regions, slot \in StoredSlots : Store(r, slot)
           \/ \E type \in Switches : EnableConcurrentSweep(type)
           \/ \E s \in Types : Allocate(s)
           \/ \E fullGC \in Collections : StartGC(fullGC)
  <2>1. UNCHANGED <<sweepingList, sweptList>>
    BY <1>6 DEF Store, EnableConcurrentSweep, Allocate, StartGC, spaceVars
  <2> QED BY <1>1, <1>3, <2>1 DEF Shrinks, Grows
<1>7. CASE MainTakesRegion
  <2>1. Grows
    BY <1>3, <1>7 DEF MainTakesRegion
  <2>2. Shrinks
    BY <1>0, <1>1, <1>2, <1>7 DEF MainTakesRegion
  <2> QED BY <2>1, <2>2 DEF Shrinks, Grows
<1>8. CASE DrainSweptRegion
  <2>1. sweepingList' = sweepingList
    BY <1>8 DEF DrainSweptRegion
  <2>2. \A s \in Types : sweptList'[s] \subseteq sweptList[s]
    BY <1>0, <1>8 DEF DrainSweptRegion
  <2> QED BY <1>1, <2>1, <2>2 DEF Shrinks, Grows
<1>9. CASE CheckRemaining \/ CountIn \/ MainFreesRegion \/ CountOut \/ WaitTasks
             \/ FillSweptRegion
  <2>1. UNCHANGED <<sweepingList, sweptList>>
    BY <1>9 DEF CheckRemaining, CountIn, MainFreesRegion, CountOut,
       WaitTasks, FillSweptRegion, spaceVars
  <2> QED BY <1>1, <1>3, <2>1 DEF Shrinks, Grows
<1>10. CASE EnsureAllTaskFinished \/ AllocateAfterSweepingCompleted \/ TryFillSweptRegion
             \/ SweepNow \/ Resume
             \/ (\E dead \in SUBSET Regions : MarkOldGC(dead) \/ MarkFullGC(dead))
  <2>1. UNCHANGED <<sweepingList, sweptList>>
    BY <1>10 DEF EnsureAllTaskFinished, AllocateAfterSweepingCompleted,
       TryFillSweptRegion, SweepNow, Resume, MarkOldGC, MarkFullGC, spaceVars
  <2> QED BY <1>1, <1>3, <2>1 DEF Shrinks, Grows
<1>11. CASE vars' = vars
  <2>1. UNCHANGED <<sweepingList, sweptList>>
    BY <1>11 DEF vars, spaceVars
  <2> QED BY <1>1, <1>3, <2>1 DEF Shrinks, Grows
<1> QED
  BY <1>4, <1>5, <1>6, <1>7, <1>8, <1>9, <1>10, <1>11 DEF Next, MainStep, Shrinks, Grows

\* Only the start of a sweep and its end in EnsureAllTaskFinished change the flag.
LEMMA FlagChanges ==
    ASSUME [Next]_vars, isSweeping' # isSweeping
    PROVE  SweepConcurrently \/ (EnsureAllTaskFinished /\ mtype + 1 = FreeListNum)
<1>1. CASE StartTask \/ (\E t \in Types : TaskStep(t)) \/ ClearTaskStep
  BY <1>1 DEF StartTask, TaskStep, TakeRegion, FreeRegion, AddSweptRegion, SetSwept, CountDown,
     ClearTaskStep, ClearTaskWaits, ClearMarkBits, sweeperVars
<1>2. CASE \/ \E r \in Regions, slot \in StoredSlots : Store(r, slot)
           \/ \E type \in Switches : EnableConcurrentSweep(type)
           \/ \E s \in Types : Allocate(s)
           \/ \E fullGC \in Collections : StartGC(fullGC)
  BY <1>2 DEF Store, EnableConcurrentSweep, Allocate, StartGC, sweeperVars
<1>3. CASE MainStep
  BY <1>3 DEF MainStep, CheckRemaining, CountIn, MainTakesRegion, MainFreesRegion, CountOut,
     WaitTasks, FillSweptRegion, DrainSweptRegion, mainFrame, EnsureAllTaskFinished,
     AllocateAfterSweepingCompleted, TryFillSweptRegion, MarkOldGC, MarkFullGC,
     SweepNow, Resume, sweeperVars
<1> QED BY <1>1, <1>2, <1>3 DEF Next, vars, sweeperVars

\* The steps of everybody else, and the program's stores, leave the JS thread's
\* place alone.
LEMMA MainStays ==
    ASSUME \/ StartTask \/ (\E t \in Types : TaskStep(t)) \/ ClearTaskStep
           \/ \E r \in Regions, slot \in StoredSlots : Store(r, slot)
           \/ \E type \in Switches : EnableConcurrentSweep(type)
           \/ vars' = vars
    PROVE  UNCHANGED <<mpc, caller, mtype, mregion, startSpaceType, isSweeping>>
<1>1. CASE StartTask \/ (\E t \in Types : TaskStep(t)) \/ ClearTaskStep
  BY <1>1 DEF StartTask, TaskStep, TakeRegion, FreeRegion, AddSweptRegion, SetSwept, CountDown,
     ClearTaskStep, ClearTaskWaits, ClearMarkBits, sweeperVars, mainVars
<1>2. CASE \/ \E r \in Regions, slot \in StoredSlots : Store(r, slot)
           \/ \E type \in Switches : EnableConcurrentSweep(type)
           \/ vars' = vars
  BY <1>2 DEF Store, EnableConcurrentSweep, sweeperVars, mainVars, vars
<1> QED BY <1>1, <1>2

\* A space that no sweeper has to count itself out of is over.
LEMMA NoneLeft ==
    ASSUME TypeOK, PoolInv, ListInv, NEW s \in Types, \A t \in Types : ~Pending(t, s)
    PROVE  Over(s)
<1>1. startSpaceType \in SweptSpaces /\ SweptSpaces \subseteq Types
  BY SweptFacts DEF TypeOK
<1>2. sweepingList[s] = << >>
  <2>1. ~Pending(startSpaceType, s)
    BY <1>1
  <2> QED BY <1>1, <2>1 DEF ListInv
<1> QED BY <1>2 DEF Over

\* A space that is over stays so until the next sweep.
LEMMA OverStays ==
    ASSUME TypeOK, PoolInv, MainInv, ListInv, [Next]_vars, ~SweepConcurrently,
           NEW s \in Types, Over(s)
    PROVE  /\ Over(s)'
           /\ sweptList[s] = {} => sweptList'[s] = {}
<1>1. sweepingList'[s] = << >>
  BY ListsShrink DEF Over
<1>2. \A t \in Types : ~Pending(t, s)'
  BY PendingStep DEF Over
<1>3. ASSUME NEW r \in sweptList'[s] \ sweptList[s] PROVE FALSE
  <2>1. PICK t \in Types : tpc[t] = "add" /\ tregion[t] = r /\ SpaceOf[r] = s
    BY ListsShrink
  <2>2. TaskSpace(t) = s /\ Active(t)
    BY <2>1 DEF PoolInv, Active, Sweeps
  <2> QED BY <2>2, SpacesOfTasks DEF Over
<1> QED BY <1>1, <1>2, <1>3 DEF Over

\* When EnsureAllTaskFinished closes the sweep, nothing of it is left.
LEMMA SweepCloses ==
    ASSUME TypeOK, PoolInv, MainInv, DoneInv, ListInv,
           EnsureAllTaskFinished, mtype + 1 = FreeListNum
    PROVE  /\ \A t \in Types : tpc[t] = "idle"
           /\ \A s \in Types : sweepingList[s] = << >> /\ sweptList[s] = {}
           /\ \A t \in Types : \A s : ~Pending(t, s)
           /\ mregion = NoRegion /\ mpc = "filled"
<1>1. mpc = "filled" /\ caller = "all" /\ mregion = NoRegion
  BY DEF EnsureAllTaskFinished, MainInv
<1>2. mtype = FreeListNum - 1 /\ startSpaceType \in Nat /\ FreeListNum \in Nat
  <2>1. mtype \in Int /\ FreeListNum \in Nat /\ startSpaceType \in Nat
    <3>1. mtype \in Types /\ startSpaceType \in {OLD_SPACE, NON_MOVABLE}
      BY DEF TypeOK
    <3> QED BY <3>1, ConstAssumption DEF Types, OLD_SPACE, NON_MOVABLE
  <2> QED BY <2>1
<1>3. \A s \in SweptSpaces : Over(s) /\ sweptList[s] = {}
  <2>1. SweptSpaces = (startSpaceType .. mtype - 1) \cup {mtype} \/ SweptSpaces = {}
    BY <1>2 DEF SweptSpaces
  <2>2. \A s \in startSpaceType .. mtype - 1 : Over(s) /\ sweptList[s] = {}
    BY <1>1 DEF DoneInv, Finishes
  <2>3. Over(mtype) /\ sweptList[mtype] = {}
    BY <1>1 DEF DoneInv
  <2> QED BY <2>1, <2>2, <2>3
<1>4. \A t \in Types : \A s : ~Pending(t, s)
  BY <1>3, SpacesOfTasks DEF Over
<1>5. ASSUME NEW t \in Types PROVE tpc[t] = "idle"
  <2>1. tpc[t] # "queued"
    BY <1>4, SpacesOfTasks DEF PoolInv
  <2>2. ~Active(t)
    BY <1>4, SpacesOfTasks
  <2> QED BY <2>1, <2>2 DEF PoolInv, Active
<1>6. ASSUME NEW s \in Types PROVE sweepingList[s] = << >> /\ sweptList[s] = {}
  <2>1. CASE s \in SweptSpaces
    BY <1>3, <2>1 DEF Over
  <2>2. CASE s \notin SweptSpaces
    BY <2>2 DEF ListInv
  <2> QED BY <2>1, <2>2
<1> QED BY <1>1, <1>4, <1>5, <1>6

-----------------------------------------------------------------------------
(* The lists *)

LEMMA ListInvStep ==
    ASSUME TypeOK, PoolInv, MainInv, DoneInv, CountInv, ListInv, [Next]_vars
    PROVE  ListInv'
<1>0. /\ startSpaceType \in {OLD_SPACE, NON_MOVABLE} /\ SweptSpaces \subseteq Types
      /\ mtype \in Types /\ isSweeping \in BOOLEAN
  BY SweptFacts DEF TypeOK
<1>1. CASE SweepConcurrently
  <2>1. /\ isSweeping = FALSE /\ mpc' = "resume" /\ sweptList' = sweptList
        /\ SweptSpaces' = SweptSpaces
    BY <1>1, SweepBegins DEF SweepConcurrently, SweptSpaces
  <2>2. \A s \in Types : sweptList[s] = {}
    BY <2>1, ClosedIsIdle
  <2>3. \A s \in Types :
          /\ \A i \in DOMAIN sweepingList'[s] : SpaceOf[sweepingList'[s][i]] = s
          /\ \A i, k \in DOMAIN sweepingList'[s] :
                sweepingList'[s][i] = sweepingList'[s][k] => i = k
    <3> TAKE s \in Types
    <3>1. CASE s \in SweptSpaces
      BY <1>1, <3>1, SweepBegins
    <3>2. CASE s \notin SweptSpaces
      <4>1. sweepingList'[s] = << >> /\ DOMAIN << >> = {}
        BY <1>1, <3>2, SweepBegins
      <4> QED BY <4>1
    <3> QED BY <3>1, <3>2
  <2>4. \A s \in Types \ SweptSpaces : sweepingList'[s] = << >>
    BY <1>1, SweepBegins
  <2>5. \A t, s \in SweptSpaces : Pending(t, s)' /\ tpc'[t] # "count"
    BY <1>0, <1>1, SweepBegins
  <2>6. isSweeping' = TRUE
    BY <1>1 DEF SweepConcurrently
  <2> QED BY <2>1, <2>2, <2>3, <2>4, <2>5, <2>6 DEF ListInv
<1>2. CASE ~SweepConcurrently
  <2>1. \A s \in Types :
          /\ \A i \in DOMAIN sweepingList'[s] : SpaceOf[sweepingList'[s][i]] = s
          /\ \A i, k \in DOMAIN sweepingList'[s] :
                sweepingList'[s][i] = sweepingList'[s][k] => i = k
    <3> TAKE s \in Types
    <3>1. \A i \in DOMAIN sweepingList'[s] :
             i \in DOMAIN sweepingList[s] /\ sweepingList'[s][i] = sweepingList[s][i]
      BY <1>2, ListsShrink
    <3>2. /\ \A i \in DOMAIN sweepingList[s] : SpaceOf[sweepingList[s][i]] = s
          /\ \A i, k \in DOMAIN sweepingList[s] : sweepingList[s][i] = sweepingList[s][k] => i = k
      BY DEF ListInv
    <3> QED BY <3>1, <3>2
  <2>2. \A s \in Types : \A r \in sweptList'[s] : SpaceOf[r] = s
    BY <1>2, ListsShrink DEF ListInv
  <2>3. CASE isSweeping = FALSE
    <3>1. /\ \A t \in Types : tpc[t] = "idle"
          /\ \A s \in Types : sweepingList[s] = << >> /\ sweptList[s] = {}
      BY <2>3, ClosedIsIdle
    <3>2. \A s \in Types : sweepingList'[s] = << >> /\ sweptList'[s] = {}
      BY <1>2, <3>1, ListsShrink
    <3>3. mpc' \notin {"count out", "wait"}
      <4>1. isSweeping' = FALSE
        BY <1>2, <2>3, FlagChanges DEF EnsureAllTaskFinished
      <4> QED BY <4>1, MainInvStep DEF MainInv, Waits
    <3> QED BY <2>1, <2>2, <3>2, <3>3 DEF ListInv
  <2>4. CASE isSweeping = TRUE
    <3>1. startSpaceType' = startSpaceType /\ SweptSpaces' = SweptSpaces
      BY <2>4, SpacesStay
    <3>2. ASSUME NEW s \in Types, ~isSweeping' \/ s \notin SweptSpaces
          PROVE  sweepingList'[s] = << >> /\ sweptList'[s] = {}
      <4>1. CASE s \notin SweptSpaces
        <5>1. sweptList[s] = {} /\ \A t \in Types : ~Pending(t, s)
          BY <4>1, SpacesOfTasks DEF ListInv
        <5> QED BY <1>2, <5>1, NoneLeft, OverStays DEF Over
      <4>2. CASE ~isSweeping'
        <5>1. EnsureAllTaskFinished /\ mtype + 1 = FreeListNum
          BY <1>2, <2>4, <4>2, FlagChanges
        <5>2. sweepingList[s] = << >> /\ sweptList[s] = {} /\ \A t \in Types : ~Pending(t, s)
          BY <5>1, SweepCloses
        <5> QED BY <1>2, <5>2, NoneLeft, OverStays DEF Over
      <4> QED BY <3>2, <4>1, <4>2
    <3>3. ASSUME NEW s \in Types, NEW t \in SweptSpaces,
                 ~Pending(t, s)' \/ (tpc'[t] = "count" /\ TaskSpace(t)' = s)
          PROVE  sweepingList'[s] = << >>
      <4>1. ~Pending(t, s) \/ (tpc[t] = "count" /\ TaskSpace(t) = s) => sweepingList'[s] = << >>
        BY <1>2, ListsShrink, ZenonT(40) DEF ListInv
      <4>2. CASE ~Pending(t, s)'
        <5>1. ~Pending(t, s) \/ Leaves(t, s)
          BY <1>0, <1>2, <4>2, PendingStep
        <5> QED BY <4>1, <5>1 DEF Leaves
      <4>3. CASE tpc'[t] = "count" /\ TaskSpace(t)' = s
        <5>1. t \in Types
          BY <1>0
        <5>2. CASE tpc'[t] = tpc[t] /\ tindex'[t] = tindex[t]
          <6>1. TaskSpace(t) = s /\ tpc[t] = "count"
            BY <3>1, <4>3, <5>2, PendingSameAt
          <6> QED BY <4>1, <6>1
        <5>3. CASE TakeRegion(t)
          <6>1. DOMAIN tpc = Tasks
            BY DEF TypeOK
          <6>2. /\ tindex'[t] = tindex[t] /\ sweepingList[TaskSpace(t)] = << >>
            BY <4>3, <5>1, <5>3, <6>1, ClearTaskIsNoSweeper DEF TakeRegion
          <6>3. TaskSpace(t) = s
            BY <3>1, <4>3, <6>2 DEF TaskSpace
          <6> QED BY <1>2, <6>2, <6>3, ListsShrink
        <5>4. CASE FreeRegion(t) \/ AddSweptRegion(t) \/ SetSwept(t) \/ CountDown(t)
          <6>1. DOMAIN tpc = Tasks
            BY DEF TypeOK
          <6> QED BY <4>3, <5>1, <5>4, <6>1, ClearTaskIsNoSweeper
                  DEF FreeRegion, AddSweptRegion, SetSwept, CountDown
        <5> QED BY <1>2, <4>3, <5>1, <5>2, <5>3, <5>4, TaskMoves DEF TaskStep
      <4> QED BY <3>3, <4>2, <4>3
    <3>4. ASSUME mpc' \in {"count out", "wait"} PROVE sweepingList'[mtype'] = << >>
      <4>1. mtype' = mtype /\ (mpc \in {"count out", "wait"} \/ (MainTakesRegion /\ sweepingList[mtype] = << >>))
        <5>1. CASE \/ StartTask \/ (\E t \in Types : TaskStep(t)) \/ ClearTaskStep
                   \/ \E r \in Regions, slot \in StoredSlots : Store(r, slot)
                   \/ \E type \in Switches : EnableConcurrentSweep(type)
                   \/ vars' = vars
          BY <3>4, <5>1, MainStays
        <5>2. CASE (\E s \in Types : Allocate(s)) \/ (\E fullGC \in Collections : StartGC(fullGC))
          BY <3>4, <5>2 DEF Allocate, StartGC, mainVars
        <5>3. CASE MainStep
          BY <3>4, <5>3 DEF MainStep, CheckRemaining, CountIn, MainTakesRegion, MainFreesRegion,
             CountOut, WaitTasks, FillSweptRegion, DrainSweptRegion, EnsureAllTaskFinished,
             AllocateAfterSweepingCompleted, TryFillSweptRegion, MarkOldGC, MarkFullGC,
             SweepConcurrently, SweepNow, Resume, Return
        <5> QED BY <5>1, <5>2, <5>3 DEF Next
      <4> QED BY <1>0, <1>2, <4>1, ListsShrink DEF ListInv
    <3> QED BY <2>1, <2>2, <3>1, <3>2, <3>3, <3>4 DEF ListInv
  <2> QED BY <1>0, <2>3, <2>4
<1> QED BY <1>1, <1>2

-----------------------------------------------------------------------------
(* remainingTaskNum_ *)

LEMMA CountInvStep ==
    ASSUME TypeOK, PoolInv, MainInv, DoneInv, CountInv, ListInv, [Next]_vars
    PROVE  CountInv'
<1> DEFINE Sweepers(s) == {t \in Types : Pending(t, s)}
<1>0. /\ startSpaceType \in {OLD_SPACE, NON_MOVABLE} /\ SweptSpaces \subseteq Types
      /\ mtype \in Types /\ remainingTaskNum \in [Types -> 0 .. FreeListNum + 1]
      /\ FreeListNum \in Nat
  BY SweptFacts DEF TypeOK
<1>1. \A s \in Types : remainingTaskNum[s] =
          Cardinality({t \in Types : Pending(t, s)}) + (IF Helps(s) THEN 1 ELSE 0)
  BY DEF CountInv
<1>2. CASE SweepConcurrently
  <2>1. /\ isSweeping = FALSE /\ mpc' = "resume" /\ mpc = "sweep"
        /\ remainingTaskNum' = [s \in Types |-> IF s \in SweptSpaces
                               THEN FreeListNum - startSpaceType ELSE remainingTaskNum[s]]
    BY <1>2, SweepBegins DEF SweepConcurrently
  <2>2. ASSUME NEW s \in Types
        PROVE  remainingTaskNum'[s] = Cardinality({t \in Types : Pending(t, s)'})
    <3>1. CASE s \in SweptSpaces
      <4>1. {t \in Types : Pending(t, s)'} = SweptSpaces
        BY <1>0, <1>2, <3>1, SweepBegins
      <4>2. Cardinality(startSpaceType .. FreeListNum - 1) = FreeListNum - startSpaceType
        <5>1. startSpaceType \in Int /\ FreeListNum - 1 \in Int /\ ~(startSpaceType > FreeListNum - 1)
          BY <1>0, SweptFacts
        <5>2. Cardinality(startSpaceType .. FreeListNum - 1) = (FreeListNum - 1) - startSpaceType + 1
          BY <5>1, FS_Interval
        <5> QED BY ONLY <5>1, <5>2, <1>0
      <4> QED BY <2>1, <3>1, <4>1, <4>2 DEF SweptSpaces
    <3>2. CASE s \notin SweptSpaces
      <4>1. {t \in Types : Pending(t, s)'} = {}
        BY <1>2, <3>2, SweepBegins
      <4>2. {t \in Types : Pending(t, s)} = {} /\ ~Helps(s)
        BY <2>1, ClosedIsIdle
      <4>3. remainingTaskNum'[s] = remainingTaskNum[s]
        BY <2>1, <3>2
      <4>4. Cardinality({}) = 0
        BY FS_EmptySet
      <4>5. remainingTaskNum[s] = Cardinality({}) + 0
        BY <1>1, <4>2
      <4> QED BY <4>1, <4>3, <4>4, <4>5
    <3> QED BY <3>1, <3>2
  <2>3. ASSUME NEW s \in Types
        PROVE  Cardinality({t \in Types : Pending(t, s)'}) \in Nat
    <3>1. {t \in Types : Pending(t, s)'} \in SUBSET Types
      OBVIOUS
    <3> QED BY <3>1, FiniteTypes
  <2>4. \A s : ~Helps(s)'
    BY <2>1 DEF Helps
  <2> QED BY <2>2, <2>3, <2>4 DEF CountInv
<1>3. CASE ~SweepConcurrently
  <2>1. \A t \in Types : \A s : Pending(t, s)' <=> Pending(t, s) /\ ~Leaves(t, s)
    BY <1>3, PendingStep
  <2>2. ASSUME \A t \in Types : \A s : ~Leaves(t, s),
               \A s \in Types : remainingTaskNum'[s] - (IF Helps(s)' THEN 1 ELSE 0) =
                                   remainingTaskNum[s] - (IF Helps(s) THEN 1 ELSE 0),
               \A s \in Types : remainingTaskNum'[s] \in Int
        PROVE  CountInv'
    <3> SUFFICES ASSUME NEW s \in Types
                 PROVE  remainingTaskNum'[s] = Cardinality({t \in Types : Pending(t, s)'})
                                                  + (IF Helps(s)' THEN 1 ELSE 0)
      BY DEF CountInv
    <3>1. {t \in Types : Pending(t, s)'} = Sweepers(s) /\ Sweepers(s) \in SUBSET Types
      BY <2>1, <2>2
    <3> PICK c : c = Cardinality(Sweepers(s)) OBVIOUS
    <3>2. c \in Nat
      BY <3>1, FiniteTypes
    <3>3. remainingTaskNum[s] = c + (IF Helps(s) THEN 1 ELSE 0)
      BY <1>1
    <3>4. remainingTaskNum'[s] = c + (IF Helps(s)' THEN 1 ELSE 0)
      BY <2>2, <3>2, <3>3
    <3> QED BY <3>1, <3>4
  <2>3. ASSUME UNCHANGED <<remainingTaskNum, mpc, mtype>>, \A t \in Types : \A s : ~Leaves(t, s)
        PROVE  CountInv'
    <3>1. \A s : Helps(s)' <=> Helps(s)
      BY <2>3 DEF Helps
    <3>2. \A s \in Types : remainingTaskNum'[s] \in Int
      BY <1>0, <2>3
    <3> QED BY <2>2, <2>3, <3>1, <3>2
  <2>4. ASSUME UNCHANGED <<remainingTaskNum, tpc>>, \A s : Helps(s)' <=> Helps(s)
        PROVE  CountInv'
    <3>1. \A t \in Types : \A s : ~Leaves(t, s)
      BY <2>4 DEF Leaves
    <3>2. \A s \in Types : remainingTaskNum'[s] \in Int
      BY <1>0, <2>4
    <3> QED BY <2>2, <2>4, <3>1, <3>2
  <2>5. ASSUME NEW u \in Types, CountDown(u) PROVE CountInv'
    <3> PICK c : c = TaskSpace(u) OBVIOUS
    <3>1. /\ tpc[u] = "count" /\ tpc'[u] # "count"
          /\ \A t \in Types \ {u} : tpc'[t] = tpc[t]
          /\ remainingTaskNum' = [remainingTaskNum EXCEPT ![c] = @ - 1]
          /\ UNCHANGED <<mpc, mtype>>
      <4>1. DOMAIN tpc = Tasks
        BY DEF TypeOK
      <4> QED BY <2>5, <4>1, ClearTaskIsNoSweeper DEF CountDown, mainVars
    <3>2. Active(u) /\ c \in SweptSpaces /\ Pending(u, c)
      BY <3>1, SpacesOfTasks DEF Active, Sweeps
    <3>3. \A t \in Types : \A s : Leaves(t, s) <=> t = u /\ s = c
      BY <3>1 DEF Leaves
    <3> SUFFICES ASSUME NEW s \in Types
                 PROVE  remainingTaskNum'[s] = Cardinality({t \in Types : Pending(t, s)'})
                                                  + (IF Helps(s)' THEN 1 ELSE 0)
      BY DEF CountInv
    <3>4. Sweepers(s) \in SUBSET Types /\ IsFiniteSet(Sweepers(s)) /\ Cardinality(Sweepers(s)) \in Nat
      <4>1. Sweepers(s) \in SUBSET Types
        OBVIOUS
      <4> QED BY <4>1, FiniteTypes
    <3>5. (IF Helps(s)' THEN 1 ELSE 0) = (IF Helps(s) THEN 1 ELSE 0)
      BY <3>1 DEF Helps
    <3>6. remainingTaskNum[s] = Cardinality(Sweepers(s)) + (IF Helps(s) THEN 1 ELSE 0)
      BY <1>1
    <3>7. CASE s = c
      <4>1. {t \in Types : Pending(t, s)'} = Sweepers(s) \ {u}
        BY <2>1, <3>3, <3>7
      <4>2. Cardinality(Sweepers(s) \ {u}) = Cardinality(Sweepers(s)) - 1
        BY <3>2, <3>4, <3>7, FS_RemoveElement
      <4>3. remainingTaskNum'[s] = remainingTaskNum[s] - 1
        BY <1>0, <3>1, <3>7
      <4> QED BY <3>4, <3>5, <3>6, <4>1, <4>2, <4>3
    <3>8. CASE s # c
      <4>1. {t \in Types : Pending(t, s)'} = Sweepers(s)
        BY <2>1, <3>3, <3>8
      <4>2. remainingTaskNum'[s] = remainingTaskNum[s]
        BY <1>0, <3>1, <3>8
      <4> QED BY <3>5, <3>6, <4>1, <4>2
    <3> QED BY <3>7, <3>8
  <2>6. ASSUME NEW u \in Types, TakeRegion(u) \/ FreeRegion(u) \/ AddSweptRegion(u) \/ SetSwept(u)
        PROVE  CountInv'
    <3>1. UNCHANGED <<remainingTaskNum, mpc, mtype>>
      BY <2>6 DEF TakeRegion, FreeRegion, AddSweptRegion, SetSwept, sweeperVars, mainVars
    <3>2. \A t \in Types : \A s : ~Leaves(t, s)
      <4>1. DOMAIN tpc = Tasks
        BY DEF TypeOK
      <4> QED BY <2>6, <4>1, ClearTaskIsNoSweeper
              DEF TakeRegion, FreeRegion, AddSweptRegion, SetSwept, Leaves
    <3> QED BY <2>3, <3>1, <3>2
  <2>7. CASE StartTask \/ ClearTaskStep
    <3>1. UNCHANGED <<remainingTaskNum, mpc, mtype>>
      BY <2>7 DEF StartTask, ClearTaskStep, ClearTaskWaits, ClearMarkBits, sweeperVars, mainVars
    <3>2. \A t \in Types : \A s : ~Leaves(t, s)
      <4>1. DOMAIN tpc = Tasks
        BY DEF TypeOK
      <4>2. CASE StartTask
        BY <4>2, StartFacts, ClearTaskIsNoSweeper DEF Leaves
      <4>3. CASE ClearTaskStep
        BY <4>1, <4>3, ClearTaskIsNoSweeper DEF ClearTaskStep, ClearTaskWaits, ClearMarkBits, Leaves
      <4> QED BY <2>7, <4>2, <4>3
    <3> QED BY <2>3, <3>1, <3>2
  <2>8. CASE \/ \E r \in Regions, slot \in StoredSlots : Store(r, slot)
             \/ \E type \in Switches : EnableConcurrentSweep(type)
             \/ vars' = vars
    <3>1. UNCHANGED <<remainingTaskNum, tpc, mpc, mtype>>
      BY <2>8 DEF Store, EnableConcurrentSweep, vars, sweeperVars, mainVars, taskVars
    <3> QED BY <2>4, <3>1 DEF Helps
  <2>9. CASE \/ \E s \in Types : Allocate(s)
             \/ \E fullGC \in Collections : StartGC(fullGC)
    <3>1. UNCHANGED <<remainingTaskNum, tpc>> /\ mpc = "run"
          /\ mpc' \in {"run", "fill", "check", "clearWait"}
      BY <2>9 DEF Allocate, StartGC, sweeperVars, mainVars, taskVars
    <3> QED BY <2>4, <3>1 DEF Helps
  <2>10. CASE CheckRemaining \/ WaitTasks \/ FillSweptRegion \/ DrainSweptRegion
    <3>1. UNCHANGED <<remainingTaskNum, tpc>> /\ mpc \in {"check", "wait", "fill", "drain"}
          /\ mpc' \in {"count in", "fill", "drain", "filled"}
      BY <2>10 DEF CheckRemaining, WaitTasks, FillSweptRegion, DrainSweptRegion, taskVars
    <3> QED BY <2>4, <3>1 DEF Helps
  <2>11. CASE MainTakesRegion \/ MainFreesRegion
    <3>1. UNCHANGED <<remainingTaskNum, tpc, mtype>> /\ mpc \in {"take", "free"}
          /\ mpc' \in {"take", "free", "count out"}
      BY <2>11 DEF MainTakesRegion, MainFreesRegion, taskVars
    <3> QED BY <2>4, <3>1 DEF Helps
  <2>12. CASE EnsureAllTaskFinished \/ AllocateAfterSweepingCompleted \/ TryFillSweptRegion
             \/ SweepNow \/ Resume
             \/ (\E dead \in SUBSET Regions : MarkOldGC(dead) \/ MarkFullGC(dead))
    <3>1. UNCHANGED remainingTaskNum
          /\ mpc \in {"filled", "sweep", "resume", "clearWait"}
          /\ mpc' \in {"check", "clearWait", "run", "fill", "sweep", "resume"}
      BY <2>12 DEF EnsureAllTaskFinished, AllocateAfterSweepingCompleted, TryFillSweptRegion,
         SweepNow, Resume, MarkOldGC, MarkFullGC, sweeperVars, Return
    <3>2. \A t \in Types : tpc'[t] = tpc[t]
      <4>1. DOMAIN tpc = Tasks
        BY DEF TypeOK
      <4> QED BY <2>12, <4>1, ClearTaskIsNoSweeper
         DEF EnsureAllTaskFinished, AllocateAfterSweepingCompleted, TryFillSweptRegion,
         SweepNow, Resume, MarkOldGC, MarkFullGC, taskVars
    <3>3. (\A s : ~Helps(s) /\ ~Helps(s)') /\ \A t \in Types : \A s : ~Leaves(t, s)
      BY <3>1, <3>2 DEF Helps, Leaves
    <3>4. \A s \in Types : remainingTaskNum'[s] \in Int
      BY <1>0, <3>1
    <3> QED BY <2>2, <3>1, <3>3, <3>4
  <2>13. CASE CountIn \/ CountOut
    <3>1. /\ tpc' = tpc /\ mtype' = mtype
          /\ \/ /\ mpc = "count in" /\ mpc' = "take"
                /\ remainingTaskNum' = [remainingTaskNum EXCEPT ![mtype] = @ + 1]
             \/ /\ mpc = "count out" /\ mpc' = "wait"
                /\ remainingTaskNum' = [remainingTaskNum EXCEPT ![mtype] = @ - 1]
      BY <2>13 DEF CountIn, CountOut, taskVars
    <3>2. \A t \in Types : \A s : ~Leaves(t, s)
      BY <3>1 DEF Leaves
    <3>3. \A s \in Types : remainingTaskNum[s] \in Int
      BY <1>0
    <3> PICK d \in {1, -1} : /\ remainingTaskNum' = [remainingTaskNum EXCEPT ![mtype] = @ + d]
                             /\ Helps(mtype)' <=> d = 1
                             /\ Helps(mtype) <=> d = -1
      <4>1. \/ /\ remainingTaskNum' = [remainingTaskNum EXCEPT ![mtype] = @ + 1]
               /\ Helps(mtype)' /\ ~Helps(mtype)
            \/ /\ remainingTaskNum' = [remainingTaskNum EXCEPT ![mtype] = @ + (-1)]
               /\ Helps(mtype) /\ ~Helps(mtype)'
        <5>1. remainingTaskNum[mtype] - 1 = remainingTaskNum[mtype] + (-1)
          BY <1>0, <3>3
        <5> QED BY <3>1, <5>1 DEF Helps
      <4> QED BY <4>1
    <3>4. ASSUME NEW s \in Types
          PROVE  /\ remainingTaskNum'[s] \in Int
                 /\ remainingTaskNum'[s] - (IF Helps(s)' THEN 1 ELSE 0) =
                       remainingTaskNum[s] - (IF Helps(s) THEN 1 ELSE 0)
      <4>1. CASE s = mtype
        <5>1. remainingTaskNum'[s] = remainingTaskNum[s] + d
          BY <1>0, <4>1
        <5>2. (IF Helps(s)' THEN 1 ELSE 0) = (IF d = 1 THEN 1 ELSE 0)
          BY <3>1, <4>1 DEF Helps
        <5>3. (IF Helps(s) THEN 1 ELSE 0) = (IF d = -1 THEN 1 ELSE 0)
          BY <4>1
        <5> QED BY <5>1, <5>2, <5>3, <3>3
      <4>2. CASE s # mtype
        <5>1. remainingTaskNum'[s] = remainingTaskNum[s] /\ ~Helps(s)' /\ ~Helps(s)
          BY <1>0, <3>1, <4>2 DEF Helps
        <5> QED BY <5>1, <3>3
      <4> QED BY <4>1, <4>2
    <3> QED BY <2>2, <3>2, <3>4
  <2> QED
    BY <1>3, <2>5, <2>6, <2>7, <2>8, <2>9, <2>10, <2>11, <2>12, <2>13
       DEF Next, TaskStep, MainStep
<1> QED BY <1>2, <1>3

-----------------------------------------------------------------------------
(* What EnsureAllTaskFinished and the AsyncClearTask leave behind *)

LEMMA DoneInvStep ==
    ASSUME TypeOK, PoolInv, MainInv, DoneInv, CountInv, ListInv, [Next]_vars
    PROVE  DoneInv'
<1>0. /\ mtype \in Types /\ SweptSpaces \subseteq Types /\ startSpaceType \in Nat
      /\ \A s \in Types : s \in Int
      /\ \A s \in startSpaceType .. mtype - 1 : s \in Types
  <2>1. startSpaceType \in {OLD_SPACE, NON_MOVABLE} /\ mtype \in Types
    BY DEF TypeOK
  <2>2. SweptSpaces \subseteq Types /\ startSpaceType \in Nat
    BY <2>1, SweptFacts
  <2>3. \A s \in Types : s \in Int
    BY ConstAssumption DEF Types, OLD_SPACE
  <2>4. \A s \in startSpaceType .. mtype - 1 : s \in Types
    BY <2>1, <2>2, ConstAssumption DEF Types, OLD_SPACE
  <2> QED BY <2>1, <2>2, <2>3, <2>4
<1> USE DEF Finishes, Waits
<1>1. CASE SweepConcurrently \/ SweepNow \/ Resume
           \/ (\E dead \in SUBSET Regions : MarkOldGC(dead) \/ MarkFullGC(dead))
  <2>1. mpc' \in {"resume", "sweep"} \/ (mpc' = "fill" /\ caller' = "try")
    BY <1>1 DEF SweepConcurrently, SweepNow, Resume, MarkOldGC, MarkFullGC
  <2> QED BY <2>1 DEF DoneInv
<1>2. CASE ~SweepConcurrently
  <2>1. \A s \in Types : Over(s) => Over(s)' /\ (sweptList[s] = {} => sweptList'[s] = {})
    BY <1>2, OverStays
  <2>2. ASSUME mpc \in Finishes, mpc' \in Finishes, startSpaceType' = startSpaceType,
               mtype' = mtype, caller' = caller,
               mpc' \in {"fill", "drain", "filled"} =>
                   mpc \in {"fill", "drain", "filled"} \/ \A t \in Types : ~Pending(t, mtype),
               mpc' = "filled" => mpc = "filled" \/ sweptList'[mtype] = {}
        PROVE  DoneInv'
    <3>1. caller = "all" => \A s \in startSpaceType .. mtype - 1 : Over(s)' /\ sweptList'[s] = {}
      <4>1. SUFFICES ASSUME caller = "all", NEW s \in startSpaceType .. mtype - 1
                     PROVE  Over(s)' /\ sweptList'[s] = {}
        OBVIOUS
      <4>2. Over(s) /\ sweptList[s] = {}
        BY <2>2, <4>1 DEF DoneInv
      <4> QED BY <1>0, <2>1, <4>2
    <3> PICK c : c = mtype OBVIOUS
    <3>2. caller \in {"all", "one"} /\ mpc' \in {"fill", "drain", "filled"} => Over(c) /\ Over(c)'
      <4>1. caller \in {"all", "one"} /\ mpc' \in {"fill", "drain", "filled"} => Over(c)
        BY <1>0, <2>2, NoneLeft DEF DoneInv
      <4> QED BY <1>0, <2>1, <4>1
    <3>3. caller \in {"all", "one"} /\ mpc' = "filled" => sweptList'[c] = {}
      <4>1. caller \in {"all", "one"} /\ mpc = "filled" => sweptList[c] = {} /\ Over(c)
        BY DEF DoneInv
      <4> QED BY <1>0, <2>1, <2>2, <4>1
    <3>4. (startSpaceType .. mtype - 1)' = startSpaceType .. mtype - 1 /\ mtype' = c
      BY <2>2
    <3> QED BY <2>2, <3>1, <3>2, <3>3, <3>4 DEF DoneInv
  <2>3. ASSUME mpc' \notin Finishes \/ caller' \notin {"all", "one"}
        PROVE  DoneInv'
    BY <2>3 DEF DoneInv
  <2>4. CASE \/ StartTask \/ (\E t \in Types : TaskStep(t)) \/ ClearTaskStep
             \/ \E r \in Regions, slot \in StoredSlots : Store(r, slot)
             \/ \E type \in Switches : EnableConcurrentSweep(type)
             \/ vars' = vars
    <3>1. UNCHANGED <<mpc, caller, mtype, mregion, startSpaceType, isSweeping>>
      BY <2>4, MainStays
    <3> QED BY <2>2, <2>3, <3>1
  <2>5. CASE \E s \in Types : Allocate(s)
    <3>1. mpc = "run" /\ (mpc' = "run" \/ caller' = "alloc")
      BY <2>5 DEF Allocate, mainVars
    <3> QED BY <2>3, <3>1
  <2>6. CASE \E fullGC \in Collections : StartGC(fullGC)
    <3>1. mpc' = "clearWait" \/ (mpc' = "check" /\ mtype' = startSpaceType /\ startSpaceType' = startSpaceType)
      BY <2>6 DEF StartGC, sweeperVars
    <3>2. mtype' = startSpaceType /\ startSpaceType' = startSpaceType => (startSpaceType .. mtype - 1)' = {}
      BY <1>0
    <3> QED BY <3>1, <3>2 DEF DoneInv
  <2>7. CASE CheckRemaining \/ WaitTasks
    <3>1. /\ mpc \in {"check", "wait"} /\ mpc' \in {"count in", "fill"}
          /\ mpc' = "fill" => ~(remainingTaskNum[mtype] > 0)
          /\ UNCHANGED <<caller, mtype, startSpaceType>>
      <4>1. mpc = "check" /\ mpc' = "fill" => ~(remainingTaskNum[mtype] > 0)
        BY <2>7 DEF CheckRemaining, WaitTasks
      <4>2. remainingTaskNum[mtype] \in Nat
        BY <1>0, CountFacts
      <4>3. mpc = "wait" => remainingTaskNum[mtype] <= 0
        BY <2>7 DEF CheckRemaining, WaitTasks
      <4>4. mpc = "wait" => ~(remainingTaskNum[mtype] > 0)
        BY <4>2, <4>3
      <4>5. /\ mpc \in {"check", "wait"} /\ mpc' \in {"count in", "fill"}
            /\ UNCHANGED <<caller, mtype, startSpaceType>>
        BY <2>7 DEF CheckRemaining, WaitTasks, mainFrame
      <4> QED BY <4>1, <4>4, <4>5
    <3>2. mpc' = "fill" => \A t \in Types : ~Pending(t, mtype)
      <4>1. remainingTaskNum[mtype] \in Nat
        BY <1>0, CountFacts
      <4>2. mpc' = "fill" => remainingTaskNum[mtype] <= 0
        BY <3>1, <4>1
      <4> QED BY <1>0, <4>2, CountFacts
    <3> QED BY <2>2, <3>1, <3>2
  <2>8. CASE CountIn \/ CountOut \/ MainTakesRegion \/ MainFreesRegion
    <3>1. /\ mpc \in Finishes /\ mpc' \in {"take", "wait", "free", "count out"}
          /\ UNCHANGED <<caller, mtype, startSpaceType>>
      BY <2>8 DEF CountIn, CountOut, MainTakesRegion, MainFreesRegion, mainFrame
    <3> QED BY <2>2, <3>1
  <2>9. CASE FillSweptRegion \/ DrainSweptRegion
    <3>1. /\ mpc \in {"fill", "drain"} /\ mpc' \in {"drain", "filled"}
          /\ mpc' = "filled" => sweptList'[mtype] = {}
          /\ UNCHANGED <<caller, mtype, startSpaceType>>
      BY <2>9 DEF FillSweptRegion, DrainSweptRegion, mainFrame, spaceVars
    <3> QED BY <2>2, <3>1
  <2>10. CASE EnsureAllTaskFinished
    <3>1. CASE mpc' = "clearWait"
      BY <2>3, <3>1
    <3>2. CASE mtype' = mtype + 1 /\ mpc' = "check"
      <4>1. /\ mpc = "filled" /\ caller = "all" /\ startSpaceType' = startSpaceType
        BY <2>10 DEF EnsureAllTaskFinished
      <4>2. ASSUME NEW s \in startSpaceType .. mtype
            PROVE  Over(s)' /\ sweptList'[s] = {}
        <5>1. s \in startSpaceType .. mtype - 1 \/ s = mtype
          BY <1>0
        <5>2. Over(s) /\ sweptList[s] = {}
          BY <4>1, <5>1 DEF DoneInv
        <5>3. s \in Types
          BY <1>0, <5>1
        <5> QED BY <2>1, <5>2, <5>3
      <4>3. (startSpaceType .. mtype - 1)' = startSpaceType .. mtype
        <5>1. mtype' - 1 = mtype
          BY <1>0, <3>2
        <5> QED BY <4>1, <5>1
      <4> QED BY <3>2, <4>2, <4>3 DEF DoneInv
    <3> QED BY <2>10, <3>1, <3>2 DEF EnsureAllTaskFinished
  <2>11. CASE AllocateAfterSweepingCompleted \/ TryFillSweptRegion
    <3>1. \/ mpc' = "run" \/ caller' = "try" \/ (caller' = "one" /\ mpc' = "check")
      BY <2>11 DEF AllocateAfterSweepingCompleted, TryFillSweptRegion, Return
    <3> QED BY <3>1 DEF DoneInv
  <2> QED
    BY <1>1, <2>4, <2>5, <2>6, <2>7, <2>8, <2>9, <2>10, <2>11 DEF Next, MainStep
<1> QED BY <1>1, <1>2

-----------------------------------------------------------------------------
(* The pool *)

\* What the AsyncClearTask's own steps do to it; no other step moves it while it
\* runs.
LEMMA ClearMoves ==
    ASSUME TypeOK, PoolInv, MainInv, ListInv, [Next]_vars
    PROVE  \/ tpc'[ClearTask] = tpc[ClearTask] /\ tindex'[ClearTask] = tindex[ClearTask]
              /\ clearTaskFinished' = clearTaskFinished
           \/ /\ tpc[ClearTask] = "queued" /\ tpc'[ClearTask] = "wait"
              /\ tindex'[ClearTask] = startSpaceType
              /\ UNCHANGED <<clearTaskFinished, startSpaceType, isSweeping>>
           \/ ClearTaskWaits \/ ClearMarkBits
           \/ tpc[ClearTask] = "idle" /\ tpc'[ClearTask] = "queued" /\ clearTaskFinished' = FALSE
<1> USE ClearTaskIsNoSweeper
<1>0. DOMAIN tpc = Tasks /\ DOMAIN tindex = Tasks
  BY DEF TypeOK
<1>1. CASE StartTask
  <2>1. UNCHANGED <<clearTaskFinished, startSpaceType, isSweeping>>
    BY <1>1 DEF StartTask, sweeperVars
  <2> QED BY <1>1, <2>1, StartFacts
<1>2. CASE \E t \in Types : TaskStep(t)
  BY <1>0, <1>2, ZenonT(40) DEF TaskStep, TakeRegion, FreeRegion, AddSweptRegion, SetSwept, CountDown
<1>3. CASE SweepConcurrently
  <2>1. tpc'[ClearTask] = "idle" /\ tpc[ClearTask] = "idle"
    BY <1>3, SweepBegins
  <2>2. UNCHANGED <<clearTaskFinished, tindex>>
    BY <1>3 DEF SweepConcurrently
  <2> QED BY <2>1, <2>2
<1>4. CASE Resume
  <2>1. tpc[ClearTask] = "idle"
    BY <1>4 DEF Resume, MainInv, PoolInv
  <2> QED BY <1>0, <1>4, <2>1 DEF Resume
<1>5. ASSUME UNCHANGED <<tpc, tindex, clearTaskFinished>>
      PROVE  tpc'[ClearTask] = tpc[ClearTask] /\ tindex'[ClearTask] = tindex[ClearTask]
              /\ clearTaskFinished' = clearTaskFinished
  BY <1>5
<1>6. CASE \E r \in Regions, slot \in StoredSlots : Store(r, slot)
  BY <1>5, <1>6 DEF Store, taskVars
<1>7. CASE \E type \in Switches : EnableConcurrentSweep(type)
  BY <1>5, <1>7 DEF EnableConcurrentSweep, taskVars
<1>8. CASE (\E s \in Types : Allocate(s)) \/ (\E fullGC \in Collections : StartGC(fullGC))
  BY <1>5, <1>8 DEF Allocate, StartGC, taskVars
<1>9. CASE CheckRemaining \/ CountIn \/ MainTakesRegion \/ MainFreesRegion \/ CountOut
             \/ WaitTasks \/ FillSweptRegion \/ DrainSweptRegion
  BY <1>5, <1>9 DEF CheckRemaining, CountIn, MainTakesRegion, MainFreesRegion, CountOut,
     WaitTasks, FillSweptRegion, DrainSweptRegion, taskVars, mainFrame
<1>10. CASE EnsureAllTaskFinished \/ AllocateAfterSweepingCompleted \/ TryFillSweptRegion
             \/ SweepNow \/ (\E dead \in SUBSET Regions : MarkOldGC(dead) \/ MarkFullGC(dead))
  BY <1>5, <1>10 DEF EnsureAllTaskFinished, AllocateAfterSweepingCompleted,
     TryFillSweptRegion, SweepNow, MarkOldGC, MarkFullGC, taskVars
<1>11. CASE vars' = vars
  BY <1>5, <1>11 DEF vars, taskVars
<1> QED
  BY <1>1, <1>2, <1>3, <1>4, <1>6, <1>7, <1>8, <1>9, <1>10, <1>11
     DEF Next, MainStep, ClearTaskStep

\* The queue holds the tasks that are posted and not started, each once.
LEMMA QueueStep ==
    ASSUME TypeOK, PoolInv, MainInv, ListInv, [Next]_vars
    PROVE  /\ \A i, k \in DOMAIN queue' : queue'[i] = queue'[k] => i = k
           /\ \A t \in Tasks : tpc'[t] = "queued" <=> \E i \in DOMAIN queue' : queue'[i] = t
           /\ queue' \in Seq(Tasks)
<1> USE ClearTaskIsNoSweeper
<1> DEFINE Goal == /\ \A i, k \in DOMAIN queue' : queue'[i] = queue'[k] => i = k
                   /\ \A t \in Tasks : tpc'[t] = "queued" <=> \E i \in DOMAIN queue' : queue'[i] = t
                   /\ queue' \in Seq(Tasks)
<1>0. DOMAIN tpc = Tasks /\ queue \in Seq(Tasks)
  BY DEF TypeOK
<1>1. /\ \A i, k \in DOMAIN queue : queue[i] = queue[k] => i = k
      /\ \A t \in Tasks : tpc[t] = "queued" <=> \E i \in DOMAIN queue : queue[i] = t
  BY DEF PoolInv
<1>2. Len(queue) \in Nat /\ DOMAIN queue = 1 .. Len(queue)
  BY <1>0, LenProperties
<1>3. ASSUME queue' = queue, \A t \in Tasks : tpc'[t] = "queued" <=> tpc[t] = "queued"
      PROVE  Goal
  BY <1>0, <1>1, <1>3
<1>4. CASE StartTask
  <2> PICK n \in Nat : n = Len(queue)
    BY <1>2
  <2>1. queue # << >> /\ queue' = Tail(queue)
    BY <1>4 DEF StartTask
  <2>2. /\ queue' \in Seq(Tasks) /\ n # 0 /\ Head(queue) = queue[1]
        /\ DOMAIN queue = 1 .. n /\ DOMAIN queue' = 1 .. n - 1
        /\ \A i \in 1 .. n - 1 : queue'[i] = queue[i + 1]
    BY <1>0, <1>2, <2>1
  <2>3. \A i \in 1 .. n - 1 : i + 1 \in 1 .. n /\ i + 1 # 1
    OBVIOUS
  <2>4. \A i \in 1 .. n : i # 1 => i - 1 \in 1 .. n - 1 /\ (i - 1) + 1 = i
    OBVIOUS
  <2>5. ASSUME NEW i \in DOMAIN queue', NEW k \in DOMAIN queue', queue'[i] = queue'[k]
        PROVE  i = k
    <3>1. i \in 1 .. n - 1 /\ k \in 1 .. n - 1
      BY <2>2, <2>5
    <3>2. queue[i + 1] = queue[k + 1] /\ i + 1 \in DOMAIN queue /\ k + 1 \in DOMAIN queue
      BY <2>2, <2>3, <2>5, <3>1
    <3>3. i + 1 = k + 1
      BY ONLY <1>1, <3>2
    <3> QED BY ONLY <3>1, <3>3, n \in Nat
  <2>6. ASSUME NEW t \in Tasks
        PROVE  tpc'[t] = "queued" <=> \E i \in DOMAIN queue' : queue'[i] = t
    <3>1. tpc'[t] = "queued" <=> tpc[t] = "queued" /\ t # queue[1]
      <4>1. CASE t = Head(queue)
        <5>1. t \in Types \/ t = ClearTask
          BY DEF Tasks
        <5>2. tpc'[t] \in {"take", "wait"}
          BY <1>4, <4>1, <5>1, StartFacts
        <5> QED BY <2>2, <4>1, <5>2
      <4>2. CASE t # Head(queue)
        <5>1. tpc'[t] = tpc[t]
          BY <1>4, <4>2, StartFacts
        <5> QED BY <2>2, <4>2, <5>1
      <4> QED BY <4>1, <4>2
    <3>2. ASSUME tpc'[t] = "queued" PROVE \E i \in DOMAIN queue' : queue'[i] = t
      <4>1. PICK i \in 1 .. n : queue[i] = t /\ i # 1
        BY <1>1, <2>2, <3>1, <3>2
      <4>2. i - 1 \in 1 .. n - 1 /\ queue'[i - 1] = t
        BY <2>2, <2>4, <4>1
      <4> QED BY <2>2, <4>2
    <3>3. ASSUME NEW i \in DOMAIN queue', queue'[i] = t PROVE tpc'[t] = "queued"
      <4>1. i + 1 \in DOMAIN queue /\ queue[i + 1] = t /\ i + 1 # 1
        BY <2>2, <2>3, <3>3
      <4>2. t # queue[1]
        <5>1. 1 \in DOMAIN queue
          BY <2>2
        <5> QED BY <1>1, <4>1, <5>1
      <4> QED BY <1>1, <3>1, <4>1, <4>2
    <3> QED BY <3>2, <3>3
  <2> QED BY <2>2, <2>5, <2>6
<1>5. CASE Resume
  <2>1. tpc[ClearTask] = "idle" /\ queue' = Append(queue, ClearTask)
        /\ tpc' = [tpc EXCEPT ![ClearTask] = "queued"]
    BY <1>5 DEF Resume, MainInv, PoolInv
  <2>2. \A i \in DOMAIN queue : queue[i] # ClearTask
    BY <1>1, <2>1
  <2> PICK n \in Nat : n = Len(queue)
    BY <1>2
  <2>3. /\ queue' \in Seq(Tasks) /\ DOMAIN queue' = 1 .. n + 1
        /\ \A i \in 1 .. n : queue'[i] = queue[i]
        /\ queue'[n + 1] = ClearTask
    BY <1>0, <1>2, <2>1
  <2>4. \A i \in 1 .. n + 1 : i \in 1 .. n \/ i = n + 1
    OBVIOUS
  <2>5. n + 1 \in DOMAIN queue' /\ \A i \in 1 .. n : i \in DOMAIN queue'
    BY <2>3
  <2>6. ASSUME NEW i \in DOMAIN queue', NEW k \in DOMAIN queue', queue'[i] = queue'[k]
        PROVE  i = k
    BY <1>1, <1>2, <2>2, <2>3, <2>4, <2>6
  <2>7. ASSUME NEW t \in Tasks
        PROVE  tpc'[t] = "queued" <=> \E i \in DOMAIN queue' : queue'[i] = t
    BY <1>0, <1>1, <1>2, <2>1, <2>3, <2>4, <2>5
  <2> QED BY <2>3, <2>6, <2>7
<1>6. CASE SweepConcurrently
  <2> PICK n : n = FreeListNum - startSpaceType OBVIOUS
  <2>0. startSpaceType \in {OLD_SPACE, NON_MOVABLE}
    BY DEF TypeOK
  <2>1. n \in Nat /\ startSpaceType \in Nat /\ FreeListNum = startSpaceType + n
    BY <2>0, SweptFacts
  <2>2. /\ queue' \in [1 .. n -> Tasks]
        /\ \A i \in DOMAIN queue' : queue'[i] = startSpaceType + i - 1
        /\ \A t \in Types : tpc'[t] = IF t \in SweptSpaces THEN "queued" ELSE "idle"
        /\ tpc'[ClearTask] = "idle"
    BY <1>6, SweepBegins
  <2>3. \A i, k \in DOMAIN queue' : queue'[i] = queue'[k] => i = k
    BY <2>1, <2>2
  <2>4. \A i \in 1 .. n : startSpaceType + i - 1 \in SweptSpaces
    BY <2>1 DEF SweptSpaces
  <2>5. \A t \in SweptSpaces : t - startSpaceType + 1 \in 1 .. n
                                 /\ startSpaceType + (t - startSpaceType + 1) - 1 = t
    BY <2>1 DEF SweptSpaces
  <2>6. SweptSpaces \subseteq Types /\ \A t \in Tasks : t \in Types \/ t = ClearTask
    BY <2>0, SweptFacts DEF Tasks
  <2>7. ASSUME NEW t \in Tasks
        PROVE  tpc'[t] = "queued" <=> \E i \in DOMAIN queue' : queue'[i] = t
    <3>1. tpc'[t] = "queued" <=> t \in SweptSpaces
      BY <2>2, <2>6
    <3>2. (\E i \in DOMAIN queue' : queue'[i] = t) => t \in SweptSpaces
      BY <2>2, <2>4
    <3>3. t \in SweptSpaces => \E i \in DOMAIN queue' : queue'[i] = t
      BY <2>2, <2>5
    <3> QED BY <3>1, <3>2, <3>3
  <2>8. queue' \in Seq(Tasks)
    BY <2>1, <2>2
  <2> QED BY <2>3, <2>7, <2>8
<1>7. CASE \E t \in Types : TaskStep(t)
  <2>1. queue' = queue
    BY <1>7 DEF TaskStep, TakeRegion, FreeRegion, AddSweptRegion, SetSwept, CountDown
  <2>2. \A t \in Tasks : tpc'[t] = "queued" <=> tpc[t] = "queued"
    <3> PICK t \in Types : TaskStep(t)
      BY <1>7
    <3>1. tpc[t] # "queued"
      BY ONLY TaskStep(t) DEF TaskStep, TakeRegion, FreeRegion, AddSweptRegion, SetSwept, CountDown
    <3>2. \E v : v # "queued" /\ tpc' = [tpc EXCEPT ![t] = v]
      <4>1. CASE TakeRegion(t)
        BY ONLY <4>1 DEF TakeRegion
      <4>2. CASE FreeRegion(t)
        BY ONLY <4>2 DEF FreeRegion
      <4>3. CASE AddSweptRegion(t)
        BY ONLY <4>3 DEF AddSweptRegion
      <4>4. CASE SetSwept(t)
        BY ONLY <4>4 DEF SetSwept
      <4>5. CASE CountDown(t)
        BY ONLY <4>5 DEF CountDown
      <4> QED
        BY ONLY TaskStep(t), <4>1, <4>2, <4>3, <4>4, <4>5 DEF TaskStep
    <3>3. PICK v : v # "queued" /\ tpc' = [tpc EXCEPT ![t] = v]
      BY <3>2
    <3> QED
      BY ONLY <1>0, <3>1, <3>3
  <2> QED BY <1>3, <2>1, <2>2
<1>8. CASE ClearTaskStep
  <2>1. queue' = queue /\ \A t \in Tasks : tpc'[t] = "queued" <=> tpc[t] = "queued"
    BY <1>0, <1>8 DEF ClearTaskStep, ClearTaskWaits, ClearMarkBits
  <2> QED BY <1>3, <2>1
<1>9. ASSUME UNCHANGED <<queue, tpc>> PROVE Goal
  BY <1>3, <1>9
<1>10. CASE \E r \in Regions, slot \in StoredSlots : Store(r, slot)
  BY <1>9, <1>10 DEF Store, taskVars
<1>11. CASE \E type \in Switches : EnableConcurrentSweep(type)
  BY <1>9, <1>11 DEF EnableConcurrentSweep, taskVars
<1>12. CASE (\E s \in Types : Allocate(s)) \/ (\E fullGC \in Collections : StartGC(fullGC))
  BY <1>9, <1>12 DEF Allocate, StartGC, taskVars
<1>13. CASE CheckRemaining \/ CountIn \/ MainTakesRegion \/ MainFreesRegion \/ CountOut
             \/ WaitTasks \/ FillSweptRegion \/ DrainSweptRegion
  BY <1>9, <1>13 DEF CheckRemaining, CountIn, MainTakesRegion, MainFreesRegion, CountOut,
     WaitTasks, FillSweptRegion, DrainSweptRegion, taskVars, mainFrame
<1>14. CASE EnsureAllTaskFinished \/ AllocateAfterSweepingCompleted \/ TryFillSweptRegion
             \/ SweepNow \/ (\E dead \in SUBSET Regions : MarkOldGC(dead) \/ MarkFullGC(dead))
  BY <1>9, <1>14 DEF EnsureAllTaskFinished, AllocateAfterSweepingCompleted,
     TryFillSweptRegion, SweepNow, MarkOldGC, MarkFullGC, taskVars
<1>15. CASE vars' = vars
  BY <1>9, <1>15 DEF vars, taskVars
<1> QED
  BY <1>4, <1>5, <1>6, <1>7, <1>8, <1>10, <1>11, <1>12, <1>13, <1>14, <1>15
     DEF Next, MainStep

LEMMA PoolInvStep ==
    ASSUME TypeOK, PoolInv, MainInv, DoneInv, CountInv, ListInv, [Next]_vars
    PROVE  PoolInv'
<1> USE ClearTaskIsNoSweeper
<1>0. /\ startSpaceType \in {OLD_SPACE, NON_MOVABLE} /\ SweptSpaces \subseteq Types
      /\ mtype \in Types /\ isSweeping \in BOOLEAN /\ startSpaceType \in SweptSpaces
      /\ DOMAIN tpc = Tasks /\ DOMAIN tindex = Tasks /\ DOMAIN tregion = Tasks
      /\ NoRegion \notin Regions
  BY SweptFacts, ConstAssumption DEF TypeOK
<1>1. /\ tpc[ClearTask] \in {"idle", "queued", "wait", "clear"}
      /\ clearTaskFinished = TRUE <=> tpc[ClearTask] = "idle"
  BY DEF PoolInv
<1>2. /\ tpc'[ClearTask] \in {"idle", "queued", "wait", "clear"}
      /\ clearTaskFinished' = TRUE <=> tpc'[ClearTask] = "idle"
  <2>1. CASE ClearTaskWaits
    BY <1>0, <1>1, <2>1 DEF ClearTaskWaits
  <2>2. CASE ClearMarkBits
    BY <1>0, <1>1, <2>2 DEF ClearMarkBits
  <2> QED BY <1>1, <2>1, <2>2, ClearMoves
<1>3. ASSUME NEW t \in Types
      PROVE  /\ tpc'[t] \in {"idle", "queued"} \cup Sweeps
             /\ tpc'[t] # "idle" => isSweeping' /\ t \in SweptSpaces'
             /\ tpc'[t] \in Sweeps => tindex'[t] \in SweptSpaces'
             /\ tpc'[t] \in {"free", "add", "set"} =>
                    tregion'[t] \in Regions /\ SpaceOf[tregion'[t]] = TaskSpace(t)'
  <2>0. /\ tpc[t] \in {"idle", "queued"} \cup Sweeps
        /\ tpc[t] # "idle" => isSweeping /\ t \in SweptSpaces
        /\ tpc[t] \in Sweeps => tindex[t] \in SweptSpaces
        /\ tpc[t] \in {"free", "add", "set"} =>
               tregion[t] \in Regions /\ SpaceOf[tregion[t]] = TaskSpace(t)
    BY DEF PoolInv, Active
  <2>1. CASE SweepConcurrently
    <3>1. /\ tpc'[t] \in {"idle", "queued"} /\ isSweeping' = TRUE /\ SweptSpaces' = SweptSpaces
          /\ tpc'[t] = "queued" => t \in SweptSpaces
      BY <2>1, SweepBegins DEF SweepConcurrently, SweptSpaces
    <3> QED BY <3>1 DEF Sweeps
  <2>2. CASE ~SweepConcurrently /\ tpc[t] = "idle"
    <3>1. tpc'[t] = "idle"
      BY <2>2, TaskMoves DEF TaskStep, TakeRegion, FreeRegion, AddSweptRegion, SetSwept, CountDown
    <3> QED BY <3>1 DEF Sweeps
  <2>3. CASE ~SweepConcurrently /\ tpc[t] # "idle"
    <3>1. /\ isSweeping = TRUE /\ t \in SweptSpaces
          /\ startSpaceType' = startSpaceType /\ SweptSpaces' = SweptSpaces
      BY <1>0, <2>0, <2>3, SpacesStay
    <3>2. isSweeping' = TRUE
      BY <2>3, <3>1, FlagChanges, SweepCloses
    <3>3. CASE tpc'[t] = tpc[t] /\ tindex'[t] = tindex[t] /\ tregion'[t] = tregion[t]
      BY <2>0, <3>1, <3>2, <3>3, PendingSameAt
    <3>4. CASE tpc[t] = "queued" /\ tpc'[t] = "take" /\ StartTask
      <4>1. t = Head(queue)
        BY <3>4, StartFacts
      <4>2. tindex'[t] = startSpaceType
        BY <3>4, <4>1, StartFacts
      <4> QED BY <1>0, <3>1, <3>2, <3>4, <4>2 DEF Sweeps
    <3>5. CASE TakeRegion(t)
      <4> PICK c : c = TaskSpace(t) OBVIOUS
      <4>1. /\ tpc[t] = "take" /\ tindex'[t] = tindex[t]
            /\ \/ tpc'[t] = "count"
               \/ /\ tpc'[t] = "free" /\ tregion'[t] = LastRegion(c) /\ sweepingList[c] # << >>
                  /\ sweepingList' = [sweepingList EXCEPT ![c] = AllButLast(c)]
        BY <1>0, <3>5 DEF TakeRegion
      <4>2. c \in Types /\ TaskSpace(t)' = c
        <5>1. c \in SweptSpaces
          BY <4>1, SpacesOfTasks DEF Active, Sweeps
        <5>2. TaskSpace(t)' = TaskSpace(t)
          BY <3>1, <4>1 DEF TaskSpace
        <5> QED BY <1>0, <5>1, <5>2
      <4>3. tpc'[t] = "free" => tregion'[t] \in Regions /\ SpaceOf[tregion'[t]] = c
        BY <4>1, <4>2, Popped
      <4> QED BY <2>0, <3>1, <3>2, <4>1, <4>2, <4>3 DEF Sweeps
    <3>6. CASE FreeRegion(t) \/ AddSweptRegion(t)
      <4>1. /\ tpc[t] \in {"free", "add"} /\ tpc'[t] \in {"add", "set"}
            /\ tindex'[t] = tindex[t] /\ tregion'[t] = tregion[t]
        BY <1>0, <3>6 DEF FreeRegion, AddSweptRegion
      <4>2. TaskSpace(t)' = TaskSpace(t)
        BY <3>1, <4>1 DEF TaskSpace
      <4> QED BY <2>0, <3>1, <3>2, <4>1, <4>2 DEF Sweeps
    <3>7. CASE SetSwept(t)
      <4>1. tpc[t] = "set" /\ tpc'[t] = "take" /\ tindex'[t] = tindex[t]
        BY <1>0, <3>7 DEF SetSwept
      <4> QED BY <2>0, <3>1, <3>2, <4>1 DEF Sweeps
    <3>8. CASE CountDown(t)
      <4>1. /\ tpc[t] = "count" /\ tindex[t] \in SweptSpaces
            /\ \/ tpc'[t] = "take" /\ tindex'[t] = tindex[t] + 1 /\ tindex[t] + 1 < FreeListNum
               \/ tpc'[t] = "idle"
        BY <1>0, <2>0, <3>8 DEF CountDown, Sweeps
      <4>2. tindex[t] + 1 < FreeListNum => tindex[t] + 1 \in SweptSpaces
        BY <1>0, <4>1, SweptFacts DEF SweptSpaces
      <4> QED BY <3>1, <3>2, <4>1, <4>2 DEF Sweeps
    <3> QED BY <2>3, <3>3, <3>4, <3>5, <3>6, <3>7, <3>8, TaskMoves DEF TaskStep
  <2> QED BY <2>1, <2>2, <2>3
<1>4. \A t : Active(t)' <=> tpc'[t] \in Sweeps
  BY DEF Active, Sweeps
<1> QED BY <1>2, <1>3, <1>4, QueueStep DEF PoolInv

LEMMA ClearInvStep ==
    ASSUME TypeOK, PoolInv, MainInv, DoneInv, CountInv, ListInv, ClearInv, [Next]_vars
    PROVE  ClearInv'
<1> USE ClearTaskIsNoSweeper
<1>0. /\ startSpaceType \in {OLD_SPACE, NON_MOVABLE} /\ SweptSpaces \subseteq Types
      /\ mtype \in Types /\ isSweeping \in BOOLEAN /\ startSpaceType \in SweptSpaces
      /\ DOMAIN tpc = Tasks /\ DOMAIN tindex = Tasks
      /\ startSpaceType \in Nat /\ FreeListNum \in Nat /\ startSpaceType < FreeListNum
  BY SweptFacts, ConstAssumption DEF TypeOK
<1>1. ASSUME tpc[ClearTask] # "idle"
      PROVE  /\ ~SweepConcurrently /\ startSpaceType' = startSpaceType
             /\ SweptSpaces' = SweptSpaces /\ (isSweeping' => isSweeping)
  <2>1. ~SweepConcurrently
    BY <1>1, SweepBegins
  <2>2. startSpaceType' = startSpaceType
    BY <1>1, SpacesChange DEF PoolInv
  <2>3. isSweeping' = isSweeping \/ isSweeping' = FALSE
    BY <2>1, FlagChanges DEF EnsureAllTaskFinished
  <2> QED BY <2>1, <2>2, <2>3 DEF SweptSpaces
<1>2. ASSUME NEW s \in Types, Left(s), ~SweepConcurrently PROVE Left(s)'
  <2>1. Over(s)'
    BY <1>2, OverStays DEF Left
  <2>2. mpc' = "free" => UNCHANGED <<mpc, mtype>> \/ (MainTakesRegion /\ mtype' = mtype)
    <3>1. CASE \/ StartTask \/ (\E t \in Types : TaskStep(t)) \/ ClearTaskStep
               \/ \E r \in Regions, slot \in StoredSlots : Store(r, slot)
               \/ \E type \in Switches : EnableConcurrentSweep(type)
               \/ vars' = vars
      BY <3>1, MainStays
    <3>2. CASE (\E c \in Types : Allocate(c)) \/ (\E fullGC \in Collections : StartGC(fullGC))
      BY <3>2 DEF Allocate, StartGC, mainVars
    <3>3. CASE MainStep
      BY <3>3 DEF MainStep, CheckRemaining, CountIn, MainTakesRegion, MainFreesRegion,
         CountOut, WaitTasks, FillSweptRegion, DrainSweptRegion, EnsureAllTaskFinished,
         AllocateAfterSweepingCompleted, TryFillSweptRegion, MarkOldGC, MarkFullGC,
         SweepConcurrently, SweepNow, Resume, Return
    <3> QED BY <3>1, <3>2, <3>3 DEF Next
  <2>3. MainTakesRegion /\ mpc' = "free" => sweepingList[mtype] # << >>
    BY DEF MainTakesRegion
  <2> QED BY <1>2, <2>1, <2>2, <2>3 DEF Left, Over
<1>3. CASE tpc'[ClearTask] = tpc[ClearTask] /\ tindex'[ClearTask] = tindex[ClearTask]
  <2>1. CASE tpc[ClearTask] = "wait"
    <3>1. /\ tindex[ClearTask] \in startSpaceType .. FreeListNum
          /\ isSweeping => \A s \in startSpaceType .. tindex[ClearTask] - 1 : Left(s)
      BY <2>1 DEF ClearInv
    <3>2. \A s \in startSpaceType .. tindex[ClearTask] - 1 : s \in Types
      BY <1>0, <3>1 DEF Types, OLD_SPACE
    <3>3. isSweeping' => \A s \in startSpaceType .. tindex[ClearTask] - 1 : Left(s)'
      BY <1>1, <1>2, <2>1, <3>1, <3>2
    <3> QED BY <1>1, <1>3, <2>1, <3>1, <3>3 DEF ClearInv
  <2>2. CASE tpc[ClearTask] = "clear"
    <3>1. isSweeping' => \A s \in SweptSpaces : Left(s)'
      BY <1>0, <1>1, <1>2, <2>2 DEF ClearInv
    <3> QED BY <1>1, <1>3, <2>2, <3>1 DEF ClearInv
  <2>3. CASE tpc[ClearTask] \notin {"wait", "clear"}
    BY <1>3, <2>3 DEF ClearInv
  <2> QED BY <2>1, <2>2, <2>3
<1>4. CASE tpc'[ClearTask] = "wait" /\ tindex'[ClearTask] = startSpaceType
           /\ startSpaceType' = startSpaceType
  <2>1. startSpaceType .. startSpaceType - 1 = {}
    BY <1>0
  <2> QED BY <1>0, <1>4, <2>1 DEF ClearInv
<1>5. CASE ClearTaskWaits
  <2> PICK i : i = tindex[ClearTask] OBVIOUS
  <2>1. /\ tpc[ClearTask] = "wait" /\ i \in startSpaceType .. FreeListNum
        /\ isSweeping => \A s \in startSpaceType .. i - 1 : Left(s)
    BY <1>5 DEF ClearTaskWaits, ClearInv
  <2>2. \A s \in startSpaceType .. i - 1 : s \in Types
    BY <1>0, <2>1 DEF Types, OLD_SPACE
  <2>3. CASE isSweeping /\ i < FreeListNum /\ remainingTaskNum[i] <= 0
               /\ tindex' = [tindex EXCEPT ![ClearTask] = i + 1] /\ tpc' = tpc
    <3>1. i \in Types
      BY <1>0, <2>1, <2>3 DEF Types, OLD_SPACE
    <3>2. ~Helps(i) /\ \A t \in Types : ~Pending(t, i)
      BY <2>3, <3>1, CountFacts
    <3>3. Left(i)
      BY <3>1, <3>2, NoneLeft DEF Left, Helps
    <3>4. \A s \in startSpaceType .. i : Left(s) /\ s \in Types
      <4>1. \A s \in startSpaceType .. i : s \in startSpaceType .. i - 1 \/ s = i
        BY <1>0, <2>1
      <4> QED BY <2>1, <2>2, <2>3, <3>1, <3>3, <4>1
    <3>5. \A s \in startSpaceType .. i : Left(s)'
      BY <1>1, <1>2, <2>1, <3>4
    <3>6. tindex'[ClearTask] = i + 1 /\ i + 1 \in startSpaceType .. FreeListNum
          /\ (i + 1) - 1 = i
      BY <1>0, <2>1, <2>3
    <3>7. (startSpaceType .. tindex[ClearTask] - 1)' = startSpaceType .. i
      BY <1>1, <2>1, <3>6
    <3>8. tpc'[ClearTask] = "wait"
      BY <2>1, <2>3
    <3> QED BY <1>1, <2>1, <3>5, <3>6, <3>7, <3>8 DEF ClearInv
  <2>4. CASE /\ ~isSweeping \/ i = FreeListNum
             /\ tpc' = [tpc EXCEPT ![ClearTask] = "clear"]
    <3>1. isSweeping => \A s \in SweptSpaces : Left(s)'
      BY <1>0, <1>1, <1>2, <2>1, <2>4 DEF SweptSpaces
    <3>2. tpc'[ClearTask] = "clear"
      BY <1>0, <2>4
    <3> QED BY <1>1, <2>1, <3>1, <3>2 DEF ClearInv
  <2> QED BY <1>5, <2>3, <2>4 DEF ClearTaskWaits
<1>6. CASE tpc'[ClearTask] \in {"idle", "queued"}
  BY <1>6 DEF ClearInv
<1>7. ClearMarkBits => tpc'[ClearTask] = "idle"
  BY <1>0 DEF ClearMarkBits
<1> QED BY <1>3, <1>4, <1>5, <1>6, <1>7, ClearMoves

-----------------------------------------------------------------------------
(* Where the regions are *)

SamePlaces ==
    /\ UNCHANGED <<sweepingList, sweptList, mregion>>
    /\ \A t \in Types : \/ tpc'[t] = tpc[t] /\ tregion'[t] = tregion[t]
                        \/ tpc[t] = "queued" /\ tpc'[t] = "take"

\* The steps that move a region from one place to another.
LEMMA PlacesMove ==
    ASSUME TypeOK, PoolInv, [Next]_vars
    PROVE  \/ SweepConcurrently
           \/ \E t \in Types : TaskStep(t)
           \/ MainTakesRegion \/ MainFreesRegion \/ DrainSweptRegion
           \/ SamePlaces
<1> USE ClearTaskIsNoSweeper
<1>0. DOMAIN tpc = Tasks /\ DOMAIN tregion = Tasks
  BY DEF TypeOK
<1>1. CASE StartTask
  <2>1. UNCHANGED <<sweepingList, sweptList, mregion, tregion>>
    BY <1>1 DEF StartTask, spaceVars, mainVars
  <2> QED BY <1>1, <2>1, StartFacts DEF SamePlaces
<1>2. CASE ClearTaskStep \/ Resume
  <2>1. UNCHANGED <<sweepingList, sweptList, mregion, tregion>>
    BY <1>2 DEF ClearTaskStep, ClearTaskWaits, ClearMarkBits, Resume, spaceVars, mainVars
  <2>2. \A t \in Types : tpc'[t] = tpc[t]
    BY <1>0, <1>2 DEF ClearTaskStep, ClearTaskWaits, ClearMarkBits, Resume
  <2> QED BY <2>1, <2>2 DEF SamePlaces
<1>3. ASSUME UNCHANGED <<sweepingList, sweptList, mregion, tpc, tregion>> PROVE SamePlaces
  BY <1>3 DEF SamePlaces
<1>4. CASE \/ \E r \in Regions, slot \in StoredSlots : Store(r, slot)
           \/ \E type \in Switches : EnableConcurrentSweep(type)
  BY <1>3, <1>4 DEF Store, EnableConcurrentSweep, spaceVars, mainVars, taskVars
<1>5. CASE (\E s \in Types : Allocate(s)) \/ (\E fullGC \in Collections : StartGC(fullGC))
  BY <1>3, <1>5 DEF Allocate, StartGC, spaceVars, mainVars, taskVars
<1>6. CASE CheckRemaining \/ CountIn \/ CountOut \/ WaitTasks \/ FillSweptRegion
  BY <1>3, <1>6 DEF CheckRemaining, CountIn, CountOut, WaitTasks, FillSweptRegion, spaceVars,
     taskVars
<1>7. CASE EnsureAllTaskFinished \/ AllocateAfterSweepingCompleted \/ TryFillSweptRegion
             \/ SweepNow \/ (\E dead \in SUBSET Regions : MarkOldGC(dead) \/ MarkFullGC(dead))
  BY <1>3, <1>7 DEF EnsureAllTaskFinished, AllocateAfterSweepingCompleted,
     TryFillSweptRegion, SweepNow, MarkOldGC, MarkFullGC, taskVars, spaceVars
<1>8. CASE vars' = vars
  BY <1>3, <1>8 DEF vars, taskVars, spaceVars, mainVars
<1> QED
  BY <1>1, <1>2, <1>4, <1>5, <1>6, <1>7, <1>8 DEF Next, MainStep

\* A step of a task touches only that task and the lists.
LEMMA TaskStepFrame ==
    ASSUME TypeOK, NEW u \in Types, TaskStep(u)
    PROVE  /\ UNCHANGED <<mregion, mpc, mtype, caller>>
           /\ \A t \in Types \ {u} : tpc'[t] = tpc[t] /\ tregion'[t] = tregion[t]
<1>0. DOMAIN tpc = Tasks /\ DOMAIN tregion = Tasks
  BY DEF TypeOK
<1>1. UNCHANGED <<mregion, mpc, mtype, caller>>
  BY DEF TaskStep, TakeRegion, FreeRegion, AddSweptRegion, SetSwept, CountDown, mainVars
<1>2. (\A t \in Tasks \ {u} : tpc'[t] = tpc[t]) /\ (\A t \in Tasks \ {u} : tregion'[t] = tregion[t])
  BY <1>0 DEF TaskStep, TakeRegion, FreeRegion, AddSweptRegion, SetSwept, CountDown
<1> QED BY <1>1, <1>2, ClearTaskIsNoSweeper

\* The region a task pops is listed no more and held by it.
LEMMA TaskPops ==
    ASSUME TypeOK, PoolInv, ListInv, NEW t \in Types, TakeRegion(t)
    PROVE  \/ /\ sweepingList' = sweepingList /\ sweptList' = sweptList
              /\ tpc'[t] = "count" /\ tpc[t] = "take" /\ tregion'[t] = tregion[t]
           \/ \E r \in Regions :
                 /\ tpc[t] = "take" /\ tpc'[t] = "free" /\ tregion'[t] = r
                 /\ sweptList' = sweptList
                 /\ Listed(r) /\ \A q \in Regions : Listed(q)' <=> Listed(q) /\ q # r
<1> PICK c : c = TaskSpace(t) OBVIOUS
<1>1. /\ tpc[t] = "take" /\ sweptList' = sweptList
      /\ \/ tpc'[t] = "count" /\ sweepingList' = sweepingList /\ tregion'[t] = tregion[t]
         \/ /\ tpc'[t] = "free" /\ tregion'[t] = LastRegion(c) /\ sweepingList[c] # << >>
            /\ sweepingList' = [sweepingList EXCEPT ![c] = AllButLast(c)]
  BY ClearTaskIsNoSweeper DEF TakeRegion, TypeOK
<1>2. c \in Types
  <2>1. c \in SweptSpaces
    BY <1>1, SpacesOfTasks DEF Active, Sweeps
  <2> QED BY <2>1, SweptFacts DEF TypeOK
<1>3. CASE tpc'[t] = "count" /\ sweepingList' = sweepingList /\ tregion'[t] = tregion[t]
  BY <1>1, <1>3
<1>4. CASE /\ tpc'[t] = "free" /\ tregion'[t] = LastRegion(c) /\ sweepingList[c] # << >>
           /\ sweepingList' = [sweepingList EXCEPT ![c] = AllButLast(c)]
  <2>1. /\ LastRegion(c) \in Regions /\ Listed(LastRegion(c))
        /\ \A q \in Regions : Listed(q)' <=> Listed(q) /\ q # LastRegion(c)
    BY <1>2, <1>4, Popped
  <2> PICK r \in Regions : r = LastRegion(c)
    BY <2>1
  <2>2. /\ tpc[t] = "take" /\ tpc'[t] = "free" /\ tregion'[t] = r
        /\ sweptList' = sweptList
        /\ Listed(r) /\ \A q \in Regions : Listed(q)' <=> Listed(q) /\ q # r
    BY <1>1, <1>4, <2>1
  <2> QED BY <2>2
<1> QED BY <1>1, <1>3, <1>4

LEMMA MainPops ==
    ASSUME TypeOK, MainInv, ListInv, MainTakesRegion
    PROVE  /\ UNCHANGED <<sweptList, tpc, tregion>> /\ mregion = NoRegion
           /\ \/ sweepingList' = sweepingList /\ mregion' = mregion
              \/ \E r \in Regions :
                    /\ mregion' = r
                    /\ Listed(r) /\ \A q \in Regions : Listed(q)' <=> Listed(q) /\ q # r
<1>1. /\ UNCHANGED <<sweptList, tpc, tregion>> /\ mpc = "take"
      /\ \/ sweepingList' = sweepingList /\ mregion' = mregion
         \/ /\ mregion' = LastRegion(mtype) /\ sweepingList[mtype] # << >>
            /\ sweepingList' = [sweepingList EXCEPT ![mtype] = AllButLast(mtype)]
  BY DEF MainTakesRegion, taskVars
<1>2. mregion = NoRegion /\ mtype \in Types
  BY <1>1 DEF MainInv, TypeOK
<1>3. CASE /\ mregion' = LastRegion(mtype) /\ sweepingList[mtype] # << >>
           /\ sweepingList' = [sweepingList EXCEPT ![mtype] = AllButLast(mtype)]
  <2>1. /\ LastRegion(mtype) \in Regions /\ Listed(LastRegion(mtype))
        /\ \A q \in Regions : Listed(q)' <=> Listed(q) /\ q # LastRegion(mtype)
    BY <1>2, <1>3, Popped
  <2> PICK r \in Regions : r = LastRegion(mtype)
    BY <2>1
  <2> QED BY <1>1, <1>2, <1>3, <2>1
<1> QED BY <1>1, <1>2, <1>3

LEMMA OwnInvStep ==
    ASSUME TypeOK, PoolInv, MainInv, CountInv, ListInv, OwnInv, [Next]_vars
    PROVE  OwnInv'
<1>0. /\ NoRegion \notin Regions /\ mtype \in Types
      /\ sweptList \in [Types -> SUBSET Regions]
      /\ \A r \in Regions : SpaceOf[r] \in Types
  BY ConstAssumption DEF TypeOK
<1> DEFINE Own(r) ==
        /\ Listed(r) => mregion # r /\ r \notin sweptList[SpaceOf[r]]
                          /\ \A t \in Types : ~Keeps(t, r)
        /\ mregion = r => r \notin sweptList[SpaceOf[r]] /\ \A t \in Types : ~Keeps(t, r)
        /\ \A t \in Types : Holds(t, r) => r \notin sweptList[SpaceOf[r]]
        /\ \A t, u \in Types : Keeps(t, r) /\ Keeps(u, r) => t = u
<1>1. \A r \in Regions : Own(r)
  BY DEF OwnInv
<1>2. SUFFICES ASSUME NEW r \in Regions PROVE Own(r)'
  BY DEF OwnInv
<1>3. ASSUME Listed(r)' => Listed(r), mregion' = r => mregion = r,
             r \in sweptList'[SpaceOf[r]] => r \in sweptList[SpaceOf[r]],
             \A t \in Types : Keeps(t, r)' => Keeps(t, r),
             \A t \in Types : Holds(t, r)' => Holds(t, r)
      PROVE  Own(r)'
  <2>1. Own(r)
    BY <1>1
  <2> QED BY <1>3, <2>1
<1>4. CASE SweepConcurrently
  <2>1. isSweeping = FALSE
    BY <1>4, SweepBegins
  <2>2. \A t \in Types : tpc'[t] \in {"queued", "idle"}
    BY <1>4, SweepBegins
  <2>3. /\ mregion = NoRegion /\ \A s \in Types : sweptList[s] = {}
        /\ UNCHANGED <<mregion, sweptList>>
    BY <1>4, <2>1, ClosedIsIdle DEF SweepConcurrently
  <2>4. \A t \in Types : ~Keeps(t, r)' /\ ~Holds(t, r)'
    BY <2>2 DEF Keeps, Holds
  <2> QED BY <1>0, <2>3, <2>4
<1>5. CASE SamePlaces
  BY <1>3, <1>5 DEF SamePlaces, Listed, Keeps, Holds
<1>6. ASSUME NEW u \in Types, TaskStep(u) PROVE Own(r)'
  <2>1. mregion' = mregion /\ \A t \in Types \ {u} : tpc'[t] = tpc[t] /\ tregion'[t] = tregion[t]
    BY <1>6, TaskStepFrame
  <2>2. \A t \in Types \ {u} : /\ Keeps(t, r)' <=> Keeps(t, r)
                               /\ Holds(t, r)' <=> Holds(t, r)
    BY <2>1 DEF Keeps, Holds
  <2>3. CASE TakeRegion(u)
    <3>1. CASE /\ sweepingList' = sweepingList /\ sweptList' = sweptList /\ tpc'[u] = "count"
      <4>1. ~Keeps(u, r)' /\ ~Holds(u, r)' /\ (Listed(r)' <=> Listed(r))
        BY <3>1 DEF Keeps, Holds, Listed
      <4> QED BY <1>3, <2>1, <2>2, <3>1, <4>1
    <3>2. ASSUME NEW p \in Regions, tpc[u] = "take", tpc'[u] = "free", tregion'[u] = p,
                 sweptList' = sweptList,
                 Listed(p), \A q \in Regions : Listed(q)' <=> Listed(q) /\ q # p
          PROVE  Own(r)'
      <4>1. CASE r = p
        <5>1. ~Listed(r)'
          BY <3>2, <4>1
        <5>2. mregion' # r /\ r \notin sweptList'[SpaceOf[r]]
          BY <1>1, <2>1, <3>2, <4>1
        <5>3. \A t \in Types \ {u} : ~Keeps(t, r)'
          BY <1>1, <2>2, <3>2, <4>1
        <5> QED BY <5>1, <5>2, <5>3
      <4>2. CASE r # p
        <5>1. ~Keeps(u, r)' /\ ~Holds(u, r)' /\ (Listed(r)' => Listed(r))
          BY <3>2, <4>2 DEF Keeps, Holds
        <5> QED BY <1>3, <2>1, <2>2, <3>2, <5>1
      <4> QED BY <4>1, <4>2
    <3> QED BY <2>3, <3>1, <3>2, TaskPops
  <2>4. CASE FreeRegion(u)
    <3>1. /\ UNCHANGED <<sweepingList, sweptList>> /\ tregion'[u] = tregion[u]
          /\ tpc[u] = "free" /\ tpc'[u] = "add"
      BY <2>4, ClearTaskIsNoSweeper DEF FreeRegion, TypeOK, spaceVars
    <3>2. (Keeps(u, r)' => Keeps(u, r)) /\ (Holds(u, r)' => Holds(u, r)) /\ (Listed(r)' => Listed(r))
      BY <3>1 DEF Keeps, Holds, Listed
    <3> QED BY <1>3, <2>1, <2>2, <3>1, <3>2
  <2>5. CASE AddSweptRegion(u)
    <3> PICK p : p = tregion[u] OBVIOUS
    <3>1. /\ sweepingList' = sweepingList /\ tregion'[u] = p
          /\ tpc[u] = "add" /\ tpc'[u] = "set"
          /\ sweptList' = [sweptList EXCEPT ![SpaceOf[p]] = @ \cup {p}]
      BY <2>5, ClearTaskIsNoSweeper DEF AddSweptRegion, TypeOK
    <3>2. Keeps(u, p) /\ Holds(u, p) /\ ~Holds(u, r)' /\ (Keeps(u, r)' => Keeps(u, r))
          /\ (Listed(r)' <=> Listed(r))
      BY <3>1 DEF Keeps, Holds, Listed
    <3>3. CASE r = p
      <4>1. ~Listed(r)' /\ mregion' # r
        BY <1>1, <2>1, <3>2, <3>3
      <4>2. \A t \in Types \ {u} : ~Keeps(t, r)' /\ ~Holds(t, r)'
        <5>1. \A t \in Types \ {u} : ~Keeps(t, r)
          BY <1>1, <3>2, <3>3
        <5>2. \A t \in Types : Holds(t, r) => Keeps(t, r)
          BY DEF Holds, Keeps
        <5> QED BY <2>2, <5>1, <5>2
      <4> QED BY <3>2, <4>1, <4>2
    <3>4. CASE r # p
      <4>1. r \in sweptList'[SpaceOf[r]] => r \in sweptList[SpaceOf[r]]
        BY <1>0, <3>1, <3>4
      <4> QED BY <1>3, <2>1, <2>2, <3>2, <4>1
    <3> QED BY <3>3, <3>4
  <2>6. CASE SetSwept(u) \/ CountDown(u)
    <3>1. /\ UNCHANGED <<sweepingList, sweptList>> /\ tpc'[u] \in {"take", "idle"}
      BY <2>6, ClearTaskIsNoSweeper DEF SetSwept, CountDown, TypeOK, spaceVars
    <3>2. ~Keeps(u, r)' /\ ~Holds(u, r)' /\ (Listed(r)' => Listed(r))
      BY <3>1 DEF Keeps, Holds, Listed
    <3> QED BY <1>3, <2>1, <2>2, <3>1, <3>2
  <2> QED BY <1>6, <2>3, <2>4, <2>5, <2>6 DEF TaskStep
<1>7. CASE MainTakesRegion
  <2>1. /\ UNCHANGED <<sweptList, tpc, tregion>> /\ mregion = NoRegion
    BY <1>7, MainPops
  <2>2. \A t \in Types : (Keeps(t, r)' <=> Keeps(t, r)) /\ (Holds(t, r)' <=> Holds(t, r))
    BY <2>1 DEF Keeps, Holds
  <2>3. CASE sweepingList' = sweepingList /\ mregion' = mregion
    <3>1. Listed(r)' => Listed(r)
      BY <2>3 DEF Listed
    <3> QED BY <1>3, <2>1, <2>2, <2>3, <3>1
  <2>4. ASSUME NEW p \in Regions, mregion' = p,
               Listed(p), \A q \in Regions : Listed(q)' <=> Listed(q) /\ q # p
        PROVE  Own(r)'
    <3>1. CASE r = p
      <4>1. ~Listed(r)' /\ r \notin sweptList'[SpaceOf[r]] /\ \A t \in Types : ~Keeps(t, r)'
        BY <1>1, <2>1, <2>2, <2>4, <3>1
      <4>2. \A t \in Types : Holds(t, r)' => Keeps(t, r)'
        BY DEF Holds, Keeps
      <4> QED BY <4>1, <4>2
    <3>2. CASE r # p
      BY <1>3, <2>1, <2>2, <2>4, <3>2
    <3> QED BY <3>1, <3>2
  <2> QED BY <1>7, <2>3, <2>4, MainPops
<1>8. CASE MainFreesRegion \/ DrainSweptRegion
  <2>1. /\ UNCHANGED <<sweepingList, tpc, tregion>> /\ mregion' \in {mregion, NoRegion}
    BY <1>8 DEF MainFreesRegion, DrainSweptRegion, taskVars, spaceVars
  <2>2. \A s \in Types : sweptList'[s] \subseteq sweptList[s]
    <3>1. CASE MainFreesRegion
      <4>1. sweptList' = sweptList
        BY <3>1 DEF MainFreesRegion, spaceVars
      <4> QED BY <4>1
    <3>2. CASE DrainSweptRegion
      <4>1. PICK s \in Types, u \in Regions : sweptList' = [sweptList EXCEPT ![s] = @ \ {u}]
        BY <1>0, <3>2 DEF DrainSweptRegion
      <4> QED BY <1>0, <4>1
    <3> QED BY <1>8, <3>1, <3>2
  <2>3. /\ Listed(r)' => Listed(r)
        /\ \A t \in Types : (Keeps(t, r)' => Keeps(t, r)) /\ (Holds(t, r)' => Holds(t, r))
    BY <2>1 DEF Listed, Keeps, Holds
  <2> QED BY <1>0, <1>3, <2>1, <2>2, <2>3
<1> QED BY <1>4, <1>5, <1>6, <1>7, <1>8, PlacesMove

LEMMA AtFacts ==
    /\ \A t, r, pc : At(t, r, pc) <=> tregion[t] = r /\ tpc[t] = pc
    /\ \A t, r, pc : At(t, r, pc)' <=> tregion'[t] = r /\ tpc'[t] = pc
  BY DEF At

\* A region to sweep becomes one to take back, by the task that frees it.
LEMMA PlaceStep ==
    ASSUME TypeOK, PoolInv, MainInv, CountInv, ListInv, [Next]_vars, ~SweepConcurrently,
           NEW r \in Regions
    PROVE  /\ Unfreed(r)' => Unfreed(r)
           /\ Unfreed(r) => \/ Unfreed(r)'
                            \/ MainFreesRegion /\ mregion = r
                            \/ \E t \in Types : FreeRegion(t) /\ tregion[t] = r
           /\ Handed(r) => \/ Handed(r)'
                           \/ DrainSweptRegion /\ r \in sweptList[mtype] /\ r \notin sweptList'[mtype]
           /\ \A t \in Types : FreeRegion(t) /\ tregion[t] = r => Handed(r)'
<1>0. /\ NoRegion \notin Regions /\ mtype \in Types /\ SpaceOf[r] \in Types
      /\ sweptList \in [Types -> SUBSET Regions]
  BY ConstAssumption DEF TypeOK
<1> USE AtFacts
<1>2. ASSUME NEW t \in Types, FreeRegion(t), tregion[t] = r PROVE Handed(r)'
  <2>1. At(t, r, "add")'
    <3>1. tregion' = tregion /\ tpc'[t] = "add"
      BY <1>2, ClearTaskIsNoSweeper, ZenonT(40) DEF FreeRegion, TypeOK
    <3> QED BY <1>2, <3>1
  <2> QED BY <2>1 DEF Handed
<1>3. CASE SamePlaces
  <2>1. \A t \in Types : \A pc \in {"free", "add"} : At(t, r, pc)' <=> At(t, r, pc)
    BY <1>3 DEF SamePlaces
  <2>2. Unfreed(r)' <=> Unfreed(r)
    BY <1>3, <2>1 DEF SamePlaces, Unfreed, Listed
  <2>3. Handed(r)' <=> Handed(r)
    BY <1>3, <2>1 DEF SamePlaces, Handed
  <2> QED BY <1>2, <2>2, <2>3
<1>4. ASSUME NEW u \in Types, TaskStep(u)
      PROVE  /\ Unfreed(r)' => Unfreed(r)
             /\ Unfreed(r) => Unfreed(r)' \/ (FreeRegion(u) /\ tregion[u] = r)
             /\ Handed(r) => Handed(r)'
  <2>1. mregion' = mregion /\ \A t \in Types \ {u} : \A pc : At(t, r, pc)' <=> At(t, r, pc)
    BY <1>4, TaskStepFrame
  <2>2. CASE TakeRegion(u)
    <3>1. CASE /\ sweepingList' = sweepingList /\ sweptList' = sweptList
               /\ tpc'[u] = "count" /\ tpc[u] = "take"
      <4>1. Unfreed(r)' <=> Unfreed(r)
        BY <2>1, <3>1 DEF Unfreed, Listed
      <4>2. Handed(r)' <=> Handed(r)
        BY <2>1, <3>1 DEF Handed
      <4> QED BY <4>1, <4>2
    <3>2. ASSUME NEW p \in Regions, tpc[u] = "take", tpc'[u] = "free", tregion'[u] = p,
                 sweptList' = sweptList,
                 Listed(p), \A q \in Regions : Listed(q)' <=> Listed(q) /\ q # p
          PROVE  (Unfreed(r)' <=> Unfreed(r)) /\ (Handed(r)' <=> Handed(r))
      <4>1. At(u, r, "free")' <=> r = p
        BY <3>2
      <4>2. ~At(u, r, "free") /\ ~At(u, r, "add") /\ ~At(u, r, "add")'
        BY <3>2
      <4>3. Unfreed(r)' <=> Unfreed(r)
        BY <2>1, <3>2, <4>1, <4>2 DEF Unfreed
      <4>4. Handed(r)' <=> Handed(r)
        BY <2>1, <3>2, <4>2 DEF Handed
      <4> QED BY <4>3, <4>4
    <3> QED BY <2>2, <3>1, <3>2, TaskPops
  <2>3. CASE FreeRegion(u)
    <3>1. /\ UNCHANGED <<sweepingList, sweptList>> /\ tregion'[u] = tregion[u]
          /\ tpc[u] = "free" /\ tpc'[u] = "add"
      BY <2>3, ClearTaskIsNoSweeper, ZenonT(40) DEF FreeRegion, TypeOK, spaceVars
    <3>2. /\ At(u, r, "free") <=> tregion[u] = r
          /\ ~At(u, r, "free")' /\ ~At(u, r, "add")
          /\ Listed(r)' <=> Listed(r)
      BY <3>1 DEF Listed
    <3>3. Unfreed(r)' => Unfreed(r)
      BY <2>1, <3>2 DEF Unfreed
    <3>4. Unfreed(r) => Unfreed(r)' \/ tregion[u] = r
      BY <2>1, <3>2 DEF Unfreed
    <3>5. Handed(r) => Handed(r)'
      BY <2>1, <3>1, <3>2 DEF Handed
    <3> QED BY <2>3, <3>3, <3>4, <3>5
  <2>4. CASE AddSweptRegion(u)
    <3>1. /\ sweepingList' = sweepingList /\ tregion'[u] = tregion[u]
          /\ tpc[u] = "add" /\ tpc'[u] = "set"
          /\ sweptList' = [sweptList EXCEPT ![SpaceOf[tregion[u]]] = @ \cup {tregion[u]}]
      BY <2>4, ClearTaskIsNoSweeper, ZenonT(40) DEF AddSweptRegion, TypeOK
    <3>2. ~At(u, r, "free") /\ ~At(u, r, "free")' /\ (Listed(r)' <=> Listed(r))
      BY <3>1 DEF Listed
    <3>3. Unfreed(r)' <=> Unfreed(r)
      BY <2>1, <3>2 DEF Unfreed
    <3>4. r \in sweptList[SpaceOf[r]] => r \in sweptList'[SpaceOf[r]]
      BY <1>0, <3>1
    <3>5. At(u, r, "add") => r \in sweptList'[SpaceOf[r]]
      BY <1>0, <3>1
    <3>6. Handed(r) => Handed(r)'
      BY <2>1, <3>4, <3>5 DEF Handed
    <3> QED BY <3>3, <3>6
  <2>5. CASE SetSwept(u) \/ CountDown(u)
    <3>1. /\ UNCHANGED <<sweepingList, sweptList>> /\ tpc[u] \in {"set", "count"}
          /\ tpc'[u] \in {"take", "idle"}
      <4>1. tpc \in [Tasks -> {"idle", "queued", "take", "free", "add", "set", "count", "wait",
                               "clear"}] /\ u \in Tasks
        BY ClearTaskIsNoSweeper DEF TypeOK
      <4>2. CASE SetSwept(u)
        BY <4>1, <4>2 DEF SetSwept, spaceVars
      <4>3. CASE CountDown(u)
        BY <4>1, <4>3 DEF CountDown, spaceVars
      <4> QED BY <2>5, <4>2, <4>3
    <3>2. \A pc \in {"free", "add"} : ~At(u, r, pc) /\ ~At(u, r, pc)'
      BY <3>1
    <3>3. Unfreed(r)' <=> Unfreed(r)
      BY <2>1, <3>1, <3>2 DEF Unfreed, Listed
    <3>4. Handed(r)' <=> Handed(r)
      BY <2>1, <3>1, <3>2 DEF Handed
    <3> QED BY <3>3, <3>4
  <2> QED BY <1>4, <2>2, <2>3, <2>4, <2>5 DEF TaskStep
<1>5. CASE MainTakesRegion
  <2>1. /\ UNCHANGED <<sweptList, tpc, tregion>> /\ mregion = NoRegion
    BY <1>5, MainPops
  <2>2. \A t \in Types : \A pc : At(t, r, pc)' <=> At(t, r, pc)
    BY <2>1
  <2>3. Handed(r)' <=> Handed(r)
    BY <2>1, <2>2 DEF Handed
  <2>4. CASE sweepingList' = sweepingList /\ mregion' = mregion
    <3>1. Unfreed(r)' <=> Unfreed(r)
      BY <2>2, <2>4 DEF Unfreed, Listed
    <3> QED BY <1>2, <2>3, <3>1
  <2>5. ASSUME NEW p \in Regions, mregion' = p,
               Listed(p), \A q \in Regions : Listed(q)' <=> Listed(q) /\ q # p
        PROVE  Unfreed(r)' <=> Unfreed(r)
    BY <1>0, <2>1, <2>2, <2>5 DEF Unfreed
  <2> QED BY <1>2, <1>5, <2>3, <2>4, <2>5, MainPops
<1>6. CASE MainFreesRegion
  <2>1. /\ UNCHANGED <<sweepingList, sweptList, tpc, tregion>> /\ mregion' = NoRegion
    BY <1>6 DEF MainFreesRegion, taskVars, spaceVars
  <2>2. \A t \in Types : \A pc : At(t, r, pc)' <=> At(t, r, pc)
    BY <2>1
  <2>3. Handed(r)' <=> Handed(r)
    BY <2>1, <2>2 DEF Handed
  <2>4. (Listed(r)' <=> Listed(r)) /\ mregion' # r
    BY <1>0, <2>1 DEF Listed
  <2>5. (Unfreed(r)' => Unfreed(r)) /\ (Unfreed(r) => Unfreed(r)' \/ mregion = r)
    BY <2>2, <2>4 DEF Unfreed
  <2> QED BY <1>2, <1>6, <2>3, <2>5
<1>7. CASE DrainSweptRegion
  <2>1. /\ UNCHANGED <<sweepingList, mregion, tpc, tregion>>
        /\ \A s \in Types : s # mtype => sweptList'[s] = sweptList[s]
    BY <1>0, <1>7 DEF DrainSweptRegion, taskVars
  <2>2. \A t \in Types : \A pc : At(t, r, pc)' <=> At(t, r, pc)
    BY <2>1
  <2>3. Unfreed(r)' <=> Unfreed(r)
    BY <2>1, <2>2 DEF Unfreed, Listed
  <2>4. Handed(r) => Handed(r)' \/ (r \in sweptList[mtype] /\ r \notin sweptList'[mtype])
    BY <1>0, <2>1, <2>2 DEF Handed
  <2> QED BY <1>2, <1>7, <2>3, <2>4
<1> QED BY <1>2, <1>3, <1>4, <1>5, <1>6, <1>7, PlacesMove

-----------------------------------------------------------------------------
(* The memory and the remembered sets of the regions *)

\* A step that leaves the data of region r alone, and its place but for
\* handing it over.
LEMMA QuietRegion ==
    ASSUME NEW r, RegionInv(r),
           memory'[r] = memory[r], oldToNewSet'[r] = oldToNewSet[r],
           sweepingRSet'[r] = sweepingRSet[r], marked'[r] = marked[r],
           stored'[r] = stored[r],
           hasBeenSwept'[r] = hasBeenSwept[r] \/ hasBeenSwept'[r] = FALSE \/ ~Unfreed(r),
           mpc' = "sweep" <=> mpc = "sweep",
           mpc = "sweep" => SweptSpaces' = SweptSpaces,
           taintedRegions' = taintedRegions,
           Unfreed(r)' <=> Unfreed(r), Handed(r) => Handed(r)'
    PROVE  RegionInv(r)'
<1>1. DataOf(r)'
  BY DEF RegionInv, DataOf
<1>2. SlotsOf(r)'
  BY DEF RegionInv, SlotsOf, SetOf
<1>3. r \notin taintedRegions' => FreshOf(r)'
  BY DEF RegionInv, FreshOf, SetOf
<1> QED BY <1>1, <1>2, <1>3 DEF RegionInv

\* The steps that change the data of a region.
TouchesRegions ==
    \/ \E t \in Types : FreeRegion(t) \/ SetSwept(t)
    \/ ClearMarkBits \/ MainFreesRegion \/ DrainSweptRegion
    \/ \E r \in Regions, slot \in StoredSlots : Store(r, slot)
    \/ (\E s \in Types : Allocate(s)) \/ AllocateAfterSweepingCompleted
    \/ \E dead \in SUBSET Regions : MarkOldGC(dead) \/ MarkFullGC(dead)
    \/ SweepConcurrently \/ SweepNow

LEMMA DataStays ==
    ASSUME [Next]_vars, ~TouchesRegions
    PROVE  /\ UNCHANGED <<memory, oldToNewSet, sweepingRSet, marked, stored, hasBeenSwept,
                          taintedRegions>>
           /\ mpc' = "sweep" <=> mpc = "sweep"
<1>1. CASE StartTask
  BY <1>1 DEF StartTask, regionVars, rsetVars, gcVars, mainVars
<1>2. ASSUME NEW t \in Types, TaskStep(t)
      PROVE  /\ UNCHANGED <<memory, oldToNewSet, sweepingRSet, marked, stored, hasBeenSwept,
                            taintedRegions>>
             /\ mpc' = mpc
  BY <1>2 DEF TouchesRegions, TaskStep, TakeRegion, AddSweptRegion, CountDown, regionVars, rsetVars,
     gcVars, mainVars
<1>3. CASE ClearTaskStep
  BY <1>3 DEF TouchesRegions, ClearTaskStep, ClearTaskWaits, regionVars, rsetVars, gcVars, mainVars
<1>4. CASE (\E type \in Switches : EnableConcurrentSweep(type)) \/ vars' = vars
  BY <1>4 DEF EnableConcurrentSweep, regionVars, rsetVars, gcVars, mainVars, vars
<1>5. CASE \E fullGC \in Collections : StartGC(fullGC)
  BY <1>5 DEF StartGC, regionVars, rsetVars
<1>6. CASE CheckRemaining \/ CountIn \/ MainTakesRegion \/ CountOut \/ WaitTasks \/ FillSweptRegion
  BY <1>6 DEF CheckRemaining, CountIn, MainTakesRegion, CountOut, WaitTasks, FillSweptRegion,
     mainFrame, gcVars
<1>7. CASE EnsureAllTaskFinished \/ TryFillSweptRegion \/ Resume
  BY <1>7 DEF EnsureAllTaskFinished, TryFillSweptRegion, Resume, Return, regionVars, rsetVars, gcVars
<1> QED BY <1>1, <1>2, <1>3, <1>4, <1>5, <1>6, <1>7 DEF Next, MainStep, TouchesRegions

LEMMA DataTypes ==
    ASSUME TypeOK
    PROVE  /\ memory \in [Regions -> {"used", "garbage", "inRegion", "free"}]
           /\ oldToNewSet \in [Regions -> (SUBSET Slots) \cup {NoSet}]
           /\ sweepingRSet \in [Regions -> (SUBSET Slots) \cup {NoSet}]
           /\ hasBeenSwept \in [Regions -> BOOLEAN] /\ marked \in [Regions -> BOOLEAN]
           /\ stored \in [Regions -> SUBSET Slots]
           /\ sweptList \in [Types -> SUBSET Regions] /\ mtype \in Types
           /\ NoSet \notin SUBSET Slots
           /\ \A r \in Regions : SpaceOf[r] \in Types
           /\ DOMAIN tpc = Tasks /\ DOMAIN tregion = Tasks
           /\ \A r \in Regions : /\ sweepingRSet[r] = NoSet \/ sweepingRSet[r] \in SUBSET Slots
                                 /\ oldToNewSet[r] = NoSet \/ oldToNewSet[r] \in SUBSET Slots
                                 /\ SetOf(oldToNewSet[r]) \in SUBSET Slots
                                 /\ SetOf(sweepingRSet[r]) \in SUBSET Slots
<1>1. /\ memory \in [Regions -> {"used", "garbage", "inRegion", "free"}]
      /\ oldToNewSet \in [Regions -> (SUBSET Slots) \cup {NoSet}]
      /\ sweepingRSet \in [Regions -> (SUBSET Slots) \cup {NoSet}]
      /\ hasBeenSwept \in [Regions -> BOOLEAN] /\ marked \in [Regions -> BOOLEAN]
      /\ stored \in [Regions -> SUBSET Slots]
      /\ sweptList \in [Types -> SUBSET Regions] /\ mtype \in Types
      /\ NoSet \notin SUBSET Slots
      /\ \A r \in Regions : SpaceOf[r] \in Types
      /\ DOMAIN tpc = Tasks /\ DOMAIN tregion = Tasks
  BY ConstAssumption, NoSetAssumption DEF TypeOK
<1>2. ASSUME NEW r \in Regions
      PROVE  /\ sweepingRSet[r] = NoSet \/ sweepingRSet[r] \in SUBSET Slots
             /\ oldToNewSet[r] = NoSet \/ oldToNewSet[r] \in SUBSET Slots
  <2>1. oldToNewSet[r] \in (SUBSET Slots) \cup {NoSet} /\ sweepingRSet[r] \in (SUBSET Slots) \cup {NoSet}
    BY ONLY <1>1, r \in Regions
  <2> QED BY ONLY <2>1
<1>3. \A x : x = NoSet \/ x \in SUBSET Slots => SetOf(x) \in SUBSET Slots
  BY DEF SetOf
<1> QED BY ONLY <1>1, <1>2, <1>3

\* A step on another region is a quiet one for r.
LEMMA PlaceFacts ==
    ASSUME TypeOK, PoolInv, MainInv, CountInv, ListInv, [Next]_vars, ~SweepConcurrently,
           NEW r \in Regions
    PROVE  /\ Unfreed(r)' => Unfreed(r)
           /\ Unfreed(r) /\ ~(MainFreesRegion /\ mregion = r)
                /\ (\A t \in Types : FreeRegion(t) => tregion[t] # r) => Unfreed(r)'
           /\ Handed(r) /\ ~DrainSweptRegion => Handed(r)'
           /\ Handed(r) /\ (r \in sweptList[mtype] => r \in sweptList'[mtype]) => Handed(r)'
           /\ \A t \in Types : FreeRegion(t) /\ tregion[t] = r => Handed(r)'
  BY PlaceStep

\* A task frees the garbage of the region it holds.
LEMMA TaskFreesData ==
    ASSUME TypeOK, PoolInv, MainInv, CountInv, ListInv, OwnInv, DataInv,
           NEW u \in Types, FreeRegion(u), NEW r \in Regions
    PROVE  RegionInv(r)'
<1> USE ClearTaskIsNoSweeper
<1> PICK p : p = tregion[u] OBVIOUS
<1>1. /\ tpc[u] = "free" /\ isSweeping = TRUE /\ p \in Regions
      /\ enableType \in {"ENABLE", "REQUEST_DISABLE"} /\ mpc # "sweep"
  <2>1. tpc[u] = "free"
    BY DEF FreeRegion
  <2>2. isSweeping = TRUE /\ p \in Regions
    BY <2>1 DEF PoolInv, TypeOK
  <2> QED BY <2>1, <2>2 DEF MainInv
<1>2. /\ sweepingRSet' = [sweepingRSet EXCEPT ![p] = ClearRange(@, p)]
      /\ memory' = [memory EXCEPT ![p] = Freed(p, FALSE)]
      /\ UNCHANGED <<oldToNewSet, hasBeenSwept, stored, marked, mpc, taintedRegions>>
  BY <1>1 DEF FreeRegion, mainVars, gcVars
<1>3. [Next]_vars /\ ~SweepConcurrently
  BY <1>1 DEF Next, TaskStep, SweepConcurrently
<1>4. RegionInv(r)
  BY DEF DataInv
<1>5. /\ Unfreed(r)' => Unfreed(r)
      /\ Handed(r) => Handed(r)'
      /\ p = r => Handed(r)'
      /\ p # r => (Unfreed(r) => Unfreed(r)')
  <2>1. ~MainFreesRegion /\ ~DrainSweptRegion
    <3>1. tpc'[u] = "add"
      BY DEF FreeRegion, TypeOK
    <3> QED BY <1>1, <3>1 DEF MainFreesRegion, DrainSweptRegion, taskVars
  <2>2. \A t \in Types : FreeRegion(t) => t = u
    <3> TAKE t \in Types
    <3> HAVE FreeRegion(t)
    <3>1. tpc' = [tpc EXCEPT ![t] = "add"] /\ tpc' = [tpc EXCEPT ![u] = "add"]
      BY DEF FreeRegion
    <3> QED BY <1>1, <3>1, DataTypes
  <2> HIDE DEF Unfreed, Handed
  <2> QED BY <1>3, <2>1, <2>2, PlaceFacts
<1>6. CASE r # p
  <2>1. memory'[r] = memory[r] /\ sweepingRSet'[r] = sweepingRSet[r]
    BY <1>2, <1>6, DataTypes
  <2> QED BY <1>1, <1>2, <1>4, <1>5, <1>6, <2>1, QuietRegion
<1>7. CASE r = p
  <2>1. /\ sweepingRSet'[r] = IF sweepingRSet[r] = NoSet \/ memory[r] # "garbage"
                              THEN sweepingRSet[r] ELSE sweepingRSet[r] \ {"dying"}
        /\ memory'[r] = IF memory[r] # "garbage" THEN memory[r] ELSE "inRegion"
    BY <1>2, <1>7, DataTypes DEF ClearRange, Freed
  <2>2. /\ memory[r] # "used" => "dying" \notin stored[r]
        /\ \A x \in stored[r] : x \in SetOf(oldToNewSet[r]) \/ x \in SetOf(sweepingRSet[r])
        /\ Unfreed(r) => marked[r] = TRUE
    BY <1>4 DEF RegionInv, SlotsOf, DataOf
  <2>3. /\ memory'[r] # "garbage" /\ mpc' # "sweep" /\ Handed(r)'
        /\ memory'[r] = "used" <=> memory[r] = "used"
    <3>1. memory'[r] # "garbage" /\ (memory'[r] = "used" <=> memory[r] = "used")
      BY ONLY <2>1
    <3>2. mpc' = mpc
      BY ONLY <1>2
    <3>3. mpc' # "sweep" /\ Handed(r)'
      BY ONLY <1>1, <1>5, <1>7, <3>2
    <3> QED BY ONLY <3>1, <3>3
  <2>4. DataOf(r)'
    <3>1. Unfreed(r)' => marked'[r] = TRUE
      BY ONLY <1>2, <1>5, <2>2
    <3> QED BY ONLY <2>3, <3>1 DEF DataOf
  <2>5. \A x : x \in SetOf(sweepingRSet'[r]) <=>
                  x \in SetOf(sweepingRSet[r]) /\ (x # "dying" \/ memory[r] # "garbage")
    <3>1. CASE sweepingRSet[r] = NoSet \/ memory[r] # "garbage"
      BY <2>1, <3>1 DEF SetOf
    <3>2. CASE sweepingRSet[r] # NoSet /\ memory[r] = "garbage"
      <4>1. /\ sweepingRSet'[r] = sweepingRSet[r] \ {"dying"}
            /\ SetOf(sweepingRSet[r]) = sweepingRSet[r] /\ sweepingRSet[r] \in SUBSET Slots
        BY <2>1, <3>2, DataTypes DEF SetOf
      <4>2. sweepingRSet'[r] # NoSet
        BY <4>1, NoSetAssumption
      <4> QED BY <3>2, <4>1, <4>2 DEF SetOf
    <3> QED BY <3>1, <3>2
  <2>6. SlotsOf(r)'
    <3>1. oldToNewSet' = oldToNewSet /\ stored' = stored
      BY ONLY <1>2
    <3>2. \A x \in stored'[r] : x \in SetOf(oldToNewSet'[r]) \/ x \in SetOf(sweepingRSet'[r])
      BY ONLY <3>1, <2>2, <2>5
    <3>3. memory'[r] # "used" => "dying" \notin stored'[r]
      BY ONLY <3>1, <2>2, <2>3
    <3> QED BY ONLY <3>2, <3>3 DEF SlotsOf
  <2>7. r \notin taintedRegions => FreshOf(r)'
    <3> HAVE r \notin taintedRegions
    <3>1. /\ Unfreed(r) => hasBeenSwept[r] = FALSE
          /\ memory[r] = "garbage" => "dying" \notin SetOf(oldToNewSet[r])
          /\ memory[r] \in {"inRegion", "free"} =>
                "dying" \notin SetOf(oldToNewSet[r]) /\ "dying" \notin SetOf(sweepingRSet[r])
      BY <1>1, <1>4 DEF RegionInv, FreshOf
    <3>2. hasBeenSwept' = hasBeenSwept /\ oldToNewSet' = oldToNewSet
      BY ONLY <1>2
    <3>3. Unfreed(r)' => hasBeenSwept'[r] = FALSE
      BY ONLY <1>5, <3>1, <3>2
    <3>4. memory'[r] \in {"inRegion", "free"} =>
             "dying" \notin SetOf(oldToNewSet'[r]) /\ "dying" \notin SetOf(sweepingRSet'[r])
      BY ONLY <2>1, <2>5, <3>1, <3>2
    <3> QED BY ONLY <2>3, <3>3, <3>4 DEF FreshOf
  <2> QED BY <1>2, <2>4, <2>6, <2>7 DEF RegionInv
<1> QED BY <1>6, <1>7

\* The JS thread frees the garbage of the region it holds and merges its sets.
LEMMA MainFreesData ==
    ASSUME TypeOK, PoolInv, MainInv, CountInv, ListInv, OwnInv, DataInv,
           MainFreesRegion, NEW r \in Regions
    PROVE  RegionInv(r)'
<1> PICK p : p = mregion OBVIOUS
<1>1. /\ mpc = "free" /\ mpc' = "take" /\ isSweeping = TRUE /\ p \in Regions
      /\ enableType \in {"ENABLE", "REQUEST_DISABLE"}
  BY DEF MainFreesRegion, MainInv, Waits
<1>2. /\ memory' = [memory EXCEPT ![p] = Freed(p, TRUE)]
      /\ oldToNewSet' = [oldToNewSet EXCEPT ![p] =
             IF ClearRange(sweepingRSet[p], p) = NoSet THEN @
             ELSE SetOf(@) \cup ClearRange(sweepingRSet[p], p)]
      /\ sweepingRSet' = [sweepingRSet EXCEPT ![p] = NoSet]
      /\ UNCHANGED <<hasBeenSwept, stored, marked, taintedRegions>>
  BY <1>1 DEF MainFreesRegion, mainFrame, gcVars
<1>3. [Next]_vars /\ ~SweepConcurrently
  BY <1>1 DEF Next, MainStep, SweepConcurrently
<1>4. RegionInv(r)
  BY DEF DataInv
<1>5. /\ Unfreed(r)' => Unfreed(r)
      /\ Handed(r) => Handed(r)'
      /\ p # r => (Unfreed(r) => Unfreed(r)')
  <2>1. ~DrainSweptRegion /\ \A t \in Types : ~FreeRegion(t)
    BY <1>1 DEF FreeRegion, mainVars, DrainSweptRegion
  <2> QED BY <1>3, <2>1, PlaceFacts
<1>6. CASE r # p
  <2>1. memory'[r] = memory[r] /\ sweepingRSet'[r] = sweepingRSet[r] /\ oldToNewSet'[r] = oldToNewSet[r]
    BY <1>2, <1>6, DataTypes
  <2> QED BY <1>1, <1>2, <1>4, <1>5, <1>6, <2>1, QuietRegion
<1>7. CASE r = p
  <2>1. /\ memory'[r] = IF memory[r] # "garbage" THEN memory[r] ELSE "free"
        /\ sweepingRSet'[r] = NoSet
    BY <1>2, <1>7, DataTypes DEF Freed
  <2>3. /\ "dying" \in SetOf(oldToNewSet'[r]) =>
               \/ "dying" \in SetOf(oldToNewSet[r])
               \/ "dying" \in SetOf(sweepingRSet[r]) /\ memory[r] # "garbage"
        /\ \A x : /\ x \in SetOf(oldToNewSet[r]) => x \in SetOf(oldToNewSet'[r])
                  /\ x \in SetOf(sweepingRSet[r]) /\ (x # "dying" \/ memory[r] # "garbage") =>
                        x \in SetOf(oldToNewSet'[r])
    <3>1. sweepingRSet[r] = NoSet \/ sweepingRSet[r] \in SUBSET Slots
      BY DataTypes
    <3>2. CASE sweepingRSet[r] = NoSet
      <4>1. oldToNewSet'[r] = oldToNewSet[r] /\ SetOf(sweepingRSet[r]) = {}
        BY <1>2, <1>7, <3>2, DataTypes DEF ClearRange, SetOf
      <4> QED BY <4>1
    <3>3. CASE sweepingRSet[r] \in SUBSET Slots
      <4>1. PICK c : c = ClearRange(sweepingRSet[r], r) OBVIOUS
      <4>2. /\ c \in SUBSET Slots /\ c # NoSet /\ SetOf(sweepingRSet[r]) = sweepingRSet[r]
            /\ c = IF memory[r] # "garbage" THEN sweepingRSet[r] ELSE sweepingRSet[r] \ {"dying"}
        BY <3>3, <4>1, DataTypes DEF ClearRange, SetOf
      <4>3. oldToNewSet'[r] = SetOf(oldToNewSet[r]) \cup c
        BY <1>2, <1>7, <4>1, <4>2, DataTypes
      <4>4. oldToNewSet'[r] # NoSet
        <5>1. SetOf(oldToNewSet[r]) \in SUBSET Slots
          BY DataTypes
        <5> QED BY <4>2, <4>3, <5>1, DataTypes
      <4>5. SetOf(oldToNewSet'[r]) = SetOf(oldToNewSet[r]) \cup c
        BY <4>3, <4>4 DEF SetOf
      <4> QED BY <4>2, <4>5
    <3> QED BY <3>1, <3>2, <3>3
  <2>4. SetOf(sweepingRSet'[r]) = {}
    BY <2>1 DEF SetOf
  <2>5. DataOf(r)'
    <3>1. /\ Unfreed(r) => marked[r] = TRUE
          /\ memory[r] = "inRegion" => Handed(r)
      BY <1>4 DEF RegionInv, DataOf
    <3>2. Unfreed(r)' => marked'[r] = TRUE
      BY ONLY <1>2, <1>5, <3>1
    <3>3. /\ memory'[r] # "garbage" /\ mpc' # "sweep" /\ sweepingRSet'[r] = NoSet
          /\ memory'[r] = "inRegion" => Handed(r)'
      BY ONLY <1>1, <1>5, <2>1, <3>1
    <3> QED BY ONLY <3>2, <3>3 DEF DataOf
  <2>6. SlotsOf(r)'
    <3>1. /\ memory[r] # "used" => "dying" \notin stored[r]
          /\ \A x \in stored[r] : x \in SetOf(oldToNewSet[r]) \/ x \in SetOf(sweepingRSet[r])
      BY <1>4 DEF RegionInv, SlotsOf
    <3>2. \A x \in stored'[r] : x \in SetOf(oldToNewSet'[r])
      BY <1>2, <2>3, <3>1
    <3>3. memory'[r] # "used" => "dying" \notin stored'[r]
      BY <1>2, <2>1, <3>1
    <3> QED BY <3>2, <3>3 DEF SlotsOf
  <2>7. r \notin taintedRegions => FreshOf(r)'
    <3> HAVE r \notin taintedRegions
    <3>1. /\ Unfreed(r) => hasBeenSwept[r] = FALSE
          /\ memory[r] = "garbage" => "dying" \notin SetOf(oldToNewSet[r])
          /\ memory[r] \in {"inRegion", "free"} =>
                "dying" \notin SetOf(oldToNewSet[r]) /\ "dying" \notin SetOf(sweepingRSet[r])
      BY <1>1, <1>4 DEF RegionInv, FreshOf
    <3>2. hasBeenSwept' = hasBeenSwept /\ memory'[r] # "garbage"
      <4>1. hasBeenSwept' = hasBeenSwept
        BY ONLY <1>2
      <4> QED BY ONLY <2>1, <4>1
    <3>4. Unfreed(r)' => hasBeenSwept'[r] = FALSE
      BY ONLY <1>5, <3>1, <3>2
    <3>3. memory'[r] \in {"inRegion", "free"} => "dying" \notin SetOf(oldToNewSet'[r])
      BY <2>1, <2>3, <3>1
    <3> QED BY ONLY <2>4, <3>2, <3>3, <3>4 DEF FreshOf
  <2> QED BY <1>2, <2>5, <2>6, <2>7 DEF RegionInv
<1> QED BY <1>6, <1>7

\* The JS thread takes back a swept region and merges its sets.
LEMMA DrainData ==
    ASSUME TypeOK, PoolInv, MainInv, CountInv, ListInv, OwnInv, DataInv,
           DrainSweptRegion, NEW r \in Regions
    PROVE  RegionInv(r)'
<1>1. /\ mpc = "drain" /\ mpc' # "sweep"
      /\ UNCHANGED <<stored, marked, taintedRegions, mtype>>
  BY DEF DrainSweptRegion, mainFrame, gcVars
<1>2. [Next]_vars /\ ~SweepConcurrently
  BY <1>1 DEF Next, MainStep, SweepConcurrently
<1>3. RegionInv(r)
  BY DEF DataInv
<1>4. /\ Unfreed(r)' <=> Unfreed(r)
      /\ (r \in sweptList[mtype] => r \in sweptList'[mtype]) => (Handed(r) => Handed(r)')
  <2>1. ~MainFreesRegion /\ \A t \in Types : ~FreeRegion(t)
    <3>1. tpc' = tpc
      BY DEF DrainSweptRegion, taskVars
    <3> QED BY <1>1, <3>1, DataTypes, ClearTaskIsNoSweeper DEF MainFreesRegion, FreeRegion
  <2> QED BY <1>2, <2>1, PlaceFacts
<1>5. CASE UNCHANGED <<sweptList, memory, hasBeenSwept, oldToNewSet, sweepingRSet>>
  <2>1. (Handed(r) => Handed(r)') /\ (mpc' = "sweep" <=> mpc = "sweep")
    BY <1>1, <1>4, <1>5
  <2> QED BY <1>1, <1>3, <1>4, <1>5, <2>1, QuietRegion
<1>6. ASSUME NEW p \in sweptList[mtype],
             sweptList' = [sweptList EXCEPT ![mtype] = @ \ {p}],
             memory' = [memory EXCEPT ![p] = IF @ = "inRegion" THEN "free" ELSE @],
             hasBeenSwept' = [hasBeenSwept EXCEPT ![p] = FALSE],
             MergeRSetForConcurrentSweeping(p)
      PROVE  RegionInv(r)'
  <2>1. p \in Regions /\ SpaceOf[p] = mtype
    BY <1>6, DataTypes DEF ListInv
  <2>2. /\ oldToNewSet' = [oldToNewSet EXCEPT ![p] =
               IF sweepingRSet[p] = NoSet THEN @ ELSE SetOf(@) \cup sweepingRSet[p]]
        /\ sweepingRSet' = [sweepingRSet EXCEPT ![p] = NoSet]
    BY <1>6 DEF MergeRSetForConcurrentSweeping
  <2>3. CASE r # p
    <3>1. /\ memory'[r] = memory[r] /\ hasBeenSwept'[r] = hasBeenSwept[r]
          /\ oldToNewSet'[r] = oldToNewSet[r] /\ sweepingRSet'[r] = sweepingRSet[r]
      BY <1>6, <2>2, <2>3, DataTypes
    <3>2. Handed(r) => Handed(r)'
      BY <1>4, <1>6, <2>3, DataTypes
    <3> QED BY <1>1, <1>3, <1>4, <3>1, <3>2, QuietRegion
  <2>4. CASE r = p
    <3>1. /\ memory'[r] = IF memory[r] = "inRegion" THEN "free" ELSE memory[r]
          /\ hasBeenSwept'[r] = FALSE /\ sweepingRSet'[r] = NoSet
      BY <1>6, <2>1, <2>2, <2>4, DataTypes
    <3>2. ~Unfreed(r)
      BY <2>1, <2>4 DEF OwnInv, Unfreed, At, Holds
    <3>3. /\ memory[r] # "used" => "dying" \notin stored[r]
          /\ \A x \in stored[r] : x \in SetOf(oldToNewSet[r]) \/ x \in SetOf(sweepingRSet[r])
          /\ memory[r] # "garbage"
      BY <1>1, <1>3, <3>2 DEF RegionInv, SlotsOf, DataOf
    <3>4. \A x : x \in SetOf(oldToNewSet'[r]) <=> x \in SetOf(oldToNewSet[r]) \/ x \in SetOf(sweepingRSet[r])
      <4>1. CASE sweepingRSet[r] = NoSet
        <5>1. oldToNewSet'[r] = oldToNewSet[r] /\ SetOf(sweepingRSet[r]) = {}
          BY <2>1, <2>2, <2>4, <4>1, DataTypes DEF SetOf
        <5> QED BY <5>1
      <4>2. CASE sweepingRSet[r] # NoSet
        <5>1. /\ oldToNewSet'[r] = SetOf(oldToNewSet[r]) \cup sweepingRSet[r]
              /\ SetOf(sweepingRSet[r]) = sweepingRSet[r]
          BY <2>1, <2>2, <2>4, <4>2, DataTypes DEF SetOf
        <5>2. oldToNewSet'[r] # NoSet
          BY <4>2, <5>1, DataTypes
        <5>3. SetOf(oldToNewSet'[r]) = oldToNewSet'[r]
          BY <5>2 DEF SetOf
        <5> QED BY <5>1, <5>3
      <4> QED BY <4>1, <4>2
    <3>5. SetOf(sweepingRSet'[r]) = {}
      BY <3>1 DEF SetOf
    <3>6. memory'[r] \notin {"garbage", "inRegion"} /\ (memory'[r] = "used" <=> memory[r] = "used")
      BY ONLY <3>1, <3>3
    <3>7. DataOf(r)'
      <4>1. ~Unfreed(r)' /\ mpc' # "sweep"
        BY <1>1, <1>4, <3>2
      <4> QED BY ONLY <3>1, <3>6, <4>1 DEF DataOf
    <3>8. SlotsOf(r)'
      <4>1. stored' = stored
        BY <1>1
      <4>2. \A x \in stored'[r] : x \in SetOf(oldToNewSet'[r])
        BY ONLY <3>3, <3>4, <4>1
      <4>3. memory'[r] # "used" => "dying" \notin stored'[r]
        BY ONLY <3>3, <3>6, <4>1
      <4> QED BY ONLY <4>2, <4>3 DEF SlotsOf
    <3>9. r \notin taintedRegions => FreshOf(r)'
      <4> HAVE r \notin taintedRegions
      <4>1. memory[r] \in {"inRegion", "free"} =>
                "dying" \notin SetOf(oldToNewSet[r]) /\ "dying" \notin SetOf(sweepingRSet[r])
        BY <1>3 DEF RegionInv, FreshOf
      <4>2. memory'[r] \in {"inRegion", "free"} => "dying" \notin SetOf(oldToNewSet'[r])
        BY ONLY <3>1, <3>4, <4>1
      <4> QED BY ONLY <3>1, <3>5, <3>6, <4>2 DEF FreshOf
    <3> QED BY <1>1, <3>7, <3>8, <3>9 DEF RegionInv
  <2> QED BY <2>3, <2>4
<1>7. \/ UNCHANGED <<sweptList, memory, hasBeenSwept, oldToNewSet, sweepingRSet>>
      \/ \E p \in sweptList[mtype] :
             /\ sweptList' = [sweptList EXCEPT ![mtype] = @ \ {p}]
             /\ memory' = [memory EXCEPT ![p] = IF @ = "inRegion" THEN "free" ELSE @]
             /\ hasBeenSwept' = [hasBeenSwept EXCEPT ![p] = FALSE]
             /\ MergeRSetForConcurrentSweeping(p)
  BY DEF DrainSweptRegion
<1> QED BY <1>5, <1>6, <1>7

\* The program stores a reference; a swept region's set may be taken over.
LEMMA StoreData ==
    ASSUME TypeOK, PoolInv, MainInv, CountInv, ListInv, OwnInv, DataInv,
           NEW p \in Regions, NEW slot \in StoredSlots, Store(p, slot), NEW r \in Regions
    PROVE  RegionInv(r)'
<1>1. /\ mpc = "run" /\ mpc' = "run" /\ (slot = "dying" => memory[p] = "used")
      /\ UNCHANGED <<memory, hasBeenSwept, marked, taintedRegions>>
      /\ stored' = [stored EXCEPT ![p] = @ \cup {slot}]
      /\ slot \in Slots
  BY ConstAssumption DEF Store, mainVars, gcVars, Slots
<1>2. [Next]_vars /\ ~SweepConcurrently
  BY <1>1 DEF Next, SweepConcurrently
<1>3. RegionInv(r)
  BY DEF DataInv
<1>4. (Unfreed(r)' <=> Unfreed(r)) /\ (Handed(r) => Handed(r)')
  <2>1. ~MainFreesRegion /\ ~DrainSweptRegion
    BY <1>1 DEF MainFreesRegion, DrainSweptRegion
  <2>2. \A t \in Types : ~FreeRegion(t)
    <3>1. tpc' = tpc
      BY DEF Store, taskVars
    <3> QED BY <3>1, DataTypes, ClearTaskIsNoSweeper DEF FreeRegion
  <2> QED BY <1>2, <2>1, <2>2, PlaceFacts
<1>5. CASE r # p
  <2>1. stored'[r] = stored[r] /\ oldToNewSet'[r] = oldToNewSet[r] /\ sweepingRSet'[r] = sweepingRSet[r]
    BY <1>1, <1>5, DataTypes DEF Store
  <2> QED BY <1>1, <1>3, <1>4, <2>1, QuietRegion
<1>6. CASE r = p
  <2>1. stored'[r] = stored[r] \cup {slot}
    BY <1>1, <1>6, DataTypes
  <2>2. /\ memory[r] # "used" => "dying" \notin stored[r]
        /\ \A x \in stored[r] : x \in SetOf(oldToNewSet[r]) \/ x \in SetOf(sweepingRSet[r])
        /\ memory[r] = "garbage" => Unfreed(r)
        /\ memory[r] = "inRegion" => Handed(r)
        /\ sweepingRSet[r] # NoSet => Unfreed(r) \/ Handed(r)
        /\ Unfreed(r) => marked[r] = TRUE
    BY <1>1, <1>3 DEF RegionInv, SlotsOf, DataOf
  <2>3. /\ sweepingRSet'[r] = NoSet \/ sweepingRSet'[r] = sweepingRSet[r]
        /\ \A x : x \in SetOf(oldToNewSet'[r]) \/ x \in SetOf(sweepingRSet'[r]) <=>
                      x \in SetOf(oldToNewSet[r]) \/ x \in SetOf(sweepingRSet[r]) \/ x = slot
        /\ hasBeenSwept[r] = FALSE =>
               \A x : x \in SetOf(oldToNewSet'[r]) <=> x \in SetOf(oldToNewSet[r]) \/ x = slot
    <3>1. CASE oldToNewSet[r] = NoSet /\ sweepingRSet[r] # NoSet /\ hasBeenSwept[r]
      <4>1. oldToNewSet'[r] = sweepingRSet[r] \cup {slot} /\ sweepingRSet'[r] = NoSet
        BY <1>6, <3>1, DataTypes DEF Store
      <4>2. SetOf(oldToNewSet[r]) = {} /\ SetOf(sweepingRSet[r]) = sweepingRSet[r]
        BY <3>1 DEF SetOf
      <4>3. oldToNewSet'[r] # NoSet
        BY <1>1, <3>1, <4>1, DataTypes
      <4>4. SetOf(oldToNewSet'[r]) = sweepingRSet[r] \cup {slot} /\ SetOf(sweepingRSet'[r]) = {}
        BY <4>1, <4>3 DEF SetOf
      <4> QED BY <3>1, <4>1, <4>2, <4>4
    <3>2. CASE ~(oldToNewSet[r] = NoSet /\ sweepingRSet[r] # NoSet /\ hasBeenSwept[r])
      <4>1. oldToNewSet'[r] = SetOf(oldToNewSet[r]) \cup {slot} /\ sweepingRSet'[r] = sweepingRSet[r]
        BY <1>6, <3>2, DataTypes DEF Store
      <4>2. oldToNewSet'[r] # NoSet
        BY <1>1, <4>1, DataTypes
      <4>3. SetOf(oldToNewSet'[r]) = SetOf(oldToNewSet[r]) \cup {slot}
        BY <4>1, <4>2 DEF SetOf
      <4> QED BY <4>1, <4>3
    <3> QED BY <3>1, <3>2
  <2>4. memory' = memory /\ marked' = marked /\ hasBeenSwept' = hasBeenSwept
    BY <1>1
  <2>5. DataOf(r)'
    <3>1. /\ Unfreed(r)' => marked'[r] = TRUE
          /\ memory'[r] = "garbage" => Unfreed(r)'
      BY ONLY <1>4, <2>2, <2>4
    <3>2. memory'[r] = "inRegion" => Handed(r)'
      BY ONLY <1>4, <2>2, <2>4
    <3>3. sweepingRSet'[r] # NoSet => Unfreed(r)' \/ Handed(r)'
      BY ONLY <1>4, <2>2, <2>3
    <3> QED BY ONLY <1>1, <3>1, <3>2, <3>3 DEF DataOf
  <2>6. SlotsOf(r)'
    <3>1. \A x \in stored'[r] : x \in SetOf(oldToNewSet'[r]) \/ x \in SetOf(sweepingRSet'[r])
      BY ONLY <2>1, <2>2, <2>3
    <3>2. memory'[r] # "used" => "dying" \notin stored'[r]
      BY <1>1, <1>6, <2>1, <2>2, <2>4
    <3> QED BY ONLY <3>1, <3>2 DEF SlotsOf
  <2>7. r \notin taintedRegions => FreshOf(r)'
    <3> HAVE r \notin taintedRegions
    <3>1. /\ Unfreed(r) => hasBeenSwept[r] = FALSE
          /\ memory[r] = "garbage" => "dying" \notin SetOf(oldToNewSet[r])
          /\ memory[r] \in {"inRegion", "free"} =>
                "dying" \notin SetOf(oldToNewSet[r]) /\ "dying" \notin SetOf(sweepingRSet[r])
      BY <1>1, <1>3 DEF RegionInv, FreshOf
    <3>2. Unfreed(r)' => hasBeenSwept'[r] = FALSE
      BY ONLY <1>4, <2>4, <3>1
    <3>3. memory[r] # "used" => slot # "dying"
      BY <1>1, <1>6
    <3>4. memory'[r] = "garbage" => "dying" \notin SetOf(oldToNewSet'[r])
      BY ONLY <2>2, <2>3, <2>4, <3>1, <3>3
    <3>5. memory'[r] \in {"inRegion", "free"} =>
                "dying" \notin SetOf(oldToNewSet'[r]) /\ "dying" \notin SetOf(sweepingRSet'[r])
      BY ONLY <2>3, <2>4, <3>1, <3>3
    <3> QED BY ONLY <3>2, <3>4, <3>5 DEF FreshOf
  <2> QED BY <1>1, <2>5, <2>6, <2>7 DEF RegionInv
<1> QED BY <1>5, <1>6

\* A task sets the flag of a region that is handed over already.
LEMMA SetSweptData ==
    ASSUME TypeOK, PoolInv, MainInv, CountInv, ListInv, OwnInv, DataInv,
           NEW u \in Types, SetSwept(u), NEW r \in Regions
    PROVE  RegionInv(r)'
<1> USE ClearTaskIsNoSweeper
<1> PICK p : p = tregion[u] OBVIOUS
<1>1. /\ UNCHANGED <<memory, oldToNewSet, sweepingRSet, marked, stored, mpc, taintedRegions>>
      /\ hasBeenSwept' = [hasBeenSwept EXCEPT ![p] = TRUE] /\ tpc[u] = "set" /\ tpc'[u] = "take"
  BY DataTypes DEF SetSwept, mainVars, gcVars
<1>2. p \in Regions /\ isSweeping = TRUE
  BY <1>1 DEF PoolInv, TypeOK
<1>3. [Next]_vars /\ ~SweepConcurrently /\ mpc # "sweep"
  BY <1>2 DEF Next, TaskStep, SweepConcurrently, MainInv
<1>4. RegionInv(r)
  BY DEF DataInv
<1>5. (Unfreed(r)' <=> Unfreed(r)) /\ (Handed(r) => Handed(r)')
  <2>1. ~MainFreesRegion /\ ~DrainSweptRegion
    BY <1>1, DataTypes DEF MainFreesRegion, DrainSweptRegion, taskVars
  <2>2. \A t \in Types : ~FreeRegion(t)
    <3> SUFFICES ASSUME NEW t \in Types, FreeRegion(t) PROVE FALSE
      OBVIOUS
    <3>1. tpc' = [tpc EXCEPT ![t] = "add"] /\ tpc' = [tpc EXCEPT ![u] = "take"]
      BY DEF FreeRegion, SetSwept
    <3> QED BY <1>1, <3>1, DataTypes
  <2> QED BY <1>3, <2>1, <2>2, PlaceFacts
<1>6. hasBeenSwept'[r] = hasBeenSwept[r] \/ ~Unfreed(r)
  <2>1. CASE r # p
    BY <1>1, <2>1, DataTypes
  <2>2. CASE r = p
    <3>1. Keeps(u, r)
      BY <1>1, <2>2 DEF Keeps
    <3>2. ~Listed(r) /\ mregion # r
      BY <3>1 DEF OwnInv
    <3>3. \A t \in Types : ~At(t, r, "free")
      <4> SUFFICES ASSUME NEW t \in Types, At(t, r, "free") PROVE FALSE
        OBVIOUS
      <4>1. Keeps(t, r) /\ tpc[t] = "free"
        BY DEF At, Keeps
      <4>2. t = u
        BY <3>1, <4>1 DEF OwnInv
      <4> QED BY <1>1, <4>1, <4>2
    <3> QED BY <3>2, <3>3 DEF Unfreed
  <2> QED BY <2>1, <2>2
<1> QED BY <1>1, <1>3, <1>4, <1>5, <1>6, QuietRegion

\* The mark bits are cleared when no region is left to sweep.
LEMMA ClearedData ==
    ASSUME TypeOK, PoolInv, MainInv, CountInv, ListInv, OwnInv, ClearInv, DataInv,
           ClearMarkBits, NEW r \in Regions
    PROVE  RegionInv(r)'
<1> USE ClearTaskIsNoSweeper
<1>1. /\ UNCHANGED <<memory, oldToNewSet, sweepingRSet, stored, mpc, taintedRegions, hasBeenSwept>>
      /\ UNCHANGED <<sweepingList, sweptList, mregion, tregion>>
      /\ tpc[ClearTask] = "clear" /\ \A t \in Types : tpc'[t] = tpc[t]
  BY DataTypes DEF ClearMarkBits, rsetVars, mainVars, gcVars, spaceVars
<1>2. mpc # "sweep"
  BY <1>1 DEF PoolInv, MainInv
<1>3. ~Unfreed(r)
  <2>1. CASE isSweeping = FALSE
    BY <2>1, ClosedIsIdle
  <2>2. CASE isSweeping = TRUE
    <3>1. \A s \in SweptSpaces : Left(s)
      BY <1>1, <2>2 DEF ClearInv
    <3>2. SpaceOf[r] \in Types
      BY DataTypes
    <3>3. ~Listed(r)
      <4>1. sweepingList[SpaceOf[r]] = << >>
        BY <3>1, <3>2 DEF ListInv, Left, Over
      <4> QED BY <4>1 DEF Listed
    <3>4. mregion # r
      <4> SUFFICES ASSUME mregion = r PROVE FALSE
        OBVIOUS
      <4>1. mpc = "free" /\ mtype \in SweptSpaces
        BY ConstAssumption DEF MainInv, Waits
      <4> QED BY <3>1, <4>1 DEF Left
    <3>5. \A t \in Types : ~At(t, r, "free")
      <4> SUFFICES ASSUME NEW t \in Types, At(t, r, "free") PROVE FALSE
        OBVIOUS
      <4>1. Active(t)
        BY DEF At, Active, Sweeps
      <4>2. Pending(t, TaskSpace(t)) /\ TaskSpace(t) \in SweptSpaces
        BY <4>1, SpacesOfTasks
      <4> QED BY <3>1, <4>2 DEF Left, Over
    <3> QED BY <3>3, <3>4, <3>5 DEF Unfreed
  <2> QED BY <2>1, <2>2 DEF TypeOK
<1>4. ~Unfreed(r)' /\ (Handed(r)' <=> Handed(r))
  <2>1. Listed(r)' <=> Listed(r)
    BY <1>1 DEF Listed
  <2>2. \A t \in Types : \A pc : At(t, r, pc)' <=> At(t, r, pc)
    BY <1>1 DEF At
  <2>3. ~Unfreed(r)'
    BY <1>1, <1>3, <2>1, <2>2 DEF Unfreed
  <2>4. Handed(r)' <=> Handed(r)
    BY <1>1, <2>2 DEF Handed
  <2> QED BY <2>3, <2>4
<1>5. RegionInv(r)
  BY DEF DataInv
<1>6. DataOf(r)'
  <2>1. /\ memory'[r] # "garbage" /\ mpc' # "sweep"
        /\ memory'[r] = "inRegion" => Handed(r)'
        /\ sweepingRSet'[r] # NoSet => Handed(r)'
    BY <1>1, <1>2, <1>3, <1>4, <1>5 DEF RegionInv, DataOf
  <2> QED BY ONLY <1>4, <2>1 DEF DataOf
<1>7. SlotsOf(r)'
  BY <1>1, <1>5 DEF RegionInv, SlotsOf
<1>8. r \notin taintedRegions => FreshOf(r)'
  BY <1>1, <1>4, <1>5 DEF RegionInv, FreshOf
<1> QED BY <1>1, <1>6, <1>7, <1>8 DEF RegionInv

\* The program allocates from memory that was freed.
LEMMA AllocateData ==
    ASSUME TypeOK, PoolInv, MainInv, CountInv, ListInv, OwnInv, DataInv,
           (\E s \in Types : Allocate(s)) \/ AllocateAfterSweepingCompleted,
           NEW r \in Regions
    PROVE  RegionInv(r)'
<1>1. /\ UNCHANGED <<oldToNewSet, sweepingRSet, stored, marked, hasBeenSwept, taintedRegions>>
      /\ mpc # "sweep" /\ mpc' # "sweep"
      /\ memory' = memory \/ \E p \in Regions : memory[p] = "free" /\ memory' = [memory EXCEPT ![p] = "used"]
      /\ UNCHANGED <<sweepingList, sweptList, mregion, tpc, tregion>>
  <2>1. CASE \E s \in Types : Allocate(s)
    BY <2>1 DEF Allocate, rsetVars, gcVars, mainVars, taskVars, spaceVars, Free, RegionsOf
  <2>2. CASE AllocateAfterSweepingCompleted
    BY <2>2 DEF AllocateAfterSweepingCompleted, Return, rsetVars, gcVars, taskVars, spaceVars, Free,
       RegionsOf
  <2> QED BY <2>1, <2>2
<1>2. (Unfreed(r)' <=> Unfreed(r)) /\ (Handed(r)' <=> Handed(r))
  <2>1. \A t \in Types : \A pc : At(t, r, pc)' <=> At(t, r, pc)
    BY <1>1 DEF At
  <2>2. Unfreed(r)' <=> Unfreed(r)
    BY <1>1, <2>1 DEF Unfreed, Listed
  <2>3. Handed(r)' <=> Handed(r)
    BY <1>1, <2>1 DEF Handed
  <2> QED BY <2>2, <2>3
<1>3. RegionInv(r)
  BY DEF DataInv
<1>4. CASE memory'[r] = memory[r]
  BY <1>1, <1>2, <1>3, <1>4, QuietRegion
<1>5. CASE memory'[r] = "used"
  <2>1. DataOf(r)'
    <3>1. /\ sweepingRSet[r] # NoSet => Unfreed(r) \/ Handed(r)
          /\ Unfreed(r) => marked[r] = TRUE
      BY <1>3 DEF RegionInv, DataOf
    <3>2. Unfreed(r)' => marked'[r] = TRUE
      BY <1>1, <1>2, <3>1
    <3>3. sweepingRSet'[r] # NoSet => Unfreed(r)' \/ Handed(r)'
      BY <1>1, <1>2, <3>1
    <3> QED BY ONLY <1>1, <1>5, <3>2, <3>3 DEF DataOf
  <2>2. SlotsOf(r)'
    BY <1>1, <1>3, <1>5 DEF RegionInv, SlotsOf
  <2>3. r \notin taintedRegions => FreshOf(r)'
    <3> HAVE r \notin taintedRegions
    <3>1. Unfreed(r)' => hasBeenSwept'[r] = FALSE
      BY <1>1, <1>2, <1>3 DEF RegionInv, FreshOf
    <3> QED BY ONLY <1>5, <3>1 DEF FreshOf
  <2> QED BY <1>1, <2>1, <2>2, <2>3 DEF RegionInv
<1>6. memory'[r] = memory[r] \/ memory'[r] = "used"
  BY <1>1, DataTypes
<1> QED BY <1>4, <1>5, <1>6

\* Between two sweeps no region is in a sweeper's hands.
LEMMA BetweenSweeps ==
    ASSUME TypeOK, PoolInv, MainInv, ListInv, DataInv, isSweeping = FALSE, NEW r \in Regions
    PROVE  /\ ~Unfreed(r) /\ ~Handed(r)
           /\ memory[r] # "inRegion" /\ sweepingRSet[r] = NoSet
           /\ SetOf(sweepingRSet[r]) = {}
           /\ stored[r] \subseteq SetOf(oldToNewSet[r])
           /\ mpc # "sweep" => memory[r] # "garbage"
<1>1. ~Unfreed(r) /\ ~Handed(r)
  BY ClosedIsIdle
<1>2. RegionInv(r)
  BY DEF DataInv
<1>3. memory[r] # "inRegion" /\ sweepingRSet[r] = NoSet
  BY <1>1, <1>2 DEF RegionInv, DataOf
<1>4. SetOf(sweepingRSet[r]) = {}
  BY <1>3 DEF SetOf
<1>5. stored[r] \subseteq SetOf(oldToNewSet[r])
  BY <1>2, <1>4 DEF RegionInv, SlotsOf
<1>6. mpc # "sweep" => memory[r] # "garbage"
  BY <1>1, <1>2 DEF RegionInv, DataOf
<1> QED BY <1>1, <1>3, <1>4, <1>5, <1>6

\* Marking finds some objects dead.
LEMMA MarkedData ==
    ASSUME TypeOK, PoolInv, MainInv, CountInv, ListInv, OwnInv, DataInv,
           NEW dead \in SUBSET Regions, MarkOldGC(dead) \/ MarkFullGC(dead), NEW r \in Regions
    PROVE  RegionInv(r)'
<1> USE ClearTaskIsNoSweeper
<1>1. /\ mpc = "clearWait" /\ mpc' = "sweep" /\ isSweeping = FALSE
      /\ UNCHANGED <<sweepingRSet, taintedRegions, isSweeping, sweepingList, mregion, tpc, tregion>>
  BY DEF MarkOldGC, MarkFullGC, MainInv, spaceVars, taskVars, gcVars
<1>2. RegionInv(r)
  BY DEF DataInv
<1>3. ~Unfreed(r)'
  <2>1. ~Unfreed(r)
    BY <1>1, BetweenSweeps
  <2>2. \A t \in Types : \A pc : At(t, r, pc)' <=> At(t, r, pc)
    BY <1>1 DEF At
  <2> QED BY <1>1, <2>1, <2>2 DEF Unfreed, Listed
<1>4. /\ memory[r] # "inRegion" /\ sweepingRSet[r] = NoSet
      /\ SetOf(sweepingRSet[r]) = {} /\ stored[r] \subseteq SetOf(oldToNewSet[r])
  BY <1>1, BetweenSweeps
<1>5. sweepingRSet'[r] = NoSet /\ SetOf(sweepingRSet'[r]) = {}
  BY <1>1, <1>4
<1>6. CASE MarkOldGC(dead)
  <2>1. /\ memory' = [q \in Regions |-> IF q \in dead THEN "garbage" ELSE memory[q]]
        /\ stored' = [q \in Regions |-> IF q \in dead THEN stored[q] \ {"dying"} ELSE stored[q]]
        /\ marked' = [q \in Regions |-> TRUE]
        /\ startSpaceType' = OLD_SPACE
        /\ UNCHANGED <<oldToNewSet, hasBeenSwept>>
    BY <1>6 DEF MarkOldGC
  <2>2. /\ memory'[r] = IF r \in dead THEN "garbage" ELSE memory[r]
        /\ stored'[r] = IF r \in dead THEN stored[r] \ {"dying"} ELSE stored[r]
        /\ marked'[r] = TRUE
    BY <2>1
  <2>3. SpaceOf[r] \in SweptSpaces'
    <3>1. SpaceOf[r] \in Types
      BY DataTypes
    <3> QED BY <2>1, <3>1 DEF SweptSpaces, Types
  <2>4. DataOf(r)'
    <3>1. memory'[r] # "inRegion"
      BY <1>4, <2>2
    <3> QED BY ONLY <1>1, <1>3, <1>5, <2>2, <2>3, <3>1 DEF DataOf
  <2>5. SlotsOf(r)'
    <3>1. memory'[r] # "used" => "dying" \notin stored'[r]
      BY <1>2, <2>2 DEF RegionInv, SlotsOf
    <3>2. stored'[r] \subseteq SetOf(oldToNewSet'[r])
      BY <1>4, <2>1, <2>2
    <3> QED BY <3>1, <3>2 DEF SlotsOf
  <2>6. r \notin taintedRegions => FreshOf(r)'
    <3> HAVE r \notin taintedRegions
    <3>1. memory'[r] \in {"inRegion", "free"} => "dying" \notin SetOf(oldToNewSet'[r])
      BY <1>2, <2>1, <2>2 DEF RegionInv, FreshOf
    <3> QED BY ONLY <1>1, <1>3, <1>5, <3>1 DEF FreshOf
  <2> QED BY <1>1, <2>4, <2>5, <2>6 DEF RegionInv
<1>7. CASE MarkFullGC(dead)
  <2> PICK moved : moved = RegionsOf(OLD_SPACE) OBVIOUS
  <2>1. /\ memory' = [q \in Regions |-> IF q \in moved THEN "used"
                                        ELSE IF q \in dead THEN "garbage" ELSE memory[q]]
        /\ stored' = [q \in Regions |-> {}]
        /\ marked' = [q \in Regions |-> q \notin moved]
        /\ oldToNewSet' = [q \in Regions |->
               IF q \in moved \/ oldToNewSet[q] = NoSet THEN NoSet ELSE {}]
        /\ startSpaceType' = NON_MOVABLE
    BY <1>7 DEF MarkFullGC
  <2>2. /\ memory'[r] = IF r \in moved THEN "used"
                        ELSE IF r \in dead THEN "garbage" ELSE memory[r]
        /\ stored'[r] = {} /\ SetOf(oldToNewSet'[r]) = {}
        /\ marked'[r] = (r \notin moved)
    BY <2>1 DEF SetOf
  <2>3. r \in moved <=> SpaceOf[r] \notin SweptSpaces'
    <3>1. SpaceOf[r] \in Types
      BY DataTypes
    <3>2. SweptSpaces' = 1 .. FreeListNum - 1 /\ Types = 0 .. FreeListNum - 1
      BY <2>1 DEF SweptSpaces, Types, OLD_SPACE, NON_MOVABLE
    <3>3. r \in moved <=> SpaceOf[r] = 0
      BY DEF RegionsOf, OLD_SPACE
    <3> QED BY <3>1, <3>2, <3>3, ConstAssumption
  <2>4. DataOf(r)'
    <3>1. memory'[r] # "inRegion"
      BY <1>4, <2>2
    <3>2. SpaceOf[r] \notin SweptSpaces' => memory'[r] = "used"
      BY ONLY <2>2, <2>3
    <3>3. SpaceOf[r] \in SweptSpaces' => marked'[r] = TRUE
      BY ONLY <2>2, <2>3
    <3> QED BY ONLY <1>1, <1>3, <1>5, <3>1, <3>2, <3>3 DEF DataOf
  <2>5. SlotsOf(r)'
    BY <2>2 DEF SlotsOf
  <2>6. FreshOf(r)'
    BY ONLY <1>1, <1>3, <1>5, <2>2 DEF FreshOf
  <2> QED BY <2>4, <2>5, <2>6 DEF RegionInv
<1> QED BY <1>6, <1>7

\* A concurrent sweep begins: every region of the swept spaces is listed.
LEMMA BegunData ==
    ASSUME TypeOK, PoolInv, MainInv, CountInv, ListInv, OwnInv, DataInv,
           SweepConcurrently, NEW r \in Regions
    PROVE  RegionInv(r)'
<1>1. /\ mpc = "sweep" /\ mpc' = "resume" /\ isSweeping = FALSE
      /\ UNCHANGED <<stored, marked, hasBeenSwept, mregion, startSpaceType>>
      /\ taintedRegions' = {q \in SweptRegions : hasBeenSwept[q]}
      /\ memory' = RebuildFreeList(memory)
      /\ oldToNewSet' = [q \in Regions |-> IF q \in SweptRegions THEN NoSet ELSE oldToNewSet[q]]
      /\ sweepingRSet' = [q \in Regions |-> IF q \in SweptRegions THEN oldToNewSet[q]
                                                                   ELSE sweepingRSet[q]]
  BY DEF SweepConcurrently, MainInv
<1>2. RegionInv(r)
  BY DEF DataInv
<1>3. /\ memory[r] # "inRegion" /\ sweepingRSet[r] = NoSet
      /\ SetOf(sweepingRSet[r]) = {} /\ stored[r] \subseteq SetOf(oldToNewSet[r])
      /\ memory[r] # "used" => "dying" \notin stored[r]
      /\ SpaceOf[r] \notin SweptSpaces => memory[r] = "used"
      /\ SpaceOf[r] \in SweptSpaces => marked[r] = TRUE
  BY <1>1, <1>2, BetweenSweeps DEF RegionInv, DataOf, SlotsOf
<1>4. Unfreed(r)' <=> SpaceOf[r] \in SweptSpaces
  <2>1. Listed(r)' <=> SpaceOf[r] \in SweptSpaces
    BY SweepBegins
  <2>2. \A t \in Types : ~At(t, r, "free")'
    <3>1. \A t \in Types : tpc'[t] \in {"queued", "idle"}
      BY SweepBegins
    <3> QED BY <3>1 DEF At
  <2>3. mregion' # r
    BY <1>1, ClosedIsIdle, ConstAssumption
  <2> QED BY <2>1, <2>2, <2>3 DEF Unfreed
<1>5. r \in SweptRegions <=> SpaceOf[r] \in SweptSpaces
  BY DEF SweptRegions
<1>6. /\ SpaceOf[r] \in SweptSpaces =>
             /\ memory'[r] = IF memory[r] \in {"free", "inRegion"} THEN "garbage" ELSE memory[r]
             /\ oldToNewSet'[r] = NoSet /\ sweepingRSet'[r] = oldToNewSet[r]
      /\ SpaceOf[r] \notin SweptSpaces =>
             memory'[r] = memory[r] /\ oldToNewSet'[r] = oldToNewSet[r] /\ sweepingRSet'[r] = sweepingRSet[r]
  BY <1>1, <1>5 DEF RebuildFreeList
<1>7. CASE SpaceOf[r] \in SweptSpaces
  <2>1. /\ memory'[r] = IF memory[r] \in {"free", "inRegion"} THEN "garbage" ELSE memory[r]
        /\ oldToNewSet'[r] = NoSet /\ sweepingRSet'[r] = oldToNewSet[r]
    BY <1>6, <1>7
  <2>2. memory'[r] \in {"used", "garbage"} /\ (memory'[r] = "used" <=> memory[r] = "used")
    <3>1. memory[r] \in {"used", "garbage", "inRegion", "free"}
      BY DataTypes
    <3> QED BY ONLY <1>3, <2>1, <3>1
  <2>3. DataOf(r)'
    <3>1. Unfreed(r)' /\ marked'[r] = TRUE
      BY <1>1, <1>3, <1>4, <1>7
    <3> QED BY ONLY <1>1, <2>2, <3>1 DEF DataOf
  <2>4. SlotsOf(r)'
    <3>1. SetOf(sweepingRSet'[r]) = SetOf(oldToNewSet[r])
      BY <2>1 DEF SetOf
    <3> QED BY <1>1, <1>3, <2>2, <3>1 DEF SlotsOf
  <2>5. r \notin taintedRegions' => FreshOf(r)'
    <3> HAVE r \notin taintedRegions'
    <3>1. hasBeenSwept'[r] = FALSE
      <4>1. hasBeenSwept[r] \in BOOLEAN
        BY DataTypes
      <4> QED BY <1>1, <1>5, <1>7, <4>1
    <3>2. SetOf(oldToNewSet'[r]) = {}
      BY <2>1 DEF SetOf
    <3> QED BY ONLY <2>2, <3>1, <3>2 DEF FreshOf
  <2> QED BY <2>3, <2>4, <2>5 DEF RegionInv
<1>8. CASE SpaceOf[r] \notin SweptSpaces
  <2>1. /\ memory'[r] = "used" /\ oldToNewSet'[r] = oldToNewSet[r] /\ sweepingRSet'[r] = NoSet
        /\ ~Unfreed(r)'
    BY <1>3, <1>4, <1>6, <1>8
  <2>2. DataOf(r)'
    BY ONLY <1>1, <2>1 DEF DataOf
  <2>3. SlotsOf(r)'
    BY <1>1, <1>3, <2>1 DEF SlotsOf
  <2>4. FreshOf(r)'
    BY ONLY <2>1 DEF FreshOf
  <2> QED BY <2>2, <2>3, <2>4 DEF RegionInv
<1> QED BY <1>7, <1>8

\* The JS thread sweeps every region at once.
LEMMA SweptNowData ==
    ASSUME TypeOK, PoolInv, MainInv, CountInv, ListInv, OwnInv, DataInv,
           SweepNow, NEW r \in Regions
    PROVE  RegionInv(r)'
<1>1. /\ mpc = "sweep" /\ mpc' = "resume" /\ isSweeping = FALSE
      /\ UNCHANGED <<stored, marked, hasBeenSwept, mregion, taintedRegions, sweepingRSet,
                     sweepingList, tpc, tregion>>
      /\ oldToNewSet' = [q \in Regions |-> IF q \in SweptRegions
            THEN IF memory[q] \in {"garbage", "free", "inRegion"} /\ oldToNewSet[q] # NoSet
                 THEN oldToNewSet[q] \ {"dying"} ELSE oldToNewSet[q]
            ELSE oldToNewSet[q]]
      /\ memory' = [q \in Regions |-> IF q \in SweptRegions /\ memory[q] # "used"
                                      THEN "free" ELSE memory[q]]
  BY DEF SweepNow, MainInv, taskVars
<1>2. RegionInv(r)
  BY DEF DataInv
<1>3. /\ memory[r] # "inRegion" /\ sweepingRSet[r] = NoSet
      /\ SetOf(sweepingRSet[r]) = {} /\ stored[r] \subseteq SetOf(oldToNewSet[r])
      /\ memory[r] # "used" => "dying" \notin stored[r]
      /\ SpaceOf[r] \notin SweptSpaces => memory[r] = "used"
      /\ memory[r] \in {"used", "garbage", "inRegion", "free"}
  BY <1>1, <1>2, BetweenSweeps, DataTypes DEF RegionInv, DataOf, SlotsOf
<1>4. ~Unfreed(r)'
  <2>1. ~Unfreed(r)
    BY <1>1, BetweenSweeps
  <2>2. \A t \in Types : \A pc : At(t, r, pc)' <=> At(t, r, pc)
    BY <1>1 DEF At
  <2> QED BY <1>1, <2>1, <2>2 DEF Unfreed, Listed
<1>5. r \in SweptRegions <=> SpaceOf[r] \in SweptSpaces
  BY DEF SweptRegions
<1>6. CASE memory[r] = "used"
  <2>1. memory'[r] = "used" /\ oldToNewSet'[r] = oldToNewSet[r] /\ sweepingRSet'[r] = NoSet
    BY <1>1, <1>3, <1>6
  <2>2. DataOf(r)'
    BY ONLY <1>1, <1>4, <2>1 DEF DataOf
  <2>3. SlotsOf(r)'
    BY <1>1, <1>3, <2>1 DEF SlotsOf
  <2>4. FreshOf(r)'
    BY ONLY <1>4, <2>1 DEF FreshOf
  <2> QED BY <2>2, <2>3, <2>4 DEF RegionInv
<1>7. CASE memory[r] # "used"
  <2>1. /\ memory'[r] = "free" /\ sweepingRSet'[r] = NoSet
        /\ oldToNewSet'[r] = IF oldToNewSet[r] # NoSet THEN oldToNewSet[r] \ {"dying"} ELSE NoSet
    <3>1. r \in SweptRegions /\ memory[r] \in {"garbage", "free", "inRegion"}
      BY <1>3, <1>5, <1>7
    <3> QED BY <1>1, <1>3, <1>7, <3>1
  <2>2. SetOf(oldToNewSet'[r]) = SetOf(oldToNewSet[r]) \ {"dying"}
    <3>1. CASE oldToNewSet[r] = NoSet
      BY <2>1, <3>1 DEF SetOf
    <3>2. CASE oldToNewSet[r] # NoSet
      <4>1. oldToNewSet'[r] # NoSet
        BY <2>1, <3>2, DataTypes
      <4> QED BY <2>1, <3>2, <4>1 DEF SetOf
    <3> QED BY <3>1, <3>2
  <2>3. SetOf(sweepingRSet'[r]) = {}
    BY <2>1 DEF SetOf
  <2>4. DataOf(r)'
    BY ONLY <1>1, <1>4, <2>1 DEF DataOf
  <2>5. SlotsOf(r)'
    <3>1. stored'[r] = stored[r] /\ "dying" \notin stored[r] /\ stored[r] \subseteq SetOf(oldToNewSet[r])
      BY <1>1, <1>3, <1>7
    <3> QED BY <2>2, <3>1 DEF SlotsOf
  <2>6. FreshOf(r)'
    BY ONLY <1>4, <2>1, <2>2, <2>3 DEF FreshOf
  <2> QED BY <2>4, <2>5, <2>6 DEF RegionInv
<1> QED BY <1>6, <1>7

LEMMA DataInvStep ==
    ASSUME TypeOK, PoolInv, MainInv, CountInv, ListInv, OwnInv, ClearInv, DataInv, [Next]_vars
    PROVE  DataInv'
<1> SUFFICES ASSUME NEW r \in Regions PROVE RegionInv(r)'
  BY DEF DataInv
<1>1. CASE ~TouchesRegions
  <2>1. /\ UNCHANGED <<memory, oldToNewSet, sweepingRSet, marked, stored, hasBeenSwept,
                       taintedRegions>>
        /\ mpc' = "sweep" <=> mpc = "sweep"
    BY <1>1, DataStays
  <2>2. ~SweepConcurrently /\ ~MainFreesRegion /\ ~DrainSweptRegion /\ \A t \in Types : ~FreeRegion(t)
    BY <1>1 DEF TouchesRegions
  <2>3. (Unfreed(r)' <=> Unfreed(r)) /\ (Handed(r) => Handed(r)')
    BY <2>2, PlaceFacts
  <2>4. mpc = "sweep" => SweptSpaces' = SweptSpaces
    <3>1. mpc = "sweep" => startSpaceType' = startSpaceType
      BY SpacesChange
    <3> QED BY <3>1 DEF SweptSpaces
  <2>5. RegionInv(r)
    BY DEF DataInv
  <2> QED BY <2>1, <2>3, <2>4, <2>5, QuietRegion
<1>2. ASSUME NEW u \in Types, FreeRegion(u) \/ SetSwept(u) PROVE RegionInv(r)'
  BY <1>2, TaskFreesData, SetSweptData
<1>3. CASE ClearMarkBits
  BY <1>3, ClearedData
<1>4. CASE MainFreesRegion
  BY <1>4, MainFreesData
<1>5. CASE DrainSweptRegion
  BY <1>5, DrainData
<1>6. CASE \E q \in Regions, slot \in StoredSlots : Store(q, slot)
  BY <1>6, StoreData
<1>7. CASE (\E s \in Types : Allocate(s)) \/ AllocateAfterSweepingCompleted
  BY <1>7, AllocateData
<1>8. CASE \E dead \in SUBSET Regions : MarkOldGC(dead) \/ MarkFullGC(dead)
  BY <1>8, MarkedData
<1>9. CASE SweepConcurrently
  BY <1>9, BegunData
<1>10. CASE SweepNow
  BY <1>10, SweptNowData
<1> QED BY <1>1, <1>2, <1>3, <1>4, <1>5, <1>6, <1>7, <1>8, <1>9, <1>10 DEF TouchesRegions

-----------------------------------------------------------------------------
(* The type of the state *)

LEMMA DataTypeStep ==
    ASSUME TypeOK, PoolInv, MainInv, ListInv, DataInv, [Next]_vars
    PROVE  /\ memory' \in [Regions -> {"used", "garbage", "inRegion", "free"}]
           /\ oldToNewSet' \in [Regions -> (SUBSET Slots) \cup {NoSet}]
           /\ sweepingRSet' \in [Regions -> (SUBSET Slots) \cup {NoSet}]
           /\ hasBeenSwept' \in [Regions -> BOOLEAN]
           /\ marked' \in [Regions -> BOOLEAN]
           /\ stored' \in [Regions -> SUBSET Slots]
           /\ taintedRegions' \in SUBSET Regions
<1> DEFINE Goal == /\ memory' \in [Regions -> {"used", "garbage", "inRegion", "free"}]
                   /\ oldToNewSet' \in [Regions -> (SUBSET Slots) \cup {NoSet}]
                   /\ sweepingRSet' \in [Regions -> (SUBSET Slots) \cup {NoSet}]
                   /\ hasBeenSwept' \in [Regions -> BOOLEAN]
                   /\ marked' \in [Regions -> BOOLEAN]
                   /\ stored' \in [Regions -> SUBSET Slots]
                   /\ taintedRegions' \in SUBSET Regions
<1>0. /\ memory \in [Regions -> {"used", "garbage", "inRegion", "free"}]
      /\ oldToNewSet \in [Regions -> (SUBSET Slots) \cup {NoSet}]
      /\ sweepingRSet \in [Regions -> (SUBSET Slots) \cup {NoSet}]
      /\ hasBeenSwept \in [Regions -> BOOLEAN]
      /\ marked \in [Regions -> BOOLEAN]
      /\ stored \in [Regions -> SUBSET Slots]
      /\ taintedRegions \in SUBSET Regions
  BY DEF TypeOK
<1>1. CASE ~TouchesRegions
  BY <1>0, <1>1, DataStays
<1>2. ASSUME NEW t \in Types, FreeRegion(t) PROVE Goal
  <2>1. /\ oldToNewSet' = oldToNewSet
           \/ oldToNewSet' = [oldToNewSet EXCEPT ![tregion[t]] = ClearRange(@, tregion[t])]
        /\ sweepingRSet' = sweepingRSet
           \/ sweepingRSet' = [sweepingRSet EXCEPT ![tregion[t]] = ClearRange(@, tregion[t])]
        /\ memory' = [memory EXCEPT ![tregion[t]] = Freed(tregion[t], FALSE)]
        /\ UNCHANGED <<hasBeenSwept, stored, marked, taintedRegions>>
    BY <1>2 DEF FreeRegion, gcVars
  <2>2. \A x \in (SUBSET Slots) \cup {NoSet} : ClearRange(x, tregion[t]) \in (SUBSET Slots) \cup {NoSet}
    BY DEF ClearRange
  <2>3. tregion[t] \in Regions => Freed(tregion[t], FALSE) \in {"used", "garbage", "inRegion", "free"}
    BY <1>0 DEF Freed
  <2>4. oldToNewSet' \in [Regions -> (SUBSET Slots) \cup {NoSet}]
    BY <1>0, <2>1, <2>2
  <2>5. sweepingRSet' \in [Regions -> (SUBSET Slots) \cup {NoSet}]
    BY <1>0, <2>1, <2>2
  <2> QED BY <1>0, <2>1, <2>3, <2>4, <2>5, ZenonT(40)
<1>3. ASSUME NEW t \in Types, SetSwept(t) PROVE Goal
  BY <1>0, <1>3 DEF SetSwept, gcVars
<1>4. CASE ClearMarkBits
  BY <1>0, <1>4 DEF ClearMarkBits, gcVars, rsetVars
<1>5. CASE MainFreesRegion
  <2> PICK c : c = IF enableType \in {"ENABLE", "REQUEST_DISABLE"}
                   THEN ClearRange(sweepingRSet[mregion], mregion) ELSE sweepingRSet[mregion]
    OBVIOUS
  <2>1. /\ memory' = [memory EXCEPT ![mregion] = Freed(mregion, TRUE)]
        /\ oldToNewSet' = [oldToNewSet EXCEPT ![mregion] = IF c = NoSet THEN @ ELSE SetOf(@) \cup c]
        /\ sweepingRSet' = [sweepingRSet EXCEPT ![mregion] = NoSet]
        /\ UNCHANGED <<hasBeenSwept, stored, marked, taintedRegions>>
    BY <1>5 DEF MainFreesRegion, mainFrame, gcVars
  <2>2. mregion \in Regions => c \in (SUBSET Slots) \cup {NoSet}
    BY <1>0 DEF ClearRange
  <2>3. mregion \in Regions =>
           /\ (IF c = NoSet THEN oldToNewSet[mregion] ELSE SetOf(oldToNewSet[mregion]) \cup c)
                 \in (SUBSET Slots) \cup {NoSet}
           /\ Freed(mregion, TRUE) \in {"used", "garbage", "inRegion", "free"}
    BY <1>0, <2>2 DEF SetOf, Freed
  <2>4. oldToNewSet' \in [Regions -> (SUBSET Slots) \cup {NoSet}]
    BY <1>0, <2>1, <2>3, ZenonT(40)
  <2> QED BY <1>0, <2>1, <2>3, <2>4
<1>6. CASE DrainSweptRegion
  <2>1. /\ UNCHANGED <<stored, marked, taintedRegions>>
        /\ \/ UNCHANGED <<memory, hasBeenSwept, oldToNewSet, sweepingRSet>>
           \/ \E r \in sweptList[mtype] :
                 /\ memory' = [memory EXCEPT ![r] = IF @ = "inRegion" THEN "free" ELSE @]
                 /\ hasBeenSwept' = [hasBeenSwept EXCEPT ![r] = FALSE]
                 /\ MergeRSetForConcurrentSweeping(r)
    BY <1>6 DEF DrainSweptRegion, mainFrame, gcVars
  <2>2. ASSUME NEW r, memory' = [memory EXCEPT ![r] = IF @ = "inRegion" THEN "free" ELSE @],
               hasBeenSwept' = [hasBeenSwept EXCEPT ![r] = FALSE],
               MergeRSetForConcurrentSweeping(r)
        PROVE  Goal
    <3>1. r \in Regions => (IF sweepingRSet[r] = NoSet THEN oldToNewSet[r]
                            ELSE SetOf(oldToNewSet[r]) \cup sweepingRSet[r]) \in (SUBSET Slots) \cup {NoSet}
      BY <1>0 DEF SetOf
    <3>2. /\ oldToNewSet' = [oldToNewSet EXCEPT ![r] = IF sweepingRSet[r] = NoSet THEN @
                                                       ELSE SetOf(@) \cup sweepingRSet[r]]
          /\ sweepingRSet' = [sweepingRSet EXCEPT ![r] = NoSet]
      BY <2>2 DEF MergeRSetForConcurrentSweeping
    <3>3. oldToNewSet' \in [Regions -> (SUBSET Slots) \cup {NoSet}]
      BY <1>0, <3>1, <3>2
    <3> QED BY <1>0, <2>1, <2>2, <3>2, <3>3
  <2> QED BY <1>0, <2>1, <2>2
<1>7. ASSUME NEW r \in Regions, NEW slot \in StoredSlots, Store(r, slot) PROVE Goal
  <2>1. /\ stored' = [stored EXCEPT ![r] = @ \cup {slot}] /\ slot \in Slots
        /\ UNCHANGED <<memory, hasBeenSwept, marked, taintedRegions>>
    BY <1>7, ConstAssumption DEF Store, Slots, gcVars
  <2>2. /\ \/ oldToNewSet' = [oldToNewSet EXCEPT ![r] = sweepingRSet[r] \cup {slot}] /\ sweepingRSet[r] # NoSet
           \/ oldToNewSet' = [oldToNewSet EXCEPT ![r] = SetOf(@) \cup {slot}]
        /\ sweepingRSet' = sweepingRSet \/ sweepingRSet' = [sweepingRSet EXCEPT ![r] = NoSet]
    BY <1>7 DEF Store
  <2>3. /\ SetOf(oldToNewSet[r]) \cup {slot} \in SUBSET Slots
        /\ sweepingRSet[r] # NoSet => sweepingRSet[r] \cup {slot} \in SUBSET Slots
    BY <1>0, <2>1 DEF SetOf
  <2>4. oldToNewSet' \in [Regions -> (SUBSET Slots) \cup {NoSet}]
    BY <1>0, <2>2, <2>3
  <2>5. sweepingRSet' \in [Regions -> (SUBSET Slots) \cup {NoSet}]
    BY <1>0, <2>2
  <2> QED BY <1>0, <2>1, <2>4, <2>5
<1>8. CASE (\E s \in Types : Allocate(s)) \/ AllocateAfterSweepingCompleted
  <2>1. UNCHANGED <<oldToNewSet, sweepingRSet, hasBeenSwept, stored, marked, taintedRegions>>
    BY <1>8 DEF Allocate, AllocateAfterSweepingCompleted, rsetVars, gcVars
  <2>2. memory' = memory \/ \E r : memory' = [memory EXCEPT ![r] = "used"]
    BY <1>8 DEF Allocate, AllocateAfterSweepingCompleted
  <2> QED BY <1>0, <2>1, <2>2
<1>9. ASSUME NEW dead \in SUBSET Regions, MarkOldGC(dead) PROVE Goal
  <2>1. /\ UNCHANGED <<oldToNewSet, sweepingRSet, hasBeenSwept, taintedRegions>>
        /\ marked' = [r \in Regions |-> TRUE]
        /\ memory' = [r \in Regions |-> IF r \in dead THEN "garbage" ELSE memory[r]]
        /\ stored' = [r \in Regions |-> IF r \in dead THEN stored[r] \ {"dying"} ELSE stored[r]]
    BY <1>9 DEF MarkOldGC, gcVars
  <2> QED BY <1>0, <2>1
<1>10. ASSUME NEW dead \in SUBSET Regions, MarkFullGC(dead) PROVE Goal
  <2> PICK moved : moved = RegionsOf(OLD_SPACE) OBVIOUS
  <2>1. /\ UNCHANGED <<sweepingRSet, taintedRegions>>
        /\ marked' = [r \in Regions |-> r \notin moved]
        /\ memory' = [r \in Regions |-> IF r \in moved THEN "used"
                                        ELSE IF r \in dead THEN "garbage" ELSE memory[r]]
        /\ stored' = [r \in Regions |-> {}]
        /\ oldToNewSet' = [r \in Regions |->
               IF r \in moved \/ oldToNewSet[r] = NoSet THEN NoSet ELSE {}]
        /\ hasBeenSwept' = [r \in Regions |-> r \notin moved /\ hasBeenSwept[r]]
    BY <1>10 DEF MarkFullGC, gcVars
  <2>2. memory' \in [Regions -> {"used", "garbage", "inRegion", "free"}]
    BY <1>0, <2>1
  <2>3. oldToNewSet' \in [Regions -> (SUBSET Slots) \cup {NoSet}]
    BY <2>1
  <2>4. hasBeenSwept' \in [Regions -> BOOLEAN] /\ marked' \in [Regions -> BOOLEAN]
    BY <2>1
  <2> QED BY <1>0, <2>1, <2>2, <2>3, <2>4
<1>11. CASE SweepConcurrently
  <2>1. /\ UNCHANGED <<stored, marked, hasBeenSwept>>
        /\ taintedRegions' = {q \in SweptRegions : hasBeenSwept[q]}
        /\ memory' = RebuildFreeList(memory)
        /\ oldToNewSet' = [q \in Regions |-> IF q \in SweptRegions THEN NoSet ELSE oldToNewSet[q]]
        /\ sweepingRSet' = [q \in Regions |-> IF q \in SweptRegions THEN oldToNewSet[q]
                                                                     ELSE sweepingRSet[q]]
    BY <1>11 DEF SweepConcurrently
  <2>2. memory' \in [Regions -> {"used", "garbage", "inRegion", "free"}]
    BY <1>0, <2>1 DEF RebuildFreeList
  <2>3. taintedRegions' \in SUBSET Regions
    BY <2>1 DEF SweptRegions
  <2> QED BY <1>0, <2>1, <2>2, <2>3
<1>12. CASE SweepNow
  <2>1. /\ UNCHANGED <<stored, marked, hasBeenSwept, taintedRegions, sweepingRSet>>
        /\ oldToNewSet' = [q \in Regions |-> IF q \in SweptRegions
              THEN IF memory[q] \in {"garbage", "free", "inRegion"} /\ oldToNewSet[q] # NoSet
                   THEN oldToNewSet[q] \ {"dying"} ELSE oldToNewSet[q]
              ELSE oldToNewSet[q]]
        /\ memory' = [q \in Regions |-> IF q \in SweptRegions /\ memory[q] # "used"
                                        THEN "free" ELSE memory[q]]
    BY <1>12 DEF SweepNow
  <2>2. memory' \in [Regions -> {"used", "garbage", "inRegion", "free"}]
    BY <1>0, <2>1
  <2>3. oldToNewSet' \in [Regions -> (SUBSET Slots) \cup {NoSet}]
    <3>1. \A q \in Regions : oldToNewSet[q] # NoSet => oldToNewSet[q] \ {"dying"} \in SUBSET Slots
      BY <1>0
    <3> QED BY <1>0, <2>1, <3>1
  <2> QED BY <1>0, <2>1, <2>2, <2>3
<1> QED BY <1>1, <1>2, <1>3, <1>4, <1>5, <1>6, <1>7, <1>8, <1>9, <1>10, <1>11, <1>12 DEF TouchesRegions

LEMMA SpaceTypeStep ==
    ASSUME TypeOK, PoolInv, ListInv, [Next]_vars
    PROVE  /\ sweptList' \in [Types -> SUBSET Regions]
           /\ sweepState' \in [Types -> {"NO_SWEEP", "SWEEPING", "SWEPT"}]
           /\ compressSweepState' \in {"NO_SWEEP", "SWEEPING", "SWEPT"}
<1> DEFINE Goal == /\ sweptList' \in [Types -> SUBSET Regions]
                   /\ sweepState' \in [Types -> {"NO_SWEEP", "SWEEPING", "SWEPT"}]
                   /\ compressSweepState' \in {"NO_SWEEP", "SWEEPING", "SWEPT"}
<1>0. /\ sweptList \in [Types -> SUBSET Regions]
      /\ sweepState \in [Types -> {"NO_SWEEP", "SWEEPING", "SWEPT"}]
      /\ compressSweepState \in {"NO_SWEEP", "SWEEPING", "SWEPT"}
  BY DEF TypeOK
<1>1. ASSUME UNCHANGED <<sweptList, sweepState, compressSweepState>> PROVE Goal
  BY <1>0, <1>1
<1>2. CASE StartTask \/ ClearTaskStep
  BY <1>1, <1>2 DEF StartTask, ClearTaskStep, ClearTaskWaits, ClearMarkBits, spaceVars
<1>3. ASSUME NEW t \in Types, TaskStep(t) PROVE Goal
  <2>1. CASE AddSweptRegion(t)
    <3> PICK p : p = tregion[t] OBVIOUS
    <3>1. /\ sweptList' = [sweptList EXCEPT ![SpaceOf[p]] = @ \cup {p}]
          /\ UNCHANGED <<sweepState, compressSweepState>> /\ tpc[t] = "add"
      BY <2>1 DEF AddSweptRegion
    <3>2. p \in Regions
      BY <3>1 DEF PoolInv
    <3> QED BY <1>0, <3>1, <3>2
  <2>2. CASE ~AddSweptRegion(t)
    BY <1>1, <1>3, <2>2 DEF TaskStep, TakeRegion, FreeRegion, SetSwept, CountDown, spaceVars
  <2> QED BY <2>1, <2>2
<1>4. CASE \/ \E r \in Regions, slot \in StoredSlots : Store(r, slot)
           \/ \E type \in Switches : EnableConcurrentSweep(type)
           \/ vars' = vars
  BY <1>1, <1>4 DEF Store, EnableConcurrentSweep, spaceVars, vars
<1>5. CASE (\E s \in Types : Allocate(s)) \/ (\E fullGC \in Collections : StartGC(fullGC))
  BY <1>1, <1>5 DEF Allocate, StartGC, spaceVars
<1>6. CASE CheckRemaining \/ CountIn \/ MainTakesRegion \/ MainFreesRegion \/ CountOut
             \/ WaitTasks \/ FillSweptRegion
  BY <1>1, <1>6 DEF CheckRemaining, CountIn, MainTakesRegion, MainFreesRegion, CountOut,
     WaitTasks, FillSweptRegion, spaceVars, mainFrame
<1>7. CASE EnsureAllTaskFinished \/ AllocateAfterSweepingCompleted \/ TryFillSweptRegion
             \/ (\E dead \in SUBSET Regions : MarkOldGC(dead) \/ MarkFullGC(dead))
  BY <1>1, <1>7 DEF EnsureAllTaskFinished, AllocateAfterSweepingCompleted,
     TryFillSweptRegion, MarkOldGC, MarkFullGC, spaceVars
<1>8. CASE DrainSweptRegion
  <2>1. /\ compressSweepState' = compressSweepState
        /\ sweptList' = sweptList \/ \E r : sweptList' = [sweptList EXCEPT ![mtype] = @ \ {r}]
        /\ sweepState' = sweepState \/ sweepState' = [sweepState EXCEPT ![mtype] = "SWEPT"]
    BY <1>8 DEF DrainSweptRegion, mainFrame
  <2> QED BY <1>0, <2>1
<1>9. CASE SweepConcurrently \/ SweepNow
  <2>1. /\ UNCHANGED <<sweptList, compressSweepState>>
        /\ sweepState' = [s \in Types |-> IF s \in SweptSpaces THEN "SWEEPING" ELSE sweepState[s]]
    BY <1>9 DEF SweepConcurrently, SweepNow
  <2> QED BY <1>0, <2>1
<1>10. CASE Resume
  <2>1. /\ sweptList' = sweptList
        /\ \/ UNCHANGED <<sweepState, compressSweepState>>
           \/ /\ sweepState' = [sweepState EXCEPT ![OLD_SPACE] = compressSweepState]
              /\ compressSweepState' = sweepState[OLD_SPACE]
    BY <1>10 DEF Resume
  <2>2. OLD_SPACE \in Types
    BY ConstAssumption DEF OLD_SPACE, Types
  <2> QED BY <1>0, <2>1, <2>2
<1> QED BY <1>2, <1>3, <1>4, <1>5, <1>6, <1>7, <1>8, <1>9, <1>10 DEF Next, MainStep

SweeperTypes ==
    /\ remainingTaskNum \in [Types -> Int]
    /\ isSweeping \in BOOLEAN
    /\ startSpaceType \in {OLD_SPACE, NON_MOVABLE}
    /\ enableType \in {"ENABLE", "CONFIG_DISABLE", "DISABLE", "REQUEST_DISABLE"}
    /\ clearTaskFinished \in BOOLEAN

LEMMA SweeperTypeStep ==
    ASSUME TypeOK, [Next]_vars, CountInv'
    PROVE  /\ remainingTaskNum' \in [Types -> 0 .. FreeListNum + 1]
           /\ isSweeping' \in BOOLEAN
           /\ startSpaceType' \in {OLD_SPACE, NON_MOVABLE}
           /\ enableType' \in {"ENABLE", "CONFIG_DISABLE", "DISABLE", "REQUEST_DISABLE"}
           /\ clearTaskFinished' \in BOOLEAN
<1>0. /\ remainingTaskNum \in [Types -> Int]
      /\ isSweeping \in BOOLEAN
      /\ startSpaceType \in {OLD_SPACE, NON_MOVABLE}
      /\ enableType \in {"ENABLE", "CONFIG_DISABLE", "DISABLE", "REQUEST_DISABLE"}
      /\ clearTaskFinished \in BOOLEAN
  <2>1. remainingTaskNum \in [Types -> 0 .. FreeListNum + 1]
    BY DEF TypeOK
  <2>2. remainingTaskNum \in [Types -> Int]
    BY <2>1
  <2> QED BY <2>2 DEF TypeOK
<1>1. ASSUME remainingTaskNum' \in [Types -> Int],
             isSweeping' = isSweeping \/ isSweeping' = TRUE \/ isSweeping' = FALSE,
             startSpaceType' = startSpaceType \/ startSpaceType' = OLD_SPACE
                 \/ startSpaceType' = NON_MOVABLE,
             enableType' = enableType
                 \/ enableType' \in {"ENABLE", "CONFIG_DISABLE", "DISABLE", "REQUEST_DISABLE"},
             clearTaskFinished' = clearTaskFinished \/ clearTaskFinished' = TRUE
                 \/ clearTaskFinished' = FALSE
      PROVE  SweeperTypes'
  <2>1. isSweeping' \in BOOLEAN
    BY <1>0, <1>1
  <2>2. clearTaskFinished' \in BOOLEAN
    BY <1>0, <1>1
  <2>3. enableType' \in {"ENABLE", "CONFIG_DISABLE", "DISABLE", "REQUEST_DISABLE"}
    BY <1>0, <1>1
  <2>4. startSpaceType' \in {OLD_SPACE, NON_MOVABLE}
    BY <1>0, <1>1
  <2> QED BY <1>1, <2>1, <2>2, <2>3, <2>4 DEF SweeperTypes
<1>2. ASSUME isSweeping' = isSweeping, startSpaceType' = startSpaceType, enableType' = enableType,
             clearTaskFinished' = clearTaskFinished,
             \/ \E s : remainingTaskNum' = [remainingTaskNum EXCEPT ![s] = @ - 1]
             \/ \E s : remainingTaskNum' = [remainingTaskNum EXCEPT ![s] = @ + 1]
             \/ remainingTaskNum' = remainingTaskNum
      PROVE  SweeperTypes'
  <2>1. remainingTaskNum' \in [Types -> Int]
    BY <1>0, <1>2
  <2> QED BY <1>1, <1>2, <2>1
<1>3. ASSUME StartTask \/ ClearTaskWaits
      PROVE  SweeperTypes'
  <2>1. UNCHANGED <<sweeperVars, clearTaskFinished>>
    BY <1>3 DEF StartTask, ClearTaskWaits
  <2> QED BY <1>2, <2>1 DEF sweeperVars
<1>4. ASSUME ClearMarkBits
      PROVE  SweeperTypes'
  <2>1. UNCHANGED sweeperVars /\ clearTaskFinished' = TRUE
    BY <1>4 DEF ClearMarkBits
  <2> QED BY <1>0, <1>1, <2>1 DEF sweeperVars
<1>5. ASSUME NEW t \in Types, TaskStep(t) PROVE SweeperTypes'
  <2>1. CASE CountDown(t)
    <3>1. /\ remainingTaskNum' = [remainingTaskNum EXCEPT ![TaskSpace(t)] = @ - 1]
          /\ UNCHANGED <<isSweeping, startSpaceType, enableType, clearTaskFinished>>
      BY <2>1 DEF CountDown
    <3> QED BY <1>2, <3>1
  <2>2. CASE ~CountDown(t)
    <3>1. UNCHANGED <<sweeperVars, clearTaskFinished>>
      BY <1>5, <2>2 DEF TaskStep, TakeRegion, FreeRegion, AddSweptRegion, SetSwept
    <3> QED BY <1>2, <3>1 DEF sweeperVars
  <2> QED BY <2>1, <2>2
<1>6. ASSUME \/ \E r \in Regions, slot \in StoredSlots : Store(r, slot)
             \/ (\E s \in Types : Allocate(s)) \/ (\E fullGC \in Collections : StartGC(fullGC))
             \/ AllocateAfterSweepingCompleted \/ TryFillSweptRegion \/ SweepNow
             \/ vars' = vars
      PROVE  SweeperTypes'
  <2>1. UNCHANGED <<sweeperVars, clearTaskFinished>>
    BY <1>6 DEF Store, Allocate, StartGC, AllocateAfterSweepingCompleted, TryFillSweptRegion,
       SweepNow, vars
  <2> QED BY <1>2, <2>1 DEF sweeperVars
<1>7. ASSUME NEW type \in Switches, EnableConcurrentSweep(type) PROVE SweeperTypes'
  <2>1. UNCHANGED <<remainingTaskNum, isSweeping, startSpaceType, clearTaskFinished>>
    BY <1>7 DEF EnableConcurrentSweep
  <2>2. enableType' \in {"ENABLE", "CONFIG_DISABLE", "DISABLE", "REQUEST_DISABLE"}
    <3>1. enableType' = "REQUEST_DISABLE" \/ enableType' = type
      BY <1>7 DEF EnableConcurrentSweep
    <3>2. type \in {"ENABLE", "DISABLE"}
      BY ConstAssumption
    <3> QED BY <3>1, <3>2
  <2> QED BY <1>0, <1>1, <2>1, <2>2
<1>9. ASSUME CheckRemaining \/ CountIn \/ MainTakesRegion \/ MainFreesRegion \/ CountOut
               \/ WaitTasks \/ FillSweptRegion \/ DrainSweptRegion
      PROVE  SweeperTypes'
  <2>1. UNCHANGED <<isSweeping, startSpaceType, enableType, clearTaskFinished>>
    BY <1>9 DEF CheckRemaining, CountIn, MainTakesRegion, MainFreesRegion, CountOut,
       WaitTasks, FillSweptRegion, DrainSweptRegion, mainFrame
  <2>2. \/ remainingTaskNum' = [remainingTaskNum EXCEPT ![mtype] = @ - 1]
        \/ remainingTaskNum' = [remainingTaskNum EXCEPT ![mtype] = @ + 1]
        \/ remainingTaskNum' = remainingTaskNum
    BY <1>9 DEF CheckRemaining, CountIn, MainTakesRegion, MainFreesRegion, CountOut,
       WaitTasks, FillSweptRegion, DrainSweptRegion
  <2> QED BY <1>2, <2>1, <2>2
<1>10. ASSUME EnsureAllTaskFinished
      PROVE  SweeperTypes'
  <2>1. /\ UNCHANGED <<remainingTaskNum, startSpaceType, clearTaskFinished>>
        /\ isSweeping' = isSweeping \/ isSweeping' = FALSE
        /\ enableType' = enableType \/ enableType' = "DISABLE"
    BY <1>10 DEF EnsureAllTaskFinished
  <2> QED BY <1>0, <1>1, <2>1
<1>12. ASSUME \E dead \in SUBSET Regions : MarkOldGC(dead) \/ MarkFullGC(dead)
      PROVE  SweeperTypes'
  <2>1. /\ UNCHANGED <<remainingTaskNum, isSweeping, enableType, clearTaskFinished>>
        /\ startSpaceType' = OLD_SPACE \/ startSpaceType' = NON_MOVABLE
    BY <1>12 DEF MarkOldGC, MarkFullGC
  <2> QED BY <1>0, <1>1, <2>1
<1>13. ASSUME SweepConcurrently
      PROVE  SweeperTypes'
  <2>1. /\ remainingTaskNum' = [s \in Types |-> IF s \in SweptSpaces
                                    THEN FreeListNum - startSpaceType ELSE remainingTaskNum[s]]
        /\ isSweeping' = TRUE /\ UNCHANGED <<startSpaceType, enableType, clearTaskFinished>>
    BY <1>13 DEF SweepConcurrently
  <2>2. FreeListNum - startSpaceType \in Int
    BY <1>0, ConstAssumption DEF OLD_SPACE, NON_MOVABLE
  <2>3. remainingTaskNum' \in [Types -> Int]
    BY <1>0, <2>1, <2>2
  <2> QED BY <1>1, <2>1, <2>3
<1>14. ASSUME Resume
      PROVE  SweeperTypes'
  <2>1. UNCHANGED sweeperVars /\ clearTaskFinished' = FALSE
    BY <1>14 DEF Resume
  <2> QED BY <1>0, <1>1, <2>1 DEF sweeperVars
<1>15. SweeperTypes'
  BY <1>3, <1>4, <1>5, <1>6, <1>7, <1>9, <1>10, <1>12, <1>13, <1>14
     DEF Next, MainStep, ClearTaskStep
<1>16. \A s \in Types : remainingTaskNum'[s] \in 0 .. FreeListNum + 1
  <2> SUFFICES ASSUME NEW s \in Types PROVE remainingTaskNum'[s] \in 0 .. FreeListNum + 1
    OBVIOUS
  <2>1. PICK S \in SUBSET Types : S = {t \in Types : Pending(t, s)'}
    OBVIOUS
  <2>2. remainingTaskNum'[s] = Cardinality(S) + (IF Helps(s)' THEN 1 ELSE 0)
    BY <2>1 DEF CountInv
  <2>3. Cardinality(S) \in Nat /\ Cardinality(S) <= FreeListNum
    BY FiniteTypes
  <2>4. remainingTaskNum'[s] = Cardinality(S) + 1 \/ remainingTaskNum'[s] = Cardinality(S)
    BY <2>2, <2>3
  <2>5. FreeListNum \in Nat
    BY ConstAssumption
  <2> QED BY ONLY <2>3, <2>4, <2>5
<1> QED BY <1>15, <1>16 DEF SweeperTypes

LEMMA TaskTypeStep ==
    ASSUME TypeOK, PoolInv, MainInv, ListInv, [Next]_vars
    PROVE  /\ tpc' \in [Tasks -> {"idle", "queued", "take", "free", "add", "set", "count",
                                  "wait", "clear"}]
           /\ tindex' \in [Tasks -> 0 .. FreeListNum]
           /\ tregion' \in [Tasks -> Regions \cup {NoRegion}]
<1> USE ClearTaskIsNoSweeper
<1> PICK P : P = {"idle", "queued", "take", "free", "add", "set", "count", "wait", "clear"}
  OBVIOUS
<1> DEFINE Goal == /\ tpc' \in [Tasks -> P]
                   /\ tindex' \in [Tasks -> 0 .. FreeListNum]
                   /\ tregion' \in [Tasks -> Regions \cup {NoRegion}]
<1>0. /\ tpc \in [Tasks -> P]
      /\ tindex \in [Tasks -> 0 .. FreeListNum]
      /\ tregion \in [Tasks -> Regions \cup {NoRegion}]
      /\ FreeListNum \in Nat \ {0, 1} /\ startSpaceType \in {0, 1}
  BY ConstAssumption DEF TypeOK, OLD_SPACE, NON_MOVABLE
<1>1. ASSUME UNCHANGED <<tpc, tindex, tregion>> PROVE Goal
  BY <1>0, <1>1
<1>2. CASE StartTask
  <2>1. /\ \E x \in {"wait", "take"} : tpc' = [tpc EXCEPT ![Head(queue)] = x]
        /\ tindex' = [tindex EXCEPT ![Head(queue)] = startSpaceType]
        /\ tregion' = tregion
    BY <1>2 DEF StartTask
  <2>2. startSpaceType \in 0 .. FreeListNum
    BY <1>0
  <2>3. tindex' \in [Tasks -> 0 .. FreeListNum]
    BY <1>0, <2>1, <2>2
  <2>4. tpc' \in [Tasks -> P]
    BY <1>0, <2>1
  <2> QED BY <1>0, <2>1, <2>3, <2>4
<1>3. ASSUME NEW t \in Types, TaskStep(t) PROVE Goal
  <2>1. CASE TakeRegion(t)
    <3>1. /\ tindex' = tindex
          /\ \E x \in {"free", "count"} : tpc' = [tpc EXCEPT ![t] = x]
      BY <2>1 DEF TakeRegion
    <3>2. CASE tregion' = tregion
      BY <1>0, <3>1, <3>2
    <3>3. CASE tregion' # tregion
      <4> PICK c : c = TaskSpace(t) OBVIOUS
      <4>1. /\ tregion' = [tregion EXCEPT ![t] = LastRegion(c)] /\ sweepingList[c] # << >>
            /\ sweepingList' = [sweepingList EXCEPT ![c] = AllButLast(c)] /\ tpc[t] = "take"
        BY <2>1, <3>3 DEF TakeRegion
      <4>2. c \in Types
        <5>1. c \in SweptSpaces
          BY <4>1, SpacesOfTasks DEF Active, Sweeps
        <5> QED BY <5>1, SweptFacts DEF TypeOK
      <4>3. LastRegion(c) \in Regions
        BY <4>1, <4>2, Popped
      <4> QED BY <1>0, <3>1, <4>1, <4>3
    <3> QED BY <3>2, <3>3
  <2>2. CASE FreeRegion(t) \/ AddSweptRegion(t)
    <3>1. UNCHANGED <<tindex, tregion>> /\ \E x \in {"add", "set"} : tpc' = [tpc EXCEPT ![t] = x]
      BY <2>2 DEF FreeRegion, AddSweptRegion
    <3> QED BY <1>0, <3>1
  <2>3. CASE SetSwept(t)
    BY <1>0, <2>3 DEF SetSwept
  <2>4. CASE CountDown(t)
    <3>1. /\ tregion' = tregion
          /\ \E x \in {"take", "idle"} : tpc' = [tpc EXCEPT ![t] = x]
          /\ \/ tindex[t] + 1 < FreeListNum /\ tindex' = [tindex EXCEPT ![t] = @ + 1]
             \/ tindex' = [tindex EXCEPT ![t] = 0]
      BY <2>4 DEF CountDown
    <3>2. tindex[t] \in 0 .. FreeListNum /\ 0 \in 0 .. FreeListNum
      BY <1>0
    <3>3. tindex[t] + 1 < FreeListNum => tindex[t] + 1 \in 0 .. FreeListNum
      BY <1>0, <3>2
    <3>4. tindex' \in [Tasks -> 0 .. FreeListNum]
      BY <1>0, <3>1, <3>2, <3>3
    <3>5. tpc' \in [Tasks -> P]
      BY <1>0, <3>1
    <3> QED BY <1>0, <3>1, <3>4, <3>5
  <2> QED BY <1>3, <2>1, <2>2, <2>3, <2>4 DEF TaskStep
<1>4. CASE ClearTaskWaits
  <2> PICK i : i = tindex[ClearTask] OBVIOUS
  <2>1. /\ tregion' = tregion
        /\ tpc' = tpc \/ tpc' = [tpc EXCEPT ![ClearTask] = "clear"]
        /\ tindex' = tindex \/ (i < FreeListNum /\ tindex' = [tindex EXCEPT ![ClearTask] = i + 1])
    BY <1>4 DEF ClearTaskWaits
  <2>2. i \in 0 .. FreeListNum /\ (i < FreeListNum => i + 1 \in 0 .. FreeListNum)
    BY <1>0
  <2>3. tindex' \in [Tasks -> 0 .. FreeListNum]
    BY <1>0, <2>1, <2>2
  <2> QED BY <1>0, <2>1, <2>3
<1>5. CASE ClearMarkBits
  <2>1. 0 \in 0 .. FreeListNum
    BY <1>0
  <2> QED BY <1>0, <1>5, <2>1 DEF ClearMarkBits
<1>6. CASE \/ \E r \in Regions, slot \in StoredSlots : Store(r, slot)
           \/ \E type \in Switches : EnableConcurrentSweep(type)
           \/ vars' = vars
  BY <1>1, <1>6 DEF Store, EnableConcurrentSweep, vars, taskVars
<1>7. CASE (\E s \in Types : Allocate(s)) \/ (\E fullGC \in Collections : StartGC(fullGC))
  BY <1>1, <1>7 DEF Allocate, StartGC, taskVars
<1>8. CASE CheckRemaining \/ CountIn \/ MainTakesRegion \/ MainFreesRegion \/ CountOut
             \/ WaitTasks \/ FillSweptRegion \/ DrainSweptRegion
  BY <1>1, <1>8 DEF CheckRemaining, CountIn, MainTakesRegion, MainFreesRegion, CountOut,
     WaitTasks, FillSweptRegion, DrainSweptRegion, taskVars
<1>9. CASE EnsureAllTaskFinished \/ AllocateAfterSweepingCompleted \/ TryFillSweptRegion
             \/ SweepNow \/ (\E dead \in SUBSET Regions : MarkOldGC(dead) \/ MarkFullGC(dead))
  BY <1>1, <1>9 DEF EnsureAllTaskFinished, AllocateAfterSweepingCompleted,
     TryFillSweptRegion, SweepNow, MarkOldGC, MarkFullGC, taskVars
<1>10. CASE SweepConcurrently
  <2>1. /\ tpc' = [t \in Tasks |-> IF t \in SweptSpaces THEN "queued" ELSE tpc[t]]
        /\ UNCHANGED <<tindex, tregion>>
    BY <1>10 DEF SweepConcurrently
  <2>2. tpc' \in [Tasks -> P]
    BY <1>0, <2>1
  <2> QED BY <1>0, <2>1, <2>2
<1>11. CASE Resume
  BY <1>0, <1>11 DEF Resume
<1> QED
  BY <1>2, <1>3, <1>4, <1>5, <1>6, <1>7, <1>8, <1>9, <1>10, <1>11 DEF Next, MainStep, ClearTaskStep

LEMMA MainTypeStep ==
    ASSUME TypeOK, PoolInv, MainInv, ListInv, [Next]_vars
    PROVE  /\ mpc' \in {"run", "check", "count in", "take", "free", "count out", "wait", "fill",
                        "drain", "filled", "clearWait", "sweep", "resume"}
           /\ caller' \in {"none", "all", "alloc", "one", "try"}
           /\ mtype' \in Types
           /\ mregion' \in Regions \cup {NoRegion}
           /\ gc' \in BOOLEAN
           /\ sweeps' \in 0 .. MaxSweeps
<1> PICK P : P = {"run", "check", "count in", "take", "free", "count out", "wait", "fill",
                  "drain", "filled", "clearWait", "sweep", "resume"}
  OBVIOUS
<1> PICK C : C = {"none", "all", "alloc", "one", "try"}
  OBVIOUS
<1> DEFINE Goal == /\ mpc' \in P /\ caller' \in C /\ mtype' \in Types
                   /\ mregion' \in Regions \cup {NoRegion} /\ gc' \in BOOLEAN
                   /\ sweeps' \in 0 .. MaxSweeps
<1>0. /\ mpc \in P /\ caller \in C /\ mtype \in Types
      /\ mregion \in Regions \cup {NoRegion} /\ gc \in BOOLEAN
      /\ sweeps \in 0 .. MaxSweeps
      /\ OLD_SPACE \in Types /\ startSpaceType \in Types
      /\ mtype + 1 < FreeListNum => mtype + 1 \in Types
  <2>0. FreeListNum \in Nat \ {0, 1}
    BY ConstAssumption
  <2>1. OLD_SPACE \in Types /\ NON_MOVABLE \in Types
    BY ONLY <2>0 DEF OLD_SPACE, NON_MOVABLE, Types
  <2>2. mtype \in Types /\ startSpaceType \in {OLD_SPACE, NON_MOVABLE}
    BY DEF TypeOK
  <2>3. mtype + 1 < FreeListNum => mtype + 1 \in Types
    BY ONLY <2>0, <2>2 DEF Types, OLD_SPACE
  <2> QED BY <2>1, <2>2, <2>3 DEF TypeOK
<1>1. ASSUME UNCHANGED <<mainVars, gc, sweeps>> PROVE Goal
  BY <1>0, <1>1 DEF mainVars
<1>2. CASE StartTask \/ ClearTaskStep \/ \E t \in Types : TaskStep(t)
  BY <1>1, <1>2 DEF StartTask, ClearTaskStep, ClearTaskWaits, ClearMarkBits, TaskStep, TakeRegion,
     FreeRegion, AddSweptRegion, SetSwept, CountDown, gcVars
<1>3. CASE \/ \E r \in Regions, slot \in StoredSlots : Store(r, slot)
           \/ \E type \in Switches : EnableConcurrentSweep(type)
           \/ vars' = vars
  BY <1>1, <1>3 DEF Store, EnableConcurrentSweep, vars, gcVars
<1>4. ASSUME NEW s \in Types, Allocate(s) PROVE Goal
  BY <1>0, <1>1, <1>4 DEF Allocate, gcVars
<1>5. ASSUME NEW fullGC \in Collections, StartGC(fullGC) PROVE Goal
  BY <1>0, <1>5, ConstAssumption DEF StartGC
<1>6. CASE CheckRemaining \/ CountIn \/ CountOut \/ WaitTasks \/ FillSweptRegion \/ DrainSweptRegion
  <2>1. /\ UNCHANGED <<caller, mtype, mregion, gc, sweeps>>
        /\ mpc' \in {"count in", "fill", "take", "wait", "filled", "drain"}
    BY <1>6 DEF CheckRemaining, CountIn, CountOut, WaitTasks, FillSweptRegion, DrainSweptRegion,
       mainFrame, gcVars
  <2> QED BY <1>0, <2>1
<1>7. CASE MainTakesRegion
  <2>1. /\ UNCHANGED <<caller, mtype, gc, sweeps>> /\ mpc' \in {"free", "count out"}
    BY <1>7 DEF MainTakesRegion, mainFrame, gcVars
  <2>2. mregion' \in Regions \cup {NoRegion}
    BY <1>0, <1>7, MainPops
  <2> QED BY <1>0, <2>1, <2>2
<1>8. CASE MainFreesRegion
  BY <1>0, <1>8 DEF MainFreesRegion, mainFrame, gcVars
<1>9. CASE EnsureAllTaskFinished \/ TryFillSweptRegion
  <2>1. /\ UNCHANGED <<mregion, gc, sweeps>>
        /\ mpc' \in {"check", "clearWait", "fill", "run"} /\ caller' \in {caller, "none"}
        /\ mtype' \in {mtype, OLD_SPACE} \/ (mtype + 1 < FreeListNum /\ mtype' = mtype + 1)
    BY <1>9 DEF EnsureAllTaskFinished, TryFillSweptRegion, Return, gcVars
  <2> QED BY <1>0, <2>1
<1>10. CASE AllocateAfterSweepingCompleted
  BY <1>0, <1>10 DEF AllocateAfterSweepingCompleted, Return, gcVars
<1>11. CASE \E dead \in SUBSET Regions : MarkOldGC(dead) \/ MarkFullGC(dead)
  BY <1>0, <1>11 DEF MarkOldGC, MarkFullGC, gcVars
<1>12. CASE SweepConcurrently \/ SweepNow
  <2>1. /\ UNCHANGED <<caller, mtype, mregion, gc>> /\ mpc = "sweep" /\ mpc' = "resume"
        /\ sweeps' = sweeps + 1
    BY <1>12 DEF SweepConcurrently, SweepNow
  <2>2. sweeps < MaxSweeps
    BY <2>1 DEF MainInv
  <2>3. sweeps' \in 0 .. MaxSweeps
    <3>1. MaxSweeps \in Nat /\ sweeps \in 0 .. MaxSweeps
      BY <1>0, ConstAssumption
    <3> QED BY ONLY <2>1, <2>2, <3>1
  <2> QED BY <1>0, <2>1, <2>3
<1>13. CASE Resume
  BY <1>0, <1>13 DEF Resume, gcVars
<1> QED
  BY <1>2, <1>3, <1>4, <1>5, <1>6, <1>7, <1>8, <1>9, <1>10, <1>11, <1>12, <1>13 DEF Next, MainStep

LEMMA TypeStep ==
    ASSUME TypeOK, PoolInv, MainInv, ListInv, CountInv, DataInv, [Next]_vars, CountInv'
    PROVE  TypeOK'
<1>1. sweepingList' \in [Types -> Seq(Regions)]
  <2>1. CASE SweepConcurrently
    BY <2>1, SweepBegins
  <2>2. CASE ~SweepConcurrently
    BY <2>2, ListsShrink
  <2> QED BY <2>1, <2>2
<1>2. queue' \in Seq(Tasks)
  BY QueueStep
<1> QED
  BY <1>1, <1>2, DataTypeStep, SpaceTypeStep, SweeperTypeStep, TaskTypeStep, MainTypeStep DEF TypeOK

-----------------------------------------------------------------------------
(* The invariant holds *)

LEMMA InitInv == Init => Inv
<1> SUFFICES ASSUME Init PROVE Inv
  OBVIOUS
<1> USE ClearTaskIsNoSweeper
<1>0. /\ FreeListNum \in Nat \ {0, 1} /\ MaxSweeps \in Nat /\ NoRegion \notin Regions
      /\ SpaceOf \in [Regions -> Types] /\ OLD_SPACE \in Types
  <2>1. FreeListNum \in Nat \ {0, 1}
    BY ConstAssumption
  <2>2. OLD_SPACE \in Types
    BY ONLY <2>1 DEF OLD_SPACE, Types
  <2> QED BY <2>2, ConstAssumption
<1>1. /\ sweepingList = [s \in Types |-> << >>] /\ sweptList = [s \in Types |-> {}]
      /\ remainingTaskNum = [s \in Types |-> 0]
      /\ isSweeping = FALSE /\ startSpaceType = OLD_SPACE /\ enableType = "ENABLE"
      /\ clearTaskFinished = TRUE
      /\ tpc = [t \in Tasks |-> "idle"] /\ queue = << >>
      /\ mpc = "run" /\ caller = "none" /\ mtype = OLD_SPACE /\ mregion = NoRegion
  BY DEF Init
<1>2. TypeOK
  <2>1. << >> \in Seq(Regions) /\ queue \in Seq(Tasks)
    BY <1>1
  <2>2. sweepingList \in [Types -> Seq(Regions)]
    BY <1>1, <2>1
  <2>3. remainingTaskNum \in [Types -> 0 .. FreeListNum + 1]
    <3>1. 0 \in 0 .. FreeListNum + 1
      BY ONLY <1>0
    <3> QED BY <1>1, <3>1
  <2>4. tindex \in [Tasks -> 0 .. FreeListNum]
    <3>1. 0 \in 0 .. FreeListNum
      BY ONLY <1>0
    <3> QED BY <3>1 DEF Init
  <2>5. sweeps \in 0 .. MaxSweeps
    <3>1. 0 \in 0 .. MaxSweeps
      BY ONLY <1>0
    <3> QED BY <3>1 DEF Init
  <2>6. /\ oldToNewSet \in [Regions -> (SUBSET Slots) \cup {NoSet}]
        /\ sweepingRSet \in [Regions -> (SUBSET Slots) \cup {NoSet}]
        /\ hasBeenSwept \in [Regions -> BOOLEAN] /\ marked \in [Regions -> BOOLEAN]
        /\ memory \in [Regions -> {"used", "garbage", "inRegion", "free"}]
        /\ stored \in [Regions -> SUBSET Slots] /\ taintedRegions \in SUBSET Regions
    BY DEF Init
  <2>7. /\ sweptList \in [Types -> SUBSET Regions]
        /\ sweepState \in [Types -> {"NO_SWEEP", "SWEEPING", "SWEPT"}]
        /\ compressSweepState \in {"NO_SWEEP", "SWEEPING", "SWEPT"}
    BY DEF Init
  <2>8. /\ tpc \in [Tasks -> {"idle", "queued", "take", "free", "add", "set", "count", "wait", "clear"}]
        /\ tregion \in [Tasks -> Regions \cup {NoRegion}]
    BY DEF Init
  <2>9. /\ isSweeping \in BOOLEAN /\ clearTaskFinished \in BOOLEAN /\ gc \in BOOLEAN
        /\ startSpaceType \in {OLD_SPACE, NON_MOVABLE}
        /\ enableType \in {"ENABLE", "CONFIG_DISABLE", "DISABLE", "REQUEST_DISABLE"}
    BY DEF Init
  <2>10. /\ mpc \in {"run", "check", "count in", "take", "free", "count out", "wait", "fill", "drain",
                     "filled", "clearWait", "sweep", "resume"}
         /\ caller \in {"none", "all", "alloc", "one", "try"}
         /\ mtype \in Types /\ mregion \in Regions \cup {NoRegion}
    BY <1>0, <1>1
  <2> QED BY <2>1, <2>2, <2>3, <2>4, <2>5, <2>6, <2>7, <2>8, <2>9, <2>10 DEF TypeOK
<1>3. PoolInv
  <2>1. DOMAIN queue = {}
    BY <1>1
  <2> QED BY <1>1, <2>1 DEF PoolInv, Active, Sweeps
<1>4. MainInv
  BY <1>1 DEF MainInv, Waits, Finishes
<1>5. DoneInv
  BY <1>1 DEF DoneInv, Finishes, Waits
<1>6. \A t \in Types : \A s : ~Pending(t, s)
  BY <1>1 DEF Pending, Active, Sweeps
<1>7. ListInv
  <2>1. DOMAIN << >> = {}
    OBVIOUS
  <2> QED BY <1>1, <2>1 DEF ListInv
<1>8. CountInv
  <2> SUFFICES ASSUME NEW s \in Types
               PROVE  remainingTaskNum[s] = Cardinality({t \in Types : Pending(t, s)})
                                              + (IF Helps(s) THEN 1 ELSE 0)
    BY DEF CountInv
  <2>1. {t \in Types : Pending(t, s)} = {}
    BY <1>6
  <2>2. Cardinality({t \in Types : Pending(t, s)}) = 0
    BY <2>1, FS_EmptySet
  <2>3. ~Helps(s) /\ remainingTaskNum[s] = 0
    BY <1>1 DEF Helps
  <2> QED BY <2>2, <2>3
<1>9. \A r \in Regions : ~Unfreed(r) /\ ~Handed(r)
  BY <1>2, <1>3, <1>4, <1>7, <1>1, ClosedIsIdle
<1>10. OwnInv
  <2>1. \A r \in Regions : ~Listed(r) /\ mregion # r /\ r \notin sweptList[SpaceOf[r]]
    BY <1>9 DEF Unfreed, Handed
  <2>2. \A t \in Types : \A r : ~Keeps(t, r) /\ ~Holds(t, r)
    BY <1>1 DEF Keeps, Holds
  <2> QED BY <2>1, <2>2 DEF OwnInv
<1>11. ClearInv
  BY <1>1 DEF ClearInv
<1>12. DataInv
  <2> SUFFICES ASSUME NEW r \in Regions PROVE RegionInv(r)
    BY DEF DataInv
  <2>1. memory[r] = "used" /\ stored[r] = {} /\ sweepingRSet[r] = NoSet
    BY DEF Init
  <2> QED BY <1>1, <1>9, <2>1 DEF RegionInv, DataOf, SlotsOf, FreshOf
<1> QED BY <1>2, <1>3, <1>4, <1>5, <1>7, <1>8, <1>10, <1>11, <1>12 DEF Inv

LEMMA InvStep == Inv /\ [Next]_vars => Inv'
<1> SUFFICES ASSUME Inv, [Next]_vars PROVE Inv'
  OBVIOUS
<1>1. /\ TypeOK /\ PoolInv /\ MainInv /\ DoneInv /\ CountInv /\ ListInv /\ OwnInv
      /\ ClearInv /\ DataInv
  BY DEF Inv
<1>2. CountInv'
  BY <1>1, CountInvStep
<1>3. TypeOK'
  BY <1>1, <1>2, TypeStep
<1>4. PoolInv' /\ MainInv' /\ DoneInv' /\ ListInv' /\ OwnInv' /\ ClearInv' /\ DataInv'
  BY <1>1, PoolInvStep, MainInvStep, DoneInvStep, ListInvStep, OwnInvStep, ClearInvStep, DataInvStep
<1> QED BY <1>2, <1>3, <1>4 DEF Inv

\* The sweep and the collections around it keep the invariant, whatever the
\* interleaving of the tasks, the AsyncClearTask and the JS thread.
THEOREM SweepInvariant == Spec => []Inv
<1>1. Init => Inv
  BY InitInv
<1>2. Inv /\ [Next]_vars => Inv'
  BY InvStep
<1> QED BY <1>1, <1>2, PTL DEF Spec

-----------------------------------------------------------------------------
(* What it implies *)

LEMMA OneSweeper == Inv => SweptByOne
<1> SUFFICES ASSUME Inv, NEW r \in Regions
             PROVE  Cardinality({i \in DOMAIN sweepingList[SpaceOf[r]] : sweepingList[SpaceOf[r]][i] = r})
                      + Cardinality({t \in Types : Holds(t, r)})
                      + (IF mregion = r THEN 1 ELSE 0)
                      + (IF r \in sweptList[SpaceOf[r]] THEN 1 ELSE 0) <= 1
  BY DEF SweptByOne
<1> PICK s : s = SpaceOf[r] OBVIOUS
<1> PICK L : L = {i \in DOMAIN sweepingList[s] : sweepingList[s][i] = r} OBVIOUS
<1> PICK H : H = {t \in Types : Holds(t, r)} OBVIOUS
<1>0. TypeOK /\ ListInv /\ OwnInv /\ s \in Types
  BY ConstAssumption DEF Inv
<1>1. /\ L # {} => Listed(r)
      /\ Cardinality(L) = IF L = {} THEN 0 ELSE 1
  <2>1. L # {} => Listed(r)
    BY DEF Listed
  <2>2. CASE L = {}
    BY <2>1, <2>2, FS_EmptySet
  <2>3. CASE L # {}
    <3> PICK i : i \in L
      BY <2>3
    <3>1. \A j, k \in DOMAIN sweepingList[s] : sweepingList[s][j] = sweepingList[s][k] => j = k
      BY <1>0 DEF ListInv
    <3>2. \A j \in L : j \in DOMAIN sweepingList[s] /\ sweepingList[s][j] = r
      OBVIOUS
    <3>3. \A j \in L : j = i
      BY <3>1, <3>2
    <3>4. L = {i}
      BY <3>3
    <3> QED BY <2>1, <2>3, <3>4, FS_Singleton
  <2> QED BY <2>2, <2>3
<1>2. \A t \in Types : Holds(t, r) => Keeps(t, r)
  BY DEF Holds, Keeps
<1>3. Cardinality(H) = IF H = {} THEN 0 ELSE 1
  <2>1. CASE H = {}
    BY <2>1, FS_EmptySet
  <2>2. CASE H # {}
    <3> PICK t \in Types : Holds(t, r)
      BY <2>2
    <3>1. H = {t}
      BY <1>0, <1>2 DEF OwnInv
    <3> QED BY <2>2, <3>1, FS_Singleton
  <2> QED BY <2>1, <2>2
<1>4. /\ Listed(r) => mregion # r /\ r \notin sweptList[s] /\ H = {}
      /\ mregion = r => r \notin sweptList[s] /\ H = {}
      /\ H # {} => r \notin sweptList[s]
  BY <1>0, <1>2 DEF OwnInv
<1>5. Cardinality(L) + Cardinality(H) + (IF mregion = r THEN 1 ELSE 0)
        + (IF r \in sweptList[s] THEN 1 ELSE 0) <= 1
  <2>1. /\ Cardinality(L) = 0 \/ (Cardinality(L) = 1 /\ Listed(r))
        /\ Cardinality(H) = 0 \/ (Cardinality(H) = 1 /\ H # {})
    BY <1>1, <1>3
  <2> QED BY ONLY <2>1, <1>4
<1> QED BY <1>5

LEMMA ClosedIsComplete == Inv => ClosedSweepIsComplete
<1> SUFFICES ASSUME Inv, isSweeping = FALSE
             PROVE  /\ \A s \in Types : /\ sweepingList[s] = << >> /\ sweptList[s] = {}
                                        /\ remainingTaskNum[s] = 0
                    /\ \A t \in Types : tpc[t] = "idle"
                    /\ \A r \in Regions : sweepingRSet[r] = NoSet /\ memory[r] # "inRegion"
                    /\ mpc # "sweep" => \A r \in Regions : memory[r] # "garbage"
  BY DEF ClosedSweepIsComplete, Inv, TypeOK
<1>1. TypeOK /\ PoolInv /\ MainInv /\ ListInv /\ CountInv /\ DataInv
  BY DEF Inv
<1>2. /\ \A t \in Types : tpc[t] = "idle"
      /\ \A s \in Types : sweepingList[s] = << >> /\ sweptList[s] = {}
      /\ \A t \in Types : \A s : ~Pending(t, s)
      /\ \A s : ~Helps(s)
  BY <1>1, ClosedIsIdle
<1>3. \A s \in Types : remainingTaskNum[s] = 0
  <2> SUFFICES ASSUME NEW s \in Types PROVE remainingTaskNum[s] = 0
    OBVIOUS
  <2>1. /\ remainingTaskNum[s] \in Nat
        /\ remainingTaskNum[s] <= 0 <=> ~Helps(s) /\ \A t \in Types : ~Pending(t, s)
    BY <1>1, CountFacts
  <2>2. remainingTaskNum[s] <= 0
    BY <1>2, <2>1
  <2> QED BY <2>1, <2>2
<1>4. \A r \in Regions : /\ sweepingRSet[r] = NoSet /\ memory[r] # "inRegion"
                         /\ mpc # "sweep" => memory[r] # "garbage"
  BY <1>1, BetweenSweeps
<1> QED BY <1>2, <1>3, <1>4

LEMMA MarksFromInv == Inv => MarkedUntilSwept
<1> SUFFICES ASSUME Inv, NEW r \in Regions,
                    \/ memory[r] = "garbage" /\ mpc # "sweep"
                    \/ Listed(r)
                    \/ \E t \in Types : tregion[t] = r /\ tpc[t] = "free"
             PROVE  marked[r]
  BY DEF MarkedUntilSwept
<1>1. DataOf(r)
  BY DEF Inv, DataInv, RegionInv
<1>2. Unfreed(r)
  BY <1>1 DEF DataOf, Unfreed, At
<1> QED BY <1>1, <1>2 DEF DataOf

LEMMA SlotsFromInv == Inv => NoSlotForgotten
  BY DEF Inv, DataInv, RegionInv, SlotsOf, NoSlotForgotten

LEMMA FreedFromInv == Inv => FreedSlotForgotten
  BY DEF Inv, DataInv, RegionInv, FreshOf, FreedSlotForgotten

\* The state of the sweeper, the spaces and the JS thread keeps its type.
THEOREM SweepTypeCorrect == Spec => []TypeOK
BY SweepInvariant, PTL DEF Inv

\* Each region of a sweep is on a list, with one worker, with the JS thread or
\* handed back, and never in two of these places: AsyncSweepSpace frees no
\* region twice.
THEOREM RegionsAreSweptOnce == Spec => []SweptByOne
BY SweepInvariant, OneSweeper, PTL

\* When EnsureAllTaskFinished has closed a sweep no region, range or task of it
\* is left, however the JS thread's counting in and out interleaved with the
\* tasks'.
THEOREM ClosedSweepsAreComplete == Spec => []ClosedSweepIsComplete
BY SweepInvariant, ClosedIsComplete, PTL

\* No old-to-new slot is lost between InsertOldToNewRSet, which may take the
\* sweeping set over, the sweeper's ClearRange and the merge of the two sets.
THEOREM SlotsAreRemembered == Spec => []NoSlotForgotten
BY SweepInvariant, SlotsFromInv, PTL

\* A slot of freed memory leaves the remembered sets, unless the region entered
\* the sweep with the flag of an earlier one.
THEOREM FreedSlotsAreForgotten == Spec => []FreedSlotForgotten
BY SweepInvariant, FreedFromInv, PTL

\* AsyncClearTask clears no mark bit before the last sweeper has read it.
THEOREM MarksAreKept == Spec => []MarkedUntilSwept
BY SweepInvariant, MarksFromInv, PTL

=============================================================================
