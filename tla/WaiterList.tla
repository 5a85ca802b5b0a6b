----------------------------- MODULE WaiterList -----------------------------
(***************************************************************************)
(* Atomics.wait and Atomics.notify: DoWait and Signal of                   *)
(* builtins/builtins_atomics.cpp with the WaiterList of waiter_list.cpp.   *)
(* Every VM owns one WaiterListNode; the nodes that wait for a location    *)
(* form a doubly linked list, all lists are guarded by g_mutex.            *)
(*                                                                         *)
(* A step is a critical section of g_mutex, or the part of one up to or    *)
(* from the load of the shared location, which other VMs may change at     *)
(* any time (Atomics.store takes no mutex).                                *)
(***************************************************************************)
EXTENDS Integers, Sequences, FiniteSets, SequencesExt

CONSTANTS
    VMs,       \* the VMs, each with one JS thread and one WaiterListNode
    Locations, \* addresses in shared array buffers
    Values,    \* what a location holds
    NoNode,    \* nullptr
    Free,      \* g_mutex is not held
    MaxCalls   \* bound: calls of wait and notify the VMs make

ASSUME NoNodeAssumption == NoNode \notin VMs /\ Free \notin VMs
ASSUME VMsAssumption == IsFiniteSet(VMs)
ASSUME MaxCallsAssumption == MaxCalls \in Nat

VARIABLES
    memory,   \* the shared locations
    mutex,    \* g_mutex: the VM that holds it between two steps, or Free
    pHead,    \* locationListMap_: the oldest node of a location, NoNode without an entry
    pTail,    \* ... and its youngest
    next,     \* next_ of each VM's node
    prev,     \* prev_
    waiting,  \* waiting_
    location, \* waitPointer_
    pc,       \* "run" the program, "add" the node, "sleep" on cond_, "lock" the mutex again
    finite,   \* is the timeout of the VM's wait finite (hasTimeout)?
    expired,  \* has it passed (currentTime >= timeoutTime)?
    calls,    \* how many calls have been made
    reply     \* the VM whose call has just returned, with the result

listVars == <<pHead, pTail, next, prev>>
callVars == <<location, finite, calls>>
vars == <<memory, mutex, listVars, waiting, callVars, pc, expired, reply>>

\* How many waiters notify may wake; the largest stands for the default, +Infinity.
Counts == 0 .. Cardinality(VMs)

-----------------------------------------------------------------------------
(* WaiterList *)

\* The nodes in S from one node on along next_.
Along(head, links, S) ==
    LET from[n \in 0 .. Cardinality(VMs)] ==
            IF n = 0 THEN [node |-> head, found |-> <<>>]
            ELSE LET node == from[n - 1].node
                     found == from[n - 1].found
                 IN  IF node = NoNode THEN from[n - 1]
                     ELSE [node |-> links[node],
                           found |-> IF node \in S THEN Append(found, node) ELSE found]
    IN  from[Cardinality(VMs)].found

\* The list of a location, and those of it that have not been notified.
Nodes(l) == Along(pHead[l], next, VMs)
Sleepers(l) == Along(pHead[l], next, {v \in VMs : waiting[v]})

AddNode(v) ==
    LET l == location[v]
    IN  IF pHead[l] # NoNode
        THEN /\ next' = [next EXCEPT ![pTail[l]] = v]
             /\ prev' = [prev EXCEPT ![v] = pTail[l]]
             /\ pTail' = [pTail EXCEPT ![l] = v]
             /\ UNCHANGED pHead
        ELSE /\ pHead' = [pHead EXCEPT ![l] = v]
             /\ pTail' = [pTail EXCEPT ![l] = v]
             /\ UNCHANGED <<next, prev>>

\* Mutant of DeleteNode: the node behind keeps its prev_.
DeleteNodeOneWay(v) ==
    LET l == location[v]
        p == prev[v]
        n == next[v]
    IN  /\ pHead' = [pHead EXCEPT ![l] = IF @ = v THEN n ELSE @]
        /\ pTail' = [pTail EXCEPT ![l] = IF @ = v THEN p ELSE @]
        /\ next' = [u \in VMs |-> IF u = v THEN NoNode ELSE IF u = p THEN n ELSE next[u]]
        /\ prev' = [prev EXCEPT ![v] = NoNode]

\* The only node takes the entry of the map with it.
DeleteNode(v) ==
    LET l == location[v]
        p == prev[v]
        n == next[v]
    IN  IF pHead[l] = v /\ pTail[l] = v
        THEN /\ pHead' = [pHead EXCEPT ![l] = NoNode]
             /\ pTail' = [pTail EXCEPT ![l] = NoNode]
             /\ UNCHANGED <<next, prev>>
        ELSE /\ pHead' = [pHead EXCEPT ![l] = IF @ = v THEN n ELSE @]
             /\ pTail' = [pTail EXCEPT ![l] = IF @ = v THEN p ELSE @]
             /\ next' = [u \in VMs |-> IF u = v THEN NoNode
                                       ELSE IF u = p /\ pHead[l] # v THEN n ELSE next[u]]
             /\ prev' = [u \in VMs |-> IF u = v THEN NoNode
                                       ELSE IF u = n /\ pTail[l] # v THEN p ELSE prev[u]]

-----------------------------------------------------------------------------
(* DoWait *)

Init ==
    /\ memory \in [Locations -> Values]
    /\ mutex = Free
    /\ pHead = [l \in Locations |-> NoNode] /\ pTail = pHead
    /\ next = [v \in VMs |-> NoNode] /\ prev = next
    /\ waiting = [v \in VMs |-> FALSE]
    /\ location = [v \in VMs |-> NoNode]
    /\ pc = [v \in VMs |-> "run"]
    /\ finite = [v \in VMs |-> FALSE] /\ expired = finite
    /\ calls = 0
    /\ reply = <<"none">>

Store(v, l, x) ==
    /\ pc[v] = "run"
    /\ memory' = [memory EXCEPT ![l] = x]
    /\ UNCHANGED <<mutex, listVars, waiting, callVars, pc, expired, reply>>

\* Mutant of DoWait: the mutex is not held between the load and AddNode.
DoWaitUnlocked(v, l, execpt, hasTimeout) ==
    /\ pc[v] = "run" /\ mutex = Free
    /\ calls < MaxCalls /\ calls' = calls + 1
    /\ location' = [location EXCEPT ![v] = l]
    /\ waiting' = [waiting EXCEPT ![v] = TRUE]
    /\ finite' = [finite EXCEPT ![v] = hasTimeout]
    /\ expired' = [expired EXCEPT ![v] = FALSE]
    /\ IF memory[l] # execpt
       THEN reply' = <<v, "wait", "not-equal">> /\ UNCHANGED pc
       ELSE pc' = [pc EXCEPT ![v] = "add"] /\ UNCHANGED reply
    /\ UNCHANGED <<memory, mutex, listVars>>

\* The mutex is taken, the node filled in and the location loaded.  A wait that finds
\* another value returns; its node stays marked as waiting but is in no list.
DoWait(v, l, execpt, hasTimeout) ==
    /\ pc[v] = "run" /\ mutex = Free
    /\ calls < MaxCalls /\ calls' = calls + 1
    /\ location' = [location EXCEPT ![v] = l]
    /\ waiting' = [waiting EXCEPT ![v] = TRUE]
    /\ finite' = [finite EXCEPT ![v] = hasTimeout]
    /\ expired' = [expired EXCEPT ![v] = FALSE]
    /\ IF memory[l] # execpt
       THEN reply' = <<v, "wait", "not-equal">> /\ UNCHANGED <<mutex, pc>>
       ELSE mutex' = v /\ pc' = [pc EXCEPT ![v] = "add"] /\ UNCHANGED reply
    /\ UNCHANGED <<memory, listVars>>

\* The node is appended; the loop finds it waiting and goes to sleep.
DoWaitAdds(v) ==
    /\ pc[v] = "add"
    /\ AddNode(v)
    /\ pc' = [pc EXCEPT ![v] = "sleep"]
    /\ mutex' = Free
    /\ UNCHANGED <<memory, waiting, callVars, expired, reply>>

\* The same with a timeout that is over at once: the node is appended and deleted.
DoWaitZero(v) ==
    /\ pc[v] = "add" /\ finite[v]
    /\ waiting' = [waiting EXCEPT ![v] = FALSE]
    /\ pc' = [pc EXCEPT ![v] = "run"]
    /\ mutex' = Free
    /\ reply' = <<v, "wait", "timed-out">>
    /\ UNCHANGED <<memory, listVars, callVars, expired>>

\* Time passes: TimedWait gives up, or the time is up while the thread waits for the mutex.
Expire(v) ==
    /\ pc[v] \in {"sleep", "lock"} /\ finite[v] /\ ~expired[v]
    /\ expired' = [expired EXCEPT ![v] = TRUE]
    /\ pc' = [pc EXCEPT ![v] = "lock"]
    /\ UNCHANGED <<memory, mutex, listVars, waiting, callVars, reply>>

\* Wait and TimedWait may return for no reason.
SpuriousWakeup(v) ==
    /\ pc[v] = "sleep"
    /\ pc' = [pc EXCEPT ![v] = "lock"]
    /\ UNCHANGED <<memory, mutex, listVars, waiting, callVars, expired, reply>>

\* The loop with the mutex held again: a node that was notified wins over the clock.
DoWaitLoop(v) ==
    /\ pc[v] = "lock" /\ mutex = Free
    /\ IF waiting[v] /\ ~expired[v]
       THEN pc' = [pc EXCEPT ![v] = "sleep"] /\ UNCHANGED <<listVars, waiting, reply>>
       ELSE /\ DeleteNode(v)
            /\ waiting' = [waiting EXCEPT ![v] = FALSE]
            /\ pc' = [pc EXCEPT ![v] = "run"]
            /\ reply' = <<v, "wait", IF waiting[v] THEN "timed-out" ELSE "ok">>
    /\ UNCHANGED <<memory, mutex, callVars, expired>>

-----------------------------------------------------------------------------
(* Signal *)

\* Mutant of Signal: waiting_ is cleared but cond_ is not signalled.
SignalSilent(v, l, wakeCount) ==
    LET sleepers == Sleepers(l)
        woken == {sleepers[i] : i \in {j \in DOMAIN sleepers : j <= wakeCount}}
    IN  /\ pc[v] = "run" /\ mutex = Free
        /\ calls < MaxCalls /\ calls' = calls + 1
        /\ waiting' = [u \in VMs |-> waiting[u] /\ u \notin woken]
        /\ reply' = <<v, "woken", Cardinality(woken)>>
        /\ UNCHANGED <<memory, mutex, listVars, location, finite, expired, pc>>

\* The first wakeCount nodes of the list that still wait are released; they stay in the
\* list until their threads have the mutex again.
Signal(v, l, wakeCount) ==
    LET sleepers == Sleepers(l)
        woken == {sleepers[i] : i \in {j \in DOMAIN sleepers : j <= wakeCount}}
    IN  /\ pc[v] = "run" /\ mutex = Free
        /\ calls < MaxCalls /\ calls' = calls + 1
        /\ waiting' = [u \in VMs |-> waiting[u] /\ u \notin woken]
        /\ pc' = [u \in VMs |-> IF u \in woken THEN "lock" ELSE pc[u]]
        /\ reply' = <<v, "woken", Cardinality(woken)>>
        /\ UNCHANGED <<memory, mutex, listVars, location, finite, expired>>

Next == \E v \in VMs :
    \/ \E l \in Locations, x \in Values :
        \/ Store(v, l, x)
        \/ \E hasTimeout \in BOOLEAN : DoWait(v, l, x, hasTimeout)
    \/ DoWaitAdds(v) \/ DoWaitZero(v)
    \/ Expire(v) \/ SpuriousWakeup(v)
    \/ DoWaitLoop(v)
    \/ \E l \in Locations, wakeCount \in Counts : Signal(v, l, wakeCount)

\* A thread that holds or waits for the mutex gets on, and the clock goes on.
Fairness == \A v \in VMs :
    /\ WF_vars(DoWaitAdds(v) \/ DoWaitZero(v))
    /\ WF_vars(DoWaitLoop(v))
    /\ WF_vars(Expire(v))

Spec == Init /\ [][Next]_vars /\ Fairness

-----------------------------------------------------------------------------
(* Properties *)

TypeOK ==
    /\ memory \in [Locations -> Values]
    /\ mutex \in VMs \cup {Free}
    /\ \A v \in VMs : mutex = v <=> pc[v] = "add"
    /\ pHead \in [Locations -> VMs \cup {NoNode}] /\ pTail \in [Locations -> VMs \cup {NoNode}]
    /\ next \in [VMs -> VMs \cup {NoNode}] /\ prev \in [VMs -> VMs \cup {NoNode}]
    /\ waiting \in [VMs -> BOOLEAN]
    /\ location \in [VMs -> Locations \cup {NoNode}]
    /\ pc \in [VMs -> {"run", "add", "sleep", "lock"}]
    /\ finite \in [VMs -> BOOLEAN] /\ expired \in [VMs -> BOOLEAN]
    /\ calls \in 0 .. MaxCalls

Listed(v) == pc[v] \in {"sleep", "lock"}

\* The links of waiter_list.cpp in both directions, with the map of heads and tails, make
\* one list per location that holds exactly the VMs in a wait there, notified ones too, in
\* whatever order they leave it; a node outside has no links (AddNode asserts it).
ListIsLinked ==
    /\ TypeOK
    /\ \A l \in Locations :
        LET s == Nodes(l)
        IN  /\ ToSet(s) = {v \in VMs : Listed(v) /\ location[v] = l}
            /\ IsInjective(s)
            /\ \A i \in DOMAIN s : prev[s[i]] = IF i = 1 THEN NoNode ELSE s[i - 1]
            /\ pTail[l] = IF s = <<>> THEN NoNode ELSE Last(s)
    /\ \A v \in VMs : ~Listed(v) => next[v] = NoNode /\ prev[v] = NoNode

\* The abstract queue: who is in the list and has not been notified, and the VM that has
\* compared the location and still holds the mutex.
Adding(l) ==
    LET adders == {v \in VMs : pc[v] = "add" /\ location[v] = l}
    IN  IF adders = {} THEN <<>> ELSE <<CHOOSE v \in adders : TRUE>>

Abstract == INSTANCE WaiterQueue WITH
    queue <- [l \in Locations |-> Sleepers(l) \o Adding(l)],
    state <- [v \in VMs |->
                IF pc[v] = "run" THEN "running" ELSE IF waiting[v] THEN "asleep" ELSE "notified"],
    limited <- [v \in VMs |-> finite[v] /\ pc[v] # "run"]

\* wait compares and joins the queue as if in one step although stores need no mutex;
\* notify wakes the oldest first and reports how many return "ok"; a notified waiter never
\* reports a timeout.
IsWaiterQueue == Abstract!Spec

\* A VM in a wait that was notified, or whose timeout is finite, gets out of it.
WaitReturns ==
    \A v \in VMs : (Listed(v) /\ (finite[v] \/ ~waiting[v])) ~> pc[v] = "run"
=============================================================================
