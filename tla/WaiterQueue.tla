---------------------------- MODULE WaiterQueue ----------------------------
(***************************************************************************)
(* What Atomics.wait and Atomics.notify promise the program (specification *)
(* of WaiterList): every location has a queue of sleeping VMs.  A wait     *)
(* compares the location and joins the queue in one step, so that no       *)
(* notify that follows the comparison misses it; a notify takes the oldest *)
(* sleepers out and counts them; a sleeper that was taken out returns "ok" *)
(* and nothing else, one that leaves the queue by itself "timed-out".      *)
(***************************************************************************)
EXTENDS Naturals, SequencesExt

CONSTANTS
    VMs,       \* the VMs, each with one JS thread
    Locations, \* addresses in shared array buffers
    Values,    \* what a location holds
    Counts     \* how many waiters a notify may wake

VARIABLES
    memory,    \* the shared locations
    queue,     \* queue[l]: the sleepers at l, oldest first
    state,     \* state[v]: "running", "asleep" or "notified"
    limited,   \* limited[v]: has the wait of v a finite timeout?
    reply      \* the VM whose call has just returned, with the result

Smaller(a, b) == IF a < b THEN a ELSE b

Init ==
    /\ memory \in [Locations -> Values]
    /\ queue = [l \in Locations |-> <<>>]
    /\ state = [v \in VMs |-> "running"]
    /\ limited = [v \in VMs |-> FALSE]
    /\ reply = <<"none">>

Store(v, l, x) ==
    /\ state[v] = "running"
    /\ memory' = [memory EXCEPT ![l] = x]
    /\ UNCHANGED <<queue, state, limited, reply>>

WaitNotEqual(v, l, x) ==
    /\ state[v] = "running" /\ memory[l] # x
    /\ reply' = <<v, "wait", "not-equal">>
    /\ UNCHANGED <<memory, queue, state, limited>>

WaitSleeps(v, l, x, finite) ==
    /\ state[v] = "running" /\ memory[l] = x
    /\ queue' = [queue EXCEPT ![l] = Append(@, v)]
    /\ state' = [state EXCEPT ![v] = "asleep"]
    /\ limited' = [limited EXCEPT ![v] = finite]
    /\ UNCHANGED <<memory, reply>>

Notify(v, l, count) ==
    LET n == Smaller(count, Len(queue[l]))
        woken == {queue[l][i] : i \in 1 .. n}
    IN  /\ state[v] = "running"
        /\ queue' = [queue EXCEPT ![l] = SubSeq(@, n + 1, Len(@))]
        /\ state' = [u \in VMs |-> IF u \in woken THEN "notified" ELSE state[u]]
        /\ reply' = <<v, "woken", n>>
        /\ UNCHANGED <<memory, limited>>

ReturnOk(v) ==
    /\ state[v] = "notified"
    /\ state' = [state EXCEPT ![v] = "running"]
    /\ limited' = [limited EXCEPT ![v] = FALSE]
    /\ reply' = <<v, "wait", "ok">>
    /\ UNCHANGED <<memory, queue>>

TimeOut(v) ==
    /\ state[v] = "asleep" /\ limited[v]
    /\ \E l \in Locations : \E i \in DOMAIN queue[l] :
        queue[l][i] = v /\ queue' = [queue EXCEPT ![l] = RemoveAt(@, i)]
    /\ state' = [state EXCEPT ![v] = "running"]
    /\ limited' = [limited EXCEPT ![v] = FALSE]
    /\ reply' = <<v, "wait", "timed-out">>
    /\ UNCHANGED memory

Next == \E v \in VMs :
    \/ \E l \in Locations, x \in Values :
        \/ Store(v, l, x)
        \/ WaitNotEqual(v, l, x)
        \/ \E finite \in BOOLEAN : WaitSleeps(v, l, x, finite)
    \/ \E l \in Locations, count \in Counts : Notify(v, l, count)
    \/ ReturnOk(v)
    \/ TimeOut(v)

Spec == Init /\ [][Next]_<<memory, queue, state, limited, reply>>
=============================================================================
