------------------------------ MODULE JobQueue ------------------------------
(***************************************************************************)
(* What the job queue promises: jobs start in the order in which they were *)
(* enqueued, each once, whoever runs them.                                 *)
(***************************************************************************)
EXTENDS Sequences, SequencesExt

CONSTANT Jobs

VARIABLES
    waiting, \* the jobs in the queue, oldest first
    started  \* those that have been started, in order

vars == <<waiting, started>>

Init == waiting = <<>> /\ started = <<>>

Enqueue(j) ==
    /\ j \notin ToSet(waiting \o started)
    /\ waiting' = Append(waiting, j)
    /\ UNCHANGED started

Start ==
    /\ waiting # <<>>
    /\ waiting' = Tail(waiting)
    /\ started' = Append(started, Head(waiting))

Next == Start \/ \E j \in Jobs : Enqueue(j)

Spec == Init /\ [][Next]_vars
=============================================================================
