----------------------------- MODULE TaggedQueue -----------------------------
(***************************************************************************)
(* The TaggedQueue of tagged_queue.h: a ring buffer whose fields and       *)
(* elements lie in one array.  One element stays free, so that start = end *)
(* means empty; a full queue is copied into one of 1.5 times its capacity. *)
(* (The limit MAX_QUEUE_INDEX, close to 2^32 elements, is left out.)       *)
(***************************************************************************)
EXTENDS Integers, Sequences

CONSTANT Hole

MIN_CAPACITY == 2

NewTaggedQueue(length) ==
    [capacity |-> length, start |-> 0, end |-> 0, elements |-> [i \in 0 .. length - 1 |-> Hole]]

\* The queue that globalConstants shares: it has no capacity and is never written.
EmptyTaggedQueue == NewTaggedQueue(0)

Empty(queue) == queue.start = queue.end

Size(queue) ==
    IF queue.capacity = 0 THEN 0
    ELSE (queue.end - queue.start + queue.capacity) % queue.capacity

Front(queue) == queue.elements[queue.start]

\* The queue after Pop; what it returns is Front.
Pop(queue) ==
    [queue EXCEPT !.elements[queue.start] = Hole, !.start = (@ + 1) % queue.capacity]

\* Does Push need a new queue?
Full(queue) == queue.capacity = 0 \/ (queue.end + 1) % queue.capacity = queue.start

\* Mutant of Grown: the elements keep their places although start becomes 0.
GrownInPlace(queue, value) ==
    LET capacity == queue.capacity + queue.capacity \div 2
        size == Size(queue)
    IN  IF queue.capacity = 0
        THEN [NewTaggedQueue(MIN_CAPACITY) EXCEPT !.elements[0] = value, !.end = 1]
        ELSE [capacity |-> capacity, start |-> 0, end |-> size + 1,
              elements |-> [i \in 0 .. capacity - 1 |->
                IF i < size THEN queue.elements[i] ELSE IF i = size THEN value ELSE Hole]]

\* The new queue of Push: the elements from start on, and the value behind them.
Grown(queue, value) ==
    LET capacity == queue.capacity + queue.capacity \div 2
        size == Size(queue)
    IN  IF queue.capacity = 0
        THEN [NewTaggedQueue(MIN_CAPACITY) EXCEPT !.elements[0] = value, !.end = 1]
        ELSE [capacity |-> capacity, start |-> 0, end |-> size + 1,
              elements |-> [i \in 0 .. capacity - 1 |->
                IF i < size THEN queue.elements[(queue.start + i) % queue.capacity]
                ELSE IF i = size THEN value ELSE Hole]]

\* Push into a queue that is not full.
Pushed(queue, value) ==
    [queue EXCEPT !.elements[queue.end] = value, !.end = (@ + 1) % queue.capacity]

\* The elements, oldest first.
Elements(queue) == [i \in 1 .. Size(queue) |-> queue.elements[(queue.start + i - 1) % queue.capacity]]
=============================================================================
