------------------------------- MODULE Promise -------------------------------
(***************************************************************************)
(* Promises: js_promise.cpp and builtins/builtins_promise*.cpp.  A promise *)
(* is settled through pairs of resolving functions, which the program, a   *)
(* derived promise's reaction or a thenable may hold; what happens to a    *)
(* promise reaches its reactions through jobs.                             *)
(*                                                                         *)
(* The objects are one record `heap`, and what the built-in functions do   *)
(* to it are operators from heap to heap.  The steps are the calls a       *)
(* program makes, in any order, from the script or from the handlers of    *)
(* jobs (`bodies`, which may nest: see MicroJobQueue, whose queue is a     *)
(* sequence here).  Values are abstracted to what Resolve tells apart.     *)
(***************************************************************************)
EXTENDS Integers, Sequences, FiniteSets, SequencesExt

CONSTANTS
    MaxCalls, \* bound: promises, reactions and awaits the program makes, and foreign thenables
    MaxBodies \* bound: handlers that run one inside another

ASSUME MaxCallsAssumption == MaxCalls \in Nat
ASSUME MaxBodiesAssumption == MaxBodies \in Nat

\* The values a promise is resolved with: a promise (its number), a value without a
\* callable `then`, or an object with a `then` of the program.
Plain == 0
Thenable == -1

VARIABLES
    heap,   \* see Init
    bodies, \* the handlers of jobs that are running, innermost last
    held,   \* the pairs of resolving functions the program can call
    known,  \* the promises the program has got
    calls   \* how many calls it has made

vars == <<heap, bodies, held, known, calls>>

Init ==
    /\ heap = [
        promises |-> <<>>,  \* state, reactions and isHandled of each promise
        pairs |-> <<>>,     \* the promise and [[AlreadyResolved]] of each pair
        queue |-> <<>>,     \* the promise jobs
        reported |-> {}]    \* what the host's PromiseRejectionTracker takes for unhandled
    /\ bodies = <<>>
    /\ held = {} /\ known = {}
    /\ calls = 0

-----------------------------------------------------------------------------
(* js_promise.cpp *)

EnqueueJob(h, job) == [h EXCEPT !.queue = Append(@, job)]

ReactionJob(reaction) == [task |-> "reaction", reaction |-> reaction]
ThenableJob(p, thenable) == [task |-> "thenable", promise |-> p, thenable |-> thenable]

\* Mutant of TriggerPromiseReactions: the last reaction first.
TriggerPromiseReactionsReversed(h, reactions) ==
    [h EXCEPT !.queue = @ \o [i \in DOMAIN reactions |-> ReactionJob(Reverse(reactions)[i])]]

TriggerPromiseReactions(h, reactions) ==
    [h EXCEPT !.queue = @ \o [i \in DOMAIN reactions |-> ReactionJob(reactions[i])]]

Settled(h, p, state) ==
    [h EXCEPT !.promises[p].state = state,
              !.promises[p].fulfillReactions = <<>>,
              !.promises[p].rejectReactions = <<>>]

FulfillPromise(h, p) ==
    TriggerPromiseReactions(Settled(h, p, "fulfilled"), h.promises[p].fulfillReactions)

\* Mutant of RejectPromise: the host is told even when the rejection is handled.
RejectPromiseReportsAll(h, p) ==
    TriggerPromiseReactions([Settled(h, p, "rejected") EXCEPT !.reported = @ \cup {p}],
                            h.promises[p].rejectReactions)

RejectPromise(h, p) ==
    LET g == Settled(h, p, "rejected")
        told == IF h.promises[p].isHandled THEN g ELSE [g EXCEPT !.reported = @ \cup {p}]
    IN  TriggerPromiseReactions(told, h.promises[p].rejectReactions)

\* A new pair for p is the last one of the heap.
CreateResolvingFunctions(h, p) ==
    [h EXCEPT !.pairs = Append(@, [promise |-> p, alreadyResolved |-> FALSE])]
LastPair(h) == Len(h.pairs)
LastPromise(h) == Len(h.promises)

\* The constructor Promise, and NewPromiseCapability with it: a promise and its pair.
NewPromise(h) ==
    CreateResolvingFunctions(
        [h EXCEPT !.promises = Append(@, [state |-> "pending", isHandled |-> FALSE,
                                          fulfillReactions |-> <<>>, rejectReactions |-> <<>>])],
        LastPromise(h) + 1)

-----------------------------------------------------------------------------
(* builtins_promise_handler.cpp: the resolving functions *)

Used(h, k) == [h EXCEPT !.pairs[k].alreadyResolved = TRUE]

\* Mutant of Resolve: a thenable leaves the pair usable.
ResolveLeavesPair(h, k, value) ==
    LET p == h.pairs[k].promise
    IN  IF h.pairs[k].alreadyResolved THEN h
        ELSE IF value = p THEN RejectPromise(Used(h, k), p)
        ELSE IF value = Plain THEN FulfillPromise(Used(h, k), p)
        ELSE EnqueueJob(h, ThenableJob(p, value))

Resolve(h, k, value) ==
    LET p == h.pairs[k].promise
        g == Used(h, k)
    IN  IF h.pairs[k].alreadyResolved THEN h
        ELSE IF value = p THEN RejectPromise(g, p)
        ELSE IF value = Plain THEN FulfillPromise(g, p)
        ELSE EnqueueJob(g, ThenableJob(p, value))

Reject(h, k) ==
    IF h.pairs[k].alreadyResolved THEN h ELSE RejectPromise(Used(h, k), h.pairs[k].promise)

-----------------------------------------------------------------------------
(* builtins_promise.cpp: then *)

\* Handlers: "user" code, "identity" and "thrower" where then got no function, and the
\* built-in functions of the pair k of a promise that adopts this one.
User == [name |-> "user", pair |-> 0]
Identity == [name |-> "identity", pair |-> 0]
Thrower == [name |-> "thrower", pair |-> 0]
ResolveOf(k) == [name |-> "resolve", pair |-> k]
RejectOf(k) == [name |-> "reject", pair |-> k]

\* A reaction to p, with the capability whose promise is derived from it.
PromiseReaction(p, handler, capability) ==
    [of |-> p, handler |-> handler, capability |-> capability]

\* Mutant of PerformPromiseThen: a settled promise is treated like a pending one.
PerformPromiseThenTooLate(h, p, onFulfilled, onRejected, capability) ==
    [h EXCEPT !.promises[p].isHandled = TRUE,
              !.promises[p].fulfillReactions = Append(@, PromiseReaction(p, onFulfilled, capability)),
              !.promises[p].rejectReactions = Append(@, PromiseReaction(p, onRejected, capability)),
              !.reported = @ \ {p}]

PerformPromiseThen(h, p, onFulfilled, onRejected, capability) ==
    LET g == [h EXCEPT !.promises[p].isHandled = TRUE]
        fulfillReaction == PromiseReaction(p, onFulfilled, capability)
        rejectReaction == PromiseReaction(p, onRejected, capability)
    IN  CASE h.promises[p].state = "pending" ->
                [g EXCEPT !.promises[p].fulfillReactions = Append(@, fulfillReaction),
                          !.promises[p].rejectReactions = Append(@, rejectReaction)]
          [] h.promises[p].state = "fulfilled" -> EnqueueJob(g, ReactionJob(fulfillReaction))
          [] h.promises[p].state = "rejected" ->
                EnqueueJob([g EXCEPT !.reported = @ \ {p}], ReactionJob(rejectReaction))

\* Then: the derived promise is new.
Then(h, p, onFulfilled, onRejected) ==
    LET g == NewPromise(h) IN PerformPromiseThen(g, p, onFulfilled, onRejected, LastPair(g))

\* AsyncFunctionAwait: a promise resolved with the value, a throwaway capability that counts
\* as handled, and a reaction that resumes the function.
AsyncFunctionAwait(h, value) ==
    LET pcap == NewPromise(h)
        p == LastPromise(pcap)
        tcap == NewPromise(Resolve(pcap, LastPair(pcap), value))
    IN  PerformPromiseThen([tcap EXCEPT !.promises[LastPromise(tcap)].isHandled = TRUE],
                           p, User, User, LastPair(tcap))

-----------------------------------------------------------------------------
(* The program *)

\* An await makes two promises and counts as two calls.
Budget(n) == calls + n <= MaxCalls /\ calls' = calls + n

PromiseConstructor ==
    /\ Budget(1)
    /\ heap' = NewPromise(heap)
    /\ held' = held \cup {LastPair(heap')}
    /\ known' = known \cup {LastPromise(heap')}
    /\ UNCHANGED bodies

CallThen(p, onFulfilled, onRejected) ==
    /\ Budget(1)
    /\ heap' = Then(heap, p, onFulfilled, onRejected)
    /\ known' = known \cup {LastPromise(heap')}
    /\ UNCHANGED <<bodies, held>>

CallAwait(value) ==
    /\ Budget(2)
    /\ heap' = AsyncFunctionAwait(heap, value)
    /\ UNCHANGED <<bodies, held, known>>

Values == {Plain} \cup known

\* A resolving function is called; again calls change nothing.
CallResolve(k) ==
    /\ \E value \in Values : heap' = Resolve(heap, k, value)
    /\ UNCHANGED <<bodies, held, known, calls>>

CallResolveForeign(k) ==
    /\ Budget(1)
    /\ heap' = Resolve(heap, k, Thenable)
    /\ UNCHANGED <<bodies, held, known>>

CallReject(k) ==
    /\ heap' = Reject(heap, k)
    /\ UNCHANGED <<bodies, held, known, calls>>

-----------------------------------------------------------------------------
(* builtins_promise_job.cpp *)

Job == Head(heap.queue)
Popped == [heap EXCEPT !.queue = Tail(@)]
CanRun == heap.queue # <<>> /\ Len(bodies) < MaxBodies

\* PromiseReactionJob: a handler of the program starts to run ...
StartHandler ==
    /\ CanRun /\ Job.task = "reaction" /\ Job.reaction.handler = User
    /\ heap' = Popped
    /\ bodies' = Append(bodies, [task |-> "reaction", pair |-> Job.reaction.capability])
    /\ UNCHANGED <<held, known, calls>>

\* ... and others are done at once.  What a resolving function gives is undefined.
PromiseReactionJob ==
    LET handler == Job.reaction.handler
        capability == Job.reaction.capability
    IN  /\ CanRun /\ Job.task = "reaction" /\ handler # User
        /\ heap' =
            CASE handler = Thrower -> Reject(Popped, capability)
              [] handler = Identity -> Resolve(Popped, capability, Plain)
              [] handler.name = "resolve" ->
                    Resolve(Resolve(Popped, handler.pair, Plain), capability, Plain)
              [] handler.name = "reject" ->
                    Resolve(Reject(Popped, handler.pair), capability, Plain)
        /\ UNCHANGED <<bodies, held, known, calls>>

\* PromiseResolveThenableJob: a new pair is given to the `then` of another promise, or to
\* one the program has written.
PromiseResolveThenableJob ==
    /\ CanRun /\ Job.task = "thenable" /\ Job.thenable # Thenable
    /\ LET g == CreateResolvingFunctions(Popped, Job.promise)
       IN  heap' = Then(g, Job.thenable, ResolveOf(LastPair(g)), RejectOf(LastPair(g)))
    /\ UNCHANGED <<bodies, held, known, calls>>

StartForeignThen ==
    /\ CanRun /\ Job.task = "thenable" /\ Job.thenable = Thenable
    /\ heap' = CreateResolvingFunctions(Popped, Job.promise)
    /\ held' = held \cup {LastPair(heap')}
    /\ bodies' = Append(bodies, [task |-> "thenable", pair |-> LastPair(heap')])
    /\ UNCHANGED <<known, calls>>

\* The innermost handler returns a value, for the derived promise.
HandlerReturns ==
    /\ bodies # <<>>
    /\ IF Last(bodies).task = "reaction"
       THEN \E value \in Values : heap' = Resolve(heap, Last(bodies).pair, value)
       ELSE UNCHANGED heap
    /\ bodies' = Front(bodies)
    /\ UNCHANGED <<held, known, calls>>

\* Mutant of HandlerThrows: the exception is cleared and forgotten.
HandlerThrowsSilently ==
    /\ bodies # <<>>
    /\ bodies' = Front(bodies)
    /\ UNCHANGED <<heap, held, known, calls>>

\* The handler throws: the exception is cleared and becomes a rejection.
HandlerThrows ==
    /\ bodies # <<>>
    /\ heap' = Reject(heap, Last(bodies).pair)
    /\ bodies' = Front(bodies)
    /\ UNCHANGED <<held, known, calls>>

RunJob == StartHandler \/ PromiseReactionJob \/ PromiseResolveThenableJob \/ StartForeignThen

Next ==
    \/ PromiseConstructor
    \/ \E p \in known :
        \/ CallThen(p, User, Thrower)
        \/ CallThen(p, Identity, User)
    \/ \E value \in Values : CallAwait(value)
    \/ \E k \in held : CallResolve(k) \/ CallResolveForeign(k) \/ CallReject(k)
    \/ RunJob
    \/ HandlerReturns \/ HandlerThrows

\* The queue is drained (see MicroJobQueue) and handlers come to their end.
Spec ==
    /\ Init /\ [][Next]_vars
    /\ WF_vars(RunJob) /\ WF_vars(HandlerReturns \/ HandlerThrows)

-----------------------------------------------------------------------------
(* Properties *)

Pairs == DOMAIN heap.pairs
Promises == DOMAIN heap.promises
State(p) == heap.promises[p].state
Usable(k) == ~heap.pairs[k].alreadyResolved

Handlers == {Identity, Thrower, User} \cup {ResolveOf(k) : k \in Pairs} \cup {RejectOf(k) : k \in Pairs}
Reactions == [of : Promises, handler : Handlers, capability : Pairs]

TypeOK ==
    /\ \A p \in Promises :
        /\ State(p) \in {"pending", "fulfilled", "rejected"} /\ heap.promises[p].isHandled \in BOOLEAN
        /\ ToSet(heap.promises[p].fulfillReactions \o heap.promises[p].rejectReactions) \subseteq Reactions
    /\ \A k \in Pairs : heap.pairs[k] \in [promise : Promises, alreadyResolved : BOOLEAN]
    /\ \A i \in DOMAIN heap.queue :
        LET job == heap.queue[i]
        IN  \/ job.task = "reaction" /\ job.reaction \in Reactions
            \/ job.task = "thenable" /\ job.promise \in Promises
               /\ job.thenable \in (Promises \cup {Thenable}) \ {job.promise}
    /\ \A i \in DOMAIN bodies : bodies[i].task \in {"reaction", "thenable"} /\ bodies[i].pair \in Pairs
    /\ held \subseteq Pairs /\ known \subseteq Promises
    /\ calls \in 0 .. MaxCalls

\* A pending promise has exactly one way left to be settled: a pair nobody has used, or a
\* job that will make one for the thenable it follows.  A settled promise has none, so
\* FulfillPromise and RejectPromise find it pending, as they assert, however often and from
\* wherever its functions are called.
OneResolver ==
    TypeOK /\ \A p \in Promises :
        LET pairs == {k \in Pairs : heap.pairs[k].promise = p /\ Usable(k)}
            jobs == {i \in DOMAIN heap.queue :
                        heap.queue[i].task = "thenable" /\ heap.queue[i].promise = p}
        IN  Cardinality(pairs) + Cardinality(jobs) = IF State(p) = "pending" THEN 1 ELSE 0

ReactionJobs == {i \in DOMAIN heap.queue : heap.queue[i].task = "reaction"}

\* Every call of then has its effect once.  While a pair that the program does not hold is
\* usable, one reaction will use it, as its capability or as its handler: it waits in both
\* lists of a pending promise, or in a job, or its handler runs.  Neither list nor job is
\* lost, doubled or fires both ways, and none is left for a pair that has been used.
ReactsOnce ==
    LET uses(reaction, k) == reaction.capability = k \/ reaction.handler.pair = k
        listed(s, k) == Cardinality({i \in DOMAIN s : uses(s[i], k)})
    IN  /\ \A k \in Pairs :
            LET lists == {p \in Promises : listed(heap.promises[p].fulfillReactions, k) = 1}
                jobs == {i \in ReactionJobs : uses(heap.queue[i].reaction, k)}
                running == {i \in DOMAIN bodies : bodies[i] = [task |-> "reaction", pair |-> k]}
            IN  Cardinality(lists) + Cardinality(jobs) + Cardinality(running)
                    = IF Usable(k) /\ k \notin held THEN 1 ELSE 0
        /\ \A p \in Promises, k \in Pairs :
            LET n == listed(heap.promises[p].fulfillReactions, k)
            IN  /\ n = listed(heap.promises[p].rejectReactions, k)
                /\ n \in (IF State(p) = "pending" THEN {0, 1} ELSE {0})

\* The handlers of one promise run in the order in which they were given to then, whether
\* before or after it was settled.
InOrder ==
    /\ \A i, n \in ReactionJobs :
        i < n /\ heap.queue[i].reaction.of = heap.queue[n].reaction.of
            => heap.queue[i].reaction.capability < heap.queue[n].reaction.capability
    /\ \A p \in Promises :
        LET s == heap.promises[p].fulfillReactions
        IN  \A i, n \in DOMAIN s : i < n => s[i].capability < s[n].capability

\* The host's view after all calls of PromiseRejectionTracker: the rejected promises that
\* no then has been called on, whichever of the two came first.
ReportedAreUnhandled ==
    heap.reported = {p \in Promises : State(p) = "rejected" /\ ~heap.promises[p].isHandled}

\* Once a promise is settled, the promises derived from it are resolved: their jobs run and
\* their handlers' results reach them, also when a handler throws or runs inside another.
\* (Bound: for the first 2 * MaxCalls pairs, as TLC needs a constant set here.)
DerivedIsResolved ==
    \A k \in 1 .. 2 * MaxCalls :
        (\E i \in ReactionJobs : heap.queue[i].reaction.capability = k)
            ~> (k \in Pairs /\ ~Usable(k))
=============================================================================
