---------------------------- MODULE MicroJobQueue ----------------------------
(***************************************************************************)
(* The micro job queue of a VM (jobs/micro_job_queue.cpp) and the places   *)
(* that drain it: InvokeEcmaEntrypoint after the code of a file, and       *)
(* ExecutePromisePendingJob after a call from native code.                 *)
(*                                                                         *)
(* JS and native code call each other, so both happen in the middle of a   *)
(* job too.  `calls` is the native stack: code that runs, and drains that  *)
(* wait for the job they have started.  The queue is an object: growing    *)
(* replaces it, and a drain holds a handle.                                *)
(***************************************************************************)
EXTENDS Integers, Sequences, FiniteSets, SequencesExt

CONSTANTS
    Jobs,    \* the jobs that get enqueued
    NoJob,   \* an empty element of the queue
    MaxNested \* bound: calls made by code that was itself called

ASSUME JobsAssumption == IsFiniteSet(Jobs) /\ NoJob \notin Jobs
ASSUME MaxNestedAssumption == MaxNested \in Nat

Q == INSTANCE TaggedQueue WITH Hole <- NoJob

VARIABLES
    heap,                 \* the TaggedQueue objects, in the order of their creation
    promiseJobQueue,      \* the queue's field of that name: an index of heap
    calls,                \* the stack
    isProcessingPendingJob, \* the VM's flag
    started,              \* history: the jobs that have been started
    nested                \* how many nested calls have been made

queueVars == <<heap, promiseJobQueue, started>>
vars == <<queueVars, calls, isProcessingPendingJob, nested>>

\* What the stack holds.  "entry": the code of a file; "call": a function called by native
\* code; "job": a job; "drain" of an entry or of a call, with its handle `promiseQueue`.
Code(kind) == [kind |-> kind, promiseQueue |-> 0]
Drain(kind) == [kind |-> kind, promiseQueue |-> promiseJobQueue]
CodeKinds == {"entry", "call", "job"}
DrainKinds == {"drain after entry", "drain after call"}

Current == heap[promiseJobQueue]
Top == Last(calls)

\* JS or native code has control: at the bottom of the stack it is the embedder.
InCode == ~(calls # <<>> /\ Top.kind \in DrainKinds)

Init ==
    /\ heap = <<Q!EmptyTaggedQueue>>
    /\ promiseJobQueue = 1
    /\ calls = <<>>
    /\ isProcessingPendingJob = FALSE
    /\ started = <<>> /\ nested = 0

-----------------------------------------------------------------------------
(* MicroJobQueue *)

EnqueueJob(j) ==
    /\ InCode
    /\ j \notin ToSet(started) \cup ToSet(Q!Elements(Current))
    /\ IF Q!Full(Current)
       THEN /\ heap' = Append(heap, Q!Grown(Current, j))
            /\ promiseJobQueue' = Len(heap')
       ELSE /\ heap' = [heap EXCEPT ![promiseJobQueue] = Q!Pushed(@, j)]
            /\ UNCHANGED promiseJobQueue
    /\ UNCHANGED <<calls, isProcessingPendingJob, started, nested>>

\* A turn of ExecutePendingJob's loop: the job leaves the queue before it runs.
ExecutePendingJob ==
    /\ calls # <<>> /\ Top.kind \in DrainKinds
    /\ ~Q!Empty(heap[Top.promiseQueue])
    /\ heap' = [heap EXCEPT ![Top.promiseQueue] = Q!Pop(@)]
    /\ started' = Append(started, Q!Front(heap[Top.promiseQueue]))
    /\ calls' = Append(calls, Code("job"))
    /\ UNCHANGED <<promiseJobQueue, isProcessingPendingJob, nested>>

\* Mutant of JobReturns: the handle is not updated.
JobReturnsStale ==
    /\ calls # <<>> /\ Top.kind = "job"
    /\ calls' = [i \in 1 .. Len(calls) - 1 |-> calls[i]]
    /\ UNCHANGED <<queueVars, isProcessingPendingJob, nested>>

\* The drain goes on with whatever queue the job has left in the field.
JobReturns ==
    LET n == Len(calls)
    IN  /\ calls # <<>> /\ Top.kind = "job"
        /\ calls' = [i \in 1 .. n - 1 |->
                        IF i = n - 1 THEN Drain(calls[i].kind) ELSE calls[i]]
        /\ UNCHANGED <<queueVars, isProcessingPendingJob, nested>>

\* Mutant of DrainReturns: the flag stays set after a job that threw.
DrainReturnsLeavesFlag(throws) ==
    LET n == IF throws THEN Len(calls) - 1 ELSE Len(calls)
    IN  /\ calls # <<>> /\ (throws => Top.kind = "job")
        /\ n > 0 /\ calls[n].kind \in DrainKinds
        /\ ~throws => Q!Empty(heap[Top.promiseQueue])
        /\ calls' = SubSeq(calls, 1, n - 1)
        /\ isProcessingPendingJob' =
            IF calls[n].kind = "drain after call" /\ ~throws THEN FALSE ELSE isProcessingPendingJob
        /\ UNCHANGED <<queueVars, nested>>

\* The loop is over: the queue is empty, or the job has thrown and the others are left
\* where they are.  The entry or the call that drained is over with it; what was thrown is
\* cleared by HandleUncaughtException or given to the caller.
DrainReturns(throws) ==
    LET n == IF throws THEN Len(calls) - 1 ELSE Len(calls)
    IN  /\ calls # <<>> /\ (throws => Top.kind = "job")
        /\ n > 0 /\ calls[n].kind \in DrainKinds
        /\ ~throws => Q!Empty(heap[Top.promiseQueue])
        /\ calls' = SubSeq(calls, 1, n - 1)
        /\ isProcessingPendingJob' =
            IF calls[n].kind = "drain after call" THEN FALSE ELSE isProcessingPendingJob
        /\ UNCHANGED <<queueVars, nested>>

-----------------------------------------------------------------------------
(* Those that drain *)

InvokeEcmaEntrypoint ==
    /\ InCode
    /\ nested' = IF calls = <<>> THEN nested ELSE nested + 1
    /\ nested' <= MaxNested
    /\ calls' = Append(calls, Code("entry"))
    /\ UNCHANGED <<queueVars, isProcessingPendingJob>>

\* The code of the file is done.  An exception keeps the jobs from being run.
EntryReturns(throws) ==
    LET caller == SubSeq(calls, 1, Len(calls) - 1)
    IN  /\ calls # <<>> /\ Top.kind = "entry"
        /\ calls' = IF throws THEN caller ELSE Append(caller, Drain("drain after entry"))
        /\ UNCHANGED <<queueVars, isProcessingPendingJob, nested>>

\* FunctionRef::Call, and the functions of a PromiseCapabilityRef.
Call ==
    /\ InCode
    /\ nested' = IF calls = <<>> THEN nested ELSE nested + 1
    /\ nested' <= MaxNested
    /\ calls' = Append(calls, Code("call"))
    /\ UNCHANGED <<queueVars, isProcessingPendingJob>>

\* The function is done; ExecutePromisePendingJob does nothing inside itself.
CallReturns(throws) ==
    LET caller == SubSeq(calls, 1, Len(calls) - 1)
        drains == ~throws /\ ~isProcessingPendingJob
    IN  /\ calls # <<>> /\ Top.kind = "call"
        /\ calls' = IF drains THEN Append(caller, Drain("drain after call")) ELSE caller
        /\ isProcessingPendingJob' = (drains \/ isProcessingPendingJob)
        /\ UNCHANGED <<queueVars, nested>>

Next ==
    \/ \E j \in Jobs : EnqueueJob(j)
    \/ InvokeEcmaEntrypoint \/ Call
    \/ ExecutePendingJob \/ JobReturns
    \/ \E throws \in BOOLEAN :
        DrainReturns(throws) \/ EntryReturns(throws) \/ CallReturns(throws)

\* Code that runs comes to its end, the embedder goes on calling functions, and
\* some of the calls it makes return normally.
Fairness ==
    /\ WF_vars(ExecutePendingJob) /\ WF_vars(JobReturns \/ DrainReturns(TRUE)) /\ WF_vars(DrainReturns(FALSE))
    /\ WF_vars(EntryReturns(TRUE) \/ EntryReturns(FALSE))
    /\ SF_vars(calls = <<>> /\ Call)
    /\ WF_vars(CallReturns(TRUE) \/ CallReturns(FALSE))
    /\ SF_vars(Len(calls) = 1 /\ CallReturns(FALSE))

Spec == Init /\ [][Next]_vars /\ Fairness

-----------------------------------------------------------------------------
(* Properties *)

TypeOK ==
    /\ promiseJobQueue \in DOMAIN heap
    /\ \A i \in DOMAIN heap :
        LET q == heap[i]
        IN  /\ q.capacity \in Nat /\ q.start \in 0 .. q.capacity /\ q.end \in 0 .. q.capacity
            /\ DOMAIN q.elements = 0 .. q.capacity - 1
            /\ \A k \in DOMAIN q.elements :
                (q.elements[k] # NoJob) <=> \E n \in 0 .. Q!Size(q) - 1 : k = (q.start + n) % q.capacity
    /\ \A i \in DOMAIN calls : calls[i].kind \in CodeKinds \cup DrainKinds
    /\ \A i \in DOMAIN calls : calls[i].kind \in DrainKinds => calls[i].promiseQueue \in DOMAIN heap
    /\ isProcessingPendingJob \in BOOLEAN
    /\ started \in Seq(Jobs) /\ nested \in 0 .. MaxNested

\* The flag tells whether a drain of ExecutePromisePendingJob is on the stack, also after
\* jobs that threw and drains inside drains: set for ever, no call would drain again.
FlagIsExact ==
    /\ TypeOK
    /\ isProcessingPendingJob <=> \E i \in DOMAIN calls : calls[i].kind = "drain after call"
    /\ \A i, k \in DOMAIN calls :
        calls[i].kind = "drain after call" /\ calls[k].kind = "drain after call" => i = k

Abstract == INSTANCE JobQueue WITH waiting <- Q!Elements(Current)

\* Jobs start in the order they were enqueued, each once: through the ring buffer's wrap and
\* growth, jobs that enqueue jobs, jobs that throw, and drains in the middle of a job.
IsJobQueue == Abstract!Spec

\* When a drain ends normally nothing is left, not even what its last job enqueued in a
\* queue that had to be replaced; and a drain that goes on works on the queue in the field.
DrainLeavesNothing ==
    /\ []FlagIsExact
    /\ [][Len(calls') < Len(calls) /\ Last(calls).kind \in DrainKinds => Q!Empty(Current)]_vars

\* A job that was enqueued runs in the end, if the embedder keeps calling.
JobsRun == \A j \in Jobs : j \in ToSet(Q!Elements(Current)) ~> j \in ToSet(started)
=============================================================================
