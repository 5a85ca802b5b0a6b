----------------------------- MODULE ModuleGraph -----------------------------
(***************************************************************************)
(* Loading of ECMAScript modules: ExecuteFromFile of                       *)
(* js_pandafile_executor.cpp with Instantiate and Evaluate of              *)
(* js_module_source_text.cpp.  Both walk the graph of imports depth first  *)
(* and find its strongly connected components with Tarjan's algorithm: a   *)
(* module stays on `stack` until the component it belongs to is complete.  *)
(*                                                                         *)
(* The recursion is a stack of frames and a step is one turn of a call:    *)
(* one required module, or what follows the loop.  All runs on one JS      *)
(* thread; the ways a body or the resolution of names can fail, and the    *)
(* order in which the program loads files, are the nondeterminism.         *)
(***************************************************************************)
EXTENDS Integers, Sequences, FiniteSets, SequencesExt, FiniteSetsExt

CONSTANTS
    Modules,    \* the module records
    MaxRequests \* bound: how many modules a module requests

ASSUME ModulesAssumption == IsFiniteSet(Modules)
ASSUME MaxRequestsAssumption == MaxRequests \in Nat

UNDEFINED_INDEX == -1
NoModule == "none"
ASSUME NoModuleAssumption == NoModule \notin Modules

\* The kinds of walk, with the status of a module before, during and after each.
Walks == [
    link |-> [new |-> "UNINSTANTIATED", open |-> "INSTANTIATING", done |-> "INSTANTIATED"],
    eval |-> [new |-> "INSTANTIATED", open |-> "EVALUATING", done |-> "EVALUATED"]]
ModuleStatus == {"UNINSTANTIATED", "INSTANTIATING", "INSTANTIATED", "EVALUATING", "EVALUATED"}

VARIABLES
    requestedModules, \* what each module imports, in the order of the source
    unresolvable,     \* the modules with a name that ResolveExport does not find
    registered,       \* isUncaughtExceptionRegistered_
    status,           \* [[Status]]
    dfsIndex,         \* [[DFSIndex]]
    dfsAncestorIndex, \* [[DFSAncestorIndex]]
    evaluationError,  \* [[EvaluationError]], an int
    walk,             \* "link" in Instantiate, "eval" in Evaluate, "idle" outside
    root,             \* the module ExecuteFromFile was called for
    stack,            \* `stack` of Instantiate or Evaluate
    frames,           \* the calls of InnerModule...: the module and its loop's idx
    index,            \* the argument and result `index`
    executed          \* history: the modules whose body has been started, in order

inputVars == <<requestedModules, unresolvable>>
dfsVars == <<dfsIndex, dfsAncestorIndex>>
callVars == <<walk, root, stack, frames, index>>
vars == <<inputVars, registered, status, dfsVars, evaluationError, callVars, executed>>

Requests == SeqOf(Modules, MaxRequests)

Init ==
    /\ requestedModules \in [Modules -> {s \in Requests : IsInjective(s)}]
    /\ unresolvable \in SUBSET Modules
    /\ registered = FALSE
    /\ status = [m \in Modules |-> "UNINSTANTIATED"]
    /\ dfsIndex = [m \in Modules |-> UNDEFINED_INDEX] /\ dfsAncestorIndex = dfsIndex
    /\ evaluationError = [m \in Modules |-> UNDEFINED_INDEX]
    /\ walk = "idle" /\ root = NoModule
    /\ stack = <<>> /\ frames = <<>> /\ index = 0
    /\ executed = <<>>

-----------------------------------------------------------------------------
(* The walk that InnerModuleInstantiation and InnerModuleEvaluation share *)

Current == Last(frames)
Module == Current.module
Required == requestedModules[Module][Current.idx]

\* Mutant of MoreRequired: the loop stops before the last module.
MoreRequiredButLast == Current.idx < Len(requestedModules[Module])
MoreRequired == Current.idx <= Len(requestedModules[Module])

\* A call for a module the walk `w` has not seen, as the innermost of `calls`.
Enter(m, w, i, open, calls) ==
    /\ status' = [status EXCEPT ![m] = Walks[w].open]
    /\ dfsIndex' = [dfsIndex EXCEPT ![m] = i]
    /\ dfsAncestorIndex' = [dfsAncestorIndex EXCEPT ![m] = i]
    /\ index' = i + 1
    /\ stack' = Append(open, m)
    /\ frames' = Append(calls, [module |-> m, idx |-> 1])

\* The call of Instantiate or Evaluate for the root, with an empty stack and index 0.
Start(m, w) ==
    /\ walk' = w
    /\ IF status[m] = Walks[w].new
       THEN Enter(m, w, 0, <<>>, <<>>)
       ELSE index' = 0 /\ stack' = <<>> /\ frames' = <<>> /\ UNCHANGED <<status, dfsVars>>

Descend ==
    /\ frames # <<>> /\ MoreRequired
    /\ status[Required] = Walks[walk].new
    /\ Enter(Required, walk, index, stack, frames)
    /\ UNCHANGED <<inputVars, registered, evaluationError, walk, root, executed>>

\* Mutants of Revisit: the ancestor index is not lowered; idx stays for an open module.
RevisitWithoutMin ==
    /\ frames # <<>> /\ MoreRequired
    /\ status[Required] # Walks[walk].new
    /\ index' = IF walk = "eval" /\ evaluationError[Required] # UNDEFINED_INDEX
                THEN evaluationError[Required] ELSE index
    /\ frames' = [frames EXCEPT ![Len(frames)].idx = @ + 1]
    /\ UNCHANGED <<inputVars, registered, status, dfsVars, evaluationError, walk, root, stack,
                   executed>>

RevisitAgain ==
    /\ frames # <<>> /\ MoreRequired
    /\ status[Required] # Walks[walk].new
    /\ frames' = [frames EXCEPT ![Len(frames)].idx =
                    IF status[Required] = Walks[walk].open THEN @ ELSE @ + 1]
    /\ UNCHANGED <<inputVars, registered, status, dfsVars, evaluationError, walk, root, stack, index,
                   executed>>

\* The required module has been seen before, or its call has just returned (which leaves
\* index alone: its error is undefined).  An evaluated module with an error gives its error
\* as the index, without an exception.
Revisit ==
    /\ frames # <<>> /\ MoreRequired
    /\ status[Required] # Walks[walk].new
    /\ index' = IF status[Required] = "EVALUATED" /\ walk = "eval"
                   /\ evaluationError[Required] # UNDEFINED_INDEX
                THEN evaluationError[Required] ELSE index
    /\ dfsAncestorIndex' =
        [dfsAncestorIndex EXCEPT ![Module] =
            IF status[Required] = Walks[walk].open
            THEN Min({@, dfsAncestorIndex[Required]}) ELSE @]
    /\ frames' = [frames EXCEPT ![Len(frames)].idx = @ + 1]
    /\ UNCHANGED <<inputVars, registered, status, dfsIndex, evaluationError, walk, root, stack,
                   executed>>

\* The end of a call: the root of a component takes it off the stack.
Close ==
    LET first == CHOOSE i \in DOMAIN stack : stack[i] = Module
        component == {stack[i] : i \in first .. Len(stack)}
    IN  /\ frames' = Front(frames)
        /\ IF dfsAncestorIndex[Module] = dfsIndex[Module]
           THEN /\ stack' = SubSeq(stack, 1, first - 1)
                /\ status' = [m \in Modules |->
                                IF m \in component THEN Walks[walk].done ELSE status[m]]
           ELSE UNCHANGED <<stack, status>>

-----------------------------------------------------------------------------
(* ExecuteFromFile *)

ExecuteFromFile(m) ==
    /\ walk = "idle"
    /\ root' = m
    /\ Start(m, "link")
    /\ UNCHANGED <<inputVars, registered, evaluationError, executed>>

\* ModuleDeclarationEnvironmentSetup finds every name.
Link ==
    /\ walk = "link" /\ frames # <<>> /\ ~MoreRequired
    /\ Module \notin unresolvable
    /\ Close
    /\ UNCHANGED <<inputVars, registered, dfsVars, evaluationError, walk, root, index, executed>>

\* It throws a SyntaxError: every module on the stack starts over the next time.  The
\* exception is cleared by HandleUncaughtException or, when registered, by the embedder.
LinkFails ==
    LET reset(f, x) == [m \in Modules |-> IF m \in ToSet(stack) THEN x ELSE f[m]]
    IN  /\ walk = "link" /\ frames # <<>> /\ ~MoreRequired
        /\ Module \in unresolvable
        /\ status' = reset(status, "UNINSTANTIATED")
        /\ dfsIndex' = reset(dfsIndex, UNDEFINED_INDEX)
        /\ dfsAncestorIndex' = reset(dfsAncestorIndex, UNDEFINED_INDEX)
        /\ walk' = "idle" /\ root' = NoModule
        /\ stack' = <<>> /\ frames' = <<>> /\ index' = 0
        /\ UNCHANGED <<inputVars, registered, evaluationError, executed>>

Instantiated ==
    /\ walk = "link" /\ frames = <<>>
    /\ Start(root, "eval")
    /\ UNCHANGED <<inputVars, registered, evaluationError, root, executed>>

\* ModuleExecution: the body runs, then the jobs it left.  What they throw is printed and
\* cleared by HandleUncaughtException unless the embedder has registered for it, so that
\* the caller goes on as after a normal completion: one action stands for both.
ModuleExecution ==
    /\ walk = "eval" /\ frames # <<>> /\ ~MoreRequired
    /\ executed' = Append(executed, Module)
    /\ Close
    /\ UNCHANGED <<inputVars, registered, dfsVars, evaluationError, walk, root, index>>

\* The exception stays pending: the recursion unwinds, and Evaluate marks what is on the
\* stack as evaluated, with the index as its error.
EvaluateFails ==
    LET failed(f, x) == [m \in Modules |-> IF m \in ToSet(stack) THEN x ELSE f[m]]
    IN  /\ walk = "eval" /\ frames # <<>> /\ ~MoreRequired
        /\ registered
        /\ executed' = Append(executed, Module)
        /\ status' = failed(status, "EVALUATED")
        /\ evaluationError' = failed(evaluationError, index)
        /\ walk' = "idle" /\ root' = NoModule
        /\ stack' = <<>> /\ frames' = <<>> /\ index' = 0
        /\ UNCHANGED <<inputVars, registered, dfsVars>>

Evaluated ==
    /\ walk = "eval" /\ frames = <<>>
    /\ walk' = "idle" /\ root' = NoModule /\ index' = 0
    /\ UNCHANGED <<inputVars, registered, status, dfsVars, evaluationError, stack, frames, executed>>

EnableUserUncaughtErrorHandler ==
    /\ walk = "idle" /\ ~registered
    /\ registered' = TRUE
    /\ UNCHANGED <<inputVars, status, dfsVars, evaluationError, callVars, executed>>

\* The steps of a call of ExecuteFromFile.
Step ==
    \/ Descend \/ Revisit
    \/ Link \/ LinkFails \/ Instantiated
    \/ ModuleExecution
    \/ EvaluateFails \/ Evaluated

Next ==
    \/ \E m \in Modules : ExecuteFromFile(m)
    \/ EnableUserUncaughtErrorHandler
    \/ Step

\* The thread goes on.
Spec == Init /\ [][Next]_vars /\ WF_vars(Step)

-----------------------------------------------------------------------------
(* Properties *)

TypeOK ==
    /\ requestedModules \in [Modules -> Requests]
    /\ unresolvable \subseteq Modules /\ registered \in BOOLEAN
    /\ status \in [Modules -> ModuleStatus]
    /\ \A f \in {dfsIndex, dfsAncestorIndex, evaluationError} :
        DOMAIN f = Modules /\ \A m \in Modules : f[m] \in Nat \cup {UNDEFINED_INDEX}
    /\ \A m \in Modules : status[m] = "UNINSTANTIATED" <=> dfsIndex[m] = UNDEFINED_INDEX
    /\ walk \in {"idle", "link", "eval"} /\ (walk = "idle" <=> root \notin Modules)
    /\ stack \in Seq(Modules) /\ frames \in Seq([module : Modules, idx : Nat])
    /\ index \in Nat
    /\ executed \in Seq(Modules)

\* What a module needs: the modules it reaches along imports.
Needs(m) ==
    LET reached[n \in 0 .. Cardinality(Modules)] ==
            IF n = 0 THEN ToSet(requestedModules[m])
            ELSE UNION {{d} \cup ToSet(requestedModules[d]) : d \in reached[n - 1]}
    IN  reached[Cardinality(Modules)]

\* The assertions of the walk, and what is left behind after it: exactly the modules on the
\* stack are open, each once, so none is half-way when no file is being loaded (a later load
\* would take it for done); the calls in progress are among them, in order; and what is
\* above a module on the stack leads back to it or below it.
StackIsOpen ==
    /\ TypeOK
    /\ walk = "idle" => \A m \in Modules : status[m] \notin {"INSTANTIATING", "EVALUATING"}
    /\ walk # "idle" =>
        /\ ToSet(stack) = {m \in Modules : status[m] = Walks[walk].open}
        /\ IsInjective(stack)
        /\ \A i \in DOMAIN frames : frames[i].module \in ToSet(stack)
        /\ frames = <<>> => stack = <<>>
        /\ \A i \in DOMAIN stack : dfsAncestorIndex[stack[i]] <= dfsIndex[stack[i]]

\* A module is linked, or evaluated, only with everything it needs, so the members of a
\* cycle complete together: also when loading stopped half-way at a name that cannot be
\* resolved, and for a file loaded later that meets the modules of earlier ones.
\* (Evaluation is exact only up to the first module with an evaluation error.)
CompleteWithImports ==
    StackIsOpen /\ \A m \in Modules : \A d \in Needs(m) :
        /\ status[m] \notin {"UNINSTANTIATED", "INSTANTIATING"}
              => status[d] \notin {"UNINSTANTIATED", "INSTANTIATING"}
        /\ status[m] = "EVALUATED" /\ (\A n \in {m} \cup Needs(m) : evaluationError[n] = UNDEFINED_INDEX)
              => status[d] = "EVALUATED"

\* No module runs twice, and what a module imports runs before it, except the modules of a
\* cycle that were entered first.
RunsAfterImports ==
    /\ IsInjective(executed)
    /\ ~registered =>
        \A i \in DOMAIN executed : \A d \in ToSet(requestedModules[executed[i]]) :
            \/ \E j \in 1 .. i - 1 : executed[j] = d
            \/ executed[i] \in Needs(d)

\* The loading of a file comes to its end, for every graph.
LoadReturns == walk # "idle" ~> walk = "idle"
=============================================================================
