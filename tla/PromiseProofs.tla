---------------------------- MODULE PromiseProofs ----------------------------
(***************************************************************************)
(* Proofs about Promise for any number of calls and of nested handlers.    *)
(* The state is one record, and what the built-in functions do is made of  *)
(* a few operators on it: a first group of lemmas says, field by field,    *)
(* what each of them returns, and a second one what it preserves.          *)
(***************************************************************************)
EXTENDS Promise, SequenceTheorems, FiniteSetTheorems, TLAPS

HandlerNames == {"user", "identity", "thrower", "resolve", "reject"}
ReactionType == [of : Nat, handler : [name : HandlerNames, pair : Nat], capability : Nat]
PromiseType == [state : {"pending", "fulfilled", "rejected"}, isHandled : BOOLEAN,
                fulfillReactions : Seq(ReactionType), rejectReactions : Seq(ReactionType)]
PairType == [promise : Nat, alreadyResolved : BOOLEAN]
JobType == [task : {"reaction"}, reaction : ReactionType]
            \cup [task : {"thenable"}, promise : Nat, thenable : Nat \cup {Thenable}]
HeapType == [promises : Seq(PromiseType), pairs : Seq(PairType), queue : Seq(JobType),
             reported : SUBSET Nat]

-----------------------------------------------------------------------------
(* What the operators on the heap return *)

\* The type of a heap's fields and of their elements.
LEMMA HeapFields ==
    ASSUME NEW h \in HeapType
    PROVE  /\ h.promises \in Seq(PromiseType) /\ h.pairs \in Seq(PairType)
           /\ h.queue \in Seq(JobType) /\ h.reported \in SUBSET Nat
           /\ Len(h.promises) \in Nat /\ DOMAIN h.promises = 1 .. Len(h.promises)
           /\ Len(h.pairs) \in Nat /\ DOMAIN h.pairs = 1 .. Len(h.pairs)
           /\ Len(h.queue) \in Nat /\ DOMAIN h.queue = 1 .. Len(h.queue)
           /\ \A p \in DOMAIN h.promises : h.promises[p] \in PromiseType
           /\ \A k \in DOMAIN h.pairs : h.pairs[k] \in PairType
           /\ \A i \in DOMAIN h.queue : h.queue[i] \in JobType
<1>1. /\ h.promises \in Seq(PromiseType) /\ h.pairs \in Seq(PairType)
      /\ h.queue \in Seq(JobType) /\ h.reported \in SUBSET Nat
  BY DEF HeapType
<1> QED
  BY <1>1, LenProperties, ElementOfSeq

\* The lists of a promise.
LEMMA PromiseFields ==
    ASSUME NEW o \in PromiseType
    PROVE  /\ o.fulfillReactions \in Seq(ReactionType) /\ o.rejectReactions \in Seq(ReactionType)
           /\ \A s \in {o.fulfillReactions, o.rejectReactions} :
                /\ Len(s) \in Nat /\ DOMAIN s = 1 .. Len(s)
                /\ \A i \in DOMAIN s : s[i] \in ReactionType
<1>1. o.fulfillReactions \in Seq(ReactionType) /\ o.rejectReactions \in Seq(ReactionType)
  BY DEF PromiseType
<1> QED
  BY <1>1, LenProperties, ElementOfSeq

\* A heap with another object for the promise p.
LEMMA SetPromise ==
    ASSUME NEW h \in HeapType, NEW p \in DOMAIN h.promises, NEW o \in PromiseType
    PROVE  LET g == [h EXCEPT !.promises[p] = o]
           IN  /\ g \in HeapType
               /\ g.pairs = h.pairs /\ g.queue = h.queue /\ g.reported = h.reported
               /\ DOMAIN g.promises = DOMAIN h.promises
               /\ g.promises[p] = o
               /\ \A q \in DOMAIN h.promises \ {p} : g.promises[q] = h.promises[q]
<1> DEFINE s == [h.promises EXCEPT ![p] = o]
<1>1. h.promises \in Seq(PromiseType) /\ DOMAIN h.promises = 1 .. Len(h.promises)
  BY HeapFields
<1>2. s \in Seq(PromiseType) /\ DOMAIN s = DOMAIN h.promises
  BY <1>1, ExceptSeq, LenProperties
<1>3. [h EXCEPT !.promises[p] = o] = [h EXCEPT !.promises = s]
  BY DEF HeapType
<1>4. [h EXCEPT !.promises = s] \in HeapType
  BY <1>2 DEF HeapType
<1>5. [h EXCEPT !.promises = s].promises = s
  BY DEF HeapType
<1> QED
  BY <1>1, <1>2, <1>3, <1>4, <1>5 DEF HeapType

\* A heap with another queue.
LEMMA SetQueue ==
    ASSUME NEW h \in HeapType, NEW queue \in Seq(JobType)
    PROVE  LET g == [h EXCEPT !.queue = queue]
           IN  /\ g \in HeapType
               /\ g.promises = h.promises /\ g.pairs = h.pairs /\ g.reported = h.reported
               /\ g.queue = queue
BY DEF HeapType

\* A heap with other pairs.
LEMMA SetPairs ==
    ASSUME NEW h \in HeapType, NEW pairs \in Seq(PairType)
    PROVE  LET g == [h EXCEPT !.pairs = pairs]
           IN  /\ g \in HeapType
               /\ g.promises = h.promises /\ g.queue = h.queue /\ g.reported = h.reported
               /\ g.pairs = pairs
BY DEF HeapType

\* A heap with another set of reported promises.
LEMMA SetReported ==
    ASSUME NEW h \in HeapType, NEW reported \in SUBSET Nat
    PROVE  LET g == [h EXCEPT !.reported = reported]
           IN  /\ g \in HeapType
               /\ g.promises = h.promises /\ g.pairs = h.pairs /\ g.queue = h.queue
               /\ g.reported = reported
BY DEF HeapType

\* A settled promise has its new state, and its lists are gone.
LEMMA SettledFacts ==
    ASSUME NEW h \in HeapType, NEW p \in DOMAIN h.promises, NEW state \in {"fulfilled", "rejected"}
    PROVE  LET g == Settled(h, p, state)
           IN  /\ g \in HeapType
               /\ g.pairs = h.pairs /\ g.queue = h.queue /\ g.reported = h.reported
               /\ DOMAIN g.promises = DOMAIN h.promises
               /\ g.promises[p].state = state
               /\ g.promises[p].isHandled = h.promises[p].isHandled
               /\ g.promises[p].fulfillReactions = <<>> /\ g.promises[p].rejectReactions = <<>>
               /\ \A q \in DOMAIN h.promises \ {p} : g.promises[q] = h.promises[q]
<1>1. ASSUME NEW r \in PromiseType
      PROVE  LET o == [r EXCEPT !.state = state, !.fulfillReactions = <<>>, !.rejectReactions = <<>>]
             IN  /\ o \in PromiseType /\ o.state = state /\ o.isHandled = r.isHandled
                 /\ o.fulfillReactions = <<>> /\ o.rejectReactions = <<>>
  BY EmptySeq DEF PromiseType
<1> DEFINE o == [h.promises[p] EXCEPT !.state = state, !.fulfillReactions = <<>>, !.rejectReactions = <<>>]
<1>2. h.promises[p] \in PromiseType
  BY HeapFields
<1>3. Settled(h, p, state) = [h EXCEPT !.promises[p] = o]
  BY <1>2 DEF Settled, HeapType
<1>4. /\ o \in PromiseType /\ o.state = state /\ o.isHandled = h.promises[p].isHandled
      /\ o.fulfillReactions = <<>> /\ o.rejectReactions = <<>>
  BY <1>1, <1>2
<1> QED
  BY <1>3, <1>4, SetPromise

\* EnqueueJob puts the job behind the others.
LEMMA EnqueueFacts ==
    ASSUME NEW h \in HeapType, NEW job \in JobType
    PROVE  LET g == EnqueueJob(h, job)
           IN  /\ g \in HeapType
               /\ g.promises = h.promises /\ g.pairs = h.pairs /\ g.reported = h.reported
               /\ DOMAIN g.queue = 1 .. Len(h.queue) + 1
               /\ g.queue[Len(h.queue) + 1] = job
               /\ \A i \in DOMAIN h.queue : g.queue[i] = h.queue[i]
<1>1. h.queue \in Seq(JobType) /\ DOMAIN h.queue = 1 .. Len(h.queue)
  BY HeapFields
<1> DEFINE s == Append(h.queue, job)
<1>2. /\ s \in Seq(JobType) /\ DOMAIN s = 1 .. Len(h.queue) + 1
      /\ s[Len(h.queue) + 1] = job /\ \A i \in DOMAIN h.queue : s[i] = h.queue[i]
  BY <1>1, AppendProperties, LenProperties
<1>3. EnqueueJob(h, job) = [h EXCEPT !.queue = s]
  BY DEF EnqueueJob
<1> HIDE DEF s
<1> QED
  BY <1>2, <1>3, SetQueue

\* TriggerPromiseReactions puts a job for each reaction behind the others, in their order.
LEMMA TriggerFacts ==
    ASSUME NEW h \in HeapType, NEW reactions \in Seq(ReactionType)
    PROVE  LET g == TriggerPromiseReactions(h, reactions)
           IN  /\ g \in HeapType
               /\ g.promises = h.promises /\ g.pairs = h.pairs /\ g.reported = h.reported
               /\ DOMAIN g.queue = 1 .. Len(h.queue) + Len(reactions)
               /\ \A i \in DOMAIN h.queue : g.queue[i] = h.queue[i]
               /\ \A i \in DOMAIN reactions :
                    g.queue[Len(h.queue) + i] = ReactionJob(reactions[i])
<1> DEFINE jobs == [i \in DOMAIN reactions |-> ReactionJob(reactions[i])]
<1>1. h.queue \in Seq(JobType) /\ DOMAIN h.queue = 1 .. Len(h.queue) /\ Len(h.queue) \in Nat
  BY HeapFields
<1>2. DOMAIN reactions = 1 .. Len(reactions) /\ Len(reactions) \in Nat
  BY LenProperties
<1>3. \A i \in DOMAIN reactions : ReactionJob(reactions[i]) \in JobType
  BY <1>2, ElementOfSeq DEF ReactionJob, JobType
<1>4. jobs \in Seq(JobType) /\ Len(jobs) = Len(reactions)
  BY <1>2, <1>3
<1>5. \A i \in DOMAIN reactions : jobs[i] = ReactionJob(reactions[i])
  OBVIOUS
<1> DEFINE s == h.queue \o jobs
<1>6. TriggerPromiseReactions(h, reactions) = [h EXCEPT !.queue = s]
  BY DEF TriggerPromiseReactions
<1> HIDE DEF jobs
<1>7. /\ s \in Seq(JobType) /\ Len(s) = Len(h.queue) + Len(jobs)
      /\ \A i \in 1 .. Len(h.queue) + Len(jobs) :
            s[i] = IF i <= Len(h.queue) THEN h.queue[i] ELSE jobs[i - Len(h.queue)]
  BY <1>1, <1>4, ConcatProperties
<1>8. DOMAIN s = 1 .. Len(h.queue) + Len(reactions)
  BY <1>4, <1>7, LenProperties
<1> HIDE DEF s
<1>9. /\ \A i \in DOMAIN h.queue : s[i] = h.queue[i]
      /\ \A i \in DOMAIN reactions : s[Len(h.queue) + i] = ReactionJob(reactions[i])
  <2> PICK m, n : m = Len(h.queue) /\ n = Len(reactions) OBVIOUS
  <2>1. m \in Nat /\ n \in Nat /\ DOMAIN h.queue = 1 .. m /\ DOMAIN reactions = 1 .. n
    BY <1>1, <1>2
  <2>2. \A i \in 1 .. m + n : s[i] = IF i <= m THEN h.queue[i] ELSE jobs[i - m]
    BY <1>4, <1>7
  <2>3. ASSUME NEW i \in 1 .. n PROVE s[m + i] = jobs[i]
    <3>1. m + i \in 1 .. m + n /\ ~(m + i <= m) /\ (m + i) - m = i
      BY ONLY <2>1, i \in 1 .. n
    <3> QED BY <2>2, <3>1
  <2>4. \A i \in 1 .. m : s[i] = h.queue[i]
    BY <2>1, <2>2
  <2> QED BY <1>5, <2>1, <2>3, <2>4
<1> QED
  BY <1>6, <1>7, <1>8, <1>9, SetQueue

\* CreateResolvingFunctions adds an unused pair for p.
LEMMA CreateFacts ==
    ASSUME NEW h \in HeapType, NEW p \in Nat
    PROVE  LET g == CreateResolvingFunctions(h, p)
           IN  /\ g \in HeapType
               /\ g.promises = h.promises /\ g.queue = h.queue /\ g.reported = h.reported
               /\ LastPair(g) = LastPair(h) + 1 /\ DOMAIN g.pairs = 1 .. LastPair(h) + 1
               /\ g.pairs[LastPair(g)].promise = p /\ ~g.pairs[LastPair(g)].alreadyResolved
               /\ \A k \in DOMAIN h.pairs : g.pairs[k] = h.pairs[k]
<1> DEFINE pair == [promise |-> p, alreadyResolved |-> FALSE]
<1>1. h.pairs \in Seq(PairType) /\ DOMAIN h.pairs = 1 .. Len(h.pairs)
  BY HeapFields
<1>2. pair \in PairType /\ pair.promise = p /\ ~pair.alreadyResolved
  BY DEF PairType
<1> DEFINE s == Append(h.pairs, pair)
<1>3. CreateResolvingFunctions(h, p) = [h EXCEPT !.pairs = s]
  BY DEF CreateResolvingFunctions
<1> HIDE DEF pair
<1>4. /\ s \in Seq(PairType) /\ Len(s) = Len(h.pairs) + 1 /\ DOMAIN s = 1 .. Len(h.pairs) + 1
      /\ s[Len(h.pairs) + 1] = pair /\ \A k \in DOMAIN h.pairs : s[k] = h.pairs[k]
  BY <1>1, <1>2, AppendProperties, LenProperties
<1> HIDE DEF s
<1> QED
  BY <1>2, <1>3, <1>4, SetPairs DEF LastPair

\* Used marks one pair.
LEMMA UsedFacts ==
    ASSUME NEW h \in HeapType, NEW k \in DOMAIN h.pairs
    PROVE  LET g == Used(h, k)
           IN  /\ g \in HeapType
               /\ g.promises = h.promises /\ g.queue = h.queue /\ g.reported = h.reported
               /\ DOMAIN g.pairs = DOMAIN h.pairs
               /\ g.pairs[k].promise = h.pairs[k].promise /\ g.pairs[k].alreadyResolved
               /\ \A j \in DOMAIN h.pairs \ {k} : g.pairs[j] = h.pairs[j]
<1> DEFINE pair == [h.pairs[k] EXCEPT !.alreadyResolved = TRUE]
           s == [h.pairs EXCEPT ![k] = pair]
<1>1. h.pairs \in Seq(PairType) /\ DOMAIN h.pairs = 1 .. Len(h.pairs) /\ h.pairs[k] \in PairType
  BY HeapFields
<1>2. pair \in PairType /\ pair.promise = h.pairs[k].promise /\ pair.alreadyResolved
  BY <1>1 DEF PairType
<1>3. Used(h, k) = [h EXCEPT !.pairs = s]
  BY <1>1 DEF Used, HeapType
<1> HIDE DEF pair
<1>4. s \in Seq(PairType) /\ DOMAIN s = DOMAIN h.pairs
  BY <1>1, <1>2, ExceptSeq, LenProperties
<1> QED
  <2>1. LET x == [h EXCEPT !.pairs = s]
        IN  /\ x \in HeapType
            /\ x.promises = h.promises /\ x.queue = h.queue /\ x.reported = h.reported
            /\ x.pairs = s
    BY ONLY h \in HeapType, <1>4, SetPairs
  <2>2. s[k] = pair /\ \A j \in DOMAIN h.pairs \ {k} : s[j] = h.pairs[j]
    BY <1>1
  <2> HIDE DEF s
  <2> QED
    BY ONLY <1>2, <1>3, <1>4, <2>1, <2>2

\* The new promise of NewPromise, before it gets its pair.
NewObject == [state |-> "pending", isHandled |-> FALSE,
              fulfillReactions |-> <<>>, rejectReactions |-> <<>>]
AddPromise(h) == [h EXCEPT !.promises = Append(@, NewObject)]

\* AddPromise adds a pending promise without reactions.
LEMMA AddFacts ==
    ASSUME NEW h \in HeapType
    PROVE  LET g == AddPromise(h)
           IN  /\ g \in HeapType
               /\ g.pairs = h.pairs /\ g.queue = h.queue /\ g.reported = h.reported
               /\ LastPromise(g) = LastPromise(h) + 1
               /\ DOMAIN g.promises = 1 .. LastPromise(h) + 1
               /\ g.promises[LastPromise(g)] = NewObject
               /\ \A p \in DOMAIN h.promises : g.promises[p] = h.promises[p]
               /\ NewPromise(h) = CreateResolvingFunctions(g, LastPromise(g))
<1>1. h.promises \in Seq(PromiseType) /\ DOMAIN h.promises = 1 .. Len(h.promises)
  BY HeapFields
<1>2. NewObject \in PromiseType
  BY EmptySeq DEF PromiseType, NewObject
<1> DEFINE s == Append(h.promises, NewObject)
<1>3. /\ s \in Seq(PromiseType) /\ Len(s) = Len(h.promises) + 1
      /\ DOMAIN s = 1 .. Len(h.promises) + 1 /\ s[Len(h.promises) + 1] = NewObject
      /\ \A p \in DOMAIN h.promises : s[p] = h.promises[p]
  BY <1>1, <1>2, AppendProperties, LenProperties
<1>4. AddPromise(h) = [h EXCEPT !.promises = s]
  BY DEF AddPromise
<1> HIDE DEF s
<1>5. /\ AddPromise(h) \in HeapType
      /\ AddPromise(h).pairs = h.pairs /\ AddPromise(h).queue = h.queue
      /\ AddPromise(h).reported = h.reported
      /\ AddPromise(h).promises = s
  BY <1>3, <1>4 DEF HeapType
<1>6. NewPromise(h) = CreateResolvingFunctions(AddPromise(h), LastPromise(h) + 1)
  BY DEF NewPromise, AddPromise, NewObject
<1> QED
  BY <1>3, <1>5, <1>6 DEF LastPromise

-----------------------------------------------------------------------------
(* The invariant of the heap.  `inHand` is the promise that an operation is about to      *)
(* settle or to give a new pair, 0 if there is none: it has no way left to be settled.    *)

IsReaction(h, i) == h.queue[i].task = "reaction"
IsThenable(h, i) == h.queue[i].task = "thenable"
IsPending(h, p) == h.promises[p].state = "pending"
IsUsable(h, k) == ~h.pairs[k].alreadyResolved

\* A handler, and a reaction, whose promise and pairs exist.
ValidHandler(h, handler) ==
    \/ handler \in {User, Identity, Thrower}
    \/ \E k \in DOMAIN h.pairs : handler \in {ResolveOf(k), RejectOf(k)}
ValidReaction(h, r) ==
    /\ r.of \in DOMAIN h.promises /\ r.capability \in DOMAIN h.pairs
    /\ ValidHandler(h, r.handler)

\* A list of reactions to p, in the order in which their capabilities were made.
ListInv(h, p, s) ==
    /\ \A i \in DOMAIN s : ValidReaction(h, s[i]) /\ s[i].of = p
    /\ \A i, n \in DOMAIN s : i < n => s[i].capability < s[n].capability

\* What the objects refer to exists, and only pending promises have reactions.
RefInv(h) ==
    /\ \A k \in DOMAIN h.pairs : h.pairs[k].promise \in DOMAIN h.promises
    /\ \A p \in DOMAIN h.promises :
        /\ ListInv(h, p, h.promises[p].fulfillReactions)
        /\ ListInv(h, p, h.promises[p].rejectReactions)
        /\ ~IsPending(h, p) => h.promises[p].fulfillReactions = <<>>
                               /\ h.promises[p].rejectReactions = <<>>
    /\ \A i \in DOMAIN h.queue : IsThenable(h, i) =>
            /\ h.queue[i].promise \in DOMAIN h.promises
            /\ h.queue[i].thenable \in (DOMAIN h.promises \cup {Thenable}) \ {h.queue[i].promise}

\* Reaction jobs are those of settled promises, in order for each of them.
QueueInv(h) ==
    /\ \A i \in DOMAIN h.queue : IsReaction(h, i) =>
            ValidReaction(h, h.queue[i].reaction) /\ ~IsPending(h, h.queue[i].reaction.of)
    /\ \A i, n \in DOMAIN h.queue :
            IsReaction(h, i) /\ IsReaction(h, n) /\ i < n
            /\ h.queue[i].reaction.of = h.queue[n].reaction.of
                => h.queue[i].reaction.capability < h.queue[n].reaction.capability

\* A pending promise that is not in hand has exactly one way to be settled, others have none.
WayInv(h, inHand) ==
    /\ \A k \in DOMAIN h.pairs : IsUsable(h, k) =>
            IsPending(h, h.pairs[k].promise) /\ h.pairs[k].promise # inHand
    /\ \A i \in DOMAIN h.queue : IsThenable(h, i) =>
            IsPending(h, h.queue[i].promise) /\ h.queue[i].promise # inHand
    /\ \A j, k \in DOMAIN h.pairs :
            IsUsable(h, j) /\ IsUsable(h, k) /\ h.pairs[j].promise = h.pairs[k].promise => j = k
    /\ \A i, n \in DOMAIN h.queue :
            IsThenable(h, i) /\ IsThenable(h, n) /\ h.queue[i].promise = h.queue[n].promise => i = n
    /\ \A k \in DOMAIN h.pairs, i \in DOMAIN h.queue :
            IsUsable(h, k) /\ IsThenable(h, i) => h.pairs[k].promise # h.queue[i].promise
    /\ \A p \in DOMAIN h.promises : IsPending(h, p) /\ p # inHand =>
        \/ \E k \in DOMAIN h.pairs : IsUsable(h, k) /\ h.pairs[k].promise = p
        \/ \E i \in DOMAIN h.queue : IsThenable(h, i) /\ h.queue[i].promise = p
    /\ inHand # 0 => inHand \in DOMAIN h.promises /\ IsPending(h, inHand)

ReportInv(h) ==
    h.reported = {p \in DOMAIN h.promises : h.promises[p].state = "rejected" /\ ~h.promises[p].isHandled}

HeapInv(h, inHand) == h \in HeapType /\ RefInv(h) /\ QueueInv(h) /\ WayInv(h, inHand) /\ ReportInv(h)

-----------------------------------------------------------------------------
(* What the operators on the heap preserve *)

\* What exists goes on to exist.
LEMMA ListMonotone ==
    ASSUME NEW h, NEW g,
           DOMAIN h.promises \subseteq DOMAIN g.promises, DOMAIN h.pairs \subseteq DOMAIN g.pairs
    PROVE  /\ \A r : ValidReaction(h, r) => ValidReaction(g, r)
           /\ \A p, s : ListInv(h, p, s) => ListInv(g, p, s)
BY DEF ValidReaction, ValidHandler, ListInv

\* A pair that is used puts its promise in the hands of its caller.
LEMMA UsedInv ==
    ASSUME NEW h, HeapInv(h, 0), NEW k \in DOMAIN h.pairs, IsUsable(h, k)
    PROVE  LET g == Used(h, k)
           IN  /\ HeapInv(g, h.pairs[k].promise)
               /\ DOMAIN g.promises = DOMAIN h.promises /\ DOMAIN g.pairs = DOMAIN h.pairs
               /\ h.pairs[k].promise \in DOMAIN h.promises /\ h.pairs[k].promise # 0
<1> DEFINE g == Used(h, k)
           p == h.pairs[k].promise
<1>1. h \in HeapType /\ RefInv(h) /\ QueueInv(h) /\ WayInv(h, 0) /\ ReportInv(h)
  BY DEF HeapInv
<1>2. /\ g \in HeapType
      /\ g.promises = h.promises /\ g.queue = h.queue /\ g.reported = h.reported
      /\ DOMAIN g.pairs = DOMAIN h.pairs
      /\ g.pairs[k].promise = p /\ g.pairs[k].alreadyResolved
      /\ \A j \in DOMAIN h.pairs \ {k} : g.pairs[j] = h.pairs[j]
  BY <1>1, UsedFacts
<1> HIDE DEF g
<1>3. p \in DOMAIN h.promises /\ IsPending(h, p) /\ \A q \in DOMAIN h.promises : q # 0
  BY <1>1, HeapFields DEF RefInv, WayInv
<1>4. \A j \in DOMAIN h.pairs : g.pairs[j].promise = h.pairs[j].promise
                                /\ (IsUsable(g, j) <=> IsUsable(h, j) /\ j # k)
  BY <1>2 DEF IsUsable
<1>5. \A q : IsPending(g, q) <=> IsPending(h, q)
  BY <1>2 DEF IsPending
<1>6. \A i : (IsThenable(g, i) <=> IsThenable(h, i)) /\ (IsReaction(g, i) <=> IsReaction(h, i))
  BY <1>2 DEF IsThenable, IsReaction
<1>7. /\ \A r : ValidReaction(h, r) => ValidReaction(g, r)
      /\ \A q, s : ListInv(h, q, s) => ListInv(g, q, s)
  BY <1>2, ListMonotone
<1>8. RefInv(g)
  BY <1>1, <1>2, <1>4, <1>5, <1>6, <1>7 DEF RefInv
<1>9. QueueInv(g)
  BY <1>1, <1>2, <1>5, <1>6, <1>7 DEF QueueInv
<1>10. WayInv(g, p)
  <2> HIDE DEF p
  <2>1. \A j \in DOMAIN g.pairs : IsUsable(g, j) => IsPending(g, g.pairs[j].promise) /\ g.pairs[j].promise # p
    BY <1>1, <1>2, <1>3, <1>4, <1>5 DEF WayInv, p
  <2>2. \A i \in DOMAIN g.queue : IsThenable(g, i) => IsPending(g, g.queue[i].promise) /\ g.queue[i].promise # p
    BY <1>1, <1>2, <1>3, <1>4, <1>5, <1>6 DEF WayInv, p
  <2>3. \A q \in DOMAIN g.promises : IsPending(g, q) /\ q # p =>
        \/ \E j \in DOMAIN g.pairs : IsUsable(g, j) /\ g.pairs[j].promise = q
        \/ \E i \in DOMAIN g.queue : IsThenable(g, i) /\ g.queue[i].promise = q
    BY <1>1, <1>2, <1>3, <1>4, <1>5, <1>6 DEF WayInv, p
  <2> QED
    BY <1>1, <1>2, <1>3, <1>4, <1>5, <1>6, <2>1, <2>2, <2>3 DEF WayInv
<1>11. ReportInv(g)
  BY <1>1, <1>2 DEF ReportInv
<1> QED
  BY <1>2, <1>3, <1>8, <1>9, <1>10, <1>11 DEF HeapInv, g

\* In g, p has been settled with the reactions s: they are the last jobs of the queue.
SettledBy(h, p, s, g) ==
    /\ g.pairs = h.pairs /\ DOMAIN g.promises = DOMAIN h.promises
    /\ g.promises[p].fulfillReactions = <<>> /\ g.promises[p].rejectReactions = <<>>
    /\ \A q \in DOMAIN h.promises \ {p} : g.promises[q] = h.promises[q]
    /\ DOMAIN g.queue = 1 .. Len(h.queue) + Len(s)
    /\ \A i \in DOMAIN h.queue : g.queue[i] = h.queue[i]
    /\ \A i \in DOMAIN s : g.queue[Len(h.queue) + i] = ReactionJob(s[i])

\* What is common to FulfillPromise and RejectPromise: the promise in hand is settled, and
\* the reactions s it had for this case become jobs.
LEMMA SettleInv ==
    ASSUME NEW h, NEW p, HeapInv(h, p), p # 0,
           NEW s \in {h.promises[p].fulfillReactions, h.promises[p].rejectReactions},
           NEW g \in HeapType, ~IsPending(g, p), SettledBy(h, p, s, g)
    PROVE  RefInv(g) /\ QueueInv(g) /\ WayInv(g, 0)
<1>0. /\ g.pairs = h.pairs /\ DOMAIN g.promises = DOMAIN h.promises
      /\ g.promises[p].fulfillReactions = <<>> /\ g.promises[p].rejectReactions = <<>>
      /\ \A q \in DOMAIN h.promises \ {p} : g.promises[q] = h.promises[q]
      /\ DOMAIN g.queue = 1 .. Len(h.queue) + Len(s)
      /\ \A i \in DOMAIN h.queue : g.queue[i] = h.queue[i]
      /\ \A i \in DOMAIN s : g.queue[Len(h.queue) + i] = ReactionJob(s[i])
  BY DEF SettledBy
<1>1. h \in HeapType /\ RefInv(h) /\ QueueInv(h) /\ WayInv(h, p)
  BY DEF HeapInv
<1>2. p \in DOMAIN h.promises /\ IsPending(h, p) /\ ListInv(h, p, s)
  BY <1>0, <1>1 DEF RefInv, WayInv
<1>3. /\ DOMAIN h.queue = 1 .. Len(h.queue) /\ Len(h.queue) \in Nat
      /\ DOMAIN s = 1 .. Len(s) /\ Len(s) \in Nat
  <2>1. h.promises[p] \in PromiseType
    BY <1>0, <1>1, <1>2, HeapFields
  <2> QED
    BY <1>0, <1>1, <2>1, HeapFields, PromiseFields
<1>4. \A i \in DOMAIN g.queue : i \in DOMAIN h.queue \/ \E m \in DOMAIN s : i = Len(h.queue) + m
  <2> SUFFICES ASSUME NEW i \in DOMAIN g.queue, i \notin DOMAIN h.queue
               PROVE  \E m \in DOMAIN s : i = Len(h.queue) + m
    OBVIOUS
  <2>1. i - Len(h.queue) \in DOMAIN s /\ i = Len(h.queue) + (i - Len(h.queue))
    BY <1>0, <1>3
  <2> QED
    BY <1>0, <2>1
<1>5. \A q \in DOMAIN h.promises : IsPending(g, q) <=> IsPending(h, q) /\ q # p
  BY <1>0 DEF IsPending
<1>6. /\ \A i \in DOMAIN h.queue : (IsThenable(g, i) <=> IsThenable(h, i))
                                    /\ (IsReaction(g, i) <=> IsReaction(h, i))
      /\ \A m \in DOMAIN s : LET i == Len(h.queue) + m
                             IN  /\ ~IsThenable(g, i) /\ IsReaction(g, i)
                                 /\ g.queue[i].reaction = s[m]
  <2>1. \A m \in DOMAIN s : ReactionJob(s[m]).task = "reaction" /\ ReactionJob(s[m]).reaction = s[m]
    BY DEF ReactionJob
  <2> QED
    BY <1>0, <2>1 DEF IsThenable, IsReaction
<1>7. /\ \A r : ValidReaction(h, r) => ValidReaction(g, r)
      /\ \A q, t : ListInv(h, q, t) => ListInv(g, q, t)
  BY <1>0, ListMonotone
<1>8. ListInv(g, p, <<>>)
  BY EmptySeq DEF ListInv
<1>9. RefInv(g)
  <2>1. \A q \in DOMAIN g.promises :
            /\ ListInv(g, q, g.promises[q].fulfillReactions)
            /\ ListInv(g, q, g.promises[q].rejectReactions)
            /\ ~IsPending(g, q) => g.promises[q].fulfillReactions = <<>>
                                   /\ g.promises[q].rejectReactions = <<>>
    BY <1>0, <1>1, <1>5, <1>7, <1>8 DEF RefInv
  <2>2. \A i \in DOMAIN g.queue : IsThenable(g, i) => i \in DOMAIN h.queue /\ IsThenable(h, i)
    BY <1>0, <1>4, <1>6
  <2> QED
    BY <1>0, <1>1, <2>1, <2>2 DEF RefInv
<1>10. QueueInv(g)
  <2>1. \A m \in DOMAIN s : ValidReaction(g, s[m]) /\ s[m].of = p
    BY <1>0, <1>2, <1>7 DEF ListInv
  <2>2. \A i \in DOMAIN g.queue : IsReaction(g, i) =>
            ValidReaction(g, g.queue[i].reaction) /\ ~IsPending(g, g.queue[i].reaction.of)
    <3>1. \A i \in DOMAIN h.queue : IsReaction(h, i) => h.queue[i].reaction.of \in DOMAIN h.promises
      BY <1>0, <1>1 DEF QueueInv, ValidReaction
    <3> QED
      BY <1>0, <1>1, <1>2, <1>4, <1>5, <1>6, <1>7, <2>1, <3>1 DEF QueueInv
  <2>3. ASSUME NEW i \in DOMAIN g.queue, NEW n \in DOMAIN g.queue,
               IsReaction(g, i), IsReaction(g, n), i < n,
               g.queue[i].reaction.of = g.queue[n].reaction.of
        PROVE  g.queue[i].reaction.capability < g.queue[n].reaction.capability
    <3>1. CASE i \in DOMAIN h.queue /\ n \in DOMAIN h.queue
      BY <1>0, <1>1, <1>6, <2>3, <3>1 DEF QueueInv
    <3>2. CASE i \in DOMAIN h.queue /\ n \notin DOMAIN h.queue
      <4>1. h.queue[i].reaction.of # p
        BY <1>0, <1>1, <1>2, <1>6, <2>3, <3>2 DEF QueueInv
      <4> QED
        BY <1>0, <1>4, <1>6, <2>1, <2>3, <3>2, <4>1
    <3>3. CASE i \notin DOMAIN h.queue
      <4>1. PICK l \in DOMAIN s : i = Len(h.queue) + l
        BY <1>0, <1>4, <3>3
      <4>2. PICK m \in DOMAIN s : n = Len(h.queue) + m
        BY <1>0, <1>3, <1>4, <2>3, <4>1
      <4>3. s[l].capability < s[m].capability
        <5>1. l < m
          BY <1>0, <1>3, <2>3, <4>1, <4>2
        <5> QED
          BY <1>0, <1>2, <5>1 DEF ListInv
      <4> QED
        BY <1>0, <1>6, <4>1, <4>2, <4>3
    <3> QED
      BY <1>0, <3>1, <3>2, <3>3
  <2> QED
    BY <1>0, <2>2, <2>3 DEF QueueInv
<1>11. WayInv(g, 0)
  <2>1. \A k \in DOMAIN g.pairs : /\ IsUsable(g, k) <=> IsUsable(h, k)
                                  /\ h.pairs[k].promise \in DOMAIN h.promises
    BY <1>0, <1>1 DEF IsUsable, RefInv
  <2>2. /\ \A i \in DOMAIN h.queue : IsThenable(h, i) => i \in DOMAIN g.queue /\ IsThenable(g, i)
                                        /\ h.queue[i].promise \in DOMAIN h.promises
        /\ \A i \in DOMAIN g.queue : IsThenable(g, i) => i \in DOMAIN h.queue /\ IsThenable(h, i)
    BY <1>0, <1>1, <1>3, <1>4, <1>6 DEF RefInv
  <2>3. 0 \notin DOMAIN h.promises
    BY <1>0, <1>1, HeapFields
  <2>4. \A q \in DOMAIN g.promises : IsPending(g, q) =>
        \/ \E k \in DOMAIN g.pairs : IsUsable(g, k) /\ g.pairs[k].promise = q
        \/ \E i \in DOMAIN g.queue : IsThenable(g, i) /\ g.queue[i].promise = q
    BY <1>0, <1>1, <1>5, <2>1, <2>2 DEF WayInv
  <2>5. /\ \A k \in DOMAIN g.pairs : IsUsable(g, k) =>
                IsPending(g, g.pairs[k].promise) /\ g.pairs[k].promise # 0
        /\ \A i \in DOMAIN g.queue : IsThenable(g, i) =>
                IsPending(g, g.queue[i].promise) /\ g.queue[i].promise # 0
    BY <1>0, <1>1, <1>5, <2>1, <2>2, <2>3 DEF WayInv
  <2>6. /\ \A j, k \in DOMAIN g.pairs :
            IsUsable(g, j) /\ IsUsable(g, k) /\ g.pairs[j].promise = g.pairs[k].promise => j = k
        /\ \A i, n \in DOMAIN g.queue :
            IsThenable(g, i) /\ IsThenable(g, n) /\ g.queue[i].promise = g.queue[n].promise => i = n
        /\ \A k \in DOMAIN g.pairs, i \in DOMAIN g.queue :
            IsUsable(g, k) /\ IsThenable(g, i) => g.pairs[k].promise # g.queue[i].promise
    BY <1>0, <1>1, <2>1, <2>2 DEF WayInv
  <2> QED
    BY <1>0, <2>4, <2>5, <2>6 DEF WayInv
<1> QED
  BY <1>0, <1>9, <1>10, <1>11

\* FulfillPromise settles the promise in hand.
LEMMA FulfillInv ==
    ASSUME NEW h, NEW p, HeapInv(h, p), p # 0
    PROVE  LET g == FulfillPromise(h, p)
           IN  /\ HeapInv(g, 0) /\ SettledBy(h, p, h.promises[p].fulfillReactions, g)
               /\ DOMAIN g.promises = DOMAIN h.promises /\ DOMAIN g.pairs = DOMAIN h.pairs
<1> DEFINE s == h.promises[p].fulfillReactions
           f == Settled(h, p, "fulfilled")
           g == TriggerPromiseReactions(f, s)
<1>1. h \in HeapType /\ p \in DOMAIN h.promises /\ IsPending(h, p) /\ ReportInv(h)
  BY DEF HeapInv, WayInv
<1>2. s \in Seq(ReactionType)
  BY <1>1, HeapFields, PromiseFields
<1>3. /\ f \in HeapType
      /\ f.pairs = h.pairs /\ f.queue = h.queue /\ f.reported = h.reported
      /\ DOMAIN f.promises = DOMAIN h.promises
      /\ f.promises[p].state = "fulfilled"
      /\ f.promises[p].fulfillReactions = <<>> /\ f.promises[p].rejectReactions = <<>>
      /\ \A q \in DOMAIN h.promises \ {p} : f.promises[q] = h.promises[q]
  BY <1>1, SettledFacts
<1> HIDE DEF f, s
<1>4. /\ g \in HeapType
      /\ g.promises = f.promises /\ g.pairs = f.pairs /\ g.reported = f.reported
      /\ DOMAIN g.queue = 1 .. Len(f.queue) + Len(s)
      /\ \A i \in DOMAIN f.queue : g.queue[i] = f.queue[i]
      /\ \A i \in DOMAIN s : g.queue[Len(f.queue) + i] = ReactionJob(s[i])
  BY <1>2, <1>3, TriggerFacts
<1>5. FulfillPromise(h, p) = g
  BY DEF FulfillPromise, f, s
<1> HIDE DEF g
<1>6. s \in {h.promises[p].fulfillReactions, h.promises[p].rejectReactions}
  BY DEF s
<1>7. ~IsPending(g, p)
  BY <1>3, <1>4 DEF IsPending
<1>8. SettledBy(h, p, s, g) /\ RefInv(g) /\ QueueInv(g) /\ WayInv(g, 0)
  <2>1. SettledBy(h, p, s, g)
    BY <1>3, <1>4 DEF SettledBy
  <2> QED
    BY <1>4, <1>6, <1>7, <2>1, SettleInv
<1>9. ReportInv(g)
  BY <1>1, <1>3, <1>4 DEF ReportInv, IsPending
<1> QED
  BY <1>3, <1>4, <1>5, <1>8, <1>9 DEF HeapInv, s

\* RejectPromise settles the promise in hand, and tells the host if nothing handles it.
LEMMA RejectInv ==
    ASSUME NEW h, NEW p, HeapInv(h, p), p # 0
    PROVE  LET g == RejectPromise(h, p)
           IN  /\ HeapInv(g, 0) /\ SettledBy(h, p, h.promises[p].rejectReactions, g)
               /\ DOMAIN g.promises = DOMAIN h.promises /\ DOMAIN g.pairs = DOMAIN h.pairs
<1> DEFINE s == h.promises[p].rejectReactions
           f == Settled(h, p, "rejected")
           reported == IF h.promises[p].isHandled THEN h.reported ELSE h.reported \cup {p}
           told == IF h.promises[p].isHandled THEN f ELSE [f EXCEPT !.reported = @ \cup {p}]
           g == TriggerPromiseReactions(told, s)
<1>1. /\ h \in HeapType /\ p \in DOMAIN h.promises /\ IsPending(h, p) /\ ReportInv(h)
      /\ h.reported \in SUBSET Nat /\ DOMAIN h.promises \subseteq Nat
  BY HeapFields DEF HeapInv, WayInv
<1>2. s \in Seq(ReactionType)
  BY <1>1, HeapFields, PromiseFields
<1>3. /\ f \in HeapType
      /\ f.pairs = h.pairs /\ f.queue = h.queue /\ f.reported = h.reported
      /\ DOMAIN f.promises = DOMAIN h.promises
      /\ f.promises[p].state = "rejected" /\ f.promises[p].isHandled = h.promises[p].isHandled
      /\ f.promises[p].fulfillReactions = <<>> /\ f.promises[p].rejectReactions = <<>>
      /\ \A q \in DOMAIN h.promises \ {p} : f.promises[q] = h.promises[q]
  BY <1>1, SettledFacts
<1>4. RejectPromise(h, p) = g
  BY DEF RejectPromise
<1> HIDE DEF f, s
<1>5. /\ told \in HeapType /\ told.reported = reported
      /\ told.promises = f.promises /\ told.pairs = f.pairs /\ told.queue = f.queue
  <2>1. reported \in SUBSET Nat
    BY <1>1
  <2>2. CASE h.promises[p].isHandled
    BY <1>3, <2>2
  <2>3. CASE ~h.promises[p].isHandled
    <3>1. told = [f EXCEPT !.reported = reported]
      BY <1>3, <2>3
    <3> HIDE DEF told, reported
    <3> QED
      BY <1>3, <2>1, <3>1, SetReported
  <2> QED
    BY <2>2, <2>3
<1> HIDE DEF told
<1>6. /\ g \in HeapType
      /\ g.promises = told.promises /\ g.pairs = told.pairs /\ g.reported = told.reported
      /\ DOMAIN g.queue = 1 .. Len(told.queue) + Len(s)
      /\ \A i \in DOMAIN told.queue : g.queue[i] = told.queue[i]
      /\ \A i \in DOMAIN s : g.queue[Len(told.queue) + i] = ReactionJob(s[i])
  BY <1>2, <1>5, TriggerFacts
<1> HIDE DEF g
<1>7. s \in {h.promises[p].fulfillReactions, h.promises[p].rejectReactions}
  BY DEF s
<1>8. ~IsPending(g, p)
  BY <1>3, <1>5, <1>6 DEF IsPending
<1>9. SettledBy(h, p, s, g) /\ RefInv(g) /\ QueueInv(g) /\ WayInv(g, 0)
  <2>1. SettledBy(h, p, s, g)
    BY <1>3, <1>5, <1>6 DEF SettledBy
  <2> QED
    BY <1>6, <1>7, <1>8, <2>1, SettleInv
<1>10. ReportInv(g)
  <2>1. \A q : q \in g.reported <=> q \in h.reported \/ (q = p /\ ~h.promises[p].isHandled)
    BY ONLY <1>5, <1>6
  <2>2. ASSUME NEW q \in DOMAIN h.promises
        PROVE  (g.promises[q].state = "rejected" /\ ~g.promises[q].isHandled)
                  <=> \/ h.promises[q].state = "rejected" /\ ~h.promises[q].isHandled
                      \/ q = p /\ ~h.promises[p].isHandled
    <3>1. CASE q = p
      <4>1. h.promises[p].state # "rejected"
        BY ONLY <1>1 DEF IsPending
      <4>2. g.promises[p].state = "rejected" /\ g.promises[p].isHandled = h.promises[p].isHandled
        BY ONLY <1>3, <1>5, <1>6
      <4> QED
        BY ONLY <3>1, <4>1, <4>2
    <3>2. CASE q # p
      <4>1. g.promises[q] = h.promises[q]
        BY ONLY <1>3, <1>5, <1>6, <3>2, q \in DOMAIN h.promises
      <4> QED
        BY ONLY <3>2, <4>1
    <3> QED
      BY ONLY <3>1, <3>2
  <2>3. DOMAIN g.promises = DOMAIN h.promises
    BY ONLY <1>3, <1>5, <1>6
  <2>4. \A q : q \in h.reported
                  <=> q \in DOMAIN h.promises /\ h.promises[q].state = "rejected" /\ ~h.promises[q].isHandled
    BY ONLY <1>1 DEF ReportInv
  <2>5. \A q : q \in g.reported
                  <=> q \in DOMAIN g.promises /\ g.promises[q].state = "rejected" /\ ~g.promises[q].isHandled
    <3> TAKE q
    <3>1. CASE q \in DOMAIN h.promises
      BY ONLY <2>1, <2>2, <2>3, <2>4, <3>1
    <3>2. CASE q \notin DOMAIN h.promises
      BY ONLY <1>1, <2>1, <2>3, <2>4, <3>2
    <3> QED
      BY ONLY <3>1, <3>2
  <2>6. g.reported = {q \in DOMAIN g.promises : g.promises[q].state = "rejected" /\ ~g.promises[q].isHandled}
    BY ONLY <2>5
  <2> QED
    BY ONLY <2>6 DEF ReportInv
<1> QED
  BY <1>3, <1>4, <1>5, <1>6, <1>9, <1>10 DEF HeapInv, s

\* A job for the thenable that the promise in hand follows is its way to be settled.
LEMMA FollowInv ==
    ASSUME NEW h, NEW p, HeapInv(h, p), p # 0,
           NEW value \in (DOMAIN h.promises \cup {Thenable}) \ {p}
    PROVE  LET g == EnqueueJob(h, ThenableJob(p, value))
           IN  /\ HeapInv(g, 0)
               /\ DOMAIN g.promises = DOMAIN h.promises /\ DOMAIN g.pairs = DOMAIN h.pairs
<1> DEFINE job == ThenableJob(p, value)
           g == EnqueueJob(h, job)
<1>1. /\ h \in HeapType /\ RefInv(h) /\ QueueInv(h) /\ WayInv(h, p) /\ ReportInv(h)
      /\ p \in DOMAIN h.promises /\ IsPending(h, p)
  BY DEF HeapInv, WayInv
<1>2. /\ DOMAIN h.queue = 1 .. Len(h.queue) /\ Len(h.queue) \in Nat
      /\ DOMAIN h.promises \subseteq Nat /\ 0 \notin DOMAIN h.promises
  BY <1>1, HeapFields
<1>3. /\ job \in JobType
      /\ job.task = "thenable" /\ job.promise = p /\ job.thenable = value
  BY <1>1, <1>2 DEF ThenableJob, JobType
<1> HIDE DEF job
<1>4. /\ g \in HeapType
      /\ g.promises = h.promises /\ g.pairs = h.pairs /\ g.reported = h.reported
      /\ DOMAIN g.queue = 1 .. Len(h.queue) + 1
      /\ g.queue[Len(h.queue) + 1] = job
      /\ \A i \in DOMAIN h.queue : g.queue[i] = h.queue[i]
  BY <1>1, <1>3, EnqueueFacts
<1> HIDE DEF g
<1> DEFINE new == Len(h.queue) + 1
<1>5. /\ DOMAIN g.queue = DOMAIN h.queue \cup {new} /\ new \notin DOMAIN h.queue
      /\ \A i \in DOMAIN h.queue : i < new
  BY <1>2, <1>4
<1>6. /\ \A i \in DOMAIN h.queue : (IsThenable(g, i) <=> IsThenable(h, i))
                                    /\ (IsReaction(g, i) <=> IsReaction(h, i))
      /\ IsThenable(g, new) /\ ~IsReaction(g, new) /\ g.queue[new] = job
  BY <1>3, <1>4 DEF IsThenable, IsReaction
<1> HIDE DEF new
<1>7. /\ \A q : IsPending(g, q) <=> IsPending(h, q)
      /\ \A k : IsUsable(g, k) <=> IsUsable(h, k)
  BY <1>4 DEF IsPending, IsUsable
<1>8. /\ \A r : ValidReaction(h, r) => ValidReaction(g, r)
      /\ \A q, t : ListInv(h, q, t) => ListInv(g, q, t)
  BY <1>4, ListMonotone
<1>9. RefInv(g)
  BY <1>1, <1>3, <1>4, <1>5, <1>6, <1>7, <1>8 DEF RefInv
<1>10. QueueInv(g)
  BY <1>1, <1>4, <1>5, <1>6, <1>7, <1>8 DEF QueueInv
<1>11. WayInv(g, 0)
  <2>1. \A k \in DOMAIN g.pairs : IsUsable(g, k) =>
            IsPending(g, g.pairs[k].promise) /\ g.pairs[k].promise # 0
    BY <1>1, <1>2, <1>4, <1>7 DEF WayInv, RefInv
  <2>2. \A i \in DOMAIN g.queue : IsThenable(g, i) =>
            IsPending(g, g.queue[i].promise) /\ g.queue[i].promise # 0
    BY <1>1, <1>2, <1>3, <1>4, <1>5, <1>6, <1>7 DEF WayInv, RefInv
  <2>3. /\ \A j, k \in DOMAIN g.pairs :
            IsUsable(g, j) /\ IsUsable(g, k) /\ g.pairs[j].promise = g.pairs[k].promise => j = k
        /\ \A i, n \in DOMAIN g.queue :
            IsThenable(g, i) /\ IsThenable(g, n) /\ g.queue[i].promise = g.queue[n].promise => i = n
        /\ \A k \in DOMAIN g.pairs, i \in DOMAIN g.queue :
            IsUsable(g, k) /\ IsThenable(g, i) => g.pairs[k].promise # g.queue[i].promise
    BY <1>1, <1>3, <1>4, <1>5, <1>6, <1>7 DEF WayInv
  <2>4. ASSUME NEW q \in DOMAIN g.promises, IsPending(g, q)
        PROVE  \/ \E k \in DOMAIN g.pairs : IsUsable(g, k) /\ g.pairs[k].promise = q
               \/ \E i \in DOMAIN g.queue : IsThenable(g, i) /\ g.queue[i].promise = q
    BY <1>1, <1>3, <1>4, <1>5, <1>6, <1>7, <2>4 DEF WayInv
  <2> QED
    BY <2>1, <2>2, <2>3, <2>4 DEF WayInv
<1>12. ReportInv(g)
  BY <1>1, <1>4 DEF ReportInv
<1> QED
  BY <1>4, <1>9, <1>10, <1>11, <1>12 DEF HeapInv, g, job

\* The pair c is newer than the capability of every reaction.
Fresh(h, c) ==
    /\ c \in DOMAIN h.pairs
    /\ \A p \in DOMAIN h.promises :
        /\ \A i \in DOMAIN h.promises[p].fulfillReactions :
                h.promises[p].fulfillReactions[i].capability < c
        /\ \A i \in DOMAIN h.promises[p].rejectReactions :
                h.promises[p].rejectReactions[i].capability < c
    /\ \A i \in DOMAIN h.queue : IsReaction(h, i) => h.queue[i].reaction.capability < c

\* A new pair is the way of the promise in hand.
LEMMA CreateInv ==
    ASSUME NEW h, NEW p, HeapInv(h, p), p # 0
    PROVE  LET g == CreateResolvingFunctions(h, p)
           IN  /\ HeapInv(g, 0) /\ Fresh(g, LastPair(g))
               /\ g.promises = h.promises /\ g.queue = h.queue
               /\ LastPair(g) = LastPair(h) + 1 /\ DOMAIN g.pairs = 1 .. LastPair(h) + 1
               /\ g.pairs[LastPair(g)].promise = p /\ IsUsable(g, LastPair(g))
               /\ \A k \in DOMAIN h.pairs : g.pairs[k] = h.pairs[k]
<1> DEFINE g == CreateResolvingFunctions(h, p)
           new == LastPair(g)
<1>1. /\ h \in HeapType /\ RefInv(h) /\ QueueInv(h) /\ WayInv(h, p) /\ ReportInv(h)
      /\ p \in DOMAIN h.promises /\ IsPending(h, p)
  BY DEF HeapInv, WayInv
<1>2. /\ DOMAIN h.pairs = 1 .. LastPair(h) /\ LastPair(h) \in Nat
      /\ DOMAIN h.promises \subseteq Nat /\ 0 \notin DOMAIN h.promises
  BY <1>1, HeapFields DEF LastPair
<1>3. /\ g \in HeapType
      /\ g.promises = h.promises /\ g.queue = h.queue /\ g.reported = h.reported
      /\ new = LastPair(h) + 1 /\ DOMAIN g.pairs = 1 .. LastPair(h) + 1
      /\ g.pairs[new].promise = p /\ ~g.pairs[new].alreadyResolved
      /\ \A k \in DOMAIN h.pairs : g.pairs[k] = h.pairs[k]
  BY <1>1, <1>2, CreateFacts
<1>4. g = CreateResolvingFunctions(h, p) /\ new = LastPair(g)
  OBVIOUS
<1> HIDE DEF g, new
<1>5. /\ DOMAIN g.pairs = DOMAIN h.pairs \cup {new} /\ new \notin DOMAIN h.pairs
      /\ \A k \in DOMAIN h.pairs : k < new
  BY <1>2, <1>3
<1>6. /\ \A k \in DOMAIN h.pairs : IsUsable(g, k) <=> IsUsable(h, k)
      /\ IsUsable(g, new)
  BY <1>3 DEF IsUsable
<1>7. /\ \A q : IsPending(g, q) <=> IsPending(h, q)
      /\ \A i : (IsThenable(g, i) <=> IsThenable(h, i)) /\ (IsReaction(g, i) <=> IsReaction(h, i))
  BY <1>3 DEF IsPending, IsThenable, IsReaction
<1>8. /\ \A r : ValidReaction(h, r) => ValidReaction(g, r)
      /\ \A q, t : ListInv(h, q, t) => ListInv(g, q, t)
  BY <1>3, <1>5, ListMonotone
<1>9. RefInv(g)
  BY <1>1, <1>3, <1>5, <1>7, <1>8 DEF RefInv
<1>10. QueueInv(g)
  BY <1>1, <1>3, <1>7, <1>8 DEF QueueInv
<1>11. WayInv(g, 0)
  <2>1. \A k \in DOMAIN g.pairs : IsUsable(g, k) =>
            IsPending(g, g.pairs[k].promise) /\ g.pairs[k].promise # 0
    BY <1>1, <1>2, <1>3, <1>5, <1>6, <1>7 DEF WayInv, RefInv
  <2>2. \A i \in DOMAIN g.queue : IsThenable(g, i) =>
            IsPending(g, g.queue[i].promise) /\ g.queue[i].promise # 0
    BY <1>1, <1>2, <1>3, <1>7 DEF WayInv, RefInv
  <2>3. /\ \A j, k \in DOMAIN g.pairs :
            IsUsable(g, j) /\ IsUsable(g, k) /\ g.pairs[j].promise = g.pairs[k].promise => j = k
        /\ \A i, n \in DOMAIN g.queue :
            IsThenable(g, i) /\ IsThenable(g, n) /\ g.queue[i].promise = g.queue[n].promise => i = n
        /\ \A k \in DOMAIN g.pairs, i \in DOMAIN g.queue :
            IsUsable(g, k) /\ IsThenable(g, i) => g.pairs[k].promise # g.queue[i].promise
    BY <1>1, <1>3, <1>5, <1>6, <1>7 DEF WayInv
  <2>4. ASSUME NEW q \in DOMAIN g.promises, IsPending(g, q)
        PROVE  \/ \E k \in DOMAIN g.pairs : IsUsable(g, k) /\ g.pairs[k].promise = q
               \/ \E i \in DOMAIN g.queue : IsThenable(g, i) /\ g.queue[i].promise = q
    BY <1>1, <1>3, <1>5, <1>6, <1>7, <2>4 DEF WayInv
  <2> QED
    BY <2>1, <2>2, <2>3, <2>4 DEF WayInv
<1>12. ReportInv(g)
  BY <1>1, <1>3 DEF ReportInv
<1>13. Fresh(g, new)
  BY <1>1, <1>3, <1>5, <1>7 DEF Fresh, RefInv, QueueInv, ListInv, ValidReaction
<1> QED
  BY <1>3, <1>4, <1>6, <1>9, <1>10, <1>11, <1>12, <1>13 DEF HeapInv

\* A new promise is in the hands of the one who makes it.
LEMMA AddInv ==
    ASSUME NEW h, HeapInv(h, 0)
    PROVE  LET g == AddPromise(h)
           IN  /\ HeapInv(g, LastPromise(g)) /\ LastPromise(g) # 0
               /\ g.pairs = h.pairs /\ g.queue = h.queue
               /\ NewPromise(h) = CreateResolvingFunctions(g, LastPromise(g))
               /\ LastPromise(g) = LastPromise(h) + 1
               /\ DOMAIN g.promises = 1 .. LastPromise(h) + 1
               /\ IsPending(g, LastPromise(g))
               /\ \A p \in DOMAIN h.promises : g.promises[p] = h.promises[p]
<1> DEFINE g == AddPromise(h)
           new == LastPromise(g)
<1>1. h \in HeapType /\ RefInv(h) /\ QueueInv(h) /\ WayInv(h, 0) /\ ReportInv(h)
  BY DEF HeapInv
<1>2. /\ DOMAIN h.promises = 1 .. LastPromise(h) /\ LastPromise(h) \in Nat
  BY <1>1, HeapFields DEF LastPromise
<1>3. /\ g \in HeapType
      /\ g.pairs = h.pairs /\ g.queue = h.queue /\ g.reported = h.reported
      /\ new = LastPromise(h) + 1 /\ DOMAIN g.promises = 1 .. LastPromise(h) + 1
      /\ g.promises[new] = NewObject
      /\ \A p \in DOMAIN h.promises : g.promises[p] = h.promises[p]
      /\ NewPromise(h) = CreateResolvingFunctions(g, new)
  BY <1>1, AddFacts
<1>4. g = AddPromise(h) /\ new = LastPromise(g)
  OBVIOUS
<1> HIDE DEF g, new
<1>5. /\ DOMAIN g.promises = DOMAIN h.promises \cup {new} /\ new \notin DOMAIN h.promises
      /\ new # 0 /\ 0 \notin DOMAIN h.promises
  BY <1>2, <1>3
<1>6. /\ \A q \in DOMAIN h.promises : IsPending(g, q) <=> IsPending(h, q)
      /\ IsPending(g, new)
  BY <1>3 DEF IsPending, NewObject
<1>7. /\ \A k : IsUsable(g, k) <=> IsUsable(h, k)
      /\ \A i : (IsThenable(g, i) <=> IsThenable(h, i)) /\ (IsReaction(g, i) <=> IsReaction(h, i))
  BY <1>3 DEF IsUsable, IsThenable, IsReaction
<1>8. /\ \A r : ValidReaction(h, r) => ValidReaction(g, r)
      /\ \A q, t : ListInv(h, q, t) => ListInv(g, q, t)
  BY <1>3, <1>5, ListMonotone
<1>9. RefInv(g)
  <2>1. /\ g.promises[new].fulfillReactions = <<>> /\ g.promises[new].rejectReactions = <<>>
    BY <1>3 DEF NewObject
  <2>2. ListInv(g, new, <<>>)
    BY EmptySeq DEF ListInv
  <2>3. \A p \in DOMAIN g.promises :
            /\ ListInv(g, p, g.promises[p].fulfillReactions)
            /\ ListInv(g, p, g.promises[p].rejectReactions)
            /\ ~IsPending(g, p) => g.promises[p].fulfillReactions = <<>>
                                   /\ g.promises[p].rejectReactions = <<>>
    BY <1>1, <1>3, <1>5, <1>6, <1>8, <2>1, <2>2 DEF RefInv
  <2> QED
    BY <1>1, <1>3, <1>5, <1>7, <2>3 DEF RefInv
<1>10. QueueInv(g)
  BY <1>1, <1>3, <1>6, <1>7, <1>8 DEF QueueInv, ValidReaction
<1>11. WayInv(g, new)
  <2>1. \A k \in DOMAIN g.pairs : IsUsable(g, k) =>
            IsPending(g, g.pairs[k].promise) /\ g.pairs[k].promise # new
    BY <1>1, <1>3, <1>5, <1>6, <1>7 DEF WayInv, RefInv
  <2>2. \A i \in DOMAIN g.queue : IsThenable(g, i) =>
            IsPending(g, g.queue[i].promise) /\ g.queue[i].promise # new
    BY <1>1, <1>3, <1>5, <1>6, <1>7 DEF WayInv, RefInv
  <2>3. /\ \A j, k \in DOMAIN g.pairs :
            IsUsable(g, j) /\ IsUsable(g, k) /\ g.pairs[j].promise = g.pairs[k].promise => j = k
        /\ \A i, n \in DOMAIN g.queue :
            IsThenable(g, i) /\ IsThenable(g, n) /\ g.queue[i].promise = g.queue[n].promise => i = n
        /\ \A k \in DOMAIN g.pairs, i \in DOMAIN g.queue :
            IsUsable(g, k) /\ IsThenable(g, i) => g.pairs[k].promise # g.queue[i].promise
    BY <1>1, <1>3, <1>7 DEF WayInv
  <2>4. ASSUME NEW q \in DOMAIN g.promises, IsPending(g, q), q # new
        PROVE  \/ \E k \in DOMAIN g.pairs : IsUsable(g, k) /\ g.pairs[k].promise = q
               \/ \E i \in DOMAIN g.queue : IsThenable(g, i) /\ g.queue[i].promise = q
    BY <1>1, <1>3, <1>5, <1>6, <1>7, <2>4 DEF WayInv
  <2> QED
    BY <1>5, <1>6, <2>1, <2>2, <2>3, <2>4 DEF WayInv
<1>12. ReportInv(g)
  <2>1. g.promises[new].state # "rejected"
    BY <1>3 DEF NewObject
  <2> QED
    BY <1>1, <1>3, <1>5, <2>1 DEF ReportInv
<1> QED
  BY <1>3, <1>4, <1>5, <1>6, <1>9, <1>10, <1>11, <1>12 DEF HeapInv

\* NewPromise returns a pending promise with a pair of its own.
LEMMA NewPromiseInv ==
    ASSUME NEW h, HeapInv(h, 0)
    PROVE  LET g == NewPromise(h)
           IN  /\ HeapInv(g, 0) /\ Fresh(g, LastPair(g))
               /\ LastPromise(g) = LastPromise(h) + 1
               /\ DOMAIN g.promises = 1 .. LastPromise(h) + 1
               /\ LastPair(g) = LastPair(h) + 1 /\ DOMAIN g.pairs = 1 .. LastPair(h) + 1
               /\ IsPending(g, LastPromise(g))
               /\ g.pairs[LastPair(g)].promise = LastPromise(g) /\ IsUsable(g, LastPair(g))
               /\ \A p \in DOMAIN h.promises : g.promises[p] = h.promises[p]
               /\ \A k \in DOMAIN h.pairs : g.pairs[k] = h.pairs[k]
               /\ g.queue = h.queue
<1> DEFINE f == AddPromise(h)
           g == CreateResolvingFunctions(f, LastPromise(f))
<1>1. /\ HeapInv(f, LastPromise(f)) /\ LastPromise(f) # 0
      /\ f.pairs = h.pairs /\ f.queue = h.queue /\ NewPromise(h) = g
      /\ LastPromise(f) = LastPromise(h) + 1 /\ DOMAIN f.promises = 1 .. LastPromise(h) + 1
      /\ IsPending(f, LastPromise(f))
      /\ \A p \in DOMAIN h.promises : f.promises[p] = h.promises[p]
  BY AddInv
<1> HIDE DEF f
<1>2. /\ HeapInv(g, 0) /\ Fresh(g, LastPair(g))
      /\ g.promises = f.promises /\ g.queue = f.queue
      /\ LastPair(g) = LastPair(f) + 1 /\ DOMAIN g.pairs = 1 .. LastPair(f) + 1
      /\ g.pairs[LastPair(g)].promise = LastPromise(f) /\ IsUsable(g, LastPair(g))
      /\ \A k \in DOMAIN f.pairs : g.pairs[k] = f.pairs[k]
  BY <1>1, CreateInv
<1> HIDE DEF g
<1> QED
  BY <1>1, <1>2 DEF LastPromise, LastPair, IsPending

\* The queue without its first job, whose promise is in hand if it is a thenable's.
LEMMA PopInv ==
    ASSUME NEW h, HeapInv(h, 0), h.queue # <<>>
    PROVE  LET g == [h EXCEPT !.queue = Tail(@)]
               job == Head(h.queue)
           IN  /\ HeapInv(g, IF job.task = "thenable" THEN job.promise ELSE 0)
               /\ g.promises = h.promises /\ g.pairs = h.pairs
               /\ job = h.queue[1] /\ 1 \in DOMAIN h.queue
               /\ DOMAIN g.queue = 1 .. Len(h.queue) - 1
               /\ \A i \in DOMAIN g.queue : g.queue[i] = h.queue[i + 1]
               /\ job.task = "reaction" => ValidReaction(h, job.reaction)
               /\ job.task = "thenable" =>
                    /\ job.promise \in DOMAIN h.promises /\ job.promise # 0
                    /\ job.thenable \in (DOMAIN h.promises \cup {Thenable}) \ {job.promise}
<1> DEFINE s == Tail(h.queue)
           g == [h EXCEPT !.queue = s]
           job == Head(h.queue)
           inHand == IF job.task = "thenable" THEN job.promise ELSE 0
<1>1. h \in HeapType /\ RefInv(h) /\ QueueInv(h) /\ WayInv(h, 0) /\ ReportInv(h)
  BY DEF HeapInv
<1>2. /\ h.queue \in Seq(JobType) /\ DOMAIN h.queue = 1 .. Len(h.queue) /\ Len(h.queue) \in Nat
      /\ 0 \notin DOMAIN h.promises
  BY <1>1, HeapFields
<1>3. /\ s \in Seq(JobType) /\ Len(s) = Len(h.queue) - 1
      /\ \A i \in 1 .. Len(h.queue) - 1 : s[i] = h.queue[i + 1]
  BY <1>2, HeadTailProperties
<1>4. DOMAIN s = 1 .. Len(h.queue) - 1 /\ job = h.queue[1] /\ 1 \in DOMAIN h.queue
  BY <1>2, <1>3, EmptySeq, LenProperties
<1>5. [h EXCEPT !.queue = Tail(@)] = g
  OBVIOUS
<1> HIDE DEF s, job
<1>6. /\ g \in HeapType
      /\ g.promises = h.promises /\ g.pairs = h.pairs /\ g.reported = h.reported /\ g.queue = s
  BY <1>1, <1>3, SetQueue
<1> HIDE DEF g
<1>7. /\ \A i \in DOMAIN g.queue : i + 1 \in DOMAIN h.queue /\ g.queue[i] = h.queue[i + 1]
                                    /\ i \in Nat
                                    /\ (IsThenable(g, i) <=> IsThenable(h, i + 1))
                                    /\ (IsReaction(g, i) <=> IsReaction(h, i + 1))
      /\ \A i \in DOMAIN h.queue \ {1} : i - 1 \in DOMAIN g.queue /\ i = (i - 1) + 1
  BY <1>2, <1>3, <1>4, <1>6 DEF IsThenable, IsReaction
<1>8. /\ \A q : IsPending(g, q) <=> IsPending(h, q)
      /\ \A k : IsUsable(g, k) <=> IsUsable(h, k)
  BY <1>6 DEF IsPending, IsUsable
<1>9. /\ \A r : ValidReaction(h, r) => ValidReaction(g, r)
      /\ \A q, t : ListInv(h, q, t) => ListInv(g, q, t)
  BY <1>6, ListMonotone
<1>10. RefInv(g)
  BY <1>1, <1>6, <1>7, <1>8, <1>9 DEF RefInv
<1>11. QueueInv(g)
  <2>1. \A i \in DOMAIN g.queue : IsReaction(g, i) =>
            ValidReaction(g, g.queue[i].reaction) /\ ~IsPending(g, g.queue[i].reaction.of)
    BY <1>1, <1>7, <1>8, <1>9 DEF QueueInv
  <2>2. ASSUME NEW i \in DOMAIN g.queue, NEW n \in DOMAIN g.queue,
               IsReaction(g, i), IsReaction(g, n), i < n,
               g.queue[i].reaction.of = g.queue[n].reaction.of
        PROVE  g.queue[i].reaction.capability < g.queue[n].reaction.capability
    <3>1. i + 1 < n + 1
      BY <1>7, <2>2
    <3> QED
      BY <1>1, <1>7, <2>2, <3>1 DEF QueueInv
  <2> QED
    BY <2>1, <2>2 DEF QueueInv
<1>12. /\ job.task = "reaction" => ValidReaction(h, job.reaction)
       /\ job.task = "thenable" =>
            /\ job.promise \in DOMAIN h.promises /\ job.promise # 0 /\ IsPending(h, job.promise)
            /\ job.thenable \in (DOMAIN h.promises \cup {Thenable}) \ {job.promise}
  BY <1>1, <1>2, <1>4 DEF RefInv, QueueInv, WayInv, IsThenable, IsReaction
<1>13. WayInv(g, inHand)
  <2>1. \A i \in DOMAIN g.queue : i + 1 # 1
    BY <1>2, <1>4, <1>6
  <2>2. \A k \in DOMAIN g.pairs : IsUsable(g, k) =>
            IsPending(g, g.pairs[k].promise) /\ g.pairs[k].promise # inHand
    BY <1>1, <1>2, <1>4, <1>6, <1>8 DEF WayInv, RefInv, IsThenable
  <2>3. \A i \in DOMAIN g.queue : IsThenable(g, i) =>
            IsPending(g, g.queue[i].promise) /\ g.queue[i].promise # inHand
    <3> SUFFICES ASSUME NEW i \in DOMAIN g.queue, IsThenable(g, i)
                 PROVE  IsPending(g, g.queue[i].promise) /\ g.queue[i].promise # inHand
      OBVIOUS
    <3>1. /\ IsThenable(h, i + 1) /\ i + 1 \in DOMAIN h.queue /\ i + 1 # 1
          /\ g.queue[i] = h.queue[i + 1]
      BY <1>7, <2>1
    <3>2. IsPending(h, h.queue[i + 1].promise) /\ h.queue[i + 1].promise # 0
      BY <1>1, <3>1 DEF WayInv
    <3>3. job.task = "thenable" => h.queue[i + 1].promise # h.queue[1].promise
      BY <1>1, <1>4, <3>1 DEF WayInv, IsThenable
    <3> QED
      BY <1>4, <1>8, <3>1, <3>2, <3>3
  <2>4. /\ \A j, k \in DOMAIN g.pairs :
            IsUsable(g, j) /\ IsUsable(g, k) /\ g.pairs[j].promise = g.pairs[k].promise => j = k
        /\ \A k \in DOMAIN g.pairs, i \in DOMAIN g.queue :
            IsUsable(g, k) /\ IsThenable(g, i) => g.pairs[k].promise # g.queue[i].promise
    BY <1>1, <1>6, <1>7, <1>8 DEF WayInv
  <2>5. \A i, n \in DOMAIN g.queue :
            IsThenable(g, i) /\ IsThenable(g, n) /\ g.queue[i].promise = g.queue[n].promise => i = n
    <3> SUFFICES ASSUME NEW i \in DOMAIN g.queue, NEW n \in DOMAIN g.queue, IsThenable(g, i),
                        IsThenable(g, n), g.queue[i].promise = g.queue[n].promise
                 PROVE  i = n
      OBVIOUS
    <3>1. i + 1 = n + 1
      BY <1>1, <1>7 DEF WayInv
    <3> QED
      BY <1>7, <3>1
  <2>6. ASSUME NEW q \in DOMAIN g.promises, IsPending(g, q), q # inHand
        PROVE  \/ \E k \in DOMAIN g.pairs : IsUsable(g, k) /\ g.pairs[k].promise = q
               \/ \E i \in DOMAIN g.queue : IsThenable(g, i) /\ g.queue[i].promise = q
    <3>1. CASE \E k \in DOMAIN h.pairs : IsUsable(h, k) /\ h.pairs[k].promise = q
      BY <1>6, <1>8, <3>1
    <3>2. CASE \E i \in DOMAIN h.queue : IsThenable(h, i) /\ h.queue[i].promise = q
      <4>1. PICK i \in DOMAIN h.queue : IsThenable(h, i) /\ h.queue[i].promise = q
        BY <3>2
      <4>2. i # 1
        BY <1>4, <2>6, <4>1 DEF IsThenable
      <4> QED
        BY <1>7, <4>1, <4>2
    <3> QED
      BY <1>1, <1>2, <1>6, <1>8, <2>6, <3>1, <3>2 DEF WayInv
  <2>7. inHand # 0 => inHand \in DOMAIN g.promises /\ IsPending(g, inHand)
    BY <1>6, <1>8, <1>12
  <2> QED
    BY <2>2, <2>3, <2>4, <2>5, <2>6, <2>7 DEF WayInv
<1>14. ReportInv(g)
  BY <1>1, <1>6 DEF ReportInv
<1> QED
  BY <1>3, <1>4, <1>5, <1>6, <1>10, <1>11, <1>12, <1>13, <1>14 DEF HeapInv, job

\* Marking a promise as handled changes the host's view only if it is rejected.
LEMMA HandledInv ==
    ASSUME NEW h \in HeapType, RefInv(h), QueueInv(h), WayInv(h, 0), NEW p \in DOMAIN h.promises
    PROVE  LET g == [h EXCEPT !.promises[p].isHandled = TRUE]
           IN  /\ g \in HeapType /\ RefInv(g) /\ QueueInv(g) /\ WayInv(g, 0)
               /\ DOMAIN g.promises = DOMAIN h.promises
               /\ g.pairs = h.pairs /\ g.queue = h.queue /\ g.reported = h.reported
               /\ g.promises[p].isHandled
               /\ \A q \in DOMAIN h.promises :
                    /\ g.promises[q].state = h.promises[q].state
                    /\ g.promises[q].fulfillReactions = h.promises[q].fulfillReactions
                    /\ g.promises[q].rejectReactions = h.promises[q].rejectReactions
                    /\ q # p => g.promises[q] = h.promises[q]
<1> DEFINE o == [h.promises[p] EXCEPT !.isHandled = TRUE]
           g == [h EXCEPT !.promises[p] = o]
<1>1. h.promises[p] \in PromiseType
  BY HeapFields
<1>2. /\ o \in PromiseType /\ o.state = h.promises[p].state /\ o.isHandled
      /\ o.fulfillReactions = h.promises[p].fulfillReactions
      /\ o.rejectReactions = h.promises[p].rejectReactions
  BY <1>1 DEF PromiseType
<1>3. [h EXCEPT !.promises[p].isHandled = TRUE] = g
  OBVIOUS
<1> HIDE DEF o
<1>4. /\ g \in HeapType
      /\ g.pairs = h.pairs /\ g.queue = h.queue /\ g.reported = h.reported
      /\ DOMAIN g.promises = DOMAIN h.promises
      /\ g.promises[p] = o
      /\ \A q \in DOMAIN h.promises \ {p} : g.promises[q] = h.promises[q]
  BY <1>2, SetPromise
<1> HIDE DEF g
<1>5. \A q \in DOMAIN h.promises :
        /\ g.promises[q].state = h.promises[q].state
        /\ g.promises[q].fulfillReactions = h.promises[q].fulfillReactions
        /\ g.promises[q].rejectReactions = h.promises[q].rejectReactions
  BY <1>2, <1>4
<1>6. /\ \A q \in DOMAIN h.promises : IsPending(g, q) <=> IsPending(h, q)
      /\ \A k : IsUsable(g, k) <=> IsUsable(h, k)
      /\ \A i : (IsThenable(g, i) <=> IsThenable(h, i)) /\ (IsReaction(g, i) <=> IsReaction(h, i))
  BY <1>4, <1>5 DEF IsPending, IsUsable, IsThenable, IsReaction
<1>7. /\ \A r : ValidReaction(h, r) => ValidReaction(g, r)
      /\ \A q, t : ListInv(h, q, t) => ListInv(g, q, t)
  BY <1>4, ListMonotone
<1>8. RefInv(g)
  BY <1>4, <1>5, <1>6, <1>7 DEF RefInv
<1>9. QueueInv(g)
  BY <1>4, <1>6, <1>7 DEF QueueInv, ValidReaction
<1>10. WayInv(g, 0)
  <2>1. /\ \A k \in DOMAIN h.pairs : h.pairs[k].promise \in DOMAIN h.promises
        /\ \A i \in DOMAIN h.queue : IsThenable(h, i) => h.queue[i].promise \in DOMAIN h.promises
    BY DEF RefInv
  <2> QED
    BY <1>4, <1>6, <2>1 DEF WayInv
<1> QED
  BY <1>2, <1>3, <1>4, <1>5, <1>8, <1>9, <1>10

\* A pending promise with one more reaction in each of its lists.
Listening(h, p, f, r) == [h EXCEPT !.promises[p].fulfillReactions = Append(@, f),
                                   !.promises[p].rejectReactions = Append(@, r)]

\* g is h with the reactions f and r at the end of the lists of p.
Listened(h, p, f, r, g) ==
    /\ g \in HeapType
    /\ g.pairs = h.pairs /\ g.queue = h.queue /\ g.reported = h.reported
    /\ DOMAIN g.promises = DOMAIN h.promises
    /\ g.promises[p].state = h.promises[p].state
    /\ g.promises[p].isHandled = h.promises[p].isHandled
    /\ g.promises[p].fulfillReactions = Append(h.promises[p].fulfillReactions, f)
    /\ g.promises[p].rejectReactions = Append(h.promises[p].rejectReactions, r)
    /\ \A q \in DOMAIN h.promises \ {p} : g.promises[q] = h.promises[q]

\* The reactions of a pending promise join its two lists.
LEMMA ListenFacts ==
    ASSUME NEW h \in HeapType, NEW p \in DOMAIN h.promises,
           NEW f \in ReactionType, NEW r \in ReactionType
    PROVE  Listened(h, p, f, r, Listening(h, p, f, r))
<1> DEFINE fs == Append(h.promises[p].fulfillReactions, f)
           rs == Append(h.promises[p].rejectReactions, r)
           o == [h.promises[p] EXCEPT !.fulfillReactions = fs, !.rejectReactions = rs]
<1>1. h.promises[p] \in PromiseType
  BY HeapFields
<1>2. fs \in Seq(ReactionType) /\ rs \in Seq(ReactionType)
  BY <1>1, PromiseFields, AppendProperties
<1>3. Listening(h, p, f, r) = [h EXCEPT !.promises[p] = o]
  BY <1>1 DEF HeapType, PromiseType, Listening
<1> HIDE DEF fs, rs
<1>4. ASSUME NEW x \in PromiseType
      PROVE  LET y == [x EXCEPT !.fulfillReactions = fs, !.rejectReactions = rs]
             IN  /\ y \in PromiseType /\ y.state = x.state /\ y.isHandled = x.isHandled
                 /\ y.fulfillReactions = fs /\ y.rejectReactions = rs
  BY <1>2 DEF PromiseType
<1>5. /\ o \in PromiseType
      /\ o.state = h.promises[p].state /\ o.isHandled = h.promises[p].isHandled
      /\ o.fulfillReactions = fs /\ o.rejectReactions = rs
  BY <1>1, <1>4
<1> HIDE DEF o
<1> QED
  BY <1>3, <1>5, SetPromise DEF fs, rs, Listened

\* A reaction at the end of a list whose capabilities are older.
LEMMA AppendListInv ==
    ASSUME NEW h, NEW p, NEW s \in Seq(ReactionType), NEW r \in ReactionType,
           ListInv(h, p, s), ValidReaction(h, r), r.of = p,
           \A i \in DOMAIN s : s[i].capability < r.capability
    PROVE  ListInv(h, p, Append(s, r))
<1> DEFINE t == Append(s, r)
<1>1. /\ DOMAIN s = 1 .. Len(s) /\ Len(s) \in Nat
      /\ DOMAIN t = 1 .. Len(s) + 1 /\ t[Len(s) + 1] = r
      /\ \A i \in DOMAIN s : t[i] = s[i]
  BY AppendProperties, LenProperties
<1> HIDE DEF t
<1>2. \A i \in DOMAIN t : ValidReaction(h, t[i]) /\ t[i].of = p
  BY <1>1 DEF ListInv
<1>3. ASSUME NEW i \in DOMAIN t, NEW n \in DOMAIN t, i < n
      PROVE  t[i].capability < t[n].capability
  <2>1. i \in DOMAIN s
    BY <1>1, <1>3
  <2>2. CASE n \in DOMAIN s
    BY <1>1, <1>3, <2>1, <2>2 DEF ListInv
  <2>3. CASE n = Len(s) + 1
    BY <1>1, <2>1, <2>3
  <2> QED
    BY <1>1, <2>2, <2>3
<1> QED
  BY <1>2, <1>3 DEF ListInv, t

\* A job for a reaction to a settled promise, whose capability is newer than the others.
LEMMA ReactionJobInv ==
    ASSUME NEW h \in HeapType, RefInv(h), QueueInv(h), WayInv(h, 0),
           NEW r \in ReactionType, ValidReaction(h, r), ~IsPending(h, r.of), Fresh(h, r.capability)
    PROVE  LET g == EnqueueJob(h, ReactionJob(r))
           IN  /\ g \in HeapType /\ RefInv(g) /\ QueueInv(g) /\ WayInv(g, 0)
               /\ g.promises = h.promises /\ g.pairs = h.pairs /\ g.reported = h.reported
<1> DEFINE job == ReactionJob(r)
           g == EnqueueJob(h, job)
<1>1. DOMAIN h.queue = 1 .. Len(h.queue) /\ Len(h.queue) \in Nat
  BY HeapFields
<1>2. job \in JobType /\ job.task = "reaction" /\ job.reaction = r
  BY DEF ReactionJob, JobType
<1> HIDE DEF job
<1>3. /\ g \in HeapType
      /\ g.promises = h.promises /\ g.pairs = h.pairs /\ g.reported = h.reported
      /\ DOMAIN g.queue = 1 .. Len(h.queue) + 1
      /\ g.queue[Len(h.queue) + 1] = job
      /\ \A i \in DOMAIN h.queue : g.queue[i] = h.queue[i]
  BY <1>2, EnqueueFacts
<1> HIDE DEF g
<1> DEFINE new == Len(h.queue) + 1
<1>4. /\ DOMAIN g.queue = DOMAIN h.queue \cup {new} /\ new \notin DOMAIN h.queue
      /\ \A i \in DOMAIN h.queue : ~(new < i)
      /\ ~(new < new)
  BY <1>1, <1>3
<1>5. /\ \A i \in DOMAIN h.queue : (IsThenable(g, i) <=> IsThenable(h, i))
                                    /\ (IsReaction(g, i) <=> IsReaction(h, i))
      /\ ~IsThenable(g, new) /\ IsReaction(g, new) /\ g.queue[new].reaction = r
  BY <1>2, <1>3 DEF IsThenable, IsReaction
<1> HIDE DEF new
<1>6. /\ \A q : IsPending(g, q) <=> IsPending(h, q)
      /\ \A k : IsUsable(g, k) <=> IsUsable(h, k)
  BY <1>3 DEF IsPending, IsUsable
<1>7. /\ \A x : ValidReaction(h, x) => ValidReaction(g, x)
      /\ \A q, t : ListInv(h, q, t) => ListInv(g, q, t)
  BY <1>3, ListMonotone
<1>8. RefInv(g)
  BY <1>3, <1>4, <1>5, <1>6, <1>7 DEF RefInv
<1>9. QueueInv(g)
  <2>1. \A i \in DOMAIN g.queue : IsReaction(g, i) =>
            ValidReaction(g, g.queue[i].reaction) /\ ~IsPending(g, g.queue[i].reaction.of)
    BY <1>3, <1>4, <1>5, <1>6, <1>7 DEF QueueInv
  <2>2. ASSUME NEW i \in DOMAIN g.queue, NEW n \in DOMAIN g.queue,
               IsReaction(g, i), IsReaction(g, n), i < n,
               g.queue[i].reaction.of = g.queue[n].reaction.of
        PROVE  g.queue[i].reaction.capability < g.queue[n].reaction.capability
    <3>1. i \in DOMAIN h.queue
      BY <1>4, <2>2
    <3>2. CASE n \in DOMAIN h.queue
      BY <1>3, <1>5, <2>2, <3>1, <3>2 DEF QueueInv
    <3>3. CASE n = new
      BY <1>3, <1>5, <2>2, <3>1, <3>3 DEF Fresh
    <3> QED
      BY <1>4, <3>2, <3>3
  <2> QED
    BY <2>1, <2>2 DEF QueueInv
<1>10. WayInv(g, 0)
  <2>1. \A q \in DOMAIN h.promises : IsPending(h, q) /\ q # 0 =>
        \/ \E k \in DOMAIN g.pairs : IsUsable(g, k) /\ g.pairs[k].promise = q
        \/ \E i \in DOMAIN g.queue : IsThenable(g, i) /\ g.queue[i].promise = q
    BY <1>3, <1>4, <1>5, <1>6 DEF WayInv
  <2>2. \A i \in DOMAIN g.queue : IsThenable(g, i) => i \in DOMAIN h.queue /\ IsThenable(h, i)
                                                         /\ g.queue[i] = h.queue[i]
    BY <1>3, <1>4, <1>5
  <2> QED
    BY <1>3, <1>6, <2>1, <2>2 DEF WayInv
<1> QED
  BY <1>3, <1>8, <1>9, <1>10 DEF g, job

IsReactionOf(h, r) == r \in ReactionType /\ ValidReaction(h, r)

\* The reaction jobs of a heap stay in order in one with the same queue.
LEMMA QueueSame ==
    ASSUME NEW h, NEW g, QueueInv(h), g.queue = h.queue,
           \A q \in DOMAIN h.promises : IsPending(g, q) <=> IsPending(h, q),
           \A i : IsReaction(g, i) <=> IsReaction(h, i),
           \A r : ValidReaction(h, r) => ValidReaction(g, r)
    PROVE  QueueInv(g)
<1>1. ASSUME NEW i \in DOMAIN g.queue, IsReaction(g, i)
      PROVE  ValidReaction(g, g.queue[i].reaction) /\ ~IsPending(g, g.queue[i].reaction.of)
  <2>1. i \in DOMAIN h.queue /\ IsReaction(h, i) /\ g.queue[i] = h.queue[i]
    BY <1>1
  <2>2. ValidReaction(h, h.queue[i].reaction) /\ ~IsPending(h, h.queue[i].reaction.of)
    BY <2>1 DEF QueueInv
  <2>3. h.queue[i].reaction.of \in DOMAIN h.promises
    BY ONLY <2>2 DEF ValidReaction
  <2> QED
    BY <2>1, <2>2, <2>3
<1>2. ASSUME NEW i \in DOMAIN g.queue, NEW n \in DOMAIN g.queue,
             IsReaction(g, i), IsReaction(g, n), i < n,
             g.queue[i].reaction.of = g.queue[n].reaction.of
      PROVE  g.queue[i].reaction.capability < g.queue[n].reaction.capability
  <2>1. /\ i \in DOMAIN h.queue /\ n \in DOMAIN h.queue /\ IsReaction(h, i) /\ IsReaction(h, n) /\ i < n
        /\ h.queue[i].reaction.of = h.queue[n].reaction.of
    BY <1>2
  <2>2. h.queue[i].reaction.capability < h.queue[n].reaction.capability
    BY <2>1 DEF QueueInv
  <2> QED
    BY <2>2
<1> QED
  BY ONLY <1>1, <1>2 DEF QueueInv

\* The ways in which the pending promises of a heap can be settled are those of one with
\* the same pairs, the same queue and the same pending promises.
LEMMA WaySame ==
    ASSUME NEW h, NEW g, WayInv(h, 0),
           DOMAIN g.promises = DOMAIN h.promises, g.pairs = h.pairs, g.queue = h.queue,
           \A q \in DOMAIN h.promises : IsPending(g, q) <=> IsPending(h, q),
           \A k : IsUsable(g, k) <=> IsUsable(h, k),
           \A i : IsThenable(g, i) <=> IsThenable(h, i),
           \A k \in DOMAIN h.pairs : h.pairs[k].promise \in DOMAIN h.promises,
           \A i \in DOMAIN h.queue : IsThenable(h, i) => h.queue[i].promise \in DOMAIN h.promises
    PROVE  WayInv(g, 0)
<1>1. ASSUME NEW k \in DOMAIN g.pairs, IsUsable(g, k)
      PROVE  IsPending(g, g.pairs[k].promise) /\ g.pairs[k].promise # 0
  <2>1. k \in DOMAIN h.pairs /\ IsUsable(h, k)
    BY <1>1
  <2>2. IsPending(h, h.pairs[k].promise) /\ h.pairs[k].promise # 0
    BY <2>1 DEF WayInv
  <2> QED
    BY <2>1, <2>2
<1>2. ASSUME NEW i \in DOMAIN g.queue, IsThenable(g, i)
      PROVE  IsPending(g, g.queue[i].promise) /\ g.queue[i].promise # 0
  <2>1. i \in DOMAIN h.queue /\ IsThenable(h, i)
    BY <1>2
  <2>2. IsPending(h, h.queue[i].promise) /\ h.queue[i].promise # 0
    BY <2>1 DEF WayInv
  <2> QED
    BY <2>1, <2>2
<1>3. \A j, k \in DOMAIN g.pairs :
            IsUsable(g, j) /\ IsUsable(g, k) /\ g.pairs[j].promise = g.pairs[k].promise => j = k
  <2>1. \A j, k \in DOMAIN h.pairs :
            IsUsable(h, j) /\ IsUsable(h, k) /\ h.pairs[j].promise = h.pairs[k].promise => j = k
    BY DEF WayInv
  <2> QED
    BY <2>1
<1>4. \A i, n \in DOMAIN g.queue :
            IsThenable(g, i) /\ IsThenable(g, n) /\ g.queue[i].promise = g.queue[n].promise => i = n
  <2>1. \A i, n \in DOMAIN h.queue :
            IsThenable(h, i) /\ IsThenable(h, n) /\ h.queue[i].promise = h.queue[n].promise => i = n
    BY DEF WayInv
  <2> QED
    BY <2>1
<1>5. \A k \in DOMAIN g.pairs, i \in DOMAIN g.queue :
            IsUsable(g, k) /\ IsThenable(g, i) => g.pairs[k].promise # g.queue[i].promise
  <2>1. \A k \in DOMAIN h.pairs, i \in DOMAIN h.queue :
            IsUsable(h, k) /\ IsThenable(h, i) => h.pairs[k].promise # h.queue[i].promise
    BY DEF WayInv
  <2> QED
    BY <2>1
<1>6. ASSUME NEW p \in DOMAIN g.promises, IsPending(g, p), p # 0
      PROVE  \/ \E k \in DOMAIN g.pairs : IsUsable(g, k) /\ g.pairs[k].promise = p
             \/ \E i \in DOMAIN g.queue : IsThenable(g, i) /\ g.queue[i].promise = p
  <2>1. p \in DOMAIN h.promises /\ IsPending(h, p)
    BY <1>6
  <2>2. \/ \E k \in DOMAIN h.pairs : IsUsable(h, k) /\ h.pairs[k].promise = p
        \/ \E i \in DOMAIN h.queue : IsThenable(h, i) /\ h.queue[i].promise = p
    BY <1>6, <2>1 DEF WayInv
  <2> QED
    BY <2>2
<1> QED
  BY ONLY <1>1, <1>2, <1>3, <1>4, <1>5, <1>6 DEF WayInv

\* PerformPromiseThen with the newest capability: the reactions join the lists of a pending
\* promise, and the one that applies becomes a job if the promise is settled.
LEMMA PerformThenInv ==
    ASSUME NEW h, HeapInv(h, 0), NEW p \in DOMAIN h.promises,
           NEW onFulfilled, NEW onRejected, NEW c, Fresh(h, c),
           IsReactionOf(h, PromiseReaction(p, onFulfilled, c)),
           IsReactionOf(h, PromiseReaction(p, onRejected, c))
    PROVE  LET g == PerformPromiseThen(h, p, onFulfilled, onRejected, c)
           IN  /\ HeapInv(g, 0)
               /\ DOMAIN g.promises = DOMAIN h.promises /\ g.pairs = h.pairs
<1> DEFINE f == [h EXCEPT !.promises[p].isHandled = TRUE]
           fr == PromiseReaction(p, onFulfilled, c)
           rr == PromiseReaction(p, onRejected, c)
           g == PerformPromiseThen(h, p, onFulfilled, onRejected, c)
<1>1. h \in HeapType /\ RefInv(h) /\ QueueInv(h) /\ WayInv(h, 0) /\ ReportInv(h)
  BY DEF HeapInv
<1>2. /\ f \in HeapType /\ RefInv(f) /\ QueueInv(f) /\ WayInv(f, 0)
      /\ DOMAIN f.promises = DOMAIN h.promises
      /\ f.pairs = h.pairs /\ f.queue = h.queue /\ f.reported = h.reported
      /\ f.promises[p].isHandled
      /\ \A q \in DOMAIN h.promises :
           /\ f.promises[q].state = h.promises[q].state
           /\ f.promises[q].fulfillReactions = h.promises[q].fulfillReactions
           /\ f.promises[q].rejectReactions = h.promises[q].rejectReactions
           /\ q # p => f.promises[q] = h.promises[q]
  BY <1>1, HandledInv
<1>3. /\ fr \in ReactionType /\ ValidReaction(h, fr) /\ rr \in ReactionType /\ ValidReaction(h, rr)
      /\ fr.of = p /\ fr.capability = c /\ rr.of = p /\ rr.capability = c
  BY DEF PromiseReaction, IsReactionOf
<1>4. h.promises[p].state \in {"pending", "fulfilled", "rejected"}
  BY <1>1, HeapFields DEF PromiseType
<1>5. g = CASE h.promises[p].state = "pending" -> Listening(f, p, fr, rr)
            [] h.promises[p].state = "fulfilled" -> EnqueueJob(f, ReactionJob(fr))
            [] h.promises[p].state = "rejected" ->
                 EnqueueJob([f EXCEPT !.reported = @ \ {p}], ReactionJob(rr))
  BY DEF PerformPromiseThen, Listening
<1> HIDE DEF f, fr, rr, g
<1>6. ValidReaction(f, fr) /\ ValidReaction(f, rr) /\ Fresh(f, c)
  BY <1>2, <1>3 DEF ValidReaction, ValidHandler, Fresh, IsReaction
<1>7. CASE h.promises[p].state = "pending"
  <2>1. g = Listening(f, p, fr, rr)
    BY <1>5, <1>7
  <2>2. /\ g \in HeapType
        /\ g.pairs = f.pairs /\ g.queue = f.queue /\ g.reported = f.reported
        /\ DOMAIN g.promises = DOMAIN f.promises
        /\ g.promises[p].state = f.promises[p].state
        /\ g.promises[p].isHandled = f.promises[p].isHandled
        /\ g.promises[p].fulfillReactions = Append(f.promises[p].fulfillReactions, fr)
        /\ g.promises[p].rejectReactions = Append(f.promises[p].rejectReactions, rr)
        /\ \A q \in DOMAIN f.promises \ {p} : g.promises[q] = f.promises[q]
    <3>1. p \in DOMAIN f.promises /\ f \in HeapType /\ fr \in ReactionType /\ rr \in ReactionType
      BY <1>2, <1>3
    <3> QED
      <4>1. Listened(f, p, fr, rr, Listening(f, p, fr, rr))
        BY ONLY <3>1, ListenFacts
      <4> QED
        BY ONLY <2>1, <4>1 DEF Listened
  <2>3. \A q \in DOMAIN f.promises : IsPending(g, q) <=> IsPending(f, q)
    BY <2>2 DEF IsPending
  <2>4. /\ \A k : IsUsable(g, k) <=> IsUsable(f, k)
        /\ \A i : (IsThenable(g, i) <=> IsThenable(f, i)) /\ (IsReaction(g, i) <=> IsReaction(f, i))
    BY <2>2 DEF IsUsable, IsThenable, IsReaction
  <2>5. /\ \A r : ValidReaction(f, r) => ValidReaction(g, r)
        /\ \A q, t : ListInv(f, q, t) => ListInv(g, q, t)
    BY <2>2, ListMonotone
  <2>6. RefInv(g)
    <3>1. /\ f.promises[p].fulfillReactions \in Seq(ReactionType)
          /\ f.promises[p].rejectReactions \in Seq(ReactionType)
      BY <1>2, HeapFields, PromiseFields
    <3>2. /\ ListInv(f, p, f.promises[p].fulfillReactions)
          /\ ListInv(f, p, f.promises[p].rejectReactions)
      BY <1>2 DEF RefInv
    <3>3. /\ \A i \in DOMAIN f.promises[p].fulfillReactions :
                    f.promises[p].fulfillReactions[i].capability < fr.capability
          /\ \A i \in DOMAIN f.promises[p].rejectReactions :
                    f.promises[p].rejectReactions[i].capability < rr.capability
      BY <1>2, <1>3, <1>6 DEF Fresh
    <3>4. /\ ListInv(f, p, g.promises[p].fulfillReactions)
          /\ ListInv(f, p, g.promises[p].rejectReactions)
      BY <1>3, <1>6, <2>2, <3>1, <3>2, <3>3, AppendListInv
    <3>5. IsPending(g, p)
      BY <1>2, <1>7, <2>2 DEF IsPending
    <3>6. \A q \in DOMAIN g.promises :
            /\ ListInv(g, q, g.promises[q].fulfillReactions)
            /\ ListInv(g, q, g.promises[q].rejectReactions)
            /\ ~IsPending(g, q) => g.promises[q].fulfillReactions = <<>>
                                   /\ g.promises[q].rejectReactions = <<>>
      <4> TAKE q \in DOMAIN g.promises
      <4>1. CASE q = p
        <5>1. /\ ListInv(g, p, g.promises[p].fulfillReactions)
              /\ ListInv(g, p, g.promises[p].rejectReactions)
          BY ONLY <2>5, <3>4
        <5> QED BY ONLY <3>5, <4>1, <5>1
      <4>2. CASE q # p
        <5>1. q \in DOMAIN f.promises /\ g.promises[q] = f.promises[q]
          BY <2>2, <4>2
        <5>2. /\ ListInv(f, q, f.promises[q].fulfillReactions)
              /\ ListInv(f, q, f.promises[q].rejectReactions)
              /\ ~IsPending(f, q) => f.promises[q].fulfillReactions = <<>>
                                     /\ f.promises[q].rejectReactions = <<>>
          BY <1>2, <5>1 DEF RefInv
        <5>3. ListInv(g, q, f.promises[q].fulfillReactions)
          BY ONLY <2>5, <5>2
        <5>4. ListInv(g, q, f.promises[q].rejectReactions)
          BY ONLY <2>5, <5>2
        <5> QED BY ONLY <2>3, <5>1, <5>2, <5>3, <5>4
      <4> QED BY <4>1, <4>2
    <3> QED
      BY <1>2, <2>2, <2>4, <3>6 DEF RefInv
  <2>7. QueueInv(g)
    <3>1. g.queue = f.queue
      BY ONLY <2>2
    <3> QED
      BY ONLY <1>2, <2>3, <2>4, <2>5, <3>1, QueueSame
  <2>8. WayInv(g, 0)
    <3>1. /\ \A k \in DOMAIN f.pairs : f.pairs[k].promise \in DOMAIN f.promises
          /\ \A i \in DOMAIN f.queue : IsThenable(f, i) => f.queue[i].promise \in DOMAIN f.promises
      BY <1>2 DEF RefInv
    <3> QED
      <4>1. DOMAIN g.promises = DOMAIN f.promises /\ g.pairs = f.pairs /\ g.queue = f.queue
        BY ONLY <2>2
      <4>2. WayInv(f, 0)
        BY ONLY <1>2
      <4> QED
        BY ONLY <2>3, <2>4, <3>1, <4>1, <4>2, WaySame
  <2>9. ReportInv(g)
    <3>1. \A q \in DOMAIN h.promises : (g.promises[q].state = "rejected" /\ ~g.promises[q].isHandled)
                                          <=> (h.promises[q].state = "rejected" /\ ~h.promises[q].isHandled)
      <4> TAKE q \in DOMAIN h.promises
      <4>1. CASE q = p
        <5>1. g.promises[p].state = "pending" /\ h.promises[p].state = "pending"
          BY ONLY <1>2, <1>7, <2>2, q \in DOMAIN h.promises, <4>1
        <5> QED
          BY ONLY <4>1, <5>1
      <4>2. CASE q # p
        <5>1. g.promises[q] = h.promises[q]
          BY ONLY <1>2, <2>2, q \in DOMAIN h.promises, <4>2
        <5> QED
          BY ONLY <5>1
      <4> QED
        BY ONLY <4>1, <4>2
    <3>2. g.reported = h.reported /\ DOMAIN g.promises = DOMAIN h.promises
      BY ONLY <1>2, <2>2
    <3>3. ReportInv(h)
      BY ONLY <1>1
    <3> QED
      BY ONLY <3>1, <3>2, <3>3 DEF ReportInv
  <2> QED
    BY <1>2, <2>2, <2>6, <2>7, <2>8, <2>9 DEF HeapInv, g
<1>8. CASE h.promises[p].state = "fulfilled"
  <2>1. g = EnqueueJob(f, ReactionJob(fr))
    BY <1>5, <1>8
  <2>2. ~IsPending(f, fr.of)
    BY <1>2, <1>3, <1>8 DEF IsPending
  <2>3. /\ g \in HeapType /\ RefInv(g) /\ QueueInv(g) /\ WayInv(g, 0)
        /\ g.promises = f.promises /\ g.pairs = f.pairs /\ g.reported = f.reported
    BY <1>2, <1>3, <1>6, <2>1, <2>2, ReactionJobInv
  <2>4. ReportInv(g)
    BY <1>1, <1>2, <1>8, <2>3 DEF ReportInv
  <2> QED
    BY <1>2, <2>3, <2>4 DEF HeapInv, g
<1>9. CASE h.promises[p].state = "rejected"
  <2> DEFINE e == [f EXCEPT !.reported = f.reported \ {p}]
  <2>1. g = EnqueueJob(e, ReactionJob(rr))
    BY <1>5, <1>9
  <2>2. f.reported \ {p} \in SUBSET Nat
    BY <1>2, HeapFields
  <2>3. /\ e \in HeapType
        /\ e.promises = f.promises /\ e.pairs = f.pairs /\ e.queue = f.queue
        /\ e.reported = f.reported \ {p}
    BY <1>2, <2>2, SetReported
  <2> HIDE DEF e
  <2>4. /\ \A q : IsPending(e, q) <=> IsPending(f, q)
        /\ \A k : IsUsable(e, k) <=> IsUsable(f, k)
        /\ \A i : (IsThenable(e, i) <=> IsThenable(f, i)) /\ (IsReaction(e, i) <=> IsReaction(f, i))
        /\ \A r : ValidReaction(f, r) => ValidReaction(e, r)
        /\ \A q, t : ListInv(f, q, t) => ListInv(e, q, t)
    BY <2>3, ListMonotone DEF IsPending, IsUsable, IsThenable, IsReaction
  <2>5. RefInv(e) /\ QueueInv(e) /\ WayInv(e, 0)
    <3>1. RefInv(f) /\ QueueInv(f) /\ WayInv(f, 0)
      BY ONLY <1>2
    <3>2. RefInv(e)
      BY ONLY <2>3, <2>4, <3>1 DEF RefInv
    <3>3. e.queue = f.queue /\ e.pairs = f.pairs /\ DOMAIN e.promises = DOMAIN f.promises
      BY ONLY <2>3
    <3>4. QueueInv(e)
      <4>1. \A q \in DOMAIN f.promises : IsPending(e, q) <=> IsPending(f, q)
        BY ONLY <2>4
      <4> QED
        BY ONLY <2>4, <3>1, <3>3, <4>1, QueueSame
    <3>5. WayInv(e, 0)
      <4>1. /\ \A q \in DOMAIN f.promises : IsPending(e, q) <=> IsPending(f, q)
            /\ \A k : IsUsable(e, k) <=> IsUsable(f, k)
            /\ \A i : IsThenable(e, i) <=> IsThenable(f, i)
        BY ONLY <2>4
      <4>2. /\ \A k \in DOMAIN f.pairs : f.pairs[k].promise \in DOMAIN f.promises
            /\ \A i \in DOMAIN f.queue : IsThenable(f, i) => f.queue[i].promise \in DOMAIN f.promises
        BY ONLY <3>1 DEF RefInv
      <4> QED
        BY ONLY <3>1, <3>3, <4>1, <4>2, WaySame
    <3> QED
      BY ONLY <3>2, <3>4, <3>5
  <2>6. ~IsPending(e, rr.of) /\ Fresh(e, rr.capability) /\ ValidReaction(e, rr)
    BY <1>2, <1>3, <1>6, <1>9, <2>3, <2>4 DEF IsPending, Fresh
  <2>7. /\ g \in HeapType /\ RefInv(g) /\ QueueInv(g) /\ WayInv(g, 0)
        /\ g.promises = e.promises /\ g.pairs = e.pairs /\ g.reported = e.reported
    BY <1>3, <2>1, <2>3, <2>5, <2>6, ReactionJobInv
  <2>8. ReportInv(g)
    BY <1>1, <1>2, <1>9, <2>3, <2>7 DEF ReportInv
  <2> QED
    BY <1>2, <2>3, <2>7, <2>8 DEF HeapInv, g
<1> QED
  BY <1>4, <1>7, <1>8, <1>9

\* Handlers that exist make reactions that exist.
LEMMA ReactionsAreValid ==
    ASSUME NEW h \in HeapType, NEW p \in DOMAIN h.promises, NEW c \in DOMAIN h.pairs,
           NEW handler, ValidHandler(h, handler)
    PROVE  IsReactionOf(h, PromiseReaction(p, handler, c))
<1>1. handler \in [name : HandlerNames, pair : Nat]
  BY HeapFields DEF ValidHandler, User, Identity, Thrower, ResolveOf, RejectOf, HandlerNames
<1>2. PromiseReaction(p, handler, c) \in ReactionType
  BY <1>1, HeapFields DEF PromiseReaction, ReactionType
<1>3. LET r == PromiseReaction(p, handler, c) IN r.of = p /\ r.handler = handler /\ r.capability = c
  BY DEF PromiseReaction
<1> QED
  BY <1>2, <1>3 DEF ValidReaction, IsReactionOf

\* Nothing that exists goes away.
Grows(h, g) == DOMAIN h.promises \subseteq DOMAIN g.promises /\ DOMAIN h.pairs \subseteq DOMAIN g.pairs

\* A resolving function called with a value that exists.
LEMMA ResolveInv ==
    ASSUME NEW h, HeapInv(h, 0), NEW k \in DOMAIN h.pairs,
           NEW value \in DOMAIN h.promises \cup {Plain, Thenable}
    PROVE  LET g == Resolve(h, k, value)
           IN  /\ HeapInv(g, 0)
               /\ DOMAIN g.promises = DOMAIN h.promises /\ DOMAIN g.pairs = DOMAIN h.pairs
<1> DEFINE p == h.pairs[k].promise
           f == Used(h, k)
<1>1. CASE ~IsUsable(h, k)
  BY <1>1 DEF Resolve, IsUsable
<1>2. CASE IsUsable(h, k)
  <2>1. /\ HeapInv(f, p)
        /\ DOMAIN f.promises = DOMAIN h.promises /\ DOMAIN f.pairs = DOMAIN h.pairs
        /\ p \in DOMAIN h.promises /\ p # 0
    BY <1>2, UsedInv
  <2>2. Resolve(h, k, value) = IF value = p THEN RejectPromise(f, p)
                               ELSE IF value = Plain THEN FulfillPromise(f, p)
                               ELSE EnqueueJob(f, ThenableJob(p, value))
    BY <1>2 DEF Resolve, IsUsable
  <2> HIDE DEF f, p
  <2>3. CASE value = p
    BY <2>1, <2>2, <2>3, RejectInv
  <2>4. CASE value # p /\ value = Plain
    BY <2>1, <2>2, <2>4, FulfillInv
  <2>5. CASE value # p /\ value # Plain
    <3>1. value \in (DOMAIN f.promises \cup {Thenable}) \ {p}
      BY <2>1, <2>5
    <3> QED
      BY <2>1, <2>2, <2>5, <3>1, FollowInv
  <2> QED
    BY <2>3, <2>4, <2>5
<1> QED
  BY <1>1, <1>2

\* A rejecting function is called.
LEMMA RejectCallInv ==
    ASSUME NEW h, HeapInv(h, 0), NEW k \in DOMAIN h.pairs
    PROVE  LET g == Reject(h, k)
           IN  /\ HeapInv(g, 0)
               /\ DOMAIN g.promises = DOMAIN h.promises /\ DOMAIN g.pairs = DOMAIN h.pairs
<1>1. CASE ~IsUsable(h, k)
  BY <1>1 DEF Reject, IsUsable
<1>2. CASE IsUsable(h, k)
  <2>1. Reject(h, k) = RejectPromise(Used(h, k), h.pairs[k].promise)
    BY <1>2 DEF Reject, IsUsable
  <2> QED
    BY <1>2, <2>1, UsedInv, RejectInv
<1> QED
  BY <1>1, <1>2

\* Then: the derived promise has a pair of its own, the capability of the reactions.
LEMMA ThenInv ==
    ASSUME NEW h, HeapInv(h, 0), NEW p \in DOMAIN h.promises,
           NEW onFulfilled, NEW onRejected,
           ValidHandler(h, onFulfilled), ValidHandler(h, onRejected)
    PROVE  LET g == Then(h, p, onFulfilled, onRejected)
           IN  /\ HeapInv(g, 0) /\ Grows(h, g) /\ LastPromise(g) \in DOMAIN g.promises
<1> DEFINE f == NewPromise(h)
           g == PerformPromiseThen(f, p, onFulfilled, onRejected, LastPair(f))
<1>1. /\ HeapInv(f, 0) /\ Fresh(f, LastPair(f))
      /\ LastPromise(f) = LastPromise(h) + 1 /\ DOMAIN f.promises = 1 .. LastPromise(h) + 1
      /\ LastPair(f) = LastPair(h) + 1 /\ DOMAIN f.pairs = 1 .. LastPair(h) + 1
  BY NewPromiseInv
<1>2. /\ DOMAIN h.promises = 1 .. LastPromise(h) /\ LastPromise(h) \in Nat
      /\ DOMAIN h.pairs = 1 .. LastPair(h) /\ LastPair(h) \in Nat
  BY HeapFields DEF HeapInv, LastPromise, LastPair
<1>3. Then(h, p, onFulfilled, onRejected) = g
  BY DEF Then
<1> HIDE DEF f
<1>4. Grows(h, f) /\ p \in DOMAIN f.promises /\ LastPair(f) \in DOMAIN f.pairs
  BY <1>1, <1>2 DEF Grows
<1>5. ValidHandler(f, onFulfilled) /\ ValidHandler(f, onRejected)
  BY <1>4 DEF ValidHandler, Grows
<1>6. /\ IsReactionOf(f, PromiseReaction(p, onFulfilled, LastPair(f)))
      /\ IsReactionOf(f, PromiseReaction(p, onRejected, LastPair(f)))
  BY <1>1, <1>4, <1>5, ReactionsAreValid DEF HeapInv
<1>7. HeapInv(g, 0) /\ DOMAIN g.promises = DOMAIN f.promises /\ g.pairs = f.pairs
  <2>1. HeapInv(f, 0) /\ p \in DOMAIN f.promises /\ Fresh(f, LastPair(f))
    BY <1>1, <1>4
  <2> QED
    BY ONLY <2>1, <1>6, PerformThenInv
<1> HIDE DEF g
<1>8. LastPromise(g) \in DOMAIN g.promises
  <2>1. DOMAIN g.promises = 1 .. Len(g.promises) /\ DOMAIN g.promises # {} /\ Len(g.promises) \in Nat
    BY <1>4, <1>7, HeapFields DEF HeapInv
  <2> QED
    BY <2>1 DEF LastPromise
<1> QED
  BY <1>3, <1>4, <1>7, <1>8 DEF Grows

\* AsyncFunctionAwait.
LEMMA AwaitInv ==
    ASSUME NEW h, HeapInv(h, 0), NEW value \in DOMAIN h.promises \cup {Plain}
    PROVE  LET g == AsyncFunctionAwait(h, value) IN HeapInv(g, 0) /\ Grows(h, g)
<1> DEFINE pcap == NewPromise(h)
           p == LastPromise(pcap)
           resolved == Resolve(pcap, LastPair(pcap), value)
           tcap == NewPromise(resolved)
           handled == [tcap EXCEPT !.promises[LastPromise(tcap)].isHandled = TRUE]
           g == PerformPromiseThen(handled, p, User, User, LastPair(tcap))
<1>1. /\ HeapInv(pcap, 0)
      /\ LastPromise(pcap) = LastPromise(h) + 1 /\ DOMAIN pcap.promises = 1 .. LastPromise(h) + 1
      /\ LastPair(pcap) = LastPair(h) + 1 /\ DOMAIN pcap.pairs = 1 .. LastPair(h) + 1
  BY NewPromiseInv
<1>2. /\ DOMAIN h.promises = 1 .. LastPromise(h) /\ LastPromise(h) \in Nat
      /\ DOMAIN h.pairs = 1 .. LastPair(h) /\ LastPair(h) \in Nat
  BY HeapFields DEF HeapInv, LastPromise, LastPair
<1>3. AsyncFunctionAwait(h, value) = g
  BY DEF AsyncFunctionAwait
<1> HIDE DEF pcap
<1>4. /\ Grows(h, pcap) /\ p \in DOMAIN pcap.promises /\ LastPair(pcap) \in DOMAIN pcap.pairs
      /\ value \in DOMAIN pcap.promises \cup {Plain, Thenable}
  BY <1>1, <1>2 DEF Grows
<1>5. /\ HeapInv(resolved, 0)
      /\ DOMAIN resolved.promises = DOMAIN pcap.promises /\ DOMAIN resolved.pairs = DOMAIN pcap.pairs
  BY <1>1, <1>4, ResolveInv
<1> HIDE DEF resolved
<1>6. /\ HeapInv(tcap, 0) /\ Fresh(tcap, LastPair(tcap))
      /\ LastPromise(tcap) = LastPromise(resolved) + 1
      /\ DOMAIN tcap.promises = 1 .. LastPromise(resolved) + 1
      /\ LastPair(tcap) = LastPair(resolved) + 1 /\ DOMAIN tcap.pairs = 1 .. LastPair(resolved) + 1
      /\ IsPending(tcap, LastPromise(tcap))
  BY <1>5, NewPromiseInv
<1>7. /\ DOMAIN resolved.promises = 1 .. LastPromise(resolved) /\ LastPromise(resolved) \in Nat
      /\ DOMAIN resolved.pairs = 1 .. LastPair(resolved) /\ LastPair(resolved) \in Nat
  BY <1>5, HeapFields DEF HeapInv, LastPromise, LastPair
<1> HIDE DEF tcap
<1>8. /\ Grows(resolved, tcap) /\ LastPromise(tcap) \in DOMAIN tcap.promises
      /\ LastPair(tcap) \in DOMAIN tcap.pairs
  BY <1>6, <1>7 DEF Grows
<1>9. /\ handled \in HeapType /\ RefInv(handled) /\ QueueInv(handled) /\ WayInv(handled, 0)
      /\ DOMAIN handled.promises = DOMAIN tcap.promises
      /\ handled.pairs = tcap.pairs /\ handled.queue = tcap.queue /\ handled.reported = tcap.reported
      /\ handled.promises[LastPromise(tcap)].isHandled
      /\ \A q \in DOMAIN tcap.promises :
           /\ handled.promises[q].state = tcap.promises[q].state
           /\ handled.promises[q].fulfillReactions = tcap.promises[q].fulfillReactions
           /\ handled.promises[q].rejectReactions = tcap.promises[q].rejectReactions
           /\ q # LastPromise(tcap) => handled.promises[q] = tcap.promises[q]
  BY <1>6, <1>8, HandledInv, ZenonT(40) DEF HeapInv
<1> HIDE DEF handled
<1>10. HeapInv(handled, 0)
  <2>1. ReportInv(handled)
    BY <1>6, <1>8, <1>9 DEF HeapInv, ReportInv, IsPending
  <2> QED
    BY <1>9, <2>1 DEF HeapInv
<1>11. Fresh(handled, LastPair(tcap))
  BY <1>6, <1>9 DEF Fresh, IsReaction
<1>12. p \in DOMAIN handled.promises /\ LastPair(tcap) \in DOMAIN handled.pairs
  BY <1>4, <1>5, <1>8, <1>9 DEF Grows
<1>13. IsReactionOf(handled, PromiseReaction(p, User, LastPair(tcap)))
  BY <1>9, <1>12, ReactionsAreValid DEF ValidHandler
<1> HIDE DEF p
<1>14. HeapInv(g, 0) /\ DOMAIN g.promises = DOMAIN handled.promises /\ g.pairs = handled.pairs
  BY <1>10, <1>11, <1>12, <1>13, PerformThenInv
<1> QED
  BY <1>3, <1>4, <1>5, <1>8, <1>9, <1>14 DEF Grows

-----------------------------------------------------------------------------
(* The program's calls and the jobs *)

BodyType == [task : {"reaction", "thenable"}, pair : Nat]

\* What the program and its handlers hold exists.
ProgramInv ==
    /\ bodies \in Seq(BodyType)
    /\ \A i \in DOMAIN bodies : bodies[i].pair \in DOMAIN heap.pairs
    /\ held \subseteq DOMAIN heap.pairs /\ known \subseteq DOMAIN heap.promises
    /\ calls \in 0 .. MaxCalls

Inv == HeapInv(heap, 0) /\ ProgramInv

\* Nothing has happened yet.
LEMMA InitInv == Init => Inv
<1> SUFFICES ASSUME Init
             PROVE  Inv
    OBVIOUS
<1>1. /\ heap.promises = <<>> /\ heap.pairs = <<>> /\ heap.queue = <<>> /\ heap.reported = {}
      /\ heap = [promises |-> <<>>, pairs |-> <<>>, queue |-> <<>>, reported |-> {}]
  BY DEF Init
<1>2. heap \in HeapType
  BY <1>1, EmptySeq DEF HeapType
<1>3. DOMAIN heap.promises = {} /\ DOMAIN heap.pairs = {} /\ DOMAIN heap.queue = {}
  BY <1>1
<1>4. HeapInv(heap, 0)
  BY <1>1, <1>2, <1>3 DEF HeapInv, RefInv, QueueInv, WayInv, ReportInv
<1>5. ProgramInv
  BY <1>3, EmptySeq, MaxCallsAssumption DEF Init, ProgramInv
<1> QED
  BY <1>4, <1>5 DEF Inv

\* What the program holds is still there in a heap that has grown.
LEMMA ProgramMonotone ==
    ASSUME ProgramInv, Grows(heap, heap')
    PROVE  /\ \A i \in DOMAIN bodies : bodies[i].pair \in DOMAIN heap'.pairs
           /\ held \subseteq DOMAIN heap'.pairs /\ known \subseteq DOMAIN heap'.promises
BY DEF ProgramInv, Grows

\* The innermost handler and the ones around it.
LEMMA BodiesFacts ==
    ASSUME ProgramInv
    PROVE  /\ bodies # <<>> => Last(bodies) \in BodyType /\ Last(bodies).pair \in DOMAIN heap.pairs
           /\ bodies # <<>> => /\ Front(bodies) \in Seq(BodyType)
                               /\ DOMAIN Front(bodies) \subseteq DOMAIN bodies
                               /\ \A i \in DOMAIN Front(bodies) : Front(bodies)[i] = bodies[i]
           /\ \A body \in BodyType :
                LET b == Append(bodies, body)
                IN  /\ b \in Seq(BodyType)
                    /\ \A i \in DOMAIN b : b[i] = body \/ (i \in DOMAIN bodies /\ b[i] = bodies[i])
<1>1. bodies \in Seq(BodyType) /\ Len(bodies) \in Nat /\ DOMAIN bodies = 1 .. Len(bodies)
  BY LenProperties DEF ProgramInv
<1>2. ASSUME bodies # <<>>
      PROVE  Last(bodies) \in BodyType /\ Last(bodies).pair \in DOMAIN heap.pairs
  <2>1. Len(bodies) \in DOMAIN bodies
    BY <1>1, <1>2, EmptySeq
  <2> QED
    BY <1>1, <2>1, ElementOfSeq DEF Last, ProgramInv
<1>3. ASSUME bodies # <<>>
      PROVE  /\ Front(bodies) \in Seq(BodyType) /\ DOMAIN Front(bodies) \subseteq DOMAIN bodies
             /\ \A i \in DOMAIN Front(bodies) : Front(bodies)[i] = bodies[i]
  <2>1. Front(bodies) = SubSeq(bodies, 1, Len(bodies) - 1)
    BY DEF Front
  <2>2. /\ SubSeq(bodies, 1, Len(bodies) - 1) \in Seq(BodyType)
        /\ DOMAIN SubSeq(bodies, 1, Len(bodies) - 1) = 1 .. Len(bodies) - 1
        /\ \A i \in 1 .. Len(bodies) - 1 : SubSeq(bodies, 1, Len(bodies) - 1)[i] = bodies[i]
    BY <1>1, <1>3, EmptySeq
  <2> QED
    BY <1>1, <2>1, <2>2
<1>4. ASSUME NEW body \in BodyType
      PROVE  LET b == Append(bodies, body)
             IN  /\ b \in Seq(BodyType)
                 /\ \A i \in DOMAIN b : b[i] = body \/ (i \in DOMAIN bodies /\ b[i] = bodies[i])
  <2> DEFINE b == Append(bodies, body)
  <2>1. /\ b \in Seq(BodyType) /\ DOMAIN b = 1 .. Len(bodies) + 1
        /\ b[Len(bodies) + 1] = body /\ \A i \in DOMAIN bodies : b[i] = bodies[i]
    BY <1>1, AppendProperties, LenProperties
  <2> HIDE DEF b
  <2>2. \A i \in DOMAIN b : i \in DOMAIN bodies \/ i = Len(bodies) + 1
    BY <1>1, <2>1
  <2> QED
    BY <2>1, <2>2 DEF b
<1> QED
  BY <1>2, <1>3, <1>4

\* The queue's first job, popped.
LEMMA JobFacts ==
    ASSUME Inv, heap.queue # <<>>
    PROVE  /\ HeapInv(Popped, IF Job.task = "thenable" THEN Job.promise ELSE 0)
           /\ Popped.promises = heap.promises /\ Popped.pairs = heap.pairs
           /\ Job.task \in {"reaction", "thenable"}
           /\ Job.task = "reaction" => ValidReaction(heap, Job.reaction)
           /\ Job.task = "thenable" =>
                /\ Job.promise \in DOMAIN heap.promises /\ Job.promise # 0
                /\ Job.thenable \in (DOMAIN heap.promises \cup {Thenable}) \ {Job.promise}
<1>1. heap \in HeapType /\ HeapInv(heap, 0)
  BY DEF Inv, HeapInv
<1>2. Job \in JobType
  BY <1>1, HeapFields, PopInv DEF Job
<1>3. Job.task \in {"reaction", "thenable"}
  BY <1>2 DEF JobType
<1> QED
  BY <1>1, <1>3, PopInv DEF Job, Popped

\* A built-in handler settles through the pairs of its reaction.
LEMMA PromiseReactionJobInv ==
    ASSUME Inv, PromiseReactionJob
    PROVE  HeapInv(heap', 0) /\ Grows(heap, heap')
<1> DEFINE handler == Job.reaction.handler
           capability == Job.reaction.capability
<1>1. /\ heap.queue # <<>> /\ Job.task = "reaction" /\ handler # User
      /\ heap' = CASE handler = Thrower -> Reject(Popped, capability)
                   [] handler = Identity -> Resolve(Popped, capability, Plain)
                   [] handler.name = "resolve" ->
                        Resolve(Resolve(Popped, handler.pair, Plain), capability, Plain)
                   [] handler.name = "reject" ->
                        Resolve(Reject(Popped, handler.pair), capability, Plain)
  BY DEF PromiseReactionJob, CanRun
<1>2. /\ HeapInv(Popped, 0) /\ Popped.promises = heap.promises /\ Popped.pairs = heap.pairs
      /\ capability \in DOMAIN Popped.pairs /\ ValidHandler(heap, handler)
  BY <1>1, JobFacts DEF ValidReaction
<1> HIDE DEF handler, capability
<1>3. CASE handler = Thrower
  <2>1. heap' = Reject(Popped, capability)
    BY <1>1, <1>3 DEF Identity, Thrower
  <2> QED
    BY <1>2, <2>1, RejectCallInv DEF Grows
<1>4. CASE handler = Identity
  <2>1. heap' = Resolve(Popped, capability, Plain)
    BY <1>1, <1>4 DEF Identity, Thrower
  <2> QED
    BY <1>2, <2>1, ResolveInv DEF Grows
<1>5. ASSUME NEW k \in DOMAIN heap.pairs, handler = ResolveOf(k)
      PROVE  HeapInv(heap', 0) /\ Grows(heap, heap')
  <2> DEFINE g == Resolve(Popped, k, Plain)
  <2>1. heap' = Resolve(g, capability, Plain)
    BY <1>1, <1>5 DEF Identity, Thrower, ResolveOf
  <2>2. HeapInv(g, 0) /\ DOMAIN g.promises = DOMAIN heap.promises /\ DOMAIN g.pairs = DOMAIN heap.pairs
    BY <1>2, ResolveInv
  <2> HIDE DEF g
  <2> QED
    BY <1>2, <2>1, <2>2, ResolveInv DEF Grows
<1>6. ASSUME NEW k \in DOMAIN heap.pairs, handler = RejectOf(k)
      PROVE  HeapInv(heap', 0) /\ Grows(heap, heap')
  <2> DEFINE g == Reject(Popped, k)
  <2>1. heap' = Resolve(g, capability, Plain)
    BY <1>1, <1>6 DEF Identity, Thrower, RejectOf
  <2>2. HeapInv(g, 0) /\ DOMAIN g.promises = DOMAIN heap.promises /\ DOMAIN g.pairs = DOMAIN heap.pairs
    BY <1>2, RejectCallInv
  <2> HIDE DEF g
  <2> QED
    BY <1>2, <2>1, <2>2, ResolveInv DEF Grows
<1> QED
  BY <1>1, <1>2, <1>3, <1>4, <1>5, <1>6 DEF ValidHandler

\* A thenable that is a promise: a new pair for the promise that follows it, and a then.
LEMMA PromiseResolveThenableJobInv ==
    ASSUME Inv, PromiseResolveThenableJob
    PROVE  HeapInv(heap', 0) /\ Grows(heap, heap')
<1> DEFINE g == CreateResolvingFunctions(Popped, Job.promise)
<1>1. /\ heap.queue # <<>> /\ Job.task = "thenable" /\ Job.thenable # Thenable
      /\ heap' = Then(g, Job.thenable, ResolveOf(LastPair(g)), RejectOf(LastPair(g)))
  BY DEF PromiseResolveThenableJob, CanRun
<1>2. /\ HeapInv(Popped, Job.promise) /\ Job.promise # 0
      /\ Popped.promises = heap.promises /\ Popped.pairs = heap.pairs
      /\ Job.thenable \in DOMAIN heap.promises
  BY <1>1, JobFacts
<1>3. /\ HeapInv(g, 0) /\ g.promises = Popped.promises
      /\ LastPair(g) = LastPair(Popped) + 1 /\ DOMAIN g.pairs = 1 .. LastPair(Popped) + 1
  BY <1>2, CreateInv
<1>4. DOMAIN heap.pairs = 1 .. LastPair(Popped) /\ LastPair(Popped) \in Nat
  BY <1>2, HeapFields DEF HeapInv, LastPair
<1> HIDE DEF g
<1>5. Grows(heap, g) /\ LastPair(g) \in DOMAIN g.pairs /\ Job.thenable \in DOMAIN g.promises
  BY <1>2, <1>3, <1>4 DEF Grows
<1>6. ValidHandler(g, ResolveOf(LastPair(g))) /\ ValidHandler(g, RejectOf(LastPair(g)))
  BY <1>5 DEF ValidHandler
<1>7. HeapInv(heap', 0) /\ Grows(g, heap')
  BY <1>1, <1>3, <1>5, <1>6, ThenInv
<1> QED
  BY <1>5, <1>7 DEF Grows

\* The other steps of the heap.
LEMMA HeapStep ==
    ASSUME Inv, Next
    PROVE  HeapInv(heap', 0) /\ Grows(heap, heap')
<1>1. HeapInv(heap, 0) /\ ProgramInv /\ known \subseteq DOMAIN heap.promises
      /\ held \subseteq DOMAIN heap.pairs
  BY DEF Inv, ProgramInv
<1>2. Grows(heap, heap)
  BY DEF Grows
<1>3. \A value \in Values : value \in DOMAIN heap.promises \cup {Plain}
  BY <1>1 DEF Values
<1>4. CASE PromiseConstructor
  <2>1. heap' = NewPromise(heap)
    BY <1>4 DEF PromiseConstructor
  <2>2. /\ HeapInv(heap', 0)
        /\ DOMAIN heap'.promises = 1 .. LastPromise(heap) + 1
        /\ DOMAIN heap'.pairs = 1 .. LastPair(heap) + 1
    BY <1>1, <2>1, NewPromiseInv
  <2>3. /\ DOMAIN heap.promises = 1 .. LastPromise(heap) /\ LastPromise(heap) \in Nat
        /\ DOMAIN heap.pairs = 1 .. LastPair(heap) /\ LastPair(heap) \in Nat
    BY <1>1, HeapFields DEF HeapInv, LastPromise, LastPair
  <2> QED
    BY <2>2, <2>3 DEF Grows
<1>5. ASSUME NEW p \in known, CallThen(p, User, Thrower) \/ CallThen(p, Identity, User)
      PROVE  HeapInv(heap', 0) /\ Grows(heap, heap')
  <2>1. heap' = Then(heap, p, User, Thrower) \/ heap' = Then(heap, p, Identity, User)
    BY <1>5 DEF CallThen
  <2> QED
    BY <1>1, <2>1, ThenInv DEF ValidHandler
<1>6. ASSUME NEW value \in Values, CallAwait(value)
      PROVE  HeapInv(heap', 0) /\ Grows(heap, heap')
  BY <1>1, <1>3, <1>6, AwaitInv DEF CallAwait
<1>7. ASSUME NEW k \in held, CallResolve(k) \/ CallResolveForeign(k) \/ CallReject(k)
      PROVE  HeapInv(heap', 0) /\ Grows(heap, heap')
  <2>1. CASE CallResolve(k)
    <3>1. PICK value \in Values : heap' = Resolve(heap, k, value)
      BY <2>1 DEF CallResolve
    <3> QED
      BY <1>1, <1>3, <3>1, ResolveInv DEF Grows
  <2>2. CASE CallResolveForeign(k)
    BY <1>1, <2>2, ResolveInv DEF CallResolveForeign, Grows
  <2>3. CASE CallReject(k)
    BY <1>1, <2>3, RejectCallInv DEF CallReject, Grows
  <2> QED
    BY <1>7, <2>1, <2>2, <2>3
<1>8. CASE StartHandler
  <2>1. heap.queue # <<>> /\ Job.task = "reaction" /\ heap' = Popped
    BY <1>8 DEF StartHandler, CanRun
  <2> QED
    BY <2>1, JobFacts DEF Grows
<1>9. CASE PromiseReactionJob
  BY <1>9, PromiseReactionJobInv
<1>10. CASE PromiseResolveThenableJob
  BY <1>10, PromiseResolveThenableJobInv
<1>11. CASE StartForeignThen
  <2>1. /\ heap.queue # <<>> /\ Job.task = "thenable"
        /\ heap' = CreateResolvingFunctions(Popped, Job.promise)
    BY <1>11 DEF StartForeignThen, CanRun
  <2>2. /\ HeapInv(Popped, Job.promise) /\ Job.promise # 0
        /\ Popped.promises = heap.promises /\ Popped.pairs = heap.pairs
    BY <2>1, JobFacts
  <2>3. /\ HeapInv(heap', 0) /\ heap'.promises = heap.promises
        /\ DOMAIN heap'.pairs = 1 .. LastPair(Popped) + 1
    BY <2>1, <2>2, CreateInv
  <2>4. DOMAIN heap.pairs = 1 .. LastPair(Popped) /\ LastPair(Popped) \in Nat
    BY <2>2, HeapFields DEF HeapInv, LastPair
  <2> QED
    BY <2>3, <2>4 DEF Grows
<1>12. CASE HandlerReturns
  <2>1. bodies # <<>> /\ Last(bodies).pair \in DOMAIN heap.pairs
    BY <1>1, <1>12, BodiesFacts DEF HandlerReturns
  <2>2. heap' = heap \/ \E value \in Values : heap' = Resolve(heap, Last(bodies).pair, value)
    BY <1>12 DEF HandlerReturns
  <2> QED
    BY <1>1, <1>2, <1>3, <2>1, <2>2, ResolveInv DEF Grows
<1>13. CASE HandlerThrows
  <2>1. bodies # <<>> /\ Last(bodies).pair \in DOMAIN heap.pairs
    BY <1>1, <1>13, BodiesFacts DEF HandlerThrows
  <2> QED
    BY <1>1, <1>13, <2>1, RejectCallInv DEF HandlerThrows, Grows
<1> QED
  BY <1>4, <1>5, <1>6, <1>7, <1>8, <1>9, <1>10, <1>11, <1>12, <1>13 DEF Next, RunJob

\* What the program holds after a step.
LEMMA ProgramStep ==
    ASSUME Inv, Next, HeapInv(heap', 0), Grows(heap, heap')
    PROVE  ProgramInv'
<1>1. /\ bodies \in Seq(BodyType) /\ held \subseteq DOMAIN heap.pairs
      /\ known \subseteq DOMAIN heap.promises /\ calls \in 0 .. MaxCalls
      /\ HeapInv(heap, 0) /\ ProgramInv
  BY DEF Inv, ProgramInv
<1>2. /\ \A i \in DOMAIN bodies : bodies[i].pair \in DOMAIN heap'.pairs
      /\ held \subseteq DOMAIN heap'.pairs /\ known \subseteq DOMAIN heap'.promises
  BY <1>1, ProgramMonotone
<1>3. \A n \in Nat : Budget(n) => calls' \in 0 .. MaxCalls
  BY <1>1, MaxCallsAssumption DEF Budget
<1>4. CASE PromiseConstructor
  <2>1. LastPair(heap') \in DOMAIN heap'.pairs /\ LastPromise(heap') \in DOMAIN heap'.promises
    <3>1. heap' = NewPromise(heap)
      BY <1>4 DEF PromiseConstructor
    <3>2. /\ LastPromise(heap') = LastPromise(heap) + 1 /\ DOMAIN heap'.promises = 1 .. LastPromise(heap) + 1
          /\ LastPair(heap') = LastPair(heap) + 1 /\ DOMAIN heap'.pairs = 1 .. LastPair(heap) + 1
      BY <1>1, <3>1, NewPromiseInv
    <3>3. LastPromise(heap) \in Nat /\ LastPair(heap) \in Nat
      BY <1>1, HeapFields DEF HeapInv, LastPromise, LastPair
    <3> QED
      BY <3>2, <3>3
  <2> QED
    BY <1>1, <1>2, <1>3, <1>4, <2>1 DEF PromiseConstructor, ProgramInv
<1>5. ASSUME NEW p \in known, CallThen(p, User, Thrower) \/ CallThen(p, Identity, User)
      PROVE  ProgramInv'
  <2>1. heap' = Then(heap, p, User, Thrower) \/ heap' = Then(heap, p, Identity, User)
    BY <1>5 DEF CallThen
  <2>2. LastPromise(heap') \in DOMAIN heap'.promises
    BY <1>1, <2>1, ThenInv DEF ValidHandler
  <2> QED
    BY <1>1, <1>2, <1>3, <1>5, <2>2 DEF CallThen, ProgramInv
<1>6. ASSUME NEW value \in Values, CallAwait(value)
      PROVE  ProgramInv'
  BY <1>1, <1>2, <1>3, <1>6 DEF CallAwait, ProgramInv
<1>7. ASSUME NEW k \in held, CallResolve(k) \/ CallResolveForeign(k) \/ CallReject(k)
      PROVE  ProgramInv'
  BY <1>1, <1>2, <1>3, <1>7 DEF CallResolve, CallResolveForeign, CallReject, ProgramInv
<1>8. CASE PromiseReactionJob \/ PromiseResolveThenableJob
  BY <1>1, <1>2, <1>8 DEF PromiseReactionJob, PromiseResolveThenableJob, ProgramInv
<1>9. ASSUME NEW body \in BodyType, bodies' = Append(bodies, body), body.pair \in DOMAIN heap'.pairs,
             held' \subseteq DOMAIN heap'.pairs, UNCHANGED <<known, calls>>
      PROVE  ProgramInv'
  BY <1>1, <1>2, <1>9, BodiesFacts DEF ProgramInv
<1>10. CASE StartHandler
  <2> DEFINE body == [task |-> "reaction", pair |-> Job.reaction.capability]
  <2>1. Job.reaction.capability \in DOMAIN heap.pairs
    BY <1>10, JobFacts DEF StartHandler, CanRun, ValidReaction
  <2>2. Job.reaction.capability \in DOMAIN heap'.pairs /\ Job.reaction.capability \in Nat
    BY <1>1, <2>1, HeapFields DEF Grows, HeapInv
  <2>3. body \in BodyType /\ body.pair \in DOMAIN heap'.pairs
    BY <2>2 DEF BodyType
  <2> QED
    BY <1>2, <1>9, <1>10, <2>3 DEF StartHandler
<1>11. CASE StartForeignThen
  <2> DEFINE body == [task |-> "thenable", pair |-> LastPair(heap')]
  <2>1. /\ heap.queue # <<>> /\ Job.task = "thenable"
        /\ heap' = CreateResolvingFunctions(Popped, Job.promise)
    BY <1>11 DEF StartForeignThen, CanRun
  <2>2. /\ HeapInv(Popped, Job.promise) /\ Job.promise # 0
    BY <2>1, JobFacts
  <2>3. LastPair(heap') = LastPair(Popped) + 1 /\ DOMAIN heap'.pairs = 1 .. LastPair(Popped) + 1
    BY <2>1, <2>2, CreateInv
  <2>4. LastPair(Popped) \in Nat
    BY <2>2, HeapFields DEF HeapInv, LastPair
  <2>5. LastPair(heap') \in DOMAIN heap'.pairs /\ LastPair(heap') \in Nat
    BY <2>3, <2>4
  <2>6. body \in BodyType /\ body.pair \in DOMAIN heap'.pairs
    BY <2>5 DEF BodyType
  <2> QED
    BY <1>2, <1>9, <1>11, <2>5, <2>6 DEF StartForeignThen
<1>12. CASE HandlerReturns \/ HandlerThrows
  <2>1. bodies # <<>> /\ bodies' = Front(bodies) /\ UNCHANGED <<held, known, calls>>
    BY <1>12 DEF HandlerReturns, HandlerThrows
  <2> QED
    BY <1>1, <1>2, <2>1, BodiesFacts DEF ProgramInv
<1> QED
  BY <1>4, <1>5, <1>6, <1>7, <1>8, <1>10, <1>11, <1>12 DEF Next, RunJob

\* The invariant holds in every state.
LEMMA InvHolds == Spec => []Inv
<1>1. Inv /\ [Next]_vars => Inv'
  <2>1. CASE Next
    BY <2>1, HeapStep, ProgramStep DEF Inv
  <2>2. CASE UNCHANGED vars
    BY <2>2 DEF vars, Inv, ProgramInv
  <2> QED
    BY <2>1, <2>2
<1> QED
  BY <1>1, InitInv, PTL DEF Spec

-----------------------------------------------------------------------------
(* The reactions of the pairs.  `out` are the pairs that are in the hands of the program, *)
(* of a handler that runs or of an operation: no reaction uses them.                       *)

Uses(r, k) == r.capability = k \/ r.handler.pair = k

\* The reaction at place i of the lists of p, or of the queue (p = 0), uses the pair k.
At(h, p, i, k) ==
    IF p = 0
    THEN i \in DOMAIN h.queue /\ IsReaction(h, i) /\ Uses(h.queue[i].reaction, k)
    ELSE /\ p \in DOMAIN h.promises /\ i \in DOMAIN h.promises[p].fulfillReactions
         /\ Uses(h.promises[p].fulfillReactions[i], k)

Parallel(s, t) == DOMAIN s = DOMAIN t /\ \A i \in DOMAIN s : \A k : Uses(s[i], k) <=> Uses(t[i], k)

Open(h, out, k) == k \in DOMAIN h.pairs /\ IsUsable(h, k) /\ k \notin out

PairNumbers == Nat \ {0}

\* The two lists of a promise have the same reactions, and each unused pair that is in no
\* hands has one reaction, in one list or in one job.
ParallelInv(h) ==
    \A p \in DOMAIN h.promises :
        Parallel(h.promises[p].fulfillReactions, h.promises[p].rejectReactions)
SiteInv(h, out) ==
    \A k \in PairNumbers :
        /\ Open(h, out, k) <=> \E p, i : At(h, p, i, k)
        /\ \A p, i, q, n : At(h, p, i, k) /\ At(h, q, n, k) => p = q /\ i = n
ReactInv(h, out) == ParallelInv(h) /\ SiteInv(h, out)

\* What changes no reaction only has to keep the account of the pairs.
LEMMA SameReactions ==
    ASSUME NEW h, NEW g, NEW out, NEW left, ReactInv(h, out), ParallelInv(g),
           \A p, i, k : At(g, p, i, k) <=> At(h, p, i, k),
           \A k \in PairNumbers : Open(g, left, k) <=> Open(h, out, k)
    PROVE  ReactInv(g, left)
<1>1. SiteInv(h, out)
  BY DEF ReactInv
<1>2. SiteInv(g, left)
  BY <1>1 DEF SiteInv
<1> QED
  BY <1>2 DEF ReactInv

\* A pair that is used is in no hands, whether or not it was before.
LEMMA UsedReact ==
    ASSUME NEW h \in HeapType, NEW k \in DOMAIN h.pairs, NEW out, k \in out, ReactInv(h, out)
    PROVE  /\ ReactInv(Used(h, k), out) /\ ReactInv(Used(h, k), out \ {k})
           /\ \A j \in DOMAIN h.pairs \ {k} : Used(h, k).pairs[j] = h.pairs[j]
<1> DEFINE g == Used(h, k)
<1>1. /\ g.promises = h.promises /\ g.queue = h.queue
      /\ DOMAIN g.pairs = DOMAIN h.pairs /\ g.pairs[k].alreadyResolved
      /\ \A j \in DOMAIN h.pairs \ {k} : g.pairs[j] = h.pairs[j]
  BY UsedFacts
<1> HIDE DEF g
<1>2. \A p, i, j : At(g, p, i, j) <=> At(h, p, i, j)
  BY <1>1 DEF At, IsReaction
<1>3. ParallelInv(g)
  BY <1>1 DEF ReactInv, ParallelInv
<1>4. \A j : (Open(g, out, j) <=> Open(h, out, j)) /\ (Open(g, out \ {k}, j) <=> Open(h, out, j))
  BY <1>1 DEF Open, IsUsable
<1>5. ReactInv(g, out) /\ ReactInv(g, out \ {k})
  BY <1>2, <1>3, <1>4, SameReactions
<1> QED
  BY <1>1, <1>5 DEF g

\* The reactions of a promise that is settled go from its lists to the queue.
LEMMA SettleReact ==
    ASSUME NEW h \in HeapType, NEW p \in DOMAIN h.promises, NEW out, ReactInv(h, out),
           NEW s \in {h.promises[p].fulfillReactions, h.promises[p].rejectReactions},
           NEW g, SettledBy(h, p, s, g)
    PROVE  ReactInv(g, out)
<1> DEFINE f == h.promises[p].fulfillReactions
           n == Len(h.queue)
<1>1. /\ g.pairs = h.pairs /\ DOMAIN g.promises = DOMAIN h.promises
      /\ g.promises[p].fulfillReactions = <<>> /\ g.promises[p].rejectReactions = <<>>
      /\ \A q \in DOMAIN h.promises \ {p} : g.promises[q] = h.promises[q]
      /\ DOMAIN g.queue = 1 .. n + Len(s)
      /\ \A i \in DOMAIN h.queue : g.queue[i] = h.queue[i]
      /\ \A i \in DOMAIN s : g.queue[n + i] = ReactionJob(s[i])
  BY DEF SettledBy
<1>2. /\ DOMAIN h.queue = 1 .. n /\ n \in Nat /\ DOMAIN s = 1 .. Len(s) /\ Len(s) \in Nat
      /\ 0 \notin DOMAIN h.promises
  <2>1. h.promises[p] \in PromiseType
    BY HeapFields
  <2> QED
    BY <2>1, HeapFields, PromiseFields
<1>3. DOMAIN s = DOMAIN f /\ \A i \in DOMAIN s : \A k : Uses(s[i], k) <=> Uses(f[i], k)
  BY DEF ReactInv, ParallelInv, Parallel
<1> HIDE DEF f, n
<1>4. ParallelInv(g)
  <2>1. ParallelInv(h) /\ Parallel(<<>>, <<>>)
    BY DEF ReactInv, Parallel
  <2>2. \A q \in DOMAIN g.promises \ {p} :
            Parallel(g.promises[q].fulfillReactions, g.promises[q].rejectReactions)
    BY <1>1, <2>1 DEF ParallelInv
  <2>3. Parallel(g.promises[p].fulfillReactions, g.promises[p].rejectReactions)
    BY <1>1, <2>1
  <2> QED
    BY <2>2, <2>3 DEF ParallelInv
<1>5. \A i : i \in DOMAIN g.queue <=> i \in DOMAIN h.queue \/ \E m \in DOMAIN s : i = n + m
  <2>1. \A i \in 1 .. n + Len(s) : i \in 1 .. n \/ (i - n \in 1 .. Len(s) /\ i = n + (i - n))
    BY <1>2
  <2>2. \A i \in 1 .. n : i \in 1 .. n + Len(s)
    BY <1>2
  <2>3. \A m \in 1 .. Len(s) : n + m \in 1 .. n + Len(s)
    BY <1>2
  <2> QED
    BY <1>1, <1>2, <2>1, <2>2, <2>3
<1>6. \A m \in DOMAIN s : n + m \notin DOMAIN h.queue /\ \A l \in DOMAIN s : n + l = n + m => l = m
  BY <1>2
<1>7. \A m \in DOMAIN s : IsReaction(g, n + m) /\ g.queue[n + m].reaction = s[m]
  <2>1. \A r : ReactionJob(r).task = "reaction" /\ ReactionJob(r).reaction = r
    BY DEF ReactionJob
  <2> QED
    BY <1>1, <2>1 DEF IsReaction
<1>8. \A i \in DOMAIN h.queue : (IsReaction(g, i) <=> IsReaction(h, i)) /\ g.queue[i] = h.queue[i]
  BY <1>1 DEF IsReaction
<1>9. ASSUME NEW k, NEW i
      PROVE  At(g, 0, i, k) <=> At(h, 0, i, k) \/ \E m \in DOMAIN s : i = n + m /\ At(h, p, m, k)
  <2>1. \A m \in DOMAIN s : At(h, p, m, k) <=> Uses(s[m], k)
    BY <1>2, <1>3 DEF At, f
  <2>2. ASSUME NEW m \in DOMAIN s
        PROVE  At(g, 0, n + m, k) <=> Uses(s[m], k)
    BY <1>5, <1>7 DEF At
  <2>3. \A m \in DOMAIN h.queue : At(g, 0, m, k) <=> At(h, 0, m, k)
    BY <1>5, <1>8 DEF At
  <2>4. At(g, 0, i, k) => i \in DOMAIN g.queue
    BY DEF At
  <2>5. At(h, 0, i, k) => i \in DOMAIN h.queue
    BY DEF At
  <2> QED
    BY <1>5, <2>1, <2>2, <2>3, <2>4, <2>5
<1>10. \A q, i, k : q # 0 => (At(g, q, i, k) <=> q # p /\ At(h, q, i, k))
  <2>1. DOMAIN (<<>>) = {}
    OBVIOUS
  <2> QED
    BY <1>1, <2>1 DEF At
<1>11. ASSUME NEW k \in PairNumbers
       PROVE  /\ Open(g, out, k) <=> \E q, i : At(g, q, i, k)
              /\ \A q, i, r, j : At(g, q, i, k) /\ At(g, r, j, k) => q = r /\ i = j
  <2>1. /\ Open(h, out, k) <=> \E q, i : At(h, q, i, k)
        /\ \A q, i, r, j : At(h, q, i, k) /\ At(h, r, j, k) => q = r /\ i = j
    BY DEF ReactInv, SiteInv
  <2>2. Open(g, out, k) <=> Open(h, out, k)
    BY <1>1 DEF Open, IsUsable
  <2>3. p # 0 /\ \A m : At(h, p, m, k) => m \in DOMAIN s
    BY <1>2, <1>3 DEF At, f
  <2>4. (\E q, i : At(g, q, i, k)) <=> \E q, i : At(h, q, i, k)
    <3>1. ASSUME NEW q, NEW i, At(h, q, i, k)
          PROVE  \E r, j : At(g, r, j, k)
      <4>1. CASE q = 0
        BY <1>9, <3>1, <4>1
      <4>2. CASE q = p
        BY <1>9, <2>3, <3>1, <4>2
      <4>3. CASE q # 0 /\ q # p
        BY <1>10, <3>1, <4>3
      <4> QED
        BY <4>1, <4>2, <4>3
    <3>2. ASSUME NEW q, NEW i, At(g, q, i, k)
          PROVE  \E r, j : At(h, r, j, k)
      <4>1. CASE q = 0
        BY <1>9, <3>2, <4>1
      <4>2. CASE q # 0
        BY <1>10, <3>2, <4>2
      <4> QED
        BY <4>1, <4>2
    <3> QED
      BY <3>1, <3>2
  <2>5. ASSUME NEW q, NEW i, NEW r, NEW j, At(g, q, i, k), At(g, r, j, k)
        PROVE  q = r /\ i = j
    <3>1. CASE q # 0 /\ r # 0
      BY <1>10, <2>1, <2>5, <3>1
    <3>2. CASE q = 0 /\ r # 0
      BY <1>9, <1>10, <2>1, <2>3, <2>5, <3>2
    <3>3. CASE q # 0 /\ r = 0
      BY <1>9, <1>10, <2>1, <2>3, <2>5, <3>3
    <3>4. CASE q = 0 /\ r = 0
      <4>1. At(h, 0, i, k) \/ \E m \in DOMAIN s : i = n + m /\ At(h, p, m, k)
        BY <1>9, <2>5, <3>4
      <4>2. At(h, 0, j, k) \/ \E m \in DOMAIN s : j = n + m /\ At(h, p, m, k)
        BY <1>9, <2>5, <3>4
      <4> QED
        BY <2>1, <2>3, <3>4, <4>1, <4>2
    <3> QED
      BY <3>1, <3>2, <3>3, <3>4
  <2> QED
    BY <2>1, <2>2, <2>4, <2>5
<1>12. SiteInv(g, out)
  BY <1>11 DEF SiteInv
<1> QED
  BY <1>4, <1>12 DEF ReactInv

\* A job for a thenable has no reaction.
LEMMA FollowReact ==
    ASSUME NEW h \in HeapType, NEW job \in JobType, job.task = "thenable", NEW out, ReactInv(h, out)
    PROVE  ReactInv(EnqueueJob(h, job), out) /\ EnqueueJob(h, job).pairs = h.pairs
<1> DEFINE g == EnqueueJob(h, job)
           new == Len(h.queue) + 1
<1>1. /\ g.promises = h.promises /\ g.pairs = h.pairs
      /\ DOMAIN g.queue = 1 .. Len(h.queue) + 1 /\ g.queue[new] = job
      /\ \A i \in DOMAIN h.queue : g.queue[i] = h.queue[i]
  BY EnqueueFacts
<1>2. DOMAIN h.queue = 1 .. Len(h.queue) /\ Len(h.queue) \in Nat
  BY HeapFields
<1> HIDE DEF g
<1>3. \A i : i \in DOMAIN g.queue <=> i \in DOMAIN h.queue \/ i = new
  BY <1>1, <1>2
<1>4. new \notin DOMAIN h.queue
  BY <1>2
<1> HIDE DEF new
<1>5. \A p, i, k : At(g, p, i, k) <=> At(h, p, i, k)
  BY <1>1, <1>3, <1>4 DEF At, IsReaction
<1>6. ParallelInv(g) /\ \A k : Open(g, out, k) <=> Open(h, out, k)
  BY <1>1 DEF ReactInv, ParallelInv, Open, IsUsable
<1> QED
  BY <1>1, <1>5, <1>6, SameReactions DEF g

\* A promise in hand is settled, with the reactions of the pairs as they were.
LEMMA SettleCallReact ==
    ASSUME NEW h, NEW p, HeapInv(h, p), p # 0, NEW out, ReactInv(h, out)
    PROVE  /\ ReactInv(FulfillPromise(h, p), out) /\ FulfillPromise(h, p).pairs = h.pairs
           /\ ReactInv(RejectPromise(h, p), out) /\ RejectPromise(h, p).pairs = h.pairs
<1>1. h \in HeapType /\ p \in DOMAIN h.promises
  BY DEF HeapInv, WayInv
<1>2. /\ SettledBy(h, p, h.promises[p].fulfillReactions, FulfillPromise(h, p))
      /\ SettledBy(h, p, h.promises[p].rejectReactions, RejectPromise(h, p))
  BY FulfillInv, RejectInv
<1>3. FulfillPromise(h, p).pairs = h.pairs /\ RejectPromise(h, p).pairs = h.pairs
  BY <1>2 DEF SettledBy
<1> QED
  BY <1>1, <1>2, <1>3, SettleReact

\* A resolving function whose pair is in hand is called: the pair is used up.
LEMMA ResolveReact ==
    ASSUME NEW h, HeapInv(h, 0), NEW k \in DOMAIN h.pairs,
           NEW value \in DOMAIN h.promises \cup {Plain, Thenable},
           NEW out, k \in out, ReactInv(h, out)
    PROVE  LET g == Resolve(h, k, value)
           IN  /\ ReactInv(g, out) /\ ReactInv(g, out \ {k})
               /\ \A j \in DOMAIN h.pairs \ {k} : g.pairs[j] = h.pairs[j]
<1> DEFINE p == h.pairs[k].promise
           f == Used(h, k)
           g == Resolve(h, k, value)
<1>1. CASE ~IsUsable(h, k)
  <2>1. g = h
    BY <1>1 DEF Resolve, IsUsable
  <2>2. \A j : Open(h, out \ {k}, j) <=> Open(h, out, j)
    BY <1>1 DEF Open
  <2>3. ReactInv(h, out \ {k})
    BY <2>2, SameReactions DEF ReactInv
  <2> QED
    BY <2>1, <2>3
<1>2. CASE IsUsable(h, k)
  <2>1. HeapInv(f, p) /\ p # 0 /\ DOMAIN f.promises = DOMAIN h.promises
    BY <1>2, UsedInv
  <2>2. /\ ReactInv(f, out) /\ ReactInv(f, out \ {k})
        /\ \A j \in DOMAIN h.pairs \ {k} : f.pairs[j] = h.pairs[j]
    BY UsedReact DEF HeapInv
  <2>3. g = IF value = p THEN RejectPromise(f, p)
            ELSE IF value = Plain THEN FulfillPromise(f, p)
            ELSE EnqueueJob(f, ThenableJob(p, value))
    BY <1>2 DEF Resolve, IsUsable
  <2> HIDE DEF f, p, g
  <2>4. CASE value = p \/ value = Plain
    <3>1. g = RejectPromise(f, p) \/ g = FulfillPromise(f, p)
      BY <2>3, <2>4
    <3> QED
      BY <2>1, <2>2, <3>1, SettleCallReact DEF g
  <2>5. CASE value # p /\ value # Plain
    <3>1. g = EnqueueJob(f, ThenableJob(p, value))
      BY <2>3, <2>5
    <3>2. f \in HeapType /\ p \in DOMAIN f.promises /\ DOMAIN f.promises \subseteq Nat
      BY <2>1, HeapFields DEF HeapInv, WayInv
    <3>3. ThenableJob(p, value) \in JobType /\ ThenableJob(p, value).task = "thenable"
      BY <2>1, <2>5, <3>2 DEF ThenableJob, JobType
    <3> QED
      BY <2>2, <3>1, <3>2, <3>3, FollowReact DEF g
  <2> QED
    BY <2>4, <2>5
<1> QED
  BY <1>1, <1>2

\* So is a rejecting function.
LEMMA RejectCallReact ==
    ASSUME NEW h, HeapInv(h, 0), NEW k \in DOMAIN h.pairs, NEW out, k \in out, ReactInv(h, out)
    PROVE  LET g == Reject(h, k)
           IN  /\ ReactInv(g, out) /\ ReactInv(g, out \ {k})
               /\ \A j \in DOMAIN h.pairs \ {k} : g.pairs[j] = h.pairs[j]
<1> DEFINE p == h.pairs[k].promise
           f == Used(h, k)
           g == Reject(h, k)
<1>1. CASE ~IsUsable(h, k)
  <2>1. g = h
    BY <1>1 DEF Reject, IsUsable
  <2>2. \A j : Open(h, out \ {k}, j) <=> Open(h, out, j)
    BY <1>1 DEF Open
  <2>3. ReactInv(h, out \ {k})
    BY <2>2, SameReactions DEF ReactInv
  <2> QED
    BY <2>1, <2>3
<1>2. CASE IsUsable(h, k)
  <2>1. HeapInv(f, p) /\ p # 0
    BY <1>2, UsedInv
  <2>2. /\ ReactInv(f, out) /\ ReactInv(f, out \ {k})
        /\ \A j \in DOMAIN h.pairs \ {k} : f.pairs[j] = h.pairs[j]
    BY UsedReact DEF HeapInv
  <2>3. g = RejectPromise(f, p)
    BY <1>2 DEF Reject, IsUsable
  <2> HIDE DEF f, p, g
  <2> QED
    BY <2>1, <2>2, <2>3, SettleCallReact DEF g
<1> QED
  BY <1>1, <1>2

\* A new pair is in the hands of the one who makes it.
LEMMA CreateReact ==
    ASSUME NEW h, NEW p, HeapInv(h, p), p # 0, NEW out, ReactInv(h, out)
    PROVE  LET g == CreateResolvingFunctions(h, p) IN ReactInv(g, out \cup {LastPair(g)})
<1> DEFINE g == CreateResolvingFunctions(h, p)
           new == LastPair(g)
<1>1. /\ g.promises = h.promises /\ g.queue = h.queue
      /\ new = LastPair(h) + 1 /\ DOMAIN g.pairs = 1 .. LastPair(h) + 1
      /\ \A k \in DOMAIN h.pairs : g.pairs[k] = h.pairs[k]
  BY CreateInv
<1>2. DOMAIN h.pairs = 1 .. LastPair(h) /\ LastPair(h) \in Nat
  BY HeapFields DEF HeapInv, LastPair
<1> HIDE DEF g, new
<1>3. DOMAIN g.pairs = DOMAIN h.pairs \cup {new} /\ new \notin DOMAIN h.pairs
  BY <1>1, <1>2
<1>4. \A q, i, k : At(g, q, i, k) <=> At(h, q, i, k)
  BY <1>1 DEF At, IsReaction
<1>5. ParallelInv(g)
  BY <1>1 DEF ReactInv, ParallelInv
<1>6. \A k : Open(g, out \cup {new}, k) <=> Open(h, out, k)
  BY <1>1, <1>3 DEF Open, IsUsable
<1> QED
  BY <1>4, <1>5, <1>6, SameReactions DEF g, new

\* So is the pair of a new promise, which has no reactions.
LEMMA NewPromiseReact ==
    ASSUME NEW h, HeapInv(h, 0), NEW out, ReactInv(h, out)
    PROVE  LET g == NewPromise(h) IN ReactInv(g, out \cup {LastPair(g)})
<1> DEFINE f == AddPromise(h)
           new == LastPromise(f)
<1>1. /\ HeapInv(f, new) /\ new # 0
      /\ f.pairs = h.pairs /\ f.queue = h.queue
      /\ NewPromise(h) = CreateResolvingFunctions(f, new)
      /\ new = LastPromise(h) + 1 /\ DOMAIN f.promises = 1 .. LastPromise(h) + 1
      /\ \A p \in DOMAIN h.promises : f.promises[p] = h.promises[p]
  BY AddInv
<1>2. f.promises[new].fulfillReactions = <<>> /\ f.promises[new].rejectReactions = <<>>
  BY AddFacts DEF HeapInv, NewObject
<1>3. DOMAIN h.promises = 1 .. LastPromise(h) /\ LastPromise(h) \in Nat
  BY HeapFields DEF HeapInv, LastPromise
<1> HIDE DEF f, new
<1>4. DOMAIN f.promises = DOMAIN h.promises \cup {new} /\ new \notin DOMAIN h.promises
  BY <1>1, <1>3
<1>5. DOMAIN (<<>>) = {} /\ Parallel(<<>>, <<>>)
  BY DEF Parallel
<1>6. \A q, i, k : At(f, q, i, k) <=> At(h, q, i, k)
  BY <1>1, <1>2, <1>4, <1>5 DEF At, IsReaction
<1>7. ParallelInv(f)
  BY <1>1, <1>2, <1>4, <1>5 DEF ReactInv, ParallelInv
<1>8. \A k : Open(f, out, k) <=> Open(h, out, k)
  BY <1>1 DEF Open, IsUsable
<1>9. ReactInv(f, out)
  BY <1>6, <1>7, <1>8, SameReactions
<1> QED
  BY <1>1, <1>9, CreateReact

\* What a promise is handled by, or the host told, is not in its lists.
LEMMA SameLists ==
    ASSUME NEW h, NEW g, NEW out, ReactInv(h, out), g.pairs = h.pairs, g.queue = h.queue,
           DOMAIN g.promises = DOMAIN h.promises,
           \A p \in DOMAIN h.promises :
                /\ g.promises[p].fulfillReactions = h.promises[p].fulfillReactions
                /\ g.promises[p].rejectReactions = h.promises[p].rejectReactions
    PROVE  ReactInv(g, out)
<1>1. \A p, i, k : At(g, p, i, k) <=> At(h, p, i, k)
  BY DEF At, IsReaction
<1>2. ParallelInv(g)
  BY DEF ReactInv, ParallelInv
<1>3. \A k : Open(g, out, k) <=> Open(h, out, k)
  BY DEF Open, IsUsable
<1> QED
  BY <1>1, <1>2, <1>3, SameReactions

\* In g there is one more reaction than in h, at place n of p, which uses the pairs ks.
OneMore(h, g, p, n, ks) ==
    \A q, i, k : At(g, q, i, k) <=> At(h, q, i, k) \/ (q = p /\ i = n /\ k \in ks)

\* The reaction can use these pairs: they are in hand, and unused.
InHand(h, out, ks) == \A k \in ks \ {0} : k \in out /\ k \in DOMAIN h.pairs /\ IsUsable(h, k)

\* One more reaction takes the pairs ks out of the hands they were in.
LEMMA OneMoreReaction ==
    ASSUME NEW h, NEW g, NEW out, NEW ks, NEW place, NEW n,
           ReactInv(h, out), ParallelInv(g), g.pairs = h.pairs,
           OneMore(h, g, place, n, ks), InHand(h, out, ks)
    PROVE  ReactInv(g, out \ ks)
<1>1. ASSUME NEW k \in PairNumbers
      PROVE  /\ Open(g, out \ ks, k) <=> \E p, i : At(g, p, i, k)
             /\ \A p, i, q, m : At(g, p, i, k) /\ At(g, q, m, k) => p = q /\ i = m
  <2>1. /\ Open(h, out, k) <=> \E p, i : At(h, p, i, k)
        /\ \A p, i, q, m : At(h, p, i, k) /\ At(h, q, m, k) => p = q /\ i = m
    BY DEF ReactInv, SiteInv
  <2>2. k # 0
    BY DEF PairNumbers
  <2>3. CASE k \in ks
    <3>1. k \in out /\ k \in DOMAIN h.pairs /\ IsUsable(h, k)
      BY <2>2, <2>3 DEF InHand
    <3>2. Open(g, out \ ks, k) /\ ~Open(h, out, k)
      BY <2>3, <3>1 DEF Open, IsUsable
    <3>3. \A p, i : ~At(h, p, i, k)
      BY <2>1, <3>2
    <3>4. \A p, i : At(g, p, i, k) <=> p = place /\ i = n
      BY <2>3, <3>3 DEF OneMore
    <3> QED
      BY <3>2, <3>4
  <2>4. CASE k \notin ks
    <3>1. Open(g, out \ ks, k) <=> Open(h, out, k)
      BY <2>4 DEF Open, IsUsable
    <3>2. \A p, i : At(g, p, i, k) <=> At(h, p, i, k)
      BY <2>4 DEF OneMore
    <3> QED
      BY <2>1, <3>1, <3>2
  <2> QED
    BY <2>3, <2>4
<1>2. SiteInv(g, out \ ks)
  BY <1>1 DEF SiteInv
<1> QED
  BY <1>2 DEF ReactInv

\* A job for a reaction.
LEMMA EnqueueReact ==
    ASSUME NEW h \in HeapType, NEW out, NEW r \in ReactionType, ReactInv(h, out),
           InHand(h, out, {r.capability, r.handler.pair})
    PROVE  LET g == EnqueueJob(h, ReactionJob(r))
           IN  ReactInv(g, out \ {r.capability, r.handler.pair}) /\ g.pairs = h.pairs
<1> DEFINE job == ReactionJob(r)
           g == EnqueueJob(h, job)
           new == Len(h.queue) + 1
<1>1. job \in JobType /\ job.task = "reaction" /\ job.reaction = r
  BY DEF ReactionJob, JobType
<1> HIDE DEF job
<1>2. /\ g.promises = h.promises /\ g.pairs = h.pairs
      /\ DOMAIN g.queue = 1 .. Len(h.queue) + 1 /\ g.queue[new] = job
      /\ \A i \in DOMAIN h.queue : g.queue[i] = h.queue[i]
  BY <1>1, EnqueueFacts
<1>3. DOMAIN h.queue = 1 .. Len(h.queue) /\ Len(h.queue) \in Nat /\ 0 \notin DOMAIN h.promises
  BY HeapFields
<1> HIDE DEF g
<1>4. \A i : i \in DOMAIN g.queue <=> i \in DOMAIN h.queue \/ i = new
  BY <1>2, <1>3
<1>5. new \notin DOMAIN h.queue
  BY <1>3
<1> HIDE DEF new
<1>6. \A i, k : At(g, 0, i, k) <=> At(h, 0, i, k) \/ (i = new /\ k \in {r.capability, r.handler.pair})
  BY <1>1, <1>2, <1>4, <1>5 DEF At, IsReaction, Uses
<1>7. \A p, i, k : p # 0 => (At(g, p, i, k) <=> At(h, p, i, k))
  BY <1>2 DEF At
<1>8. OneMore(h, g, 0, new, {r.capability, r.handler.pair})
  BY <1>6, <1>7 DEF OneMore
<1>9. ParallelInv(g)
  BY <1>2 DEF ReactInv, ParallelInv
<1>10. ReactInv(g, out \ {r.capability, r.handler.pair})
  BY <1>2, <1>8, <1>9, OneMoreReaction
<1> QED
  BY <1>2, <1>10 DEF g, job

\* A reaction in both lists of a promise.
LEMMA ListenReact ==
    ASSUME NEW h \in HeapType, NEW p \in DOMAIN h.promises, NEW out, ReactInv(h, out),
           NEW f \in ReactionType, NEW r \in ReactionType,
           f.capability = r.capability, f.handler.pair = r.handler.pair,
           InHand(h, out, {f.capability, f.handler.pair})
    PROVE  LET g == Listening(h, p, f, r)
           IN  ReactInv(g, out \ {f.capability, f.handler.pair}) /\ g.pairs = h.pairs
<1> DEFINE g == Listening(h, p, f, r)
           s == h.promises[p].fulfillReactions
           t == h.promises[p].rejectReactions
           new == Len(s) + 1
<1>1. /\ g.pairs = h.pairs /\ g.queue = h.queue /\ DOMAIN g.promises = DOMAIN h.promises
      /\ g.promises[p].fulfillReactions = Append(s, f)
      /\ g.promises[p].rejectReactions = Append(t, r)
      /\ \A q \in DOMAIN h.promises \ {p} : g.promises[q] = h.promises[q]
  <2>1. Listened(h, p, f, r, Listening(h, p, f, r))
    BY ListenFacts
  <2> QED
    BY ONLY <2>1 DEF Listened
<1>2. /\ s \in Seq(ReactionType) /\ t \in Seq(ReactionType)
      /\ DOMAIN s = 1 .. Len(s) /\ Len(s) \in Nat /\ DOMAIN t = 1 .. Len(t) /\ Len(t) \in Nat
      /\ p # 0
  BY HeapFields, PromiseFields
<1>3. Parallel(s, t) /\ ParallelInv(h)
  BY DEF ReactInv, ParallelInv
<1> HIDE DEF g, s, t
<1>4. Len(t) = Len(s)
  <2>1. ASSUME NEW a \in Nat, NEW b \in Nat, 1 .. a = 1 .. b
        PROVE  a = b
    <3>1. (a # 0 => a \in 1 .. a) /\ (b # 0 => b \in 1 .. b)
      OBVIOUS
    <3>2. a <= b /\ b <= a
      BY <2>1, <3>1
    <3> QED
      BY <3>2
  <2>2. 1 .. Len(t) = 1 .. Len(s)
    BY <1>2, <1>3 DEF Parallel
  <2> QED
    BY ONLY <1>2, <2>1, <2>2
<1>5. /\ DOMAIN Append(s, f) = 1 .. Len(s) + 1 /\ Append(s, f)[new] = f
      /\ \A i \in DOMAIN s : Append(s, f)[i] = s[i]
      /\ DOMAIN Append(t, r) = 1 .. Len(s) + 1 /\ Append(t, r)[new] = r
      /\ \A i \in DOMAIN s : Append(t, r)[i] = t[i]
  BY <1>2, <1>4, AppendProperties, LenProperties
<1>6. (\A i : i \in 1 .. Len(s) + 1 <=> i \in DOMAIN s \/ i = new) /\ new \notin DOMAIN s
  BY <1>2
<1> HIDE DEF new
<1> DEFINE fs == Append(s, f)
           rs == Append(t, r)
<1>7. /\ \A i : i \in DOMAIN fs <=> i \in DOMAIN s \/ i = new
      /\ DOMAIN rs = DOMAIN fs /\ fs[new] = f /\ rs[new] = r
      /\ \A i \in DOMAIN s : fs[i] = s[i] /\ rs[i] = t[i]
      /\ g.promises[p].fulfillReactions = fs /\ g.promises[p].rejectReactions = rs
  BY <1>1, <1>5, <1>6
<1> HIDE DEF fs, rs
<1>8. \A k : (Uses(f, k) <=> k \in {f.capability, f.handler.pair}) /\ (Uses(r, k) <=> Uses(f, k))
  BY DEF Uses
<1>9. Parallel(fs, rs)
  BY <1>3, <1>7, <1>8 DEF Parallel
<1>10. ParallelInv(g)
  BY <1>1, <1>3, <1>7, <1>9 DEF ParallelInv
<1>11. \A i, k : At(g, p, i, k) <=> At(h, p, i, k) \/ (i = new /\ k \in {f.capability, f.handler.pair})
  BY <1>1, <1>2, <1>6, <1>7, <1>8 DEF At, s
<1>12. \A q, i, k : q # p => (At(g, q, i, k) <=> At(h, q, i, k))
  BY <1>1 DEF At, IsReaction
<1>13. OneMore(h, g, p, new, {f.capability, f.handler.pair})
  BY <1>11, <1>12 DEF OneMore
<1>14. ReactInv(g, out \ {f.capability, f.handler.pair})
  BY <1>1, <1>10, <1>13, OneMoreReaction
<1> QED
  BY <1>1, <1>14 DEF g

\* Both handlers of a then are those of the pair d, or of none if it is 0.
HandlersOf(d, onFulfilled, onRejected) == onFulfilled.pair = d /\ onRejected.pair = d

\* PerformPromiseThen: the reaction that uses the capability c, and the pair d of a promise
\* that adopts p (0 if there is none), waits in the lists or in a job.
LEMMA PerformThenReact ==
    ASSUME NEW h, HeapInv(h, 0), NEW p \in DOMAIN h.promises, NEW out, ReactInv(h, out),
           NEW onFulfilled, NEW onRejected, NEW c, NEW d,
           HandlersOf(d, onFulfilled, onRejected),
           IsReactionOf(h, PromiseReaction(p, onFulfilled, c)),
           IsReactionOf(h, PromiseReaction(p, onRejected, c)),
           InHand(h, out, {c, d})
    PROVE  LET g == PerformPromiseThen(h, p, onFulfilled, onRejected, c)
           IN  ReactInv(g, out \ {c, d}) /\ g.pairs = h.pairs
<1> DEFINE f == [h EXCEPT !.promises[p].isHandled = TRUE]
           e == [f EXCEPT !.reported = @ \ {p}]
           fr == PromiseReaction(p, onFulfilled, c)
           rr == PromiseReaction(p, onRejected, c)
           g == PerformPromiseThen(h, p, onFulfilled, onRejected, c)
<1>1. h \in HeapType /\ RefInv(h) /\ QueueInv(h) /\ WayInv(h, 0)
  BY DEF HeapInv
<1>2. /\ f \in HeapType /\ RefInv(f) /\ QueueInv(f) /\ WayInv(f, 0)
      /\ DOMAIN f.promises = DOMAIN h.promises
      /\ f.pairs = h.pairs /\ f.queue = h.queue /\ f.reported = h.reported
      /\ f.promises[p].isHandled
      /\ \A q \in DOMAIN h.promises :
           /\ f.promises[q].state = h.promises[q].state
           /\ f.promises[q].fulfillReactions = h.promises[q].fulfillReactions
           /\ f.promises[q].rejectReactions = h.promises[q].rejectReactions
           /\ q # p => f.promises[q] = h.promises[q]
  BY <1>1, HandledInv
<1>3. /\ fr \in ReactionType /\ rr \in ReactionType
      /\ fr.capability = c /\ rr.capability = c /\ fr.handler.pair = d /\ rr.handler.pair = d
  BY DEF PromiseReaction, IsReactionOf, HandlersOf
<1>4. h.promises[p].state \in {"pending", "fulfilled", "rejected"}
  BY <1>1, HeapFields DEF PromiseType
<1>5. /\ h.promises[p].state = "pending" => g = Listening(f, p, fr, rr)
      /\ h.promises[p].state = "fulfilled" => g = EnqueueJob(f, ReactionJob(fr))
      /\ h.promises[p].state = "rejected" => g = EnqueueJob(e, ReactionJob(rr))
  BY DEF PerformPromiseThen, Listening
<1>6. f.reported \ {p} \in SUBSET Nat /\ e = [f EXCEPT !.reported = f.reported \ {p}]
  BY <1>2, HeapFields
<1> HIDE DEF f
<1>7. /\ e \in HeapType /\ e.promises = f.promises /\ e.pairs = f.pairs /\ e.queue = f.queue
  BY <1>2, <1>6, SetReported
<1> HIDE DEF e, fr, rr, g
<1>8. ReactInv(f, out) /\ ReactInv(e, out)
  <2>1. ReactInv(f, out)
    BY <1>2, SameLists
  <2> QED
    BY <1>7, <2>1, SameLists
<1>9. InHand(f, out, {c, d}) /\ InHand(e, out, {c, d})
  BY <1>2, <1>7 DEF InHand, IsUsable
<1>10. LET l == Listening(f, p, fr, rr) IN ReactInv(l, out \ {c, d}) /\ l.pairs = f.pairs
  <2>1. p \in DOMAIN f.promises /\ InHand(f, out, {fr.capability, fr.handler.pair})
        /\ fr.capability = rr.capability /\ fr.handler.pair = rr.handler.pair
    BY <1>2, <1>3, <1>9
  <2>2. LET l == Listening(f, p, fr, rr)
        IN  ReactInv(l, out \ {fr.capability, fr.handler.pair}) /\ l.pairs = f.pairs
    BY <1>2, <1>3, <1>8, <2>1, ListenReact
  <2> QED
    BY <1>3, <2>2
<1>11. LET l == EnqueueJob(f, ReactionJob(fr)) IN ReactInv(l, out \ {c, d}) /\ l.pairs = f.pairs
  <2>1. InHand(f, out, {fr.capability, fr.handler.pair})
    BY <1>3, <1>9
  <2>2. LET l == EnqueueJob(f, ReactionJob(fr))
        IN  ReactInv(l, out \ {fr.capability, fr.handler.pair}) /\ l.pairs = f.pairs
    BY <1>2, <1>3, <1>8, <2>1, EnqueueReact
  <2> QED
    BY <1>3, <2>2
<1>12. LET l == EnqueueJob(e, ReactionJob(rr)) IN ReactInv(l, out \ {c, d}) /\ l.pairs = e.pairs
  <2>1. InHand(e, out, {rr.capability, rr.handler.pair})
    BY <1>3, <1>9
  <2>2. LET l == EnqueueJob(e, ReactionJob(rr))
        IN  ReactInv(l, out \ {rr.capability, rr.handler.pair}) /\ l.pairs = e.pairs
    BY <1>3, <1>7, <1>8, <2>1, EnqueueReact
  <2> QED
    BY <1>3, <2>2
<1>13. ReactInv(g, out \ {c, d}) /\ g.pairs = h.pairs
  BY <1>2, <1>4, <1>5, <1>7, <1>10, <1>11, <1>12
<1> QED
  BY <1>13 DEF g

\* Then: its reaction takes the pair d of the promise that adopts p, if it is one's.
LEMMA ThenReact ==
    ASSUME NEW h, HeapInv(h, 0), NEW p \in DOMAIN h.promises,
           NEW onFulfilled, NEW onRejected, NEW d,
           ValidHandler(h, onFulfilled), ValidHandler(h, onRejected),
           HandlersOf(d, onFulfilled, onRejected),
           NEW out, out \subseteq DOMAIN h.pairs, ReactInv(h, out),
           d # 0 => d \in out /\ IsUsable(h, d),
           NEW left, left = out \ {d}
    PROVE  LET g == Then(h, p, onFulfilled, onRejected)
           IN  /\ ReactInv(g, left)
               /\ \A k \in DOMAIN h.pairs : g.pairs[k] = h.pairs[k]
<1> DEFINE f == NewPromise(h)
           c == LastPair(f)
           g == PerformPromiseThen(f, p, onFulfilled, onRejected, c)
<1>1. /\ HeapInv(f, 0)
      /\ LastPromise(f) = LastPromise(h) + 1 /\ DOMAIN f.promises = 1 .. LastPromise(h) + 1
      /\ c = LastPair(h) + 1 /\ DOMAIN f.pairs = 1 .. LastPair(h) + 1
      /\ IsUsable(f, c)
      /\ \A k \in DOMAIN h.pairs : f.pairs[k] = h.pairs[k]
  BY NewPromiseInv
<1>2. /\ DOMAIN h.promises = 1 .. LastPromise(h) /\ LastPromise(h) \in Nat
      /\ DOMAIN h.pairs = 1 .. LastPair(h) /\ LastPair(h) \in Nat
  BY HeapFields DEF HeapInv, LastPromise, LastPair
<1>3. ReactInv(f, out \cup {c})
  BY NewPromiseReact
<1>4. Then(h, p, onFulfilled, onRejected) = g
  BY DEF Then
<1> HIDE DEF f, c
<1>5. /\ Grows(h, f) /\ p \in DOMAIN f.promises /\ c \in DOMAIN f.pairs
      /\ c \notin DOMAIN h.pairs
  BY <1>1, <1>2 DEF Grows
<1>6. ValidHandler(f, onFulfilled) /\ ValidHandler(f, onRejected)
  BY <1>5 DEF ValidHandler, Grows
<1>7. /\ IsReactionOf(f, PromiseReaction(p, onFulfilled, c))
      /\ IsReactionOf(f, PromiseReaction(p, onRejected, c))
  BY <1>1, <1>5, <1>6, ReactionsAreValid DEF HeapInv
<1>8. InHand(f, out \cup {c}, {c, d})
  BY <1>1, <1>5 DEF InHand, IsUsable, Grows
<1>9. ReactInv(g, (out \cup {c}) \ {c, d}) /\ g.pairs = f.pairs
  <2>1. /\ HeapInv(f, 0) /\ p \in DOMAIN f.promises
        /\ HandlersOf(d, onFulfilled, onRejected)
    BY <1>1, <1>5
  <2> QED
    BY ONLY <1>3, <1>7, <1>8, <2>1, PerformThenReact
<1> HIDE DEF g
<1>10. (out \cup {c}) \ {c, d} = left
  BY <1>5
<1> QED
  BY <1>1, <1>4, <1>9, <1>10

\* AsyncFunctionAwait: its two pairs are not in hand any more when it returns.
LEMMA AwaitReact ==
    ASSUME NEW h, HeapInv(h, 0), NEW value \in DOMAIN h.promises \cup {Plain},
           NEW out, out \subseteq DOMAIN h.pairs, ReactInv(h, out)
    PROVE  LET g == AsyncFunctionAwait(h, value)
           IN  /\ ReactInv(g, out)
               /\ \A k \in DOMAIN h.pairs : g.pairs[k] = h.pairs[k]
<1> DEFINE pcap == NewPromise(h)
           p == LastPromise(pcap)
           b == LastPair(pcap)
           resolved == Resolve(pcap, b, value)
           tcap == NewPromise(resolved)
           c == LastPair(tcap)
           handled == [tcap EXCEPT !.promises[LastPromise(tcap)].isHandled = TRUE]
           g == PerformPromiseThen(handled, p, User, User, c)
<1>1. /\ HeapInv(pcap, 0)
      /\ p = LastPromise(h) + 1 /\ DOMAIN pcap.promises = 1 .. LastPromise(h) + 1
      /\ b = LastPair(h) + 1 /\ DOMAIN pcap.pairs = 1 .. LastPair(h) + 1
      /\ \A k \in DOMAIN h.pairs : pcap.pairs[k] = h.pairs[k]
  BY NewPromiseInv
<1>2. /\ DOMAIN h.promises = 1 .. LastPromise(h) /\ LastPromise(h) \in Nat
      /\ DOMAIN h.pairs = 1 .. LastPair(h) /\ LastPair(h) \in Nat
  BY HeapFields DEF HeapInv, LastPromise, LastPair
<1>3. ReactInv(pcap, out \cup {b})
  BY NewPromiseReact
<1>4. AsyncFunctionAwait(h, value) = g
  BY DEF AsyncFunctionAwait
<1> HIDE DEF pcap, p, b
<1>5. /\ p \in DOMAIN pcap.promises /\ b \in DOMAIN pcap.pairs
      /\ b \notin DOMAIN h.pairs /\ DOMAIN h.pairs \subseteq DOMAIN pcap.pairs
      /\ value \in DOMAIN pcap.promises \cup {Plain, Thenable}
  BY <1>1, <1>2
<1>6. /\ HeapInv(resolved, 0)
      /\ DOMAIN resolved.promises = DOMAIN pcap.promises /\ DOMAIN resolved.pairs = DOMAIN pcap.pairs
  <2>1. HeapInv(pcap, 0)
    BY <1>1
  <2> QED
    BY ONLY <1>5, <2>1, ResolveInv
<1>7. /\ ReactInv(resolved, (out \cup {b}) \ {b})
      /\ \A k \in DOMAIN pcap.pairs \ {b} : resolved.pairs[k] = pcap.pairs[k]
  BY <1>1, <1>3, <1>5, ResolveReact, ZenonT(40)
<1>8. ReactInv(resolved, out)
  <2>1. (out \cup {b}) \ {b} = out
    BY <1>5
  <2> QED
    BY <1>7, <2>1
<1> HIDE DEF resolved
<1>9. /\ HeapInv(tcap, 0)
      /\ LastPromise(tcap) = LastPromise(resolved) + 1
      /\ DOMAIN tcap.promises = 1 .. LastPromise(resolved) + 1
      /\ c = LastPair(resolved) + 1 /\ DOMAIN tcap.pairs = 1 .. LastPair(resolved) + 1
      /\ IsUsable(tcap, c)
      /\ \A k \in DOMAIN resolved.pairs : tcap.pairs[k] = resolved.pairs[k]
      /\ IsPending(tcap, LastPromise(tcap))
  BY <1>6, NewPromiseInv
<1>10. ReactInv(tcap, out \cup {c})
  BY <1>6, <1>8, NewPromiseReact
<1>11. /\ DOMAIN resolved.promises = 1 .. LastPromise(resolved) /\ LastPromise(resolved) \in Nat
       /\ DOMAIN resolved.pairs = 1 .. LastPair(resolved) /\ LastPair(resolved) \in Nat
  BY <1>6, HeapFields DEF HeapInv, LastPromise, LastPair
<1> HIDE DEF tcap, c
<1>12. /\ DOMAIN resolved.promises \subseteq DOMAIN tcap.promises
       /\ LastPromise(tcap) \in DOMAIN tcap.promises
       /\ c \in DOMAIN tcap.pairs /\ c \notin DOMAIN resolved.pairs
  BY <1>9, <1>11
<1>13. /\ handled \in HeapType /\ RefInv(handled) /\ QueueInv(handled) /\ WayInv(handled, 0)
       /\ DOMAIN handled.promises = DOMAIN tcap.promises
       /\ handled.pairs = tcap.pairs /\ handled.queue = tcap.queue /\ handled.reported = tcap.reported
       /\ handled.promises[LastPromise(tcap)].isHandled
       /\ \A q \in DOMAIN tcap.promises :
            /\ handled.promises[q].state = tcap.promises[q].state
            /\ handled.promises[q].fulfillReactions = tcap.promises[q].fulfillReactions
            /\ handled.promises[q].rejectReactions = tcap.promises[q].rejectReactions
            /\ q # LastPromise(tcap) => handled.promises[q] = tcap.promises[q]
  BY <1>9, <1>12, HandledInv, ZenonT(40) DEF HeapInv
<1> HIDE DEF handled
<1>14. HeapInv(handled, 0)
  <2>1. ReportInv(handled)
    BY <1>9, <1>12, <1>13 DEF HeapInv, ReportInv, IsPending
  <2> QED
    BY <1>13, <2>1 DEF HeapInv
<1>15. ReactInv(handled, out \cup {c})
  BY <1>10, <1>13, SameLists
<1>16. p \in DOMAIN handled.promises /\ c \in DOMAIN handled.pairs
  BY <1>5, <1>6, <1>12, <1>13
<1>17. IsReactionOf(handled, PromiseReaction(p, User, c)) /\ HandlersOf(0, User, User)
  BY <1>13, <1>16, ReactionsAreValid DEF ValidHandler, User, HandlersOf
<1>18. InHand(handled, out \cup {c}, {c, 0})
  BY <1>9, <1>13, <1>16 DEF InHand, IsUsable
<1> HIDE DEF g
<1>19. ReactInv(g, (out \cup {c}) \ {c, 0}) /\ g.pairs = handled.pairs
  BY <1>14, <1>15, <1>16, <1>17, <1>18, PerformThenReact DEF g
<1>20. (out \cup {c}) \ {c, 0} = out
  <2>1. out \subseteq DOMAIN resolved.pairs
    BY <1>5, <1>6
  <2>2. 0 \notin out /\ c \notin out
    BY <1>2, <1>12, <2>1
  <2> QED
    BY <2>2
<1>21. \A k \in DOMAIN h.pairs : g.pairs[k] = h.pairs[k]
  BY <1>1, <1>5, <1>6, <1>7, <1>9, <1>13, <1>19
<1> QED
  BY <1>4, <1>19, <1>20, <1>21

\* The first job is in the hands of the one who runs it, and the pairs it uses with it.
LEMMA PopReact ==
    ASSUME NEW h, HeapInv(h, 0), h.queue # <<>>, NEW out, ReactInv(h, out)
    PROVE  LET g == [h EXCEPT !.queue = Tail(@)]
               used == {k \in PairNumbers : At(h, 0, 1, k)}
           IN  /\ ReactInv(g, out \cup used)
               /\ \A k \in used : Open(h, out, k)
<1> DEFINE g == [h EXCEPT !.queue = Tail(@)]
           used == {k \in PairNumbers : At(h, 0, 1, k)}
<1>1. /\ g.promises = h.promises /\ g.pairs = h.pairs
      /\ 1 \in DOMAIN h.queue
      /\ DOMAIN g.queue = 1 .. Len(h.queue) - 1
      /\ \A i \in DOMAIN g.queue : g.queue[i] = h.queue[i + 1]
  BY PopInv
<1>2. DOMAIN h.queue = 1 .. Len(h.queue) /\ Len(h.queue) \in Nat
  BY HeapFields DEF HeapInv
<1> HIDE DEF g, used
<1>3. /\ \A i \in DOMAIN g.queue : i + 1 \in DOMAIN h.queue /\ i + 1 # 1
                                    /\ \A n \in DOMAIN g.queue : i + 1 = n + 1 => i = n
      /\ \A i \in DOMAIN h.queue \ {1} : i - 1 \in DOMAIN g.queue /\ (i - 1) + 1 = i
  BY <1>1, <1>2
<1>4. \A i \in DOMAIN g.queue : \A k : At(g, 0, i, k) <=> At(h, 0, i + 1, k)
  BY <1>1, <1>3 DEF At, IsReaction
<1>5. \A p, i, k : p # 0 => (At(g, p, i, k) <=> At(h, p, i, k))
  BY <1>1 DEF At
<1>6. \A i, k : (At(g, 0, i, k) => i \in DOMAIN g.queue) /\ (At(h, 0, i, k) => i \in DOMAIN h.queue)
  BY DEF At
<1>7. ASSUME NEW k \in PairNumbers
      PROVE  /\ Open(g, out \cup used, k) <=> \E p, i : At(g, p, i, k)
             /\ \A p, i, q, n : At(g, p, i, k) /\ At(g, q, n, k) => p = q /\ i = n
             /\ k \in used => Open(h, out, k)
  <2>1. /\ Open(h, out, k) <=> \E p, i : At(h, p, i, k)
        /\ \A p, i, q, n : At(h, p, i, k) /\ At(h, q, n, k) => p = q /\ i = n
    BY DEF ReactInv, SiteInv
  <2>2. k \in used <=> At(h, 0, 1, k)
    BY DEF used
  <2>3. Open(g, out \cup used, k) <=> Open(h, out, k) /\ ~At(h, 0, 1, k)
    BY <1>1, <2>2 DEF Open, IsUsable
  <2>4. (\E p, i : At(g, p, i, k)) <=> (\E p, i : At(h, p, i, k)) /\ ~At(h, 0, 1, k)
    <3>1. ASSUME NEW p, NEW i, At(g, p, i, k)
          PROVE  (\E q, n : At(h, q, n, k)) /\ ~At(h, 0, 1, k)
      <4>1. CASE p = 0
        BY <1>3, <1>4, <1>6, <2>1, <3>1, <4>1
      <4>2. CASE p # 0
        BY <1>5, <2>1, <3>1, <4>2
      <4> QED
        BY <4>1, <4>2
    <3>2. ASSUME NEW p, NEW i, At(h, p, i, k), ~At(h, 0, 1, k)
          PROVE  \E q, n : At(g, q, n, k)
      <4>1. CASE p = 0
        <5>1. i - 1 \in DOMAIN g.queue /\ (i - 1) + 1 = i
          BY <1>3, <1>6, <3>2, <4>1
        <5>2. At(g, 0, i - 1, k)
          BY <1>4, <3>2, <4>1, <5>1
        <5> QED
          BY <5>2
      <4>2. CASE p # 0
        BY <1>5, <3>2, <4>2
      <4> QED
        BY <4>1, <4>2
    <3> QED
      BY <3>1, <3>2
  <2>5. ASSUME NEW p, NEW i, NEW q, NEW n, At(g, p, i, k), At(g, q, n, k)
        PROVE  p = q /\ i = n
    <3>1. (p = 0 => At(h, 0, i + 1, k) /\ i \in DOMAIN g.queue) /\ (p # 0 => At(h, p, i, k))
      BY <1>4, <1>5, <1>6, <2>5
    <3>2. (q = 0 => At(h, 0, n + 1, k) /\ n \in DOMAIN g.queue) /\ (q # 0 => At(h, q, n, k))
      BY <1>4, <1>5, <1>6, <2>5
    <3>3. p = q /\ (p # 0 => i = n) /\ (p = 0 => i + 1 = n + 1)
      BY <2>1, <3>1, <3>2
    <3> QED
      BY <1>3, <3>1, <3>2, <3>3
  <2> QED
    BY <2>1, <2>2, <2>3, <2>4, <2>5
<1>8. SiteInv(g, out \cup used) /\ ParallelInv(g)
  <2>1. SiteInv(g, out \cup used)
    BY <1>7 DEF SiteInv
  <2> QED
    BY <1>1, <2>1 DEF ReactInv, ParallelInv
<1>9. \A k \in used : Open(h, out, k)
  BY <1>7 DEF used
<1> QED
  BY <1>8, <1>9 DEF ReactInv, g, used

\* The pairs of the derived promises whose handlers run.
InRun(b) == {b[i].pair : i \in {n \in DOMAIN b : b[n].task = "reaction"}}

\* The handlers b run for pairs of their own, that the program does not hold (own).
RunInv(h, own, b) ==
    /\ \A i \in DOMAIN b : b[i].task = "reaction" => Open(h, own, b[i].pair)
    /\ \A i \in DOMAIN b : b[i].task = "thenable" => b[i].pair \in own
    /\ \A i, n \in DOMAIN b :
        b[i].task = "reaction" /\ b[n].task = "reaction" /\ b[i].pair = b[n].pair => i = n

UseInv == ReactInv(heap, held \cup InRun(bodies)) /\ RunInv(heap, held, bodies)

\* What is not done with the pairs of the running handlers does not matter to them.
LEMMA RunStays ==
    ASSUME NEW h, NEW g, NEW own, NEW left, NEW b, RunInv(h, own, b),
           own \subseteq left, left \cap InRun(b) = {},
           \A k \in InRun(b) : k \in DOMAIN g.pairs /\ g.pairs[k] = h.pairs[k]
    PROVE  RunInv(g, left, b)
<1>1. \A i \in DOMAIN b : b[i].task = "reaction" => b[i].pair \in InRun(b)
  BY DEF InRun
<1>2. \A k \in InRun(b) : IsUsable(g, k) <=> IsUsable(h, k)
  BY DEF IsUsable
<1> QED
  BY <1>1, <1>2 DEF RunInv, Open

\* A handler that ends takes its pair out of the running ones.
LEMMA RunEnds ==
    ASSUME Inv, NEW own, RunInv(heap, own, bodies), bodies # <<>>
    PROVE  LET b == Front(bodies)
               body == Last(bodies)
           IN  /\ RunInv(heap, own, b)
               /\ body.task \in {"reaction", "thenable"}
               /\ body.task = "thenable" => body.pair \in own /\ InRun(b) = InRun(bodies)
               /\ body.task = "reaction" =>
                    /\ Open(heap, own, body.pair)
                    /\ body.pair \notin InRun(b) /\ InRun(bodies) = InRun(b) \cup {body.pair}
<1> DEFINE b == Front(bodies)
           n == Len(bodies)
<1>1. /\ bodies \in Seq(BodyType) /\ Len(bodies) \in Nat /\ DOMAIN bodies = 1 .. Len(bodies)
      /\ Len(bodies) # 0
  BY LenProperties, EmptySeq DEF Inv, ProgramInv
<1>2. Last(bodies) = bodies[n] /\ n \in DOMAIN bodies
  BY <1>1 DEF Last
<1>3. bodies[n].task \in {"reaction", "thenable"}
  <2>1. Last(bodies) \in BodyType
    BY BodiesFacts DEF Inv
  <2> QED
    BY <1>2, <2>1 DEF BodyType
<1>4. /\ DOMAIN b = 1 .. n - 1 /\ \A i \in DOMAIN b : b[i] = bodies[i]
  <2>1. b = SubSeq(bodies, 1, Len(bodies) - 1)
    BY DEF Front
  <2>2. /\ DOMAIN SubSeq(bodies, 1, Len(bodies) - 1) = 1 .. Len(bodies) - 1
        /\ \A i \in 1 .. Len(bodies) - 1 : SubSeq(bodies, 1, Len(bodies) - 1)[i] = bodies[i]
    BY <1>1
  <2> QED
    BY <2>1, <2>2
<1>5. DOMAIN bodies = DOMAIN b \cup {n} /\ n \notin DOMAIN b
  BY <1>1, <1>4
<1> HIDE DEF b, n
<1>6. RunInv(heap, own, b)
  BY <1>4, <1>5 DEF RunInv
<1>7. \A k : k \in InRun(bodies) <=> k \in InRun(b) \/ (bodies[n].task = "reaction" /\ k = bodies[n].pair)
  BY <1>4, <1>5 DEF InRun
<1>8. ASSUME bodies[n].task = "thenable"
      PROVE  bodies[n].pair \in own /\ InRun(b) = InRun(bodies)
  BY <1>2, <1>7, <1>8 DEF RunInv
<1>9. ASSUME bodies[n].task = "reaction"
      PROVE  /\ Open(heap, own, bodies[n].pair)
             /\ bodies[n].pair \notin InRun(b) /\ InRun(bodies) = InRun(b) \cup {bodies[n].pair}
  <2>1. Open(heap, own, bodies[n].pair) /\ InRun(bodies) = InRun(b) \cup {bodies[n].pair}
    BY <1>2, <1>7, <1>9 DEF RunInv
  <2>2. bodies[n].pair \notin InRun(b)
    BY <1>2, <1>4, <1>5, <1>9 DEF RunInv, InRun
  <2> QED
    BY <2>1, <2>2
<1> QED
  BY <1>2, <1>3, <1>6, <1>8, <1>9 DEF b

\* A handler that starts brings its pair.
LEMMA RunStarts ==
    ASSUME Inv, NEW g, NEW own, RunInv(g, own, bodies), NEW body \in BodyType,
           body.task = "reaction" => Open(g, own, body.pair) /\ body.pair \notin InRun(bodies),
           body.task = "thenable" => body.pair \in own
    PROVE  LET b == Append(bodies, body)
           IN  /\ RunInv(g, own, b)
               /\ body.task = "thenable" => InRun(b) = InRun(bodies)
               /\ body.task = "reaction" => InRun(b) = InRun(bodies) \cup {body.pair}
<1> DEFINE b == Append(bodies, body)
           n == Len(bodies) + 1
<1>1. /\ bodies \in Seq(BodyType) /\ Len(bodies) \in Nat /\ DOMAIN bodies = 1 .. Len(bodies)
  BY LenProperties DEF Inv, ProgramInv
<1>2. DOMAIN b = 1 .. n /\ b[n] = body /\ \A i \in DOMAIN bodies : b[i] = bodies[i]
  BY <1>1, AppendProperties, LenProperties
<1>3. DOMAIN b = DOMAIN bodies \cup {n} /\ n \notin DOMAIN bodies
  BY <1>1, <1>2
<1> HIDE DEF b, n
<1>4. \A i \in DOMAIN bodies : bodies[i].task = "reaction" => bodies[i].pair \in InRun(bodies)
  BY DEF InRun
<1>5. RunInv(g, own, b)
  BY <1>2, <1>3, <1>4 DEF RunInv
<1>6. \A k : k \in InRun(b) <=> k \in InRun(bodies) \/ (body.task = "reaction" /\ k = body.pair)
  BY <1>2, <1>3 DEF InRun
<1> QED
  BY <1>5, <1>6 DEF b

\* The first job, popped, and the pairs that come into its hands.
LEMMA JobUses ==
    ASSUME Inv, NEW out, ReactInv(heap, out), heap.queue # <<>>
    PROVE  /\ Job.task = "thenable" => ReactInv(Popped, out)
           /\ Job.task = "reaction" =>
                LET used == {Job.reaction.capability, Job.reaction.handler.pair} \ {0}
                IN  ReactInv(Popped, out \cup used) /\ \A k \in used : Open(heap, out, k)
<1> DEFINE used == {k \in PairNumbers : At(heap, 0, 1, k)}
<1>1. HeapInv(heap, 0) /\ heap \in HeapType
  BY DEF Inv, HeapInv
<1>2. ReactInv(Popped, out \cup used) /\ \A k \in used : Open(heap, out, k)
  BY <1>1, PopReact DEF Popped
<1>3. Job = heap.queue[1] /\ 1 \in DOMAIN heap.queue /\ Job \in JobType
  BY <1>1, PopInv, HeapFields DEF Job
<1> HIDE DEF used
<1>4. ASSUME Job.task = "thenable"
      PROVE  ReactInv(Popped, out)
  <2>1. used = {}
    BY <1>3, <1>4 DEF used, At, IsReaction
  <2>2. out \cup used = out
    BY <2>1
  <2> QED
    BY <1>2, <2>2
<1>5. ASSUME Job.task = "reaction"
      PROVE  used = {Job.reaction.capability, Job.reaction.handler.pair} \ {0}
  <2>1. Job.reaction \in ReactionType
    BY <1>3, <1>5 DEF JobType
  <2>2. Job.reaction.capability \in Nat /\ Job.reaction.handler.pair \in Nat
    BY <2>1 DEF ReactionType
  <2>3. \A k : At(heap, 0, 1, k) <=> k \in {Job.reaction.capability, Job.reaction.handler.pair}
    BY <1>3, <1>5 DEF At, IsReaction, Uses
  <2> QED
    BY <2>2, <2>3 DEF used, PairNumbers
<1> QED
  BY <1>2, <1>4, <1>5

\* A built-in handler uses up the pairs of its reaction.
LEMMA PromiseReactionJobReact ==
    ASSUME Inv, PromiseReactionJob, NEW out, out \subseteq DOMAIN heap.pairs, ReactInv(heap, out)
    PROVE  ReactInv(heap', out) /\ \A j \in out : heap'.pairs[j] = heap.pairs[j]
<1> DEFINE handler == Job.reaction.handler
           c == Job.reaction.capability
           d == handler.pair
           hands == out \cup ({c, d} \ {0})
<1>1. /\ heap.queue # <<>> /\ Job.task = "reaction" /\ handler # User
      /\ heap' = CASE handler = Thrower -> Reject(Popped, c)
                   [] handler = Identity -> Resolve(Popped, c, Plain)
                   [] handler.name = "resolve" -> Resolve(Resolve(Popped, handler.pair, Plain), c, Plain)
                   [] handler.name = "reject" -> Resolve(Reject(Popped, handler.pair), c, Plain)
  BY DEF PromiseReactionJob, CanRun
<1>2. /\ HeapInv(Popped, 0) /\ Popped.promises = heap.promises /\ Popped.pairs = heap.pairs
      /\ c \in DOMAIN Popped.pairs /\ ValidHandler(heap, handler)
  BY <1>1, JobFacts DEF ValidReaction
<1>3. ReactInv(Popped, hands) /\ \A k \in {c, d} \ {0} : Open(heap, out, k)
  BY <1>1, JobUses
<1>4. 0 \notin DOMAIN heap.pairs
  BY HeapFields DEF Inv, HeapInv
<1>5. c \in hands /\ c \notin out
  BY <1>2, <1>3, <1>4 DEF Open
<1> HIDE DEF handler, c
<1>6. CASE handler = Thrower \/ handler = Identity
  <2>1. hands \ {c} = out
    BY <1>5, <1>6 DEF Thrower, Identity
  <2>2. heap' = Reject(Popped, c) \/ heap' = Resolve(Popped, c, Plain)
    BY <1>1, <1>6 DEF Thrower, Identity
  <2>3. ReactInv(heap', hands \ {c}) /\ \A j \in DOMAIN Popped.pairs \ {c} : heap'.pairs[j] = Popped.pairs[j]
    <3> HIDE DEF hands
    <3>1. CASE heap' = Reject(Popped, c)
      BY <1>2, <1>3, <1>5, <3>1, RejectCallReact
    <3>2. CASE heap' = Resolve(Popped, c, Plain)
      BY <1>2, <1>3, <1>5, <3>2, ResolveReact
    <3> QED
      BY <2>2, <3>1, <3>2
  <2> QED
    BY <1>2, <1>5, <2>1, <2>3
<1>7. ASSUME NEW k \in DOMAIN heap.pairs, handler = ResolveOf(k) \/ handler = RejectOf(k)
      PROVE  ReactInv(heap', out) /\ \A j \in out : heap'.pairs[j] = heap.pairs[j]
  <2>1. d = k /\ k # 0 /\ k \in hands /\ k \notin out
    BY <1>3, <1>4, <1>7 DEF ResolveOf, RejectOf, Open
  <2>2. PICK g \in {Resolve(Popped, k, Plain), Reject(Popped, k)} : heap' = Resolve(g, c, Plain)
    BY <1>1, <1>7 DEF Identity, Thrower, ResolveOf, RejectOf
  <2>3. (hands \ {k}) \ {c} = out /\ (k = c => hands \ {c} = out)
    BY <1>5, <2>1
  <2> HIDE DEF hands, d
  <2>4. /\ HeapInv(g, 0) /\ DOMAIN g.promises = DOMAIN heap.promises
        /\ DOMAIN g.pairs = DOMAIN heap.pairs
    BY <1>2, <2>2, ResolveInv, RejectCallInv
  <2>5. /\ ReactInv(g, hands) /\ ReactInv(g, hands \ {k})
        /\ \A j \in DOMAIN Popped.pairs \ {k} : g.pairs[j] = Popped.pairs[j]
    <3>1. CASE g = Resolve(Popped, k, Plain)
      BY <1>2, <1>3, <2>1, <3>1, ResolveReact
    <3>2. CASE g = Reject(Popped, k)
      BY <1>2, <1>3, <2>1, <3>2, RejectCallReact
    <3> QED
      BY <2>2, <3>1, <3>2
  <2>6. ReactInv(heap', out) /\ \A j \in DOMAIN g.pairs \ {c} : heap'.pairs[j] = g.pairs[j]
    <3>1. CASE k = c
      <4>1. c \in DOMAIN g.pairs /\ Plain \in DOMAIN g.promises \cup {Plain, Thenable}
        BY <1>2, <2>4
      <4>2. /\ ReactInv(Resolve(g, c, Plain), hands \ {c})
            /\ \A j \in DOMAIN g.pairs \ {c} : Resolve(g, c, Plain).pairs[j] = g.pairs[j]
        BY <1>5, <2>4, <2>5, <4>1, ResolveReact
      <4> QED
        BY <2>2, <2>3, <3>1, <4>2
    <3>2. CASE k # c
      <4>1. c \in hands \ {k}
        BY <1>5, <3>2
      <4>2. c \in DOMAIN g.pairs /\ Plain \in DOMAIN g.promises \cup {Plain, Thenable}
        BY <1>2, <2>4
      <4>3. /\ ReactInv(Resolve(g, c, Plain), (hands \ {k}) \ {c})
            /\ \A j \in DOMAIN g.pairs \ {c} : Resolve(g, c, Plain).pairs[j] = g.pairs[j]
        <5> PICK o : o = hands \ {k}
          OBVIOUS
        <5>1. c \in o /\ ReactInv(g, o)
          BY <2>5, <4>1
        <5>2. ReactInv(Resolve(g, c, Plain), o \ {c})
          BY <2>4, <4>2, <5>1, ResolveReact
        <5>3. \A j \in DOMAIN g.pairs \ {c} : Resolve(g, c, Plain).pairs[j] = g.pairs[j]
          BY <2>4, <4>2, <5>1, ResolveReact
        <5> QED
          BY <5>2, <5>3
      <4> QED
        BY <2>2, <2>3, <4>3
    <3> QED
      BY <3>1, <3>2
  <2> QED
    BY <1>2, <1>5, <2>1, <2>4, <2>5, <2>6
<1> QED
  BY <1>1, <1>2, <1>6, <1>7 DEF ValidHandler

\* The new pair for the promise that follows another is taken by its reaction.
LEMMA PromiseResolveThenableJobReact ==
    ASSUME Inv, PromiseResolveThenableJob, NEW out, out \subseteq DOMAIN heap.pairs, ReactInv(heap, out)
    PROVE  ReactInv(heap', out) /\ \A j \in out : heap'.pairs[j] = heap.pairs[j]
<1> DEFINE g == CreateResolvingFunctions(Popped, Job.promise)
           n == LastPair(g)
<1>1. /\ heap.queue # <<>> /\ Job.task = "thenable" /\ Job.thenable # Thenable
      /\ heap' = Then(g, Job.thenable, ResolveOf(n), RejectOf(n))
  BY DEF PromiseResolveThenableJob, CanRun
<1>2. /\ HeapInv(Popped, Job.promise) /\ Job.promise # 0
      /\ Popped.promises = heap.promises /\ Popped.pairs = heap.pairs
      /\ Job.thenable \in DOMAIN heap.promises
  BY <1>1, JobFacts
<1>3. ReactInv(Popped, out)
  BY <1>1, JobUses
<1>4. /\ HeapInv(g, 0) /\ g.promises = Popped.promises
      /\ n = LastPair(Popped) + 1 /\ DOMAIN g.pairs = 1 .. LastPair(Popped) + 1
      /\ IsUsable(g, n)
      /\ \A k \in DOMAIN Popped.pairs : g.pairs[k] = Popped.pairs[k]
  BY <1>2, CreateInv
<1>5. ReactInv(g, out \cup {n})
  BY <1>2, <1>3, CreateReact
<1>6. DOMAIN heap.pairs = 1 .. LastPair(Popped) /\ LastPair(Popped) \in Nat
  BY <1>2, HeapFields DEF HeapInv, LastPair
<1> HIDE DEF g, n
<1>7. /\ n \in DOMAIN g.pairs /\ n \notin DOMAIN heap.pairs /\ DOMAIN heap.pairs \subseteq DOMAIN g.pairs
      /\ Job.thenable \in DOMAIN g.promises
  BY <1>2, <1>4, <1>6
<1>8. /\ ValidHandler(g, ResolveOf(n)) /\ ValidHandler(g, RejectOf(n))
      /\ HandlersOf(n, ResolveOf(n), RejectOf(n))
  BY <1>7 DEF ValidHandler, ResolveOf, RejectOf, HandlersOf
<1>9. /\ n \in out \cup {n} /\ IsUsable(g, n) /\ out \cup {n} \subseteq DOMAIN g.pairs
      /\ out = (out \cup {n}) \ {n}
  BY <1>4, <1>7
<1>10. /\ ReactInv(heap', out)
       /\ \A k \in DOMAIN g.pairs : heap'.pairs[k] = g.pairs[k]
  <2>1. HeapInv(g, 0) /\ Job.thenable \in DOMAIN g.promises
    BY <1>4, <1>7
  <2>2. LET f == Then(g, Job.thenable, ResolveOf(n), RejectOf(n))
        IN  /\ ReactInv(f, out)
            /\ \A k \in DOMAIN g.pairs : f.pairs[k] = g.pairs[k]
    BY ONLY <1>5, <1>8, <1>9, <2>1, ThenReact
  <2> QED
    BY <1>1, <2>2
<1> QED
  BY <1>2, <1>4, <1>7, <1>10

\* Each call keeps the account of the pairs.
LEMMA UseStep ==
    ASSUME Inv, UseInv, Next
    PROVE  UseInv'
<1> DEFINE run == InRun(bodies)
           out == held \cup run
<1>1. /\ HeapInv(heap, 0) /\ held \subseteq DOMAIN heap.pairs /\ known \subseteq DOMAIN heap.promises
      /\ ReactInv(heap, out) /\ RunInv(heap, held, bodies)
  BY DEF Inv, ProgramInv, UseInv
<1>2. /\ held \cap run = {} /\ run \subseteq DOMAIN heap.pairs /\ out \subseteq DOMAIN heap.pairs
      /\ 0 \notin DOMAIN heap.pairs
  <2>1. \A k \in run : Open(heap, held, k)
    BY <1>1 DEF RunInv, InRun
  <2> QED
    BY <1>1, <2>1, HeapFields DEF Open, HeapInv
<1>3. \A value \in Values : value \in DOMAIN heap.promises \cup {Plain}
  BY <1>1 DEF Values
<1>4. held \subseteq out /\ run \subseteq out
  OBVIOUS
\* A step that starts and ends no handler.
<1>5. ASSUME bodies' = bodies, held \subseteq held', held' \cap run = {},
             ReactInv(heap', held' \cup run), DOMAIN heap.pairs \subseteq DOMAIN heap'.pairs,
             \A k \in run : heap'.pairs[k] = heap.pairs[k]
      PROVE  UseInv'
  <2>1. \A k \in run : k \in DOMAIN heap'.pairs /\ heap'.pairs[k] = heap.pairs[k]
    BY <1>2, <1>5
  <2>2. RunInv(heap', held', bodies)
    BY <1>1, <1>5, <2>1, RunStays
  <2> QED
    BY <1>5, <2>2 DEF UseInv
<1>6. ASSUME bodies' = bodies, held' = held, ReactInv(heap', out),
             \A k \in out : heap'.pairs[k] = heap.pairs[k]
      PROVE  UseInv'
  <2>1. DOMAIN heap.pairs \subseteq DOMAIN heap'.pairs
    BY HeapStep DEF Grows
  <2> QED
    BY <1>2, <1>4, <1>5, <1>6, <2>1
<1> HIDE DEF out
<1>7. CASE PromiseConstructor
  <2> DEFINE n == LastPair(heap')
  <2>1. heap' = NewPromise(heap) /\ held' = held \cup {n} /\ bodies' = bodies
    BY <1>7 DEF PromiseConstructor
  <2>2. /\ n = LastPair(heap) + 1 /\ DOMAIN heap'.pairs = 1 .. LastPair(heap) + 1
        /\ \A k \in DOMAIN heap.pairs : heap'.pairs[k] = heap.pairs[k]
    BY <1>1, <2>1, NewPromiseInv
  <2>3. DOMAIN heap.pairs = 1 .. LastPair(heap) /\ LastPair(heap) \in Nat
    BY <1>1, HeapFields DEF HeapInv, LastPair
  <2>4. ReactInv(heap', out \cup {n})
    BY <1>1, <2>1, NewPromiseReact
  <2> HIDE DEF n
  <2>5. n \notin DOMAIN heap.pairs /\ DOMAIN heap.pairs \subseteq DOMAIN heap'.pairs
    BY <2>2, <2>3
  <2>6. out \cup {n} = held' \cup run
    BY <2>1 DEF out
  <2> QED
    BY <1>2, <1>5, <2>1, <2>2, <2>4, <2>5, <2>6
<1>8. ASSUME NEW p \in known, CallThen(p, User, Thrower) \/ CallThen(p, Identity, User)
      PROVE  UseInv'
  <2>1. PICK f, r : f \in {User, Identity} /\ r \in {User, Thrower} /\ CallThen(p, f, r)
    BY <1>8
  <2>2. ValidHandler(heap, f) /\ ValidHandler(heap, r) /\ HandlersOf(0, f, r)
    BY <2>1 DEF ValidHandler, HandlersOf, User, Identity, Thrower
  <2>3. heap' = Then(heap, p, f, r) /\ bodies' = bodies /\ held' = held
    BY <2>1 DEF CallThen
  <2>4. out = out \ {0} /\ p \in DOMAIN heap.promises
    BY <1>1, <1>2
  <2>5. ReactInv(heap', out) /\ \A k \in DOMAIN heap.pairs : heap'.pairs[k] = heap.pairs[k]
    BY <1>1, <1>2, <2>2, <2>3, <2>4, ThenReact
  <2> QED
    BY <1>2, <1>6, <2>3, <2>5
<1>9. ASSUME NEW value \in Values, CallAwait(value)
      PROVE  UseInv'
  <2>1. heap' = AsyncFunctionAwait(heap, value) /\ bodies' = bodies /\ held' = held
    BY <1>9 DEF CallAwait
  <2>2. ReactInv(heap', out) /\ \A k \in DOMAIN heap.pairs : heap'.pairs[k] = heap.pairs[k]
    BY <1>1, <1>2, <1>3, <2>1, AwaitReact
  <2> QED
    BY <1>2, <1>6, <2>1, <2>2
<1>10. ASSUME NEW k \in held, CallResolve(k) \/ CallResolveForeign(k) \/ CallReject(k)
       PROVE  UseInv'
  <2>1. k \in DOMAIN heap.pairs /\ k \in out /\ k \notin run
    BY <1>1, <1>2 DEF out
  <2>2. bodies' = bodies /\ held' = held
    BY <1>10 DEF CallResolve, CallResolveForeign, CallReject
  <2>3. \/ \E value \in DOMAIN heap.promises \cup {Plain, Thenable} : heap' = Resolve(heap, k, value)
        \/ heap' = Reject(heap, k)
    BY <1>3, <1>10 DEF CallResolve, CallResolveForeign, CallReject
  <2>4. ReactInv(heap', out) /\ \A j \in DOMAIN heap.pairs \ {k} : heap'.pairs[j] = heap.pairs[j]
    <3>1. CASE \E value \in DOMAIN heap.promises \cup {Plain, Thenable} : heap' = Resolve(heap, k, value)
      <4>1. PICK value \in DOMAIN heap.promises \cup {Plain, Thenable} : heap' = Resolve(heap, k, value)
        BY <3>1
      <4> QED
        BY <1>1, <2>1, <4>1, ResolveReact
    <3>2. CASE heap' = Reject(heap, k)
      BY <1>1, <2>1, <3>2, RejectCallReact
    <3> QED
      BY <2>3, <3>1, <3>2
  <2>5. DOMAIN heap.pairs \subseteq DOMAIN heap'.pairs
    BY HeapStep DEF Grows
  <2>6. held' \cup run = out
    BY <2>2 DEF out
  <2> QED
    BY <1>2, <1>5, <2>1, <2>2, <2>4, <2>5, <2>6
<1>11. CASE StartHandler
  <2> DEFINE c == Job.reaction.capability
             body == [task |-> "reaction", pair |-> c]
  <2>1. /\ heap.queue # <<>> /\ Job.task = "reaction" /\ Job.reaction.handler = User
        /\ heap' = Popped /\ bodies' = Append(bodies, body) /\ held' = held
    BY <1>11 DEF StartHandler, CanRun
  <2>2. Popped.pairs = heap.pairs /\ c \in DOMAIN heap.pairs
    BY <2>1, JobFacts DEF ValidReaction
  <2>3. {c, Job.reaction.handler.pair} \ {0} = {c}
    BY <1>2, <2>1, <2>2 DEF User
  <2>4. ReactInv(heap', out \cup {c}) /\ Open(heap, out, c)
    BY <1>1, <2>1, <2>3, JobUses
  <2>5. Open(heap', held, c) /\ c \notin run
    BY <2>1, <2>2, <2>4 DEF Open, IsUsable, out
  <2>6. RunInv(heap', held, bodies)
    BY <1>1, <1>2, <2>1, <2>2, RunStays
  <2>7. body \in BodyType /\ body.task = "reaction" /\ body.pair = c
    BY <1>1, <2>2, HeapFields DEF BodyType, HeapInv
  <2> HIDE DEF body
  <2>8. RunInv(heap', held, Append(bodies, body)) /\ InRun(Append(bodies, body)) = run \cup {c}
    BY <2>5, <2>6, <2>7, RunStarts
  <2>9. held \cup (run \cup {c}) = out \cup {c}
    BY DEF out
  <2> QED
    BY <2>1, <2>4, <2>8, <2>9 DEF UseInv
<1>12. CASE PromiseReactionJob
  BY <1>1, <1>2, <1>6, <1>12, PromiseReactionJobReact DEF PromiseReactionJob
<1>13. CASE PromiseResolveThenableJob
  BY <1>1, <1>2, <1>6, <1>13, PromiseResolveThenableJobReact DEF PromiseResolveThenableJob
<1>14. CASE StartForeignThen
  <2> DEFINE n == LastPair(heap')
             body == [task |-> "thenable", pair |-> n]
  <2>1. /\ heap.queue # <<>> /\ Job.task = "thenable"
        /\ heap' = CreateResolvingFunctions(Popped, Job.promise)
        /\ bodies' = Append(bodies, body) /\ held' = held \cup {n}
    BY <1>14 DEF StartForeignThen, CanRun
  <2>2. /\ HeapInv(Popped, Job.promise) /\ Job.promise # 0 /\ Popped.pairs = heap.pairs
    BY <2>1, JobFacts
  <2>3. /\ n = LastPair(Popped) + 1 /\ DOMAIN heap'.pairs = 1 .. LastPair(Popped) + 1
        /\ \A k \in DOMAIN Popped.pairs : heap'.pairs[k] = Popped.pairs[k]
    BY <2>1, <2>2, CreateInv
  <2>4. DOMAIN heap.pairs = 1 .. LastPair(Popped) /\ LastPair(Popped) \in Nat
    BY <2>2, HeapFields DEF HeapInv, LastPair
  <2>5. ReactInv(heap', out \cup {n})
    BY <1>1, <2>1, <2>2, JobUses, CreateReact
  <2>6. body \in BodyType /\ body.task = "thenable" /\ body.pair = n
    BY <2>3, <2>4 DEF BodyType
  <2> HIDE DEF n, body
  <2>7. n \notin DOMAIN heap.pairs /\ DOMAIN heap.pairs \subseteq DOMAIN heap'.pairs
    BY <2>3, <2>4
  <2>8. RunInv(heap', held \cup {n}, bodies)
    <3>1. (held \cup {n}) \cap run = {}
      BY <1>2, <2>7
    <3>2. \A k \in run : k \in DOMAIN heap'.pairs /\ heap'.pairs[k] = heap.pairs[k]
      BY <1>2, <2>2, <2>3, <2>7
    <3> QED
      BY <1>1, <3>1, <3>2, RunStays
  <2>9. RunInv(heap', held', bodies') /\ InRun(bodies') = run
    BY <2>1, <2>6, <2>8, RunStarts
  <2>10. held' \cup run = out \cup {n}
    BY <2>1 DEF out
  <2> QED
    BY <2>5, <2>9, <2>10 DEF UseInv
\* The innermost handler ends, with or without a call of a resolving function.
<1>15. CASE HandlerReturns \/ HandlerThrows
  <2> DEFINE body == Last(bodies)
             left == InRun(bodies')
             k == body.pair
  <2>1. /\ bodies # <<>> /\ bodies' = Front(bodies) /\ held' = held
        /\ \/ body.task # "reaction" /\ heap' = heap
           \/ \E value \in DOMAIN heap.promises \cup {Plain, Thenable} :
                body.task = "reaction" /\ heap' = Resolve(heap, k, value)
           \/ heap' = Reject(heap, k)
    BY <1>3, <1>15 DEF HandlerReturns, HandlerThrows
  <2>2. k \in DOMAIN heap.pairs
    BY <2>1, BodiesFacts DEF Inv
  <2>3. /\ RunInv(heap, held, bodies')
        /\ body.task \in {"reaction", "thenable"}
        /\ body.task = "thenable" => k \in held /\ left = run
        /\ body.task = "reaction" => Open(heap, held, k) /\ k \notin left /\ run = left \cup {k}
    BY <1>1, <2>1, RunEnds
  <2> HIDE DEF body, left, k, run
  <2>4. k \notin left /\ k \in out /\ left \subseteq run /\ held \cap left = {}
    BY <1>2, <2>3 DEF out
  <2>5. /\ body.task = "thenable" => held \cup left = out
        /\ body.task = "reaction" => held \cup left = out \ {k}
    BY <2>3 DEF out, Open
  <2>6. /\ ReactInv(heap', held \cup left)
        /\ \A j \in DOMAIN heap.pairs \ {k} : heap'.pairs[j] = heap.pairs[j]
    <3>1. CASE body.task # "reaction" /\ heap' = heap
      BY <1>1, <2>3, <2>5, <3>1
    <3>2. CASE \E value \in DOMAIN heap.promises \cup {Plain, Thenable} :
                body.task = "reaction" /\ heap' = Resolve(heap, k, value)
      <4>1. PICK value \in DOMAIN heap.promises \cup {Plain, Thenable} :
                body.task = "reaction" /\ heap' = Resolve(heap, k, value)
        BY <3>2
      <4>2. /\ ReactInv(heap', out \ {k})
            /\ \A j \in DOMAIN heap.pairs \ {k} : heap'.pairs[j] = heap.pairs[j]
        BY <1>1, <2>2, <2>4, <4>1, ResolveReact
      <4> QED
        BY <2>5, <4>1, <4>2
    <3>3. CASE heap' = Reject(heap, k)
      BY <1>1, <2>2, <2>3, <2>4, <2>5, <3>3, RejectCallReact
    <3> QED
      BY <2>1, <3>1, <3>2, <3>3
  <2>7. \A j \in left : j \in DOMAIN heap'.pairs /\ heap'.pairs[j] = heap.pairs[j]
    <3>1. DOMAIN heap.pairs \subseteq DOMAIN heap'.pairs
      BY HeapStep DEF Grows
    <3> QED
      BY <1>2, <2>4, <2>6, <3>1
  <2>8. RunInv(heap', held, bodies')
    BY <2>3, <2>4, <2>7, RunStays DEF left
  <2> QED
    BY <2>1, <2>6, <2>8 DEF UseInv, left
<1> QED
  BY <1>7, <1>8, <1>9, <1>10, <1>11, <1>12, <1>13, <1>14, <1>15 DEF Next, RunJob

\* It is kept from the start.
LEMMA UseInvHolds == Spec => []UseInv
<1>1. Init => UseInv
  <2> SUFFICES ASSUME Init
               PROVE  UseInv
    OBVIOUS
  <2>1. /\ heap.promises = <<>> /\ heap.pairs = <<>> /\ heap.queue = <<>> /\ bodies = <<>>
    BY DEF Init
  <2>2. DOMAIN heap.promises = {} /\ DOMAIN heap.pairs = {} /\ DOMAIN heap.queue = {} /\ DOMAIN bodies = {}
    BY <2>1
  <2>3. (\A out, k : ~Open(heap, out, k)) /\ \A p, i, k : ~At(heap, p, i, k)
    BY <2>2 DEF Open, At
  <2> QED
    BY <2>2, <2>3 DEF UseInv, ReactInv, ParallelInv, SiteInv, RunInv
<1>2. Inv /\ UseInv /\ [Next]_vars => UseInv'
  <2>1. CASE Next
    BY <2>1, UseStep
  <2>2. CASE UNCHANGED vars
    BY <2>2 DEF vars, UseInv
  <2> QED
    BY <2>1, <2>2
<1> QED
  BY <1>1, <1>2, InvHolds, PTL DEF Spec

-----------------------------------------------------------------------------
(* Theorems *)

\* The types of the objects, and what they refer to exists.
THEOREM PromiseTypeCorrect == Spec => []TypeOK
<1>1. ASSUME Inv
      PROVE  TypeOK
  <2>1. heap \in HeapType /\ RefInv(heap) /\ QueueInv(heap) /\ ProgramInv
    BY <1>1 DEF Inv, HeapInv
  <2>2. \A h, r : h = heap /\ ValidReaction(h, r) /\ r \in ReactionType => r \in Reactions
    <3> SUFFICES ASSUME NEW r \in ReactionType, ValidReaction(heap, r)
                 PROVE  r \in Reactions
      OBVIOUS
    <3>1. r.of \in Promises /\ r.capability \in Pairs /\ r.handler \in Handlers
      BY DEF ValidReaction, ValidHandler, Promises, Pairs, Handlers
    <3> QED
      BY <3>1 DEF ReactionType, Reactions
  <2>3. \A p \in Promises :
        /\ State(p) \in {"pending", "fulfilled", "rejected"} /\ heap.promises[p].isHandled \in BOOLEAN
        /\ ToSet(heap.promises[p].fulfillReactions \o heap.promises[p].rejectReactions) \subseteq Reactions
    <3> SUFFICES ASSUME NEW p \in Promises
                 PROVE  /\ State(p) \in {"pending", "fulfilled", "rejected"}
                        /\ heap.promises[p].isHandled \in BOOLEAN
                        /\ ToSet(heap.promises[p].fulfillReactions \o heap.promises[p].rejectReactions)
                                \subseteq Reactions
      OBVIOUS
    <3> DEFINE f == heap.promises[p].fulfillReactions
               r == heap.promises[p].rejectReactions
    <3>1. heap.promises[p] \in PromiseType
      BY <2>1, HeapFields DEF Promises
    <3>2. /\ f \in Seq(ReactionType) /\ r \in Seq(ReactionType)
          /\ ListInv(heap, p, f) /\ ListInv(heap, p, r)
          /\ \A s \in {f, r} : DOMAIN s = 1 .. Len(s) /\ Len(s) \in Nat /\ \A i \in DOMAIN s : s[i] \in ReactionType
      BY <2>1, <3>1, PromiseFields DEF Promises, RefInv
    <3> HIDE DEF f, r
    <3>3. \A s \in {f, r} : \A i \in DOMAIN s : s[i] \in Reactions
      BY <2>2, <3>2 DEF ListInv
    <3>4. \A i \in DOMAIN (f \o r) : (f \o r)[i] \in Reactions
      <4>1. /\ DOMAIN (f \o r) = 1 .. Len(f) + Len(r)
            /\ \A i \in 1 .. Len(f) + Len(r) : (f \o r)[i] = IF i <= Len(f) THEN f[i] ELSE r[i - Len(f)]
        BY <3>2, ConcatProperties, LenProperties
      <4> QED
        BY <3>2, <3>3, <4>1
    <3>5. ToSet(f \o r) \subseteq Reactions
      BY <3>4 DEF ToSet
    <3> QED
      BY <3>1, <3>5 DEF PromiseType, State, f, r
  <2>4. \A k \in Pairs : heap.pairs[k] \in [promise : Promises, alreadyResolved : BOOLEAN]
    BY <2>1, HeapFields DEF Pairs, Promises, RefInv, PairType
  <2>5. ASSUME NEW i \in DOMAIN heap.queue
        PROVE  LET job == heap.queue[i]
               IN  \/ job.task = "reaction" /\ job.reaction \in Reactions
                   \/ job.task = "thenable" /\ job.promise \in Promises
                      /\ job.thenable \in (Promises \cup {Thenable}) \ {job.promise}
    <3>1. heap.queue[i] \in JobType
      BY <2>1, HeapFields
    <3>2. CASE IsReaction(heap, i)
      <4>1. heap.queue[i].reaction \in ReactionType
        BY <3>1, <3>2 DEF JobType, IsReaction
      <4> QED
        BY <2>1, <2>2, <3>2, <4>1 DEF QueueInv, IsReaction
    <3>3. CASE IsThenable(heap, i)
      BY <2>1, <3>3 DEF RefInv, IsThenable, Promises
    <3> QED
      BY <3>1, <3>2, <3>3 DEF JobType, IsReaction, IsThenable
  <2>6. \A i \in DOMAIN bodies : bodies[i].task \in {"reaction", "thenable"} /\ bodies[i].pair \in Pairs
    <3>1. bodies \in Seq(BodyType)
      BY <2>1 DEF ProgramInv
    <3>2. \A i \in DOMAIN bodies : bodies[i] \in BodyType
      BY <3>1, ElementOfSeq, LenProperties
    <3> QED
      BY <2>1, <3>2 DEF ProgramInv, BodyType, Pairs
  <2>7. held \subseteq Pairs /\ known \subseteq Promises /\ calls \in 0 .. MaxCalls
    BY <2>1 DEF ProgramInv, Pairs, Promises
  <2> QED
    BY <2>3, <2>4, <2>5, <2>6, <2>7 DEF TypeOK
<1> QED
  BY <1>1, InvHolds, PTL

\* A promise is settled at most once and can always still be: a pending promise has one
\* unused pair or one job to make it, a settled one neither, so that FulfillPromise and
\* RejectPromise never find a promise that is not pending.
THEOREM OneWayToBeSettled == Spec => []OneResolver
<1>1. ASSUME Inv, NEW p \in Promises
      PROVE  LET pairs == {k \in Pairs : heap.pairs[k].promise = p /\ Usable(k)}
                 jobs == {i \in DOMAIN heap.queue :
                            heap.queue[i].task = "thenable" /\ heap.queue[i].promise = p}
             IN  Cardinality(pairs) + Cardinality(jobs) = IF State(p) = "pending" THEN 1 ELSE 0
  <2> DEFINE pairs == {k \in Pairs : heap.pairs[k].promise = p /\ Usable(k)}
             jobs == {i \in DOMAIN heap.queue :
                        heap.queue[i].task = "thenable" /\ heap.queue[i].promise = p}
  <2>1. heap \in HeapType /\ WayInv(heap, 0) /\ p \in DOMAIN heap.promises
    BY <1>1 DEF Inv, HeapInv, Promises
  <2>2. p # 0
    BY <2>1, HeapFields
  <2>3. /\ \A k : k \in pairs <=> k \in DOMAIN heap.pairs /\ IsUsable(heap, k) /\ heap.pairs[k].promise = p
        /\ \A i : i \in jobs <=> i \in DOMAIN heap.queue /\ IsThenable(heap, i) /\ heap.queue[i].promise = p
    BY DEF Pairs, Usable, IsUsable, IsThenable
  <2> HIDE DEF pairs, jobs
  <2>6. Cardinality({}) = 0 /\ \A x : Cardinality({x}) = 1
    BY FS_EmptySet, FS_Singleton
  <2>4. CASE ~IsPending(heap, p)
    <3>1. pairs = {} /\ jobs = {}
      BY <2>1, <2>3, <2>4 DEF WayInv
    <3>2. Cardinality(pairs) + Cardinality(jobs) = 0
      BY <2>6, <3>1
    <3> QED
      BY <2>4, <3>2 DEF IsPending, State, pairs, jobs
  <2>5. CASE IsPending(heap, p)
    <3>1. \/ \E k : pairs = {k} /\ jobs = {}
          \/ \E i : pairs = {} /\ jobs = {i}
      <4>1. (\E k : k \in pairs) \/ \E i : i \in jobs
        BY <2>1, <2>2, <2>3, <2>5 DEF WayInv
      <4>2. \A k, n : k \in pairs /\ n \in pairs => k = n
        BY <2>1, <2>3 DEF WayInv
      <4>3. \A i, n : i \in jobs /\ n \in jobs => i = n
        BY <2>1, <2>3 DEF WayInv
      <4>4. \A k, i : ~(k \in pairs /\ i \in jobs)
        BY <2>1, <2>3 DEF WayInv
      <4>5. ASSUME NEW k \in pairs
            PROVE  pairs = {k} /\ jobs = {}
        BY <4>2, <4>4, <4>5
      <4>6. ASSUME NEW i \in jobs
            PROVE  pairs = {} /\ jobs = {i}
        BY <4>3, <4>4, <4>6
      <4> QED
        BY <4>1, <4>5, <4>6
    <3>2. Cardinality(pairs) + Cardinality(jobs) = 1
      <4>1. CASE \E k : pairs = {k} /\ jobs = {}
        BY <2>6, <4>1
      <4>2. CASE \E i : pairs = {} /\ jobs = {i}
        <5>1. PICK i : pairs = {} /\ jobs = {i}
          BY <4>2
        <5>2. Cardinality(pairs) = 0
          BY ONLY <2>6, <5>1
        <5>3. Cardinality(jobs) = 1
          BY ONLY <2>6, <5>1
        <5> QED
          BY ONLY <5>2, <5>3
      <4> QED
        BY <3>1, <4>1, <4>2
    <3> QED
      BY <2>5, <3>2 DEF IsPending, State, pairs, jobs
  <2> QED
    BY <2>4, <2>5
<1>2. ASSUME Inv, TypeOK
      PROVE  OneResolver
  BY <1>1, <1>2 DEF OneResolver
<1> QED
  BY <1>2, InvHolds, PromiseTypeCorrect, PTL

\* The reactions of a promise are queued in the order of the calls of then, whether it was
\* pending or already settled then.
THEOREM HandlersRunInOrder == Spec => []InOrder
<1>1. ASSUME Inv
      PROVE  InOrder
  <2>1. RefInv(heap) /\ QueueInv(heap)
    BY <1>1 DEF Inv, HeapInv
  <2>2. \A i, n \in ReactionJobs :
            i < n /\ heap.queue[i].reaction.of = heap.queue[n].reaction.of
                => heap.queue[i].reaction.capability < heap.queue[n].reaction.capability
    BY <2>1 DEF QueueInv, ReactionJobs, IsReaction
  <2>3. \A p \in Promises :
            LET s == heap.promises[p].fulfillReactions
            IN  \A i, n \in DOMAIN s : i < n => s[i].capability < s[n].capability
    BY <2>1 DEF RefInv, ListInv, Promises
  <2> QED
    BY <2>2, <2>3 DEF InOrder
<1> QED
  BY <1>1, InvHolds, PTL

\* Each call of then has its effect once: a pair in nobody's hands is used by one reaction,
\* which waits in both lists of a pending promise, or in a job, or whose handler runs; a pair
\* that has been used, or that the program holds, is used by none.
THEOREM EachThenHasItsEffectOnce == Spec => []ReactsOnce
<1> DEFINE uses(reaction, k) == reaction.capability = k \/ reaction.handler.pair = k
           listed(s, k) == Cardinality({i \in DOMAIN s : uses(s[i], k)})
           fulfill(p) == heap.promises[p].fulfillReactions
           reject(p) == heap.promises[p].rejectReactions
           lists(k) == {p \in Promises : listed(fulfill(p), k) = 1}
           jobs(k) == {i \in ReactionJobs : uses(heap.queue[i].reaction, k)}
           running(k) == {i \in DOMAIN bodies : bodies[i] = [task |-> "reaction", pair |-> k]}
<1>1. Cardinality({}) = 0 /\ \A x : Cardinality({x}) = 1
  BY FS_EmptySet, FS_Singleton
<1>2. ASSUME Inv, UseInv, NEW k \in Pairs
      PROVE  /\ k \in PairNumbers /\ 0 \notin Promises
             /\ \A p \in Promises : \A i : i \in DOMAIN fulfill(p) /\ uses(fulfill(p)[i], k) <=> At(heap, p, i, k)
             /\ \A i : i \in jobs(k) <=> At(heap, 0, i, k)
             /\ \A p, i, q, n : At(heap, p, i, k) /\ At(heap, q, n, k) => p = q /\ i = n
  <2>1. heap \in HeapType
    BY <1>2 DEF Inv, HeapInv
  <2>2. k \in PairNumbers /\ 0 \notin Promises
    BY <2>1, HeapFields DEF PairNumbers, Pairs, Promises
  <2>3. \A p \in Promises : \A i : i \in DOMAIN fulfill(p) /\ uses(fulfill(p)[i], k) <=> At(heap, p, i, k)
    BY <2>2 DEF At, Uses, Promises
  <2>4. \A i : i \in jobs(k) <=> At(heap, 0, i, k)
    BY DEF At, Uses, ReactionJobs, IsReaction
  <2>5. SiteInv(heap, held \cup InRun(bodies))
    BY <1>2 DEF UseInv, ReactInv
  <2> QED
    BY <2>2, <2>3, <2>4, <2>5 DEF SiteInv
\* A list has the reaction that uses a pair or it does not.
<1>3. ASSUME Inv, UseInv, NEW k \in Pairs, NEW p \in Promises
      PROVE  /\ listed(fulfill(p), k) = IF \E i : At(heap, p, i, k) THEN 1 ELSE 0
             /\ listed(reject(p), k) = listed(fulfill(p), k)
  <2> DEFINE s == fulfill(p)
             set == {i \in DOMAIN s : uses(s[i], k)}
  <2>1. \A i : i \in set <=> At(heap, p, i, k)
    BY <1>2, <1>3
  <2>2. \A i, n : i \in set /\ n \in set => i = n
    <3>1. \A i, n : At(heap, p, i, k) /\ At(heap, p, n, k) => i = n
      BY <1>2, <1>3
    <3> HIDE DEF set
    <3> QED
      BY ONLY <2>1, <3>1
  <2>3. Parallel(fulfill(p), reject(p))
    BY <1>3 DEF UseInv, ReactInv, ParallelInv, Promises
  <2>4. {i \in DOMAIN reject(p) : uses(reject(p)[i], k)} = set
    BY <2>3 DEF Parallel, Uses
  <2> HIDE DEF set
  <2>5. CASE \E i : At(heap, p, i, k)
    <3>1. PICK i : i \in set
      BY <2>1, <2>5
    <3>2. set = {i}
      BY <2>2, <3>1
    <3>3. Cardinality(set) = 1
      BY <1>1, <3>2
    <3> QED
      BY <2>4, <2>5, <3>3 DEF set
  <2>6. CASE ~\E i : At(heap, p, i, k)
    <3>1. set = {}
      BY <2>1, <2>6
    <3>2. Cardinality(set) = 0
      BY <1>1, <3>1
    <3> QED
      BY <2>4, <2>6, <3>2 DEF set
  <2> QED
    BY <2>5, <2>6
<1> HIDE DEF uses, listed, fulfill, reject
<1>4. ASSUME Inv, UseInv, NEW k \in Pairs
      PROVE  Cardinality(lists(k)) + Cardinality(jobs(k)) + Cardinality(running(k))
                = IF Usable(k) /\ k \notin held THEN 1 ELSE 0
  <2>1. \A p : p \in lists(k) <=> p # 0 /\ \E i : At(heap, p, i, k)
    <3>1. \A p, i : At(heap, p, i, k) => p = 0 \/ p \in Promises
      BY DEF At, Promises
    <3>2. \A p \in Promises : p # 0 /\ (p \in lists(k) <=> \E i : At(heap, p, i, k))
      BY <1>2, <1>3, <1>4
    <3> QED
      BY <3>1, <3>2
  <2>2. \A i : i \in running(k) <=>
            i \in DOMAIN bodies /\ bodies[i].task = "reaction" /\ bodies[i].pair = k
    <3>1. \A i \in DOMAIN bodies : bodies[i] \in BodyType
      BY <1>4, ElementOfSeq, LenProperties DEF Inv, ProgramInv
    <3> QED
      BY <3>1 DEF BodyType
  <2>3. k \in InRun(bodies) <=> \E i : i \in running(k)
    BY <2>2 DEF InRun
  <2>4. (\E i : i \in running(k)) => Open(heap, held, k)
    BY <1>4, <2>2 DEF UseInv, RunInv
  <2>5. \A i, n : i \in running(k) /\ n \in running(k) => i = n
    BY <1>4, <2>2 DEF UseInv, RunInv
  <2>6. Open(heap, held \cup InRun(bodies), k) <=> \E p, i : At(heap, p, i, k)
    BY <1>2, <1>4 DEF UseInv, ReactInv, SiteInv
  <2>7. Open(heap, held, k) <=> Usable(k) /\ k \notin held
    BY DEF Open, Usable, IsUsable, Pairs
  <2>8. Open(heap, held \cup InRun(bodies), k) <=> Open(heap, held, k) /\ ~\E i : i \in running(k)
    BY <2>3 DEF Open
  <2>9. (\A i : i \in jobs(k) <=> At(heap, 0, i, k))
        /\ \A p, i, q, n : At(heap, p, i, k) /\ At(heap, q, n, k) => p = q /\ i = n
    BY <1>2, <1>4
  <2> HIDE DEF lists, jobs, running
  <2>10. CASE \E i : i \in running(k)
    <3>1. PICK i : i \in running(k)
      BY <2>10
    <3>2. running(k) = {i} /\ lists(k) = {} /\ jobs(k) = {}
      BY <2>1, <2>5, <2>6, <2>8, <2>9, <3>1
    <3>3. Cardinality(running(k)) = 1 /\ Cardinality(lists(k)) = 0 /\ Cardinality(jobs(k)) = 0
      BY <1>1, <3>2
    <3> QED
      BY <2>4, <2>7, <2>10, <3>3
  <2>11. CASE \E i : At(heap, 0, i, k)
    <3>1. PICK i : At(heap, 0, i, k)
      BY <2>11
    <3>2. running(k) = {} /\ lists(k) = {} /\ jobs(k) = {i}
      BY <2>1, <2>6, <2>8, <2>9, <3>1
    <3>3. Cardinality(running(k)) = 0 /\ Cardinality(lists(k)) = 0 /\ Cardinality(jobs(k)) = 1
      BY <1>1, <3>2
    <3> QED
      BY <2>6, <2>7, <2>8, <3>1, <3>3
  <2>12. CASE \E p, i : p # 0 /\ At(heap, p, i, k)
    <3>1. PICK p, i : p # 0 /\ At(heap, p, i, k)
      BY <2>12
    <3>2. running(k) = {} /\ lists(k) = {p} /\ jobs(k) = {}
      BY <2>1, <2>6, <2>8, <2>9, <3>1
    <3>3. Cardinality(running(k)) = 0 /\ Cardinality(lists(k)) = 1 /\ Cardinality(jobs(k)) = 0
      BY <1>1, <3>2
    <3> QED
      BY <2>6, <2>7, <2>8, <3>1, <3>3
  <2>13. CASE (~\E i : i \in running(k)) /\ ~\E p, i : At(heap, p, i, k)
    <3>1. running(k) = {} /\ lists(k) = {} /\ jobs(k) = {}
      BY <2>1, <2>9, <2>13
    <3>2. Cardinality(running(k)) = 0 /\ Cardinality(lists(k)) = 0 /\ Cardinality(jobs(k)) = 0
      BY <1>1, <3>1
    <3> QED
      BY <2>6, <2>7, <2>8, <2>13, <3>2
  <2> QED
    BY <2>10, <2>11, <2>12, <2>13
<1>5. ASSUME Inv, UseInv, NEW k \in Pairs, NEW p \in Promises
      PROVE  /\ listed(fulfill(p), k) = listed(reject(p), k)
             /\ listed(fulfill(p), k) \in (IF State(p) = "pending" THEN {0, 1} ELSE {0})
  <2>1. (\E i : At(heap, p, i, k)) => State(p) = "pending"
    <3>1. p # 0 /\ p \in DOMAIN heap.promises
      BY <1>2, <1>5 DEF Promises
    <3>2. ~IsPending(heap, p) => heap.promises[p].fulfillReactions = <<>>
      BY <1>5, <3>1 DEF Inv, HeapInv, RefInv
    <3>3. DOMAIN (<<>>) = {}
      OBVIOUS
    <3> QED
      BY <3>1, <3>2, <3>3 DEF At, IsPending, State
  <2> QED
    BY <1>3, <1>5, <2>1
<1>6. ASSUME Inv, UseInv
      PROVE  ReactsOnce
  BY <1>4, <1>5, <1>6 DEF ReactsOnce, uses, listed, fulfill, reject
<1> QED
  BY <1>6, InvHolds, UseInvHolds, PTL

\* The host takes for unhandled exactly the rejected promises without a then, whichever of
\* the rejection and the then comes first.
THEOREM UnhandledAreReported == Spec => []ReportedAreUnhandled
<1>1. ASSUME Inv
      PROVE  ReportedAreUnhandled
  BY <1>1 DEF Inv, HeapInv, ReportInv, ReportedAreUnhandled, Promises, State
<1> QED
  BY <1>1, InvHolds, PTL
=============================================================================
