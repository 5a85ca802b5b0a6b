--------------------------- MODULE ModuleGraphProofs ---------------------------
(***************************************************************************)
(* Proofs about ModuleGraph for any modules and any graph of imports.      *)
(* What a module needs is a recursive function; that it is the closure of  *)
(* its imports is shown by induction on the steps of that function.  The   *)
(* inductive invariant Inv is why Tarjan's algorithm is right, with what   *)
(* the code makes of it: loading that stops half-way, modules of earlier   *)
(* files, and an index that is overwritten by an evaluation error.         *)
(***************************************************************************)
EXTENDS ModuleGraph, SequenceTheorems, FiniteSetTheorems, WellFoundedInduction, TLAPS

-----------------------------------------------------------------------------
(* Induction *)

\* A set of numbers has a least one.
LEMMA LeastElement ==
    ASSUME NEW S \in SUBSET Nat, S # {}
    PROVE  \E n \in S : \A m \in S : n <= m
<1>1. PICK n \in S : \A m \in S : ~(<<m, n>> \in OpToRel(<, Nat))
  BY NatLessThanWellFounded, WFMin, Zenon
<1>2. \A m \in S : ~(m < n)
  BY <1>1 DEF OpToRel
<1> QED
  BY <1>2

\* What holds at 0 and goes on to hold holds up to n.
LEMMA UpTo ==
    ASSUME NEW n \in Nat, NEW S, 0 \in S, \A i \in 1 .. n : i - 1 \in S => i \in S
    PROVE  \A i \in 0 .. n : i \in S
<1> SUFFICES ASSUME (0 .. n) \ S # {}
             PROVE  FALSE
    OBVIOUS
<1> PICK D : D = (0 .. n) \ S
  OBVIOUS
<1>0. D \in SUBSET Nat /\ D # {}
  OBVIOUS
<1>1. PICK i \in D : \A m \in D : i <= m
  BY <1>0, LeastElement
<1>2. i \in 1 .. n /\ i - 1 \in 0 .. n /\ i - 1 \notin S
  BY <1>1
<1> QED
  BY <1>1, <1>2

-----------------------------------------------------------------------------
(* What a module needs, for the imports r of all modules *)

ImportsOf(r, m) == ToSet(r[m])
Graphs == [Modules -> Requests]

Reach(r, m, f, n) ==
    IF n = 0 THEN ToSet(r[m])
    ELSE UNION {{d} \cup ToSet(r[d]) : d \in f[n - 1]}
IsReached(r, m, f) == f = [n \in 0 .. Cardinality(Modules) |-> Reach(r, m, f, n)]
Reached(r, m) == CHOOSE f : IsReached(r, m, f)
NeedsOf(r, m) == Reached(r, m)[Cardinality(Modules)]

\* Needs depends on the imports only.
LEMMA NeedsIsNeedsOf == \A m : Needs(m) = NeedsOf(requestedModules, m)
  BY DEF Needs, NeedsOf, Reached, IsReached, Reach

LEMMA ModulesCount == Cardinality(Modules) \in Nat
  BY FS_CardinalityType, ModulesAssumption

\* The recursive function is defined.
LEMMA ReachedExists ==
    ASSUME NEW r, NEW m
    PROVE  IsReached(r, m, Reached(r, m))
<1> PICK C : C = Cardinality(Modules)
  OBVIOUS
<1>1. C \in Nat
  BY ModulesCount
<1> DEFINE N == {n \in 0 .. C : \E f : f = [k \in 0 .. n |-> Reach(r, m, f, k)]}
<1>2. 0 \in N
  <2> DEFINE f == [k \in 0 .. 0 |-> ToSet(r[m])]
  <2>1. f = [k \in 0 .. 0 |-> Reach(r, m, f, k)]
    BY DEF Reach
  <2> QED
    BY <1>1, <2>1
<1>3. ASSUME NEW n \in 1 .. C, n - 1 \in N
      PROVE  n \in N
  <2>1. PICK f : f = [k \in 0 .. n - 1 |-> Reach(r, m, f, k)]
    BY <1>3
  <2> DEFINE g == [k \in 0 .. n |-> IF k = n THEN Reach(r, m, f, n) ELSE f[k]]
  <2>2. \A k \in 0 .. n : g[k] = Reach(r, m, g, k)
    <3> SUFFICES ASSUME NEW k \in 0 .. n
                 PROVE  g[k] = Reach(r, m, g, k)
      OBVIOUS
    <3>1. k = 0 \/ (k - 1 \in 0 .. n - 1 /\ k - 1 \in 0 .. n /\ k - 1 # n)
      BY <1>1
    <3>2. k = 0 \/ g[k - 1] = f[k - 1]
      BY <3>1
    <3>3. Reach(r, m, g, k) = Reach(r, m, f, k)
      BY <3>2 DEF Reach
    <3>4. k # n => f[k] = Reach(r, m, f, k)
      <4>1. k # n => k \in 0 .. n - 1
        BY <1>1
      <4> QED
        BY <2>1, <4>1
    <3> QED
      BY <3>3, <3>4
  <2>3. g = [k \in 0 .. n |-> Reach(r, m, g, k)]
    BY <2>2
  <2> HIDE DEF g
  <2>4. \E h : h = [k \in 0 .. n |-> Reach(r, m, h, k)]
    BY <2>3
  <2>5. n \in 0 .. C
    BY <1>1
  <2> QED
    BY <2>4, <2>5
<1>4. C \in N
  <2> HIDE DEF N
  <2>1. \A i \in 0 .. C : i \in N
    BY <1>1, <1>2, <1>3, UpTo
  <2> QED
    BY <1>1, <2>1
<1> QED
  BY <1>4 DEF Reached, IsReached

LEMMA ReachedFacts ==
    ASSUME NEW r, NEW m
    PROVE  LET R == Reached(r, m)
           IN  /\ R[0] = ImportsOf(r, m)
               /\ \A n \in 1 .. Cardinality(Modules) : \A e :
                    e \in R[n] <=> \E d \in R[n - 1] : e = d \/ e \in ImportsOf(r, d)
<1> PICK C, R : C = Cardinality(Modules) /\ R = Reached(r, m)
  OBVIOUS
<1>1. C \in Nat /\ R = [n \in 0 .. C |-> Reach(r, m, R, n)]
  BY ModulesCount, ReachedExists DEF IsReached
<1>2. \A n \in 0 .. C : R[n] = Reach(r, m, R, n)
  BY <1>1
<1>3. R[0] = ToSet(r[m])
  BY <1>1, <1>2 DEF Reach
<1>4. ASSUME NEW n \in 1 .. C
      PROVE  \A e : e \in R[n] <=> \E d \in R[n - 1] : e = d \/ e \in ToSet(r[d])
  <2>1. R[n] = Reach(r, m, R, n) /\ n # 0
    BY <1>1, <1>2
  <2>2. R[n] = UNION {{d} \cup ToSet(r[d]) : d \in R[n - 1]}
    BY <2>1 DEF Reach
  <2> PICK X : X = R[n - 1]
    OBVIOUS
  <2>3. R[n] = UNION {{d} \cup ToSet(r[d]) : d \in X}
    BY <2>2
  <2> QED
    BY <2>3
<1> QED
  BY <1>3, <1>4 DEF ImportsOf

LEMMA ImportsAreModules ==
    ASSUME NEW r \in Graphs, NEW m \in Modules
    PROVE  r[m] \in Seq(Modules) /\ ImportsOf(r, m) \subseteq Modules
<1>1. r[m] \in SeqOf(Modules, MaxRequests)
  BY DEF Graphs, Requests
<1>2. r[m] \in Seq(Modules)
  BY <1>1, MaxRequestsAssumption DEF SeqOf
<1> QED
  BY <1>2 DEF ImportsOf, ToSet

\* Needs is the least closed set above the imports ...
LEMMA NeedsLeast ==
    ASSUME NEW r, NEW m, NEW X, ImportsOf(r, m) \subseteq X, \A d \in X : ImportsOf(r, d) \subseteq X
    PROVE  NeedsOf(r, m) \subseteq X
<1> PICK C, R : C = Cardinality(Modules) /\ R = Reached(r, m)
  OBVIOUS
<1>1. C \in Nat
  BY ModulesCount
<1>2. /\ R[0] = ImportsOf(r, m)
      /\ \A n \in 1 .. C : \A e : e \in R[n] <=> \E d \in R[n - 1] : e = d \/ e \in ImportsOf(r, d)
  BY ReachedFacts
<1> PICK N : N = {n \in 0 .. C : R[n] \subseteq X}
  OBVIOUS
<1>3. 0 \in N
  BY <1>1, <1>2
<1>4. ASSUME NEW n \in 1 .. C, n - 1 \in N
      PROVE  n \in N
  <2>1. R[n - 1] \subseteq X /\ n \in 0 .. C
    BY <1>4
  <2>2. \A e \in R[n] : e \in X
    <3> TAKE e \in R[n]
    <3>1. PICK d \in R[n - 1] : e = d \/ e \in ImportsOf(r, d)
      BY ONLY <1>2, n \in 1 .. C, e \in R[n]
    <3>2. d \in X
      BY ONLY <2>1, d \in R[n - 1]
    <3> QED
      BY <3>1, <3>2
  <2> QED
    BY <2>1, <2>2
<1>5. C \in N
  <2>1. \A i \in 0 .. C : i \in N
    BY <1>1, <1>3, <1>4, UpTo
  <2> QED
    BY <1>1, <2>1
<1> QED
  BY <1>5 DEF NeedsOf

\* ... and closed: while a step adds something there is one module less to add.
LEMMA NeedsClosed ==
    ASSUME NEW r \in Graphs, NEW m \in Modules
    PROVE  /\ NeedsOf(r, m) \subseteq Modules
           /\ ImportsOf(r, m) \subseteq NeedsOf(r, m)
           /\ \A d \in NeedsOf(r, m) : ImportsOf(r, d) \subseteq NeedsOf(r, m)
<1> PICK C, R : C = Cardinality(Modules) /\ R = Reached(r, m)
  OBVIOUS
<1>1. C \in Nat
  BY ModulesCount
<1>2. /\ R[0] = ImportsOf(r, m)
      /\ \A n \in 1 .. C : \A e : e \in R[n] <=> \E d \in R[n - 1] : e = d \/ e \in ImportsOf(r, d)
  BY ReachedFacts
<1> DEFINE Closed(X) == \A d \in X : ImportsOf(r, d) \subseteq X
<1>3. \A d \in Modules : ImportsOf(r, d) \subseteq Modules
  BY ImportsAreModules
<1> PICK N : N = {n \in 0 .. C : /\ R[n] \subseteq Modules /\ ImportsOf(r, m) \subseteq R[n]
                                 /\ Closed(R[n]) \/ Cardinality(R[n]) >= n}
  OBVIOUS
<1>4. 0 \in N
  <2>1. R[0] \subseteq Modules
    BY <1>2, <1>3
  <2>2. IsFiniteSet(R[0]) /\ Cardinality(R[0]) \in Nat
    BY <2>1, ModulesAssumption, FS_Subset, FS_CardinalityType
  <2> QED
    BY <1>1, <1>2, <2>1, <2>2
<1>5. ASSUME NEW n \in 1 .. C, n - 1 \in N
      PROVE  n \in N
  <2> PICK A, B : A = R[n - 1] /\ B = R[n]
    OBVIOUS
  <2>1. /\ A \subseteq Modules /\ ImportsOf(r, m) \subseteq A
        /\ Closed(A) \/ Cardinality(A) >= n - 1
    BY <1>5
  <2>2. \A e : e \in B <=> \E d \in A : e = d \/ e \in ImportsOf(r, d)
    BY <1>2
  <2>3. B \subseteq Modules /\ A \subseteq B
    BY <1>3, <2>1, <2>2
  <2>4. CASE Closed(A)
    <3>1. B = A
      BY <2>2, <2>4
    <3> QED
      <4>1. n \in 0 .. C /\ B \subseteq Modules /\ ImportsOf(r, m) \subseteq B
        BY <1>1, <2>1, <3>1
      <4>2. Closed(B)
        BY <2>4, <3>1
      <4> QED
        BY <4>1, <4>2
  <2>5. CASE ~Closed(A)
    <3>1. \E e \in B : e \notin A
      BY <2>2, <2>5
    <3>2. IsFiniteSet(B)
      BY <2>3, ModulesAssumption, FS_Subset
    <3>3. IsFiniteSet(A) /\ Cardinality(A) \in Nat /\ Cardinality(B) \in Nat
      BY <2>3, <3>2, FS_Subset, FS_CardinalityType
    <3>4. Cardinality(A) <= Cardinality(B) /\ Cardinality(A) # Cardinality(B)
      BY <2>3, <3>1, <3>2, FS_Subset
    <3>5. Cardinality(B) >= n
      BY <1>1, <2>1, <2>5, <3>3, <3>4
    <3> QED
      <4>1. n \in 0 .. C /\ B \subseteq Modules /\ ImportsOf(r, m) \subseteq B
        BY <1>1, <2>1, <2>3
      <4> QED
        BY <3>5, <4>1
  <2> QED
    BY <2>4, <2>5
<1>6. C \in N
  <2>1. \A i \in 0 .. C : i \in N
    BY <1>1, <1>4, <1>5, UpTo
  <2> QED
    BY <1>1, <2>1
<1> PICK A : A = R[C]
  OBVIOUS
<1>7. /\ A \subseteq Modules /\ ImportsOf(r, m) \subseteq A
      /\ Closed(A) \/ Cardinality(A) >= C
  BY <1>6
<1>8. Closed(A)
  <2> SUFFICES ASSUME Cardinality(A) >= C
               PROVE  Closed(A)
    BY <1>7
  <2>1. Cardinality(A) \in Nat /\ Cardinality(A) <= C /\ (Cardinality(A) = C => A = Modules)
    BY <1>7, ModulesAssumption, FS_Subset, FS_CardinalityType
  <2>2. A = Modules
    BY <1>1, <2>1
  <2> QED
    BY <1>3, <2>2
<1> QED
  BY <1>7, <1>8 DEF NeedsOf

-----------------------------------------------------------------------------
(* The order of the modules on a stack s *)

Below(s, a, b) == \E i, j \in DOMAIN s : i < j /\ s[i] = a /\ s[j] = b
From(s, first) == {s[i] : i \in first .. Len(s)}

LEMMA BelowOrder ==
    ASSUME NEW s \in Seq(Modules), IsInjective(s)
    PROVE  /\ \A a, b : Below(s, a, b) => a \in ToSet(s) /\ b \in ToSet(s) /\ a # b
           /\ \A a, b, c : Below(s, a, b) /\ Below(s, b, c) => Below(s, a, c)
           /\ \A a, b \in ToSet(s) : a = b \/ Below(s, a, b) \/ Below(s, b, a)
           /\ ToSet(s) \subseteq Modules
<1>1. Len(s) \in Nat /\ DOMAIN s = 1 .. Len(s) /\ \A i \in DOMAIN s : s[i] \in Modules
  BY LenProperties, ElementOfSeq
<1>2. \A i, j \in DOMAIN s : s[i] = s[j] => i = j
  BY DEF IsInjective
<1>3. \A a, b : Below(s, a, b) => a \in ToSet(s) /\ b \in ToSet(s) /\ a # b
  BY <1>1, <1>2 DEF Below, ToSet
<1>4. ASSUME NEW a, NEW b, NEW c, Below(s, a, b), Below(s, b, c)
      PROVE  Below(s, a, c)
  <2>1. PICK i, j \in DOMAIN s : i < j /\ s[i] = a /\ s[j] = b
    BY <1>4 DEF Below
  <2>2. PICK k, l \in DOMAIN s : k < l /\ s[k] = b /\ s[l] = c
    BY <1>4 DEF Below
  <2>3. j = k
    BY <1>2, <2>1, <2>2
  <2>4. i < l
    BY <1>1, <2>1, <2>2, <2>3
  <2> QED
    BY <2>1, <2>2, <2>4 DEF Below
<1>5. ASSUME NEW a \in ToSet(s), NEW b \in ToSet(s), a # b
      PROVE  Below(s, a, b) \/ Below(s, b, a)
  <2>1. PICK i \in DOMAIN s : s[i] = a
    BY DEF ToSet
  <2>2. PICK j \in DOMAIN s : s[j] = b
    BY DEF ToSet
  <2>3. i < j \/ j < i
    BY <1>1, <1>5, <2>1, <2>2
  <2> QED
    BY <2>1, <2>2, <2>3 DEF Below
<1> QED
  BY <1>1, <1>3, <1>4, <1>5 DEF ToSet

\* A module that is entered is above all others.
LEMMA PushOrder ==
    ASSUME NEW s \in Seq(Modules), IsInjective(s), NEW m \in Modules, m \notin ToSet(s)
    PROVE  LET t == Append(s, m)
           IN  /\ t \in Seq(Modules) /\ IsInjective(t)
               /\ \A a : a \in ToSet(t) <=> a \in ToSet(s) \/ a = m
               /\ \A a, b : Below(t, a, b) <=> Below(s, a, b) \/ (a \in ToSet(s) /\ b = m)
<1> PICK t, n : t = Append(s, m) /\ n = Len(s)
  OBVIOUS
<1>1. /\ n \in Nat /\ DOMAIN s = 1 .. n /\ DOMAIN t = 1 .. n + 1 /\ t \in Seq(Modules)
      /\ \A i \in 1 .. n : t[i] = s[i]
      /\ t[n + 1] = m
  BY LenProperties, AppendProperties
<1>2. \A i, j \in DOMAIN s : s[i] = s[j] => i = j
  BY DEF IsInjective
<1>3. \A i \in DOMAIN s : s[i] # m
  BY DEF ToSet
<1>4. \A i \in DOMAIN t : i \in DOMAIN s \/ i = n + 1
  BY <1>1
<1>5. \A i \in DOMAIN s : i \in DOMAIN t /\ i # n + 1
  BY <1>1
<1>6. n + 1 \in DOMAIN t
  BY <1>1
<1>7. \A i, j \in DOMAIN t : t[i] = t[j] => i = j
  BY <1>1, <1>2, <1>3, <1>4
<1>8. \A a : a \in ToSet(t) <=> a \in ToSet(s) \/ a = m
  BY <1>1, <1>4, <1>5, <1>6 DEF ToSet
<1>9. ASSUME NEW a, NEW b, Below(t, a, b)
      PROVE  Below(s, a, b) \/ (a \in ToSet(s) /\ b = m)
  <2>1. PICK i, j \in DOMAIN t : i < j /\ t[i] = a /\ t[j] = b
    BY <1>9 DEF Below
  <2>2. i \in DOMAIN s /\ s[i] = a
    BY <1>1, <2>1
  <2>3. CASE j = n + 1
    BY <1>1, <2>1, <2>2, <2>3 DEF ToSet
  <2>4. CASE j # n + 1
    <3>1. j \in DOMAIN s /\ s[j] = b
      BY <1>1, <1>4, <2>1, <2>4
    <3> QED
      BY <2>1, <2>2, <3>1 DEF Below
  <2> QED
    BY <2>3, <2>4
<1>10. ASSUME NEW a, NEW b, Below(s, a, b) \/ (a \in ToSet(s) /\ b = m)
       PROVE  Below(t, a, b)
  <2>1. CASE Below(s, a, b)
    <3>1. PICK i, j \in DOMAIN s : i < j /\ s[i] = a /\ s[j] = b
      BY <2>1 DEF Below
    <3>2. i \in DOMAIN t /\ j \in DOMAIN t /\ t[i] = a /\ t[j] = b
      BY <1>1, <1>5, <3>1
    <3> QED
      BY <3>1, <3>2 DEF Below
  <2>2. CASE a \in ToSet(s) /\ b = m
    <3>1. PICK i \in DOMAIN s : s[i] = a
      BY <2>2 DEF ToSet
    <3>2. i \in DOMAIN t /\ t[i] = a /\ i < n + 1
      BY <1>1, <1>5, <3>1
    <3> QED
      BY <1>1, <1>6, <2>2, <3>2 DEF Below
  <2> QED
    BY <1>10, <2>1, <2>2
<1>11. IsInjective(t)
  BY <1>7 DEF IsInjective
<1> QED
  BY <1>1, <1>8, <1>9, <1>10, <1>11

\* A component that is complete is what is not below its first module.
LEMMA PopOrder ==
    ASSUME NEW s \in Seq(Modules), IsInjective(s), NEW first \in DOMAIN s
    PROVE  LET t == SubSeq(s, 1, first - 1)
           IN  /\ t \in Seq(Modules) /\ IsInjective(t)
               /\ \A a : a \in ToSet(t) <=> Below(s, a, s[first])
               /\ \A a, b : Below(t, a, b) <=> Below(s, a, b) /\ Below(s, b, s[first])
               /\ \A a : a \in From(s, first) <=> a \in ToSet(s) /\ a \notin ToSet(t)
<1> PICK t, n : t = SubSeq(s, 1, first - 1) /\ n = Len(s)
  OBVIOUS
<1>1. /\ n \in Nat /\ DOMAIN s = 1 .. n /\ first \in 1 .. n
      /\ \A i \in DOMAIN s : s[i] \in Modules
  BY LenProperties, ElementOfSeq
<1>2. /\ DOMAIN t = 1 .. first - 1 /\ t \in Seq(Modules)
      /\ \A i \in 1 .. first - 1 : t[i] = s[i]
  <2>1. t = [i \in 1 .. first - 1 |-> s[i]]
    BY <1>1
  <2>2. \A i \in 1 .. first - 1 : s[i] \in Modules
    BY <1>1
  <2>3. first - 1 \in Nat
    BY <1>1
  <2> QED
    BY <2>1, <2>2, <2>3, IsASeq
<1>3. \A i, j \in DOMAIN s : s[i] = s[j] => i = j
  BY DEF IsInjective
<1>4. \A i : i \in DOMAIN t <=> i \in DOMAIN s /\ i < first
  BY <1>1, <1>2
<1>5. IsInjective(t)
  BY <1>2, <1>3, <1>4 DEF IsInjective
<1>6. ASSUME NEW a
      PROVE  a \in ToSet(t) <=> Below(s, a, s[first])
  BY <1>2, <1>3, <1>4 DEF ToSet, Below
<1>7. ASSUME NEW a, NEW b
      PROVE  Below(t, a, b) <=> Below(s, a, b) /\ Below(s, b, s[first])
  <2>1. ASSUME Below(t, a, b)
        PROVE  Below(s, a, b) /\ Below(s, b, s[first])
    BY <1>2, <1>4, <2>1 DEF Below
  <2>2. ASSUME Below(s, a, b), Below(s, b, s[first])
        PROVE  Below(t, a, b)
    <3>1. PICK i, j \in DOMAIN s : i < j /\ s[i] = a /\ s[j] = b
      BY <2>2 DEF Below
    <3>2. j < first
      BY <1>3, <2>2, <3>1 DEF Below
    <3>3. i \in DOMAIN t /\ j \in DOMAIN t /\ t[i] = a /\ t[j] = b
      BY <1>1, <1>2, <1>4, <3>1, <3>2
    <3> QED
      BY <3>1, <3>3 DEF Below
  <2> QED
    BY <2>1, <2>2
<1>8. ASSUME NEW a
      PROVE  a \in From(s, first) <=> a \in ToSet(s) /\ a \notin ToSet(t)
  <2>1. ASSUME a \in From(s, first)
        PROVE  a \in ToSet(s) /\ a \notin ToSet(t)
    <3>1. PICK i \in first .. n : a = s[i]
      BY <2>1 DEF From
    <3>2. i \in DOMAIN s /\ ~(i < first)
      BY <1>1
    <3> QED
      BY <1>2, <1>3, <1>4, <3>1, <3>2 DEF ToSet
  <2>2. ASSUME a \in ToSet(s), a \notin ToSet(t)
        PROVE  a \in From(s, first)
    <3>1. PICK i \in DOMAIN s : a = s[i]
      BY <2>2 DEF ToSet
    <3>2. ~(i < first)
      BY <1>2, <1>4, <2>2, <3>1 DEF ToSet
    <3>3. i \in first .. n
      BY <1>1, <3>2
    <3> QED
      BY <3>1, <3>3 DEF From
  <2> QED
    BY <2>1, <2>2
<1> QED
  BY <1>2, <1>5, <1>6, <1>7, <1>8

-----------------------------------------------------------------------------
(* The inductive invariant *)

Imports(m) == ImportsOf(requestedModules, m)

\* What is linked, and what is evaluated with no error in what it needs.
Linked(m) == status[m] \notin {"UNINSTANTIATED", "INSTANTIATING"}
ErrorFree(m) == \A n \in {m} \cup Needs(m) : evaluationError[n] = UNDEFINED_INDEX

\* The modules on whose numbers an evaluation error has no influence.  A call for another
\* module may number what follows with the error of one of its imports.
Clean(m) == m \in Modules /\ (walk = "link" \/ ErrorFree(m))

\* The walk is through with a module.
Complete(d) == IF walk = "link" THEN Linked(d) ELSE status[d] = "EVALUATED"

OnStack == ToSet(stack)
Called == {frames[i].module : i \in DOMAIN frames}

\* The loop of m's call has handled its import d, or the call has ended.
Processed(m, d) ==
    \E k \in DOMAIN requestedModules[m] :
        /\ requestedModules[m][k] = d
        /\ \A i \in DOMAIN frames : frames[i].module = m => k < frames[i].idx

\* What is complete is complete with its imports.
GraphInv ==
    \A m \in Modules : \A d \in Imports(m) :
        /\ Linked(m) => Linked(d)
        /\ status[m] = "EVALUATED" /\ ErrorFree(m) => status[d] = "EVALUATED"

\* The modules on the stack are those that are open.
OpenInv ==
    /\ walk = "idle" => stack = <<>> /\ frames = <<>>
    /\ IsInjective(stack)
    /\ \A m \in Modules : status[m] = "INSTANTIATING" <=> walk = "link" /\ m \in OnStack
    /\ \A m \in Modules : status[m] = "EVALUATING" <=> walk = "eval" /\ m \in OnStack

\* The first call is for the module at the bottom of the stack, with number 0.
RootInv ==
    /\ frames = <<>> => stack = <<>>
    /\ frames # <<>> =>
        /\ dfsIndex[frames[1].module] = 0
        /\ \A b \in OnStack : b = frames[1].module \/ Below(stack, frames[1].module, b)

\* The calls are on the stack, each is for an import of the one before, and all that lies
\* above the module of a call is needed by it.
CallInv ==
    \A i \in DOMAIN frames :
        /\ frames[i].module \in OnStack
        /\ frames[i].idx \in 1 .. Len(requestedModules[frames[i].module]) + 1
        /\ i < Len(frames) =>
            /\ frames[i].idx <= Len(requestedModules[frames[i].module])
            /\ frames[i + 1].module = requestedModules[frames[i].module][frames[i].idx]
        /\ \A k \in DOMAIN frames : i < k => Below(stack, frames[i].module, frames[k].module)
        /\ \A c, b : c = frames[i].module /\ Below(stack, c, b) => b \in Needs(c)

\* The numbers of the modules on the stack.
NumberInv ==
    \A m \in OnStack :
        /\ dfsIndex[m] \in Nat /\ dfsAncestorIndex[m] \in Nat
        /\ dfsAncestorIndex[m] <= dfsIndex[m]

\* Clean modules are numbered in the order of the stack, and one whose call has ended lies
\* above a call.
OrderInv ==
    /\ \A m \in OnStack : Clean(m) => dfsIndex[m] < index
    /\ \A a, b : Clean(a) /\ Below(stack, a, b) => dfsIndex[a] < dfsIndex[b]
    /\ \A m \in OnStack : Clean(m) => m \in Called \/ \E c \in Called : Clean(c) /\ Below(stack, c, m)

\* The ancestor index of a clean module is the number of a module on the stack, and no
\* larger than the numbers of the open modules that it imports.
AncestorInv ==
    /\ \A m \in OnStack : Clean(m) =>
        \E y \in OnStack : Clean(y) /\ dfsAncestorIndex[m] = dfsIndex[y]
    /\ \A m \in OnStack, d \in Modules : Clean(m) /\ Processed(m, d) =>
        Complete(d) \/ (d \in OnStack /\ dfsAncestorIndex[m] <= dfsIndex[d])

\* m lies above the call i and below the next one: the calls for it and below it have ended.
Returned(i, m) ==
    /\ m \in OnStack /\ m \notin Called
    /\ Below(stack, frames[i].module, m)
    /\ i < Len(frames) => Below(stack, m, frames[i + 1].module)

\* The call i has taken over the ancestor index of m, or is about to with its next step.
TakenOver(i, m) ==
    \/ dfsAncestorIndex[frames[i].module] <= dfsAncestorIndex[m]
    \/ /\ i = Len(frames) /\ MoreRequired /\ Required \in OnStack
       /\ dfsAncestorIndex[Required] <= dfsAncestorIndex[m]

ReturnInv ==
    \A i \in DOMAIN frames : \A c, m :
        c = frames[i].module /\ Clean(c) /\ Returned(i, m) => TakenOver(i, m)

\* Its body has been started, unless an error has kept it from that.
Started(m) == status[m] = "EVALUATED" \/ (walk = "eval" /\ m \in OnStack /\ m \notin Called)

ExecutedInv ==
    /\ IsInjective(executed)
    /\ \A m \in ToSet(executed) : Started(m)
    /\ ~registered =>
        /\ \A m \in Modules : evaluationError[m] = UNDEFINED_INDEX
        /\ \A m \in Modules : Started(m) => m \in ToSet(executed)
        /\ \A i \in DOMAIN executed : \A m, d \in Modules :
            m = executed[i] /\ d \in Imports(m) =>
                m \in Needs(d) \/ \E j \in 1 .. i - 1 : executed[j] = d

WalkInv == RootInv /\ CallInv /\ NumberInv /\ OrderInv /\ AncestorInv /\ ReturnInv
Inv == TypeOK /\ GraphInv /\ OpenInv /\ WalkInv /\ ExecutedInv

-----------------------------------------------------------------------------
(* What the parts of the state mean *)

\* Needs in the words of the lemmas above.
LEMMA NeedsFacts ==
    ASSUME TypeOK
    PROVE  /\ \A m \in Modules : Imports(m) \subseteq Modules /\ Needs(m) \subseteq Modules
           /\ \A m \in Modules : requestedModules[m] \in Seq(Modules)
           /\ \A m \in Modules : Imports(m) \subseteq Needs(m)
           /\ \A m \in Modules : \A d \in Needs(m) : Imports(d) \subseteq Needs(m)
           /\ \A m \in Modules : \A d \in Needs(m) : Needs(d) \subseteq Needs(m)
<1>1. requestedModules \in Graphs
  BY DEF TypeOK, Graphs
<1>2. \A m \in Modules : Imports(m) \subseteq Modules /\ requestedModules[m] \in Seq(Modules)
  BY <1>1, ImportsAreModules DEF Imports
<1>3. \A m \in Modules : /\ Needs(m) \subseteq Modules /\ Imports(m) \subseteq Needs(m)
                         /\ \A d \in Needs(m) : Imports(d) \subseteq Needs(m)
  BY <1>1, NeedsClosed, NeedsIsNeedsOf DEF Imports
<1>4. ASSUME NEW m \in Modules, NEW d \in Needs(m)
      PROVE  Needs(d) \subseteq Needs(m)
  <2> PICK X : X = Needs(m)
    OBVIOUS
  <2>1. ImportsOf(requestedModules, d) \subseteq X /\ \A e \in X : ImportsOf(requestedModules, e) \subseteq X
    BY <1>3, <1>4 DEF Imports
  <2>2. NeedsOf(requestedModules, d) \subseteq X
    BY <2>1, NeedsLeast
  <2> QED
    BY <2>2, NeedsIsNeedsOf
<1> QED
  BY <1>2, <1>3, <1>4

\* What a clean module needs is clean.
LEMMA CleanNeeds ==
    ASSUME TypeOK, NEW m, Clean(m), NEW d \in Needs(m)
    PROVE  Clean(d)
<1>1. d \in Modules /\ Needs(d) \subseteq Needs(m)
  BY NeedsFacts DEF Clean
<1> QED
  BY <1>1 DEF Clean, ErrorFree

\* The graph does not change, and while a walk lasts neither do the errors.
LEMMA SameGraph ==
    ASSUME UNCHANGED requestedModules
    PROVE  /\ \A m : Imports(m)' = Imports(m)
           /\ \A m : Needs(m)' = Needs(m)
           /\ UNCHANGED evaluationError => \A m : ErrorFree(m)' <=> ErrorFree(m)
           /\ UNCHANGED <<evaluationError, walk>> => \A m : Clean(m)' <=> Clean(m)
<1>1. \A m : Imports(m)' = Imports(m)
  BY DEF Imports
<1>2. \A m : Needs(m)' = Needs(m)
  <2>1. \A m : Needs(m)' = NeedsOf(requestedModules', m)
    BY DEF Needs, NeedsOf, Reached, IsReached, Reach
  <2> QED
    BY <2>1, NeedsIsNeedsOf
<1>3. ASSUME UNCHANGED evaluationError
      PROVE  \A m : ErrorFree(m)' <=> ErrorFree(m)
  BY <1>2, <1>3 DEF ErrorFree
<1>4. ASSUME UNCHANGED <<evaluationError, walk>>
      PROVE  \A m : Clean(m)' <=> Clean(m)
  BY <1>3, <1>4 DEF Clean
<1> QED
  BY <1>1, <1>2, <1>3, <1>4

LEMMA WalkFacts ==
    /\ Walks["link"].new = "UNINSTANTIATED" /\ Walks["link"].open = "INSTANTIATING"
    /\ Walks["link"].done = "INSTANTIATED"
    /\ Walks["eval"].new = "INSTANTIATED" /\ Walks["eval"].open = "EVALUATING"
    /\ Walks["eval"].done = "EVALUATED"
  BY DEF Walks

LEMMA StackFacts ==
    ASSUME TypeOK, OpenInv
    PROVE  /\ OnStack \subseteq Modules
           /\ \A a, b : Below(stack, a, b) => a \in OnStack /\ b \in OnStack /\ a # b
           /\ \A a, b, c : Below(stack, a, b) /\ Below(stack, b, c) => Below(stack, a, c)
           /\ \A a, b \in OnStack : a = b \/ Below(stack, a, b) \/ Below(stack, b, a)
           /\ \A a, b : Below(stack, a, b) => ~Below(stack, b, a)
<1>1. stack \in Seq(Modules) /\ IsInjective(stack)
  BY DEF TypeOK, OpenInv
<1>2. /\ \A a, b : Below(stack, a, b) => a \in OnStack /\ b \in OnStack /\ a # b
      /\ \A a, b, c : Below(stack, a, b) /\ Below(stack, b, c) => Below(stack, a, c)
      /\ \A a, b \in OnStack : a = b \/ Below(stack, a, b) \/ Below(stack, b, a)
      /\ OnStack \subseteq Modules
  BY <1>1, BelowOrder DEF OnStack
<1> QED
  BY <1>2

\* The innermost call.
LEMMA CurrentFacts ==
    ASSUME TypeOK, OpenInv, CallInv, frames # <<>>
    PROVE  LET n == Len(frames)
           IN  /\ n \in Nat \ {0} /\ DOMAIN frames = 1 .. n /\ n \in DOMAIN frames
               /\ Module = frames[n].module /\ Current = frames[n] /\ Current.idx = frames[n].idx
               /\ \A i \in DOMAIN frames : frames[i].module \in Modules /\ frames[i].idx \in Nat
               /\ Module \in Modules /\ Module \in OnStack /\ Module \in Called
               /\ walk \in {"link", "eval"}
               /\ Current.idx \in 1 .. Len(requestedModules[Module]) + 1
               /\ Len(requestedModules[Module]) \in Nat
               /\ MoreRequired => /\ Current.idx \in DOMAIN requestedModules[Module]
                                  /\ Required \in Imports(Module) /\ Required \in Modules
<1> PICK n, f : n = Len(frames) /\ f = frames[n]
  OBVIOUS
<1>1. frames \in Seq([module : Modules, idx : Nat])
  BY DEF TypeOK
<1>2. n \in Nat \ {0} /\ DOMAIN frames = 1 .. n /\ n \in DOMAIN frames
  BY <1>1, LenProperties, EmptySeq
<1>3. \A i \in DOMAIN frames : frames[i] \in [module : Modules, idx : Nat]
  BY <1>1, ElementOfSeq, LenProperties
<1>4. Current = f /\ Module = f.module
  BY DEF Current, Module, Last
<1>5. f.module \in Modules /\ f.module \in OnStack /\ f.module \in Called
      /\ f.idx \in 1 .. Len(requestedModules[f.module]) + 1
  BY <1>2, <1>3 DEF CallInv, Called
<1>6. requestedModules[Module] \in Seq(Modules)
  BY <1>4, <1>5, NeedsFacts
<1>7. walk \in {"link", "eval"}
  BY DEF OpenInv, TypeOK
<1>8. MoreRequired => f.idx \in DOMAIN requestedModules[Module]
  BY <1>4, <1>5, <1>6, LenProperties DEF MoreRequired
<1>9. MoreRequired => Required \in Imports(Module) /\ Required \in Modules
  <2>1. MoreRequired => Required \in Imports(Module)
    BY <1>4, <1>8 DEF Required, Imports, ImportsOf, ToSet
  <2> QED
    BY <1>4, <1>5, <2>1, NeedsFacts
<1>10. Len(requestedModules[Module]) \in Nat
  BY <1>6, LenProperties
<1> QED
  BY <1>2, <1>3, <1>4, <1>5, <1>7, <1>8, <1>9, <1>10

\* If the innermost call is for a module that is not clean, no module on the stack is.
LEMMA CleanTop ==
    ASSUME TypeOK, OpenInv, CallInv, OrderInv, frames # <<>>, NEW m \in OnStack, Clean(m)
    PROVE  Clean(Module)
<1> PICK n : n = Len(frames)
  OBVIOUS
<1>1. /\ n \in Nat \ {0} /\ DOMAIN frames = 1 .. n /\ n \in DOMAIN frames
      /\ Module = frames[n].module /\ Module \in OnStack
  BY CurrentFacts
<1>2. PICK c \in Called : Clean(c)
  BY DEF OrderInv
<1>3. PICK i \in DOMAIN frames : frames[i].module = c
  BY DEF Called
<1>4. CASE i = n
  BY <1>1, <1>2, <1>3, <1>4
<1>5. CASE i # n
  <2>1. i < n
    BY <1>1, <1>5
  <2>2. Below(stack, frames[i].module, frames[n].module)
    BY <1>1, <2>1 DEF CallInv
  <2>3. Module \in Needs(c)
    BY <1>1, <1>3, <2>2 DEF CallInv
  <2> QED
    BY <1>2, <2>3, CleanNeeds
<1> QED
  BY <1>4, <1>5

-----------------------------------------------------------------------------
(* Descend: a call for a module that the walk has not seen *)

LEMMA DescendFacts ==
    ASSUME Inv, Descend
    PROVE  LET n == Len(frames)
               R == Required
           IN  /\ n \in Nat \ {0} /\ DOMAIN frames = 1 .. n /\ DOMAIN frames' = 1 .. n + 1
               /\ frames' \in Seq([module : Modules, idx : Nat])
               /\ Len(frames') = n + 1 /\ \A i \in 1 .. n : frames'[i] = frames[i]
               /\ frames'[n + 1] = [module |-> R, idx |-> 1]
               /\ R \in Modules /\ R \in Imports(Module) /\ R \notin OnStack
               /\ \A x \in Modules : /\ dfsIndex'[x] = IF x = R THEN index ELSE dfsIndex[x]
                                     /\ dfsAncestorIndex'[x] = IF x = R THEN index ELSE dfsAncestorIndex[x]
                                     /\ status'[x] = IF x = R THEN Walks[walk].open ELSE status[x]
               /\ \A x \in Modules : (Linked(x)' <=> Linked(x))
                                     /\ (status'[x] = "EVALUATED" <=> status[x] = "EVALUATED")
               /\ index \in Nat /\ index' = index + 1
               /\ stack' \in Seq(Modules) /\ IsInjective(stack')
               /\ \A a : a \in OnStack' <=> a \in OnStack \/ a = R
               /\ \A a, b : Below(stack', a, b) <=> Below(stack, a, b) \/ (a \in OnStack /\ b = R)
               /\ \A a : a \in Called' <=> a \in Called \/ a = R
               /\ UNCHANGED <<inputVars, registered, evaluationError, walk, root, executed>>
<1> PICK n, R : n = Len(frames) /\ R = Required
  OBVIOUS
<1>1. /\ frames # <<>> /\ MoreRequired /\ status[R] = Walks[walk].new
      /\ Enter(R, walk, index, stack, frames)
      /\ UNCHANGED <<inputVars, registered, evaluationError, walk, root, executed>>
  BY DEF Descend
<1>2. TypeOK /\ OpenInv /\ CallInv
  BY DEF Inv, WalkInv
<1>3. /\ n \in Nat \ {0} /\ DOMAIN frames = 1 .. n /\ walk \in {"link", "eval"}
      /\ R \in Modules /\ R \in Imports(Module)
      /\ \A i \in DOMAIN frames : frames[i].module \in Modules
  BY <1>1, <1>2, CurrentFacts
<1>4. R \notin OnStack
  BY <1>1, <1>2, <1>3, WalkFacts DEF OpenInv
<1>5. /\ frames' = Append(frames, [module |-> R, idx |-> 1]) /\ stack' = Append(stack, R)
      /\ index' = index + 1
      /\ status' = [status EXCEPT ![R] = Walks[walk].open]
      /\ dfsIndex' = [dfsIndex EXCEPT ![R] = index]
      /\ dfsAncestorIndex' = [dfsAncestorIndex EXCEPT ![R] = index]
  BY <1>1 DEF Enter
<1>6. /\ frames \in Seq([module : Modules, idx : Nat]) /\ stack \in Seq(Modules)
      /\ index \in Nat /\ status \in [Modules -> ModuleStatus]
      /\ DOMAIN dfsIndex = Modules /\ DOMAIN dfsAncestorIndex = Modules
  BY <1>2 DEF TypeOK
<1>7. [module |-> R, idx |-> 1] \in [module : Modules, idx : Nat]
  BY <1>3
<1>8. /\ DOMAIN frames' = 1 .. n + 1 /\ frames' \in Seq([module : Modules, idx : Nat])
      /\ Len(frames') = n + 1 /\ \A i \in 1 .. n : frames'[i] = frames[i]
      /\ frames'[n + 1] = [module |-> R, idx |-> 1]
  BY <1>5, <1>6, <1>7, AppendProperties, LenProperties
<1>9. \A x \in Modules : /\ dfsIndex'[x] = IF x = R THEN index ELSE dfsIndex[x]
                         /\ dfsAncestorIndex'[x] = IF x = R THEN index ELSE dfsAncestorIndex[x]
                         /\ status'[x] = IF x = R THEN Walks[walk].open ELSE status[x]
  BY <1>5, <1>6
<1>10. \A x \in Modules : (Linked(x)' <=> Linked(x))
                          /\ (status'[x] = "EVALUATED" <=> status[x] = "EVALUATED")
  BY <1>1, <1>3, <1>9, WalkFacts DEF Linked
<1>11. /\ stack' \in Seq(Modules) /\ IsInjective(stack')
       /\ \A a : a \in OnStack' <=> a \in OnStack \/ a = R
       /\ \A a, b : Below(stack', a, b) <=> Below(stack, a, b) \/ (a \in OnStack /\ b = R)
  BY <1>2, <1>3, <1>4, <1>5, <1>6, PushOrder DEF OpenInv, OnStack
<1>12. \A a : a \in Called' <=> a \in Called \/ a = R
  <2>1. \A i \in DOMAIN frames' : i \in DOMAIN frames \/ i = n + 1
    BY <1>3, <1>8
  <2>2. \A i \in DOMAIN frames : i \in DOMAIN frames' /\ frames'[i] = frames[i]
    BY <1>3, <1>8
  <2>3. n + 1 \in DOMAIN frames'
    BY <1>3, <1>8
  <2> QED
    BY <1>8, <2>1, <2>2, <2>3 DEF Called
<1> QED
  BY <1>1, <1>3, <1>4, <1>5, <1>6, <1>8, <1>9, <1>10, <1>11, <1>12

LEMMA DescendInv ==
    ASSUME Inv, Descend
    PROVE  Inv'
<1> PICK n, R : n = Len(frames) /\ R = Required
  OBVIOUS
<1>0. /\ TypeOK /\ OpenInv /\ CallInv /\ OrderInv /\ GraphInv /\ RootInv /\ NumberInv
      /\ AncestorInv /\ ReturnInv /\ ExecutedInv /\ frames # <<>> /\ MoreRequired
      /\ status[R] = Walks[walk].new
  BY DEF Inv, WalkInv, Descend
<1>1. /\ n \in Nat \ {0} /\ DOMAIN frames = 1 .. n /\ DOMAIN frames' = 1 .. n + 1
      /\ frames' \in Seq([module : Modules, idx : Nat])
      /\ Len(frames') = n + 1 /\ \A i \in 1 .. n : frames'[i] = frames[i]
      /\ frames'[n + 1] = [module |-> R, idx |-> 1]
  BY DescendFacts
<1>2. R \in Modules /\ R \in Imports(Module) /\ R \notin OnStack
  BY DescendFacts
<1>3. \A x \in Modules : /\ dfsIndex'[x] = IF x = R THEN index ELSE dfsIndex[x]
                         /\ dfsAncestorIndex'[x] = IF x = R THEN index ELSE dfsAncestorIndex[x]
                         /\ status'[x] = IF x = R THEN Walks[walk].open ELSE status[x]
  BY DescendFacts
<1>4. \A x \in Modules : (Linked(x)' <=> Linked(x))
                         /\ (status'[x] = "EVALUATED" <=> status[x] = "EVALUATED")
  BY DescendFacts
<1>5. /\ index \in Nat /\ index' = index + 1
      /\ stack' \in Seq(Modules) /\ IsInjective(stack')
  BY DescendFacts
<1>6. /\ \A a : a \in OnStack' <=> a \in OnStack \/ a = R
      /\ \A a, b : Below(stack', a, b) <=> Below(stack, a, b) \/ (a \in OnStack /\ b = R)
      /\ \A a : a \in Called' <=> a \in Called \/ a = R
  BY DescendFacts
<1>7. UNCHANGED <<requestedModules, unresolvable, registered, evaluationError, walk, root, executed>>
  BY DescendFacts DEF inputVars
<1>8. /\ \A m : Imports(m)' = Imports(m) /\ Needs(m)' = Needs(m)
      /\ \A m : (ErrorFree(m)' <=> ErrorFree(m)) /\ (Clean(m)' <=> Clean(m))
  BY <1>7, SameGraph
<1>9. /\ OnStack \subseteq Modules
      /\ \A a, b : Below(stack, a, b) => a \in OnStack /\ b \in OnStack /\ a # b
      /\ \A a, b, c : Below(stack, a, b) /\ Below(stack, b, c) => Below(stack, a, c)
      /\ \A a, b \in OnStack : a = b \/ Below(stack, a, b) \/ Below(stack, b, a)
  BY <1>0, StackFacts
<1>10. /\ n \in DOMAIN frames /\ Module = frames[n].module /\ Current.idx = frames[n].idx
       /\ Module \in Modules /\ Module \in OnStack /\ Module \in Called
       /\ walk \in {"link", "eval"}
       /\ Current.idx \in DOMAIN requestedModules[Module]
       /\ \A i \in DOMAIN frames : frames[i].module \in Modules
  BY <1>0, CurrentFacts
<1>11. \A i \in DOMAIN frames' : (i \in DOMAIN frames /\ frames'[i] = frames[i]) \/ i = n + 1
  BY <1>1
<1>12. Called \subseteq OnStack
  BY <1>0 DEF CallInv, Called
<1>20. TypeOK'
  <2>1. status' \in [Modules -> ModuleStatus]
    <3>1. Walks[walk].open \in ModuleStatus
      BY <1>10, WalkFacts DEF ModuleStatus
    <3> QED
      BY <1>0, <1>2, <3>1 DEF TypeOK, Descend, Enter
  <2>2. \A f \in {dfsIndex', dfsAncestorIndex', evaluationError'} :
            DOMAIN f = Modules /\ \A m \in Modules : f[m] \in Nat \cup {UNDEFINED_INDEX}
    BY <1>0, <1>2, <1>3, <1>5, <1>7, ZenonT(40) DEF TypeOK, Descend, Enter
  <2>3. \A m \in Modules : status'[m] = "UNINSTANTIATED" <=> dfsIndex'[m] = UNDEFINED_INDEX
    <3>1. Walks[walk].open # "UNINSTANTIATED"
      BY ONLY <1>10, WalkFacts
    <3>2. index # UNDEFINED_INDEX
      BY ONLY <1>5 DEF UNDEFINED_INDEX
    <3>3. \A m \in Modules : status[m] = "UNINSTANTIATED" <=> dfsIndex[m] = UNDEFINED_INDEX
      BY ONLY <1>0 DEF TypeOK
    <3> QED
      BY ONLY <1>3, <3>1, <3>2, <3>3
  <2> QED
    BY <1>0, <1>1, <1>5, <1>7, <2>1, <2>2, <2>3 DEF TypeOK
<1>21. GraphInv'
  <2>1. \A m \in Modules : Imports(m) \subseteq Modules
    BY <1>0, NeedsFacts
  <2> QED
    BY <1>0, <1>4, <1>8, <2>1 DEF GraphInv
<1>22. OpenInv'
  <2>1. \A m \in Modules : status'[m] = "INSTANTIATING" <=> walk' = "link" /\ m \in OnStack'
    BY <1>0, <1>3, <1>6, <1>7, <1>10, WalkFacts DEF OpenInv
  <2>2. \A m \in Modules : status'[m] = "EVALUATING" <=> walk' = "eval" /\ m \in OnStack'
    BY <1>0, <1>3, <1>6, <1>7, <1>10, WalkFacts DEF OpenInv
  <2> QED
    BY <1>5, <1>7, <1>10, <2>1, <2>2 DEF OpenInv
<1>23. RootInv'
  <2>1. frames' # <<>> /\ frames'[1] = frames[1] /\ frames[1].module \in OnStack
    BY <1>0, <1>1, <1>10 DEF CallInv
  <2>2. dfsIndex'[frames[1].module] = 0
    BY <1>0, <1>2, <1>3, <1>9, <2>1 DEF RootInv
  <2>3. \A b \in OnStack' : b = frames[1].module \/ Below(stack', frames[1].module, b)
    BY <1>0, <1>6, <2>1 DEF RootInv
  <2> QED
    BY <2>1, <2>2, <2>3 DEF RootInv
<1>24. CallInv'
  <2>1. ASSUME NEW i \in DOMAIN frames', i # n + 1
        PROVE  /\ frames'[i].module \in OnStack'
               /\ frames'[i].idx \in 1 .. Len(requestedModules'[frames'[i].module]) + 1
               /\ i < Len(frames') =>
                   /\ frames'[i].idx <= Len(requestedModules'[frames'[i].module])
                   /\ frames'[i + 1].module = requestedModules'[frames'[i].module][frames'[i].idx]
               /\ \A k \in DOMAIN frames' : i < k => Below(stack', frames'[i].module, frames'[k].module)
               /\ \A c, b : c = frames'[i].module /\ Below(stack', c, b) => b \in Needs(c)'
    <3>1. i \in DOMAIN frames /\ frames'[i] = frames[i]
      BY <1>11, <2>1
    <3>2. frames'[i].module \in OnStack' /\ frames'[i].idx \in 1 .. Len(requestedModules'[frames'[i].module]) + 1
      BY <1>0, <1>6, <1>7, <3>1 DEF CallInv
    <3>3. /\ frames'[i].idx <= Len(requestedModules'[frames'[i].module])
          /\ frames'[i + 1].module = requestedModules'[frames'[i].module][frames'[i].idx]
      <4>1. CASE i < n
        <5>1. i + 1 \in DOMAIN frames /\ frames'[i + 1] = frames[i + 1]
          BY <1>1, <3>1, <4>1
        <5> QED
          BY <1>0, <1>7, <3>1, <4>1, <5>1 DEF CallInv
      <4>2. CASE i = n
        <5>1. frames'[i + 1].module = R
          BY <1>1, <4>2
        <5>2. R = requestedModules[Module][Current.idx]
          BY DEF Required
        <5> QED
          BY <1>0, <1>7, <1>10, <3>1, <4>2, <5>1, <5>2 DEF MoreRequired
      <4> QED
        BY <1>1, <3>1, <4>1, <4>2
    <3>4. ASSUME NEW k \in DOMAIN frames', i < k
          PROVE  Below(stack', frames'[i].module, frames'[k].module)
      <4>1. CASE k = n + 1
        <5>1. frames'[k].module = R
          BY <1>1, <4>1
        <5> QED
          BY <1>0, <1>6, <3>1, <5>1 DEF CallInv
      <4>2. CASE k # n + 1
        BY <1>0, <1>6, <1>11, <3>1, <3>4, <4>2 DEF CallInv
      <4> QED
        BY <4>1, <4>2
    <3>5. ASSUME NEW c, NEW b, c = frames'[i].module, Below(stack', c, b)
          PROVE  b \in Needs(c)'
      <4>0. c = frames[i].module
        BY <3>1, <3>5
      <4>1. CASE Below(stack, c, b)
        BY <1>0, <1>8, <3>1, <4>0, <4>1 DEF CallInv
      <4>2. CASE b = R
        <5>1. c = Module \/ Module \in Needs(c)
          <6>1. CASE i = n
            BY <1>10, <4>0, <6>1
          <6>2. CASE i # n
            <7>1. i < n
              BY <1>1, <3>1, <6>2
            <7>2. Below(stack, c, Module)
              BY <1>0, <1>10, <3>1, <4>0, <7>1 DEF CallInv
            <7> QED
              BY <1>0, <3>1, <4>0, <7>2 DEF CallInv
          <6> QED
            BY <6>1, <6>2
        <5>2. c \in Modules
          BY <1>10, <3>1, <4>0
        <5>3. R \in Needs(c)
          BY <1>0, <1>2, <5>1, <5>2, NeedsFacts
        <5> QED
          BY <1>8, <4>2, <5>3
      <4> QED
        BY <1>6, <3>5, <4>1, <4>2
    <3> QED
      BY <3>2, <3>3, <3>4, <3>5
  <2>2. ASSUME NEW i \in DOMAIN frames', i = n + 1
        PROVE  /\ frames'[i].module \in OnStack'
               /\ frames'[i].idx \in 1 .. Len(requestedModules'[frames'[i].module]) + 1
               /\ ~(i < Len(frames'))
               /\ \A k \in DOMAIN frames' : ~(i < k)
               /\ \A b : ~Below(stack', frames'[i].module, b)
    <3>1. frames'[i].module = R /\ frames'[i].idx = 1
      BY <1>1, <2>2
    <3>2. Len(requestedModules'[R]) \in Nat
      BY <1>0, <1>2, <1>7, NeedsFacts, LenProperties
    <3>3. 1 \in 1 .. Len(requestedModules'[R]) + 1
      BY <3>2
    <3>4. ~(i < Len(frames')) /\ \A k \in DOMAIN frames' : ~(i < k)
      BY <1>1, <2>2
    <3>5. \A b : ~Below(stack', R, b)
      BY <1>2, <1>6, <1>9
    <3> QED
      BY <1>6, <3>1, <3>3, <3>4, <3>5
  <2>3. ASSUME NEW i \in DOMAIN frames'
        PROVE  /\ frames'[i].module \in OnStack'
               /\ frames'[i].idx \in 1 .. Len(requestedModules'[frames'[i].module]) + 1
               /\ i < Len(frames') =>
                    /\ frames'[i].idx <= Len(requestedModules'[frames'[i].module])
                    /\ frames'[i + 1].module = requestedModules'[frames'[i].module][frames'[i].idx]
               /\ \A k \in DOMAIN frames' : i < k => Below(stack', frames'[i].module, frames'[k].module)
               /\ \A c, b : c = frames'[i].module /\ Below(stack', c, b) => b \in Needs(c)'
    <3>1. CASE i = n + 1
      BY ONLY <2>2, <3>1
    <3>2. CASE i # n + 1
      BY ONLY <2>1, <3>2
    <3> QED
      BY <3>1, <3>2
  <2> QED
    BY ONLY <2>3 DEF CallInv
<1>25. NumberInv'
  <2>1. \A m \in OnStack' : m \in Modules /\ (m = R \/ m \in OnStack)
    BY <1>2, <1>6, <1>9
  <2>2. ASSUME NEW m \in OnStack'
        PROVE  /\ dfsIndex'[m] \in Nat /\ dfsAncestorIndex'[m] \in Nat
               /\ dfsAncestorIndex'[m] <= dfsIndex'[m]
    BY <1>0, <1>3, <1>5, <2>1 DEF NumberInv
  <2> QED
    BY <2>2 DEF NumberInv
<1>26. OrderInv'
  <2>1. \A m \in OnStack' : Clean(m)' => dfsIndex'[m] < index'
    BY <1>0, <1>2, <1>3, <1>5, <1>6, <1>8, <1>9 DEF OrderInv, NumberInv
  <2>2. \A a, b : Clean(a)' /\ Below(stack', a, b) => dfsIndex'[a] < dfsIndex'[b]
    BY <1>0, <1>2, <1>3, <1>6, <1>8, <1>9 DEF OrderInv
  <2>3. \A m \in OnStack' : Clean(m)' => m \in Called' \/ \E c \in Called' : Clean(c)' /\ Below(stack', c, m)
    BY <1>0, <1>6, <1>8 DEF OrderInv
  <2> QED
    BY <2>1, <2>2, <2>3 DEF OrderInv
<1>27. AncestorInv'
  <2>1. \A m \in OnStack' : Clean(m)' =>
            \E y \in OnStack' : Clean(y)' /\ dfsAncestorIndex'[m] = dfsIndex'[y]
    <3> SUFFICES ASSUME NEW m \in OnStack', Clean(m)'
                 PROVE  \E y \in OnStack' : Clean(y)' /\ dfsAncestorIndex'[m] = dfsIndex'[y]
      OBVIOUS
    <3>1. CASE m = R
      BY <1>2, <1>3, <1>6, <3>1
    <3>2. CASE m # R
      <4>1. m \in OnStack /\ Clean(m)
        BY <1>6, <1>8, <3>2
      <4>2. PICK y \in OnStack : Clean(y) /\ dfsAncestorIndex[m] = dfsIndex[y]
        BY <1>0, <4>1 DEF AncestorInv
      <4> QED
        BY <1>2, <1>3, <1>6, <1>8, <1>9, <3>2, <4>1, <4>2
    <3> QED
      BY <3>1, <3>2
  <2>2. ASSUME NEW m \in OnStack', NEW d \in Modules, Clean(m)', Processed(m, d)'
        PROVE  Complete(d)' \/ (d \in OnStack' /\ dfsAncestorIndex'[m] <= dfsIndex'[d])
    <3>1. PICK k \in DOMAIN requestedModules[m] :
              /\ requestedModules[m][k] = d
              /\ \A i \in DOMAIN frames' : frames'[i].module = m => k < frames'[i].idx
      BY <1>7, <2>2 DEF Processed
    <3>2. m # R
      <4> SUFFICES ASSUME m = R
                   PROVE  FALSE
        OBVIOUS
      <4>1. n + 1 \in DOMAIN frames'
        BY <1>1
      <4>2. k < 1
        BY <1>1, <3>1, <4>1
      <4>3. k \in Nat \ {0}
        <5>1. requestedModules[R] \in Seq(Modules)
          BY <1>0, <1>2, NeedsFacts
        <5> QED
          BY <3>1, <5>1, LenProperties
      <4> QED
        BY <4>2, <4>3
    <3>3. m \in OnStack /\ Clean(m)
      BY <1>6, <1>8, <2>2, <3>2
    <3>4. \A i \in DOMAIN frames : frames[i].module = m => k < frames[i].idx
      <4>1. \A i \in DOMAIN frames : i \in DOMAIN frames' /\ frames'[i] = frames[i]
        BY <1>1
      <4> QED
        BY <3>1, <4>1
    <3>5. Processed(m, d)
      BY <3>1, <3>4 DEF Processed
    <3>6. Complete(d) \/ (d \in OnStack /\ dfsAncestorIndex[m] <= dfsIndex[d])
      BY <1>0, <3>3, <3>5 DEF AncestorInv
    <3>7. Complete(d)' <=> Complete(d)
      BY <1>4, <1>7 DEF Complete
    <3>8. m \in Modules /\ (d \in OnStack => d # R /\ d \in OnStack')
      BY <1>2, <1>6, <1>9, <3>3
    <3> QED
      BY <1>3, <3>2, <3>6, <3>7, <3>8
  <2> QED
    BY <2>1, <2>2 DEF AncestorInv
<1>28. ReturnInv'
  <2> SUFFICES ASSUME NEW i \in DOMAIN frames', NEW c, NEW m, c = frames'[i].module,
                      Clean(c)', Returned(i, m)'
               PROVE  dfsAncestorIndex'[c] <= dfsAncestorIndex'[m]
    BY DEF ReturnInv, TakenOver
  <2>1. /\ m \in OnStack /\ m \notin Called /\ m # R /\ m \in Modules
        /\ Below(stack, c, m) /\ c \in OnStack /\ c \in Modules /\ c # R /\ Clean(c)
    BY <1>2, <1>6, <1>8, <1>9 DEF Returned
  <2>2. i \in DOMAIN frames /\ c = frames[i].module
    BY <1>1, <1>11, <2>1
  <2>3. i < Len(frames) => Below(stack, m, frames[i + 1].module)
    <3> SUFFICES ASSUME i < n
                 PROVE  Below(stack, m, frames[i + 1].module)
      OBVIOUS
    <3>1. i + 1 \in DOMAIN frames /\ frames'[i + 1] = frames[i + 1] /\ i < Len(frames')
      BY <1>1, <2>2
    <3>2. frames[i + 1].module \in Called
      BY <3>1 DEF Called
    <3>3. Below(stack', m, frames[i + 1].module)
      BY <3>1 DEF Returned
    <3> QED
      BY <1>2, <1>6, <1>12, <3>2, <3>3
  <2>4. Returned(i, m)
    BY <2>1, <2>2, <2>3 DEF Returned
  <2>5. TakenOver(i, m)
    BY <1>0, <2>1, <2>2, <2>4 DEF ReturnInv
  <2>6. dfsAncestorIndex[c] <= dfsAncestorIndex[m]
    BY <1>2, <2>2, <2>5 DEF TakenOver
  <2> QED
    BY <1>3, <2>1, <2>6
<1>29. ExecutedInv'
  <2>1. \A m \in Modules : Started(m)' <=> Started(m)
    BY <1>4, <1>6, <1>7 , <1>2, <1>10 DEF Started
  <2>2. \A i \in DOMAIN executed : executed[i] \in Modules
    BY <1>0, ElementOfSeq, LenProperties DEF TypeOK
  <2>3. ToSet(executed) \subseteq Modules
    BY <2>2 DEF ToSet
  <2>4. ~registered => \A i \in DOMAIN executed : \A m, d \in Modules :
            m = executed[i] /\ d \in Imports(m)' =>
                m \in Needs(d)' \/ \E j \in 1 .. i - 1 : executed[j] = d
    BY <1>0, <1>8 DEF ExecutedInv
  <2> QED
    BY <1>0, <1>7, <2>1, <2>3, <2>4 DEF ExecutedInv
<1> QED
  BY <1>20, <1>21, <1>22, <1>23, <1>24, <1>25, <1>26, <1>27, <1>28, <1>29 DEF Inv, WalkInv

-----------------------------------------------------------------------------
(* Revisit: an import that has been seen *)

LEMMA MinFacts ==
    ASSUME NEW a \in Nat, NEW b \in Nat
    PROVE  Min({a, b}) \in {a, b} /\ Min({a, b}) <= a /\ Min({a, b}) <= b
<1>1. \E x \in {a, b} : \A y \in {a, b} : x <= y
  OBVIOUS
<1> QED
  BY <1>1 DEF Min

\* An import of the innermost call is new, on the stack or complete.
LEMMA RequiredFacts ==
    ASSUME Inv, frames # <<>>, MoreRequired, status[Required] # Walks[walk].new
    PROVE  /\ status[Required] = Walks[walk].open <=> Required \in OnStack
           /\ Required \in OnStack \/ Complete(Required)
<1>1. TypeOK /\ OpenInv /\ CallInv /\ GraphInv
  BY DEF Inv, WalkInv
<1>2. /\ Module \in Modules /\ Module \in OnStack /\ walk \in {"link", "eval"}
      /\ Required \in Imports(Module) /\ Required \in Modules
  BY <1>1, CurrentFacts
<1>3. status[Required] = Walks[walk].open <=> Required \in OnStack
  BY <1>1, <1>2, WalkFacts DEF OpenInv
<1>4. walk = "link" => Required \in OnStack \/ Complete(Required)
  BY <1>3, WalkFacts DEF Complete, Linked
<1>5. walk = "eval" => Required \in OnStack \/ Complete(Required)
  <2> SUFFICES ASSUME walk = "eval"
               PROVE  Required \in OnStack \/ Complete(Required)
    OBVIOUS
  <2>1. status[Module] = "EVALUATING"
    BY <1>1, <1>2 DEF OpenInv
  <2>2. Linked(Required)
    BY <1>1, <1>2, <2>1 DEF GraphInv, Linked
  <2>3. status[Required] \in ModuleStatus
    BY <1>1, <1>2 DEF TypeOK
  <2> QED
    BY <1>3, <2>2, <2>3, WalkFacts DEF Linked, ModuleStatus, Complete
<1> QED
  BY <1>2, <1>3, <1>4, <1>5

LEMMA RevisitInv ==
    ASSUME Inv, Revisit
    PROVE  Inv'
<1> PICK n, R, f : n = Len(frames) /\ R = Required /\ f = Module
  OBVIOUS
<1>0. /\ TypeOK /\ OpenInv /\ CallInv /\ OrderInv /\ GraphInv /\ RootInv /\ NumberInv
      /\ AncestorInv /\ ReturnInv /\ ExecutedInv /\ frames # <<>> /\ MoreRequired
      /\ status[R] # Walks[walk].new
  BY DEF Inv, WalkInv, Revisit
<1>1. UNCHANGED <<requestedModules, unresolvable, registered, status, dfsIndex, evaluationError,
                  walk, root, stack, executed>>
  BY DEF Revisit, inputVars
<1>2. /\ \A m : Imports(m)' = Imports(m) /\ Needs(m)' = Needs(m)
      /\ \A m : (ErrorFree(m)' <=> ErrorFree(m)) /\ (Clean(m)' <=> Clean(m))
  BY <1>1, SameGraph
<1>3. /\ n \in Nat \ {0} /\ DOMAIN frames = 1 .. n /\ n \in DOMAIN frames
      /\ f = frames[n].module /\ Current.idx = frames[n].idx
      /\ f \in Modules /\ f \in OnStack /\ f \in Called /\ walk \in {"link", "eval"}
      /\ Current.idx \in DOMAIN requestedModules[f]
      /\ R \in Imports(f) /\ R \in Modules
      /\ \A i \in DOMAIN frames : frames[i].module \in Modules /\ frames[i].idx \in Nat
  BY <1>0, CurrentFacts
<1>4. /\ OnStack \subseteq Modules
      /\ \A a, b : Below(stack, a, b) => a \in OnStack /\ b \in OnStack /\ a # b
  BY <1>0, StackFacts
<1>5. R \in OnStack \/ Complete(R)
  BY <1>0, RequiredFacts
<1>6. /\ frames' \in Seq([module : Modules, idx : Nat])
      /\ DOMAIN frames' = 1 .. n /\ Len(frames') = n
      /\ \A i \in 1 .. n : /\ frames'[i].module = frames[i].module
                           /\ frames'[i].idx = IF i = n THEN frames[i].idx + 1 ELSE frames[i].idx
  <2>1. frames' = [frames EXCEPT ![n].idx = @ + 1]
    BY DEF Revisit
  <2>2. frames \in Seq([module : Modules, idx : Nat])
    BY <1>0 DEF TypeOK
  <2>3. \A i \in 1 .. n : frames[i] \in [module : Modules, idx : Nat]
    BY <1>3, <2>2, ElementOfSeq
  <2>4. DOMAIN frames' = 1 .. n
    BY <1>3, <2>1
  <2>5. \A i \in 1 .. n : frames'[i] = IF i = n THEN [frames[n] EXCEPT !.idx = @ + 1] ELSE frames[i]
    BY <1>3, <2>1
  <2>6. \A i \in 1 .. n : frames'[i] \in [module : Modules, idx : Nat]
    BY <1>3, <2>3, <2>5
  <2>7. frames' = [i \in 1 .. n |-> frames'[i]]
    BY <1>3, <2>1
  <2>8. frames' \in Seq([module : Modules, idx : Nat])
    <3> PICK g, S : g = frames' /\ S = [module : Modules, idx : Nat]
      OBVIOUS
    <3>1. n \in Nat /\ \A i \in 1 .. n : g[i] \in S
      BY <1>3, <2>6
    <3>2. g = [i \in 1 .. n |-> g[i]]
      BY <2>7
    <3>3. [i \in 1 .. n |-> g[i]] \in Seq(S)
      BY ONLY <3>1, IsASeq
    <3> QED
      BY <3>2, <3>3
  <2>9. Len(frames') = n
    BY <1>3, <2>4, <2>8, LenProperties
  <2> QED
    BY <2>3, <2>4, <2>5, <2>8, <2>9
<1>7. /\ \A x \in Modules : x # f => dfsAncestorIndex'[x] = dfsAncestorIndex[x]
      /\ dfsAncestorIndex'[f] \in Nat /\ dfsAncestorIndex'[f] <= dfsAncestorIndex[f]
      /\ R \in OnStack => dfsAncestorIndex'[f] <= dfsAncestorIndex[R]
      /\ \/ dfsAncestorIndex'[f] = dfsAncestorIndex[f]
         \/ R \in OnStack /\ dfsAncestorIndex'[f] = dfsAncestorIndex[R]
      /\ DOMAIN dfsAncestorIndex' = Modules
  <2>1. dfsAncestorIndex' = [dfsAncestorIndex EXCEPT ![f] =
                                IF status[R] = Walks[walk].open
                                THEN Min({dfsAncestorIndex[f], dfsAncestorIndex[R]})
                                ELSE dfsAncestorIndex[f]]
    BY DEF Revisit
  <2>2. status[R] = Walks[walk].open <=> R \in OnStack
    BY <1>0, RequiredFacts
  <2>3. DOMAIN dfsAncestorIndex = Modules
    BY <1>0 DEF TypeOK
  <2>4. dfsAncestorIndex[f] \in Nat /\ (R \in OnStack => dfsAncestorIndex[R] \in Nat)
    BY <1>0, <1>3 DEF NumberInv
  <2> PICK a, b : a = dfsAncestorIndex[f] /\ b = dfsAncestorIndex[R]
    OBVIOUS
  <2>5. dfsAncestorIndex'[f] = IF R \in OnStack THEN Min({a, b}) ELSE a
    BY <1>3, <2>1, <2>2, <2>3
  <2>6. R \in OnStack => Min({a, b}) \in {a, b} /\ Min({a, b}) <= a /\ Min({a, b}) <= b
    BY <2>4, MinFacts
  <2>7. \A x \in Modules : x # f => dfsAncestorIndex'[x] = dfsAncestorIndex[x]
    BY <2>1, <2>3
  <2>8. DOMAIN dfsAncestorIndex' = Modules
    BY <2>1, <2>3
  <2> QED
    BY <2>4, <2>5, <2>6, <2>7, <2>8
<1>8. OnStack' = OnStack /\ Called' = Called
  <2>1. OnStack' = OnStack
    BY <1>1 DEF OnStack
  <2>2. Called' = Called
    BY <1>3, <1>6, ZenonT(40) DEF Called
  <2> QED
    BY <2>1, <2>2
<1>9. \A m \in OnStack : Clean(m) => Clean(f) /\ Clean(R)
  <2>1. \A m \in OnStack : Clean(m) => Clean(f)
    BY <1>0, CleanTop
  <2>2. R \in Needs(f)
    BY <1>0, <1>3, NeedsFacts
  <2> QED
    BY <1>0, <2>1, <2>2, CleanNeeds
<1>10. index' \in Nat /\ \A m \in OnStack : Clean(m) => index' = index
  <2>1. index' = IF status[R] = "EVALUATED" /\ walk = "eval" /\ evaluationError[R] # UNDEFINED_INDEX
                 THEN evaluationError[R] ELSE index
    BY DEF Revisit
  <2>2. index \in Nat /\ evaluationError[R] \in Nat \cup {UNDEFINED_INDEX}
    BY <1>0, <1>3 DEF TypeOK
  <2>3. walk = "eval" /\ Clean(R) => evaluationError[R] = UNDEFINED_INDEX
    BY DEF Clean, ErrorFree
  <2> QED
    BY <1>9, <2>1, <2>2, <2>3
<1>20. TypeOK'
  <2>1. \A m \in Modules : dfsAncestorIndex'[m] \in Nat \cup {UNDEFINED_INDEX}
    BY <1>0, <1>7 DEF TypeOK
  <2>2. \A g \in {dfsIndex', dfsAncestorIndex', evaluationError'} :
            DOMAIN g = Modules /\ \A m \in Modules : g[m] \in Nat \cup {UNDEFINED_INDEX}
    BY <1>0, <1>1, <1>7, <2>1 DEF TypeOK
  <2> QED
    BY <1>0, <1>1, <1>6, <1>10, <2>2 DEF TypeOK
<1>21. GraphInv' /\ OpenInv'
  <2>1. GraphInv'
    BY <1>0, <1>1, <1>2 DEF GraphInv, Linked
  <2>2. OpenInv'
    BY <1>0, <1>1, <1>3, <1>8 DEF OpenInv
  <2> QED
    BY <2>1, <2>2
<1>22. RootInv'
  <2>1. frames' # <<>> /\ frames'[1].module = frames[1].module
    BY <1>3, <1>6
  <2> QED
    BY <1>0, <1>1, <1>8, <2>1 DEF RootInv
<1>23. CallInv'
  <2> SUFFICES ASSUME NEW i \in DOMAIN frames'
               PROVE  /\ frames'[i].module \in OnStack'
                      /\ frames'[i].idx \in 1 .. Len(requestedModules'[frames'[i].module]) + 1
                      /\ i < Len(frames') =>
                          /\ frames'[i].idx <= Len(requestedModules'[frames'[i].module])
                          /\ frames'[i + 1].module = requestedModules'[frames'[i].module][frames'[i].idx]
                      /\ \A k \in DOMAIN frames' : i < k => Below(stack', frames'[i].module, frames'[k].module)
                      /\ \A c, b : c = frames'[i].module /\ Below(stack', c, b) => b \in Needs(c)'
    BY DEF CallInv
  <2>1. i \in DOMAIN frames /\ i \in 1 .. n
    BY <1>3, <1>6
  <2>2. frames'[i].module \in OnStack'
    BY <1>0, <1>6, <1>8, <2>1 DEF CallInv
  <2>3. frames'[i].idx \in 1 .. Len(requestedModules'[frames'[i].module]) + 1
    <3>1. CASE i = n
      <4>1. Len(requestedModules[f]) \in Nat
        BY <1>0, CurrentFacts
      <4>2. frames[n].idx + 1 \in 1 .. Len(requestedModules[f]) + 1
        BY <1>0, <1>3, <4>1 DEF MoreRequired
      <4> QED
        BY <1>1, <1>3, <1>6, <3>1, <4>2
    <3>2. CASE i # n
      BY <1>0, <1>1, <1>6, <2>1, <3>2 DEF CallInv
    <3> QED
      BY <3>1, <3>2
  <2>4. ASSUME i < Len(frames')
        PROVE  /\ frames'[i].idx <= Len(requestedModules'[frames'[i].module])
               /\ frames'[i + 1].module = requestedModules'[frames'[i].module][frames'[i].idx]
    <3>1. i # n /\ i < n /\ i + 1 \in 1 .. n
      BY <1>3, <1>6, <2>1, <2>4
    <3> QED
      BY <1>0, <1>1, <1>6, <2>1, <3>1 DEF CallInv
  <2>5. \A k \in DOMAIN frames' : i < k => Below(stack', frames'[i].module, frames'[k].module)
    BY <1>0, <1>1, <1>3, <1>6, <2>1 DEF CallInv
  <2>6. \A c, b : c = frames'[i].module /\ Below(stack', c, b) => b \in Needs(c)'
    BY <1>0, <1>1, <1>2, <1>6, <2>1 DEF CallInv
  <2> QED
    BY <2>2, <2>3, <2>4, <2>5, <2>6
<1>24. NumberInv'
  <2> SUFFICES ASSUME NEW m \in OnStack
               PROVE  /\ dfsIndex'[m] \in Nat /\ dfsAncestorIndex'[m] \in Nat
                      /\ dfsAncestorIndex'[m] <= dfsIndex'[m]
    BY <1>8 DEF NumberInv
  <2>1. dfsIndex[m] \in Nat /\ dfsAncestorIndex[m] \in Nat /\ dfsAncestorIndex[m] <= dfsIndex[m] /\ m \in Modules
    BY <1>0, <1>4 DEF NumberInv
  <2>2. dfsAncestorIndex'[m] \in Nat /\ dfsAncestorIndex'[m] <= dfsAncestorIndex[m]
    BY <1>7, <2>1
  <2> QED
    BY <1>1, <2>1, <2>2
<1>25. OrderInv'
  <2>1. \A m \in OnStack' : Clean(m)' => dfsIndex'[m] < index'
    BY <1>0, <1>1, <1>2, <1>8, <1>10 DEF OrderInv
  <2>2. \A a, b : Clean(a)' /\ Below(stack', a, b) => dfsIndex'[a] < dfsIndex'[b]
    BY <1>0, <1>1, <1>2 DEF OrderInv
  <2>3. \A m \in OnStack' : Clean(m)' => m \in Called' \/ \E c \in Called' : Clean(c)' /\ Below(stack', c, m)
    BY <1>0, <1>1, <1>2, <1>8 DEF OrderInv
  <2> QED
    BY <2>1, <2>2, <2>3 DEF OrderInv
<1>26. AncestorInv'
  <2>1. ASSUME NEW m \in OnStack, Clean(m)
        PROVE  \E y \in OnStack : Clean(y) /\ dfsAncestorIndex'[m] = dfsIndex[y]
    <3>1. PICK y \in OnStack : Clean(y) /\ dfsAncestorIndex[m] = dfsIndex[y]
      BY <1>0, <2>1 DEF AncestorInv
    <3>2. CASE dfsAncestorIndex'[m] = dfsAncestorIndex[m]
      BY <3>1, <3>2
    <3>3. CASE dfsAncestorIndex'[m] # dfsAncestorIndex[m]
      <4>1. m = f /\ R \in OnStack /\ dfsAncestorIndex'[f] = dfsAncestorIndex[R]
        BY <1>4, <1>7, <3>3
      <4>2. PICK z \in OnStack : Clean(z) /\ dfsAncestorIndex[R] = dfsIndex[z]
        BY <1>0, <1>9, <2>1, <4>1 DEF AncestorInv
      <4> QED
        BY <4>1, <4>2
    <3> QED
      BY <3>2, <3>3
  <2>2. ASSUME NEW m \in OnStack, NEW d \in Modules, Clean(m), Processed(m, d)'
        PROVE  Complete(d) \/ (d \in OnStack /\ dfsAncestorIndex'[m] <= dfsIndex[d])
    <3>1. PICK k \in DOMAIN requestedModules[m] :
              /\ requestedModules[m][k] = d
              /\ \A i \in DOMAIN frames' : frames'[i].module = m => k < frames'[i].idx
      BY <1>1, <2>2 DEF Processed
    <3>2. m \in Modules /\ dfsAncestorIndex[m] \in Nat /\ dfsAncestorIndex'[m] <= dfsAncestorIndex[m]
          /\ dfsAncestorIndex'[m] \in Nat
      BY <1>0, <1>4, <1>7 DEF NumberInv
    <3>3. CASE Processed(m, d)
      <4>1. Complete(d) \/ (d \in OnStack /\ dfsAncestorIndex[m] <= dfsIndex[d])
        BY <1>0, <2>2, <3>3 DEF AncestorInv
      <4>2. d \in OnStack => dfsIndex[d] \in Nat
        BY <1>0 DEF NumberInv
      <4> QED
        BY <3>2, <4>1, <4>2
    <3>4. CASE ~Processed(m, d)
      <4>1. PICK i \in DOMAIN frames : frames[i].module = m /\ ~(k < frames[i].idx)
        BY <3>1, <3>4 DEF Processed
      <4>2. k < frames'[i].idx
        BY <1>3, <1>6, <3>1, <4>1
      <4>3. i = n /\ frames[i].idx \in Nat
        BY <1>3, <1>6, <4>1, <4>2
      <4>4. k \in Nat
        <5>1. requestedModules[m] \in Seq(Modules)
          BY <1>0, <3>2, NeedsFacts
        <5> QED
          BY <5>1, LenProperties
      <4>5. k = frames[n].idx
        BY <1>3, <1>6, <4>1, <4>2, <4>3, <4>4
      <4>6. m = f /\ d = R
        BY <1>3, <3>1, <4>1, <4>3, <4>5 DEF Required
      <4>7. R \in OnStack => dfsAncestorIndex'[f] <= dfsIndex[R]
        <5> SUFFICES ASSUME R \in OnStack
                     PROVE  dfsAncestorIndex'[f] <= dfsIndex[R]
          OBVIOUS
        <5>1. /\ dfsAncestorIndex[R] \in Nat /\ dfsIndex[R] \in Nat
              /\ dfsAncestorIndex[R] <= dfsIndex[R]
          BY <1>0 DEF NumberInv
        <5> QED
          BY <1>7, <5>1
      <4> QED
        BY <1>5, <4>6, <4>7
    <3> QED
      BY <3>3, <3>4
  <2>3. \A d : Complete(d)' <=> Complete(d)
    BY <1>1 DEF Complete, Linked
  <2> QED
    BY <1>1, <1>2, <1>8, <2>1, <2>2, <2>3 DEF AncestorInv
<1>27. ReturnInv'
  <2> SUFFICES ASSUME NEW i \in DOMAIN frames', NEW c, NEW m, c = frames'[i].module,
                      Clean(c)', Returned(i, m)'
               PROVE  dfsAncestorIndex'[c] <= dfsAncestorIndex'[m]
    BY DEF ReturnInv, TakenOver
  <2>1. i \in DOMAIN frames /\ c = frames[i].module /\ Clean(c)
    BY <1>2, <1>3, <1>6
  <2>2. Returned(i, m)
    <3>1. i < Len(frames) => i + 1 \in 1 .. n
      BY <1>3, <2>1
    <3> QED
      BY <1>1, <1>3, <1>6, <1>8, <2>1, <3>1 DEF Returned
  <2>3. TakenOver(i, m)
    BY <1>0, <2>1, <2>2 DEF ReturnInv
  <2>4. m # f /\ m \in Modules /\ m \in OnStack /\ c \in OnStack /\ c \in Modules
    BY <1>3, <1>4, <2>1, <2>2 DEF Returned
  <2>5. dfsAncestorIndex'[m] = dfsAncestorIndex[m] /\ dfsAncestorIndex[m] \in Nat
        /\ dfsAncestorIndex[c] \in Nat /\ dfsAncestorIndex'[c] \in Nat
    BY <1>0, <1>7, <2>4 DEF NumberInv
  <2>6. CASE dfsAncestorIndex[c] <= dfsAncestorIndex[m]
    <3>1. dfsAncestorIndex'[c] <= dfsAncestorIndex[c]
      BY <1>7, <2>4, <2>5
    <3> QED
      BY <2>5, <2>6, <3>1
  <2>7. CASE i = n /\ R \in OnStack /\ dfsAncestorIndex[R] <= dfsAncestorIndex[m]
    <3>1. c = f /\ dfsAncestorIndex'[f] <= dfsAncestorIndex[R] /\ dfsAncestorIndex[R] \in Nat
      BY <1>0, <1>3, <1>7, <2>1, <2>7 DEF NumberInv
    <3> QED
      BY <2>5, <2>7, <3>1
  <2> QED
    BY <2>1, <2>3, <2>6, <2>7 DEF TakenOver
<1>28. ExecutedInv'
  <2>1. \A m : Started(m)' <=> Started(m)
    BY <1>1, <1>8 DEF Started
  <2> QED
    BY <1>0, <1>1, <1>2, <2>1 DEF ExecutedInv
<1> QED
  BY <1>20, <1>21, <1>22, <1>23, <1>24, <1>25, <1>26, <1>27, <1>28 DEF Inv, WalkInv

-----------------------------------------------------------------------------
(* The end of a call, of either walk *)

CloseStep ==
    /\ frames # <<>> /\ ~MoreRequired /\ Close
    /\ UNCHANGED <<requestedModules, unresolvable, registered, dfsIndex, dfsAncestorIndex,
                   evaluationError, walk, root, index>>

\* What leaves the stack is complete.
Leaves(m) == m \in OnStack /\ m \notin OnStack'

LEMMA CloseFacts ==
    ASSUME Inv, CloseStep
    PROVE  LET n == Len(frames)
               f == Module
           IN  /\ frames' \in Seq([module : Modules, idx : Nat])
               /\ DOMAIN frames' = 1 .. n - 1 /\ Len(frames') = n - 1
               /\ \A i \in 1 .. n - 1 : frames'[i] = frames[i]
               /\ \A a : a \in Called' <=> a \in Called /\ a # f
               /\ stack' \in Seq(Modules) /\ IsInjective(stack')
               /\ \A a : a \in OnStack' => a \in OnStack
               /\ \A a, b : Below(stack', a, b) <=> Below(stack, a, b) /\ b \in OnStack'
               /\ f \in OnStack' => /\ dfsAncestorIndex[f] < dfsIndex[f]
                                    /\ \A a : a \in OnStack => a \in OnStack'
               /\ f \notin OnStack' => /\ dfsAncestorIndex[f] = dfsIndex[f]
                                       /\ \A a : a \in OnStack' <=> Below(stack, a, f)
               /\ \A a : Leaves(a) => f \notin OnStack' /\ (a = f \/ Below(stack, f, a))
               /\ status' \in [Modules -> ModuleStatus]
               /\ \A x \in Modules : status'[x] = IF Leaves(x) THEN Walks[walk].done ELSE status[x]
<1> PICK n, f : n = Len(frames) /\ f = Module
  OBVIOUS
<1>1. TypeOK /\ OpenInv /\ CallInv /\ NumberInv /\ frames # <<>> /\ Close
      /\ UNCHANGED <<dfsIndex, dfsAncestorIndex, walk>>
  BY DEF Inv, WalkInv, CloseStep
<1>2. /\ n \in Nat \ {0} /\ DOMAIN frames = 1 .. n /\ n \in DOMAIN frames
      /\ f = frames[n].module /\ f \in Modules /\ f \in OnStack
      /\ walk \in {"link", "eval"}
  BY <1>1, CurrentFacts
<1>3. /\ \A a, b : Below(stack, a, b) => a \in OnStack /\ b \in OnStack /\ a # b
      /\ \A a, b, c : Below(stack, a, b) /\ Below(stack, b, c) => Below(stack, a, c)
      /\ \A a, b \in OnStack : a = b \/ Below(stack, a, b) \/ Below(stack, b, a)
      /\ \A a, b : Below(stack, a, b) => ~Below(stack, b, a)
      /\ OnStack \subseteq Modules
  BY <1>1, StackFacts
<1>4. stack \in Seq(Modules) /\ IsInjective(stack) /\ status \in [Modules -> ModuleStatus]
  BY <1>1 DEF TypeOK, OpenInv
<1> PICK first : first = CHOOSE i \in DOMAIN stack : stack[i] = f
  OBVIOUS
<1>5. first \in DOMAIN stack /\ stack[first] = f
  BY <1>2 DEF OnStack, ToSet
<1>6. /\ frames' = Front(frames)
      /\ IF dfsAncestorIndex[f] = dfsIndex[f]
         THEN /\ stack' = SubSeq(stack, 1, first - 1)
              /\ status' = [m \in Modules |->
                              IF m \in From(stack, first)
                              THEN Walks[walk].done ELSE status[m]]
         ELSE stack' = stack /\ status' = status
  BY <1>1 DEF Close, From
<1>7. /\ frames' \in Seq([module : Modules, idx : Nat])
      /\ DOMAIN frames' = 1 .. n - 1 /\ Len(frames') = n - 1
      /\ \A i \in 1 .. n - 1 : frames'[i] = frames[i]
  <2> PICK S, g : S = [module : Modules, idx : Nat] /\ g = frames
    OBVIOUS
  <2>1. g \in Seq(S) /\ n = Len(g) /\ n \in Nat \ {0}
    BY <1>1, <1>2 DEF TypeOK
  <2>2. frames' = SubSeq(g, 1, n - 1)
    BY <1>6, <2>1 DEF Front
  <2>3. n - 1 \in Nat /\ \A i \in 1 .. n - 1 : g[i] \in S
    <3>1. \A i \in 1 .. n : g[i] \in S
      BY <2>1, ElementOfSeq
    <3>2. \A i \in 1 .. n - 1 : i \in 1 .. n
      BY <2>1
    <3> QED
      BY <2>1, <3>1, <3>2
  <2>4. frames' = [i \in 1 .. n - 1 |-> g[i]]
    BY <2>1, <2>2
  <2>5. [i \in 1 .. n - 1 |-> g[i]] \in Seq(S)
    BY ONLY <2>3, IsASeq
  <2>6. frames' \in Seq(S)
    BY <2>4, <2>5
  <2>7. DOMAIN frames' = 1 .. n - 1 /\ \A i \in 1 .. n - 1 : frames'[i] = frames[i]
    BY <2>4
  <2>8. Len(frames') = n - 1
    BY <2>3, <2>6, <2>7, LenProperties
  <2> QED
    BY <2>6, <2>7, <2>8
<1>8. \A i \in DOMAIN frames : i # n => Below(stack, frames[i].module, f)
  <2>1. \A i \in DOMAIN frames : i # n => i < n
    BY <1>2
  <2> QED
    BY <1>1, <1>2, <2>1 DEF CallInv
<1>9. \A a : a \in Called' <=> a \in Called /\ a # f
  <2>1. \A i \in DOMAIN frames : i # n => i \in DOMAIN frames' /\ frames'[i] = frames[i] /\ frames[i].module # f
    BY <1>2, <1>3, <1>7, <1>8
  <2>2. \A i \in DOMAIN frames' : i \in DOMAIN frames /\ frames'[i] = frames[i] /\ i # n
    BY <1>2, <1>7
  <2> QED
    BY <1>2, <2>1, <2>2 DEF Called
<1>10. CASE dfsAncestorIndex[f] = dfsIndex[f]
  <2> PICK t : t = SubSeq(stack, 1, first - 1)
    OBVIOUS
  <2>1. stack' = t
    BY <1>6, <1>10
  <2>2. /\ t \in Seq(Modules) /\ IsInjective(t)
        /\ \A a : a \in ToSet(t) <=> Below(stack, a, f)
        /\ \A a, b : Below(t, a, b) <=> Below(stack, a, b) /\ Below(stack, b, f)
        /\ \A a : a \in From(stack, first) <=> a \in ToSet(stack) /\ a \notin ToSet(t)
    <3> PICK s : s = stack
      OBVIOUS
    <3>1. s \in Seq(Modules) /\ IsInjective(s) /\ first \in DOMAIN s /\ t = SubSeq(s, 1, first - 1) /\ s[first] = f
      BY <1>4, <1>5
    <3>2. /\ t \in Seq(Modules) /\ IsInjective(t)
          /\ \A a : a \in ToSet(t) <=> Below(s, a, f)
          /\ \A a, b : Below(t, a, b) <=> Below(s, a, b) /\ Below(s, b, f)
          /\ \A a : a \in From(s, first) <=> a \in ToSet(s) /\ a \notin ToSet(t)
      BY ONLY <3>1, PopOrder, Zenon
    <3> QED
      BY <3>2
  <2>3. \A a : a \in OnStack' <=> Below(stack, a, f)
    BY <2>1, <2>2 DEF OnStack
  <2>4. f \notin OnStack' /\ \A a : Leaves(a) => a = f \/ Below(stack, f, a)
    BY <1>2, <1>3, <2>3 DEF Leaves
  <2>5. \A a : a \in From(stack, first) <=> Leaves(a)
    BY <2>1, <2>2 DEF Leaves, OnStack
  <2>6. \A x \in Modules : status'[x] = IF Leaves(x) THEN Walks[walk].done ELSE status[x]
    BY <1>6, <1>10, <2>5
  <2>7. status' \in [Modules -> ModuleStatus]
    <3>1. Walks[walk].done \in ModuleStatus
      BY <1>2, WalkFacts DEF ModuleStatus
    <3>2. DOMAIN status' = Modules /\ status' = [x \in Modules |-> status'[x]]
      BY <1>6, <1>10
    <3>3. \A x \in Modules : status'[x] \in ModuleStatus
      BY <1>4, <2>6, <3>1
    <3> QED
      BY <3>2, <3>3
  <2>8. \A a, b : Below(stack', a, b) <=> Below(stack, a, b) /\ b \in OnStack'
    BY <2>1, <2>2, <2>3
  <2>9. stack' \in Seq(Modules) /\ IsInjective(stack')
    BY <2>1, <2>2
  <2> QED
    BY <1>3, <1>7, <1>9, <1>10, <2>3, <2>4, <2>6, <2>7, <2>8, <2>9
<1>11. CASE dfsAncestorIndex[f] # dfsIndex[f]
  <2>1. stack' = stack /\ status' = status
    BY <1>6, <1>11
  <2>2. OnStack' = OnStack
    BY <2>1 DEF OnStack
  <2>3. \A a : ~Leaves(a)
    BY <2>2 DEF Leaves
  <2>4. dfsAncestorIndex[f] < dfsIndex[f]
    BY <1>1, <1>2, <1>11 DEF NumberInv
  <2> QED
    BY <1>2, <1>3, <1>4, <1>7, <1>9, <2>1, <2>2, <2>3, <2>4
<1> QED
  BY <1>10, <1>11

\* When a clean component is complete, so is all that it imports: an import that stays on
\* the stack would be below the component and give it a smaller ancestor index.
LEMMA ComponentComplete ==
    ASSUME Inv, CloseStep, NEW m, Leaves(m), Clean(m), NEW d \in Imports(m)
    PROVE  Complete(d) \/ Leaves(d)
<1> PICK n, f : n = Len(frames) /\ f = Module
  OBVIOUS
<1>1. /\ TypeOK /\ OpenInv /\ CallInv /\ OrderInv /\ NumberInv /\ AncestorInv /\ ReturnInv
      /\ frames # <<>> /\ ~MoreRequired
  BY DEF Inv, WalkInv, CloseStep
<1>2. /\ n \in Nat \ {0} /\ DOMAIN frames = 1 .. n /\ n \in DOMAIN frames
      /\ f = frames[n].module /\ f \in Modules /\ f \in OnStack /\ Current.idx = frames[n].idx
      /\ Current.idx \in Nat /\ Len(requestedModules[f]) \in Nat
  BY <1>1, CurrentFacts
<1>3. /\ \A a, b : Below(stack, a, b) => a \in OnStack /\ b \in OnStack /\ a # b
      /\ \A a, b : Below(stack, a, b) => ~Below(stack, b, a)
      /\ OnStack \subseteq Modules
  BY <1>1, StackFacts
<1>4. /\ f \notin OnStack' /\ (m = f \/ Below(stack, f, m))
      /\ dfsAncestorIndex[f] = dfsIndex[f]
      /\ \A a : a \in OnStack' <=> Below(stack, a, f)
  BY CloseFacts
<1>5. m \in OnStack /\ m \in Modules /\ d \in Modules /\ d \in Needs(m)
      /\ requestedModules[m] \in Seq(Modules)
  BY <1>1, <1>3, NeedsFacts DEF Leaves
<1>6. Clean(f) /\ Clean(d)
  BY <1>1, <1>5, CleanTop, CleanNeeds
<1>7. \A i \in DOMAIN frames : frames[i].module = m => i = n /\ m = f
  <2>1. \A i \in DOMAIN frames : i # n => i < n
    BY <1>2
  <2>2. \A i \in DOMAIN frames : i # n => Below(stack, frames[i].module, f)
    BY <1>1, <1>2, <2>1 DEF CallInv
  <2> QED
    BY <1>2, <1>3, <1>4, <2>2
<1>8. Processed(m, d)
  <2>1. PICK k \in DOMAIN requestedModules[m] : requestedModules[m][k] = d
    BY DEF Imports, ImportsOf, ToSet
  <2>2. m = f => k < frames[n].idx
    <3>1. k \in 1 .. Len(requestedModules[m])
      BY <1>5, <2>1, LenProperties
    <3>2. ~(frames[n].idx <= Len(requestedModules[f]))
      BY <1>1, <1>2 DEF MoreRequired
    <3> QED
      BY <1>2, <3>1, <3>2
  <2> QED
    BY <1>7, <2>1, <2>2 DEF Processed
<1>9. CASE Complete(d)
  BY <1>9
<1>10. CASE d \in OnStack /\ dfsAncestorIndex[m] <= dfsIndex[d]
  <2>1. dfsAncestorIndex[f] <= dfsAncestorIndex[m]
    <3>1. CASE m = f
      BY <1>1, <1>5, <3>1 DEF NumberInv
    <3>2. CASE m # f
      <4>1. m \notin Called
        BY <1>7, <3>2 DEF Called
      <4>2. Returned(n, m)
        BY <1>2, <1>4, <1>5, <3>2, <4>1 DEF Returned
      <4>3. TakenOver(n, m)
        BY <1>1, <1>2, <1>6, <4>2 DEF ReturnInv
      <4> QED
        BY <1>1, <1>2, <4>3 DEF TakenOver
    <3> QED
      BY <3>1, <3>2
  <2>2. dfsIndex[f] <= dfsIndex[d]
    BY <1>1, <1>2, <1>4, <1>5, <1>10, <2>1 DEF NumberInv
  <2>3. Below(stack, d, f) => dfsIndex[d] < dfsIndex[f]
    BY <1>1, <1>6 DEF OrderInv
  <2>4. ~Below(stack, d, f)
    BY <1>1, <1>2, <1>10, <2>2, <2>3 DEF NumberInv
  <2> QED
    BY <1>4, <1>10, <2>4 DEF Leaves
<1> QED
  BY <1>1, <1>5, <1>8, <1>9, <1>10 DEF AncestorInv

LEMMA CloseWalkInv ==
    ASSUME Inv, CloseStep
    PROVE  GraphInv' /\ OpenInv' /\ WalkInv'
<1> PICK n, f : n = Len(frames) /\ f = Module
  OBVIOUS
<1>0. /\ TypeOK /\ OpenInv /\ CallInv /\ OrderInv /\ GraphInv /\ RootInv /\ NumberInv
      /\ AncestorInv /\ ReturnInv /\ frames # <<>> /\ ~MoreRequired
      /\ UNCHANGED <<requestedModules, dfsIndex, dfsAncestorIndex, evaluationError, walk, root, index>>
  BY DEF Inv, WalkInv, CloseStep
<1>1. /\ n \in Nat \ {0} /\ DOMAIN frames = 1 .. n /\ n \in DOMAIN frames
      /\ f = frames[n].module /\ f \in Modules /\ f \in OnStack /\ Current.idx = frames[n].idx
      /\ Current.idx \in Nat /\ Len(requestedModules[f]) \in Nat
      /\ walk \in {"link", "eval"}
      /\ \A i \in DOMAIN frames : frames[i].module \in Modules
  BY <1>0, CurrentFacts
<1>2. /\ \A a, b : Below(stack, a, b) => a \in OnStack /\ b \in OnStack /\ a # b
      /\ \A a, b, c : Below(stack, a, b) /\ Below(stack, b, c) => Below(stack, a, c)
      /\ \A a, b : Below(stack, a, b) => ~Below(stack, b, a)
      /\ \A a, b \in OnStack : a = b \/ Below(stack, a, b) \/ Below(stack, b, a)
      /\ OnStack \subseteq Modules
  BY <1>0, StackFacts
<1>3. /\ \A m : Imports(m)' = Imports(m) /\ Needs(m)' = Needs(m)
      /\ \A m : (ErrorFree(m)' <=> ErrorFree(m)) /\ (Clean(m)' <=> Clean(m))
  BY <1>0, SameGraph
<1>4. /\ frames' \in Seq([module : Modules, idx : Nat])
      /\ DOMAIN frames' = 1 .. n - 1 /\ Len(frames') = n - 1
      /\ \A i \in 1 .. n - 1 : frames'[i] = frames[i]
      /\ \A a : a \in Called' <=> a \in Called /\ a # f
      /\ stack' \in Seq(Modules) /\ IsInjective(stack')
  BY CloseFacts
<1>5. /\ \A a : a \in OnStack' => a \in OnStack
      /\ \A a, b : Below(stack', a, b) <=> Below(stack, a, b) /\ b \in OnStack'
  BY CloseFacts
<1>6. f \in OnStack' => dfsAncestorIndex[f] < dfsIndex[f] /\ \A a : a \in OnStack => a \in OnStack'
  BY CloseFacts
<1>7. f \notin OnStack' => dfsAncestorIndex[f] = dfsIndex[f] /\ \A a : a \in OnStack' <=> Below(stack, a, f)
  BY CloseFacts
<1>8. /\ \A a : Leaves(a) => f \notin OnStack' /\ (a = f \/ Below(stack, f, a))
      /\ \A x \in Modules : status'[x] = IF Leaves(x) THEN Walks[walk].done ELSE status[x]
  BY CloseFacts
<1>9. \A i \in 1 .. n - 1 : i \in DOMAIN frames /\ i # n /\ i < n
                            /\ Below(stack, frames[i].module, f)
  <2>1. \A i \in 1 .. n - 1 : i \in DOMAIN frames /\ i # n /\ i < n
    BY <1>1
  <2>2. \A i \in 1 .. n - 1 : Below(stack, frames[i].module, f)
    <3> SUFFICES ASSUME NEW i \in 1 .. n - 1
                 PROVE  Below(stack, frames[i].module, f)
      OBVIOUS
    <3>1. i \in DOMAIN frames /\ i < n
      BY <2>1
    <3>2. \A k \in DOMAIN frames : i < k => Below(stack, frames[i].module, frames[k].module)
      BY ONLY <1>0, <3>1 DEF CallInv
    <3>3. Below(stack, frames[i].module, frames[n].module)
      BY ONLY <1>1, <3>1, <3>2
    <3> QED
      BY ONLY <1>1, <3>3
  <2> QED
    BY ONLY <2>1, <2>2
<1>10. \A x \in Modules : /\ Leaves(x) => x \in OnStack /\ x \notin OnStack'
                          /\ x \in OnStack /\ ~Leaves(x) => x \in OnStack'
  BY DEF Leaves
<1>11. \A x \in Modules : /\ Linked(x)' <=> Linked(x) \/ (walk = "link" /\ Leaves(x))
                          /\ status'[x] = "EVALUATED" <=> status[x] = "EVALUATED" \/ (walk = "eval" /\ Leaves(x))
  BY <1>0, <1>1, <1>8, <1>10, WalkFacts DEF Linked, OpenInv
<1>12. \A x \in Modules : Complete(x)' <=> Complete(x) \/ Leaves(x)
  BY <1>0, <1>1, <1>11 DEF Complete
<1>20. GraphInv'
  <2> SUFFICES ASSUME NEW m \in Modules, NEW d \in Imports(m)
               PROVE  /\ Linked(m)' => Linked(d)'
                      /\ status'[m] = "EVALUATED" /\ ErrorFree(m) => status'[d] = "EVALUATED"
    BY <1>3 DEF GraphInv
  <2>1. d \in Modules
    BY <1>0, NeedsFacts
  <2>2. Leaves(m) /\ Clean(m) => Complete(d) \/ Leaves(d)
    BY ComponentComplete
  <2>3. Linked(m)' => Linked(d)'
    <3>1. Linked(m) => Linked(d)
      BY <1>0 DEF GraphInv
    <3>2. walk = "link" /\ Leaves(m) => Linked(d) \/ Leaves(d)
      BY <2>2 DEF Clean, Complete
    <3> QED
      BY <1>11, <2>1, <3>1, <3>2
  <2>4. status'[m] = "EVALUATED" /\ ErrorFree(m) => status'[d] = "EVALUATED"
    <3>1. status[m] = "EVALUATED" /\ ErrorFree(m) => status[d] = "EVALUATED"
      BY <1>0 DEF GraphInv
    <3>2. walk = "eval" /\ Leaves(m) /\ ErrorFree(m) => status[d] = "EVALUATED" \/ Leaves(d)
      BY <2>2 DEF Clean, Complete
    <3> QED
      BY <1>11, <2>1, <3>1, <3>2
  <2> QED
    BY <2>3, <2>4
<1>21. OpenInv'
  <2>1. \A m \in Modules : status'[m] = "INSTANTIATING" <=> walk' = "link" /\ m \in OnStack'
    BY <1>0, <1>1, <1>5, <1>8, <1>10, WalkFacts DEF OpenInv
  <2>2. \A m \in Modules : status'[m] = "EVALUATING" <=> walk' = "eval" /\ m \in OnStack'
    BY <1>0, <1>1, <1>5, <1>8, <1>10, WalkFacts DEF OpenInv
  <2> QED
    BY <1>0, <1>1, <1>4, <2>1, <2>2 DEF OpenInv
<1>22. RootInv'
  <2>1. CASE n = 1
    <3>1. f = frames[1].module
      BY <1>1, <2>1
    <3>2. dfsIndex[f] = 0 /\ \A b \in OnStack : b = f \/ Below(stack, f, b)
      BY <1>0, <3>1 DEF RootInv
    <3>3. dfsAncestorIndex[f] = dfsIndex[f]
      BY <1>0, <1>1, <3>2 DEF NumberInv
    <3>4. f \notin OnStack'
      BY <1>6, <3>2, <3>3
    <3>5. \A a : a \notin OnStack'
      BY <1>2, <1>5, <1>7, <3>2, <3>4
    <3>6. stack' = <<>>
      <4>1. Len(stack') \in Nat /\ \A i \in 1 .. Len(stack') : stack'[i] \in OnStack'
        BY <1>4, LenProperties DEF OnStack, ToSet
      <4>2. Len(stack') = 0
        BY <3>5, <4>1
      <4> QED
        BY <1>4, <4>2, EmptySeq
    <3>7. frames' = <<>>
      BY <1>4, <2>1, EmptySeq
    <3> QED
      BY <3>6, <3>7 DEF RootInv
  <2>2. CASE n # 1
    <3>1. 1 \in 1 .. n - 1
      BY <1>1, <2>2
    <3>2. frames' # <<>> /\ frames'[1] = frames[1]
      BY <1>4, <3>1
    <3>3. /\ dfsIndex[frames[1].module] = 0
          /\ \A b \in OnStack : b = frames[1].module \/ Below(stack, frames[1].module, b)
      BY <1>0 DEF RootInv
    <3>4. \A b \in OnStack' : b = frames[1].module \/ Below(stack', frames[1].module, b)
      BY <1>5, <3>3
    <3> QED
      BY <1>0, <3>2, <3>3, <3>4 DEF RootInv
  <2> QED
    BY <2>1, <2>2
<1>23. CallInv'
  <2> SUFFICES ASSUME NEW i \in DOMAIN frames'
               PROVE  /\ frames'[i].module \in OnStack'
                      /\ frames'[i].idx \in 1 .. Len(requestedModules'[frames'[i].module]) + 1
                      /\ i < Len(frames') =>
                          /\ frames'[i].idx <= Len(requestedModules'[frames'[i].module])
                          /\ frames'[i + 1].module = requestedModules'[frames'[i].module][frames'[i].idx]
                      /\ \A k \in DOMAIN frames' : i < k => Below(stack', frames'[i].module, frames'[k].module)
                      /\ \A c, b : c = frames'[i].module /\ Below(stack', c, b) => b \in Needs(c)'
    BY DEF CallInv
  <2>1. \A k \in DOMAIN frames' : k \in DOMAIN frames /\ k < n /\ frames'[k] = frames[k]
                                  /\ frames[k].module \in OnStack'
    BY <1>2, <1>4, <1>6, <1>7, <1>9, ZenonT(40)
  <2>2. frames'[i].idx \in 1 .. Len(requestedModules'[frames'[i].module]) + 1
    BY <1>0, <2>1 DEF CallInv
  <2>3. ASSUME i < Len(frames')
        PROVE  /\ frames'[i].idx <= Len(requestedModules'[frames'[i].module])
               /\ frames'[i + 1].module = requestedModules'[frames'[i].module][frames'[i].idx]
    <3>1. i + 1 \in DOMAIN frames' /\ i < Len(frames)
      <4>1. n \in Nat /\ i \in 1 .. n - 1 /\ Len(frames') = n - 1 /\ DOMAIN frames' = 1 .. n - 1
            /\ Len(frames) = n
        BY <1>1, <1>4
      <4> QED
        BY ONLY <2>3, <4>1
    <3> QED
      <4>1. /\ frames'[i] = frames[i] /\ frames'[i + 1] = frames[i + 1] /\ i \in DOMAIN frames
            /\ requestedModules' = requestedModules
        BY <1>0, <2>1, <3>1
      <4>2. /\ frames[i].idx <= Len(requestedModules[frames[i].module])
            /\ frames[i + 1].module = requestedModules[frames[i].module][frames[i].idx]
        BY ONLY <1>0, <3>1, <4>1 DEF CallInv
      <4> QED
        BY ONLY <4>1, <4>2
  <2>4. \A k \in DOMAIN frames' : i < k => Below(stack', frames'[i].module, frames'[k].module)
    BY <1>0, <1>5, <2>1 DEF CallInv
  <2>5. \A c, b : c = frames'[i].module /\ Below(stack', c, b) => b \in Needs(c)'
    BY <1>0, <1>3, <1>5, <2>1 DEF CallInv
  <2> QED
    BY <2>1, <2>2, <2>3, <2>4, <2>5
<1>24. NumberInv'
  BY <1>0, <1>5 DEF NumberInv
<1>25. OrderInv'
  <2>1. \A m \in OnStack' : Clean(m)' => dfsIndex'[m] < index'
    BY <1>0, <1>3, <1>5 DEF OrderInv
  <2>2. \A a, b : Clean(a)' /\ Below(stack', a, b) => dfsIndex'[a] < dfsIndex'[b]
    BY <1>0, <1>3, <1>5 DEF OrderInv
  <2>3. ASSUME NEW m \in OnStack', Clean(m)
        PROVE  m \in Called' \/ \E c \in Called' : Clean(c) /\ Below(stack, c, m)
    <3>0. m \in OnStack
      BY <1>5
    <3>1. m \in Called \/ \E c \in Called : Clean(c) /\ Below(stack, c, m)
      BY <1>0, <2>3, <3>0 DEF OrderInv
    <3>2. CASE f \notin OnStack'
      BY <1>2, <1>4, <1>7, <3>1, <3>2
    <3>3. CASE f \in OnStack'
      <4>1. CASE m = f \/ Below(stack, f, m)
        <5>1. Clean(f)
          BY <1>0, <2>3, <3>0, CleanTop
        <5>2. PICK y \in OnStack : Clean(y) /\ dfsAncestorIndex[f] = dfsIndex[y]
          BY <1>0, <1>1, <5>1 DEF AncestorInv
        <5>3. dfsIndex[y] < dfsIndex[f] /\ dfsIndex[y] \in Nat /\ dfsIndex[f] \in Nat
          BY <1>0, <1>1, <1>6, <3>3, <5>2 DEF NumberInv
        <5>4. Below(stack, f, y) => dfsIndex[f] < dfsIndex[y]
          BY <1>0, <5>1 DEF OrderInv
        <5>5. y # f /\ ~Below(stack, f, y)
          BY <5>3, <5>4
        <5>6. Below(stack, y, f)
          BY <1>1, <1>2, <5>2, <5>5
        <5>7. y \in Called \/ \E c \in Called : Clean(c) /\ Below(stack, c, y)
          BY <1>0, <5>2 DEF OrderInv
        <5>8. \E c \in Called : Clean(c) /\ c # f /\ Below(stack, c, f)
          BY <1>2, <5>2, <5>6, <5>7
        <5> QED
          BY <1>2, <1>4, <4>1, <5>8
      <4>2. CASE m # f /\ ~Below(stack, f, m)
        BY <1>4, <3>1, <4>2
      <4> QED
        BY <4>1, <4>2
    <3> QED
      BY <3>2, <3>3
  <2>4. \A m \in OnStack' : Clean(m)' => m \in Called' \/ \E c \in Called' : Clean(c)' /\ Below(stack', c, m)
    BY <1>3, <1>5, <2>3
  <2> QED
    BY <2>1, <2>2, <2>4 DEF OrderInv
<1>26. AncestorInv'
  <2>1. ASSUME NEW m \in OnStack', Clean(m)
        PROVE  \E y \in OnStack' : Clean(y) /\ dfsAncestorIndex[m] = dfsIndex[y]
    <3>0. m \in OnStack
      BY <1>5
    <3>1. PICK y \in OnStack : Clean(y) /\ dfsAncestorIndex[m] = dfsIndex[y]
      BY <1>0, <2>1, <3>0 DEF AncestorInv
    <3>2. y \in OnStack'
      <4> SUFFICES ASSUME y \notin OnStack'
                   PROVE  FALSE
        OBVIOUS
      <4>1. f \notin OnStack' /\ (y = f \/ Below(stack, f, y))
        BY <1>8, <3>1 DEF Leaves
      <4>2. Below(stack, m, f)
        BY <1>7, <4>1
      <4>3. Below(stack, m, y)
        BY <1>2, <4>1, <4>2
      <4>4. dfsIndex[m] < dfsIndex[y]
        BY <1>0, <2>1, <4>3 DEF OrderInv
      <4> QED
        BY <1>0, <3>0, <3>1, <4>4 DEF NumberInv
    <3> QED
      BY <3>1, <3>2
  <2>2. ASSUME NEW m \in OnStack', NEW d \in Modules, Clean(m), Processed(m, d)'
        PROVE  Complete(d)' \/ (d \in OnStack' /\ dfsAncestorIndex[m] <= dfsIndex[d])
    <3>0. m \in OnStack /\ m \in Modules
      BY <1>2, <1>5
    <3>1. PICK k \in DOMAIN requestedModules[m] :
              /\ requestedModules[m][k] = d
              /\ \A i \in DOMAIN frames' : frames'[i].module = m => k < frames'[i].idx
      BY <1>0, <2>2 DEF Processed
    <3>2. Processed(m, d)
      <4>1. ASSUME NEW i \in DOMAIN frames, frames[i].module = m
            PROVE  k < frames[i].idx
        <5>1. CASE i = n
          <6>1. k \in 1 .. Len(requestedModules[f])
            <7>1. requestedModules[m] \in Seq(Modules)
              BY <1>0, <3>0, NeedsFacts
            <7> QED
              BY <1>1, <3>1, <4>1, <5>1, <7>1, LenProperties
          <6>2. ~(frames[n].idx <= Len(requestedModules[f]))
            BY <1>0, <1>1 DEF MoreRequired
          <6> QED
            BY <1>1, <5>1, <6>1, <6>2
        <5>2. CASE i # n
          <6>1. i \in 1 .. n - 1
            BY <1>1, <5>2
          <6> QED
            BY <1>4, <3>1, <4>1, <6>1
        <5> QED
          BY <5>1, <5>2
      <4> QED
        BY <3>1, <4>1 DEF Processed
    <3>3. Complete(d) \/ (d \in OnStack /\ dfsAncestorIndex[m] <= dfsIndex[d])
      BY <1>0, <2>2, <3>0, <3>2 DEF AncestorInv
    <3> QED
      BY <1>10, <1>12, <3>3
  <2> QED
    BY <1>0, <1>3, <2>1, <2>2 DEF AncestorInv
<1>27. ReturnInv'
  <2> SUFFICES ASSUME NEW i \in DOMAIN frames', NEW c, NEW m, c = frames'[i].module,
                      Clean(c)', Returned(i, m)'
               PROVE  TakenOver(i, m)'
    BY DEF ReturnInv
  <2>1. i \in DOMAIN frames /\ i < n /\ c = frames[i].module /\ Clean(c) /\ c \in Modules
        /\ frames'[i] = frames[i]
    BY <1>1, <1>3, <1>4, <1>9
  <2>2. m \in OnStack' /\ m \in OnStack /\ m \notin Called' /\ Below(stack, c, m)
    BY <1>5, <2>1 DEF Returned
  <2>3. m # f /\ Below(stack, m, frames[i + 1].module) => dfsAncestorIndex[c] <= dfsAncestorIndex[m]
    <3> SUFFICES ASSUME m # f, Below(stack, m, frames[i + 1].module)
                 PROVE  dfsAncestorIndex[c] <= dfsAncestorIndex[m]
      OBVIOUS
    <3>1. Returned(i, m)
      BY <1>4, <2>1, <2>2 DEF Returned
    <3>2. TakenOver(i, m)
      BY <1>0, <2>1, <3>1 DEF ReturnInv
    <3> QED
      BY <1>1, <2>1, <3>2 DEF TakenOver
  <2>4. CASE i # n - 1
    <3>1. i + 1 \in 1 .. n - 1 /\ i < Len(frames')
      BY <1>1, <1>4, <2>1, <2>4
    <3>2. Below(stack, m, frames[i + 1].module)
      BY <1>4, <1>5, <3>1 DEF Returned
    <3>3. m # f
      BY <1>2, <1>9, <3>1, <3>2, ZenonT(40)
    <3> QED
      BY <1>0, <2>1, <2>3, <3>2, <3>3 DEF TakenOver
  <2>5. CASE i = n - 1 /\ m # f /\ Below(stack, m, f)
    <3>1. frames[i + 1].module = f
      BY <1>1, <2>5
    <3> QED
      BY <1>0, <2>1, <2>3, <2>5, <3>1 DEF TakenOver
  <2>6. CASE i = n - 1 /\ (m = f \/ Below(stack, f, m))
    <3>1. f \in OnStack'
      BY <1>2, <1>7, <2>2, <2>6
    <3>2. /\ i + 1 = n /\ i < Len(frames) /\ i = Len(frames')
      BY <1>1, <1>4, <2>1, <2>6
    <3>3. frames[i].idx <= Len(requestedModules[c]) /\ f = requestedModules[c][frames[i].idx]
      BY <1>0, <1>1, <2>1, <3>2 DEF CallInv
    <3>4. Current' = frames[i]
      BY <2>1, <3>2 DEF Current, Last
    <3>5. MoreRequired' /\ Required' = f
      BY <1>0, <2>1, <3>3, <3>4 DEF MoreRequired, Required, Module
    <3>6. Clean(f)
      <4>1. f \in Needs(c)
        <5>1. Below(stack, c, f)
          BY <1>4, <1>9, <2>1
        <5> QED
          BY <1>0, <2>1, <5>1 DEF CallInv
      <4> QED
        BY <1>0, <2>1, <4>1, CleanNeeds
    <3>7. dfsAncestorIndex[f] <= dfsAncestorIndex[m]
      <4>1. CASE m = f
        BY <1>0, <1>1, <4>1 DEF NumberInv
      <4>2. CASE m # f
        <5>1. Returned(n, m)
          BY <1>1, <1>4, <2>2, <2>6, <4>2 DEF Returned
        <5>2. TakenOver(n, m)
          BY <1>0, <1>1, <3>6, <5>1 DEF ReturnInv
        <5> QED
          BY <1>0, <1>1, <5>2 DEF TakenOver
      <4> QED
        BY <4>1, <4>2
    <3> QED
      BY <1>0, <3>1, <3>2, <3>5, <3>7 DEF TakenOver
  <2>7. m = f \/ Below(stack, m, f) \/ Below(stack, f, m)
    BY <1>1, <1>2, <2>2
  <2> QED
    BY <1>2, <2>4, <2>5, <2>6, <2>7
<1> QED
  BY <1>20, <1>21, <1>22, <1>23, <1>24, <1>25, <1>26, <1>27 DEF WalkInv

LEMMA CloseTypeOK ==
    ASSUME Inv, CloseStep, executed' \in Seq(Modules)
    PROVE  TypeOK'
<1>1. /\ TypeOK /\ OpenInv /\ CallInv /\ NumberInv /\ frames # <<>>
      /\ UNCHANGED <<requestedModules, unresolvable, registered, dfsIndex, dfsAncestorIndex,
                     evaluationError, walk, root, index>>
  BY DEF Inv, WalkInv, CloseStep
<1>2. walk \in {"link", "eval"}
  BY <1>1, CurrentFacts
<1>3. /\ frames' \in Seq([module : Modules, idx : Nat]) /\ stack' \in Seq(Modules)
      /\ status' \in [Modules -> ModuleStatus]
      /\ \A x \in Modules : status'[x] = IF Leaves(x) THEN Walks[walk].done ELSE status[x]
  BY CloseFacts
<1>4. \A x \in Modules : Leaves(x) => dfsIndex[x] \in Nat
  BY <1>1 DEF NumberInv, Leaves
<1>5. \A m \in Modules : status'[m] = "UNINSTANTIATED" <=> dfsIndex'[m] = UNDEFINED_INDEX
  BY <1>1, <1>2, <1>3, <1>4, WalkFacts DEF TypeOK, UNDEFINED_INDEX
<1> QED
  BY <1>1, <1>3, <1>5 DEF TypeOK

\* ModuleDeclarationEnvironmentSetup succeeds.
LEMMA LinkInv ==
    ASSUME Inv, Link
    PROVE  Inv'
<1>1. CloseStep /\ walk = "link" /\ UNCHANGED executed
  BY DEF Link, CloseStep, inputVars, dfsVars
<1>2. GraphInv' /\ OpenInv' /\ WalkInv'
  BY <1>1, CloseWalkInv
<1>3. TypeOK'
  <2>1. executed' \in Seq(Modules)
    BY <1>1 DEF Inv, TypeOK
  <2> QED
    BY <1>1, <2>1, CloseTypeOK
<1>4. ExecutedInv'
  <2>0. TypeOK /\ ExecutedInv /\ UNCHANGED <<registered, evaluationError, walk, requestedModules>>
    BY <1>1 DEF Inv, CloseStep
  <2>1. /\ \A x \in Modules : status'[x] = IF Leaves(x) THEN "INSTANTIATED" ELSE status[x]
        /\ \A x \in Modules : Leaves(x) => status[x] = "INSTANTIATING"
    <3>1. \A x \in Modules : status'[x] = IF Leaves(x) THEN "INSTANTIATED" ELSE status[x]
      BY <1>1, CloseFacts, WalkFacts
    <3>2. \A x \in Modules : Leaves(x) => status[x] = "INSTANTIATING"
      BY <1>1 DEF Inv, OpenInv, Leaves
    <3> QED
      BY <3>1, <3>2
  <2>2. \A m \in Modules : Started(m)' <=> Started(m)
    BY <1>1, <2>0, <2>1 DEF Started
  <2>3. ToSet(executed) \subseteq Modules /\ \A i \in DOMAIN executed : executed[i] \in Modules
    <3>1. \A i \in DOMAIN executed : executed[i] \in Modules
      BY <2>0, ElementOfSeq, LenProperties DEF TypeOK
    <3> QED
      BY <3>1 DEF ToSet
  <2>4. \A m : Imports(m)' = Imports(m) /\ Needs(m)' = Needs(m)
    BY <2>0, SameGraph
  <2>5. ~registered => \A i \in DOMAIN executed : \A m, d \in Modules :
            m = executed[i] /\ d \in Imports(m)' =>
                m \in Needs(d)' \/ \E j \in 1 .. i - 1 : executed[j] = d
    BY <2>0, <2>4 DEF ExecutedInv
  <2> QED
    BY <1>1, <2>0, <2>2, <2>3, <2>5 DEF ExecutedInv
<1> QED
  BY <1>2, <1>3, <1>4 DEF Inv

\* The body of a module starts when what it imports has been started, except the modules
\* with a call, which need it.
LEMMA ModuleExecutionInv ==
    ASSUME Inv, ModuleExecution
    PROVE  Inv'
<1> PICK n, f : n = Len(frames) /\ f = Module
  OBVIOUS
<1>1. CloseStep /\ walk = "eval" /\ executed' = Append(executed, f)
  BY DEF ModuleExecution, CloseStep, inputVars, dfsVars
<1>2. GraphInv' /\ OpenInv' /\ WalkInv'
  BY <1>1, CloseWalkInv
<1>3. /\ TypeOK /\ OpenInv /\ CallInv /\ AncestorInv /\ ExecutedInv /\ frames # <<>> /\ ~MoreRequired
      /\ UNCHANGED <<registered, evaluationError, walk, requestedModules>>
  BY <1>1 DEF Inv, WalkInv, CloseStep
<1>4. /\ n \in Nat \ {0} /\ DOMAIN frames = 1 .. n /\ n \in DOMAIN frames
      /\ f = frames[n].module /\ f \in Modules /\ f \in OnStack /\ f \in Called
      /\ Current.idx = frames[n].idx
      /\ Current.idx \in Nat /\ Len(requestedModules[f]) \in Nat
  BY <1>3, CurrentFacts
<1>5. /\ executed \in Seq(Modules) /\ executed' \in Seq(Modules)
      /\ Len(executed) \in Nat /\ DOMAIN executed = 1 .. Len(executed)
      /\ DOMAIN executed' = 1 .. Len(executed) + 1
      /\ \A i \in DOMAIN executed : executed'[i] = executed[i]
      /\ executed'[Len(executed) + 1] = f
  BY <1>1, <1>3, <1>4, AppendProperties, LenProperties DEF TypeOK
<1>6. TypeOK'
  BY <1>1, <1>5, CloseTypeOK DEF Inv
<1>7. status[f] = "EVALUATING" /\ ~Started(f)
  BY <1>1, <1>3, <1>4 DEF OpenInv, Started
<1>8. \A m \in Modules : Started(m)' <=> Started(m) \/ m = f
  <2>1. /\ \A x \in Modules : status'[x] = IF Leaves(x) THEN "EVALUATED" ELSE status[x]
        /\ \A a : a \in OnStack' => a \in OnStack
        /\ \A a : a \in Called' <=> a \in Called /\ a # f
        /\ \A a : Leaves(a) => a = f \/ Below(stack, f, a)
    BY <1>1, CloseFacts, WalkFacts
  <2>2. \A i \in DOMAIN frames : Below(stack, frames[i].module, f) \/ i = n
    <3>1. \A i \in DOMAIN frames : i < n \/ i = n
      BY <1>4
    <3> QED
      BY <1>3, <1>4, <3>1 DEF CallInv
  <2>3. \A a : Leaves(a) /\ a # f => a \notin Called
    BY <1>3, <1>4, <2>1, <2>2, StackFacts DEF Called
  <2>4. \A a : Leaves(a) <=> a \in OnStack /\ a \notin OnStack'
    BY DEF Leaves
  <2> QED
    BY <1>1, <1>3, <1>4, <2>1, <2>3, <2>4 DEF Started
<1>9. ToSet(executed) \subseteq Modules /\ f \notin ToSet(executed)
  <2>1. \A i \in DOMAIN executed : executed[i] \in Modules
    BY <1>5, ElementOfSeq
  <2> QED
    BY <1>3, <1>7, <2>1 DEF ToSet, ExecutedInv
<1>10. \A a : a \in ToSet(executed') <=> a \in ToSet(executed) \/ a = f
  <2>1. \A i \in DOMAIN executed' : i \in DOMAIN executed \/ i = Len(executed) + 1
    BY <1>5
  <2>2. \A i \in DOMAIN executed : i \in DOMAIN executed'
    BY <1>5
  <2>3. Len(executed) + 1 \in DOMAIN executed'
    BY <1>5
  <2> QED
    BY <1>5, <2>1, <2>2, <2>3 DEF ToSet
<1>11. ExecutedInv'
  <2>1. IsInjective(executed')
    <3>1. \A i, j \in DOMAIN executed : executed[i] = executed[j] => i = j
      BY <1>3 DEF ExecutedInv, IsInjective
    <3>2. \A i \in DOMAIN executed : executed[i] # f
      BY <1>9 DEF ToSet
    <3>3. \A i \in DOMAIN executed' : i \in DOMAIN executed \/ i = Len(executed) + 1
      BY <1>5
    <3>4. \A i, j \in DOMAIN executed' : executed'[i] = executed'[j] => i = j
      BY <1>5, <3>1, <3>2, <3>3
    <3> QED
      BY <3>4 DEF IsInjective
  <2>2. \A m \in ToSet(executed') : Started(m)'
    BY <1>3, <1>4, <1>8, <1>9, <1>10 DEF ExecutedInv
  <2>3. ASSUME ~registered
        PROVE  /\ \A m \in Modules : evaluationError[m] = UNDEFINED_INDEX
               /\ \A m \in Modules : Started(m)' => m \in ToSet(executed')
    BY <1>3, <1>8, <1>10, <2>3 DEF ExecutedInv
  <2>4. ASSUME ~registered, NEW i \in DOMAIN executed', NEW m \in Modules, NEW d \in Modules,
               m = executed'[i], d \in Imports(m)
        PROVE  m \in Needs(d) \/ \E j \in 1 .. i - 1 : executed'[j] = d
    <3>1. CASE i \in DOMAIN executed
      <4>1. m \in Needs(d) \/ \E j \in 1 .. i - 1 : executed[j] = d
        BY <1>3, <1>5, <2>4, <3>1 DEF ExecutedInv
      <4>2. \A j \in 1 .. i - 1 : j \in DOMAIN executed
        BY <1>5, <3>1
      <4> QED
        BY <1>5, <4>1, <4>2
    <3>2. CASE i = Len(executed) + 1
      <4>1. m = f
        BY <1>5, <2>4, <3>2
      <4>2. d \in ToSet(executed) => \E j \in 1 .. i - 1 : executed'[j] = d
        <5>1. \A j \in DOMAIN executed : j \in 1 .. i - 1
          BY <1>5, <3>2
        <5> QED
          BY <1>5, <5>1 DEF ToSet
      <4>3. Started(d) => d \in ToSet(executed)
        BY <1>3, <2>4 DEF ExecutedInv
      <4>4. Clean(f)
        <5>1. Needs(f) \subseteq Modules
          BY <1>3, <1>4, NeedsFacts
        <5>2. \A x \in Modules : evaluationError[x] = UNDEFINED_INDEX
          BY <1>3, <2>4 DEF ExecutedInv
        <5> QED
          BY <1>4, <5>1, <5>2 DEF Clean, ErrorFree
      <4>5. Processed(f, d)
        <5>1. PICK k \in DOMAIN requestedModules[f] : requestedModules[f][k] = d
          BY <2>4, <4>1 DEF Imports, ImportsOf, ToSet
        <5>2. k \in 1 .. Len(requestedModules[f])
          <6>1. requestedModules[f] \in Seq(Modules)
            BY <1>3, <1>4, NeedsFacts
          <6> QED
            BY <5>1, <6>1, LenProperties
        <5>3. k < frames[n].idx
          BY <1>3, <1>4, <5>2 DEF MoreRequired
        <5>4. \A j \in DOMAIN frames : frames[j].module = f => j = n
          <6>1. \A j \in DOMAIN frames : j < n \/ j = n
            BY <1>4
          <6>2. \A j \in DOMAIN frames : j < n => Below(stack, frames[j].module, f)
            BY <1>3, <1>4 DEF CallInv
          <6> QED
            BY <1>3, <6>1, <6>2, StackFacts
        <5> QED
          BY <5>1, <5>3, <5>4 DEF Processed
      <4>6. Complete(d) \/ d \in OnStack
        BY <1>3, <1>4, <2>4, <4>4, <4>5 DEF AncestorInv
      <4>7. CASE Complete(d) \/ (d \in OnStack /\ d \notin Called)
        <5>1. Started(d)
          BY <1>1, <4>7 DEF Complete, Started
        <5> QED
          BY <4>2, <4>3, <5>1
      <4>8. CASE d \in Called
        <5>1. PICK j \in DOMAIN frames : frames[j].module = d
          BY <4>8 DEF Called
        <5>2. CASE j = n
          BY <1>3, <1>4, <2>4, <4>1, <5>1, <5>2, NeedsFacts
        <5>3. CASE j # n
          <6>1. j < n
            BY <1>4, <5>3
          <6>2. Below(stack, d, f)
            BY <1>3, <1>4, <5>1, <6>1 DEF CallInv
          <6>3. f \in Needs(d)
            BY <1>3, <5>1, <6>2 DEF CallInv
          <6> QED
            BY <4>1, <6>3
        <5> QED
          BY <5>2, <5>3
      <4> QED
        BY <4>6, <4>7, <4>8
    <3> QED
      BY <1>5, <3>1, <3>2
  <2>5. \A m : Imports(m)' = Imports(m) /\ Needs(m)' = Needs(m)
    BY <1>3, SameGraph
  <2>6. ~registered => \A i \in DOMAIN executed' : \A m, d \in Modules :
            m = executed'[i] /\ d \in Imports(m)' =>
                m \in Needs(d)' \/ \E j \in 1 .. i - 1 : executed'[j] = d
    BY <2>4, <2>5
  <2> QED
    BY <1>3, <2>1, <2>2, <2>3, <2>6 DEF ExecutedInv
<1> QED
  BY <1>2, <1>6, <1>11 DEF Inv

-----------------------------------------------------------------------------
(* Outside the calls *)

NoWalk == stack = <<>> /\ frames = <<>>

\* What holds of the walk with nothing on the stack.
LEMMA EmptyWalk == NoWalk => WalkInv /\ OnStack = {} /\ Called = {} /\ IsInjective(stack)
<1> SUFFICES ASSUME stack = <<>>, frames = <<>>
             PROVE  WalkInv /\ OnStack = {} /\ Called = {} /\ IsInjective(stack)
  BY DEF NoWalk
<1>1. DOMAIN stack = {} /\ DOMAIN frames = {}
  OBVIOUS
<1>2. OnStack = {} /\ Called = {}
  BY <1>1 DEF OnStack, Called, ToSet
<1>3. IsInjective(stack)
  BY <1>1 DEF IsInjective
<1>4. \A a, b : ~Below(stack, a, b)
  BY <1>1 DEF Below
<1>5. RootInv
  BY DEF RootInv
<1>6. CallInv /\ ReturnInv
  BY <1>1 DEF CallInv, ReturnInv
<1>7. NumberInv /\ OrderInv /\ AncestorInv
  BY <1>2, <1>4 DEF NumberInv, OrderInv, AncestorInv
<1> QED
  BY <1>2, <1>3, <1>5, <1>6, <1>7 DEF WalkInv

LEMMA EmptyWalkNext ==
    (NoWalk => WalkInv /\ OnStack = {} /\ Called = {} /\ IsInjective(stack))'
  BY EmptyWalk, PTL

\* A step to the first module on the stack and its call.
LEMMA SingleWalk ==
    ASSUME NEW m \in Modules, stack' = <<m>>, frames' = <<[module |-> m, idx |-> 1]>>,
           dfsIndex'[m] = 0, dfsAncestorIndex'[m] = 0, index' = 1,
           requestedModules'[m] \in Seq(Modules)
    PROVE  /\ WalkInv' /\ IsInjective(stack')
           /\ \A a : a \in OnStack' <=> a = m
           /\ \A a : a \in Called' <=> a = m
<1>1. DOMAIN stack' = {1} /\ stack'[1] = m
  OBVIOUS
<1>2. DOMAIN frames' = {1} /\ frames'[1].module = m /\ frames'[1].idx = 1 /\ Len(frames') = 1
  OBVIOUS
<1>3. \A a : a \in OnStack' <=> a = m
  BY <1>1 DEF OnStack, ToSet
<1>4. \A a : a \in Called' <=> a = m
  BY <1>2 DEF Called
<1>5. IsInjective(stack')
  BY <1>1 DEF IsInjective
<1>6. \A a, b : ~Below(stack', a, b)
  BY <1>1 DEF Below
<1>7. RootInv'
  BY <1>2, <1>3 DEF RootInv
<1>8. CallInv'
  <2>1. 1 \in 1 .. Len(requestedModules'[m]) + 1
    BY LenProperties
  <2>2. ASSUME NEW i \in DOMAIN frames'
        PROVE  /\ frames'[i].module = m /\ frames'[i].idx = 1 /\ i = 1 /\ ~(i < Len(frames'))
               /\ \A k \in DOMAIN frames' : ~(i < k)
    BY <1>2
  <2> QED
    BY <1>3, <1>6, <2>1, <2>2 DEF CallInv
<1>9. ReturnInv'
  <2>1. \A i \in DOMAIN frames' : \A c, x : c = frames'[i].module => ~Returned(i, x)'
    BY <1>6 DEF Returned
  <2> QED
    BY <2>1 DEF ReturnInv
<1>10. NumberInv'
  BY <1>3 DEF NumberInv
<1>11. OrderInv'
  BY <1>3, <1>4, <1>6 DEF OrderInv
<1>12. AncestorInv'
  <2>1. \A d : ~Processed(m, d)'
    <3>1. \A k \in DOMAIN requestedModules'[m] : ~(k < 1)
      BY LenProperties
    <3> QED
      BY <1>2, <3>1 DEF Processed
  <2>2. \A x \in OnStack' : Clean(x)' => \E y \in OnStack' : Clean(y)' /\ dfsAncestorIndex'[x] = dfsIndex'[y]
    BY <1>3
  <2> QED
    BY <1>3, <2>1, <2>2 DEF AncestorInv
<1> QED
  BY <1>3, <1>4, <1>5, <1>7, <1>8, <1>9, <1>10, <1>11, <1>12 DEF WalkInv

\* A call of Instantiate or Evaluate when no module is open.
LEMMA StartInv ==
    ASSUME Inv, OnStack = {}, NEW m \in Modules, NEW w \in {"link", "eval"}, Start(m, w), root' = m,
           UNCHANGED <<requestedModules, unresolvable, registered, evaluationError, executed>>
    PROVE  Inv'
<1>1. TypeOK /\ GraphInv /\ OpenInv /\ ExecutedInv
  BY DEF Inv
<1>2. walk' = w
  BY DEF Start
<1>3. \A x \in Modules : status[x] \notin {"INSTANTIATING", "EVALUATING"}
  BY <1>1 DEF OpenInv
<1>4. /\ \A x : Imports(x)' = Imports(x) /\ Needs(x)' = Needs(x)
      /\ \A x : ErrorFree(x)' <=> ErrorFree(x)
  BY SameGraph
<1>5. requestedModules[m] \in Seq(Modules)
  BY <1>1, NeedsFacts
<1>6. \A x \in Modules : Imports(x) \subseteq Modules
  BY <1>1, NeedsFacts
<1>8. ToSet(executed) \subseteq Modules
  <2>1. \A i \in DOMAIN executed : executed[i] \in Modules
    BY <1>1, ElementOfSeq, LenProperties DEF TypeOK
  <2> QED
    BY <2>1 DEF ToSet
<1>9. ASSUME \A x \in Modules : /\ Linked(x)' <=> Linked(x)
                                /\ status'[x] = "EVALUATED" <=> status[x] = "EVALUATED",
             \A x \in Modules : ~(w = "eval" /\ x \in OnStack' /\ x \notin Called')
      PROVE  GraphInv' /\ ExecutedInv'
  <2>1. GraphInv'
    BY <1>1, <1>4, <1>6, <1>9 DEF GraphInv
  <2>2. \A x \in Modules : Started(x)' <=> Started(x)
    <3>1. \A x \in Modules : Started(x) <=> status[x] = "EVALUATED"
      BY DEF Started
    <3>2. \A x \in Modules : Started(x)' <=> status'[x] = "EVALUATED"
      BY <1>2, <1>9 DEF Started
    <3> QED
      BY <1>9, <3>1, <3>2
  <2>3. ~registered => \A i \in DOMAIN executed : \A x, d \in Modules :
            x = executed[i] /\ d \in Imports(x)' =>
                x \in Needs(d)' \/ \E j \in 1 .. i - 1 : executed[j] = d
    BY <1>1, <1>4 DEF ExecutedInv
  <2> QED
    BY <1>1, <1>8, <2>1, <2>2, <2>3 DEF ExecutedInv
<1>10. CASE status[m] = Walks[w].new
  <2>1. /\ status' = [status EXCEPT ![m] = Walks[w].open]
        /\ dfsIndex' = [dfsIndex EXCEPT ![m] = 0]
        /\ dfsAncestorIndex' = [dfsAncestorIndex EXCEPT ![m] = 0]
        /\ index' = 1 /\ stack' = <<m>> /\ frames' = <<[module |-> m, idx |-> 1]>>
    BY <1>10 DEF Start, Enter
  <2>2. DOMAIN dfsIndex = Modules /\ DOMAIN dfsAncestorIndex = Modules /\ status \in [Modules -> ModuleStatus]
    BY <1>1 DEF TypeOK
  <2>3. /\ WalkInv' /\ IsInjective(stack')
        /\ \A a : a \in OnStack' <=> a = m
        /\ \A a : a \in Called' <=> a = m
    <3>1. dfsIndex'[m] = 0 /\ dfsAncestorIndex'[m] = 0 /\ requestedModules'[m] \in Seq(Modules)
      BY <1>5, <2>1, <2>2
    <3> QED
      BY <2>1, <3>1, SingleWalk
  <2>4. \A x \in Modules : status'[x] = IF x = m THEN Walks[w].open ELSE status[x]
    BY <2>1, <2>2
  <2>5. \A x \in Modules : /\ Linked(x)' <=> Linked(x)
                           /\ status'[x] = "EVALUATED" <=> status[x] = "EVALUATED"
    BY <1>10, <2>4, WalkFacts DEF Linked
  <2>6. GraphInv' /\ ExecutedInv'
    BY <1>9, <2>3, <2>5
  <2>7. OpenInv'
    BY <1>2, <1>3, <2>3, <2>4, WalkFacts DEF OpenInv
  <2>8. TypeOK'
    <3>1. status' \in [Modules -> ModuleStatus]
      BY <2>1, <2>2, WalkFacts DEF ModuleStatus
    <3>2. \A f \in {dfsIndex', dfsAncestorIndex', evaluationError'} :
            DOMAIN f = Modules /\ \A x \in Modules : f[x] \in Nat \cup {UNDEFINED_INDEX}
      <4>1. \A x \in Modules : /\ dfsIndex'[x] = IF x = m THEN 0 ELSE dfsIndex[x]
                               /\ dfsAncestorIndex'[x] = IF x = m THEN 0 ELSE dfsAncestorIndex[x]
        BY <2>1, <2>2
      <4>2. DOMAIN dfsIndex' = Modules /\ DOMAIN dfsAncestorIndex' = Modules
        BY <2>1, <2>2
      <4>3. /\ DOMAIN evaluationError = Modules
            /\ \A x \in Modules : /\ dfsIndex[x] \in Nat \cup {UNDEFINED_INDEX}
                                  /\ dfsAncestorIndex[x] \in Nat \cup {UNDEFINED_INDEX}
                                  /\ evaluationError[x] \in Nat \cup {UNDEFINED_INDEX}
        BY <1>1 DEF TypeOK
      <4>4. \A x \in Modules : /\ dfsIndex'[x] \in Nat \cup {UNDEFINED_INDEX}
                               /\ dfsAncestorIndex'[x] \in Nat \cup {UNDEFINED_INDEX}
        BY <4>1, <4>3
      <4> QED
        BY <4>2, <4>3, <4>4
    <3>3. \A x \in Modules : status'[x] = "UNINSTANTIATED" <=> dfsIndex'[x] = UNDEFINED_INDEX
      BY <1>1, <1>10, <2>1, <2>2, <2>4, WalkFacts DEF TypeOK, UNDEFINED_INDEX
    <3>4. stack' \in Seq(Modules) /\ frames' \in Seq([module : Modules, idx : Nat])
      BY <2>1
    <3> QED
      BY <1>1, <1>2, <2>1, <3>1, <3>2, <3>3, <3>4 DEF TypeOK
  <2> QED
    BY <2>3, <2>6, <2>7, <2>8 DEF Inv
<1>11. CASE status[m] # Walks[w].new
  <2>1. index' = 0 /\ stack' = <<>> /\ frames' = <<>> /\ UNCHANGED <<status, dfsIndex, dfsAncestorIndex>>
    BY <1>11 DEF Start, dfsVars
  <2>2. WalkInv' /\ OnStack' = {} /\ Called' = {} /\ IsInjective(stack')
    BY <2>1, EmptyWalkNext DEF NoWalk
  <2>3. GraphInv' /\ ExecutedInv'
    BY <1>9, <2>1, <2>2 DEF Linked
  <2>4. OpenInv'
    BY <1>2, <1>3, <2>1, <2>2 DEF OpenInv
  <2>5. TypeOK'
    BY <1>1, <1>2, <2>1 DEF TypeOK
  <2> QED
    BY <2>2, <2>3, <2>4, <2>5 DEF Inv
<1> QED
  BY <1>10, <1>11

LEMMA ExecutedAreModules == TypeOK => ToSet(executed) \subseteq Modules
<1> SUFFICES ASSUME TypeOK
             PROVE  ToSet(executed) \subseteq Modules
  OBVIOUS
<1>1. \A i \in DOMAIN executed : executed[i] \in Modules
  BY ElementOfSeq, LenProperties DEF TypeOK
<1> QED
  BY <1>1 DEF ToSet

LEMMA ExecuteFromFileInv ==
    ASSUME Inv, NEW m \in Modules, ExecuteFromFile(m)
    PROVE  Inv'
<1>1. stack = <<>> /\ frames = <<>>
  BY DEF Inv, OpenInv, ExecuteFromFile
<1>2. OnStack = {}
  BY <1>1, EmptyWalk DEF NoWalk
<1> QED
  BY <1>2, StartInv DEF ExecuteFromFile, inputVars

LEMMA InstantiatedInv ==
    ASSUME Inv, Instantiated
    PROVE  Inv'
<1>1. stack = <<>> /\ frames = <<>>
  BY DEF Inv, WalkInv, RootInv, Instantiated
<1>2. OnStack = {}
  BY <1>1, EmptyWalk DEF NoWalk
<1>3. root \in Modules
  BY DEF Inv, TypeOK, Instantiated
<1> PICK m : m = root
  OBVIOUS
<1>4. m \in Modules /\ Start(m, "eval") /\ root' = m
  BY <1>3 DEF Instantiated
<1> QED
  BY <1>2, <1>4, StartInv DEF Instantiated, inputVars

\* A module that is left linked has nothing on the stack among its imports.
LEMMA LinkFailsInv ==
    ASSUME Inv, LinkFails
    PROVE  Inv'
<1>1. /\ TypeOK /\ OpenInv /\ GraphInv /\ ExecutedInv /\ walk = "link" /\ walk' = "idle"
      /\ root' = NoModule /\ stack' = <<>> /\ frames' = <<>> /\ index' = 0
      /\ UNCHANGED <<requestedModules, unresolvable, registered, evaluationError, executed>>
  BY DEF Inv, LinkFails, inputVars
<1>2. /\ status' = [m \in Modules |-> IF m \in OnStack THEN "UNINSTANTIATED" ELSE status[m]]
      /\ dfsIndex' = [m \in Modules |-> IF m \in OnStack THEN UNDEFINED_INDEX ELSE dfsIndex[m]]
      /\ dfsAncestorIndex' = [m \in Modules |-> IF m \in OnStack THEN UNDEFINED_INDEX ELSE dfsAncestorIndex[m]]
  BY DEF LinkFails, OnStack
<1>3. WalkInv' /\ OnStack' = {} /\ Called' = {} /\ IsInjective(stack')
  BY <1>1, EmptyWalkNext DEF NoWalk
<1>4. \A m \in Modules : status[m] = "INSTANTIATING" <=> m \in OnStack
  BY <1>1 DEF OpenInv
<1>5. \A m \in Modules : /\ Linked(m)' <=> Linked(m)
                         /\ status'[m] = "EVALUATED" <=> status[m] = "EVALUATED"
  BY <1>2, <1>4 DEF Linked
<1>6. /\ \A x : Imports(x)' = Imports(x) /\ Needs(x)' = Needs(x)
      /\ \A x : ErrorFree(x)' <=> ErrorFree(x)
  BY <1>1, SameGraph
<1>7. GraphInv'
  <2>1. \A x \in Modules : Imports(x) \subseteq Modules
    BY <1>1, NeedsFacts
  <2> QED
    BY <1>1, <1>5, <1>6, <2>1 DEF GraphInv
<1>8. OpenInv'
  BY <1>1, <1>2, <1>3, <1>4 DEF OpenInv
<1>9. ExecutedInv'
  <2>1. \A x \in Modules : Started(x)' <=> Started(x)
    BY <1>1, <1>5 DEF Started
  <2>2. ~registered => \A i \in DOMAIN executed : \A x, d \in Modules :
            x = executed[i] /\ d \in Imports(x)' =>
                x \in Needs(d)' \/ \E j \in 1 .. i - 1 : executed[j] = d
    BY <1>1, <1>6 DEF ExecutedInv
  <2> QED
    BY <1>1, <2>1, <2>2, ExecutedAreModules DEF ExecutedInv
<1>10. TypeOK'
  <2>1. status' \in [Modules -> ModuleStatus]
    BY <1>1, <1>2 DEF TypeOK, ModuleStatus
  <2>2. /\ DOMAIN dfsIndex' = Modules /\ DOMAIN dfsAncestorIndex' = Modules
        /\ \A m \in Modules : /\ dfsIndex'[m] \in Nat \cup {UNDEFINED_INDEX}
                              /\ dfsAncestorIndex'[m] \in Nat \cup {UNDEFINED_INDEX}
    BY <1>1, <1>2 DEF TypeOK
  <2>3. \A f \in {dfsIndex', dfsAncestorIndex', evaluationError'} :
            DOMAIN f = Modules /\ \A m \in Modules : f[m] \in Nat \cup {UNDEFINED_INDEX}
    BY <1>1, <2>2 DEF TypeOK
  <2>4. \A m \in Modules : status'[m] = "UNINSTANTIATED" <=> dfsIndex'[m] = UNDEFINED_INDEX
    BY <1>1, <1>2 DEF TypeOK
  <2> QED
    BY <1>1, <2>1, <2>3, <2>4, NoModuleAssumption DEF TypeOK
<1> QED
  BY <1>3, <1>7, <1>8, <1>9, <1>10 DEF Inv

\* What an error has marked as evaluated is not free of errors.
LEMMA EvaluateFailsInv ==
    ASSUME Inv, EvaluateFails
    PROVE  Inv'
<1> PICK f : f = Module
  OBVIOUS
<1>1. /\ TypeOK /\ OpenInv /\ GraphInv /\ CallInv /\ ExecutedInv /\ walk = "eval" /\ walk' = "idle"
      /\ frames # <<>> /\ registered /\ executed' = Append(executed, f)
      /\ root' = NoModule /\ stack' = <<>> /\ frames' = <<>> /\ index' = 0
      /\ UNCHANGED <<requestedModules, unresolvable, registered, dfsIndex, dfsAncestorIndex>>
  BY DEF Inv, WalkInv, EvaluateFails, inputVars, dfsVars
<1>2. /\ status' = [m \in Modules |-> IF m \in OnStack THEN "EVALUATED" ELSE status[m]]
      /\ evaluationError' = [m \in Modules |-> IF m \in OnStack THEN index ELSE evaluationError[m]]
  BY DEF EvaluateFails, OnStack
<1>3. WalkInv' /\ OnStack' = {} /\ Called' = {} /\ IsInjective(stack')
  BY <1>1, EmptyWalkNext DEF NoWalk
<1>4. \A m \in Modules : status[m] = "EVALUATING" <=> m \in OnStack
  BY <1>1 DEF OpenInv
<1>5. index \in Nat /\ index # UNDEFINED_INDEX
  BY <1>1 DEF TypeOK, UNDEFINED_INDEX
<1>6. \A m \in Modules : /\ Linked(m)' <=> Linked(m)
                         /\ status'[m] = "EVALUATED" <=> status[m] = "EVALUATED" \/ m \in OnStack
  BY <1>2, <1>4 DEF Linked
<1>7. f \in Modules /\ f \in OnStack /\ f \in Called
  BY <1>1, CurrentFacts
<1>8. \A x : Imports(x)' = Imports(x) /\ Needs(x)' = Needs(x)
  BY <1>1, SameGraph
<1>9. \A x \in Modules : ErrorFree(x)' => ErrorFree(x) /\ x \notin OnStack
  <2>1. \A x \in Modules : Needs(x) \subseteq Modules
    BY <1>1, NeedsFacts
  <2>2. \A x \in Modules : evaluationError'[x] = UNDEFINED_INDEX =>
            x \notin OnStack /\ evaluationError[x] = UNDEFINED_INDEX
    BY <1>2, <1>5
  <2> QED
    BY <1>8, <2>1, <2>2 DEF ErrorFree
<1>10. GraphInv'
  <2>1. \A x \in Modules : Imports(x) \subseteq Modules
    BY <1>1, NeedsFacts
  <2> QED
    BY <1>1, <1>6, <1>8, <1>9, <2>1 DEF GraphInv
<1>11. OpenInv'
  <2>1. \A m \in Modules : status'[m] \notin {"INSTANTIATING", "EVALUATING"}
    BY <1>1, <1>2, <1>4 DEF OpenInv
  <2> QED
    BY <1>1, <1>3, <2>1 DEF OpenInv
<1>12. /\ executed \in Seq(Modules) /\ executed' \in Seq(Modules)
       /\ Len(executed) \in Nat /\ DOMAIN executed = 1 .. Len(executed)
       /\ DOMAIN executed' = 1 .. Len(executed) + 1
       /\ \A i \in DOMAIN executed : executed'[i] = executed[i]
       /\ executed'[Len(executed) + 1] = f
  BY <1>1, <1>7, AppendProperties, LenProperties DEF TypeOK
<1>13. ExecutedInv'
  <2>1. ~Started(f)
    BY <1>4, <1>7 DEF Started
  <2>2. \A i \in DOMAIN executed : executed[i] # f /\ executed[i] \in ToSet(executed)
    BY <1>1, <2>1 DEF ExecutedInv, ToSet
  <2>3. \A i \in DOMAIN executed' : i \in DOMAIN executed \/ i = Len(executed) + 1
    BY <1>12
  <2>4. IsInjective(executed')
    <3>1. \A i, j \in DOMAIN executed : executed[i] = executed[j] => i = j
      BY <1>1 DEF ExecutedInv, IsInjective
    <3>2. \A i, j \in DOMAIN executed' : executed'[i] = executed'[j] => i = j
      BY <1>12, <2>2, <2>3, <3>1
    <3> QED
      BY <3>2 DEF IsInjective
  <2>5. \A m \in Modules : Started(m) \/ m = f => Started(m)'
    BY <1>1, <1>6, <1>7 DEF Started
  <2>6. \A m \in ToSet(executed') : Started(m)'
    <3>1. \A m \in ToSet(executed') : m \in ToSet(executed) \/ m = f
      BY <1>12, <2>3 DEF ToSet
    <3> QED
      BY <1>1, <1>7, <2>5, <3>1, ExecutedAreModules DEF ExecutedInv
  <2> QED
    BY <1>1, <2>4, <2>6 DEF ExecutedInv
<1>14. TypeOK'
  <2>1. status' \in [Modules -> ModuleStatus]
    BY <1>1, <1>2 DEF TypeOK, ModuleStatus
  <2>2. /\ DOMAIN evaluationError' = Modules
        /\ \A m \in Modules : evaluationError'[m] \in Nat \cup {UNDEFINED_INDEX}
    BY <1>1, <1>2, <1>5 DEF TypeOK
  <2>3. \A g \in {dfsIndex', dfsAncestorIndex', evaluationError'} :
            DOMAIN g = Modules /\ \A m \in Modules : g[m] \in Nat \cup {UNDEFINED_INDEX}
    BY <1>1, <2>2 DEF TypeOK
  <2>4. \A m \in Modules : status'[m] = "UNINSTANTIATED" <=> dfsIndex'[m] = UNDEFINED_INDEX
    BY <1>1, <1>2, <1>4 DEF TypeOK
  <2> QED
    BY <1>1, <1>12, <2>1, <2>3, <2>4, NoModuleAssumption DEF TypeOK
<1> QED
  BY <1>3, <1>10, <1>11, <1>13, <1>14 DEF Inv

\* Evaluate returns.
LEMMA EvaluatedInv ==
    ASSUME Inv, Evaluated
    PROVE  Inv'
<1>1. /\ TypeOK /\ OpenInv /\ GraphInv /\ ExecutedInv /\ RootInv /\ frames = <<>> /\ walk' = "idle"
      /\ root' = NoModule /\ index' = 0
      /\ UNCHANGED <<requestedModules, unresolvable, registered, status, dfsIndex, dfsAncestorIndex,
                     evaluationError, stack, frames, executed>>
  BY DEF Inv, WalkInv, Evaluated, inputVars, dfsVars
<1>2. stack = <<>> /\ OnStack = {}
  BY <1>1, EmptyWalk DEF RootInv, NoWalk
<1>3. WalkInv' /\ OnStack' = {} /\ Called' = {} /\ IsInjective(stack')
  BY <1>1, <1>2, EmptyWalkNext DEF NoWalk
<1>4. /\ \A x : Imports(x)' = Imports(x) /\ Needs(x)' = Needs(x)
      /\ \A x : ErrorFree(x)' <=> ErrorFree(x)
  BY <1>1, SameGraph
<1>5. GraphInv'
  BY <1>1, <1>4 DEF GraphInv, Linked
<1>6. OpenInv'
  BY <1>1, <1>2, <1>3 DEF OpenInv
<1>7. ExecutedInv'
  <2>1. \A x : Started(x)' <=> Started(x)
    BY <1>1, <1>2, <1>3 DEF Started
  <2>2. ~registered => \A i \in DOMAIN executed : \A x, d \in Modules :
            x = executed[i] /\ d \in Imports(x)' =>
                x \in Needs(d)' \/ \E j \in 1 .. i - 1 : executed[j] = d
    BY <1>1, <1>4 DEF ExecutedInv
  <2> QED
    BY <1>1, <2>1, <2>2 DEF ExecutedInv
<1>8. TypeOK'
  BY <1>1, NoModuleAssumption DEF TypeOK
<1> QED
  BY <1>3, <1>5, <1>6, <1>7, <1>8 DEF Inv

LEMMA RegisterInv ==
    ASSUME Inv, EnableUserUncaughtErrorHandler
    PROVE  Inv'
<1>1. /\ TypeOK /\ OpenInv /\ GraphInv /\ ExecutedInv /\ walk = "idle" /\ registered' = TRUE
      /\ UNCHANGED <<requestedModules, unresolvable, status, dfsIndex, dfsAncestorIndex,
                     evaluationError, walk, root, stack, frames, index, executed>>
  BY DEF Inv, EnableUserUncaughtErrorHandler, inputVars, dfsVars, callVars
<1>2. stack = <<>> /\ frames = <<>>
  BY <1>1 DEF OpenInv
<1>3. WalkInv' /\ OnStack' = {} /\ IsInjective(stack')
  BY <1>1, <1>2, EmptyWalkNext DEF NoWalk
<1>4. /\ \A x : Imports(x)' = Imports(x)
      /\ \A x : ErrorFree(x)' <=> ErrorFree(x)
  BY <1>1, SameGraph
<1>5. GraphInv'
  BY <1>1, <1>4 DEF GraphInv, Linked
<1>6. OpenInv'
  BY <1>1 DEF OpenInv, OnStack
<1>7. ExecutedInv'
  <2>1. \A x : Started(x)' <=> Started(x)
    BY <1>1 DEF Started
  <2> QED
    BY <1>1, <2>1 DEF ExecutedInv
<1>8. TypeOK'
  BY <1>1 DEF TypeOK
<1> QED
  BY <1>3, <1>5, <1>6, <1>7, <1>8 DEF Inv

LEMMA StutterInv ==
    ASSUME Inv, UNCHANGED vars
    PROVE  Inv'
<1>1. UNCHANGED <<requestedModules, unresolvable, registered, status, dfsIndex, dfsAncestorIndex,
                  evaluationError, walk, root, stack, frames, index, executed>>
  BY DEF vars, inputVars, dfsVars, callVars
<1>2. /\ \A x : Imports(x)' = Imports(x) /\ Needs(x)' = Needs(x)
      /\ \A x : (ErrorFree(x)' <=> ErrorFree(x)) /\ (Clean(x)' <=> Clean(x))
  BY <1>1, SameGraph
<1>3. OnStack' = OnStack /\ Called' = Called
  BY <1>1 DEF OnStack, Called
<1>4. TypeOK' /\ GraphInv' /\ OpenInv'
  BY <1>1, <1>2, <1>3 DEF Inv, TypeOK, GraphInv, OpenInv, Linked
<1>5. ExecutedInv'
  <2>1. \A x : Started(x)' <=> Started(x)
    BY <1>1, <1>3 DEF Started
  <2> QED
    BY <1>1, <1>2, <2>1 DEF Inv, ExecutedInv
<1>6. RootInv' /\ NumberInv' /\ OrderInv'
  BY <1>1, <1>2, <1>3 DEF Inv, WalkInv, RootInv, NumberInv, OrderInv
<1>7. CallInv'
  BY <1>1, <1>2, <1>3 DEF Inv, WalkInv, CallInv
<1>8. AncestorInv'
  <2>1. \A m, d : Processed(m, d)' <=> Processed(m, d)
    BY <1>1 DEF Processed
  <2>2. \A d : Complete(d)' <=> Complete(d)
    BY <1>1 DEF Complete, Linked
  <2> QED
    BY <1>1, <1>2, <1>3, <2>1, <2>2 DEF Inv, WalkInv, AncestorInv
<1>9. ReturnInv'
  <2>1. \A i, m : Returned(i, m)' <=> Returned(i, m)
    BY <1>1, <1>3 DEF Returned
  <2>2. \A i, m : TakenOver(i, m)' <=> TakenOver(i, m)
    BY <1>1, <1>3 DEF TakenOver, MoreRequired, Required, Module, Current
  <2> QED
    BY <1>1, <1>2, <2>1, <2>2 DEF Inv, WalkInv, ReturnInv
<1> QED
  BY <1>4, <1>5, <1>6, <1>7, <1>8, <1>9 DEF Inv, WalkInv

LEMMA InitInv == Init => Inv
<1> SUFFICES ASSUME Init
             PROVE  Inv
  OBVIOUS
<1>1. WalkInv /\ OnStack = {} /\ Called = {} /\ IsInjective(stack)
  BY EmptyWalk DEF Init, NoWalk
<1>2. TypeOK
  <2>1. requestedModules \in [Modules -> Requests] /\ unresolvable \subseteq Modules
    BY DEF Init
  <2>2. status \in [Modules -> ModuleStatus]
    BY DEF Init, ModuleStatus
  <2>3. \A f \in {dfsIndex, dfsAncestorIndex, evaluationError} :
            DOMAIN f = Modules /\ \A m \in Modules : f[m] \in Nat \cup {UNDEFINED_INDEX}
    BY DEF Init
  <2>4. stack \in Seq(Modules) /\ frames \in Seq([module : Modules, idx : Nat]) /\ executed \in Seq(Modules)
    BY DEF Init
  <2>5. \A m \in Modules : status[m] = "UNINSTANTIATED" <=> dfsIndex[m] = UNDEFINED_INDEX
    BY DEF Init
  <2>6. registered \in BOOLEAN /\ walk = "idle" /\ root \notin Modules /\ index \in Nat
    BY NoModuleAssumption DEF Init
  <2> QED
    BY <2>1, <2>2, <2>3, <2>4, <2>5, <2>6 DEF TypeOK
<1>3. \A m \in Modules : status[m] = "UNINSTANTIATED" /\ evaluationError[m] = UNDEFINED_INDEX
  BY DEF Init
<1>4. GraphInv
  BY <1>3 DEF GraphInv, Linked
<1>5. OpenInv
  BY <1>1, <1>3 DEF OpenInv, Init
<1>6. ExecutedInv
  <2>1. executed = <<>> /\ DOMAIN executed = {} /\ ToSet(executed) = {} /\ IsInjective(executed)
    BY DEF Init, ToSet, IsInjective
  <2>2. \A m \in Modules : ~Started(m)
    BY <1>1, <1>3 DEF Started
  <2> QED
    BY <1>3, <2>1, <2>2 DEF ExecutedInv
<1> QED
  BY <1>1, <1>2, <1>4, <1>5, <1>6 DEF Inv

LEMMA NextInv == Inv /\ [Next]_vars => Inv'
<1> SUFFICES ASSUME Inv, [Next]_vars
             PROVE  Inv'
  OBVIOUS
<1>1. CASE \E m \in Modules : ExecuteFromFile(m)
  BY <1>1, ExecuteFromFileInv
<1>2. CASE EnableUserUncaughtErrorHandler
  BY <1>2, RegisterInv
<1>3. CASE Step
  BY <1>3, DescendInv, RevisitInv, LinkInv, LinkFailsInv, InstantiatedInv, ModuleExecutionInv,
     EvaluateFailsInv, EvaluatedInv DEF Step
<1>4. CASE UNCHANGED vars
  BY <1>4, StutterInv
<1> QED
  BY <1>1, <1>2, <1>3, <1>4 DEF Next

LEMMA InvHolds == Spec => []Inv
  BY InitInv, NextInv, PTL DEF Spec

-----------------------------------------------------------------------------
(* What the invariant says *)

LEMMA InvStackIsOpen == Inv => StackIsOpen
<1> SUFFICES ASSUME Inv
             PROVE  StackIsOpen
  OBVIOUS
<1>1. TypeOK /\ OpenInv /\ RootInv /\ CallInv /\ NumberInv
  BY DEF Inv, WalkInv
<1>2. OnStack \subseteq Modules /\ OnStack = ToSet(stack)
  BY <1>1, StackFacts DEF OnStack
<1>3. ASSUME walk = "idle", NEW m \in Modules
      PROVE  status[m] \notin {"INSTANTIATING", "EVALUATING"}
  BY <1>1, <1>3 DEF OpenInv
<1>4. ASSUME walk # "idle"
      PROVE  OnStack = {m \in Modules : status[m] = Walks[walk].open}
  <2>1. CASE walk = "link"
    BY <1>1, <1>2, <2>1, WalkFacts DEF OpenInv
  <2>2. CASE walk = "eval"
    BY <1>1, <1>2, <2>2, WalkFacts DEF OpenInv
  <2> QED
    BY <1>1, <1>4, <2>1, <2>2 DEF TypeOK
<1>5. IsInjective(stack)
  BY <1>1 DEF OpenInv
<1>6. \A i \in DOMAIN frames : frames[i].module \in OnStack
  BY <1>1 DEF CallInv
<1>7. frames = <<>> => stack = <<>>
  BY <1>1 DEF RootInv
<1>8. \A i \in DOMAIN stack : dfsAncestorIndex[stack[i]] <= dfsIndex[stack[i]]
  <2>1. \A i \in DOMAIN stack : stack[i] \in OnStack
    BY DEF OnStack, ToSet
  <2> QED
    BY <1>1, <2>1 DEF NumberInv
<1> QED
  BY <1>1, <1>2, <1>3, <1>4, <1>5, <1>6, <1>7, <1>8 DEF StackIsOpen

\* What holds of the imports of a module that is complete holds of all it needs, because
\* the complete modules are closed under imports.
LEMMA InvCompleteWithImports == Inv => CompleteWithImports
<1> SUFFICES ASSUME Inv
             PROVE  CompleteWithImports
  OBVIOUS
<1>1. TypeOK /\ GraphInv
  BY DEF Inv
<1>2. StackIsOpen
  BY InvStackIsOpen
<1>3. ASSUME NEW m \in Modules, Linked(m)
      PROVE  Needs(m) \subseteq {d \in Modules : Linked(d)}
  <2> PICK X : X = {d \in Modules : Linked(d)}
    OBVIOUS
  <2>1. \A d \in X : Imports(d) \subseteq X
    BY <1>1, NeedsFacts DEF GraphInv
  <2>2. m \in X
    BY <1>3
  <2>3. NeedsOf(requestedModules, m) \subseteq X
    BY <2>1, <2>2, NeedsLeast DEF Imports
  <2> QED
    BY <2>3, NeedsIsNeedsOf
<1>4. ASSUME NEW m \in Modules, status[m] = "EVALUATED", ErrorFree(m)
      PROVE  Needs(m) \subseteq {d \in Modules : status[d] = "EVALUATED"}
  <2> PICK X : X = {d \in Modules : status[d] = "EVALUATED" /\ ErrorFree(d)}
    OBVIOUS
  <2>1. ASSUME NEW d \in X, NEW e \in Imports(d)
        PROVE  e \in X
    <3>1. d \in Modules /\ status[d] = "EVALUATED" /\ ErrorFree(d)
      OBVIOUS
    <3>2. e \in Modules /\ e \in Needs(d)
      BY <1>1, <2>1, <3>1, NeedsFacts
    <3>3. Needs(e) \subseteq Needs(d)
      BY <1>1, <3>1, <3>2, NeedsFacts
    <3>4. status[e] = "EVALUATED"
      BY <1>1, <2>1, <3>1 DEF GraphInv
    <3> QED
      BY <3>1, <3>2, <3>3, <3>4 DEF ErrorFree
  <2>2. m \in X
    BY <1>4
  <2>3. NeedsOf(requestedModules, m) \subseteq X
    BY <2>1, <2>2, NeedsLeast DEF Imports
  <2> QED
    BY <2>3, NeedsIsNeedsOf
<1>5. ASSUME NEW m \in Modules, NEW d \in Needs(m)
      PROVE  /\ status[m] \notin {"UNINSTANTIATED", "INSTANTIATING"}
                  => status[d] \notin {"UNINSTANTIATED", "INSTANTIATING"}
             /\ status[m] = "EVALUATED" /\ (\A n \in {m} \cup Needs(m) : evaluationError[n] = UNDEFINED_INDEX)
                  => status[d] = "EVALUATED"
  BY <1>3, <1>4 DEF Linked, ErrorFree
<1> QED
  BY <1>2, <1>5 DEF CompleteWithImports

LEMMA InvRunsAfterImports == Inv => RunsAfterImports
<1> SUFFICES ASSUME Inv
             PROVE  RunsAfterImports
  OBVIOUS
<1>1. TypeOK /\ ExecutedInv
  BY DEF Inv
<1>2. IsInjective(executed)
  BY <1>1 DEF ExecutedInv
<1>3. ASSUME ~registered, NEW i \in DOMAIN executed, NEW d \in ToSet(requestedModules[executed[i]])
      PROVE  \/ \E j \in 1 .. i - 1 : executed[j] = d
             \/ executed[i] \in Needs(d)
  <2> PICK m : m = executed[i]
    OBVIOUS
  <2>1. m \in Modules
    BY <1>1 DEF TypeOK
  <2>2. d \in Imports(m)
    BY DEF Imports, ImportsOf
  <2>3. d \in Modules
    BY <1>1, <2>1, <2>2, NeedsFacts
  <2> QED
    BY <1>1, <1>3, <2>1, <2>2, <2>3 DEF ExecutedInv
<1> QED
  BY <1>2, <1>3 DEF RunsAfterImports

-----------------------------------------------------------------------------
(* The theorems *)

\* The records of the modules stay well formed: the indices are numbers or undefined, and
\* a module has an index exactly when Instantiate has met it and not taken it back.
THEOREM ModulesTypeCorrect == Spec => []TypeOK
<1>1. Inv => TypeOK
  BY DEF Inv
<1> QED
  BY <1>1, InvHolds, PTL

\* Instantiate and Evaluate leave no module half-way and complete a module only with all it
\* imports, directly or not: after names that cannot be resolved, after errors the embedder
\* has taken, and when files share modules.
THEOREM ModulesCompleteWithImports == Spec => []CompleteWithImports
  BY InvHolds, InvCompleteWithImports, PTL

\* ModuleExecution is reached once for each module, and after it was reached for the imports
\* of that module that do not lead back to it.
THEOREM ModulesRunAfterImports == Spec => []RunsAfterImports
  BY InvHolds, InvRunsAfterImports, PTL
=============================================================================
