------------------------ MODULE LinkedStructureProofs ------------------------
(***************************************************************************)
(* Proofs about the two structures that are linked by hand.                *)
(*                                                                         *)
(* WaiterList, for any VMs, locations and values: the links make one list  *)
(* per location, and wait and notify are atomic operations on a queue.     *)
(*                                                                         *)
(* LinkedHashTable, for any keys and cursors: the chain of a bucket leads  *)
(* to the entries of that bucket from the last to the first, and no table  *)
(* runs over.  When equal keys have equal hashes, lookups are exact, and   *)
(* the table with its cursors is an ordered list of keys.                  *)
(*                                                                         *)
(* A walk along links, a rehash, the update of a cursor and what a         *)
(* sequence keeps are recursive functions; what they return is shown by    *)
(* induction on the number of steps.  Both parts share the lemmas on that. *)
(***************************************************************************)
EXTENDS WaiterList, LinkedHashTable, SequenceTheorems, FiniteSetTheorems, WellFoundedInduction, TLAPS

-----------------------------------------------------------------------------
(* Induction *)

LEMMA LeastElement ==
    ASSUME NEW S \in SUBSET Nat, S # {}
    PROVE  \E n \in S : \A m \in S : n <= m
<1>1. PICK n \in S : \A m \in S : ~(<<m, n>> \in OpToRel(<, Nat))
  BY NatLessThanWellFounded, WFMin, Zenon
<1>2. \A m \in S : ~(m < n)
  BY <1>1 DEF OpToRel
<1> QED
  BY <1>2

\* What holds at 0 and goes on to hold holds up to n.
LEMMA UpTo ==
    ASSUME NEW n \in Nat, NEW S, 0 \in S, \A i \in 1 .. n : i - 1 \in S => i \in S
    PROVE  \A i \in 0 .. n : i \in S
<1> SUFFICES ASSUME (0 .. n) \ S # {}
             PROVE  FALSE
    OBVIOUS
<1> PICK D : D = (0 .. n) \ S
  OBVIOUS
<1>0. D \in SUBSET Nat /\ D # {}
  OBVIOUS
<1>1. PICK i \in D : \A m \in D : i <= m
  BY <1>0, LeastElement
<1>2. i \in 1 .. n /\ i - 1 \in 0 .. n /\ i - 1 \notin S
  BY <1>1
<1> QED
  BY <1>1, <1>2

-----------------------------------------------------------------------------
(* The elements of a sequence that are in a set *)

KeptStep(s, S, f, n) ==
    IF n = 0 THEN <<>> ELSE IF s[n] \in S THEN Append(f[n - 1], s[n]) ELSE f[n - 1]

IsKept(s, S, f) == f = [n \in 0 .. Len(s) |-> KeptStep(s, S, f, n)]
KeptUpTo(s, S) == CHOOSE f : IsKept(s, S, f)
Kept(s, S) == KeptUpTo(s, S)[Len(s)]

LEMMA KeptExists ==
    ASSUME NEW T, NEW s \in Seq(T), NEW S
    PROVE  IsKept(s, S, KeptUpTo(s, S))
<1>1. Len(s) \in Nat
  BY LenProperties
<1> PICK len : len = Len(s)
  OBVIOUS
<1> DEFINE N == {n \in 0 .. len : \E f : f = [k \in 0 .. n |-> KeptStep(s, S, f, k)]}
<1>2. 0 \in N
  <2> DEFINE f == [k \in 0 .. 0 |-> <<>>]
  <2>1. f = [k \in 0 .. 0 |-> KeptStep(s, S, f, k)]
    BY DEF KeptStep
  <2> QED
    BY <1>1, <2>1
<1>3. ASSUME NEW n \in 1 .. len, n - 1 \in N
      PROVE  n \in N
  <2>1. PICK f : f = [k \in 0 .. n - 1 |-> KeptStep(s, S, f, k)]
    BY <1>3
  <2> DEFINE g == [k \in 0 .. n |-> IF k = n THEN KeptStep(s, S, f, n) ELSE f[k]]
  <2>2. \A k \in 0 .. n : g[k] = KeptStep(s, S, g, k)
    <3> SUFFICES ASSUME NEW k \in 0 .. n
                 PROVE  g[k] = KeptStep(s, S, g, k)
      OBVIOUS
    <3>1. k = 0 \/ (k - 1 \in 0 .. n - 1 /\ k - 1 \in 0 .. n /\ k - 1 # n)
      BY <1>1
    <3>2. k = 0 \/ g[k - 1] = f[k - 1]
      BY <3>1
    <3>3. KeptStep(s, S, g, k) = KeptStep(s, S, f, k)
      BY <3>2 DEF KeptStep
    <3>4. k # n => f[k] = KeptStep(s, S, f, k)
      <4>1. k # n => k \in 0 .. n - 1
        BY <1>1
      <4> QED
        BY <2>1, <4>1
    <3> QED
      BY <3>3, <3>4
  <2>3. g = [k \in 0 .. n |-> KeptStep(s, S, g, k)]
    BY <2>2
  <2> HIDE DEF g
  <2>4. \E h : h = [k \in 0 .. n |-> KeptStep(s, S, h, k)]
    BY <2>3
  <2>5. n \in 0 .. len
    BY <1>1
  <2> QED
    BY <2>4, <2>5
<1>4. len \in N
  <2> HIDE DEF N
  <2>1. \A i \in 0 .. len : i \in N
    BY <1>1, <1>2, <1>3, UpTo
  <2> QED
    BY <1>1, <2>1
<1> QED
  BY <1>4 DEF KeptUpTo, IsKept

\* Element by element.
LEMMA KeptFacts ==
    ASSUME NEW T, NEW s \in Seq(T), NEW S
    PROVE  LET K == KeptUpTo(s, S)
           IN  /\ K[0] = <<>>
               /\ \A n \in 1 .. Len(s) : K[n] = IF s[n] \in S THEN Append(K[n - 1], s[n]) ELSE K[n - 1]
               /\ \A n \in 0 .. Len(s) : K[n] \in Seq(T)
<1> DEFINE K == KeptUpTo(s, S)
<1>0. Len(s) \in Nat /\ \A n \in 1 .. Len(s) : s[n] \in T
  BY LenProperties, ElementOfSeq
<1> PICK len : len = Len(s)
  OBVIOUS
<1>1. K = [n \in 0 .. Len(s) |-> KeptStep(s, S, K, n)]
  BY KeptExists DEF IsKept
<1> HIDE DEF K
<1>2. K[0] = <<>>
  BY <1>0, <1>1 DEF KeptStep
<1>3. \A n \in 1 .. len : K[n] = IF s[n] \in S THEN Append(K[n - 1], s[n]) ELSE K[n - 1]
  <2> SUFFICES ASSUME NEW n \in 1 .. len
               PROVE  K[n] = IF s[n] \in S THEN Append(K[n - 1], s[n]) ELSE K[n - 1]
    OBVIOUS
  <2>1. n \in 0 .. len /\ n # 0
    BY <1>0
  <2> QED
    BY <1>1, <2>1 DEF KeptStep
<1> DEFINE N == {n \in 0 .. len : K[n] \in Seq(T)}
<1>4. 0 \in N
  <2>1. <<>> \in Seq(T)
    BY EmptySeq
  <2>2. 0 \in 0 .. len
    BY <1>0
  <2> QED
    BY ONLY <1>2, <2>1, <2>2
<1>5. ASSUME NEW n \in 1 .. len, n - 1 \in N
      PROVE  n \in N
  <2>1. s[n] \in T /\ K[n - 1] \in Seq(T)
    BY <1>0, <1>5
  <2>2. Append(K[n - 1], s[n]) \in Seq(T)
    BY <2>1, AppendProperties
  <2>3. n \in 0 .. len
    BY <1>0
  <2> QED
    BY <1>3, <2>1, <2>2, <2>3
<1>6. \A n \in 0 .. len : n \in N
  <2> HIDE DEF N
  <2> QED
    BY <1>0, <1>4, <1>5, UpTo
<1> QED
  BY <1>2, <1>3, <1>6 DEF K

-----------------------------------------------------------------------------
(* Elements that come and go *)

LEMMA AppendFacts ==
    ASSUME NEW T, NEW t \in Seq(T), NEW e \in T
    PROVE  /\ Append(t, e) \in Seq(T) /\ Len(Append(t, e)) = Len(t) + 1
           /\ DOMAIN t = 1 .. Len(t) /\ DOMAIN Append(t, e) = 1 .. Len(t) + 1
           /\ \A i \in 1 .. Len(t) : Append(t, e)[i] = t[i]
           /\ Append(t, e)[Len(t) + 1] = e
           /\ ToSet(Append(t, e)) = ToSet(t) \cup {e}
           /\ IsInjective(t) /\ e \notin ToSet(t) => IsInjective(Append(t, e))
<1> PICK n, u : n = Len(t) /\ u = Append(t, e)
  OBVIOUS
<1>1. /\ u \in Seq(T) /\ Len(u) = n + 1 /\ n \in Nat
      /\ DOMAIN t = 1 .. n /\ DOMAIN u = 1 .. n + 1
      /\ \A i \in 1 .. n : u[i] = t[i]
      /\ u[n + 1] = e
  BY AppendProperties, LenProperties
<1>2. 1 .. n + 1 = (1 .. n) \cup {n + 1} /\ n + 1 \notin 1 .. n
  BY ONLY <1>1
<1>3. ToSet(u) = ToSet(t) \cup {e}
  BY ONLY <1>1, <1>2 DEF ToSet
<1>4. ASSUME IsInjective(t), e \notin ToSet(t)
      PROVE  IsInjective(u)
  <2>1. \A i \in 1 .. n : t[i] # e
    BY <1>1, <1>4 DEF ToSet
  <2>2. \A i, k \in 1 .. n : t[i] = t[k] => i = k
    BY <1>1, <1>4 DEF IsInjective
  <2> QED
    BY ONLY <1>1, <1>2, <2>1, <2>2 DEF IsInjective
<1> QED
  BY <1>1, <1>3, <1>4

LEMMA RemoveFacts ==
    ASSUME NEW T, NEW s \in Seq(T), NEW k \in 1 .. Len(s)
    PROVE  /\ RemoveAt(s, k) \in Seq(T) /\ Len(RemoveAt(s, k)) = Len(s) - 1
           /\ \A i \in 1 .. Len(s) - 1 : RemoveAt(s, k)[i] = IF i < k THEN s[i] ELSE s[i + 1]
<1> PICK n : n = Len(s)
  OBVIOUS
<1>1. n \in Nat /\ k \in 1 .. n /\ \A i \in 1 .. n : s[i] \in T
  BY LenProperties, ElementOfSeq
<1> PICK a, b : a = SubSeq(s, 1, k - 1) /\ b = SubSeq(s, k + 1, n)
  OBVIOUS
<1>2. a \in Seq(T) /\ Len(a) = k - 1 /\ \A i \in 1 .. k - 1 : a[i] = s[i]
  <2>1. 1 \in Int /\ k - 1 \in Int /\ \A i \in 1 .. k - 1 : s[i] \in T
    BY <1>1
  <2>2. /\ a \in Seq(T) /\ Len(a) = IF 1 <= k - 1 THEN (k - 1) - 1 + 1 ELSE 0
        /\ \A i \in 1 .. (k - 1) - 1 + 1 : a[i] = s[1 + i - 1]
    BY <2>1, SubSeqProperties
  <2>3. \A i \in 1 .. k - 1 : i \in 1 .. (k - 1) - 1 + 1 /\ 1 + i - 1 = i
    BY <1>1
  <2>4. (IF 1 <= k - 1 THEN (k - 1) - 1 + 1 ELSE 0) = k - 1
    BY <1>1
  <2> QED
    BY <2>2, <2>3, <2>4
<1>3. b \in Seq(T) /\ Len(b) = n - k /\ \A i \in 1 .. n - k : b[i] = s[k + i]
  <2>1. n \in Int /\ k + 1 \in Int /\ \A i \in k + 1 .. n : s[i] \in T
    BY <1>1
  <2>2. /\ b \in Seq(T) /\ Len(b) = IF k + 1 <= n THEN n - (k + 1) + 1 ELSE 0
        /\ \A i \in 1 .. n - (k + 1) + 1 : b[i] = s[(k + 1) + i - 1]
    BY <2>1, SubSeqProperties
  <2>3. \A i \in 1 .. n - k : i \in 1 .. n - (k + 1) + 1 /\ (k + 1) + i - 1 = k + i
    BY <1>1
  <2>4. (IF k + 1 <= n THEN n - (k + 1) + 1 ELSE 0) = n - k
    BY <1>1
  <2> QED
    BY <2>2, <2>3, <2>4
<1> PICK c : c = a \o b
  OBVIOUS
<1>4. /\ c \in Seq(T) /\ Len(c) = (k - 1) + (n - k)
      /\ \A i \in 1 .. (k - 1) + (n - k) : c[i] = IF i <= k - 1 THEN a[i] ELSE b[i - (k - 1)]
  <2>1. /\ a \o b \in Seq(T) /\ Len(a \o b) = Len(a) + Len(b)
        /\ \A i \in 1 .. Len(a) + Len(b) :
                (a \o b)[i] = IF i <= Len(a) THEN a[i] ELSE b[i - Len(a)]
    <3>1. a \in Seq(T) /\ b \in Seq(T)
      BY <1>2, <1>3
    <3> QED
      BY ONLY <3>1, ConcatProperties
  <2> QED
    BY ONLY <1>2, <1>3, <2>1, c = a \o b
<1>5. ASSUME NEW i \in 1 .. n - 1
      PROVE  c[i] = IF i < k THEN s[i] ELSE s[i + 1]
  <2>1. i \in 1 .. (k - 1) + (n - k)
    BY <1>1
  <2>2. CASE i < k
    <3>1. i <= k - 1 /\ i \in 1 .. k - 1
      BY <1>1, <2>2
    <3> QED
      BY <1>2, <1>4, <2>1, <2>2, <3>1
  <2>3. CASE ~(i < k)
    <3>1. ~(i <= k - 1) /\ i - (k - 1) \in 1 .. n - k /\ k + (i - (k - 1)) = i + 1
      BY <1>1, <2>3
    <3> QED
      BY <1>3, <1>4, <2>1, <2>3, <3>1
  <2> QED
    BY <2>2, <2>3
<1>6. c = RemoveAt(s, k) /\ (k - 1) + (n - k) = n - 1
  BY <1>1 DEF RemoveAt
<1> QED
  BY <1>4, <1>5, <1>6

LEMMA DropFacts ==
    ASSUME NEW T, NEW s \in Seq(T), NEW m \in 0 .. Len(s)
    PROVE  /\ SubSeq(s, m + 1, Len(s)) \in Seq(T) /\ Len(SubSeq(s, m + 1, Len(s))) = Len(s) - m
           /\ \A i \in 1 .. Len(s) - m : SubSeq(s, m + 1, Len(s))[i] = s[m + i]
<1> PICK n, b : n = Len(s) /\ b = SubSeq(s, m + 1, n)
  OBVIOUS
<1>1. n \in Nat /\ m \in 0 .. n /\ \A i \in 1 .. n : s[i] \in T
  BY LenProperties, ElementOfSeq
<1>2. n \in Int /\ m + 1 \in Int /\ \A i \in m + 1 .. n : s[i] \in T
  BY <1>1
<1>3. /\ b \in Seq(T) /\ Len(b) = IF m + 1 <= n THEN n - (m + 1) + 1 ELSE 0
      /\ \A i \in 1 .. n - (m + 1) + 1 : b[i] = s[(m + 1) + i - 1]
  BY <1>2, SubSeqProperties
<1>4. \A i \in 1 .. n - m : i \in 1 .. n - (m + 1) + 1 /\ (m + 1) + i - 1 = m + i
  BY <1>1
<1>5. (IF m + 1 <= n THEN n - (m + 1) + 1 ELSE 0) = n - m
  BY <1>1
<1> QED
  BY <1>3, <1>4, <1>5

LEMMA RemoveOfAppend ==
    ASSUME NEW T, NEW u \in Seq(T), NEW e \in T
    PROVE  /\ RemoveAt(Append(u, e), Len(u) + 1) = u
           /\ \A p \in 1 .. Len(u) : RemoveAt(Append(u, e), p) = Append(RemoveAt(u, p), e)
<1> PICK n, v : n = Len(u) /\ v = Append(u, e)
  OBVIOUS
<1>1. /\ n \in Nat /\ v \in Seq(T) /\ Len(v) = n + 1 /\ v[n + 1] = e
      /\ \A i \in 1 .. n : v[i] = u[i]
  BY LenProperties, AppendFacts
<1>2. RemoveAt(v, n + 1) = u
  <2> PICK r, k : r = RemoveAt(v, n + 1) /\ k = n + 1
    OBVIOUS
  <2>1. k \in 1 .. Len(v)
    BY <1>1
  <2>2. r \in Seq(T) /\ Len(r) = Len(v) - 1 /\ \A i \in 1 .. Len(v) - 1 : r[i] = IF i < k THEN v[i] ELSE v[i + 1]
    BY <1>1, <2>1, RemoveFacts, ZenonT(40)
  <2>3. Len(r) = n /\ \A i \in 1 .. n : r[i] = u[i]
    BY <1>1, <2>2
  <2>4. Len(r) = Len(u) /\ \A i \in 1 .. Len(r) : r[i] = u[i]
    BY <2>3
  <2>5. r = u
    BY <2>2, <2>4, SeqEqual
  <2> QED
    BY <2>5
<1>3. ASSUME NEW p \in 1 .. n
      PROVE  RemoveAt(v, p) = Append(RemoveAt(u, p), e)
  <2> PICK r, w : r = RemoveAt(v, p) /\ w = RemoveAt(u, p)
    OBVIOUS
  <2>1. p \in 1 .. Len(v) /\ p \in 1 .. Len(u)
    BY <1>1
  <2>2. r \in Seq(T) /\ Len(r) = Len(v) - 1 /\ \A i \in 1 .. Len(v) - 1 : r[i] = IF i < p THEN v[i] ELSE v[i + 1]
    BY <1>1, <2>1, RemoveFacts
  <2>3. w \in Seq(T) /\ Len(w) = Len(u) - 1 /\ \A i \in 1 .. Len(u) - 1 : w[i] = IF i < p THEN u[i] ELSE u[i + 1]
    BY <2>1, RemoveFacts
  <2> PICK x : x = Append(w, e)
    OBVIOUS
  <2>4. /\ x \in Seq(T) /\ Len(x) = Len(w) + 1 /\ \A i \in 1 .. Len(w) : x[i] = w[i]
        /\ x[Len(w) + 1] = e
    BY <2>3, AppendFacts
  <2>5. Len(r) = n /\ Len(w) = n - 1 /\ Len(x) = n
    BY <1>1, <2>2, <2>3, <2>4
  <2>6. ASSUME NEW i \in 1 .. n
        PROVE  r[i] = x[i]
    <3>1. r[i] = IF i < p THEN v[i] ELSE v[i + 1]
      BY <1>1, <2>2
    <3>2. CASE i = n
      <4>1. r[i] = e
        BY <1>1, <3>1, <3>2
      <4>2. x[i] = e
        BY <1>1, <2>4, <2>5, <3>2
      <4> QED
        BY <4>1, <4>2
    <3>3. CASE i # n
      <4>1. i \in 1 .. n - 1 /\ i + 1 \in 1 .. n
        BY <1>1, <3>3
      <4>2. x[i] = IF i < p THEN u[i] ELSE u[i + 1]
        BY <2>3, <2>4, <2>5, <4>1
      <4> QED
        BY <1>1, <3>1, <4>1, <4>2
    <3> QED
      BY <3>2, <3>3
  <2>7. r = x
    BY <2>2, <2>4, <2>5, <2>6, SeqEqual
  <2> QED
    BY <2>7
<1> QED
  BY <1>2, <1>3

LEMMA DropOfAppend ==
    ASSUME NEW T, NEW u \in Seq(T), NEW e \in T, NEW m \in 0 .. Len(u)
    PROVE  SubSeq(Append(u, e), m + 1, Len(Append(u, e))) = Append(SubSeq(u, m + 1, Len(u)), e)
<1> PICK n, v : n = Len(u) /\ v = Append(u, e)
  OBVIOUS
<1>1. /\ n \in Nat /\ v \in Seq(T) /\ Len(v) = n + 1 /\ v[n + 1] = e
      /\ \A i \in 1 .. n : v[i] = u[i]
  BY LenProperties, AppendFacts
<1> PICK r, w : r = SubSeq(v, m + 1, Len(v)) /\ w = SubSeq(u, m + 1, Len(u))
  OBVIOUS
<1>2. m \in 0 .. Len(v) /\ m \in 0 .. n
  BY <1>1
<1>3. r \in Seq(T) /\ Len(r) = Len(v) - m /\ \A i \in 1 .. Len(v) - m : r[i] = v[m + i]
  BY <1>1, <1>2, DropFacts, ZenonT(40)
<1>4. w \in Seq(T) /\ Len(w) = Len(u) - m /\ \A i \in 1 .. Len(u) - m : w[i] = u[m + i]
  BY DropFacts
<1> PICK x : x = Append(w, e)
  OBVIOUS
<1>5. /\ x \in Seq(T) /\ Len(x) = Len(w) + 1 /\ \A i \in 1 .. Len(w) : x[i] = w[i]
      /\ x[Len(w) + 1] = e
  <2>1. w \in Seq(T) /\ e \in T /\ x = Append(w, e)
    BY <1>4
  <2> QED
    BY ONLY <2>1, AppendFacts
<1>0. n \in Nat /\ m \in Nat /\ m <= n
  BY <1>1, <1>2
<1>6. Len(w) = n - m /\ Len(r) = n + 1 - m /\ Len(x) = n + 1 - m
  BY <1>1, <1>2, <1>3, <1>4, <1>5
<1>7. ASSUME NEW i \in 1 .. n + 1 - m
      PROVE  r[i] = x[i]
  <2>1. r[i] = v[m + i]
    BY ONLY <1>0, <1>1, <1>3, i \in 1 .. n + 1 - m
  <2>2. CASE i = n + 1 - m
    <3>1. m + i = n + 1 /\ i = Len(w) + 1
      BY <1>1, <1>2, <1>6, <2>2
    <3> QED
      BY <1>1, <1>5, <2>1, <3>1
  <2>3. CASE i # n + 1 - m
    <3>1. i \in 1 .. n - m /\ m + i \in 1 .. n
      BY ONLY <1>0, <2>3, i \in 1 .. n + 1 - m
    <3> QED
      BY <1>1, <1>4, <1>5, <1>6, <2>1, <3>1
  <2> QED
    BY <2>2, <2>3
<1>8. r = x
  BY <1>3, <1>5, <1>6, <1>7, SeqEqual
<1> QED
  BY <1>8

-----------------------------------------------------------------------------
(* What is kept *)

\* Exactly the elements in the set, each as often as before.
LEMMA KeptElements ==
    ASSUME NEW T, NEW s \in Seq(T), NEW S
    PROVE  LET K == KeptUpTo(s, S)
           IN  \A n \in 0 .. Len(s) :
                /\ ToSet(K[n]) = {s[j] : j \in 1 .. n} \cap S
                /\ IsInjective(s) => IsInjective(K[n])
<1> PICK K, len : K = KeptUpTo(s, S) /\ len = Len(s)
  OBVIOUS
<1>1. /\ len \in Nat /\ DOMAIN s = 1 .. len /\ \A n \in 1 .. len : s[n] \in T
      /\ K[0] = <<>>
      /\ \A n \in 1 .. len : K[n] = IF s[n] \in S THEN Append(K[n - 1], s[n]) ELSE K[n - 1]
      /\ \A n \in 0 .. len : K[n] \in Seq(T)
  <2>1. len \in Nat /\ DOMAIN s = 1 .. len /\ \A n \in 1 .. len : s[n] \in T
    BY LenProperties, ElementOfSeq
  <2>2. /\ K[0] = <<>>
        /\ \A n \in 1 .. len : K[n] = IF s[n] \in S THEN Append(K[n - 1], s[n]) ELSE K[n - 1]
        /\ \A n \in 0 .. len : K[n] \in Seq(T)
    <3>1. LET I == KeptUpTo(s, S)
          IN  /\ I[0] = <<>>
              /\ \A n \in 1 .. Len(s) : I[n] = IF s[n] \in S THEN Append(I[n - 1], s[n]) ELSE I[n - 1]
              /\ \A n \in 0 .. Len(s) : I[n] \in Seq(T)
      BY ONLY s \in Seq(T), KeptFacts
    <3> QED
      BY ONLY <3>1, len = Len(s), K = KeptUpTo(s, S)
  <2> QED
    BY <2>1, <2>2
<1> DEFINE N == {n \in 0 .. len : /\ ToSet(K[n]) = {s[j] : j \in 1 .. n} \cap S
                                  /\ IsInjective(s) => IsInjective(K[n])}
<1>2. 0 \in N
  <2>1. ToSet(K[0]) = {} /\ IsInjective(K[0])
    BY <1>1 DEF ToSet, IsInjective
  <2>2. {s[j] : j \in 1 .. 0} = {}
    OBVIOUS
  <2>3. 0 \in 0 .. len
    BY <1>1
  <2> QED
    BY <2>1, <2>2, <2>3
<1>3. ASSUME NEW n \in 1 .. len, n - 1 \in N
      PROVE  n \in N
  <2>1. n \in 0 .. len /\ n - 1 \in 0 .. len
    BY <1>1
  <2>2. 1 .. n = (1 .. n - 1) \cup {n} /\ n \notin 1 .. n - 1
    BY <1>1
  <2>3. {s[j] : j \in 1 .. n} = {s[j] : j \in 1 .. n - 1} \cup {s[n]}
    BY <2>2
  <2>4. /\ ToSet(K[n - 1]) = {s[j] : j \in 1 .. n - 1} \cap S
        /\ IsInjective(s) => IsInjective(K[n - 1])
    BY <1>3
  <2>5. CASE s[n] \notin S
    <3>1. K[n] = K[n - 1]
      BY <1>1, <2>5
    <3> QED
      BY <2>1, <2>3, <2>4, <2>5, <3>1
  <2>6. CASE s[n] \in S
    <3>1. K[n] = Append(K[n - 1], s[n])
      BY <1>1, <2>6
    <3>2. K[n - 1] \in Seq(T) /\ s[n] \in T
      BY <1>1, <2>1
    <3>3. /\ ToSet(K[n]) = ToSet(K[n - 1]) \cup {s[n]}
          /\ IsInjective(K[n - 1]) /\ s[n] \notin ToSet(K[n - 1]) => IsInjective(K[n])
      BY <3>1, <3>2, AppendFacts
    <3>4. IsInjective(s) => s[n] \notin {s[j] : j \in 1 .. n - 1}
      <4>1. \A j \in 1 .. n - 1 : j \in 1 .. len /\ j # n
        BY <1>1, <2>1
      <4> QED
        BY <1>1, <4>1 DEF IsInjective
    <3> QED
      BY <2>1, <2>3, <2>4, <2>6, <3>3, <3>4
  <2> QED
    BY <2>5, <2>6
<1>4. \A n \in 0 .. len : n \in N
  <2> HIDE DEF N
  <2> QED
    BY <1>1, <1>2, <1>3, UpTo
<1> QED
  BY <1>4

\* What has been kept stays where it is.
LEMMA KeptPrefix ==
    ASSUME NEW T, NEW s \in Seq(T), NEW S, NEW n \in 0 .. Len(s), NEW m \in n .. Len(s)
    PROVE  LET K == KeptUpTo(s, S)
           IN  Len(K[n]) <= Len(K[m]) /\ \A i \in 1 .. Len(K[n]) : K[m][i] = K[n][i]
<1> PICK K, len : K = KeptUpTo(s, S) /\ len = Len(s)
  OBVIOUS
<1>1. /\ len \in Nat /\ \A i \in 1 .. len : s[i] \in T
      /\ \A i \in 1 .. len : K[i] = IF s[i] \in S THEN Append(K[i - 1], s[i]) ELSE K[i - 1]
      /\ \A i \in 0 .. len : K[i] \in Seq(T) /\ Len(K[i]) \in Nat
  <2>1. /\ len \in Nat /\ \A i \in 1 .. len : s[i] \in T
        /\ \A i \in 1 .. len : K[i] = IF s[i] \in S THEN Append(K[i - 1], s[i]) ELSE K[i - 1]
        /\ \A i \in 0 .. len : K[i] \in Seq(T)
    BY KeptFacts, LenProperties, ElementOfSeq
  <2>2. \A i \in 0 .. len : Len(K[i]) \in Nat
    BY <2>1, LenProperties
  <2> QED
    BY <2>1, <2>2
<1> DEFINE P(j) == Len(K[n]) <= Len(K[j]) /\ \A i \in 1 .. Len(K[n]) : K[j][i] = K[n][i]
           N == {j \in 0 .. len : n <= j => P(j)}
<1>2. 0 \in N
  <2>1. 0 \in 0 .. len /\ (n <= 0 => n = 0)
    BY <1>1
  <2>2. P(n)
    BY <1>1
  <2> QED
    BY <2>1, <2>2
<1>3. ASSUME NEW j \in 1 .. len, j - 1 \in N
      PROVE  j \in N
  <2>1. j \in 0 .. len /\ j - 1 \in 0 .. len /\ (n <= j => n = j \/ n <= j - 1)
    BY <1>1
  <2>2. P(n)
    BY <1>1
  <2>3. ASSUME n <= j - 1
        PROVE  P(j)
    <3>1. P(j - 1)
      BY <1>3, <2>3
    <3>2. CASE s[j] \notin S
      BY <1>1, <3>1, <3>2
    <3>3. CASE s[j] \in S
      <4>1. K[j] = Append(K[j - 1], s[j]) /\ K[j - 1] \in Seq(T) /\ s[j] \in T
        BY <1>1, <2>1, <3>3
      <4>2. Len(K[j]) = Len(K[j - 1]) + 1 /\ \A i \in 1 .. Len(K[j - 1]) : K[j][i] = K[j - 1][i]
        BY <4>1, AppendFacts
      <4>3. Len(K[n]) \in Nat /\ Len(K[j - 1]) \in Nat /\ Len(K[n]) <= Len(K[j - 1])
        BY <1>1, <2>1, <3>1
      <4>4. Len(K[n]) <= Len(K[j])
        BY ONLY <4>2, <4>3
      <4>5. \A i \in 1 .. Len(K[n]) : i \in 1 .. Len(K[j - 1])
        BY ONLY <4>3
      <4> QED
        BY <3>1, <4>2, <4>4, <4>5
    <3> QED
      BY <3>2, <3>3
  <2> QED
    BY <2>1, <2>2, <2>3
<1>4. \A j \in 0 .. len : j \in N
  <2> HIDE DEF N
  <2> QED
    BY <1>1, <1>2, <1>3, UpTo
<1>5. m \in 0 .. len /\ n <= m
  BY <1>1
<1> QED
  BY <1>4, <1>5

\* It depends on the elements that have been passed only.
LEMMA KeptSame ==
    ASSUME NEW T, NEW s \in Seq(T), NEW t \in Seq(T), NEW S, NEW R,
           NEW n \in 0 .. Len(s), n <= Len(t),
           \A i \in 1 .. n : s[i] = t[i] /\ (s[i] \in S <=> s[i] \in R)
    PROVE  KeptUpTo(s, S)[n] = KeptUpTo(t, R)[n]
<1> PICK J, K : J = KeptUpTo(s, S) /\ K = KeptUpTo(t, R)
  OBVIOUS
<1>1. n \in Nat
  BY LenProperties
<1>2. /\ J[0] = <<>>
      /\ \A i \in 1 .. n : J[i] = IF s[i] \in S THEN Append(J[i - 1], s[i]) ELSE J[i - 1]
  <2>1. \A i \in 1 .. n : i \in 1 .. Len(s)
    BY <1>1, LenProperties
  <2> QED
    BY <2>1, KeptFacts
<1>3. /\ K[0] = <<>>
      /\ \A i \in 1 .. n : K[i] = IF t[i] \in R THEN Append(K[i - 1], t[i]) ELSE K[i - 1]
  <2>1. \A i \in 1 .. n : i \in 1 .. Len(t)
    BY <1>1, LenProperties
  <2> QED
    BY <2>1, KeptFacts
<1> DEFINE N == {i \in 0 .. n : J[i] = K[i]}
<1>4. 0 \in N
  BY <1>1, <1>2, <1>3
<1>5. ASSUME NEW i \in 1 .. n, i - 1 \in N
      PROVE  i \in N
  <2>1. i \in 0 .. n
    BY <1>1
  <2> QED
    BY <1>2, <1>3, <1>5, <2>1
<1>6. \A i \in 0 .. n : i \in N
  <2> HIDE DEF N
  <2> QED
    BY <1>1, <1>4, <1>5, UpTo
<1>7. n \in 0 .. n
  BY <1>1
<1> QED
  BY <1>6, <1>7

LEMMA KeptAll ==
    ASSUME NEW T, NEW s \in Seq(T), NEW S, ToSet(s) \subseteq S
    PROVE  Kept(s, S) = s
<1> PICK K, len : K = KeptUpTo(s, S) /\ len = Len(s)
  OBVIOUS
<1>1. /\ len \in Nat /\ \A i \in 1 .. len : s[i] \in T /\ s[i] \in S
      /\ K[0] = <<>>
      /\ \A i \in 1 .. len : K[i] = Append(K[i - 1], s[i])
      /\ \A i \in 0 .. len : K[i] \in Seq(T)
  <2>1. len \in Nat /\ DOMAIN s = 1 .. len /\ \A i \in 1 .. len : s[i] \in T
    BY LenProperties, ElementOfSeq
  <2>2. \A i \in 1 .. len : s[i] \in S
    BY <2>1 DEF ToSet
  <2>3. /\ K[0] = <<>>
        /\ \A i \in 1 .. len : K[i] = IF s[i] \in S THEN Append(K[i - 1], s[i]) ELSE K[i - 1]
        /\ \A i \in 0 .. len : K[i] \in Seq(T)
    <3>1. LET I == KeptUpTo(s, S)
          IN  /\ I[0] = <<>>
              /\ \A n \in 1 .. Len(s) : I[n] = IF s[n] \in S THEN Append(I[n - 1], s[n]) ELSE I[n - 1]
              /\ \A n \in 0 .. Len(s) : I[n] \in Seq(T)
      BY ONLY s \in Seq(T), KeptFacts
    <3> QED
      BY ONLY <3>1, len = Len(s), K = KeptUpTo(s, S)
  <2> QED
    BY <2>1, <2>2, <2>3
<1> DEFINE N == {n \in 0 .. len : Len(K[n]) = n /\ \A i \in 1 .. n : K[n][i] = s[i]}
<1>2. 0 \in N
  BY <1>1
<1>3. ASSUME NEW n \in 1 .. len, n - 1 \in N
      PROVE  n \in N
  <2>1. n \in 0 .. len /\ n - 1 \in 0 .. len /\ n - 1 + 1 = n
        /\ \A i \in 1 .. n : i = n \/ i \in 1 .. n - 1
    BY <1>1
  <2>2. K[n - 1] \in Seq(T) /\ s[n] \in T /\ K[n] = Append(K[n - 1], s[n])
    BY <1>1, <2>1
  <2>3. Len(K[n - 1]) = n - 1 /\ \A i \in 1 .. n - 1 : K[n - 1][i] = s[i]
    BY <1>3
  <2>4. /\ Len(K[n]) = Len(K[n - 1]) + 1 /\ K[n][Len(K[n - 1]) + 1] = s[n]
        /\ \A i \in 1 .. Len(K[n - 1]) : K[n][i] = K[n - 1][i]
    BY <2>2, AppendFacts
  <2>5. Len(K[n]) = n /\ K[n][n] = s[n] /\ \A i \in 1 .. n - 1 : K[n][i] = s[i]
    BY ONLY <2>1, <2>3, <2>4
  <2> QED
    BY <2>1, <2>5
<1>4. \A n \in 0 .. len : n \in N
  <2> HIDE DEF N
  <2> QED
    BY <1>1, <1>2, <1>3, UpTo
<1>5. K[len] \in Seq(T) /\ Len(K[len]) = len /\ \A i \in 1 .. len : K[len][i] = s[i]
  BY <1>1, <1>4
<1>6. K[len] = s
  BY <1>5, SeqEqual
<1> QED
  BY <1>6 DEF Kept

LEMMA KeptType ==
    ASSUME NEW T, NEW s \in Seq(T), NEW S
    PROVE  /\ Kept(s, S) \in Seq(T) /\ ToSet(Kept(s, S)) = ToSet(s) \cap S
           /\ IsInjective(s) => IsInjective(Kept(s, S))
<1>1. Len(s) \in 0 .. Len(s) /\ DOMAIN s = 1 .. Len(s)
  BY LenProperties
<1>2. KeptUpTo(s, S)[Len(s)] \in Seq(T)
  BY <1>1, KeptFacts
<1>3. /\ ToSet(KeptUpTo(s, S)[Len(s)]) = {s[j] : j \in 1 .. Len(s)} \cap S
      /\ IsInjective(s) => IsInjective(KeptUpTo(s, S)[Len(s)])
  BY <1>1, KeptElements
<1> QED
  BY <1>1, <1>2, <1>3 DEF Kept, ToSet

LEMMA KeptAgree ==
    ASSUME NEW T, NEW s \in Seq(T), NEW S, NEW R, \A v \in ToSet(s) : v \in S <=> v \in R
    PROVE  Kept(s, S) = Kept(s, R)
<1> PICK n : n = Len(s)
  OBVIOUS
<1>1. n \in Nat /\ DOMAIN s = 1 .. n
  BY LenProperties
<1>2. s \in Seq(T) /\ n \in 0 .. Len(s) /\ n <= Len(s)
  BY <1>1
<1>3. \A i \in 1 .. n : s[i] = s[i] /\ (s[i] \in S <=> s[i] \in R)
  BY <1>1 DEF ToSet
<1>4. KeptUpTo(s, S)[n] = KeptUpTo(s, R)[n]
  BY ONLY <1>2, <1>3, KeptSame
<1> QED
  BY <1>4 DEF Kept

LEMMA KeptAppend ==
    ASSUME NEW T, NEW s \in Seq(T), NEW S, NEW v \in T
    PROVE  Kept(Append(s, v), S) = IF v \in S THEN Append(Kept(s, S), v) ELSE Kept(s, S)
<1> PICK t, n : t = Append(s, v) /\ n = Len(s)
  OBVIOUS
<1>1. /\ n \in Nat /\ t \in Seq(T) /\ Len(t) = n + 1 /\ t[n + 1] = v
      /\ \A i \in 1 .. n : t[i] = s[i]
  BY LenProperties, AppendFacts
<1>2. n \in 0 .. n /\ n <= n + 1 /\ n + 1 \in 1 .. n + 1 /\ n + 1 - 1 = n
  BY <1>1
<1>3. n \in 0 .. Len(s) /\ n <= Len(t) /\ \A i \in 1 .. n : s[i] = t[i] /\ (s[i] \in S <=> s[i] \in S)
  BY <1>1, <1>2
<1>4. KeptUpTo(s, S)[n] = KeptUpTo(t, S)[n]
  <2>1. s \in Seq(T) /\ t \in Seq(T)
    BY <1>1
  <2> QED
    BY ONLY <1>3, <2>1, KeptSame
<1>5. \A i \in 1 .. Len(t) : KeptUpTo(t, S)[i] = IF t[i] \in S THEN Append(KeptUpTo(t, S)[i - 1], t[i])
                                                 ELSE KeptUpTo(t, S)[i - 1]
  <2>1. t \in Seq(T)
    BY <1>1
  <2> QED
    BY ONLY <2>1, KeptFacts
<1>6. KeptUpTo(t, S)[n + 1] = IF v \in S THEN Append(KeptUpTo(t, S)[n], v) ELSE KeptUpTo(t, S)[n]
  BY <1>1, <1>2, <1>5
<1> QED
  BY <1>1, <1>4, <1>6 DEF Kept

\* An element that goes: what is kept loses it, if it was there.
LEMMA KeptRemove ==
    ASSUME NEW T, NEW s \in Seq(T), NEW S, NEW k \in 1 .. Len(s)
    PROVE  IF s[k] \in S
           THEN \E p \in 1 .. Len(Kept(s, S)) :
                    Kept(s, S)[p] = s[k] /\ Kept(RemoveAt(s, k), S) = RemoveAt(Kept(s, S), p)
           ELSE Kept(RemoveAt(s, k), S) = Kept(s, S)
<1> PICK t, len, J, K, p : /\ t = RemoveAt(s, k) /\ len = Len(s)
                           /\ J = KeptUpTo(s, S) /\ K = KeptUpTo(t, S) /\ p = Len(J[k])
  OBVIOUS
<1>0. len \in Nat /\ k \in Nat /\ 1 <= k /\ k <= len
  BY LenProperties
<1>1. /\ \A n \in 1 .. len : s[n] \in T
      /\ \A n \in 1 .. len : J[n] = IF s[n] \in S THEN Append(J[n - 1], s[n]) ELSE J[n - 1]
      /\ \A n \in 0 .. len : J[n] \in Seq(T)
  BY KeptFacts, ElementOfSeq
<1>2. t \in Seq(T) /\ Len(t) = len - 1 /\ \A i \in 1 .. len - 1 : t[i] = IF i < k THEN s[i] ELSE s[i + 1]
  BY RemoveFacts
<1>3. \A n \in 1 .. len - 1 : K[n] = IF t[n] \in S THEN Append(K[n - 1], t[n]) ELSE K[n - 1]
  <2>1. t \in Seq(T)
    BY <1>2
  <2>2. \A n \in 1 .. Len(t) : K[n] = IF t[n] \in S THEN Append(K[n - 1], t[n]) ELSE K[n - 1]
    <3>1. LET I == KeptUpTo(t, S)
          IN  /\ I[0] = <<>>
              /\ \A n \in 1 .. Len(t) : I[n] = IF t[n] \in S THEN Append(I[n - 1], t[n]) ELSE I[n - 1]
              /\ \A n \in 0 .. Len(t) : I[n] \in Seq(T)
      BY ONLY <2>1, KeptFacts
    <3> QED
      BY ONLY <3>1, K = KeptUpTo(t, S)
  <2> QED
    BY <1>2, <2>2
<1>4. K[k - 1] = J[k - 1]
  <2> PICK m : m = k - 1
    OBVIOUS
  <2>0. m \in Nat /\ m <= len - 1 /\ m < k
    BY ONLY <1>0, m = k - 1
  <2>1. s \in Seq(T) /\ t \in Seq(T)
    BY <1>2
  <2>2. m \in 0 .. Len(s) /\ m <= Len(t)
    BY <1>0, <1>2, <2>0
  <2>3. \A i \in 1 .. m : s[i] = t[i] /\ (s[i] \in S <=> s[i] \in S)
    <3>1. \A i \in 1 .. m : i \in 1 .. len - 1 /\ i < k
      BY ONLY <1>0, <2>0
    <3> QED
      BY <1>2, <3>1
  <2>4. KeptUpTo(s, S)[m] = KeptUpTo(t, S)[m]
    BY ONLY <2>1, <2>2, <2>3, KeptSame
  <2> QED
    BY <2>4
<1> DEFINE P(n) == IF s[k] \in S
                   THEN p \in 1 .. Len(J[n]) /\ J[n][p] = s[k] /\ K[n - 1] = RemoveAt(J[n], p)
                   ELSE K[n - 1] = J[n]
           N == {n \in 0 .. len : k <= n => P(n)}
<1>5. 0 \in N
  BY <1>0
<1>6. P(k)
  <2>1. k \in 1 .. len /\ k - 1 \in 0 .. len
    BY <1>0
  <2>2. CASE s[k] \notin S
    BY <1>1, <1>4, <2>1, <2>2
  <2>3. CASE s[k] \in S
    <3> PICK u, e : u = J[k - 1] /\ e = s[k]
      OBVIOUS
    <3>1. u \in Seq(T) /\ e \in T /\ J[k] = Append(u, e)
      BY <1>1, <2>1, <2>3
    <3>2. Len(Append(u, e)) = Len(u) + 1 /\ Append(u, e)[Len(u) + 1] = e /\ Len(u) \in Nat
      BY <3>1, AppendFacts, LenProperties
    <3>3. RemoveAt(Append(u, e), Len(u) + 1) = u
      BY <3>1, RemoveOfAppend
    <3>4. p = Len(u) + 1 /\ Len(u) + 1 \in 1 .. Len(Append(u, e))
      BY <3>1, <3>2
    <3> QED
      BY <1>4, <2>3, <3>1, <3>2, <3>3, <3>4
  <2> QED
    BY <2>2, <2>3
<1>7. ASSUME NEW n \in 1 .. len, n - 1 \in N
      PROVE  n \in N
  <2>1. n \in 0 .. len /\ n - 1 \in 0 .. len /\ (k <= n => n = k \/ k <= n - 1)
    BY <1>0
  <2>2. ASSUME k <= n - 1
        PROVE  P(n)
    <3>1. P(n - 1)
      BY <1>7, <2>2
    <3> PICK u, e, m : u = J[n - 1] /\ e = s[n] /\ m = n - 1
      OBVIOUS
    <3>2. m \in 1 .. len - 1 /\ ~(m < k) /\ m + 1 = n /\ m \in 0 .. len /\ n \in 1 .. len
      BY <1>0, <2>2
    <3>3. t[m] = e /\ u \in Seq(T) /\ e \in T
      BY <1>1, <1>2, <3>2
    <3>4. K[m] = IF e \in S THEN Append(K[m - 1], e) ELSE K[m - 1]
      BY <1>3, <3>2, <3>3
    <3>5. J[n] = IF e \in S THEN Append(u, e) ELSE u
      BY <1>1, <3>2
    <3>6. CASE e \notin S
      BY <3>1, <3>4, <3>5, <3>6
    <3>7. CASE e \in S /\ s[k] \notin S
      BY <3>1, <3>4, <3>5, <3>7
    <3>8. CASE e \in S /\ s[k] \in S
      <4>1. p \in 1 .. Len(u) /\ u[p] = s[k] /\ K[m - 1] = RemoveAt(u, p)
        BY <3>1, <3>8
      <4>2. /\ Len(Append(u, e)) = Len(u) + 1 /\ \A i \in 1 .. Len(u) : Append(u, e)[i] = u[i]
            /\ Len(u) \in Nat
        BY <3>3, AppendFacts, LenProperties
      <4>3. RemoveAt(Append(u, e), p) = Append(RemoveAt(u, p), e)
        BY ONLY <3>3, <4>1, RemoveOfAppend
      <4>4. p \in 1 .. Len(Append(u, e))
        BY ONLY <4>1, <4>2
      <4>5. J[n] = Append(u, e) /\ K[n - 1] = Append(K[m - 1], e)
        BY <3>4, <3>5, <3>8
      <4> QED
        BY <3>8, <4>1, <4>2, <4>3, <4>4, <4>5
    <3> QED
      BY <3>6, <3>7, <3>8
  <2> HIDE DEF P
  <2> QED
    BY <1>6, <2>1, <2>2
<1>8. \A n \in 0 .. len : n \in N
  <2> HIDE DEF N
  <2> QED
    BY <1>0, <1>5, <1>7, UpTo
<1>9. P(len)
  <2>1. len \in 0 .. len
    BY <1>0
  <2> HIDE DEF P
  <2> QED
    BY <1>0, <1>8, <2>1
<1>10. Kept(s, S) = J[len] /\ Kept(RemoveAt(s, k), S) = K[len - 1]
  BY <1>2 DEF Kept
<1> QED
  BY <1>9, <1>10

\* The first m elements of what is kept leave the set.
LEMMA KeptDrop ==
    ASSUME NEW T, NEW s \in Seq(T), IsInjective(s), NEW S, NEW m \in 0 .. Len(Kept(s, S))
    PROVE  Kept(s, S \ {Kept(s, S)[i] : i \in 1 .. m}) = SubSeq(Kept(s, S), m + 1, Len(Kept(s, S)))
<1> PICK F, len, W, R, J, K : /\ F = Kept(s, S) /\ len = Len(s) /\ W = {F[i] : i \in 1 .. m} /\ R = S \ W
                              /\ J = KeptUpTo(s, S) /\ K = KeptUpTo(s, R)
  OBVIOUS
<1>1. /\ len \in Nat /\ \A n \in 1 .. len : s[n] \in T
      /\ J[0] = <<>> /\ K[0] = <<>>
      /\ \A n \in 1 .. len : J[n] = IF s[n] \in S THEN Append(J[n - 1], s[n]) ELSE J[n - 1]
      /\ \A n \in 1 .. len : K[n] = IF s[n] \in R THEN Append(K[n - 1], s[n]) ELSE K[n - 1]
      /\ \A n \in 0 .. len : J[n] \in Seq(T)
  <2>1. len \in Nat /\ \A n \in 1 .. len : s[n] \in T
    BY LenProperties, ElementOfSeq
  <2>2. /\ J[0] = <<>> /\ \A n \in 0 .. len : J[n] \in Seq(T)
        /\ \A n \in 1 .. len : J[n] = IF s[n] \in S THEN Append(J[n - 1], s[n]) ELSE J[n - 1]
    <3>1. LET I == KeptUpTo(s, S)
          IN  /\ I[0] = <<>>
              /\ \A n \in 1 .. Len(s) : I[n] = IF s[n] \in S THEN Append(I[n - 1], s[n]) ELSE I[n - 1]
              /\ \A n \in 0 .. Len(s) : I[n] \in Seq(T)
      BY ONLY s \in Seq(T), KeptFacts
    <3> QED
      BY ONLY <3>1, len = Len(s), J = KeptUpTo(s, S)
  <2>3. /\ K[0] = <<>>
        /\ \A n \in 1 .. len : K[n] = IF s[n] \in R THEN Append(K[n - 1], s[n]) ELSE K[n - 1]
    <3>1. LET I == KeptUpTo(s, R)
          IN  /\ I[0] = <<>>
              /\ \A n \in 1 .. Len(s) : I[n] = IF s[n] \in R THEN Append(I[n - 1], s[n]) ELSE I[n - 1]
              /\ \A n \in 0 .. Len(s) : I[n] \in Seq(T)
      BY ONLY s \in Seq(T), KeptFacts
    <3> QED
      BY ONLY <3>1, len = Len(s), K = KeptUpTo(s, R)
  <2> QED
    BY <2>1, <2>2, <2>3
<1>2. /\ F \in Seq(T) /\ F = J[len] /\ Len(F) \in Nat /\ DOMAIN F = 1 .. Len(F)
      /\ m \in Nat /\ m <= Len(F)
  <2>1. F \in Seq(T)
    BY KeptType
  <2>2. Len(F) \in Nat /\ DOMAIN F = 1 .. Len(F)
    BY <2>1, LenProperties
  <2> QED
    BY <2>1, <2>2 DEF Kept
<1>3. \A i, n \in 1 .. Len(F) : F[i] = F[n] => i = n
  <2>1. IsInjective(F)
    BY KeptType
  <2> QED
    BY <1>2, <2>1 DEF IsInjective
<1> DEFINE Dropped(u) == SubSeq(u, m + 1, Len(u))
           N == {n \in 0 .. len : K[n] = Dropped(J[n])}
<1>4. 0 \in N
  <2>1. 0 \in 0 .. len /\ Len(<<>>) = 0 /\ 0 \in Int /\ m + 1 \in Int /\ 0 < m + 1
    BY <1>1, <1>2
  <2>2. SubSeq(<<>>, m + 1, 0) = <<>>
    BY ONLY <2>1, SubSeqEmpty
  <2> QED
    BY <1>1, <2>1, <2>2
<1>5. ASSUME NEW n \in 1 .. len, n - 1 \in N
      PROVE  n \in N
  <2> PICK u, e, x : u = J[n - 1] /\ e = s[n] /\ x = Len(J[n - 1]) + 1
    OBVIOUS
  <2>1. n \in 0 .. len /\ n - 1 \in 0 .. len
    BY <1>1
  <2>2. u \in Seq(T) /\ e \in T /\ Len(u) \in Nat
    BY <1>1, <2>1, LenProperties
  <2>3. K[n - 1] = Dropped(u)
    BY <1>5
  <2>4. J[n] = IF e \in S THEN Append(u, e) ELSE u
    BY <1>1
  <2>5. K[n] = IF e \in R THEN Append(K[n - 1], e) ELSE K[n - 1]
    BY <1>1
  <2>6. CASE e \notin S
    BY <2>1, <2>3, <2>4, <2>5, <2>6
  <2>7. CASE e \in S
    <3> PICK w : w = Append(u, e)
      OBVIOUS
    <3>1. w \in Seq(T) /\ Len(w) = x /\ w[x] = e /\ x \in Nat /\ x = Len(u) + 1
      BY <2>2, AppendFacts
    <3>2. J[n] = w
      BY <2>4, <2>7
    <3>3. Len(w) <= Len(F) /\ \A i \in 1 .. Len(w) : F[i] = w[i]
      <4>1. n \in 0 .. Len(s) /\ len \in n .. Len(s)
        BY <1>1, <2>1
      <4>2. Len(J[n]) <= Len(J[len]) /\ \A i \in 1 .. Len(J[n]) : J[len][i] = J[n][i]
        BY ONLY s \in Seq(T), J = KeptUpTo(s, S), <4>1, KeptPrefix
      <4> QED
        BY <1>2, <3>2, <4>2
    <3>4. x \in 1 .. Len(F) /\ F[x] = e
      <4>1. x \in 1 .. Len(w)
        BY ONLY <3>1, <2>2
      <4>2. x \in 1 .. Len(F)
        BY ONLY <1>2, <3>1, <3>3, <2>2
      <4> QED
        BY <3>1, <3>3, <4>1, <4>2
    <3>5. e \in W <=> x <= m
      <4>1. ASSUME x <= m
            PROVE  e \in W
        <5>1. x \in 1 .. m
          BY ONLY <1>2, <2>2, <3>1, <4>1
        <5> QED
          BY <3>4, <5>1
      <4>2. ASSUME e \in W
            PROVE  x <= m
        <5>1. PICK i \in 1 .. m : F[i] = e
          BY <4>2
        <5>2. i \in 1 .. Len(F)
          BY ONLY <1>2, i \in 1 .. m
        <5>3. i = x
          BY <1>3, <3>4, <5>1, <5>2
        <5> QED
          BY <1>2, <5>3
      <4> QED
        BY <4>1, <4>2
    <3>6. CASE x <= m
      <4>1. Len(u) < m + 1 /\ Len(w) < m + 1 /\ m + 1 \in Int /\ Len(u) \in Int /\ Len(w) \in Int
        BY ONLY <1>2, <2>2, <3>1, <3>6
      <4>2. Dropped(u) = <<>> /\ Dropped(w) = <<>>
        <5>1. SubSeq(u, m + 1, Len(u)) = <<>>
          BY ONLY <4>1, SubSeqEmpty
        <5>2. SubSeq(w, m + 1, Len(w)) = <<>>
          BY ONLY <4>1, SubSeqEmpty
        <5> QED
          BY ONLY <5>1, <5>2
      <4> QED
        BY <2>1, <2>3, <2>5, <2>7, <3>2, <3>5, <3>6, <4>2
    <3>7. CASE ~(x <= m)
      <4>1. m \in 0 .. Len(u)
        BY ONLY <1>2, <2>2, <3>1, <3>7
      <4>2. Dropped(w) = Append(Dropped(u), e)
        BY ONLY <2>2, <4>1, DropOfAppend, w = Append(u, e)
      <4> QED
        BY <2>1, <2>3, <2>5, <2>7, <3>2, <3>5, <3>7, <4>2
    <3> QED
      BY <3>6, <3>7
  <2> QED
    BY <2>6, <2>7
<1>6. len \in N
  <2>1. len \in 0 .. len
    BY <1>1
  <2> HIDE DEF N
  <2> QED
    BY <1>1, <1>4, <1>5, <2>1, UpTo
<1>7. Kept(s, R) = K[len]
  BY DEF Kept
<1> QED
  BY <1>2, <1>6, <1>7

-----------------------------------------------------------------------------
(* Lists *)

\* s is linked from head to tail.
Linked(s, head, tail, links, back) ==
    /\ s \in Seq(VMs) /\ IsInjective(s)
    /\ head = IF s = <<>> THEN NoNode ELSE s[1]
    /\ tail = IF s = <<>> THEN NoNode ELSE s[Len(s)]
    /\ \A i \in 1 .. Len(s) : links[s[i]] = IF i = Len(s) THEN NoNode ELSE s[i + 1]
    /\ \A i \in 1 .. Len(s) : back[s[i]] = IF i = 1 THEN NoNode ELSE s[i - 1]

\* The walk along the links passes each node once, and ends before VMs run out.
LEMMA AlongIsKept ==
    ASSUME NEW s, NEW head, NEW tail, NEW links, NEW back, Linked(s, head, tail, links, back), NEW S
    PROVE  Along(head, links, S) = Kept(s, S)
<1> PICK len, C, K : len = Len(s) /\ C = Cardinality(VMs) /\ K = KeptUpTo(s, S)
  OBVIOUS
<1>1. /\ s \in Seq(VMs) /\ len \in Nat /\ DOMAIN s = 1 .. len /\ s \in [1 .. len -> VMs]
      /\ (s = <<>> <=> len = 0)
  BY LenProperties, EmptySeq DEF Linked
<1>2. C \in Nat /\ len <= C
  <2>1. s \in Injection(1 .. len, VMs)
    BY <1>1 DEF Linked, Injection
  <2>2. len = Cardinality(1 .. len)
    <3>1. 1 \in Int /\ len \in Int
      BY <1>1
    <3>2. Cardinality(1 .. len) = IF 1 > len THEN 0 ELSE len - 1 + 1
      BY ONLY <3>1, FS_Interval
    <3>3. len = IF 1 > len THEN 0 ELSE len - 1 + 1
      BY <1>1
    <3> QED
      BY <3>2, <3>3
  <2>3. Cardinality(1 .. len) <= C
    BY <2>1, FS_Injection, VMsAssumption
  <2> QED
    BY <2>2, <2>3, FS_CardinalityType, VMsAssumption
<1>3. /\ K[0] = <<>>
      /\ \A n \in 1 .. len : K[n] = IF s[n] \in S THEN Append(K[n - 1], s[n]) ELSE K[n - 1]
  BY <1>1, KeptFacts
<1> DEFINE Step(f, n) == IF n = 0 THEN [node |-> head, found |-> <<>>]
                         ELSE LET node == f[n - 1].node
                                  found == f[n - 1].found
                              IN  IF node = NoNode THEN f[n - 1]
                                  ELSE [node |-> links[node],
                                        found |-> IF node \in S THEN Append(found, node) ELSE found]
           from == CHOOSE f : f = [n \in 0 .. C |-> Step(f, n)]
           g == [n \in 0 .. C |-> [node |-> IF n < len THEN s[n + 1] ELSE NoNode,
                                   found |-> K[IF n < len THEN n ELSE len]]]
<1>4. Along(head, links, S) = from[C].found
  BY DEF Along
<1>5. ASSUME NEW n \in 0 .. C
      PROVE  g[n] = Step(g, n)
  <2>1. CASE n = 0
    <3>1. g[n] = [node |-> IF 0 < len THEN s[1] ELSE NoNode, found |-> K[0]]
      BY <1>1, <2>1
    <3>2. head = IF 0 < len THEN s[1] ELSE NoNode
      BY <1>1 DEF Linked
    <3> QED
      BY <1>3, <2>1, <3>1, <3>2
  <2>2. CASE n # 0
    <3> PICK m : m = n - 1
      OBVIOUS
    <3>1. m \in 0 .. C /\ n = m + 1 /\ m \in Nat
      BY <1>2, <2>2
    <3>2. g[m] = [node |-> IF m < len THEN s[n] ELSE NoNode, found |-> K[IF m < len THEN m ELSE len]]
      BY <3>1
    <3>3. g[n] = [node |-> IF n < len THEN s[n + 1] ELSE NoNode, found |-> K[IF n < len THEN n ELSE len]]
      OBVIOUS
    <3> PICK x, y : x = g[m] /\ y = g[n]
      OBVIOUS
    <3>4. Step(g, n) = IF x.node = NoNode THEN x
                       ELSE [node |-> links[x.node],
                             found |-> IF x.node \in S THEN Append(x.found, x.node) ELSE x.found]
      BY <2>2
    <3> HIDE DEF g, Step
    <3>5. CASE m < len
      <4>1. n \in 1 .. len /\ (n < len <=> n # len)
        BY ONLY <1>1, <3>1, <3>5
      <4>2. x = [node |-> s[n], found |-> K[m]]
        BY <3>2, <3>5
      <4>3. s[n] # NoNode
        BY <1>1, <4>1, NoNodeAssumption
      <4>4. links[s[n]] = IF n = len THEN NoNode ELSE s[n + 1]
        BY <4>1 DEF Linked
      <4>5. K[n] = IF s[n] \in S THEN Append(K[m], s[n]) ELSE K[m]
        BY <1>3, <4>1
      <4>6. y = [node |-> IF n = len THEN NoNode ELSE s[n + 1], found |-> K[n]]
        BY <3>3, <4>1
      <4>7. Step(g, n) = [node |-> links[s[n]],
                          found |-> IF s[n] \in S THEN Append(K[m], s[n]) ELSE K[m]]
        BY <3>4, <4>2, <4>3
      <4> QED
        BY <4>4, <4>5, <4>6, <4>7
    <3>6. CASE ~(m < len)
      <4>1. ~(n < len)
        BY ONLY <1>1, <3>1, <3>6
      <4> QED
        BY <3>2, <3>3, <3>4, <3>6, <4>1
    <3> QED
      BY <3>5, <3>6
  <2> QED
    BY <2>1, <2>2
<1>6. from = [n \in 0 .. C |-> Step(from, n)]
  <2>1. g = [n \in 0 .. C |-> Step(g, n)]
    BY <1>5
  <2> HIDE DEF g, Step
  <2>2. \E f : f = [n \in 0 .. C |-> Step(f, n)]
    BY <2>1
  <2> QED
    BY <2>2
<1> DEFINE N == {n \in 0 .. C : from[n] = g[n]}
<1>7. 0 \in N
  <2>1. 0 \in 0 .. C
    BY <1>2
  <2>2. from[0] = Step(from, 0) /\ g[0] = Step(g, 0)
    <3> HIDE DEF from, g, Step
    <3> QED
      BY <1>5, <1>6, <2>1
  <2>3. Step(from, 0) = Step(g, 0)
    OBVIOUS
  <2> QED
    BY <2>1, <2>2, <2>3
<1>8. ASSUME NEW n \in 1 .. C, n - 1 \in N
      PROVE  n \in N
  <2>1. n \in 0 .. C /\ n # 0
    BY <1>2
  <2>2. from[n] = Step(from, n) /\ g[n] = Step(g, n)
    <3> HIDE DEF from, g, Step
    <3> QED
      BY <1>5, <1>6, <2>1
  <2>3. from[n - 1] = g[n - 1]
    BY <1>8
  <2> HIDE DEF from, g
  <2>4. Step(from, n) = Step(g, n)
    BY <2>3
  <2> QED
    BY <2>1, <2>2, <2>4
<1>9. from[C] = g[C]
  <2>1. C \in 0 .. C
    BY <1>2
  <2> HIDE DEF N
  <2>2. C \in N
    BY <1>2, <1>7, <1>8, <2>1, UpTo
  <2> USE DEF N
  <2> HIDE DEF from, g
  <2> QED
    BY <2>2
<1>10. g[C].found = K[len]
  <2>1. C \in 0 .. C /\ ~(C < len)
    BY <1>1, <1>2
  <2> QED
    BY <2>1
<1> QED
  BY <1>4, <1>9, <1>10 DEF Kept

\* The links of nodes of other lists do not matter.
LEMMA LinkedFrame ==
    ASSUME NEW s, NEW head, NEW tail, NEW links, NEW back, Linked(s, head, tail, links, back),
           NEW links2, NEW back2, \A u \in ToSet(s) : links2[u] = links[u] /\ back2[u] = back[u]
    PROVE  Linked(s, head, tail, links2, back2)
<1>1. DOMAIN s = 1 .. Len(s)
  BY LenProperties DEF Linked
<1>2. \A i \in 1 .. Len(s) : links2[s[i]] = links[s[i]] /\ back2[s[i]] = back[s[i]]
  BY <1>1 DEF ToSet
<1> QED
  BY <1>2 DEF Linked

\* A list as a function on its indices.
LEMMA LinkedFacts ==
    ASSUME NEW s, NEW head, NEW tail, NEW links, NEW back, Linked(s, head, tail, links, back)
    PROVE  /\ Len(s) \in Nat /\ DOMAIN s = 1 .. Len(s)
           /\ \A i \in 1 .. Len(s) : s[i] \in VMs
           /\ \A i, j \in 1 .. Len(s) : s[i] = s[j] => i = j
           /\ s = <<>> <=> Len(s) = 0
<1>1. s \in Seq(VMs)
  BY DEF Linked
<1>2. Len(s) \in Nat /\ DOMAIN s = 1 .. Len(s) /\ (s = <<>> <=> Len(s) = 0)
  BY <1>1, LenProperties, EmptySeq
<1>3. \A i \in 1 .. Len(s) : s[i] \in VMs
  BY <1>1, ElementOfSeq
<1>4. \A i, j \in 1 .. Len(s) : s[i] = s[j] => i = j
  BY <1>2 DEF Linked, IsInjective
<1> QED
  BY <1>2, <1>3, <1>4

\* AddNode: a node without links becomes the tail.
LEMMA LinkedAppend ==
    ASSUME NEW s, NEW head, NEW tail, NEW links, NEW back, Linked(s, head, tail, links, back),
           links \in [VMs -> VMs \cup {NoNode}], back \in [VMs -> VMs \cup {NoNode}],
           NEW v \in VMs, v \notin ToSet(s), links[v] = NoNode, back[v] = NoNode
    PROVE  /\ head # NoNode => /\ tail \in ToSet(s)
                               /\ Linked(Append(s, v), head, v, [links EXCEPT ![tail] = v],
                                         [back EXCEPT ![v] = tail])
           /\ head = NoNode => Linked(Append(s, v), v, v, links, back)
<1> PICK t, n : t = Append(s, v) /\ n = Len(s)
  OBVIOUS
<1>1. /\ s \in Seq(VMs) /\ n \in Nat /\ DOMAIN s = 1 .. n
      /\ \A i \in 1 .. n : s[i] \in VMs
      /\ \A i, j \in 1 .. n : s[i] = s[j] => i = j
      /\ (s = <<>> <=> n = 0)
  <2>1. s \in Seq(VMs)
    BY DEF Linked
  <2> QED
    BY <2>1, LinkedFacts
<1>2. /\ t \in Seq(VMs) /\ Len(t) = n + 1 /\ t[n + 1] = v
      /\ \A i \in 1 .. n : t[i] = s[i]
      /\ IsInjective(t)
  <2>1. IsInjective(s)
    BY DEF Linked
  <2> QED
    BY <1>1, <2>1, AppendFacts
<1>3. t # <<>>
  BY <1>1, <1>2
<1>4. \A i \in 1 .. n : s[i] # v
  BY <1>1 DEF ToSet
<1>5. \A i \in 1 .. n + 1 : i = n + 1 \/ i \in 1 .. n
  BY <1>1
<1>6. ASSUME head # NoNode
      PROVE  /\ tail \in ToSet(s)
             /\ Linked(t, head, v, [links EXCEPT ![tail] = v], [back EXCEPT ![v] = tail])
  <2> DEFINE links2 == [links EXCEPT ![tail] = v]
             back2 == [back EXCEPT ![v] = tail]
  <2>1. n # 0 /\ head = s[1] /\ tail = s[n] /\ 1 \in 1 .. n /\ n \in 1 .. n
    BY <1>1, <1>6 DEF Linked
  <2>2. tail \in ToSet(s) /\ tail \in VMs /\ tail # v
    BY <1>1, <1>4, <2>1 DEF ToSet
  <2>3. /\ \A u \in VMs : links2[u] = IF u = tail THEN v ELSE links[u]
        /\ \A u \in VMs : back2[u] = IF u = v THEN tail ELSE back[u]
    BY <2>2
  <2> HIDE DEF links2, back2
  <2>4. head = t[1] /\ v = t[n + 1]
    BY <1>2, <2>1
  <2>5. ASSUME NEW i \in 1 .. n + 1
        PROVE  /\ links2[t[i]] = IF i = n + 1 THEN NoNode ELSE t[i + 1]
               /\ back2[t[i]] = IF i = 1 THEN NoNode ELSE t[i - 1]
    <3>1. CASE i = n + 1
      <4>1. links2[v] = NoNode /\ back2[v] = tail /\ i # 1 /\ i - 1 = n
        BY <1>1, <2>1, <2>2, <2>3, <3>1
      <4> QED
        BY <1>2, <2>1, <3>1, <4>1
    <3>2. CASE i = n /\ i # n + 1
      <4>1. links2[s[n]] = v /\ back2[s[n]] = back[s[n]]
        BY <1>1, <1>4, <2>1, <2>3
      <4>2. back[s[n]] = IF n = 1 THEN NoNode ELSE s[n - 1]
        BY <2>1 DEF Linked
      <4>3. n # 1 => t[n - 1] = s[n - 1]
        <5>1. n # 1 => n - 1 \in 1 .. n
          BY <1>1, <2>1
        <5> QED
          BY <1>2, <5>1
      <4> QED
        BY <1>2, <2>1, <3>2, <4>1, <4>2, <4>3
    <3>3. CASE i # n /\ i # n + 1
      <4>1. i \in 1 .. n /\ i + 1 \in 1 .. n
        BY <1>1, <3>3
      <4>2. s[i] # s[n] /\ s[i] # v /\ s[i] \in VMs
        BY <1>1, <1>4, <2>1, <3>3, <4>1
      <4>3. links2[s[i]] = s[i + 1]
        BY <2>1, <2>3, <3>3, <4>1, <4>2 DEF Linked
      <4>4. back2[s[i]] = IF i = 1 THEN NoNode ELSE s[i - 1]
        BY <2>3, <4>1, <4>2 DEF Linked
      <4>5. i # 1 => t[i - 1] = s[i - 1]
        <5>1. i # 1 => i - 1 \in 1 .. n
          BY <1>1, <4>1
        <5> QED
          BY <1>2, <5>1
      <4> QED
        BY <1>2, <3>3, <4>1, <4>3, <4>4, <4>5
    <3> QED
      BY <3>1, <3>2, <3>3
  <2>6. Linked(t, head, v, links2, back2)
    BY <1>2, <1>3, <2>4, <2>5 DEF Linked
  <2> QED
    BY <2>2, <2>6 DEF links2, back2
<1>7. ASSUME head = NoNode
      PROVE  Linked(t, v, v, links, back)
  <2>1. n = 0
    <3>1. s # <<>> => s[1] \in VMs
      BY <1>1
    <3> QED
      BY <1>1, <1>7, <3>1, NoNodeAssumption DEF Linked
  <2>2. Len(t) = 1 /\ t[1] = v /\ \A i \in 1 .. 1 : i = 1
    BY <1>2, <2>1
  <2> QED
    BY <1>2, <1>3, <2>2 DEF Linked
<1> QED
  BY <1>6, <1>7

\* DeleteNode: the last node leaves no list, another one is bridged.
LEMMA LinkedRemove ==
    ASSUME NEW s, NEW head, NEW tail, NEW links, NEW back, Linked(s, head, tail, links, back),
           NEW k \in 1 .. Len(s), NEW v, v = s[k], NEW p, p = back[v], NEW n, n = links[v],
           NEW links2, NEW back2,
           \A u \in VMs : links2[u] = IF u = v THEN NoNode
                                      ELSE IF u = p /\ head # v THEN n ELSE links[u],
           \A u \in VMs : back2[u] = IF u = v THEN NoNode
                                     ELSE IF u = n /\ tail # v THEN p ELSE back[u]
    PROVE  /\ head = v /\ tail = v => RemoveAt(s, k) = <<>> /\ n = NoNode /\ p = NoNode
           /\ ~(head = v /\ tail = v) =>
                Linked(RemoveAt(s, k), IF head = v THEN n ELSE head, IF tail = v THEN p ELSE tail,
                       links2, back2)
           /\ p \in ToSet(s) \cup {NoNode} /\ n \in ToSet(s) \cup {NoNode}
<1> PICK r, len : r = RemoveAt(s, k) /\ len = Len(s)
  OBVIOUS
<1>1. /\ s \in Seq(VMs) /\ len \in Nat /\ DOMAIN s = 1 .. len
      /\ \A i \in 1 .. len : s[i] \in VMs
      /\ \A i, j \in 1 .. len : s[i] = s[j] => i = j
  <2>1. s \in Seq(VMs)
    BY DEF Linked
  <2> QED
    BY <2>1, LinkedFacts
<1>2. len \in Nat /\ k \in Nat /\ 1 <= k /\ k <= len /\ k \in 1 .. len /\ 1 \in 1 .. len /\ len \in 1 .. len
  BY <1>1
<1>3. /\ r \in Seq(VMs) /\ Len(r) = len - 1
      /\ \A i \in 1 .. len - 1 : r[i] = IF i < k THEN s[i] ELSE s[i + 1]
  BY <1>1, RemoveFacts
<1>4. head = s[1] /\ tail = s[len] /\ (head = v <=> k = 1) /\ (tail = v <=> k = len)
  <2>1. s # <<>>
    BY <1>2, EmptySeq
  <2>2. head = s[1] /\ tail = s[len]
    BY <2>1 DEF Linked
  <2> QED
    BY <1>1, <1>2, <2>2
<1>5. /\ \A i \in 1 .. len : links[s[i]] = IF i = len THEN NoNode ELSE s[i + 1]
      /\ \A i \in 1 .. len : back[s[i]] = IF i = 1 THEN NoNode ELSE s[i - 1]
  BY DEF Linked
<1>6. /\ n = IF k = len THEN NoNode ELSE s[k + 1]
      /\ p = IF k = 1 THEN NoNode ELSE s[k - 1]
      /\ k # len => k + 1 \in 1 .. len
      /\ k # 1 => k - 1 \in 1 .. len
  <2>1. (k # len => k + 1 \in 1 .. len) /\ (k # 1 => k - 1 \in 1 .. len)
    BY ONLY <1>2
  <2> QED
    BY <1>2, <1>5, <2>1
<1>7. p \in ToSet(s) \cup {NoNode} /\ n \in ToSet(s) \cup {NoNode}
  BY <1>1, <1>6 DEF ToSet
<1>8. ASSUME head = v, tail = v
      PROVE  r = <<>> /\ n = NoNode /\ p = NoNode
  <2>1. k = 1 /\ k = len
    BY <1>4, <1>8
  <2>2. Len(r) = 0
    <3>1. len - 1 = 0
      BY ONLY <1>2, <2>1
    <3> QED
      BY <1>3, <3>1
  <2> QED
    BY <1>3, <1>6, <2>1, <2>2, EmptySeq
<1>9. ASSUME ~(head = v /\ tail = v)
      PROVE  Linked(r, IF head = v THEN n ELSE head, IF tail = v THEN p ELSE tail, links2, back2)
  <2>1. ~(k = 1 /\ k = len) /\ len - 1 \in Nat /\ 1 <= len - 1
    BY <1>2, <1>4, <1>9
  <2>2. r # <<>>
    BY <1>3, <2>1
  <2>3. IsInjective(r)
    <3>1. DOMAIN r = 1 .. len - 1
      BY <1>3, LenProperties
    <3>2. ASSUME NEW i \in 1 .. len - 1, NEW j \in 1 .. len - 1, r[i] = r[j]
          PROVE  i = j
      <4> PICK a, b : a = (IF i < k THEN i ELSE i + 1) /\ b = (IF j < k THEN j ELSE j + 1)
        OBVIOUS
      <4>1. a \in 1 .. len /\ b \in 1 .. len /\ (a = b => i = j)
        BY ONLY <1>2, a = (IF i < k THEN i ELSE i + 1), b = (IF j < k THEN j ELSE j + 1),
                i \in 1 .. len - 1, j \in 1 .. len - 1
      <4>2. r[i] = s[a] /\ r[j] = s[b]
        BY <1>3
      <4>3. s[a] = s[b]
        BY <3>2, <4>2
      <4>4. a = b
        BY <1>1, <4>1, <4>3
      <4> QED
        BY <4>1, <4>4
    <3> QED
      BY <3>1, <3>2 DEF IsInjective
  <2>4. (IF head = v THEN n ELSE head) = r[1]
    <3>1. 1 \in 1 .. len - 1
      BY ONLY <2>1
    <3>2. CASE k = 1
      <4>1. r[1] = s[2] /\ k + 1 = 2 /\ k # len
        BY <1>3, <2>1, <3>1, <3>2
      <4> QED
        BY <1>4, <1>6, <3>2, <4>1
    <3>3. CASE k # 1
      <4>1. 1 < k
        BY ONLY <1>2, <3>3
      <4> QED
        BY <1>3, <1>4, <3>1, <3>3, <4>1
    <3> QED
      BY <3>2, <3>3
  <2>5. (IF tail = v THEN p ELSE tail) = r[len - 1]
    <3>1. len - 1 \in 1 .. len - 1
      BY ONLY <2>1
    <3>2. CASE k = len
      <4>1. len - 1 < k /\ k # 1
        BY ONLY <1>2, <2>1, <3>2
      <4>2. r[len - 1] = s[len - 1]
        BY <1>3, <3>1, <4>1
      <4> QED
        BY <1>4, <1>6, <3>2, <4>1, <4>2
    <3>3. CASE k # len
      <4>1. ~(len - 1 < k) /\ len - 1 + 1 = len
        BY ONLY <1>2, <3>3
      <4> QED
        BY <1>3, <1>4, <3>1, <3>3, <4>1
    <3> QED
      BY <3>2, <3>3
  <2>6. ASSUME NEW i \in 1 .. len - 1
        PROVE  links2[r[i]] = IF i = len - 1 THEN NoNode ELSE r[i + 1]
    <3>1. CASE i < k
      <4>1. i \in 1 .. len /\ i # k /\ i # len /\ (i = k - 1 => k # 1)
            /\ (i # len - 1 => i + 1 \in 1 .. len - 1) /\ (i + 1 < k <=> i # k - 1)
            /\ (i = k - 1 /\ k # len => i # len - 1)
        BY ONLY <1>2, <3>1, i \in 1 .. len - 1
      <4>2. r[i] = s[i] /\ s[i] \in VMs /\ s[i] # v
        BY <1>1, <1>2, <1>3, <3>1, <4>1
      <4>3. s[i] = p /\ head # v <=> i = k - 1
        <5>1. CASE k = 1
          BY <1>4, <4>1, <5>1
        <5>2. CASE k # 1
          <6>1. k - 1 \in 1 .. len /\ p = s[k - 1]
            BY <1>6, <5>2
          <6> QED
            BY <1>1, <1>4, <4>1, <5>2, <6>1
        <5> QED
          BY <5>1, <5>2
      <4>4. links2[s[i]] = IF i = k - 1 THEN n ELSE s[i + 1]
        BY <1>5, <4>1, <4>2, <4>3
      <4>5. CASE i = k - 1
        <5>1. i + 1 = k /\ (k = len <=> i = len - 1) /\ ~(k < k)
          BY ONLY <1>2, <4>5
        <5>2. k # len => r[k] = s[k + 1]
          <6>1. k # len => k \in 1 .. len - 1
            BY ONLY <1>2
          <6> QED
            BY <1>3, <5>1, <6>1
        <5> QED
          BY <1>6, <4>2, <4>4, <4>5, <5>1, <5>2
      <4>6. CASE i # k - 1
        <5>1. i # len - 1 /\ i + 1 \in 1 .. len - 1 /\ i + 1 < k
          BY ONLY <1>2, <3>1, <4>6, i \in 1 .. len - 1
        <5> QED
          BY <1>3, <4>2, <4>4, <4>6, <5>1
      <4> QED
        BY <4>5, <4>6
    <3>2. CASE ~(i < k)
      <4>1. i + 1 \in 1 .. len /\ i + 1 # k /\ i + 1 # k - 1 /\ (i + 1 = len <=> i = len - 1)
            /\ (i # len - 1 => i + 1 \in 1 .. len - 1 /\ ~(i + 1 < k))
        BY ONLY <1>2, <3>2, i \in 1 .. len - 1
      <4>2. r[i] = s[i + 1] /\ s[i + 1] \in VMs /\ s[i + 1] # v
        BY <1>1, <1>2, <1>3, <3>2, <4>1
      <4>3. ~(s[i + 1] = p /\ head # v)
        BY <1>1, <1>4, <1>6, <4>1
      <4>4. links2[s[i + 1]] = IF i + 1 = len THEN NoNode ELSE s[i + 1 + 1]
        BY <1>5, <4>1, <4>2, <4>3
      <4> QED
        BY <1>3, <4>1, <4>2, <4>4
    <3> QED
      BY <3>1, <3>2
  <2>7. ASSUME NEW i \in 1 .. len - 1
        PROVE  back2[r[i]] = IF i = 1 THEN NoNode ELSE r[i - 1]
    <3>1. CASE i < k
      <4>1. i \in 1 .. len /\ i # k /\ i # k + 1
            /\ (i # 1 => i - 1 \in 1 .. len - 1 /\ i - 1 < k)
        BY ONLY <1>2, <3>1, i \in 1 .. len - 1
      <4>2. r[i] = s[i] /\ s[i] \in VMs /\ s[i] # v
        BY <1>1, <1>2, <1>3, <3>1, <4>1
      <4>3. ~(s[i] = n /\ tail # v)
        BY <1>1, <1>4, <1>6, <4>1
      <4>4. back2[s[i]] = IF i = 1 THEN NoNode ELSE s[i - 1]
        BY <1>5, <4>1, <4>2, <4>3
      <4> QED
        BY <1>3, <4>1, <4>2, <4>4
    <3>2. CASE ~(i < k)
      <4>1. i + 1 \in 1 .. len /\ i + 1 # k /\ k # len /\ i + 1 # 1 /\ i + 1 - 1 = i
            /\ (i # 1 => i - 1 \in 1 .. len - 1) /\ (i # k => ~(i - 1 < k) /\ i # 1 /\ i - 1 + 1 = i)
        BY ONLY <1>2, <3>2, i \in 1 .. len - 1
      <4>2. r[i] = s[i + 1] /\ s[i + 1] \in VMs /\ s[i + 1] # v
        BY <1>1, <1>2, <1>3, <3>2, <4>1
      <4>3. n = s[k + 1] /\ tail # v /\ k + 1 \in 1 .. len
        BY <1>4, <1>6, <4>1
      <4>4. CASE i = k
        <5>1. back2[s[i + 1]] = p
          BY <4>2, <4>3, <4>4
        <5>2. k # 1 => k - 1 \in 1 .. len - 1 /\ k - 1 < k
          BY ONLY <1>2
        <5> QED
          BY <1>3, <1>6, <4>2, <4>4, <5>1, <5>2
      <4>5. CASE i # k
        <5>1. i + 1 # k + 1
          BY ONLY <1>2, <4>5, i \in 1 .. len - 1
        <5>2. s[i + 1] # n
          BY <1>1, <4>1, <4>3, <5>1
        <5>3. back2[s[i + 1]] = s[i]
          BY <1>5, <4>1, <4>2, <5>2
        <5> QED
          BY <1>3, <4>1, <4>2, <4>5, <5>3
      <4> QED
        BY <4>4, <4>5
    <3> QED
      BY <3>1, <3>2
  <2> QED
    BY <1>3, <2>2, <2>3, <2>4, <2>5, <2>6, <2>7 DEF Linked
<1> QED
  BY <1>7, <1>8, <1>9

\* The element goes, the others stay.
LEMMA RemoveElement ==
    ASSUME NEW s \in Seq(VMs), IsInjective(s), NEW k \in 1 .. Len(s)
    PROVE  ToSet(RemoveAt(s, k)) = ToSet(s) \ {s[k]}
<1> PICK r, len : r = RemoveAt(s, k) /\ len = Len(s)
  OBVIOUS
<1>1. len \in Nat /\ DOMAIN s = 1 .. len /\ \A i, j \in 1 .. len : s[i] = s[j] => i = j
  BY LenProperties DEF IsInjective
<1>2. r \in Seq(VMs) /\ Len(r) = len - 1 /\ \A i \in 1 .. len - 1 : r[i] = IF i < k THEN s[i] ELSE s[i + 1]
  BY RemoveFacts
<1>3. DOMAIN r = 1 .. len - 1
  BY <1>2, LenProperties
<1>4. len \in Nat /\ k \in 1 .. len
  BY <1>1
<1>5. ASSUME NEW i \in 1 .. len - 1
      PROVE  r[i] \in ToSet(s) \ {s[k]}
  <2> PICK a : a = IF i < k THEN i ELSE i + 1
    OBVIOUS
  <2>1. a \in 1 .. len /\ a # k
    BY ONLY <1>4, i \in 1 .. len - 1, a = IF i < k THEN i ELSE i + 1
  <2>2. r[i] = s[a]
    BY <1>2
  <2>3. s[a] # s[k]
    BY <1>1, <1>4, <2>1
  <2> QED
    BY <1>1, <2>1, <2>2, <2>3 DEF ToSet
<1>6. ASSUME NEW j \in 1 .. len, s[j] # s[k]
      PROVE  s[j] \in ToSet(r)
  <2> PICK i : i = IF j < k THEN j ELSE j - 1
    OBVIOUS
  <2>1. j # k
    BY <1>6
  <2>2. i \in 1 .. len - 1 /\ j = IF i < k THEN i ELSE i + 1
    BY ONLY <1>4, <2>1, j \in 1 .. len, i = IF j < k THEN j ELSE j - 1
  <2>3. r[i] = s[j]
    BY <1>2, <2>2
  <2> QED
    BY <1>3, <2>2, <2>3 DEF ToSet
<1>7. ToSet(r) \subseteq ToSet(s) \ {s[k]}
  BY <1>3, <1>5 DEF ToSet
<1>8. ToSet(s) \ {s[k]} \subseteq ToSet(r)
  BY <1>1, <1>6 DEF ToSet
<1> QED
  BY <1>7, <1>8

-----------------------------------------------------------------------------
(* The invariant *)

\* The VMs in a wait for location l.
Waiters(l) == {v \in VMs : Listed(v) /\ location[v] = l}

\* The nodes of s, linked in both directions, are the list of location l.
Is(s, l) == Linked(s, pHead[l], pTail[l], next, prev) /\ ToSet(s) = Waiters(l)
ListsInv == \A l \in Locations : \E s : Is(s, l)

\* A node outside of the lists has no links.
OutInv == \A v \in VMs : ~Listed(v) => next[v] = NoNode /\ prev[v] = NoNode

\* What the point at which a thread is in its wait says of its node.
WaitInv ==
    \A v \in VMs : pc[v] # "run" =>
        /\ location[v] \in Locations
        /\ pc[v] \in {"add", "sleep"} => waiting[v] = TRUE
        /\ expired[v] = TRUE => finite[v] = TRUE

Inv == TypeOK /\ ListsInv /\ OutInv /\ WaitInv

LEMMA InitInv == Init => Inv
<1> SUFFICES ASSUME Init
             PROVE  Inv
    OBVIOUS
<1>1. TypeOK
  BY NoNodeAssumption, MaxCallsAssumption DEF Init, TypeOK
<1>2. ASSUME NEW l \in Locations
      PROVE  Is(<<>>, l)
  <2>1. <<>> \in Seq(VMs) /\ Len(<<>>) = 0 /\ DOMAIN <<>> = 1 .. 0
    BY EmptySeq, LenProperties
  <2>2. ToSet(<<>>) = {} /\ IsInjective(<<>>)
    BY <2>1 DEF ToSet, IsInjective
  <2>3. Waiters(l) = {}
    BY DEF Init, Waiters, Listed
  <2>4. pHead[l] = NoNode /\ pTail[l] = NoNode
    BY DEF Init
  <2> QED
    BY <2>1, <2>2, <2>3, <2>4 DEF Is, Linked
<1>3. OutInv /\ WaitInv
  BY DEF Init, OutInv, WaitInv
<1> QED
  BY <1>1, <1>2, <1>3 DEF Inv, ListsInv

\* The walks of Signal and of the properties.
LEMMA Walks ==
    ASSUME NEW s, NEW l, Is(s, l)
    PROVE  Nodes(l) = s /\ Sleepers(l) = Kept(s, {v \in VMs : waiting[v]})
<1>1. Linked(s, pHead[l], pTail[l], next, prev)
  BY DEF Is
<1>2. Nodes(l) = Kept(s, VMs)
  BY <1>1, AlongIsKept DEF Nodes
<1>3. s \in Seq(VMs) /\ ToSet(s) \subseteq VMs
  <2>1. s \in Seq(VMs)
    BY <1>1 DEF Linked
  <2> QED
    BY <2>1, LenProperties, ElementOfSeq DEF ToSet
<1>4. Kept(s, VMs) = s
  BY <1>3, KeptAll
<1>5. Sleepers(l) = Kept(s, {v \in VMs : waiting[v]})
  BY <1>1, AlongIsKept DEF Sleepers
<1> QED
  BY <1>2, <1>4, <1>5

-----------------------------------------------------------------------------
(* What the steps do to the lists *)

\* The links, and who waits where, stay as they are.
LEMMA ListsStay ==
    ASSUME NEW l \in Locations, NEW s, Is(s, l), UNCHANGED listVars,
           \A v \in VMs : Listed(v)' <=> Listed(v), \A v \in VMs : Listed(v) => location'[v] = location[v]
    PROVE  Is(s, l)'
<1>1. Waiters(l)' = Waiters(l)
  BY DEF Waiters
<1> QED
  BY <1>1 DEF Is, listVars

\* DoWait: the node goes to the end of the list of its location.
LEMMA ListsGrow ==
    ASSUME Inv, NEW v \in VMs, DoWaitAdds(v), NEW l \in Locations, NEW s, Is(s, l)
    PROVE  /\ l = location[v] => Is(Append(s, v), l)'
           /\ l # location[v] => Is(s, l)'
           /\ OutInv'
<1>1. /\ pc[v] = "add" /\ location[v] \in Locations /\ location' = location
      /\ pc' = [pc EXCEPT ![v] = "sleep"] /\ pc \in [VMs -> {"run", "add", "sleep", "lock"}]
      /\ pHead \in [Locations -> VMs \cup {NoNode}] /\ pTail \in [Locations -> VMs \cup {NoNode}]
      /\ next \in [VMs -> VMs \cup {NoNode}] /\ prev \in [VMs -> VMs \cup {NoNode}]
  BY DEF Inv, TypeOK, WaitInv, DoWaitAdds, callVars
<1>2. next[v] = NoNode /\ prev[v] = NoNode
  BY <1>1 DEF Inv, OutInv, Listed
<1>3. Listed(v)' /\ ~Listed(v) /\ \A u \in VMs : u # v => (Listed(u)' <=> Listed(u))
  BY <1>1 DEF Listed
<1>4. \A m : Waiters(m)' = IF m = location[v] THEN Waiters(m) \cup {v} ELSE Waiters(m)
  BY <1>1, <1>3 DEF Waiters
<1>5. AddNode(v)
  BY DEF DoWaitAdds
<1> PICK m : m = location[v]
  OBVIOUS
<1>6. PICK t : Is(t, m)
  BY <1>1 DEF Inv, ListsInv
<1>7. v \notin ToSet(t) /\ v \notin ToSet(s)
  BY <1>3, <1>6 DEF Is, Waiters
<1>8. Linked(t, pHead[m], pTail[m], next, prev) /\ t \in Seq(VMs)
  BY <1>6 DEF Is, Linked
<1>9. /\ pHead[m] # NoNode => /\ pTail[m] \in ToSet(t)
                              /\ Linked(Append(t, v), pHead[m], v, [next EXCEPT ![pTail[m]] = v],
                                        [prev EXCEPT ![v] = pTail[m]])
      /\ pHead[m] = NoNode => Linked(Append(t, v), v, v, next, prev)
  BY <1>1, <1>2, <1>7, <1>8, LinkedAppend
<1>10. Linked(Append(t, v), pHead'[m], pTail'[m], next', prev')
  BY <1>1, <1>5, <1>9 DEF AddNode
<1>11. ToSet(Append(t, v)) = ToSet(t) \cup {v}
  BY <1>8, AppendFacts
<1>12. Is(Append(t, v), m)'
  BY <1>4, <1>6, <1>10, <1>11 DEF Is
<1>13. \A u \in VMs : u # v /\ u \notin ToSet(t) => next'[u] = next[u] /\ prev'[u] = prev[u]
  BY <1>1, <1>5, <1>9 DEF AddNode
<1>14. OutInv'
  <2> SUFFICES ASSUME NEW u \in VMs, ~Listed(u)'
               PROVE  next'[u] = NoNode /\ prev'[u] = NoNode
      BY DEF OutInv
  <2>1. u # v /\ ~Listed(u)
    BY <1>3
  <2>2. u \notin ToSet(t)
    BY <1>6, <2>1 DEF Is, Waiters
  <2> QED
    BY <1>13, <2>1, <2>2 DEF Inv, OutInv
<1>15. ASSUME l = location[v]
       PROVE  Is(Append(s, v), l)'
  <2>1. s = Nodes(l) /\ t = Nodes(l)
    BY <1>6, <1>15, Walks
  <2> QED
    BY <1>12, <1>15, <2>1
<1>16. ASSUME l # location[v]
       PROVE  Is(s, l)'
  <2>1. pHead'[l] = pHead[l] /\ pTail'[l] = pTail[l]
    BY <1>1, <1>5, <1>16 DEF AddNode
  <2>2. \A u \in ToSet(s) : u \in VMs /\ u # v /\ u \notin ToSet(t)
    BY <1>6, <1>7, <1>16 DEF Is, Waiters
  <2>3. Linked(s, pHead[l], pTail[l], next, prev)
    BY DEF Is
  <2>4. Linked(s, pHead[l], pTail[l], next', prev')
    BY <1>13, <2>2, <2>3, LinkedFrame
  <2> QED
    BY <1>4, <1>16, <2>1, <2>4 DEF Is
<1> QED
  BY <1>14, <1>15, <1>16

\* DoWait: the node leaves the list of its location, from wherever it is in it.
LEMMA ListsShrink ==
    ASSUME Inv, NEW v \in VMs, DoWaitLoop(v), ~(waiting[v] /\ ~expired[v]),
           NEW l \in Locations, NEW s, Is(s, l)
    PROVE  /\ l = location[v] => \E k \in 1 .. Len(s) : s[k] = v /\ Is(RemoveAt(s, k), l)'
           /\ l # location[v] => v \notin ToSet(s) /\ Is(s, l)'
           /\ OutInv'
<1>1. /\ pc[v] = "lock" /\ location[v] \in Locations /\ location' = location
      /\ pc' = [pc EXCEPT ![v] = "run"] /\ pc \in [VMs -> {"run", "add", "sleep", "lock"}]
      /\ pHead \in [Locations -> VMs \cup {NoNode}] /\ pTail \in [Locations -> VMs \cup {NoNode}]
      /\ next \in [VMs -> VMs \cup {NoNode}] /\ prev \in [VMs -> VMs \cup {NoNode}]
  BY DEF Inv, TypeOK, WaitInv, DoWaitLoop, callVars
<1>2. DeleteNode(v)
  BY DEF DoWaitLoop
<1>3. ~Listed(v)' /\ Listed(v) /\ \A u \in VMs : u # v => (Listed(u)' <=> Listed(u))
  BY <1>1 DEF Listed
<1>4. \A m : Waiters(m)' = IF m = location[v] THEN Waiters(m) \ {v} ELSE Waiters(m)
  BY <1>1, <1>3 DEF Waiters
<1> PICK m : m = location[v]
  OBVIOUS
<1>5. PICK t : Is(t, m)
  BY <1>1 DEF Inv, ListsInv
<1>6. Linked(t, pHead[m], pTail[m], next, prev) /\ t \in Seq(VMs) /\ IsInjective(t)
  BY <1>5 DEF Is, Linked
<1>7. PICK k \in 1 .. Len(t) : v = t[k]
  <2>1. v \in ToSet(t)
    BY <1>3, <1>5 DEF Is, Waiters
  <2> QED
    BY <1>6, <2>1, LenProperties DEF ToSet
<1> PICK p, n : p = prev[v] /\ n = next[v]
  OBVIOUS
<1> PICK links2, back2 :
        /\ links2 = [u \in VMs |-> IF u = v THEN NoNode
                                   ELSE IF u = p /\ pHead[m] # v THEN n ELSE next[u]]
        /\ back2 = [u \in VMs |-> IF u = v THEN NoNode
                                  ELSE IF u = n /\ pTail[m] # v THEN p ELSE prev[u]]
  OBVIOUS
<1>8. /\ pHead[m] = v /\ pTail[m] = v => RemoveAt(t, k) = <<>> /\ n = NoNode /\ p = NoNode
      /\ ~(pHead[m] = v /\ pTail[m] = v) =>
           Linked(RemoveAt(t, k), IF pHead[m] = v THEN n ELSE pHead[m],
                  IF pTail[m] = v THEN p ELSE pTail[m], links2, back2)
      /\ p \in ToSet(t) \cup {NoNode} /\ n \in ToSet(t) \cup {NoNode}
  <2>1. /\ \A u \in VMs : links2[u] = IF u = v THEN NoNode
                                      ELSE IF u = p /\ pHead[m] # v THEN n ELSE next[u]
        /\ \A u \in VMs : back2[u] = IF u = v THEN NoNode
                                     ELSE IF u = n /\ pTail[m] # v THEN p ELSE prev[u]
    OBVIOUS
  <2>2. p = prev[v] /\ n = next[v] /\ v = t[k] /\ k \in 1 .. Len(t)
    BY <1>7
  <2>3. Linked(t, pHead[m], pTail[m], next, prev)
    BY <1>6
  <2> QED
    BY ONLY <2>1, <2>2, <2>3, LinkedRemove
<1>9. CASE pHead[m] = v /\ pTail[m] = v
  <2>1. /\ pHead' = [pHead EXCEPT ![m] = NoNode] /\ pTail' = [pTail EXCEPT ![m] = NoNode]
        /\ next' = next /\ prev' = prev
    BY <1>2, <1>9 DEF DeleteNode
  <2>2. pHead'[m] = NoNode /\ pTail'[m] = NoNode
    BY <1>1, <2>1
  <2>3. ToSet(<<>>) = ToSet(t) \ {v} /\ RemoveAt(t, k) = <<>>
    BY <1>6, <1>7, <1>8, <1>9, RemoveElement
  <2>4. Linked(<<>>, NoNode, NoNode, next', prev')
    BY EmptySeq, LenProperties DEF Linked, IsInjective
  <2>5. Is(RemoveAt(t, k), m)'
    BY <1>4, <1>5, <2>2, <2>3, <2>4 DEF Is
  <2>6. Linked(s, pHead[l], pTail[l], next', prev')
    BY <2>1 DEF Is
  <2>7. l # m => pHead'[l] = pHead[l] /\ pTail'[l] = pTail[l]
    BY <1>1, <2>1
  <2>8. l # m => Is(s, l)' /\ v \notin ToSet(s)
    BY <1>4, <2>6, <2>7 DEF Is, Waiters
  <2>9. OutInv'
    BY <1>3, <1>8, <1>9, <2>1 DEF Inv, OutInv
  <2>10. s = Nodes(l) /\ t = Nodes(m)
    BY <1>5, Walks
  <2> QED
    BY <1>7, <2>5, <2>8, <2>9, <2>10
<1>10. CASE ~(pHead[m] = v /\ pTail[m] = v)
  <2>1. /\ pHead' = [pHead EXCEPT ![m] = IF @ = v THEN n ELSE @]
        /\ pTail' = [pTail EXCEPT ![m] = IF @ = v THEN p ELSE @]
        /\ next' = links2 /\ prev' = back2
    BY <1>2, <1>10 DEF DeleteNode
  <2>2. /\ pHead'[m] = (IF pHead[m] = v THEN n ELSE pHead[m])
        /\ pTail'[m] = (IF pTail[m] = v THEN p ELSE pTail[m])
    BY <1>1, <2>1
  <2>3. Linked(RemoveAt(t, k), pHead'[m], pTail'[m], next', prev')
    BY <1>8, <1>10, <2>1, <2>2
  <2>4. ToSet(RemoveAt(t, k)) = ToSet(t) \ {v}
    BY <1>6, <1>7, RemoveElement
  <2>5. Is(RemoveAt(t, k), m)'
    BY <1>4, <1>5, <2>3, <2>4 DEF Is
  <2>6. \A u \in VMs : u # v /\ u \notin ToSet(t) => next'[u] = next[u] /\ prev'[u] = prev[u]
    BY <1>8, <2>1, NoNodeAssumption
  <2>7. next'[v] = NoNode /\ prev'[v] = NoNode
    BY <2>1
  <2>8. l # m => v \notin ToSet(s) /\ \A u \in ToSet(s) : u \in VMs /\ u # v /\ u \notin ToSet(t)
    BY <1>5, <1>7 DEF Is, Waiters
  <2>9. l # m => Linked(s, pHead[l], pTail[l], next', prev')
    <3>1. Linked(s, pHead[l], pTail[l], next, prev)
      BY DEF Is
    <3>2. l # m => \A u \in ToSet(s) : next'[u] = next[u] /\ prev'[u] = prev[u]
      BY <2>6, <2>8
    <3> QED
      BY <3>1, <3>2, LinkedFrame
  <2>10. l # m => pHead'[l] = pHead[l] /\ pTail'[l] = pTail[l]
    BY <1>1, <2>1
  <2>11. l # m => Is(s, l)'
    BY <1>4, <2>9, <2>10 DEF Is
  <2>12. OutInv'
    <3> SUFFICES ASSUME NEW u \in VMs, ~Listed(u)', u # v
                 PROVE  next'[u] = NoNode /\ prev'[u] = NoNode
        BY <2>7 DEF OutInv
    <3>1. ~Listed(u) /\ u \notin ToSet(t)
      BY <1>3, <1>5 DEF Is, Waiters
    <3> QED
      BY <2>6, <3>1 DEF Inv, OutInv
  <2>13. s = Nodes(l) /\ t = Nodes(m)
    BY <1>5, Walks
  <2> QED
    BY <1>7, <2>5, <2>8, <2>11, <2>12, <2>13
<1> QED
  BY <1>9, <1>10

\* The others leave the lists alone.
LEMMA SameLists ==
    ASSUME Inv, UNCHANGED listVars, \A u \in VMs : Listed(u)' <=> Listed(u),
           \A u \in VMs : Listed(u) => location'[u] = location[u]
    PROVE  ListsInv' /\ OutInv'
<1>1. ListsInv'
  BY ListsStay DEF Inv, ListsInv
<1>2. OutInv'
  BY DEF Inv, OutInv, listVars
<1> QED
  BY <1>1, <1>2

\* A notify wakes sleepers of the list only.
Woken(l, n) == {Sleepers(l)[i] : i \in {j \in DOMAIN Sleepers(l) : j <= n}}

LEMMA WokenAreListed ==
    ASSUME Inv, NEW l \in Locations, NEW n
    PROVE  \A u \in Woken(l, n) : u \in VMs /\ Listed(u) /\ location[u] = l /\ waiting[u] = TRUE
<1>1. PICK s : Is(s, l)
  BY DEF Inv, ListsInv
<1>2. Sleepers(l) = Kept(s, {v \in VMs : waiting[v]})
  BY <1>1, Walks
<1>3. ToSet(Sleepers(l)) = ToSet(s) \cap {v \in VMs : waiting[v]}
  <2>1. s \in Seq(VMs)
    BY <1>1 DEF Is, Linked
  <2> QED
    BY <1>2, <2>1, KeptType
<1>4. Woken(l, n) \subseteq ToSet(Sleepers(l))
  BY DEF ToSet, Woken
<1>5. waiting \in [VMs -> BOOLEAN]
  BY DEF Inv, TypeOK
<1> QED
  BY <1>1, <1>3, <1>4, <1>5 DEF Is, Waiters

-----------------------------------------------------------------------------
(* Every step keeps the invariant *)

LEMMA StepKeepsType == Inv /\ [Next]_vars => TypeOK'
<1> SUFFICES ASSUME Inv, [Next]_vars
             PROVE  TypeOK'
    OBVIOUS
<1> USE DEF Inv, TypeOK, listVars, callVars
<1>1. CASE UNCHANGED vars
  BY <1>1 DEF vars
<1>2. ASSUME NEW v \in VMs, NEW l \in Locations, NEW x \in Values, Store(v, l, x)
      PROVE  TypeOK'
  BY <1>2 DEF Store
<1>3. ASSUME NEW v \in VMs, NEW l \in Locations, NEW x \in Values, NEW hasTimeout \in BOOLEAN,
             DoWait(v, l, x, hasTimeout)
      PROVE  TypeOK'
  <2>1. /\ calls' \in 0 .. MaxCalls /\ location' \in [VMs -> Locations \cup {NoNode}]
        /\ waiting' \in [VMs -> BOOLEAN] /\ finite' \in [VMs -> BOOLEAN]
        /\ expired' \in [VMs -> BOOLEAN] /\ UNCHANGED <<memory, listVars>>
    BY <1>3, MaxCallsAssumption DEF DoWait
  <2>2. /\ mutex' \in VMs \cup {Free} /\ pc' \in [VMs -> {"run", "add", "sleep", "lock"}]
        /\ \A u \in VMs : mutex' = u <=> pc'[u] = "add"
    BY <1>3, NoNodeAssumption DEF DoWait
  <2> QED
    BY <2>1, <2>2
<1>4. ASSUME NEW v \in VMs, DoWaitAdds(v)
      PROVE  TypeOK'
  <2>1. AddNode(v) /\ location[v] \in Locations
    BY <1>4 DEF DoWaitAdds, WaitInv
  <2>2. /\ pHead' \in [Locations -> VMs \cup {NoNode}] /\ pTail' \in [Locations -> VMs \cup {NoNode}]
        /\ next' \in [VMs -> VMs \cup {NoNode}] /\ prev' \in [VMs -> VMs \cup {NoNode}]
    BY <2>1 DEF AddNode
  <2>3. /\ mutex' \in VMs \cup {Free} /\ pc' \in [VMs -> {"run", "add", "sleep", "lock"}]
        /\ \A u \in VMs : mutex' = u <=> pc'[u] = "add"
    BY <1>4, NoNodeAssumption DEF DoWaitAdds
  <2>4. UNCHANGED <<memory, waiting, callVars, expired>>
    BY <1>4 DEF DoWaitAdds
  <2> QED
    BY <2>2, <2>3, <2>4
<1>5. ASSUME NEW v \in VMs, DoWaitZero(v)
      PROVE  TypeOK'
  <2>1. /\ mutex' \in VMs \cup {Free} /\ pc' \in [VMs -> {"run", "add", "sleep", "lock"}]
        /\ \A u \in VMs : mutex' = u <=> pc'[u] = "add"
    BY <1>5, NoNodeAssumption DEF DoWaitZero
  <2> QED
    BY <1>5, <2>1 DEF DoWaitZero
<1>6. ASSUME NEW v \in VMs, Expire(v)
      PROVE  TypeOK'
  <2>1. pc' \in [VMs -> {"run", "add", "sleep", "lock"}] /\ \A u \in VMs : mutex' = u <=> pc'[u] = "add"
    BY <1>6 DEF Expire
  <2> QED
    BY <1>6, <2>1 DEF Expire
<1>7. ASSUME NEW v \in VMs, SpuriousWakeup(v)
      PROVE  TypeOK'
  <2>1. pc' \in [VMs -> {"run", "add", "sleep", "lock"}] /\ \A u \in VMs : mutex' = u <=> pc'[u] = "add"
    BY <1>7 DEF SpuriousWakeup
  <2> QED
    BY <1>7, <2>1 DEF SpuriousWakeup
<1>8. ASSUME NEW v \in VMs, DoWaitLoop(v)
      PROVE  TypeOK'
  <2>1. pc' \in [VMs -> {"run", "add", "sleep", "lock"}] /\ \A u \in VMs : mutex' = u <=> pc'[u] = "add"
    BY <1>8 DEF DoWaitLoop
  <2>2. UNCHANGED <<memory, mutex, callVars, expired>> /\ waiting' \in [VMs -> BOOLEAN]
    BY <1>8 DEF DoWaitLoop
  <2>3. UNCHANGED listVars \/ DeleteNode(v)
    BY <1>8 DEF DoWaitLoop
  <2>4. /\ pHead' \in [Locations -> VMs \cup {NoNode}] /\ pTail' \in [Locations -> VMs \cup {NoNode}]
        /\ next' \in [VMs -> VMs \cup {NoNode}] /\ prev' \in [VMs -> VMs \cup {NoNode}]
    BY <2>3 DEF DeleteNode
  <2> QED
    BY <2>1, <2>2, <2>4
<1>9. ASSUME NEW v \in VMs, NEW l \in Locations, NEW wakeCount \in Counts, Signal(v, l, wakeCount)
      PROVE  TypeOK'
  <2>1. /\ calls < MaxCalls /\ calls' = calls + 1
        /\ waiting' = [u \in VMs |-> waiting[u] /\ u \notin Woken(l, wakeCount)]
        /\ pc' = [u \in VMs |-> IF u \in Woken(l, wakeCount) THEN "lock" ELSE pc[u]]
        /\ UNCHANGED <<memory, mutex, listVars, location, finite, expired>>
    BY <1>9 DEF Signal, Woken
  <2>2. \A u \in Woken(l, wakeCount) : Listed(u)
    BY WokenAreListed
  <2>3. /\ pc' \in [VMs -> {"run", "add", "sleep", "lock"}] /\ waiting' \in [VMs -> BOOLEAN]
        /\ calls' \in 0 .. MaxCalls
    BY <2>1, MaxCallsAssumption
  <2>4. \A u \in VMs : mutex' = u <=> pc'[u] = "add"
    BY <2>1, <2>2 DEF Listed
  <2> QED
    BY <2>1, <2>3, <2>4
<1> QED
  BY <1>1, <1>2, <1>3, <1>4, <1>5, <1>6, <1>7, <1>8, <1>9 DEF Next

LEMMA StepKeepsLists == Inv /\ [Next]_vars => ListsInv' /\ OutInv'
<1> SUFFICES ASSUME Inv, [Next]_vars
             PROVE  ListsInv' /\ OutInv'
    OBVIOUS
<1>0. pc \in [VMs -> {"run", "add", "sleep", "lock"}] /\ location \in [VMs -> Locations \cup {NoNode}]
  BY DEF Inv, TypeOK
<1>1. CASE UNCHANGED vars
  BY <1>1, SameLists DEF vars, callVars, Listed
<1>2. ASSUME NEW v \in VMs, NEW l \in Locations, NEW x \in Values, Store(v, l, x)
      PROVE  ListsInv' /\ OutInv'
  BY <1>2, SameLists DEF Store, callVars, Listed
<1>3. ASSUME NEW v \in VMs, NEW l \in Locations, NEW x \in Values, NEW hasTimeout \in BOOLEAN,
             DoWait(v, l, x, hasTimeout)
      PROVE  ListsInv' /\ OutInv'
  <2>1. pc[v] = "run" /\ location' = [location EXCEPT ![v] = l] /\ UNCHANGED listVars
    BY <1>3 DEF DoWait
  <2>2. pc' = pc \/ pc' = [pc EXCEPT ![v] = "add"]
    BY <1>3 DEF DoWait
  <2>3. \A u \in VMs : Listed(u)' <=> Listed(u)
    BY <1>0, <2>1, <2>2 DEF Listed
  <2>4. \A u \in VMs : Listed(u) => location'[u] = location[u]
    BY <1>0, <2>1 DEF Listed
  <2> QED
    BY <2>1, <2>3, <2>4, SameLists
<1>4. ASSUME NEW v \in VMs, DoWaitAdds(v)
      PROVE  ListsInv' /\ OutInv'
  <2>1. ASSUME NEW l \in Locations
        PROVE  \E s : Is(s, l)'
    <3>1. PICK s : Is(s, l)
      BY DEF Inv, ListsInv
    <3> QED
      BY <1>4, <3>1, ListsGrow
  <2>2. PICK l, s : l \in Locations /\ Is(s, l)
    <3>1. location[v] \in Locations
      BY <1>4 DEF DoWaitAdds, Inv, WaitInv
    <3> QED
      BY <3>1 DEF Inv, ListsInv
  <2>3. OutInv'
    BY <1>4, <2>2, ListsGrow
  <2> QED
    BY <2>1, <2>3 DEF ListsInv
<1>5. ASSUME NEW v \in VMs, DoWaitZero(v)
      PROVE  ListsInv' /\ OutInv'
  BY <1>0, <1>5, SameLists DEF DoWaitZero, callVars, Listed
<1>6. ASSUME NEW v \in VMs, Expire(v)
      PROVE  ListsInv' /\ OutInv'
  BY <1>0, <1>6, SameLists DEF Expire, callVars, Listed
<1>7. ASSUME NEW v \in VMs, SpuriousWakeup(v)
      PROVE  ListsInv' /\ OutInv'
  BY <1>0, <1>7, SameLists DEF SpuriousWakeup, callVars, Listed
<1>8. ASSUME NEW v \in VMs, DoWaitLoop(v)
      PROVE  ListsInv' /\ OutInv'
  <2>1. CASE waiting[v] /\ ~expired[v]
    BY <1>0, <1>8, <2>1, SameLists DEF DoWaitLoop, callVars, Listed
  <2>2. CASE ~(waiting[v] /\ ~expired[v])
    <3>1. ASSUME NEW l \in Locations
          PROVE  \E s : Is(s, l)'
      <4>1. PICK s : Is(s, l)
        BY DEF Inv, ListsInv
      <4> QED
        BY <1>8, <2>2, <4>1, ListsShrink
    <3>2. PICK l, s : l \in Locations /\ Is(s, l)
      <4>1. location[v] \in Locations
        BY <1>8 DEF DoWaitLoop, Inv, WaitInv
      <4> QED
        BY <4>1 DEF Inv, ListsInv
    <3>3. OutInv'
      BY <1>8, <2>2, <3>2, ListsShrink
    <3> QED
      BY <3>1, <3>3 DEF ListsInv
  <2> QED
    BY <2>1, <2>2
<1>9. ASSUME NEW v \in VMs, NEW l \in Locations, NEW wakeCount \in Counts, Signal(v, l, wakeCount)
      PROVE  ListsInv' /\ OutInv'
  <2>1. /\ pc' = [u \in VMs |-> IF u \in Woken(l, wakeCount) THEN "lock" ELSE pc[u]]
        /\ UNCHANGED <<listVars, location>>
    BY <1>9 DEF Signal, Woken
  <2>2. \A u \in Woken(l, wakeCount) : Listed(u)
    BY WokenAreListed
  <2>3. \A u \in VMs : Listed(u)' <=> Listed(u)
    BY <2>1, <2>2 DEF Listed
  <2> QED
    BY <2>1, <2>3, SameLists
<1> QED
  BY <1>1, <1>2, <1>3, <1>4, <1>5, <1>6, <1>7, <1>8, <1>9 DEF Next

LEMMA StepKeepsWaits == Inv /\ [Next]_vars => WaitInv'
<1> SUFFICES ASSUME Inv, [Next]_vars, NEW u \in VMs, pc'[u] # "run"
             PROVE  /\ location'[u] \in Locations
                    /\ pc'[u] \in {"add", "sleep"} => waiting'[u] = TRUE
                    /\ expired'[u] = TRUE => finite'[u] = TRUE
    BY DEF WaitInv
<1> DEFINE Goal == /\ location'[u] \in Locations
                   /\ pc'[u] \in {"add", "sleep"} => waiting'[u] = TRUE
                   /\ expired'[u] = TRUE => finite'[u] = TRUE
<1>0. /\ pc \in [VMs -> {"run", "add", "sleep", "lock"}] /\ location \in [VMs -> Locations \cup {NoNode}]
      /\ waiting \in [VMs -> BOOLEAN] /\ finite \in [VMs -> BOOLEAN] /\ expired \in [VMs -> BOOLEAN]
      /\ pc[u] # "run" => /\ location[u] \in Locations
                          /\ pc[u] \in {"add", "sleep"} => waiting[u] = TRUE
                          /\ expired[u] = TRUE => finite[u] = TRUE
  BY DEF Inv, TypeOK, WaitInv
<1>1. CASE UNCHANGED vars
  BY <1>0, <1>1 DEF vars, callVars
<1>2. ASSUME NEW v \in VMs, NEW l \in Locations, NEW x \in Values, Store(v, l, x)
      PROVE  Goal
  BY <1>0, <1>2 DEF Store, callVars
<1>3. ASSUME NEW v \in VMs, NEW l \in Locations, NEW x \in Values, NEW hasTimeout \in BOOLEAN,
             DoWait(v, l, x, hasTimeout)
      PROVE  Goal
  <2>1. /\ pc' = pc \/ pc' = [pc EXCEPT ![v] = "add"]
        /\ location' = [location EXCEPT ![v] = l] /\ waiting' = [waiting EXCEPT ![v] = TRUE]
        /\ finite' = [finite EXCEPT ![v] = hasTimeout] /\ expired' = [expired EXCEPT ![v] = FALSE]
    BY <1>3 DEF DoWait
  <2>2. CASE u = v
    BY <1>0, <2>1, <2>2
  <2>3. CASE u # v
    BY <1>0, <2>1, <2>3
  <2> QED
    BY <2>2, <2>3
<1>4. ASSUME NEW v \in VMs, DoWaitAdds(v)
      PROVE  Goal
  BY <1>0, <1>4 DEF DoWaitAdds, callVars
<1>5. ASSUME NEW v \in VMs, DoWaitZero(v)
      PROVE  Goal
  BY <1>0, <1>5 DEF DoWaitZero, callVars
<1>6. ASSUME NEW v \in VMs, Expire(v)
      PROVE  Goal
  BY <1>0, <1>6 DEF Expire, callVars
<1>7. ASSUME NEW v \in VMs, SpuriousWakeup(v)
      PROVE  Goal
  BY <1>0, <1>7 DEF SpuriousWakeup, callVars
<1>8. ASSUME NEW v \in VMs, DoWaitLoop(v)
      PROVE  Goal
  BY <1>0, <1>8 DEF DoWaitLoop, callVars
<1>9. ASSUME NEW v \in VMs, NEW l \in Locations, NEW wakeCount \in Counts, Signal(v, l, wakeCount)
      PROVE  Goal
  <2>1. /\ pc' = [w \in VMs |-> IF w \in Woken(l, wakeCount) THEN "lock" ELSE pc[w]]
        /\ waiting' = [w \in VMs |-> waiting[w] /\ w \notin Woken(l, wakeCount)]
        /\ UNCHANGED <<location, finite, expired>>
    BY <1>9 DEF Signal, Woken
  <2>2. \A w \in Woken(l, wakeCount) : Listed(w)
    BY WokenAreListed
  <2>3. CASE u \in Woken(l, wakeCount)
    BY <1>0, <2>1, <2>2, <2>3 DEF Listed
  <2>4. CASE u \notin Woken(l, wakeCount)
    BY <1>0, <2>1, <2>4
  <2> QED
    BY <2>3, <2>4
<1> QED
  BY <1>1, <1>2, <1>3, <1>4, <1>5, <1>6, <1>7, <1>8, <1>9 DEF Next

LEMMA StepKeepsInv == Inv /\ [Next]_vars => Inv'
BY StepKeepsType, StepKeepsLists, StepKeepsWaits DEF Inv

LEMMA InvHolds == Spec => []Inv
<1>1. Init => Inv
  BY InitInv
<1>2. Inv /\ [Next]_vars => Inv'
  BY StepKeepsInv
<1> QED
  BY <1>1, <1>2, PTL DEF Spec

-----------------------------------------------------------------------------
(* The lists *)

\* The heads, tails and links that AddNode and DeleteNode write make one list per location,
\* of the VMs in a wait there, in whatever order they enter and leave it: with any number
\* of VMs and locations, no walk of Signal is cut short, and no node is left linked when
\* its wait is over.
THEOREM ListsAreLinked == Spec => []ListIsLinked
<1>1. ASSUME Inv
      PROVE  ListIsLinked
  <2>1. ASSUME NEW l \in Locations
        PROVE  LET s == Nodes(l)
               IN  /\ ToSet(s) = {v \in VMs : Listed(v) /\ location[v] = l}
                   /\ IsInjective(s)
                   /\ \A i \in DOMAIN s : prev[s[i]] = IF i = 1 THEN NoNode ELSE s[i - 1]
                   /\ pTail[l] = IF s = <<>> THEN NoNode ELSE Last(s)
    <3>1. PICK s : Is(s, l)
      BY <1>1 DEF Inv, ListsInv
    <3>2. Nodes(l) = s
      BY <3>1, Walks
    <3>3. Linked(s, pHead[l], pTail[l], next, prev) /\ s \in Seq(VMs) /\ DOMAIN s = 1 .. Len(s)
      BY <3>1, LenProperties DEF Is, Linked
    <3> QED
      BY <3>1, <3>2, <3>3 DEF Is, Linked, Waiters, Last
  <2> QED
    BY <1>1, <2>1 DEF Inv, OutInv, ListIsLinked
<1> QED
  BY <1>1, InvHolds, PTL

-----------------------------------------------------------------------------
(* The queue *)

\* What the mapping makes of the variables.
Queues == [l \in Locations |-> Sleepers(l) \o Adding(l)]
States == [v \in VMs |->
             IF pc[v] = "run" THEN "running" ELSE IF waiting[v] THEN "asleep" ELSE "notified"]
Limits == [v \in VMs |-> finite[v] /\ pc[v] # "run"]

\* The VM that has compared location l and not yet added its node.
AddsTo(v, l) == pc[v] = "add" /\ location[v] = l

\* A walk along a list, with or without a VM that is about to join it.
LEMMA QueueOfList ==
    ASSUME NEW s, NEW head, NEW tail, NEW links, NEW back, Linked(s, head, tail, links, back), NEW S,
           NEW c
    PROVE  /\ c = <<>> => Along(head, links, S) \o c = Kept(s, S)
           /\ \A v \in VMs : c = <<v>> => Along(head, links, S) \o c = Append(Kept(s, S), v)
<1>1. Along(head, links, S) = Kept(s, S)
  BY AlongIsKept
<1>2. Kept(s, S) \in Seq(VMs)
  <2>1. s \in Seq(VMs)
    BY DEF Linked
  <2> QED
    BY <2>1, KeptType
<1>3. Kept(s, S) \o <<>> = Kept(s, S)
  BY <1>2, ConcatEmptySeq
<1>4. \A v \in VMs : Kept(s, S) \o <<v>> = Append(Kept(s, S), v)
  BY <1>2, AppendIsConcat
<1> QED
  BY <1>1, <1>3, <1>4

LEMMA QueueBefore ==
    ASSUME NEW l \in Locations, NEW s, Is(s, l)
    PROVE  /\ (\A v \in VMs : ~AddsTo(v, l)) =>
                  Queues[l] = Kept(s, {v \in VMs : waiting[v]})
           /\ \A v \in VMs : AddsTo(v, l) /\ (\A u \in VMs : u # v => ~AddsTo(u, l)) =>
                  Queues[l] = Append(Kept(s, {u \in VMs : waiting[u]}), v)
<1> PICK A, S : /\ A = {v \in VMs : pc[v] = "add" /\ location[v] = l}
                /\ S = {v \in VMs : waiting[v]}
  OBVIOUS
<1>1. A \in SUBSET VMs
  OBVIOUS
<1>2. Linked(s, pHead[l], pTail[l], next, prev)
  BY DEF Is
<1>3. /\ A = {} => Queues[l] = Kept(s, S)
      /\ \A v \in VMs : A = {v} => Queues[l] = Append(Kept(s, S), v)
  <2> PICK c : c = (IF A = {} THEN <<>> ELSE <<CHOOSE v \in A : TRUE>>)
    OBVIOUS
  <2>1. Queues[l] = Along(pHead[l], next, S) \o c
    BY DEF Queues, Sleepers, Adding
  <2>2. /\ c = <<>> => Along(pHead[l], next, S) \o c = Kept(s, S)
        /\ \A v \in VMs : c = <<v>> => Along(pHead[l], next, S) \o c = Append(Kept(s, S), v)
    BY ONLY <1>2, QueueOfList
  <2>3. (A = {} => c = <<>>) /\ \A v : A = {v} => c = <<v>>
    OBVIOUS
  <2> QED
    BY <2>1, <2>2, <2>3
<1>4. (\A v \in VMs : ~AddsTo(v, l)) => A = {}
  BY DEF AddsTo
<1>5. \A v \in VMs : AddsTo(v, l) /\ (\A u \in VMs : u # v => ~AddsTo(u, l)) => A = {v}
  BY DEF AddsTo
<1> QED
  BY <1>3, <1>4, <1>5

LEMMA QueueAfter ==
    ASSUME NEW l \in Locations, NEW s, Is(s, l)'
    PROVE  /\ (\A v \in VMs : ~AddsTo(v, l)') =>
                  Queues'[l] = Kept(s, {v \in VMs : waiting'[v]})
           /\ \A v \in VMs : AddsTo(v, l)' /\ (\A u \in VMs : u # v => ~AddsTo(u, l)') =>
                  Queues'[l] = Append(Kept(s, {u \in VMs : waiting'[u]}), v)
<1> PICK A, S : /\ A = {v \in VMs : pc'[v] = "add" /\ location'[v] = l}
                /\ S = {v \in VMs : waiting'[v]}
  OBVIOUS
<1>1. A \in SUBSET VMs
  OBVIOUS
<1>2. Linked(s, pHead'[l], pTail'[l], next', prev')
  BY DEF Is
<1>3. /\ A = {} => Queues'[l] = Kept(s, S)
      /\ \A v \in VMs : A = {v} => Queues'[l] = Append(Kept(s, S), v)
  <2> PICK c : c = (IF A = {} THEN <<>> ELSE <<CHOOSE v \in A : TRUE>>)
    OBVIOUS
  <2>1. Queues'[l] = Along(pHead'[l], next', S) \o c
    BY DEF Queues, Sleepers, Adding
  <2>2. /\ c = <<>> => Along(pHead'[l], next', S) \o c = Kept(s, S)
        /\ \A v \in VMs : c = <<v>> => Along(pHead'[l], next', S) \o c = Append(Kept(s, S), v)
    BY ONLY <1>2, QueueOfList
  <2>3. (A = {} => c = <<>>) /\ \A v : A = {v} => c = <<v>>
    OBVIOUS
  <2> QED
    BY <2>1, <2>2, <2>3
<1>4. (\A v \in VMs : ~AddsTo(v, l)') => A = {}
  BY DEF AddsTo
<1>5. \A v \in VMs : AddsTo(v, l)' /\ (\A u \in VMs : u # v => ~AddsTo(u, l)') => A = {v}
  BY DEF AddsTo
<1> QED
  BY <1>3, <1>4, <1>5

\* A step that leaves the lists, their sleepers and the comparisons alone leaves the queues alone.
LEMMA QueuesStay ==
    ASSUME Inv, UNCHANGED listVars, \A u \in VMs : Listed(u)' <=> Listed(u),
           \A u \in VMs : Listed(u) => location'[u] = location[u] /\ waiting'[u] = waiting[u],
           \A u \in VMs, m \in Locations : AddsTo(u, m)' <=> AddsTo(u, m)
    PROVE  Queues' = Queues
<1>1. ASSUME NEW l \in Locations
      PROVE  Queues'[l] = Queues[l]
  <2>1. PICK s : Is(s, l)
    BY DEF Inv, ListsInv
  <2>2. Is(s, l)'
    BY <2>1, ListsStay
  <2>3. Kept(s, {v \in VMs : waiting[v]}) = Kept(s, {v \in VMs : waiting'[v]})
    <3>1. s \in Seq(VMs) /\ \A v \in ToSet(s) : v \in VMs /\ waiting'[v] = waiting[v]
      BY <2>1 DEF Is, Linked, Waiters
    <3>2. \A v \in ToSet(s) : v \in {u \in VMs : waiting[u]} <=> v \in {u \in VMs : waiting'[u]}
      BY <3>1
    <3> QED
      BY <3>1, <3>2, KeptAgree
  <2>4. CASE \A v \in VMs : ~AddsTo(v, l)
    BY <2>1, <2>2, <2>3, <2>4, QueueBefore, QueueAfter
  <2>5. CASE \E v \in VMs : AddsTo(v, l)
    <3>1. PICK v \in VMs : AddsTo(v, l)
      BY <2>5
    <3>2. \A u \in VMs : u # v => ~AddsTo(u, l)
      BY <3>1 DEF AddsTo, Inv, TypeOK
    <3>3. Queues[l] = Append(Kept(s, {u \in VMs : waiting[u]}), v)
      BY <2>1, <3>1, <3>2, QueueBefore
    <3>4. AddsTo(v, l)' /\ \A u \in VMs : u # v => ~AddsTo(u, l)'
      BY <3>1, <3>2
    <3>5. Queues'[l] = Append(Kept(s, {u \in VMs : waiting'[u]}), v)
      BY <2>2, <3>4, QueueAfter
    <3> QED
      BY <2>3, <3>3, <3>5
  <2> QED
    BY <2>4, <2>5
<1> QED
  BY <1>1 DEF Queues

-----------------------------------------------------------------------------
(* Every step is one of the queue *)

\* Nobody is between the comparison and AddNode while the mutex is free.
LEMMA NobodyAdds ==
    ASSUME Inv, mutex = Free
    PROVE  \A u \in VMs, l \in Locations : ~AddsTo(u, l)
BY NoNodeAssumption DEF Inv, TypeOK, AddsTo

\* The comparison: the VM joins the queue with it.
LEMMA CompareJoins ==
    ASSUME Inv, NEW v \in VMs, NEW l \in Locations, NEW x \in Values, NEW hasTimeout \in BOOLEAN,
           DoWait(v, l, x, hasTimeout), memory[l] = x
    PROVE  Abstract!WaitSleeps(v, l, x, hasTimeout)
<1>1. /\ pc[v] = "run" /\ mutex = Free
      /\ location' = [location EXCEPT ![v] = l] /\ waiting' = [waiting EXCEPT ![v] = TRUE]
      /\ finite' = [finite EXCEPT ![v] = hasTimeout] /\ pc' = [pc EXCEPT ![v] = "add"]
      /\ UNCHANGED <<memory, listVars, reply>>
  BY DEF DoWait
<1>2. /\ pc \in [VMs -> {"run", "add", "sleep", "lock"}] /\ location \in [VMs -> Locations \cup {NoNode}]
      /\ waiting \in [VMs -> BOOLEAN] /\ finite \in [VMs -> BOOLEAN]
  BY DEF Inv, TypeOK
<1>3. \A u \in VMs, m \in Locations : ~AddsTo(u, m)
  BY <1>1, NobodyAdds
<1>4. \A u \in VMs, m \in Locations : AddsTo(u, m)' <=> u = v /\ m = l
  BY <1>1, <1>2, <1>3 DEF AddsTo
<1>5. \A u \in VMs : Listed(u)' <=> Listed(u)
  BY <1>1, <1>2 DEF Listed
<1>6. \A u \in VMs : Listed(u) => location'[u] = location[u] /\ waiting'[u] = waiting[u]
  BY <1>1, <1>2 DEF Listed
<1>7. ASSUME NEW m \in Locations
      PROVE  Queues'[m] = IF m = l THEN Append(Queues[l], v) ELSE Queues[m]
  <2>1. PICK s : Is(s, m)
    BY DEF Inv, ListsInv
  <2>2. Is(s, m)'
    BY <1>1, <1>5, <1>6, <2>1, ListsStay
  <2>3. Kept(s, {u \in VMs : waiting[u]}) = Kept(s, {u \in VMs : waiting'[u]})
    <3>1. s \in Seq(VMs) /\ \A u \in ToSet(s) : u \in VMs /\ waiting'[u] = waiting[u]
      BY <1>6, <2>1 DEF Is, Linked, Waiters
    <3>2. \A u \in ToSet(s) : u \in {w \in VMs : waiting[w]} <=> u \in {w \in VMs : waiting'[w]}
      BY <3>1
    <3> QED
      BY <3>1, <3>2, KeptAgree
  <2>4. Queues[m] = Kept(s, {u \in VMs : waiting[u]})
    BY <1>3, <2>1, QueueBefore
  <2>5. CASE m = l
    <3>1. AddsTo(v, m)' /\ \A u \in VMs : u # v => ~AddsTo(u, m)'
      BY <1>4, <2>5
    <3>2. Queues'[m] = Append(Kept(s, {u \in VMs : waiting'[u]}), v)
      BY <2>2, <3>1, QueueAfter
    <3> QED
      BY <2>3, <2>4, <2>5, <3>2
  <2>6. CASE m # l
    <3>1. \A u \in VMs : ~AddsTo(u, m)'
      BY <1>4, <2>6
    <3>2. Queues'[m] = Kept(s, {u \in VMs : waiting'[u]})
      BY <2>2, <3>1, QueueAfter
    <3> QED
      BY <2>3, <2>4, <2>6, <3>2
  <2> QED
    BY <2>5, <2>6
<1>8. Queues' = [Queues EXCEPT ![l] = Append(@, v)]
  BY <1>7 DEF Queues
<1>9. States[v] = "running" /\ States' = [States EXCEPT ![v] = "asleep"]
  BY <1>1, <1>2 DEF States
<1>10. Limits' = [Limits EXCEPT ![v] = hasTimeout]
  BY <1>1, <1>2 DEF Limits
<1>11. memory[l] = x /\ UNCHANGED <<memory, reply>>
  BY <1>1
<1> QED
  BY <1>8, <1>9, <1>10, <1>11 DEF Abstract!WaitSleeps, Queues, States, Limits

LEMMA CompareReturns ==
    ASSUME Inv, NEW v \in VMs, NEW l \in Locations, NEW x \in Values, NEW hasTimeout \in BOOLEAN,
           DoWait(v, l, x, hasTimeout), memory[l] # x
    PROVE  Abstract!WaitNotEqual(v, l, x)
<1>1. /\ pc[v] = "run" /\ mutex = Free
      /\ location' = [location EXCEPT ![v] = l] /\ waiting' = [waiting EXCEPT ![v] = TRUE]
      /\ finite' = [finite EXCEPT ![v] = hasTimeout]
      /\ reply' = <<v, "wait", "not-equal">> /\ UNCHANGED <<memory, listVars, pc>>
  BY DEF DoWait
<1>2. /\ pc \in [VMs -> {"run", "add", "sleep", "lock"}] /\ location \in [VMs -> Locations \cup {NoNode}]
      /\ waiting \in [VMs -> BOOLEAN] /\ finite \in [VMs -> BOOLEAN]
  BY DEF Inv, TypeOK
<1>3. \A u \in VMs, m \in Locations : AddsTo(u, m)' <=> AddsTo(u, m)
  BY <1>1, <1>2 DEF AddsTo
<1>4. \A u \in VMs : Listed(u)' <=> Listed(u)
  BY <1>1 DEF Listed
<1>5. \A u \in VMs : Listed(u) => location'[u] = location[u] /\ waiting'[u] = waiting[u]
  BY <1>1, <1>2 DEF Listed
<1>6. Queues' = Queues
  BY <1>1, <1>3, <1>4, <1>5, QueuesStay
<1>7. States[v] = "running" /\ States' = States
  BY <1>1, <1>2 DEF States
<1>8. Limits' = Limits
  BY <1>1, <1>2 DEF Limits
<1> QED
  BY <1>1, <1>6, <1>7, <1>8 DEF Abstract!WaitNotEqual, Queues, States, Limits

\* AddNode: the VM is in the queue already.
LEMMA AddStutters ==
    ASSUME Inv, NEW v \in VMs, DoWaitAdds(v)
    PROVE  Queues' = Queues /\ States' = States /\ Limits' = Limits
<1>1. /\ pc[v] = "add" /\ pc' = [pc EXCEPT ![v] = "sleep"]
      /\ UNCHANGED <<memory, waiting, location, finite, reply>>
  BY DEF DoWaitAdds, callVars
<1>2. /\ pc \in [VMs -> {"run", "add", "sleep", "lock"}] /\ location[v] \in Locations
      /\ waiting[v] = TRUE
  BY <1>1 DEF Inv, TypeOK, WaitInv
<1>3. \A u \in VMs : u # v => pc[u] # "add"
  BY <1>1 DEF Inv, TypeOK
<1>4. ASSUME NEW m \in Locations
      PROVE  Queues'[m] = Queues[m]
  <2>1. PICK s : Is(s, m)
    BY DEF Inv, ListsInv
  <2>2. \A u \in VMs : ~AddsTo(u, m)'
    BY <1>1, <1>2, <1>3 DEF AddsTo
  <2>3. {u \in VMs : waiting'[u]} = {u \in VMs : waiting[u]}
    BY <1>1
  <2>4. CASE m = location[v]
    <3>1. Is(Append(s, v), m)'
      BY <2>1, <2>4, ListsGrow
    <3>2. Queues'[m] = Kept(Append(s, v), {u \in VMs : waiting'[u]})
      BY <2>2, <3>1, QueueAfter
    <3>3. AddsTo(v, m) /\ \A u \in VMs : u # v => ~AddsTo(u, m)
      BY <1>1, <1>3, <2>4 DEF AddsTo
    <3>4. Queues[m] = Append(Kept(s, {u \in VMs : waiting[u]}), v)
      BY <2>1, <3>3, QueueBefore
    <3>5. s \in Seq(VMs) /\ v \in {u \in VMs : waiting[u]}
      BY <1>2, <2>1 DEF Is, Linked
    <3>6. Kept(Append(s, v), {u \in VMs : waiting[u]}) = Append(Kept(s, {u \in VMs : waiting[u]}), v)
      BY <3>5, KeptAppend
    <3> QED
      BY <2>3, <3>2, <3>4, <3>6
  <2>5. CASE m # location[v]
    <3>1. Is(s, m)'
      BY <2>1, <2>5, ListsGrow
    <3>2. Queues'[m] = Kept(s, {u \in VMs : waiting'[u]})
      BY <2>2, <3>1, QueueAfter
    <3>3. \A u \in VMs : ~AddsTo(u, m)
      BY <1>3, <2>5 DEF AddsTo
    <3>4. Queues[m] = Kept(s, {u \in VMs : waiting[u]})
      BY <2>1, <3>3, QueueBefore
    <3> QED
      BY <2>3, <3>2, <3>4
  <2> QED
    BY <2>4, <2>5
<1>5. Queues' = Queues
  BY <1>4 DEF Queues
<1>6. States' = States
  BY <1>1, <1>2 DEF States
<1>7. Limits' = Limits
  BY <1>1, <1>2 DEF Limits
<1> QED
  BY <1>5, <1>6, <1>7

\* A timeout of zero: the VM leaves the end of the queue.
LEMMA ZeroTimesOut ==
    ASSUME Inv, NEW v \in VMs, DoWaitZero(v)
    PROVE  Abstract!TimeOut(v)
<1>1. /\ pc[v] = "add" /\ finite[v]
      /\ waiting' = [waiting EXCEPT ![v] = FALSE] /\ pc' = [pc EXCEPT ![v] = "run"]
      /\ reply' = <<v, "wait", "timed-out">>
      /\ UNCHANGED <<memory, listVars, location, finite>>
  BY DEF DoWaitZero, callVars
<1>2. /\ pc \in [VMs -> {"run", "add", "sleep", "lock"}] /\ location[v] \in Locations
      /\ waiting \in [VMs -> BOOLEAN] /\ finite \in [VMs -> BOOLEAN] /\ waiting[v] = TRUE
  BY <1>1 DEF Inv, TypeOK, WaitInv
<1>3. \A u \in VMs : u # v => pc[u] # "add"
  BY <1>1 DEF Inv, TypeOK
<1>4. \A u \in VMs, m \in Locations : ~AddsTo(u, m)' /\ (AddsTo(u, m) <=> u = v /\ m = location[v])
  BY <1>1, <1>2, <1>3 DEF AddsTo
<1>5. \A u \in VMs : Listed(u)' <=> Listed(u)
  BY <1>1, <1>2 DEF Listed
<1>6. \A u \in VMs : Listed(u) => location'[u] = location[u] /\ waiting'[u] = waiting[u]
  BY <1>1, <1>2 DEF Listed
<1>7. ASSUME NEW m \in Locations
      PROVE  \E F \in Seq(VMs) : /\ Queues'[m] = F
                                 /\ Queues[m] = IF m = location[v] THEN Append(F, v) ELSE F
  <2>1. PICK s : Is(s, m)
    BY DEF Inv, ListsInv
  <2>2. Is(s, m)'
    BY <1>1, <1>5, <1>6, <2>1, ListsStay
  <2>3. s \in Seq(VMs) /\ \A u \in ToSet(s) : u \in VMs /\ waiting'[u] = waiting[u]
    BY <1>6, <2>1 DEF Is, Linked, Waiters
  <2>4. Kept(s, {u \in VMs : waiting[u]}) = Kept(s, {u \in VMs : waiting'[u]})
    <3>1. \A u \in ToSet(s) : u \in {w \in VMs : waiting[w]} <=> u \in {w \in VMs : waiting'[w]}
      BY <2>3
    <3> QED
      BY <2>3, <3>1, KeptAgree
  <2>5. Kept(s, {u \in VMs : waiting[u]}) \in Seq(VMs)
    BY <2>3, KeptType
  <2>6. Queues'[m] = Kept(s, {u \in VMs : waiting'[u]})
    BY <1>4, <2>2, QueueAfter
  <2>7. m = location[v] => Queues[m] = Append(Kept(s, {u \in VMs : waiting[u]}), v)
    BY <1>4, <2>1, QueueBefore
  <2>8. m # location[v] => Queues[m] = Kept(s, {u \in VMs : waiting[u]})
    BY <1>4, <2>1, QueueBefore
  <2> QED
    BY <2>4, <2>5, <2>6, <2>7, <2>8
<1> PICK m : m = location[v]
  OBVIOUS
<1>8. PICK F \in Seq(VMs) : Queues'[m] = F /\ Queues[m] = Append(F, v)
  BY <1>2, <1>7
<1>9. \A n \in Locations : n # m => Queues'[n] = Queues[n]
  BY <1>7
<1>10. RemoveAt(Queues[m], Len(F) + 1) = F
  BY <1>8, RemoveOfAppend
<1>11. Len(F) + 1 \in DOMAIN Queues[m] /\ Queues[m][Len(F) + 1] = v
  <2>1. Len(F) \in Nat
    BY LenProperties
  <2> QED
    BY <1>8, <2>1, AppendFacts
<1>12. Queues' = [Queues EXCEPT ![m] = RemoveAt(@, Len(F) + 1)]
  BY <1>8, <1>9, <1>10 DEF Queues
<1>13. \E l \in Locations : \E i \in DOMAIN Queues[l] :
           Queues[l][i] = v /\ Queues' = [Queues EXCEPT ![l] = RemoveAt(@, i)]
  BY <1>2, <1>11, <1>12
<1>14. States[v] = "asleep" /\ States' = [States EXCEPT ![v] = "running"]
  BY <1>1, <1>2 DEF States
<1>15. Limits[v] /\ Limits' = [Limits EXCEPT ![v] = FALSE]
  BY <1>1, <1>2 DEF Limits
<1> QED
  BY <1>1, <1>13, <1>14, <1>15
  DEF Abstract!TimeOut, Queues, States, Limits, RemoveAt, Abstract!RemoveAt

\* The end of a wait: a VM that was notified has left the queue, another one leaves it.
LEMMA LoopReturns ==
    ASSUME Inv, NEW v \in VMs, DoWaitLoop(v), ~(waiting[v] /\ ~expired[v])
    PROVE  Abstract!ReturnOk(v) \/ Abstract!TimeOut(v)
<1>1. /\ pc[v] = "lock" /\ mutex = Free
      /\ waiting' = [waiting EXCEPT ![v] = FALSE] /\ pc' = [pc EXCEPT ![v] = "run"]
      /\ reply' = <<v, "wait", IF waiting[v] THEN "timed-out" ELSE "ok">>
      /\ UNCHANGED <<memory, mutex, location, finite>>
  BY DEF DoWaitLoop, callVars
<1>2. /\ pc \in [VMs -> {"run", "add", "sleep", "lock"}] /\ location[v] \in Locations
      /\ waiting \in [VMs -> BOOLEAN] /\ finite \in [VMs -> BOOLEAN] /\ expired \in [VMs -> BOOLEAN]
      /\ expired[v] = TRUE => finite[v] = TRUE
  BY <1>1 DEF Inv, TypeOK, WaitInv
<1>3. \A u \in VMs, m \in Locations : ~AddsTo(u, m)
  BY <1>1, NobodyAdds
<1>4. \A u \in VMs, m \in Locations : ~AddsTo(u, m)'
  BY <1>1, <1>2, <1>3 DEF AddsTo
<1> PICK S, S2 : S = {u \in VMs : waiting[u]} /\ S2 = {u \in VMs : waiting'[u]}
  OBVIOUS
<1>5. S2 = S \ {v} /\ (v \in S <=> waiting[v] = TRUE)
  BY <1>1, <1>2
<1>6. ASSUME NEW m \in Locations, m # location[v]
      PROVE  Queues'[m] = Queues[m]
  <2>1. PICK s : Is(s, m)
    BY DEF Inv, ListsInv
  <2>2. Is(s, m)' /\ v \notin ToSet(s) /\ s \in Seq(VMs)
    <3>1. Is(s, m)' /\ v \notin ToSet(s)
      BY <1>6, <2>1, ListsShrink
    <3> QED
      BY <2>1, <3>1 DEF Is, Linked
  <2>3. \A u \in ToSet(s) : u \in S <=> u \in S2
    BY <1>5, <2>2
  <2>4. Kept(s, S) = Kept(s, S2)
    BY <2>2, <2>3, KeptAgree
  <2> QED
    BY <1>3, <1>4, <2>1, <2>2, <2>4, QueueBefore, QueueAfter
<1> PICK m : m = location[v]
  OBVIOUS
<1>7. PICK s : Is(s, m)
  BY <1>2 DEF Inv, ListsInv
<1>8. s \in Seq(VMs) /\ IsInjective(s)
  BY <1>7 DEF Is, Linked
<1>9. PICK k \in 1 .. Len(s) : s[k] = v /\ Is(RemoveAt(s, k), m)'
  BY <1>2, <1>7, ListsShrink
<1>10. Queues[m] = Kept(s, S)
  BY <1>2, <1>3, <1>7, QueueBefore
<1>11. Queues'[m] = Kept(RemoveAt(s, k), S2)
  BY <1>2, <1>4, <1>9, QueueAfter
<1>12. Kept(RemoveAt(s, k), S2) = Kept(RemoveAt(s, k), S)
  <2>1. ToSet(RemoveAt(s, k)) = ToSet(s) \ {v}
    BY <1>8, <1>9, RemoveElement
  <2>2. \A u \in ToSet(RemoveAt(s, k)) : u \in S2 <=> u \in S
    BY <1>5, <2>1
  <2>3. RemoveAt(s, k) \in Seq(VMs)
    BY <1>8, RemoveFacts
  <2> QED
    BY <2>2, <2>3, KeptAgree
<1>13. IF v \in S
       THEN \E p \in 1 .. Len(Kept(s, S)) :
                Kept(s, S)[p] = v /\ Kept(RemoveAt(s, k), S) = RemoveAt(Kept(s, S), p)
       ELSE Kept(RemoveAt(s, k), S) = Kept(s, S)
  <2>1. s \in Seq(VMs) /\ k \in 1 .. Len(s) /\ s[k] = v
    BY <1>8, <1>9
  <2> QED
    BY ONLY <2>1, KeptRemove
<1>14. States' = [States EXCEPT ![v] = "running"]
  BY <1>1, <1>2 DEF States
<1>15. Limits' = [Limits EXCEPT ![v] = FALSE]
  BY <1>1, <1>2 DEF Limits
<1>16. CASE waiting[v] = TRUE
  <2>1. PICK p \in 1 .. Len(Queues[m]) : Queues[m][p] = v /\ Queues'[m] = RemoveAt(Queues[m], p)
    BY <1>5, <1>10, <1>11, <1>12, <1>13, <1>16
  <2>2. DOMAIN Queues[m] = 1 .. Len(Queues[m])
    <3>1. Kept(s, S) \in Seq(VMs)
      BY <1>8, KeptType
    <3> QED
      BY <1>10, <3>1, LenProperties
  <2>3. Queues' = [Queues EXCEPT ![m] = RemoveAt(@, p)]
    BY <1>6, <2>1 DEF Queues
  <2>4. \E l \in Locations : \E i \in DOMAIN Queues[l] :
            Queues[l][i] = v /\ Queues' = [Queues EXCEPT ![l] = RemoveAt(@, i)]
    BY <1>2, <2>1, <2>2, <2>3
  <2>5. States[v] = "asleep"
    BY <1>1, <1>16 DEF States
  <2>6. Limits[v]
    BY <1>1, <1>2, <1>16 DEF Limits
  <2>7. reply' = <<v, "wait", "timed-out">> /\ UNCHANGED memory
    BY <1>1, <1>16
  <2> QED
    BY <1>14, <1>15, <2>4, <2>5, <2>6, <2>7
    DEF Abstract!TimeOut, Queues, States, Limits, RemoveAt, Abstract!RemoveAt
<1>17. CASE waiting[v] = FALSE
  <2>1. Queues'[m] = Queues[m]
    BY <1>5, <1>10, <1>11, <1>12, <1>13, <1>17
  <2>2. Queues' = Queues
    BY <1>6, <2>1 DEF Queues
  <2>3. States[v] = "notified"
    BY <1>1, <1>17 DEF States
  <2>4. reply' = <<v, "wait", "ok">> /\ UNCHANGED memory
    BY <1>1, <1>17
  <2> QED
    BY <1>14, <1>15, <2>2, <2>3, <2>4 DEF Abstract!ReturnOk, Queues, States, Limits
<1> QED
  BY <1>2, <1>16, <1>17

\* A notify takes the oldest sleepers out of the queue and counts them.
LEMMA SignalNotifies ==
    ASSUME Inv, NEW v \in VMs, NEW l \in Locations, NEW wakeCount \in Counts, Signal(v, l, wakeCount)
    PROVE  Abstract!Notify(v, l, wakeCount)
<1> PICK F, W : F = Queues[l] /\ W = Woken(l, wakeCount)
  OBVIOUS
<1>1. /\ pc[v] = "run" /\ mutex = Free
      /\ waiting' = [u \in VMs |-> waiting[u] /\ u \notin W]
      /\ pc' = [u \in VMs |-> IF u \in W THEN "lock" ELSE pc[u]]
      /\ reply' = <<v, "woken", Cardinality(W)>>
      /\ UNCHANGED <<memory, mutex, listVars, location, finite>>
  BY DEF Signal, Woken
<1>2. /\ pc \in [VMs -> {"run", "add", "sleep", "lock"}]
      /\ waiting \in [VMs -> BOOLEAN] /\ finite \in [VMs -> BOOLEAN]
  BY DEF Inv, TypeOK
<1>3. \A u \in W : u \in VMs /\ Listed(u) /\ location[u] = l /\ waiting[u] = TRUE
  BY WokenAreListed
<1>4. \A u \in VMs, m \in Locations : ~AddsTo(u, m)
  BY <1>1, NobodyAdds
<1>5. \A u \in VMs, m \in Locations : ~AddsTo(u, m)'
  BY <1>1, <1>2, <1>4 DEF AddsTo
<1>6. \A u \in VMs : Listed(u)' <=> Listed(u)
  BY <1>1, <1>3 DEF Listed
<1> PICK S, S2 : S = {u \in VMs : waiting[u]} /\ S2 = {u \in VMs : waiting'[u]}
  OBVIOUS
<1>7. S2 = S \ W
  BY <1>1
<1>8. PICK s : Is(s, l)
  BY DEF Inv, ListsInv
<1>9. s \in Seq(VMs) /\ IsInjective(s)
  BY <1>8 DEF Is, Linked
<1>10. F = Kept(s, S) /\ F = Sleepers(l)
  <2>1. \A u \in VMs : ~AddsTo(u, l)
    BY ONLY <1>4, l \in Locations
  <2>2. Queues[l] = Kept(s, {u \in VMs : waiting[u]})
    BY ONLY <1>8, <2>1, l \in Locations, QueueBefore
  <2>3. Sleepers(l) = Kept(s, {u \in VMs : waiting[u]})
    BY ONLY <1>8, Walks
  <2> QED
    BY ONLY <2>2, <2>3, F = Queues[l], S = {u \in VMs : waiting[u]}
<1>11. F \in Seq(VMs) /\ IsInjective(F) /\ Len(F) \in Nat /\ DOMAIN F = 1 .. Len(F)
  <2>1. Kept(s, S) \in Seq(VMs) /\ IsInjective(Kept(s, S))
    BY ONLY <1>9, KeptType
  <2> QED
    BY <1>10, <2>1, LenProperties
<1>12. wakeCount \in Nat
  BY VMsAssumption, FS_CardinalityType DEF Counts
<1> PICK n : n = IF wakeCount < Len(F) THEN wakeCount ELSE Len(F)
  OBVIOUS
<1>13. n \in 0 .. Len(F) /\ \A j \in 1 .. Len(F) : (j <= wakeCount <=> j \in 1 .. n)
  <2> PICK len : len = Len(F)
    OBVIOUS
  <2>1. len \in Nat /\ n = IF wakeCount < len THEN wakeCount ELSE len
    BY <1>11
  <2>2. n \in 0 .. len /\ \A j \in 1 .. len : (j <= wakeCount <=> j \in 1 .. n)
    BY ONLY <1>12, <2>1
  <2> QED
    BY <2>2
<1>14. W = {F[i] : i \in 1 .. n}
  <2>1. {j \in DOMAIN F : j <= wakeCount} = 1 .. n
    BY <1>11, <1>13
  <2> QED
    BY <1>10, <2>1 DEF Woken
<1>15. Cardinality(W) = n
  <2> DEFINE f == [i \in 1 .. n |-> F[i]]
  <2>1. f \in Bijection(1 .. n, W)
    <3>1. f \in [1 .. n -> W] /\ \A w \in W : \E i \in 1 .. n : f[i] = w
      BY <1>14
    <3>2. ASSUME NEW i \in 1 .. n, NEW j \in 1 .. n, f[i] = f[j]
          PROVE  i = j
      <4>1. i \in DOMAIN F /\ j \in DOMAIN F
        BY <1>11, <1>13
      <4>2. F[i] = F[j]
        BY <3>2
      <4> QED
        BY <1>11, <4>1, <4>2 DEF IsInjective
    <3>3. \A i, j \in 1 .. n : f[i] = f[j] => i = j
      BY <3>2
    <3> HIDE DEF f
    <3>4. f \in Injection(1 .. n, W)
      BY <3>1, <3>3 DEF Injection, IsInjective
    <3>5. f \in Surjection(1 .. n, W)
      BY <3>1 DEF Surjection
    <3> QED
      BY <3>4, <3>5 DEF Bijection
  <2>2. IsFiniteSet(1 .. n) /\ Cardinality(1 .. n) = n
    <3>1. 1 \in Int /\ n \in Int /\ (IF 1 > n THEN 0 ELSE n - 1 + 1) = n
      BY ONLY <1>11, <1>13
    <3> QED
      BY <3>1, FS_Interval
  <2> HIDE DEF f
  <2> QED
    BY <2>1, <2>2, FS_Bijection DEF ExistsBijection
<1>16. Queues'[l] = SubSeq(F, n + 1, Len(F))
  <2>1. Is(s, l)'
    BY <1>1, <1>6, <1>8, ListsStay
  <2>2. Queues'[l] = Kept(s, S2)
    BY <1>5, <2>1, QueueAfter
  <2>3. Kept(s, S \ {Kept(s, S)[i] : i \in 1 .. n}) = SubSeq(Kept(s, S), n + 1, Len(Kept(s, S)))
    <3>1. s \in Seq(VMs) /\ IsInjective(s) /\ n \in 0 .. Len(Kept(s, S))
      BY <1>9, <1>10, <1>13
    <3> QED
      BY ONLY <3>1, KeptDrop
  <2>4. S2 = S \ {Kept(s, S)[i] : i \in 1 .. n}
    BY <1>7, <1>10, <1>14
  <2>5. Queues'[l] = SubSeq(Kept(s, S), n + 1, Len(Kept(s, S)))
    BY <2>2, <2>3, <2>4
  <2> QED
    BY <1>10, <2>5
<1>17. ASSUME NEW m \in Locations, m # l
       PROVE  Queues'[m] = Queues[m]
  <2>1. PICK t : Is(t, m)
    BY DEF Inv, ListsInv
  <2>2. Is(t, m)'
    BY <1>1, <1>6, <2>1, ListsStay
  <2>3. t \in Seq(VMs) /\ \A u \in ToSet(t) : location[u] = m
    BY <2>1 DEF Is, Linked, Waiters
  <2>4. \A u \in ToSet(t) : u \in S <=> u \in S2
    BY <1>3, <1>7, <1>17, <2>3
  <2>5. Kept(t, S) = Kept(t, S2)
    BY <2>3, <2>4, KeptAgree
  <2> QED
    BY <1>4, <1>5, <2>1, <2>2, <2>5, QueueBefore, QueueAfter
<1>18. Queues' = [Queues EXCEPT ![l] = SubSeq(@, n + 1, Len(@))]
  BY <1>16, <1>17 DEF Queues
<1>19. States[v] = "running"
  BY <1>1 DEF States
<1>20. States' = [u \in VMs |-> IF u \in W THEN "notified" ELSE States[u]]
  <2>1. ASSUME NEW u \in VMs
        PROVE  States'[u] = IF u \in W THEN "notified" ELSE States[u]
    <3>1. CASE u \in W
      <4>1. pc'[u] = "lock" /\ waiting'[u] = FALSE
        BY <1>1, <3>1
      <4> QED
        BY <3>1, <4>1 DEF States
    <3>2. CASE u \notin W
      <4>1. pc'[u] = pc[u] /\ waiting'[u] = waiting[u]
        BY <1>1, <1>2, <3>2
      <4> QED
        BY <3>2, <4>1 DEF States
    <3> QED
      BY <3>1, <3>2
  <2> QED
    BY <2>1 DEF States
<1>21. Limits' = Limits
  <2>1. ASSUME NEW u \in VMs
        PROVE  Limits'[u] = Limits[u]
    <3>1. pc'[u] # "run" <=> pc[u] # "run"
      BY <1>1, <1>3 DEF Listed
    <3> QED
      BY <1>1, <3>1 DEF Limits
  <2> QED
    BY <2>1 DEF Limits
<1>22. reply' = <<v, "woken", n>> /\ UNCHANGED memory
  BY <1>1, <1>15
<1>23. n = Abstract!Smaller(wakeCount, Len(Queues[l])) /\ W = {Queues[l][i] : i \in 1 .. n}
  BY <1>14 DEF Abstract!Smaller
<1> QED
  BY <1>18, <1>19, <1>20, <1>21, <1>22, <1>23 DEF Abstract!Notify, Queues, States, Limits

-----------------------------------------------------------------------------
(* The refinement *)

LEMMA StepsOfTheQueue ==
    ASSUME Inv, Next
    PROVE  Abstract!Next \/ (Queues' = Queues /\ States' = States /\ Limits' = Limits
                               /\ UNCHANGED <<memory, reply>>)
<1> DEFINE Stutter == /\ Queues' = Queues /\ States' = States /\ Limits' = Limits
                      /\ UNCHANGED <<memory, reply>>
<1>0. /\ pc \in [VMs -> {"run", "add", "sleep", "lock"}]
      /\ waiting \in [VMs -> BOOLEAN] /\ finite \in [VMs -> BOOLEAN]
  BY DEF Inv, TypeOK
<1>1. ASSUME NEW v \in VMs, NEW l \in Locations, NEW x \in Values, Store(v, l, x)
      PROVE  Abstract!Next
  <2>1. /\ pc[v] = "run" /\ memory' = [memory EXCEPT ![l] = x]
        /\ UNCHANGED <<listVars, waiting, location, finite, pc, reply>>
    BY <1>1 DEF Store, callVars
  <2>2. Queues' = Queues
    BY <2>1, QueuesStay DEF Listed, AddsTo
  <2>3. States[v] = "running" /\ States' = States /\ Limits' = Limits
    BY <2>1 DEF States, Limits
  <2>4. Abstract!Store(v, l, x)
    BY <2>1, <2>2, <2>3 DEF Abstract!Store, Queues, States, Limits
  <2> QED
    BY <2>4 DEF Abstract!Next
<1>2. ASSUME NEW v \in VMs, NEW l \in Locations, NEW x \in Values, NEW hasTimeout \in BOOLEAN,
             DoWait(v, l, x, hasTimeout)
      PROVE  Abstract!Next
  <2>1. CASE memory[l] = x
    BY <1>2, <2>1, CompareJoins DEF Abstract!Next
  <2>2. CASE memory[l] # x
    BY <1>2, <2>2, CompareReturns DEF Abstract!Next
  <2> QED
    BY <2>1, <2>2
<1>3. ASSUME NEW v \in VMs, DoWaitAdds(v)
      PROVE  Stutter
  BY <1>3, AddStutters DEF DoWaitAdds
<1>4. ASSUME NEW v \in VMs, DoWaitZero(v)
      PROVE  Abstract!Next
  BY <1>4, ZeroTimesOut DEF Abstract!Next
<1>5. ASSUME NEW v \in VMs, Expire(v) \/ SpuriousWakeup(v) \/ (DoWaitLoop(v) /\ waiting[v] /\ ~expired[v])
      PROVE  Stutter
  <2>1. /\ Listed(v) /\ (pc' = [pc EXCEPT ![v] = "lock"] \/ pc' = [pc EXCEPT ![v] = "sleep"])
        /\ UNCHANGED <<listVars, waiting, location, finite, memory, reply>>
    BY <1>5 DEF Expire, SpuriousWakeup, DoWaitLoop, Listed, callVars
  <2>2. /\ \A u \in VMs : Listed(u)' <=> Listed(u)
        /\ \A u \in VMs, m \in Locations : AddsTo(u, m)' <=> AddsTo(u, m)
        /\ \A u \in VMs : pc'[u] = "run" <=> pc[u] = "run"
    BY <1>0, <2>1 DEF Listed, AddsTo
  <2>3. Queues' = Queues
    BY <2>1, <2>2, QueuesStay
  <2>4. States' = States /\ Limits' = Limits
    BY <2>1, <2>2 DEF States, Limits
  <2> QED
    BY <2>1, <2>3, <2>4
<1>6. ASSUME NEW v \in VMs, DoWaitLoop(v), ~(waiting[v] /\ ~expired[v])
      PROVE  Abstract!Next
  BY <1>6, LoopReturns DEF Abstract!Next
<1>7. ASSUME NEW v \in VMs, NEW l \in Locations, NEW wakeCount \in Counts, Signal(v, l, wakeCount)
      PROVE  Abstract!Next
  BY <1>7, SignalNotifies DEF Abstract!Next
<1> QED
  BY <1>1, <1>2, <1>3, <1>4, <1>5, <1>6, <1>7 DEF Next

\* wait and notify are operations of one queue per location: what DoWait does in three
\* critical sections, with the nodes of other VMs coming and going in between, is the
\* comparison and the entry in one step and later the return; Signal wakes the oldest
\* sleepers first, answers how many of them will return "ok", and none of those reports
\* a timeout.
THEOREM ImplementsWaiterQueue == Spec => IsWaiterQueue
<1>1. ASSUME Init, Inv
      PROVE  Abstract!Init
  <2>1. ASSUME NEW l \in Locations
        PROVE  Queues[l] = <<>>
    <3>1. PICK s : Is(s, l)
      BY <1>1 DEF Inv, ListsInv
    <3>2. s \in Seq(VMs) /\ ToSet(s) = {} /\ Kept(s, {v \in VMs : waiting[v]}) = s
      <4>1. s \in Seq(VMs) /\ ToSet(s) = {}
        BY <1>1, <3>1 DEF Is, Linked, Waiters, Listed, Init
      <4> QED
        BY <4>1, KeptAll
    <3>3. s = <<>>
      BY <3>2, LenProperties, EmptySeq DEF ToSet
    <3>4. \A v \in VMs : ~AddsTo(v, l)
      BY <1>1 DEF Init, AddsTo
    <3> QED
      BY <3>1, <3>2, <3>3, <3>4, QueueBefore
  <2>2. Queues = [l \in Locations |-> <<>>]
    BY <2>1 DEF Queues
  <2>3. States = [v \in VMs |-> "running"] /\ Limits = [v \in VMs |-> FALSE]
    BY <1>1 DEF Init, States, Limits
  <2>4. memory \in [Locations -> Values] /\ reply = <<"none">>
    BY <1>1 DEF Init
  <2> QED
    BY <2>2, <2>3, <2>4 DEF Abstract!Init, Queues, States, Limits
<1>2. ASSUME Inv, [Next]_vars
      PROVE  [Abstract!Next]_<<memory, Queues, States, Limits, reply>>
  <2>1. CASE Next
    BY <1>2, <2>1, StepsOfTheQueue
  <2>2. CASE UNCHANGED vars
    <3>1. Queues' = Queues
      BY <1>2, <2>2, QueuesStay DEF vars, listVars, callVars, Listed, AddsTo
    <3>2. States' = States /\ Limits' = Limits /\ UNCHANGED <<memory, reply>>
      BY <2>2 DEF vars, callVars, States, Limits
    <3> QED
      BY <3>1, <3>2
  <2> QED
    BY <1>2, <2>1, <2>2
<1>3. Init => Inv
  BY InitInv
<1> QED
  BY <1>1, <1>2, <1>3, InvHolds, PTL DEF Spec, IsWaiterQueue, Abstract!Spec, Queues, States, Limits

-----------------------------------------------------------------------------
(* The hash table: capacities *)

PowerStep(f, i) == IF i = 0 THEN 1 ELSE 2 * f[i - 1]
IsPower(f) == f = [i \in 0 .. 30 |-> PowerStep(f, i)]
Power == CHOOSE f : IsPower(f)

LEMMA PowerExists == IsPower(Power)
<1> DEFINE N == {n \in 0 .. 30 : \E f : f = [k \in 0 .. n |-> PowerStep(f, k)]}
<1>1. 0 \in N
  <2> DEFINE f == [k \in 0 .. 0 |-> 1]
  <2>1. f = [k \in 0 .. 0 |-> PowerStep(f, k)]
    BY DEF PowerStep
  <2> QED
    BY <2>1
<1>2. ASSUME NEW n \in 1 .. 30, n - 1 \in N
      PROVE  n \in N
  <2>1. PICK f : f = [k \in 0 .. n - 1 |-> PowerStep(f, k)]
    BY <1>2
  <2> DEFINE g == [k \in 0 .. n |-> IF k = n THEN PowerStep(f, n) ELSE f[k]]
  <2>2. \A k \in 0 .. n : g[k] = PowerStep(g, k)
    <3> SUFFICES ASSUME NEW k \in 0 .. n
                 PROVE  g[k] = PowerStep(g, k)
      OBVIOUS
    <3>1. k = 0 \/ (k - 1 \in 0 .. n - 1 /\ k - 1 \in 0 .. n /\ k - 1 # n)
      OBVIOUS
    <3>2. k = 0 \/ g[k - 1] = f[k - 1]
      BY <3>1
    <3>3. PowerStep(g, k) = PowerStep(f, k)
      BY <3>2 DEF PowerStep
    <3>4. k # n => f[k] = PowerStep(f, k)
      <4>1. k # n => k \in 0 .. n - 1
        OBVIOUS
      <4> QED
        BY <2>1, <4>1
    <3> QED
      BY <3>3, <3>4
  <2>3. g = [k \in 0 .. n |-> PowerStep(g, k)]
    BY <2>2
  <2> HIDE DEF g
  <2>4. \E h : h = [k \in 0 .. n |-> PowerStep(h, k)]
    BY <2>3
  <2>5. n \in 0 .. 30
    OBVIOUS
  <2> QED
    BY <2>4, <2>5
<1>3. 30 \in N
  <2> HIDE DEF N
  <2>1. \A i \in 0 .. 30 : i \in N
    BY <1>1, <1>2, UpTo
  <2> QED
    BY <2>1
<1> QED
  BY <1>3 DEF Power, IsPower

LEMMA PowerFacts ==
    /\ PowersOfTwo = {Power[i] : i \in 0 .. 30}
    /\ Power[0] = 1
    /\ \A i \in 1 .. 30 : Power[i] = 2 * Power[i - 1]
    /\ \A i \in 0 .. 30 : Power[i] \in Nat \ {0}
<1>1. PowersOfTwo = {Power[i] : i \in 0 .. 30}
  BY DEF PowersOfTwo, Power, IsPower, PowerStep
<1>2. \A i \in 0 .. 30 : Power[i] = PowerStep(Power, i)
  BY PowerExists DEF IsPower
<1>3. Power[0] = 1 /\ \A i \in 1 .. 30 : Power[i] = 2 * Power[i - 1]
  BY <1>2 DEF PowerStep
<1> PICK N : N = {n \in 0 .. 30 : Power[n] \in Nat \ {0}}
  OBVIOUS
<1>4. 0 \in N
  BY <1>3
<1>5. ASSUME NEW n \in 1 .. 30, n - 1 \in N
      PROVE  n \in N
  <2>1. Power[n - 1] \in Nat \ {0} /\ n \in 0 .. 30
    BY <1>5
  <2>2. Power[n] = 2 * Power[n - 1]
    BY ONLY <1>3, n \in 1 .. 30
  <2>3. Power[n] \in Nat \ {0}
    BY ONLY <2>1, <2>2
  <2> QED
    BY <2>1, <2>3
<1>6. \A i \in 0 .. 30 : i \in N
  BY <1>4, <1>5, UpTo
<1> QED
  BY <1>1, <1>3, <1>6

\* A capacity computed for so many keys has room for them.
LEMMA CapacityFacts ==
    ASSUME NEW n \in Nat, n <= Cardinality(Keys)
    PROVE  ComputeCapacity(n) \in Nat \ {0} /\ n <= ComputeCapacity(n)
<1> PICK m, max : m = n + n \div 2 /\ max = Cardinality(Keys)
  OBVIOUS
<1>1. max \in Nat /\ \E p \in PowersOfTwo : max + max \div 2 <= p
  BY KeysAssumption, FS_CardinalityType
<1>2. m \in Nat /\ n <= m /\ m <= max + max \div 2
  BY <1>1
<1> PICK I : I = {i \in 0 .. 30 : m <= Power[i]}
  OBVIOUS
<1>3. I \in SUBSET Nat /\ I # {}
  <2>1. PICK p \in PowersOfTwo : max + max \div 2 <= p
    BY <1>1
  <2>2. PICK i \in 0 .. 30 : p = Power[i]
    BY PowerFacts
  <2>3. Power[i] \in Nat /\ max + max \div 2 \in Nat
    BY ONLY <1>1, i \in 0 .. 30, PowerFacts
  <2>4. m <= Power[i]
    BY ONLY <1>2, <2>1, <2>2, <2>3
  <2> QED
    BY <2>4
<1>4. PICK i \in I : \A j \in I : i <= j
  BY <1>3, LeastElement
<1>5. Power[i] \in PowersOfTwo /\ Power[i] >= m /\ (Power[i] = 1 \/ Power[i] \div 2 < m)
  <2>1. i \in 0 .. 30 /\ m <= Power[i] /\ Power[i] \in Nat \ {0} /\ Power[i] \in PowersOfTwo
    BY <1>4, PowerFacts
  <2>2. CASE i = 0
    BY <1>2, <2>1, <2>2, PowerFacts
  <2>3. CASE i # 0
    <3>1. i - 1 \in 0 .. 30 /\ i - 1 \notin I /\ i \in 1 .. 30
      BY <1>4, <2>1, <2>3
    <3>2. Power[i] = 2 * Power[i - 1] /\ Power[i - 1] \in Nat /\ Power[i - 1] < m
      BY <1>2, <3>1, PowerFacts
    <3>3. \A q \in Nat : (2 * q) \div 2 = q
      OBVIOUS
    <3> QED
      BY <1>2, <2>1, <3>2, <3>3
  <2> QED
    BY <2>2, <2>3
<1> PICK c : c = GetPowerOfTwoValue32(m)
  OBVIOUS
<1>6. c \in PowersOfTwo /\ c >= m
  BY <1>5 DEF GetPowerOfTwoValue32
<1>7. c \in Nat \ {0} /\ n <= c
  BY <1>2, <1>6, PowerFacts
<1>8. ComputeCapacity(n) = IF c > MIN_CAPACITY THEN c ELSE MIN_CAPACITY
  BY DEF ComputeCapacity
<1> QED
  BY <1>7, <1>8, CapacityAssumption

-----------------------------------------------------------------------------
(* What a table looks like *)

Entries == Keys \cup {KeyHole}
Buckets == UNION {[0 .. capacity - 1 -> Int] : capacity \in Nat}
Records == [capacity : Nat \ {0}, elements : Nat, deleted : Nat, bucket : Buckets,
            key : Seq(Entries), next : Seq(Int)]

\* How many of the first n entries hold a key.
Live(t, n) == Len(KeptUpTo(t.key, Keys)[n])

\* e is the last of the first n entries that belong to bucket b, NoEntry without any.
IsLast(home, b, n, e) ==
    \/ e = NoEntry /\ \A f \in 0 .. n - 1 : home[f] # b
    \/ e \in 0 .. n - 1 /\ home[e] = b /\ \A f \in e + 1 .. n - 1 : home[f] # b

\* Every entry belongs to a bucket, whose chain leads from each to the one before; the key
\* of an entry hashes to that bucket, while a hole stays in the chain it was put in.
IsHome(t, home) ==
    /\ home \in [0 .. Len(t.key) - 1 -> 0 .. t.capacity - 1]
    /\ \A e \in 0 .. Len(t.key) - 1 : t.key[e + 1] # KeyHole => home[e] = HashToBucket(t, t.key[e + 1])
    /\ \A b \in 0 .. t.capacity - 1 : IsLast(home, b, Len(t.key), t.bucket[b])
    /\ \A e \in 0 .. Len(t.key) - 1 : IsLast(home, home[e], e, t.next[e + 1])
ChainInv(t) == \E home : IsHome(t, home)

RoomInv(t) ==
    /\ t \in Records
    /\ t.bucket \in [0 .. t.capacity - 1 -> Int]
    /\ Len(t.next) = Len(t.key) /\ Len(t.key) = Used(t) /\ Used(t) <= t.capacity

\* No key is in two entries.
KeyInv(t) == \A i, j \in DOMAIN t.key : t.key[i] = t.key[j] /\ t.key[i] # KeyHole => i = j

\* A table in use ...
GoodTable(t) == RoomInv(t) /\ t.elements = Live(t, Len(t.key)) /\ KeyInv(t) /\ ChainInv(t)

\* ... and one that has been rehashed.
OldTable(t) ==
    /\ RoomInv(t)
    /\ \A b \in 0 .. t.capacity - 1 : t.bucket[b] \in NoEntry .. Used(t) - 1
    /\ \A i \in DOMAIN t.key :
        /\ t.next[i] \in NoEntry .. Used(t)
        /\ t.key[i] = KeyHole => t.next[i] = Holes(t, i)

\* Element by element.
LEMMA RoomFacts ==
    ASSUME NEW t, RoomInv(t)
    PROVE  /\ t.capacity \in Nat \ {0} /\ t.elements \in Nat /\ t.deleted \in Nat
           /\ t.key \in Seq(Entries) /\ t.next \in Seq(Int)
           /\ Len(t.key) \in Nat /\ Len(t.key) = t.elements + t.deleted
           /\ DOMAIN t.key = 1 .. Len(t.key) /\ DOMAIN t.next = 1 .. Len(t.key)
           /\ \A i \in 1 .. Len(t.key) : t.key[i] \in Entries /\ t.next[i] \in Int
           /\ Len(t.key) <= t.capacity
<1>1. t \in Records
  BY DEF RoomInv
<1>2. /\ t.capacity \in Nat \ {0} /\ t.elements \in Nat /\ t.deleted \in Nat
      /\ t.key \in Seq(Entries) /\ t.next \in Seq(Int)
  BY <1>1 DEF Records
<1>3. Len(t.next) = Len(t.key) /\ Len(t.key) = Used(t) /\ Used(t) <= t.capacity
  BY DEF RoomInv
<1>4. /\ Len(t.key) \in Nat /\ DOMAIN t.key = 1 .. Len(t.key) /\ DOMAIN t.next = 1 .. Len(t.next)
      /\ \A i \in 1 .. Len(t.key) : t.key[i] \in Entries
      /\ \A i \in 1 .. Len(t.next) : t.next[i] \in Int
  BY <1>2, LenProperties, ElementOfSeq
<1> QED
  BY <1>2, <1>3, <1>4 DEF Used

IsPrefixOf(u, v) == Len(u) <= Len(v) /\ \A i \in 1 .. Len(u) : v[i] = u[i]

LEMMA KeptIsPrefix ==
    ASSUME NEW T, NEW s \in Seq(T), NEW S, NEW n \in 0 .. Len(s), NEW m \in n .. Len(s)
    PROVE  IsPrefixOf(KeptUpTo(s, S)[n], KeptUpTo(s, S)[m])
<1>1. LET K == KeptUpTo(s, S)
      IN  Len(K[n]) <= Len(K[m]) /\ \A i \in 1 .. Len(K[n]) : K[m][i] = K[n][i]
  BY KeptPrefix
<1> QED
  BY <1>1 DEF IsPrefixOf

\* The number of keys in the first entries, step by step.
LEMMA LiveFacts ==
    ASSUME NEW t, t.key \in Seq(Entries)
    PROVE  LET K == KeptUpTo(t.key, Keys)
           IN  /\ K[0] = <<>> /\ Live(t, 0) = 0
               /\ \A n \in 0 .. Len(t.key) : Live(t, n) \in 0 .. n /\ K[n] \in Seq(Entries)
               /\ \A n \in 1 .. Len(t.key) :
                    /\ t.key[n] # KeyHole =>
                        Live(t, n) = Live(t, n - 1) + 1 /\ K[n][Live(t, n)] = t.key[n]
                    /\ t.key[n] = KeyHole => Live(t, n) = Live(t, n - 1) /\ K[n] = K[n - 1]
<1> PICK K, L : K = KeptUpTo(t.key, Keys) /\ L = Len(t.key)
  OBVIOUS
<1>1. L \in Nat /\ \A n \in 1 .. L : t.key[n] \in Entries
  BY LenProperties, ElementOfSeq
<1>2. /\ K[0] = <<>>
      /\ \A n \in 1 .. L : K[n] = IF t.key[n] \in Keys THEN Append(K[n - 1], t.key[n]) ELSE K[n - 1]
      /\ \A n \in 0 .. L : K[n] \in Seq(Entries)
  BY KeptFacts
<1>3. \A n : Live(t, n) = Len(K[n])
  BY DEF Live
<1>4. ASSUME NEW n \in 1 .. L
      PROVE  /\ t.key[n] # KeyHole =>
                  Live(t, n) = Live(t, n - 1) + 1 /\ K[n][Live(t, n)] = t.key[n]
             /\ t.key[n] = KeyHole => Live(t, n) = Live(t, n - 1) /\ K[n] = K[n - 1]
  <2>1. n - 1 \in 0 .. L /\ K[n - 1] \in Seq(Entries) /\ t.key[n] \in Entries
    BY <1>1, <1>2
  <2>2. CASE t.key[n] = KeyHole
    BY <1>2, <1>3, <2>2, HoleAssumption
  <2>3. CASE t.key[n] # KeyHole
    <3>1. K[n] = Append(K[n - 1], t.key[n])
      BY <1>2, <2>1, <2>3 DEF Entries
    <3>2. Len(K[n]) = Len(K[n - 1]) + 1 /\ K[n][Len(K[n - 1]) + 1] = t.key[n]
      BY <2>1, <3>1, AppendFacts
    <3> QED
      BY <1>3, <2>3, <3>2
  <2> QED
    BY <2>2, <2>3
<1>5. Live(t, 0) = 0
  BY <1>2, <1>3
<1> PICK N : N = {n \in 0 .. L : Live(t, n) \in 0 .. n}
  OBVIOUS
<1>6. 0 \in N
  BY <1>1, <1>5
<1>7. ASSUME NEW n \in 1 .. L, n - 1 \in N
      PROVE  n \in N
  <2>1. Live(t, n - 1) \in 0 .. n - 1 /\ n \in 0 .. L
    BY <1>1, <1>7
  <2>2. Live(t, n) = Live(t, n - 1) + 1 \/ Live(t, n) = Live(t, n - 1)
    BY <1>4
  <2> QED
    BY <2>1, <2>2
<1>8. \A n \in 0 .. L : n \in N
  BY <1>1, <1>6, <1>7, UpTo
<1> QED
  BY <1>2, <1>4, <1>5, <1>8

\* It grows with the entries ...
LEMMA LiveGrows ==
    ASSUME NEW t, t.key \in Seq(Entries), NEW m \in 0 .. Len(t.key), NEW n \in m .. Len(t.key)
    PROVE  /\ Live(t, m) <= Live(t, n)
           /\ (\E i \in m + 1 .. n : t.key[i] # KeyHole) => Live(t, m) < Live(t, n)
           /\ (\A i \in m + 1 .. n : t.key[i] = KeyHole) => Live(t, m) = Live(t, n)
           /\ \A p \in 1 .. Live(t, m) :
                KeptUpTo(t.key, Keys)[n][p] = KeptUpTo(t.key, Keys)[m][p]
<1> PICK K, L : K = KeptUpTo(t.key, Keys) /\ L = Len(t.key)
  OBVIOUS
<1>1. L \in Nat /\ m \in 0 .. L /\ n \in m .. L
  BY LenProperties
<1>2. \A a \in 0 .. L : \A b \in a .. L : Len(K[a]) <= Len(K[b]) /\ \A p \in 1 .. Len(K[a]) : K[b][p] = K[a][p]
  <2> SUFFICES ASSUME NEW a \in 0 .. L, NEW b \in a .. L
               PROVE  Len(K[a]) <= Len(K[b]) /\ \A p \in 1 .. Len(K[a]) : K[b][p] = K[a][p]
    OBVIOUS
  <2> PICK s : s = t.key
    OBVIOUS
  <2>1. a \in 0 .. Len(s) /\ b \in a .. Len(s) /\ s \in Seq(Entries) /\ K = KeptUpTo(s, Keys)
    OBVIOUS
  <2>2. IsPrefixOf(K[a], K[b])
    BY <2>1, KeptIsPrefix
  <2> QED
    BY <2>2 DEF IsPrefixOf
<1>3. \A a \in 0 .. L : Live(t, a) = Len(K[a]) /\ Live(t, a) \in Nat
  BY LiveFacts DEF Live
<1>4. ASSUME NEW i \in m + 1 .. n, t.key[i] # KeyHole
      PROVE  Live(t, m) < Live(t, n)
  <2>1. i \in 1 .. L /\ i - 1 \in 0 .. L /\ i - 1 \in m .. L /\ n \in i .. L /\ i \in 0 .. L
    BY <1>1
  <2>2. Live(t, i) = Live(t, i - 1) + 1
    BY <1>4, <2>1, LiveFacts
  <2>3. Live(t, m) <= Live(t, i - 1) /\ Live(t, i) <= Live(t, n)
    <3>1. m \in 0 .. L /\ i - 1 \in m .. L /\ i \in 0 .. L /\ n \in i .. L
      BY <1>1, <2>1
    <3>2. Len(K[m]) <= Len(K[i - 1]) /\ Len(K[i]) <= Len(K[n])
      BY <1>2, <3>1
    <3>3. n \in 0 .. L
      BY <1>1
    <3> QED
      BY <1>3, <2>1, <3>1, <3>2, <3>3
  <2>4. n \in 0 .. L
    BY <1>1
  <2> QED
    <3>1. m \in 0 .. L
      BY <1>1
    <3>2. /\ Live(t, m) \in Nat /\ Live(t, i - 1) \in Nat
          /\ Live(t, i) \in Nat /\ Live(t, n) \in Nat
      BY ONLY <1>3, <2>1, <2>4, <3>1
    <3> QED
      BY ONLY <2>2, <2>3, <3>2
<1>5. ASSUME \A i \in m + 1 .. n : t.key[i] = KeyHole
      PROVE  Live(t, m) = Live(t, n)
  <2> PICK D, N : D = n - m /\ N = {d \in 0 .. n - m : Live(t, m + d) = Live(t, m)}
    OBVIOUS
  <2>1. D \in Nat /\ 0 \in N
    BY <1>1
  <2>2. ASSUME NEW d \in 1 .. D, d - 1 \in N
        PROVE  d \in N
    <3>1. m + d \in m + 1 .. n /\ m + d \in 1 .. L /\ (m + d) - 1 = m + (d - 1) /\ d \in 0 .. n - m
      BY <1>1, <2>2
    <3>2. Live(t, m + d) = Live(t, (m + d) - 1)
      BY <1>5, <3>1, LiveFacts
    <3> QED
      BY <2>2, <3>1, <3>2
  <2>3. \A d \in 0 .. D : d \in N
    BY <2>1, <2>2, UpTo
  <2>4. D \in 0 .. D /\ m + D = n
    BY <1>1, <2>1
  <2> QED
    BY <2>3, <2>4
<1> QED
  BY <1>1, <1>2, <1>3, <1>4, <1>5

-----------------------------------------------------------------------------
(* Operations on a table *)

LEMMA BucketType ==
    ASSUME NEW capacity \in Nat, NEW f \in [0 .. capacity - 1 -> Int]
    PROVE  f \in Buckets
  BY DEF Buckets

LEMMA BucketOfKey ==
    ASSUME NEW t, RoomInv(t), NEW k \in Keys
    PROVE  HashToBucket(t, k) \in 0 .. t.capacity - 1
<1> PICK c, h : c = t.capacity /\ h = Hash[k]
  OBVIOUS
<1>1. c \in Nat \ {0} /\ h \in Nat
  BY RoomFacts, HashAssumption
<1>2. h % c \in 0 .. c - 1
  BY <1>1
<1> QED
  BY <1>2 DEF HashToBucket

LEMMA CreateGood ==
    ASSUME NEW capacity \in Nat \ {0}
    PROVE  /\ GoodTable(Create(capacity)) /\ Create(capacity).key = <<>>
           /\ Create(capacity).capacity = capacity /\ Create(capacity).deleted = 0
<1> PICK t : t = Create(capacity)
  OBVIOUS
<1>1. /\ t.capacity = capacity /\ t.elements = 0 /\ t.deleted = 0 /\ t.key = <<>> /\ t.next = <<>>
      /\ t.bucket = [b \in 0 .. capacity - 1 |-> NoEntry]
  BY DEF Create
<1>2. <<>> \in Seq(Entries) /\ <<>> \in Seq(Int) /\ Len(<<>>) = 0 /\ DOMAIN <<>> = {}
  OBVIOUS
<1>3. t.bucket \in [0 .. capacity - 1 -> Int] /\ \A b \in 0 .. capacity - 1 : t.bucket[b] = NoEntry
  BY <1>1 DEF NoEntry
<1>4. t \in Records
  <2>1. t.bucket \in Buckets
    BY <1>3, BucketType
  <2> QED
    BY <1>1, <1>2, <2>1 DEF Create, Records
<1>5. RoomInv(t)
  BY <1>1, <1>2, <1>3, <1>4 DEF RoomInv, Used
<1>6. Live(t, 0) = 0
  BY <1>1, <1>2, LiveFacts
<1>7. IsHome(t, <<>>)
  <2>1. 0 .. 0 - 1 = {} /\ <<>> \in [{} -> 0 .. capacity - 1]
    OBVIOUS
  <2>2. \A b \in 0 .. capacity - 1 : IsLast(<<>>, b, 0, t.bucket[b])
    BY <1>3, <2>1 DEF IsLast
  <2> QED
    BY <1>1, <1>2, <2>1, <2>2 DEF IsHome
<1> QED
  BY <1>1, <1>2, <1>5, <1>6, <1>7 DEF GoodTable, KeyInv, ChainInv

\* Entries that are added or become holes leave the count of those before them.
LEMMA LiveSame ==
    ASSUME NEW t, NEW u, t.key \in Seq(Entries), u.key \in Seq(Entries),
           NEW n \in 0 .. Len(t.key), n <= Len(u.key),
           \A i \in 1 .. n : u.key[i] = t.key[i]
    PROVE  Live(u, n) = Live(t, n) /\ KeptUpTo(u.key, Keys)[n] = KeptUpTo(t.key, Keys)[n]
<1> PICK r, s : r = t.key /\ s = u.key
  OBVIOUS
<1>1. n \in 0 .. Len(r) /\ n <= Len(s) /\ \A i \in 1 .. n : r[i] = s[i] /\ (r[i] \in Keys <=> s[i] \in Keys)
  OBVIOUS
<1>2. KeptUpTo(r, Keys)[n] = KeptUpTo(s, Keys)[n]
  <2>1. r \in Seq(Entries) /\ s \in Seq(Entries)
    OBVIOUS
  <2> QED
    BY ONLY <1>1, <2>1, KeptSame
<1> QED
  BY <1>2 DEF Live

LEMMA InsertGood ==
    ASSUME NEW t, GoodTable(t), NEW k \in Keys, \A i \in DOMAIN t.key : t.key[i] # k,
           Len(t.key) < t.capacity
    PROVE  LET u == InsertNewEntry(t, k)
           IN  /\ GoodTable(u) /\ u.key = Append(t.key, k)
               /\ u.capacity = t.capacity /\ u.deleted = t.deleted
<1> PICK L, c, b, u : /\ L = Len(t.key) /\ c = t.capacity /\ b = HashToBucket(t, k)
                      /\ u = InsertNewEntry(t, k)
  OBVIOUS
<1>1. /\ RoomInv(t) /\ t.elements = Live(t, L) /\ KeyInv(t) /\ ChainInv(t)
      /\ t \in Records /\ t.bucket \in [0 .. c - 1 -> Int]
  BY DEF GoodTable, RoomInv
<1>2. /\ c \in Nat \ {0} /\ t.elements \in Nat /\ t.deleted \in Nat
      /\ t.key \in Seq(Entries) /\ t.next \in Seq(Int)
      /\ L \in Nat /\ L = t.elements + t.deleted
      /\ DOMAIN t.key = 1 .. L /\ DOMAIN t.next = 1 .. L /\ L < c
      /\ Len(t.next) = L /\ \A i \in 1 .. L : t.key[i] \in Entries
  BY <1>1, RoomFacts DEF RoomInv
<1>3. b \in 0 .. c - 1 /\ t.bucket[b] \in Int /\ k \in Entries /\ k # KeyHole
  BY <1>1, BucketOfKey, HoleAssumption DEF Entries
<1>4. /\ u.capacity = c /\ u.elements = t.elements + 1 /\ u.deleted = t.deleted
      /\ u.key = Append(t.key, k) /\ u.next = Append(t.next, t.bucket[b])
      /\ u.bucket = [t.bucket EXCEPT ![b] = L]
      /\ u.bucket \in [0 .. c - 1 -> Int] /\ u \in Records
  <2>1. Used(t) = L
    BY <1>2 DEF Used
  <2>2. u = [t EXCEPT !.elements = t.elements + 1, !.deleted = t.deleted,
                      !.bucket = [t.bucket EXCEPT ![b] = L],
                      !.key = Append(t.key, k), !.next = Append(t.next, t.bucket[b])]
    BY <1>1, <2>1 DEF InsertNewEntry, Records
  <2>3. [t.bucket EXCEPT ![b] = L] \in [0 .. c - 1 -> Int]
    BY <1>1, <1>2, <1>3
  <2> PICK elements, deleted, bucket, key, next1 :
        /\ elements = t.elements + 1 /\ deleted = t.deleted /\ bucket = [t.bucket EXCEPT ![b] = L]
        /\ key = Append(t.key, k) /\ next1 = Append(t.next, t.bucket[b])
    OBVIOUS
  <2>4. /\ elements \in Nat /\ deleted \in Nat /\ bucket \in Buckets
        /\ key \in Seq(Entries) /\ next1 \in Seq(Int)
    <3>1. key \in Seq(Entries)
      BY <1>2, <1>3, AppendProperties
    <3>2. next1 \in Seq(Int)
      BY <1>2, <1>3, AppendProperties
    <3>3. bucket \in Buckets
      BY <1>2, <2>3, BucketType
    <3> QED
      BY <1>2, <3>1, <3>2, <3>3
  <2>5. /\ u \in Records /\ u.capacity = t.capacity /\ u.elements = elements
        /\ u.deleted = deleted /\ u.bucket = bucket /\ u.key = key /\ u.next = next1
    <3>1. u = [t EXCEPT !.elements = elements, !.deleted = deleted, !.bucket = bucket,
                        !.key = key, !.next = next1]
      BY <2>2
    <3>2. t \in Records
      BY <1>1
    <3> QED
      BY ONLY <2>4, <3>1, <3>2 DEF Records
  <2> QED
    BY <2>3, <2>5
<1>5. /\ u.key \in Seq(Entries) /\ Len(u.key) = L + 1 /\ DOMAIN u.key = 1 .. L + 1
      /\ \A i \in 1 .. L : u.key[i] = t.key[i]
      /\ u.key[L + 1] = k
  <2> PICK s : s = t.key
    OBVIOUS
  <2>1. s \in Seq(Entries) /\ Len(s) = L /\ k \in Entries
    BY <1>2, <1>3
  <2>2. /\ Append(s, k) \in Seq(Entries) /\ Len(Append(s, k)) = Len(s) + 1
        /\ DOMAIN Append(s, k) = 1 .. Len(s) + 1
        /\ \A i \in 1 .. Len(s) : Append(s, k)[i] = s[i]
        /\ Append(s, k)[Len(s) + 1] = k
    BY ONLY <2>1, AppendFacts
  <2> QED
    BY <1>4, <2>1, <2>2
<1>6. /\ u.next \in Seq(Int) /\ Len(u.next) = L + 1
      /\ \A i \in 1 .. L : u.next[i] = t.next[i]
      /\ u.next[L + 1] = t.bucket[b]
  BY <1>2, <1>3, <1>4, AppendFacts
<1>7. RoomInv(u)
  <2>1. Used(u) = L + 1 /\ L + 1 <= c
    <3> PICK x, y : x = t.elements /\ y = t.deleted
      OBVIOUS
    <3>1. x \in Nat /\ y \in Nat /\ L = x + y /\ L < c /\ c \in Nat
      BY <1>2
    <3>2. (x + 1) + y = L + 1 /\ L + 1 <= c
      BY ONLY <3>1
    <3>3. u.elements = x + 1 /\ u.deleted = y
      BY ONLY <1>4, x = t.elements, y = t.deleted
    <3> QED
      BY ONLY <3>2, <3>3 DEF Used
  <2> QED
    BY ONLY <1>4, <1>5, <1>6, <2>1 DEF RoomInv
<1>8. u.elements = Live(u, Len(u.key))
  <2>1. Live(u, L) = Live(t, L)
    <3>1. L \in 0 .. Len(t.key) /\ L <= Len(u.key) /\ \A i \in 1 .. L : u.key[i] = t.key[i]
      BY <1>2, <1>5
    <3>2. t.key \in Seq(Entries) /\ u.key \in Seq(Entries)
      BY <1>2, <1>5
    <3> QED
      BY ONLY <3>1, <3>2, LiveSame
  <2>2. Live(u, L + 1) = Live(u, (L + 1) - 1) + 1
    BY <1>2, <1>3, <1>5, LiveFacts
  <2> QED
    BY <1>1, <1>2, <1>4, <1>5, <2>1, <2>2
<1>9. KeyInv(u)
  <2>1. \A i \in 1 .. L + 1 : i \in 1 .. L \/ i = L + 1
    BY <1>2
  <2>2. \A i, j \in 1 .. L : t.key[i] = t.key[j] /\ t.key[i] # KeyHole => i = j
    BY <1>1, <1>2 DEF KeyInv
  <2>3. \A i \in 1 .. L : u.key[i] # k
    BY <1>2, <1>5
  <2>4. ASSUME NEW i \in 1 .. L + 1, NEW j \in 1 .. L + 1, u.key[i] = u.key[j], u.key[i] # KeyHole
        PROVE  i = j
    BY <1>5, <2>1, <2>2, <2>3, <2>4
  <2> QED
    BY <1>5, <2>4 DEF KeyInv
<1>10. ChainInv(u)
  <2>1. PICK home : IsHome(t, home)
    BY <1>1 DEF ChainInv
  <2>2. /\ home \in [0 .. L - 1 -> 0 .. c - 1]
        /\ \A e \in 0 .. L - 1 : t.key[e + 1] # KeyHole => home[e] = HashToBucket(t, t.key[e + 1])
        /\ \A d \in 0 .. c - 1 : IsLast(home, d, L, t.bucket[d])
        /\ \A e \in 0 .. L - 1 : IsLast(home, home[e], e, t.next[e + 1])
    BY <2>1 DEF IsHome
  <2> PICK h : h = [e \in 0 .. L |-> IF e = L THEN b ELSE home[e]]
    OBVIOUS
  <2>3. /\ h \in [0 .. L -> 0 .. c - 1] /\ h[L] = b /\ \A e \in 0 .. L - 1 : h[e] = home[e]
        /\ \A e \in 0 .. L : e \in 0 .. L - 1 \/ e = L
    <3>1. L \in Nat /\ b \in 0 .. c - 1 /\ home \in [0 .. L - 1 -> 0 .. c - 1]
      BY <1>2, <1>3, <2>2
    <3>2. /\ \A e \in 0 .. L : e \in 0 .. L - 1 \/ e = L
          /\ \A e \in 0 .. L - 1 : e \in 0 .. L /\ e # L
          /\ L \in 0 .. L
      BY ONLY <3>1
    <3>3. h[L] = b /\ \A e \in 0 .. L - 1 : h[e] = home[e]
      BY ONLY <3>2, h = [e \in 0 .. L |-> IF e = L THEN b ELSE home[e]]
    <3>4. \A e \in 0 .. L : (IF e = L THEN b ELSE home[e]) \in 0 .. c - 1
      BY ONLY <3>1, <3>2
    <3>5. h \in [0 .. L -> 0 .. c - 1]
      BY ONLY <3>4, h = [e \in 0 .. L |-> IF e = L THEN b ELSE home[e]]
    <3> QED
      BY ONLY <3>2, <3>3, <3>5
  <2>4. ASSUME NEW e \in 0 .. L, u.key[e + 1] # KeyHole
        PROVE  h[e] = HashToBucket(u, u.key[e + 1])
    <3>1. \A x : HashToBucket(u, x) = HashToBucket(t, x)
      BY <1>4 DEF HashToBucket
    <3>2. CASE e = L
      BY <1>5, <2>3, <3>1, <3>2
    <3>3. CASE e # L
      <4>1. e \in 0 .. L - 1 /\ e + 1 \in 1 .. L
        BY <1>2, <3>3
      <4>2. u.key[e + 1] = t.key[e + 1] /\ h[e] = home[e]
        BY ONLY <1>5, <2>3, <4>1
      <4>3. home[e] = HashToBucket(t, t.key[e + 1])
        BY <2>2, <2>4, <4>1, <4>2
      <4> QED
        BY <3>1, <4>2, <4>3
    <3> QED
      BY <3>2, <3>3
  <2>5. \A d \in 0 .. c - 1, n \in 0 .. L : \A e : IsLast(home, d, n, e) => IsLast(h, d, n, e)
    <3> SUFFICES ASSUME NEW d, NEW n \in 0 .. L, NEW e, IsLast(home, d, n, e)
                 PROVE  IsLast(h, d, n, e)
      OBVIOUS
    <3>1. \A f \in 0 .. n - 1 : h[f] = home[f]
      BY <1>2, <2>3
    <3>2. CASE e = NoEntry /\ \A f \in 0 .. n - 1 : home[f] # d
      BY <3>1, <3>2 DEF IsLast
    <3>3. CASE e \in 0 .. n - 1 /\ home[e] = d /\ \A f \in e + 1 .. n - 1 : home[f] # d
      <4>1. \A f \in e + 1 .. n - 1 : f \in 0 .. n - 1
        BY <3>3
      <4>2. h[e] = d /\ \A f \in e + 1 .. n - 1 : h[f] # d
        BY <3>1, <3>3, <4>1
      <4> QED
        BY <3>3, <4>2 DEF IsLast
    <3> QED
      BY <3>2, <3>3 DEF IsLast
  <2>6. ASSUME NEW d \in 0 .. c - 1
        PROVE  IsLast(h, d, L + 1, u.bucket[d])
    <3>1. CASE d = b
      <4>1. u.bucket[d] = L
        BY <1>1, <1>4, <3>1
      <4> QED
        BY <1>2, <2>3, <3>1, <4>1 DEF IsLast
    <3>2. CASE d # b
      <4>1. u.bucket[d] = t.bucket[d] /\ IsLast(h, d, L, t.bucket[d]) /\ h[L] # d
        <5>1. L \in 0 .. L
          BY <1>2
        <5> QED
          BY <1>1, <1>4, <2>2, <2>3, <2>5, <3>2, <5>1
      <4>2. /\ \A f \in 0 .. L : f \in 0 .. L - 1 \/ f = L
            /\ \A x \in 0 .. L - 1 : x \in 0 .. L /\ \A f \in x + 1 .. L : f \in x + 1 .. L - 1 \/ f = L
            /\ (L + 1) - 1 = L
        <5>1. L \in Nat
          BY <1>2
        <5>2. \A f \in 0 .. L : f \in 0 .. L - 1 \/ f = L
          BY ONLY <5>1
        <5>3. \A x \in 0 .. L - 1 : x \in 0 .. L
          BY ONLY <5>1
        <5>4. \A x \in 0 .. L - 1 : \A f \in x + 1 .. L : f \in x + 1 .. L - 1 \/ f = L
          BY ONLY <5>1
        <5>5. (L + 1) - 1 = L
          BY ONLY <5>1
        <5> QED
          BY ONLY <5>2, <5>3, <5>4, <5>5
      <4> QED
        BY <4>1, <4>2 DEF IsLast
    <3> QED
      BY <3>1, <3>2
  <2>7. ASSUME NEW e \in 0 .. L
        PROVE  IsLast(h, h[e], e, u.next[e + 1])
    <3>1. CASE e = L
      BY <1>2, <1>3, <1>6, <2>2, <2>3, <2>5, <3>1
    <3>2. CASE e # L
      <4>1. e \in 0 .. L - 1 /\ e + 1 \in 1 .. L /\ home[e] \in 0 .. c - 1
        <5>1. e \in 0 .. L - 1 /\ e + 1 \in 1 .. L
          BY <1>2, <3>2
        <5> QED
          BY <2>2, <5>1
      <4> QED
        BY <1>6, <2>2, <2>3, <2>5, <4>1
    <3> QED
      BY <3>1, <3>2
  <2>8. (L + 1) - 1 = L
    BY <1>2
  <2>9. IsHome(u, h)
    <3>1. Len(u.key) = L + 1 /\ Len(u.key) - 1 = L /\ u.capacity = c
      BY <1>4, <1>5, <2>8
    <3>2. h \in [0 .. Len(u.key) - 1 -> 0 .. u.capacity - 1]
      BY <2>3, <3>1
    <3>3. \A e \in 0 .. Len(u.key) - 1 : u.key[e + 1] # KeyHole => h[e] = HashToBucket(u, u.key[e + 1])
      BY <2>4, <3>1
    <3>4. \A d \in 0 .. u.capacity - 1 : IsLast(h, d, Len(u.key), u.bucket[d])
      BY <2>6, <3>1
    <3>5. \A e \in 0 .. Len(u.key) - 1 : IsLast(h, h[e], e, u.next[e + 1])
      BY <2>7, <3>1
    <3> QED
      BY <3>2, <3>3, <3>4, <3>5 DEF IsHome
  <2> QED
    BY <2>9 DEF ChainInv
<1> QED
  BY <1>4, <1>7, <1>8, <1>9, <1>10 DEF GoodTable

\* Entries turn to holes, and the links stay.
LEMMA HolesGood ==
    ASSUME NEW t, GoodTable(t), NEW u \in Records, u.capacity = t.capacity,
           u.bucket = t.bucket, u.next = t.next, Len(u.key) = Len(t.key), Used(u) = Used(t),
           \A i \in 1 .. Len(t.key) : u.key[i] = t.key[i] \/ u.key[i] = KeyHole,
           u.elements = Live(u, Len(t.key))
    PROVE  GoodTable(u)
<1> PICK L : L = Len(t.key)
  OBVIOUS
<1>1. RoomInv(t) /\ KeyInv(t) /\ ChainInv(t)
  BY DEF GoodTable
<1>2. L \in Nat /\ DOMAIN t.key = 1 .. L /\ u.key \in Seq(Entries) /\ DOMAIN u.key = 1 .. L
  <2>1. u.key \in Seq(Entries)
    BY DEF Records
  <2> QED
    BY <1>1, <2>1, RoomFacts, LenProperties
<1>3. RoomInv(u)
  BY <1>1 DEF RoomInv
<1>4. KeyInv(u)
  BY <1>1, <1>2 DEF KeyInv
<1>5. ChainInv(u)
  <2>1. PICK home : IsHome(t, home)
    BY <1>1 DEF ChainInv
  <2>2. \A x : HashToBucket(u, x) = HashToBucket(t, x)
    BY DEF HashToBucket
  <2>3. \A e \in 0 .. L - 1 : u.key[e + 1] # KeyHole => home[e] = HashToBucket(u, u.key[e + 1])
    <3>1. \A e \in 0 .. L - 1 : t.key[e + 1] # KeyHole => home[e] = HashToBucket(t, t.key[e + 1])
      BY <2>1 DEF IsHome
    <3>2. \A e \in 0 .. L - 1 : e + 1 \in 1 .. L
      BY <1>2
    <3> QED
      BY <2>2, <3>1, <3>2
  <2>4. IsHome(u, home)
    BY <2>1, <2>3 DEF IsHome
  <2> QED
    BY <2>4 DEF ChainInv
<1> QED
  BY <1>3, <1>4, <1>5 DEF GoodTable

\* One key less.
LEMMA LiveLess ==
    ASSUME NEW t, NEW u, t.key \in Seq(Entries), u.key \in Seq(Entries), Len(u.key) = Len(t.key),
           NEW p \in 1 .. Len(t.key), t.key[p] # KeyHole, u.key[p] = KeyHole,
           \A i \in 1 .. Len(t.key) : i # p => u.key[i] = t.key[i]
    PROVE  \A n \in 0 .. Len(t.key) : Live(u, n) = IF n >= p THEN Live(t, n) - 1 ELSE Live(t, n)
<1> PICK L : L = Len(t.key)
  OBVIOUS
<1> PICK N : N = {n \in 0 .. L : Live(u, n) = IF n >= p THEN Live(t, n) - 1 ELSE Live(t, n)}
  OBVIOUS
<1>1. L \in Nat /\ p \in 1 .. L
  BY LenProperties
<1>2. /\ Live(t, 0) = 0 /\ \A n \in 0 .. L : Live(t, n) \in Int
      /\ \A n \in 1 .. L : Live(t, n) = IF t.key[n] # KeyHole THEN Live(t, n - 1) + 1 ELSE Live(t, n - 1)
  BY <1>1, LiveFacts
<1>3. /\ Live(u, 0) = 0 /\ \A n \in 0 .. L : Live(u, n) \in Int
      /\ \A n \in 1 .. L : Live(u, n) = IF u.key[n] # KeyHole THEN Live(u, n - 1) + 1 ELSE Live(u, n - 1)
  BY <1>1, LiveFacts
<1>4. 0 \in N
  BY <1>1, <1>2, <1>3
<1>5. ASSUME NEW n \in 1 .. L, n - 1 \in N
      PROVE  n \in N
  <2>1. n \in 0 .. L /\ n - 1 \in 0 .. L /\ Live(t, n - 1) \in Int /\ Live(t, n) \in Int
    BY <1>1, <1>2
  <2>2. CASE n < p
    <3>1. u.key[n] = t.key[n] /\ Live(u, n - 1) = Live(t, n - 1)
      BY <1>1, <1>5, <2>1, <2>2
    <3>2. Live(t, n) = IF t.key[n] # KeyHole THEN Live(t, n - 1) + 1 ELSE Live(t, n - 1)
      BY ONLY <1>2, <1>5
    <3>3. Live(u, n) = IF u.key[n] # KeyHole THEN Live(u, n - 1) + 1 ELSE Live(u, n - 1)
      BY ONLY <1>3, <1>5
    <3>4. Live(u, n) = Live(t, n)
      BY ONLY <3>1, <3>2, <3>3
    <3>5. ~(n >= p)
      BY <1>1, <2>2
    <3> QED
      BY <1>1, <2>1, <3>4, <3>5
  <2>3. CASE n = p
    <3>1. Live(u, n - 1) = Live(t, n - 1)
      BY <1>1, <1>5, <2>1, <2>3
    <3>2. Live(t, n) = Live(t, n - 1) + 1
      BY ONLY <1>2, <1>5, <2>3, t.key[p] # KeyHole
    <3>3. Live(u, n) = Live(u, n - 1)
      BY ONLY <1>3, <1>5, <2>3, u.key[p] = KeyHole
    <3>4. Live(u, n) = Live(t, n) - 1
      BY ONLY <2>1, <3>1, <3>2, <3>3
    <3>5. n >= p
      BY <1>1, <2>3
    <3> QED
      BY <1>1, <2>1, <3>4, <3>5
  <2>4. CASE n > p
    <3>1. u.key[n] = t.key[n] /\ Live(u, n - 1) = Live(t, n - 1) - 1
      BY <1>1, <1>5, <2>1, <2>4
    <3>2. Live(t, n) = IF t.key[n] # KeyHole THEN Live(t, n - 1) + 1 ELSE Live(t, n - 1)
      BY ONLY <1>2, <1>5
    <3>3. Live(u, n) = IF u.key[n] # KeyHole THEN Live(u, n - 1) + 1 ELSE Live(u, n - 1)
      BY ONLY <1>3, <1>5
    <3>4. Live(u, n) = Live(t, n) - 1
      BY ONLY <2>1, <3>1, <3>2, <3>3
    <3>5. n >= p
      BY <1>1, <2>4
    <3> QED
      BY <1>1, <2>1, <3>4, <3>5
  <2> QED
    BY <1>1, <2>1, <2>2, <2>3, <2>4
<1>6. \A n \in 0 .. L : n \in N
  BY <1>1, <1>4, <1>5, UpTo
<1> QED
  BY <1>6

LEMMA RemoveGood ==
    ASSUME NEW t, GoodTable(t), NEW e \in 0 .. Len(t.key) - 1, t.key[e + 1] \in Keys
    PROVE  LET u == RemoveEntry(t, e)
           IN  /\ GoodTable(u) /\ u.key = [t.key EXCEPT ![e + 1] = KeyHole]
               /\ u.capacity = t.capacity /\ u.elements = t.elements - 1
<1> PICK L, u, p : L = Len(t.key) /\ u = RemoveEntry(t, e) /\ p = e + 1
  OBVIOUS
<1>1. RoomInv(t) /\ t.elements = Live(t, L) /\ t \in Records
  BY DEF GoodTable, RoomInv
<1>2. /\ L \in Nat /\ DOMAIN t.key = 1 .. L /\ t.key \in Seq(Entries) /\ Used(t) = L
      /\ t.elements \in Nat /\ t.deleted \in Nat /\ \A i \in 1 .. L : t.key[i] \in Entries
      /\ L = t.elements + t.deleted
  BY <1>1, RoomFacts DEF Used
<1>3. p \in 1 .. L /\ t.key[p] # KeyHole
  BY <1>2, HoleAssumption
<1> PICK key : key = [t.key EXCEPT ![p] = KeyHole]
  OBVIOUS
<1>4. /\ key \in Seq(Entries) /\ Len(key) = L /\ key[p] = KeyHole
      /\ \A i \in 1 .. L : i # p => key[i] = t.key[i]
  <2>1. KeyHole \in Entries
    BY DEF Entries
  <2> QED
    BY <1>2, <1>3, <2>1, ExceptSeq
<1>5. t.elements \in Nat \ {0}
  <2>1. L \in 0 .. L /\ p - 1 \in 0 .. L /\ p \in 0 .. L
    BY <1>2, <1>3
  <2>2. Live(t, p) = Live(t, p - 1) + 1 /\ Live(t, p - 1) \in Nat /\ Live(t, p) \in Nat
    <3>1. /\ \A n \in 1 .. L : t.key[n] # KeyHole => Live(t, n) = Live(t, n - 1) + 1
          /\ \A n \in 0 .. L : Live(t, n) \in 0 .. n
      BY <1>2, LiveFacts
    <3> QED
      BY <1>2, <1>3, <2>1, <3>1
  <2>3. Live(t, p) <= Live(t, L)
    BY <1>2, <1>3, <2>1, LiveGrows
  <2> QED
    BY <1>1, <1>2, <2>2, <2>3
<1>6. u = [t EXCEPT !.key = key, !.elements = t.elements - 1, !.deleted = t.deleted + 1]
  BY <1>1 DEF RemoveEntry, Records
<1>7. /\ u \in Records /\ u.key = key /\ u.capacity = t.capacity /\ u.elements = t.elements - 1
      /\ u.deleted = t.deleted + 1 /\ u.bucket = t.bucket /\ u.next = t.next
  <2>1. t.elements - 1 \in Nat /\ t.deleted + 1 \in Nat
    <3>1. t.elements \in Nat \ {0} /\ t.deleted \in Nat
      BY <1>2, <1>5
    <3> QED
      BY ONLY <3>1
  <2> QED
    BY ONLY <1>1, <1>4, <1>6, <2>1 DEF Records
<1>8. Used(u) = Used(t)
  <2> PICK x, y : x = t.elements /\ y = t.deleted
    OBVIOUS
  <2>1. x \in Nat /\ y \in Nat
    BY <1>2
  <2>2. (x - 1) + (y + 1) = x + y
    BY ONLY <2>1
  <2>3. u.elements = x - 1 /\ u.deleted = y + 1
    BY ONLY <1>7, x = t.elements, y = t.deleted
  <2> QED
    BY ONLY <2>2, <2>3, x = t.elements, y = t.deleted DEF Used
<1>9. u.elements = Live(u, L)
  <2>1. L \in 0 .. L /\ L >= p
    BY <1>2, <1>3
  <2>2. \A n \in 0 .. L : Live(u, n) = IF n >= p THEN Live(t, n) - 1 ELSE Live(t, n)
    <3>1. /\ t.key \in Seq(Entries) /\ u.key \in Seq(Entries) /\ Len(u.key) = Len(t.key)
          /\ p \in 1 .. Len(t.key) /\ t.key[p] # KeyHole /\ u.key[p] = KeyHole
      BY <1>2, <1>3, <1>4, <1>7
    <3>2. \A i \in 1 .. Len(t.key) : i # p => u.key[i] = t.key[i]
      BY <1>4, <1>7
    <3>3. \A n \in 0 .. Len(t.key) : Live(u, n) = IF n >= p THEN Live(t, n) - 1 ELSE Live(t, n)
      BY ONLY <3>1, <3>2, LiveLess
    <3> QED
      BY <3>3
  <2> QED
    BY <1>1, <1>7, <2>1, <2>2
<1>10. GoodTable(u)
  BY <1>3, <1>4, <1>7, <1>8, <1>9, HolesGood
<1> QED
  BY <1>7, <1>10

LEMMA ClearGood ==
    ASSUME NEW t, GoodTable(t)
    PROVE  LET u == ClearTable(t)
           IN  /\ GoodTable(u) /\ Len(u.key) = Len(t.key)
               /\ \A i \in 1 .. Len(t.key) : u.key[i] = KeyHole
<1> PICK L, u : L = Len(t.key) /\ u = ClearTable(t)
  OBVIOUS
<1>1. RoomInv(t) /\ t \in Records
  BY DEF GoodTable, RoomInv
<1>2. /\ L \in Nat /\ DOMAIN t.key = 1 .. L /\ Used(t) = L
  BY <1>1, RoomFacts DEF Used
<1> PICK key : key = [i \in 1 .. L |-> KeyHole]
  OBVIOUS
<1>3. /\ key \in Seq(Entries) /\ Len(key) = L /\ \A i \in 1 .. L : key[i] = KeyHole
  <2>1. key \in [1 .. L -> Entries]
    BY DEF Entries
  <2> QED
    BY <1>2, <2>1, SeqDef, LenProperties
<1>4. u = [t EXCEPT !.key = key, !.elements = 0, !.deleted = L]
  BY <1>1, <1>2 DEF ClearTable, Records
<1>5. /\ u \in Records /\ u.key = key /\ u.capacity = t.capacity /\ u.elements = 0
      /\ u.deleted = L /\ u.bucket = t.bucket /\ u.next = t.next
  BY ONLY <1>1, <1>2, <1>3, <1>4 DEF Records
<1>6. Used(u) = Used(t)
  BY <1>2, <1>5 DEF Used
<1>7. u.elements = Live(u, L)
  <2>1. 0 \in 0 .. Len(u.key) /\ L \in 0 .. Len(u.key) /\ \A i \in 0 + 1 .. L : u.key[i] = KeyHole
    BY <1>2, <1>3, <1>5
  <2>2. u.key \in Seq(Entries) /\ L \in 0 .. Len(u.key) /\ L \in 0 .. L
    BY <1>2, <1>3, <1>5
  <2>3. Live(u, 0) = Live(u, L)
    BY ONLY <1>2, <2>1, <2>2, LiveGrows
  <2>4. Live(u, 0) = 0
    BY ONLY <2>2, LiveFacts
  <2> QED
    BY <1>5, <2>3, <2>4
<1>8. GoodTable(u)
  BY <1>3, <1>5, <1>6, <1>7, HolesGood
<1> QED
  BY <1>3, <1>5, <1>8

-----------------------------------------------------------------------------
(* Holes, and what Rehash leaves behind *)

HolePlaces(t, n) == {i \in 1 .. n : t.key[i] = KeyHole}

\* Every entry is a key or a hole.
LEMMA HolesFacts ==
    ASSUME NEW t, t.key \in Seq(Entries)
    PROVE  \A n \in 0 .. Len(t.key) : Holes(t, n) \in 0 .. n /\ Holes(t, n) = n - Live(t, n)
<1> PICK L : L = Len(t.key)
  OBVIOUS
<1>1. L \in Nat /\ Live(t, 0) = 0
  BY LenProperties, LiveFacts
<1>2. /\ \A n \in 0 .. L : Live(t, n) \in 0 .. n
      /\ \A n \in 1 .. L : Live(t, n) = IF t.key[n] # KeyHole THEN Live(t, n - 1) + 1 ELSE Live(t, n - 1)
  BY LiveFacts
<1>3. \A n \in 0 .. L : Holes(t, n) = Cardinality(HolePlaces(t, n)) /\ IsFiniteSet(HolePlaces(t, n))
  <2> SUFFICES ASSUME NEW n \in 0 .. L
               PROVE  Holes(t, n) = Cardinality(HolePlaces(t, n)) /\ IsFiniteSet(HolePlaces(t, n))
    OBVIOUS
  <2>1. Holes(t, n) = Cardinality(HolePlaces(t, n))
    BY DEF Holes, HolePlaces
  <2>2. IsFiniteSet(1 .. n)
    BY FS_Interval
  <2>3. HolePlaces(t, n) \in SUBSET (1 .. n)
    BY DEF HolePlaces
  <2>4. IsFiniteSet(HolePlaces(t, n))
    BY <2>2, <2>3, FS_Subset
  <2> QED
    BY <2>1, <2>4
<1> PICK N : N = {n \in 0 .. L : Holes(t, n) = n - Live(t, n)}
  OBVIOUS
<1>4. 0 \in N
  <2>1. HolePlaces(t, 0) = {}
    BY DEF HolePlaces
  <2>2. Holes(t, 0) = 0
    BY <1>1, <1>3, <2>1, FS_EmptySet
  <2> QED
    BY <1>1, <2>2
<1>5. ASSUME NEW n \in 1 .. L, n - 1 \in N
      PROVE  n \in N
  <2>1. n \in 0 .. L /\ n - 1 \in 0 .. L /\ Live(t, n - 1) \in Int /\ Live(t, n) \in Int
    BY <1>1, <1>2
  <2>2. Holes(t, n - 1) = (n - 1) - Live(t, n - 1)
    BY <1>5
  <2>3. CASE t.key[n] = KeyHole
    <3>1. HolePlaces(t, n) = HolePlaces(t, n - 1) \cup {n} /\ n \notin HolePlaces(t, n - 1)
      BY <2>1, <2>3 DEF HolePlaces
    <3>2. IsFiniteSet(HolePlaces(t, n - 1))
      BY <1>3, <2>1
    <3>3. Cardinality(HolePlaces(t, n)) = Cardinality(HolePlaces(t, n - 1)) + 1
      BY ONLY <3>1, <3>2, FS_AddElement
    <3>4. Holes(t, n) = Holes(t, n - 1) + 1
      BY <1>3, <2>1, <3>3
    <3>5. Live(t, n) = Live(t, n - 1)
      BY <1>2, <2>3
    <3> QED
      BY <2>1, <2>2, <3>4, <3>5
  <2>4. CASE t.key[n] # KeyHole
    <3>1. HolePlaces(t, n) = HolePlaces(t, n - 1)
      BY <2>1, <2>4 DEF HolePlaces
    <3>2. Holes(t, n) = Holes(t, n - 1)
      BY <1>3, <2>1, <3>1
    <3>3. Live(t, n) = Live(t, n - 1) + 1
      BY <1>2, <2>4
    <3> QED
      BY <2>1, <2>2, <3>2, <3>3
  <2> QED
    BY <2>3, <2>4
<1>6. \A n \in 0 .. L : n \in N
  BY <1>1, <1>4, <1>5, UpTo
<1>7. \A n \in 0 .. L : Holes(t, n) = n - Live(t, n) /\ Live(t, n) \in 0 .. n
  BY <1>2, <1>6
<1> QED
  BY <1>1, <1>7

LEMMA LinksInRange ==
    ASSUME NEW t, RoomInv(t), ChainInv(t)
    PROVE  /\ \A b \in 0 .. t.capacity - 1 : t.bucket[b] \in NoEntry .. Len(t.key) - 1
           /\ \A i \in 1 .. Len(t.key) : t.next[i] \in NoEntry .. Len(t.key)
<1> PICK L : L = Len(t.key)
  OBVIOUS
<1>0. L \in Nat
  BY RoomFacts
<1>1. PICK home : IsHome(t, home)
  BY DEF ChainInv
<1>2. \A b \in 0 .. t.capacity - 1 : IsLast(home, b, L, t.bucket[b])
  BY <1>1 DEF IsHome
<1>3. \A e \in 0 .. L - 1 : IsLast(home, home[e], e, t.next[e + 1])
  BY <1>1 DEF IsHome
<1>4. \A b, n, e : n \in Nat /\ IsLast(home, b, n, e) => e \in NoEntry .. n - 1
  BY DEF IsLast, NoEntry
<1>5. \A b \in 0 .. t.capacity - 1 : t.bucket[b] \in NoEntry .. L - 1
  BY <1>0, <1>2, <1>4
<1>6. ASSUME NEW i \in 1 .. L
      PROVE  t.next[i] \in NoEntry .. L
  <2>1. i - 1 \in 0 .. L - 1 /\ (i - 1) + 1 = i /\ i - 1 \in Nat
    BY <1>0
  <2>2. IsLast(home, home[i - 1], i - 1, t.next[i])
    BY <1>3, <2>1
  <2>3. t.next[i] \in NoEntry .. (i - 1) - 1
    BY <1>4, <2>1, <2>2
  <2> QED
    BY <1>0, <2>1, <2>3 DEF NoEntry
<1> QED
  BY <1>5, <1>6

LEMMA AbandonOld ==
    ASSUME NEW t, GoodTable(t)
    PROVE  LET u == Abandoned(t)
           IN  OldTable(u) /\ u.key = t.key
<1> PICK L, u, next1 : /\ L = Len(t.key) /\ u = Abandoned(t)
                       /\ next1 = [i \in 1 .. L |-> IF t.key[i] = KeyHole THEN Holes(t, i) ELSE t.next[i]]
  OBVIOUS
<1>1. RoomInv(t) /\ t \in Records /\ ChainInv(t)
  BY DEF GoodTable, RoomInv
<1>2. /\ L \in Nat /\ DOMAIN t.key = 1 .. L /\ DOMAIN t.next = 1 .. L /\ Used(t) = L
      /\ t.key \in Seq(Entries) /\ \A i \in 1 .. L : t.next[i] \in Int
  BY <1>1, RoomFacts DEF Used
<1>3. \A i \in 1 .. L : Holes(t, i) \in 0 .. i
  <2>1. \A i \in 0 .. L : Holes(t, i) \in 0 .. i
    BY <1>2, HolesFacts
  <2> QED
    BY <1>2, <2>1
<1>4. next1 \in Seq(Int) /\ Len(next1) = L
  <2>1. next1 \in [1 .. L -> Int]
    BY <1>2, <1>3
  <2> QED
    BY <1>2, <2>1, SeqDef, LenProperties
<1>5. u = [t EXCEPT !.next = next1]
  BY <1>1, <1>2 DEF Abandoned, Records
<1>6. /\ u \in Records /\ u.key = t.key /\ u.capacity = t.capacity /\ u.elements = t.elements
      /\ u.deleted = t.deleted /\ u.bucket = t.bucket /\ u.next = next1
  BY ONLY <1>1, <1>4, <1>5 DEF Records
<1>7. RoomInv(u)
  BY <1>1, <1>2, <1>4, <1>6 DEF RoomInv, Used
<1>8. /\ \A b \in 0 .. t.capacity - 1 : t.bucket[b] \in NoEntry .. L - 1
      /\ \A i \in 1 .. L : t.next[i] \in NoEntry .. L
  BY <1>1, LinksInRange
<1>9. \A i \in 1 .. L : Holes(u, i) = Holes(t, i)
  BY <1>6 DEF Holes
<1>10. OldTable(u)
  <2>1. ASSUME NEW i \in 1 .. L
        PROVE  u.next[i] \in NoEntry .. L /\ (u.key[i] = KeyHole => u.next[i] = Holes(u, i))
    <3>1. CASE t.key[i] = KeyHole
      BY <1>2, <1>3, <1>6, <1>9, <3>1 DEF NoEntry
    <3>2. CASE t.key[i] # KeyHole
      BY <1>6, <1>8, <3>2
    <3> QED
      BY <3>1, <3>2
  <2>2. Used(u) = L /\ DOMAIN u.key = 1 .. L
    BY <1>2, <1>6 DEF Used
  <2> QED
    BY <1>6, <1>7, <1>8, <2>1, <2>2 DEF OldTable
<1> QED
  BY <1>6, <1>10

-----------------------------------------------------------------------------
(* No more entries than keys *)

KeySet(t, n) == {t.key[i] : i \in 1 .. n} \cap Keys

LEMMA KeysCounted ==
    ASSUME NEW t, t.key \in Seq(Entries), KeyInv(t)
    PROVE  \A n \in 0 .. Len(t.key) : Live(t, n) = Cardinality(KeySet(t, n))
<1> PICK L : L = Len(t.key)
  OBVIOUS
<1>1. L \in Nat /\ Live(t, 0) = 0 /\ DOMAIN t.key = 1 .. L /\ \A i \in 1 .. L : t.key[i] \in Entries
  BY LenProperties, ElementOfSeq, LiveFacts
<1>2. /\ \A n \in 0 .. L : Live(t, n) \in 0 .. n
      /\ \A n \in 1 .. L : Live(t, n) = IF t.key[n] # KeyHole THEN Live(t, n - 1) + 1 ELSE Live(t, n - 1)
  BY LiveFacts
<1> PICK N : N = {n \in 0 .. L : Live(t, n) = Cardinality(KeySet(t, n))}
  OBVIOUS
<1>3. 0 \in N
  <2>1. KeySet(t, 0) = {}
    BY DEF KeySet
  <2>2. Cardinality(KeySet(t, 0)) = 0 /\ 0 \in 0 .. L
    <3>1. \A S : S = {} => Cardinality(S) = 0
      BY FS_EmptySet
    <3> QED
      BY <1>1, <2>1, <3>1
  <2> QED
    BY <1>1, <2>2
<1>4. ASSUME NEW n \in 1 .. L, n - 1 \in N
      PROVE  n \in N
  <2>1. n \in 0 .. L /\ n - 1 \in 0 .. L /\ Live(t, n - 1) \in Int /\ Live(t, n) \in Int
    BY <1>1, <1>2
  <2>2. Live(t, n - 1) = Cardinality(KeySet(t, n - 1))
    BY <1>4
  <2>3. \A i \in 1 .. n : i \in 1 .. n - 1 \/ i = n
    OBVIOUS
  <2>4. CASE t.key[n] = KeyHole
    <3>1. KeySet(t, n) = KeySet(t, n - 1)
      BY <2>3, <2>4, HoleAssumption DEF KeySet
    <3> QED
      BY <1>2, <2>1, <2>2, <2>4, <3>1
  <2>5. CASE t.key[n] # KeyHole
    <3>1. t.key[n] \in Keys
      BY <1>1, <2>5 DEF Entries
    <3>2. \A i \in 1 .. n - 1 : t.key[i] # t.key[n]
      BY <1>1, <2>5 DEF KeyInv
    <3>3. KeySet(t, n) = KeySet(t, n - 1) \cup {t.key[n]}
      BY <2>3, <3>1 DEF KeySet
    <3>4. t.key[n] \notin KeySet(t, n - 1)
      BY <3>2 DEF KeySet
    <3>5. KeySet(t, n - 1) \in SUBSET Keys
      BY DEF KeySet
    <3>6. IsFiniteSet(KeySet(t, n - 1))
      BY <3>5, KeysAssumption, FS_Subset
    <3>7. Cardinality(KeySet(t, n)) = Cardinality(KeySet(t, n - 1)) + 1
      BY ONLY <3>3, <3>4, <3>6, FS_AddElement
    <3> QED
      BY <1>2, <2>1, <2>2, <2>5, <3>7
  <2> QED
    BY <2>4, <2>5
<1>5. \A n \in 0 .. L : n \in N
  BY <1>1, <1>3, <1>4, UpTo
<1> QED
  BY <1>5

LEMMA ElementsBound ==
    ASSUME NEW t, GoodTable(t)
    PROVE  /\ t.elements <= Cardinality(Keys)
           /\ \A k \in Keys : (\A i \in DOMAIN t.key : t.key[i] # k) => t.elements + 1 <= Cardinality(Keys)
<1> PICK L : L = Len(t.key)
  OBVIOUS
<1> PICK S : S = KeySet(t, L)
  OBVIOUS
<1>1. RoomInv(t) /\ KeyInv(t) /\ t.elements = Live(t, L)
  BY DEF GoodTable
<1>2. L \in 0 .. L /\ DOMAIN t.key = 1 .. L /\ t.elements \in Nat /\ t.key \in Seq(Entries)
  BY <1>1, RoomFacts
<1>3. t.elements = Cardinality(S)
  BY <1>1, <1>2, KeysCounted
<1>4. S \in SUBSET Keys
  BY DEF KeySet
<1>5. IsFiniteSet(Keys) /\ Cardinality(Keys) \in Nat
  BY KeysAssumption, FS_CardinalityType
<1>6. Cardinality(S) <= Cardinality(Keys)
  BY <1>4, <1>5, FS_Subset
<1>7. ASSUME NEW k \in Keys, \A i \in DOMAIN t.key : t.key[i] # k
      PROVE  t.elements + 1 <= Cardinality(Keys)
  <2>1. S \in SUBSET (Keys \ {k})
    BY <1>2, <1>4, <1>7 DEF KeySet
  <2>2. IsFiniteSet(Keys \ {k}) /\ Cardinality(Keys \ {k}) = Cardinality(Keys) - 1
    BY ONLY <1>5, <1>7, FS_RemoveElement
  <2>3. Cardinality(S) <= Cardinality(Keys \ {k})
    BY <2>1, <2>2, FS_Subset
  <2> QED
    BY <1>2, <1>3, <1>5, <2>2, <2>3
<1> QED
  BY <1>3, <1>6, <1>7

-----------------------------------------------------------------------------
(* Rehash fills a new table *)

FillStep(t, capacity, f, n) ==
    IF n = 0 THEN Create(capacity)
    ELSE IF t.key[n] = KeyHole THEN f[n - 1]
    ELSE InsertNewEntry(f[n - 1], t.key[n])

IsFilled(t, capacity, f) == f = [n \in 0 .. Len(t.key) |-> FillStep(t, capacity, f, n)]
Filled(t, capacity) == CHOOSE f : IsFilled(t, capacity, f)

LEMMA FilledExists ==
    ASSUME NEW t, t.key \in Seq(Entries), NEW capacity
    PROVE  IsFilled(t, capacity, Filled(t, capacity))
<1>1. Len(t.key) \in Nat
  BY LenProperties
<1> PICK len : len = Len(t.key)
  OBVIOUS
<1> DEFINE N == {n \in 0 .. len : \E f : f = [k \in 0 .. n |-> FillStep(t, capacity, f, k)]}
<1>2. 0 \in N
  <2> DEFINE f == [k \in 0 .. 0 |-> Create(capacity)]
  <2>1. f = [k \in 0 .. 0 |-> FillStep(t, capacity, f, k)]
    BY DEF FillStep
  <2> QED
    BY <1>1, <2>1
<1>3. ASSUME NEW n \in 1 .. len, n - 1 \in N
      PROVE  n \in N
  <2>1. PICK f : f = [k \in 0 .. n - 1 |-> FillStep(t, capacity, f, k)]
    BY <1>3
  <2> DEFINE g == [k \in 0 .. n |-> IF k = n THEN FillStep(t, capacity, f, n) ELSE f[k]]
  <2>2. \A k \in 0 .. n : g[k] = FillStep(t, capacity, g, k)
    <3> SUFFICES ASSUME NEW k \in 0 .. n
                 PROVE  g[k] = FillStep(t, capacity, g, k)
      OBVIOUS
    <3>1. k = 0 \/ (k - 1 \in 0 .. n - 1 /\ k - 1 \in 0 .. n /\ k - 1 # n)
      OBVIOUS
    <3>2. k = 0 \/ g[k - 1] = f[k - 1]
      BY <3>1
    <3>3. FillStep(t, capacity, g, k) = FillStep(t, capacity, f, k)
      BY <3>2 DEF FillStep
    <3>4. k # n => f[k] = FillStep(t, capacity, f, k)
      <4>1. k # n => k \in 0 .. n - 1
        OBVIOUS
      <4> QED
        BY <2>1, <4>1
    <3> QED
      BY <3>3, <3>4
  <2>3. g = [k \in 0 .. n |-> FillStep(t, capacity, g, k)]
    BY <2>2
  <2> HIDE DEF g
  <2>4. \E h : h = [k \in 0 .. n |-> FillStep(t, capacity, h, k)]
    BY <2>3
  <2>5. n \in 0 .. len
    BY <1>1
  <2> QED
    BY <2>4, <2>5
<1>4. len \in N
  <2> HIDE DEF N
  <2>1. \A i \in 0 .. len : i \in N
    BY <1>1, <1>2, <1>3, UpTo
  <2>2. len \in 0 .. len
    BY <1>1
  <2> QED
    BY <2>1, <2>2
<1> QED
  BY <1>4 DEF Filled, IsFilled

\* The new table holds the keys of the old one, in their order, and no hole.
LEMMA RehashGood ==
    ASSUME NEW t, GoodTable(t), NEW capacity \in Nat \ {0}, t.elements <= capacity
    PROVE  LET u == Rehashed(t, capacity)
           IN  /\ GoodTable(u) /\ u.key = Kept(t.key, Keys) /\ Len(u.key) = t.elements
               /\ u.capacity = capacity /\ u.deleted = 0
<1> PICK L, K, F : L = Len(t.key) /\ K = KeptUpTo(t.key, Keys) /\ F = Filled(t, capacity)
  OBVIOUS
<1>1. RoomInv(t) /\ KeyInv(t) /\ t.elements = Live(t, L)
  BY DEF GoodTable
<1>2. /\ L \in Nat /\ DOMAIN t.key = 1 .. L /\ t.elements \in Nat /\ t.key \in Seq(Entries)
      /\ \A i \in 1 .. L : t.key[i] \in Entries
  BY <1>1, RoomFacts
<1>3. /\ K[0] = <<>>
      /\ \A n \in 1 .. L : K[n] = IF t.key[n] \in Keys THEN Append(K[n - 1], t.key[n]) ELSE K[n - 1]
      /\ \A n \in 0 .. L : K[n] \in Seq(Entries) /\ Live(t, n) = Len(K[n])
  BY <1>2, KeptFacts DEF Live
<1>4. F = [n \in 0 .. L |-> FillStep(t, capacity, F, n)] /\ Rehashed(t, capacity) = F[L]
  <2>1. IsFilled(t, capacity, F)
    BY <1>2, FilledExists
  <2> QED
    BY <2>1 DEF IsFilled, Rehashed, Filled, FillStep
<1> DEFINE Fits(u, n) == /\ GoodTable(u) /\ u.key = K[n] /\ u.capacity = capacity /\ u.deleted = 0
<1> DEFINE N == {n \in 0 .. L : Fits(F[n], n)}
<1>5. 0 \in N
  <2>1. 0 \in 0 .. L /\ F[0] = Create(capacity)
    BY <1>2, <1>4 DEF FillStep
  <2> QED
    BY <1>3, <2>1, CreateGood
<1>6. ASSUME NEW n \in 1 .. L, n - 1 \in N
      PROVE  n \in N
  <2>1. /\ n \in 0 .. L /\ n - 1 \in 0 .. L /\ n # 0
        /\ F[n] = IF t.key[n] = KeyHole THEN F[n - 1] ELSE InsertNewEntry(F[n - 1], t.key[n])
    <3>1. n \in 0 .. L /\ n - 1 \in 0 .. L /\ n # 0
      BY <1>2
    <3>2. F[n] = FillStep(t, capacity, F, n)
      BY <1>4, <3>1
    <3> QED
      BY <3>1, <3>2 DEF FillStep
  <2> PICK v, k : v = F[n - 1] /\ k = t.key[n]
    OBVIOUS
  <2>2. GoodTable(v) /\ v.key = K[n - 1] /\ v.capacity = capacity /\ v.deleted = 0
    BY <1>6
  <2>3. CASE k = KeyHole
    <3>1. K[n] = K[n - 1] /\ F[n] = v
      BY <1>3, <2>1, <2>3, HoleAssumption
    <3> QED
      BY <2>1, <2>2, <3>1
  <2>4. CASE k # KeyHole
    <3>1. k \in Keys
      BY <1>2, <2>4 DEF Entries
    <3>2. K[n] = Append(K[n - 1], k) /\ F[n] = InsertNewEntry(v, k)
      BY <1>3, <2>1, <2>4, <3>1
    <3>3. \A i \in DOMAIN v.key : v.key[i] # k
      <4>1. ToSet(K[n - 1]) = {t.key[j] : j \in 1 .. n - 1} \cap Keys
        <5> PICK s, m : s = t.key /\ m = n - 1
          OBVIOUS
        <5>1. s \in Seq(Entries) /\ m \in 0 .. Len(s)
          BY <1>2, <2>1
        <5>2. \A j \in 0 .. Len(s) : ToSet(KeptUpTo(s, Keys)[j]) = {s[i] : i \in 1 .. j} \cap Keys
          BY ONLY <5>1, KeptElements
        <5> QED
          BY <5>1, <5>2
      <4>2. \A j \in 1 .. n - 1 : t.key[j] # k
        <5> SUFFICES ASSUME NEW j \in 1 .. n - 1
                     PROVE  t.key[j] # k
          OBVIOUS
        <5>1. j \in 1 .. L /\ n \in 1 .. L /\ j # n
          BY <1>2
        <5>2. KeyInv(t) /\ DOMAIN t.key = 1 .. L
          BY <1>1, <1>2
        <5> QED
          BY ONLY <2>4, <5>1, <5>2, k = t.key[n] DEF KeyInv
      <4>3. k \notin ToSet(K[n - 1])
        BY <4>1, <4>2
      <4> QED
        BY <2>2, <4>3 DEF ToSet
    <3>4. Len(v.key) < v.capacity
      <4>1. Live(t, n - 1) + 1 = Live(t, n) /\ Live(t, n - 1) \in Nat /\ Live(t, n) \in Nat
        <5>1. /\ \A m \in 1 .. L : t.key[m] # KeyHole => Live(t, m) = Live(t, m - 1) + 1
              /\ \A m \in 0 .. L : Live(t, m) \in 0 .. m
          BY <1>2, LiveFacts
        <5> QED
          BY <2>1, <2>4, <5>1
      <4>2. Live(t, n) <= Live(t, L)
        <5>1. n \in 0 .. Len(t.key) /\ L \in n .. Len(t.key)
          BY <1>2, <2>1
        <5> QED
          BY <1>2, <5>1, LiveGrows
      <4>3. Len(v.key) = Live(t, n - 1)
        BY <1>3, <2>1, <2>2
      <4> QED
        BY <1>1, <1>2, <2>2, <4>1, <4>2, <4>3
    <3> PICK u : u = InsertNewEntry(v, k)
      OBVIOUS
    <3>5. GoodTable(u) /\ u.key = Append(v.key, k) /\ u.capacity = v.capacity /\ u.deleted = v.deleted
      BY <2>2, <3>1, <3>3, <3>4, InsertGood, ZenonT(40)
    <3> QED
      BY <2>1, <2>2, <3>2, <3>5
  <2> QED
    BY <2>3, <2>4
<1>7. L \in N
  <2> HIDE DEF N
  <2>1. \A i \in 0 .. L : i \in N
    BY <1>2, <1>5, <1>6, UpTo
  <2> QED
    BY <1>2, <2>1
<1>8. Len(K[L]) = t.elements
  BY <1>1, <1>2, <1>3
<1> QED
  BY <1>4, <1>7, <1>8 DEF Kept

-----------------------------------------------------------------------------
(* Looking for a key *)

WalkStep(t, k, f, e) == IF e = NoEntry \/ IsMatch(k, t.key[e + 1]) THEN e ELSE f[t.next[e + 1]]
IsWalk(t, k, f) == f = [e \in NoEntry .. Len(t.key) - 1 |-> WalkStep(t, k, f, e)]
WalkOf(t, k) == CHOOSE f : IsWalk(t, k, f)

\* A chain leads back.
LEMMA NextIsBefore ==
    ASSUME NEW t, RoomInv(t), ChainInv(t)
    PROVE  \A e \in 0 .. Len(t.key) - 1 : t.next[e + 1] \in NoEntry .. e - 1
<1>1. Len(t.key) \in Nat
  BY RoomFacts
<1>2. PICK home : IsHome(t, home)
  BY DEF ChainInv
<1>3. \A e \in 0 .. Len(t.key) - 1 : IsLast(home, home[e], e, t.next[e + 1])
  BY <1>2 DEF IsHome
<1> QED
  BY <1>1, <1>3 DEF IsLast, NoEntry

LEMMA WalkExists ==
    ASSUME NEW t, RoomInv(t), ChainInv(t), NEW k
    PROVE  IsWalk(t, k, WalkOf(t, k))
<1> PICK len : len = Len(t.key)
  OBVIOUS
<1>1. len \in Nat /\ \A e \in 0 .. len - 1 : t.next[e + 1] \in NoEntry .. e - 1
  BY RoomFacts, NextIsBefore
<1> DEFINE N == {n \in 0 .. len : \E f : f = [e \in NoEntry .. n - 1 |-> WalkStep(t, k, f, e)]}
<1>2. 0 \in N
  <2> DEFINE f == [e \in NoEntry .. 0 - 1 |-> NoEntry]
  <2>1. \A e \in NoEntry .. 0 - 1 : e = NoEntry
    BY DEF NoEntry
  <2>2. f = [e \in NoEntry .. 0 - 1 |-> WalkStep(t, k, f, e)]
    BY <2>1 DEF WalkStep
  <2> QED
    BY <1>1, <2>2
<1>3. ASSUME NEW n \in 1 .. len, n - 1 \in N
      PROVE  n \in N
  <2>1. PICK f : f = [e \in NoEntry .. (n - 1) - 1 |-> WalkStep(t, k, f, e)]
    BY <1>3
  <2> DEFINE g == [e \in NoEntry .. n - 1 |-> IF e = n - 1 THEN WalkStep(t, k, f, e) ELSE f[e]]
  <2>2. \A e \in NoEntry .. n - 1 : g[e] = WalkStep(t, k, g, e)
    <3> SUFFICES ASSUME NEW e \in NoEntry .. n - 1
                 PROVE  g[e] = WalkStep(t, k, g, e)
      OBVIOUS
    <3>1. \A x \in NoEntry .. (n - 1) - 1 : x \in NoEntry .. n - 1 /\ x # n - 1 /\ g[x] = f[x]
      BY DEF NoEntry
    <3>2. e = NoEntry \/ t.next[e + 1] \in NoEntry .. (n - 1) - 1
      <4>1. CASE e # NoEntry
        <5>1. e \in 0 .. len - 1 /\ e \in Int /\ e <= n - 1 /\ n - 1 \in Int
          BY <1>1, <4>1 DEF NoEntry
        <5>2. t.next[e + 1] \in NoEntry .. e - 1
          BY <1>1, <5>1
        <5> QED
          BY <5>1, <5>2 DEF NoEntry
      <4> QED
        BY <4>1
    <3>3. WalkStep(t, k, g, e) = WalkStep(t, k, f, e)
      <4> HIDE DEF g
      <4> QED
        BY <3>1, <3>2 DEF WalkStep
    <3>4. e # n - 1 => e \in NoEntry .. (n - 1) - 1
      BY DEF NoEntry
    <3>5. e # n - 1 => f[e] = WalkStep(t, k, f, e)
      BY <2>1, <3>4
    <3> QED
      BY <3>3, <3>5
  <2>3. g = [e \in NoEntry .. n - 1 |-> WalkStep(t, k, g, e)]
    BY <2>2
  <2> HIDE DEF g
  <2>4. \E h : h = [e \in NoEntry .. n - 1 |-> WalkStep(t, k, h, e)]
    BY <2>3
  <2>5. n \in 0 .. len
    BY <1>1
  <2> QED
    BY <2>4, <2>5
<1>4. len \in N
  <2> HIDE DEF N
  <2>1. \A i \in 0 .. len : i \in N
    BY <1>1, <1>2, <1>3, UpTo
  <2>2. len \in 0 .. len
    BY <1>1
  <2> QED
    BY <2>1, <2>2
<1> QED
  BY <1>4 DEF WalkOf, IsWalk

\* What stands in an entry is equal to k and in k's bucket.
IsSame(k, element) == IsMatch(k, element) /\ Hash[element] = Hash[k]

\* r is an entry up to e that holds a key equal to k, NoEntry when none in k's bucket does.
IsFound(t, k, e, r) ==
    \/ r = NoEntry /\ \A f \in 0 .. e : ~IsSame(k, t.key[f + 1])
    \/ r \in 0 .. e /\ IsMatch(k, t.key[r + 1])

LEMMA FindExact ==
    ASSUME NEW t, RoomInv(t), ChainInv(t), NEW k \in Keys
    PROVE  IsFound(t, k, Len(t.key) - 1, FindElement(t, k))
<1> PICK L, c, b, W : /\ L = Len(t.key) /\ c = t.capacity /\ b = HashToBucket(t, k)
                      /\ W = WalkOf(t, k)
  OBVIOUS
<1>1. /\ L \in Nat /\ b \in 0 .. c - 1
      /\ \A e \in 0 .. L - 1 : t.next[e + 1] \in NoEntry .. e - 1
  BY RoomFacts, BucketOfKey, NextIsBefore
<1>2. W = [e \in NoEntry .. L - 1 |-> WalkStep(t, k, W, e)]
  BY WalkExists DEF IsWalk
<1>3. FindElement(t, k) = W[t.bucket[b]]
  BY DEF FindElement, WalkOf, IsWalk, WalkStep
<1>4. PICK home : IsHome(t, home)
  BY DEF ChainInv
<1>5. /\ \A e \in 0 .. L - 1 : IsSame(k, t.key[e + 1]) => home[e] = b
      /\ IsLast(home, b, L, t.bucket[b])
      /\ \A e \in 0 .. L - 1 : IsLast(home, home[e], e, t.next[e + 1])
  <2>1. \A x : IsSame(k, x) => x # KeyHole /\ HashToBucket(t, x) = b
    BY DEF IsSame, IsMatch, HashToBucket
  <2> QED
    BY <1>1, <1>4, <2>1 DEF IsHome
<1> DEFINE Chain(e) == e = NoEntry \/ home[e] = b
<1> DEFINE N == {n \in 0 .. L : \A e \in NoEntry .. n - 1 : Chain(e) => IsFound(t, k, e, W[e])}
<1>6. 0 \in N
  <2>1. \A e \in NoEntry .. 0 - 1 : e = NoEntry /\ e \in NoEntry .. L - 1
    BY <1>1 DEF NoEntry
  <2>2. \A e \in NoEntry .. 0 - 1 : W[e] = NoEntry
    BY <1>2, <2>1 DEF WalkStep
  <2>3. \A e \in NoEntry .. 0 - 1 : IsFound(t, k, e, W[e])
    BY <2>1, <2>2 DEF IsFound, NoEntry
  <2> QED
    BY <1>1, <2>3
<1>7. ASSUME NEW n \in 1 .. L, n - 1 \in N
      PROVE  n \in N
  <2>1. \A e \in NoEntry .. (n - 1) - 1 : Chain(e) => IsFound(t, k, e, W[e])
    BY <1>7
  <2> SUFFICES ASSUME NEW e \in NoEntry .. n - 1, Chain(e)
               PROVE  IsFound(t, k, e, W[e])
    <3>1. n \in 0 .. L
      BY <1>1
    <3> QED
      BY <3>1
  <2>2. CASE e # n - 1
    <3>1. e \in NoEntry .. (n - 1) - 1
      BY <2>2 DEF NoEntry
    <3> QED
      BY <2>1, <3>1
  <2>3. CASE e = n - 1
    <3>1. e \in 0 .. L - 1 /\ e \in Nat /\ e \in NoEntry .. L - 1 /\ e # NoEntry /\ home[e] = b
      BY <1>1, <2>3 DEF NoEntry
    <3>2. W[e] = IF IsMatch(k, t.key[e + 1]) THEN e ELSE W[t.next[e + 1]]
      BY <1>2, <3>1 DEF WalkStep
    <3>3. CASE IsMatch(k, t.key[e + 1])
      BY <3>1, <3>2, <3>3 DEF IsFound
    <3>4. CASE ~IsMatch(k, t.key[e + 1])
      <4> PICK m : m = t.next[e + 1]
        OBVIOUS
      <4>1. m \in NoEntry .. e - 1 /\ IsLast(home, b, e, m) /\ W[e] = W[m]
        BY <1>1, <1>5, <3>1, <3>2, <3>4
      <4>2. m \in NoEntry .. (n - 1) - 1 /\ Chain(m)
        BY <2>3, <4>1 DEF IsLast, NoEntry
      <4>3. IsFound(t, k, m, W[e])
        BY <2>1, <4>1, <4>2
      <4>4. \A f \in 0 .. e : f \in 0 .. m \/ ~IsSame(k, t.key[f + 1])
        <5> SUFFICES ASSUME NEW f \in 0 .. e, f \notin 0 .. m, IsSame(k, t.key[f + 1])
                     PROVE  FALSE
          OBVIOUS
        <5>1. f # e /\ f \in 0 .. L - 1 /\ home[f] = b
          <6>1. f # e
            BY <3>4 DEF IsSame
          <6>2. f \in 0 .. L - 1
            BY <1>1, <3>1
          <6> QED
            BY <1>5, <6>1, <6>2
        <5>2. f \in 0 .. e - 1 /\ (m # NoEntry => f \in m + 1 .. e - 1)
          <6>1. e \in Nat /\ m \in -1 .. e - 1 /\ f \in 0 .. e /\ f # e /\ f \notin 0 .. m
            BY ONLY <3>1, <4>1, <5>1, f \in 0 .. e, f \notin 0 .. m DEF NoEntry
          <6>2. f \in 0 .. e - 1
            BY ONLY <6>1
          <6>3. m # -1 => f \in m + 1 .. e - 1
            BY ONLY <6>1
          <6> QED
            BY ONLY <6>2, <6>3 DEF NoEntry
        <5> QED
          BY <4>1, <5>1, <5>2 DEF IsLast
      <4>5. \A f \in 0 .. m : f \in 0 .. e
        BY <3>1, <4>1 DEF NoEntry
      <4> QED
        BY <4>3, <4>4, <4>5 DEF IsFound
    <3> QED
      BY <3>3, <3>4
  <2> QED
    BY <2>2, <2>3
<1>8. L \in N
  <2> HIDE DEF N
  <2>1. \A i \in 0 .. L : i \in N
    BY <1>1, <1>6, <1>7, UpTo
  <2> QED
    BY <1>1, <2>1
<1> PICK e : e = t.bucket[b]
  OBVIOUS
<1>9. e \in NoEntry .. L - 1 /\ Chain(e)
  BY <1>1, <1>5 DEF IsLast, NoEntry
<1>10. IsFound(t, k, e, W[e])
  BY <1>8, <1>9
<1>11. \A f \in 0 .. L - 1 : f \in 0 .. e \/ ~IsSame(k, t.key[f + 1])
  <2> SUFFICES ASSUME NEW f \in 0 .. L - 1, f \notin 0 .. e, IsSame(k, t.key[f + 1])
               PROVE  FALSE
    OBVIOUS
  <2>1. home[f] = b
    BY <1>5
  <2>2. e # NoEntry => f \in e + 1 .. L - 1
    BY <1>1, <1>9 DEF NoEntry
  <2> QED
    BY <1>5, <2>1, <2>2 DEF IsLast
<1>12. \A f \in 0 .. e : f \in 0 .. L - 1
  BY <1>1, <1>9 DEF NoEntry
<1> QED
  BY <1>3, <1>10, <1>11, <1>12 DEF IsFound

\* A lookup finds nothing but keys equal to k, and never misses one that is hashed alike.
LEMMA PlacesOfKey ==
    ASSUME NEW t, GoodTable(t), NEW k \in Keys
    PROVE  /\ FindElement(t, k) = NoEntry =>
                \A i \in DOMAIN t.key : t.key[i] # k /\ ~IsSame(k, t.key[i])
           /\ FindElement(t, k) # NoEntry =>
                /\ FindElement(t, k) \in 0 .. Len(t.key) - 1
                /\ FindElement(t, k) + 1 \in 1 .. Len(t.key)
                /\ IsMatch(k, t.key[FindElement(t, k) + 1])
<1> PICK L, r : L = Len(t.key) /\ r = FindElement(t, k)
  OBVIOUS
<1>1. RoomInv(t) /\ ChainInv(t)
  BY DEF GoodTable
<1>2. L \in Nat /\ DOMAIN t.key = 1 .. L /\ k # KeyHole
  BY <1>1, RoomFacts, HoleAssumption
<1>3. IsFound(t, k, L - 1, r)
  BY <1>1, FindExact
<1>4. \A i \in 1 .. L : i - 1 \in 0 .. L - 1 /\ (i - 1) + 1 = i
  BY <1>2
<1>5. ASSUME r = NoEntry
      PROVE  \A i \in DOMAIN t.key : t.key[i] # k /\ ~IsSame(k, t.key[i])
  <2>1. \A f \in 0 .. L - 1 : ~IsSame(k, t.key[f + 1])
    BY <1>3, <1>5 DEF IsFound, NoEntry
  <2>2. \A i \in 1 .. L : ~IsSame(k, t.key[i])
    BY <1>4, <2>1
  <2>3. IsSame(k, k)
    BY <1>2 DEF IsSame, IsMatch
  <2> QED
    BY <1>2, <2>2, <2>3
<1>6. ASSUME r # NoEntry
      PROVE  r \in 0 .. L - 1 /\ r + 1 \in 1 .. L /\ IsMatch(k, t.key[r + 1])
  <2>1. r \in 0 .. L - 1 /\ IsMatch(k, t.key[r + 1])
    BY <1>3, <1>6 DEF IsFound
  <2>2. r + 1 \in 1 .. L
    BY <1>2, <2>1
  <2> QED
    BY <2>1, <2>2
<1> QED
  BY <1>5, <1>6

-----------------------------------------------------------------------------
(* The tables *)

TablesOK(ts) ==
    /\ ts \in Seq(Records) /\ ts # <<>>
    /\ GoodTable(ts[Len(ts)])
    /\ \A n \in 1 .. Len(ts) - 1 :
        OldTable(ts[n]) /\ Live(ts[n], Len(ts[n].key)) <= Len(ts[n + 1].key)

LEMMA TablesFacts ==
    ASSUME NEW ts, TablesOK(ts)
    PROVE  /\ ts \in Seq(Records) /\ Len(ts) \in Nat \ {0} /\ DOMAIN ts = 1 .. Len(ts)
           /\ Last(ts) = ts[Len(ts)] /\ GoodTable(ts[Len(ts)])
           /\ \A n \in 1 .. Len(ts) :
                /\ RoomInv(ts[n]) /\ Len(ts[n].key) \in Nat /\ ts[n].key \in Seq(Entries)
                /\ Used(ts[n]) = Len(ts[n].key)
<1>1. ts \in Seq(Records) /\ Len(ts) \in Nat \ {0} /\ DOMAIN ts = 1 .. Len(ts)
  BY EmptySeq, LenProperties DEF TablesOK
<1>2. Last(ts) = ts[Len(ts)] /\ GoodTable(ts[Len(ts)])
  BY DEF Last, TablesOK
<1>3. ASSUME NEW n \in 1 .. Len(ts)
      PROVE  /\ RoomInv(ts[n]) /\ Len(ts[n].key) \in Nat /\ ts[n].key \in Seq(Entries)
             /\ Used(ts[n]) = Len(ts[n].key)
  <2>1. RoomInv(ts[n])
    <3>1. CASE n = Len(ts)
      BY <1>2, <3>1 DEF GoodTable
    <3>2. CASE n # Len(ts)
      <4>1. n \in 1 .. Len(ts) - 1
        <5> PICK L : L = Len(ts)
          OBVIOUS
        <5>1. L \in Nat /\ n \in 1 .. L /\ n # L
          BY <1>1, <3>2
        <5> QED
          BY <5>1
      <4> QED
        BY <4>1 DEF TablesOK, OldTable
    <3> QED
      BY <3>1, <3>2
  <2> PICK t : t = ts[n]
    OBVIOUS
  <2>2. Len(t.key) \in Nat /\ t.key \in Seq(Entries)
    BY <2>1, RoomFacts
  <2> QED
    BY <2>1, <2>2 DEF RoomInv
<1> QED
  BY <1>1, <1>2, <1>3

\* The table in use is replaced ...
LEMMA PutFacts ==
    ASSUME NEW ts \in Seq(Records), ts # <<>>, NEW u \in Records
    PROVE  LET us == Front(ts) \o <<u>>
           IN  /\ us \in Seq(Records) /\ Len(us) = Len(ts) /\ us[Len(ts)] = u
               /\ \A n \in 1 .. Len(ts) - 1 : us[n] = ts[n]
<1> PICK L, f, us : L = Len(ts) /\ f = SubSeq(ts, 1, L - 1) /\ us = Front(ts) \o <<u>>
  OBVIOUS
<1>1. L \in Nat \ {0} /\ \A i \in 1 .. L : ts[i] \in Records
  BY EmptySeq, LenProperties, ElementOfSeq
<1>2. us = f \o <<u>>
  BY DEF Front
<1>3. f \in Seq(Records) /\ Len(f) = L - 1 /\ \A i \in 1 .. L - 1 : f[i] = ts[i]
  <2>1. 1 \in Int /\ L - 1 \in Int /\ \A i \in 1 .. L - 1 : ts[i] \in Records
    BY <1>1
  <2>2. /\ f \in Seq(Records) /\ Len(f) = IF 1 <= L - 1 THEN (L - 1) - 1 + 1 ELSE 0
        /\ \A i \in 1 .. (L - 1) - 1 + 1 : f[i] = ts[1 + i - 1]
    BY <2>1, SubSeqProperties
  <2>3. (IF 1 <= L - 1 THEN (L - 1) - 1 + 1 ELSE 0) = L - 1
    BY <1>1
  <2>4. \A i \in 1 .. L - 1 : i \in 1 .. (L - 1) - 1 + 1 /\ 1 + i - 1 = i
    BY <1>1
  <2> QED
    BY <2>2, <2>3, <2>4
<1>4. <<u>> \in Seq(Records) /\ Len(<<u>>) = 1 /\ <<u>>[1] = u
  OBVIOUS
<1>5. /\ us \in Seq(Records) /\ Len(us) = (L - 1) + 1
      /\ \A i \in 1 .. (L - 1) + 1 : us[i] = IF i <= L - 1 THEN f[i] ELSE <<u>>[i - (L - 1)]
  <2> PICK s2 : s2 = <<u>>
    OBVIOUS
  <2>1. s2 \in Seq(Records) /\ Len(s2) = 1 /\ us = f \o s2
    BY <1>2, <1>4
  <2>2. /\ us \in Seq(Records) /\ Len(us) = Len(f) + Len(s2)
        /\ \A i \in 1 .. Len(f) + Len(s2) : us[i] = IF i <= Len(f) THEN f[i] ELSE s2[i - Len(f)]
    BY ONLY <1>3, <2>1, ConcatProperties
  <2> QED
    BY <1>3, <2>1, <2>2
<1>6. us[L] = u
  <2>1. L \in 1 .. (L - 1) + 1 /\ ~(L <= L - 1) /\ L - (L - 1) = 1
    BY <1>1
  <2> QED
    BY <1>4, <1>5, <2>1
<1>7. \A n \in 1 .. L - 1 : us[n] = ts[n]
  <2>1. \A n \in 1 .. L - 1 : n \in 1 .. L + 1 /\ n <= L - 1
    BY <1>1
  <2> QED
    BY ONLY <1>3, <1>5, <2>1
<1> QED
  BY <1>1, <1>5, <1>6, <1>7

\* ... or left behind.
LEMMA TwoFacts ==
    ASSUME NEW ts \in Seq(Records), ts # <<>>, NEW u \in Records, NEW v \in Records
    PROVE  LET us == Front(ts) \o <<u, v>>
           IN  /\ us \in Seq(Records) /\ Len(us) = Len(ts) + 1
               /\ us[Len(ts)] = u /\ us[Len(ts) + 1] = v
               /\ \A n \in 1 .. Len(ts) - 1 : us[n] = ts[n]
<1> PICK L, f, us : L = Len(ts) /\ f = SubSeq(ts, 1, L - 1) /\ us = Front(ts) \o <<u, v>>
  OBVIOUS
<1>1. L \in Nat \ {0} /\ \A i \in 1 .. L : ts[i] \in Records
  BY EmptySeq, LenProperties, ElementOfSeq
<1>2. us = f \o <<u, v>>
  BY DEF Front
<1>3. f \in Seq(Records) /\ Len(f) = L - 1 /\ \A i \in 1 .. L - 1 : f[i] = ts[i]
  <2>1. 1 \in Int /\ L - 1 \in Int /\ \A i \in 1 .. L - 1 : ts[i] \in Records
    BY <1>1
  <2>2. /\ f \in Seq(Records) /\ Len(f) = IF 1 <= L - 1 THEN (L - 1) - 1 + 1 ELSE 0
        /\ \A i \in 1 .. (L - 1) - 1 + 1 : f[i] = ts[1 + i - 1]
    BY <2>1, SubSeqProperties
  <2>3. (IF 1 <= L - 1 THEN (L - 1) - 1 + 1 ELSE 0) = L - 1
    BY <1>1
  <2>4. \A i \in 1 .. L - 1 : i \in 1 .. (L - 1) - 1 + 1 /\ 1 + i - 1 = i
    BY <1>1
  <2> QED
    BY <2>2, <2>3, <2>4
<1>4. <<u, v>> \in Seq(Records) /\ Len(<<u, v>>) = 2 /\ <<u, v>>[1] = u /\ <<u, v>>[2] = v
  OBVIOUS
<1> PICK s2 : s2 = <<u, v>>
  OBVIOUS
<1>5. /\ us \in Seq(Records) /\ Len(us) = L + 1
      /\ \A i \in 1 .. L + 1 : us[i] = IF i <= L - 1 THEN f[i] ELSE s2[i - (L - 1)]
  <2>1. s2 \in Seq(Records) /\ Len(s2) = 2 /\ us = f \o s2
    BY <1>2, <1>4
  <2>2. /\ us \in Seq(Records) /\ Len(us) = Len(f) + Len(s2)
        /\ \A i \in 1 .. Len(f) + Len(s2) : us[i] = IF i <= Len(f) THEN f[i] ELSE s2[i - Len(f)]
    BY ONLY <1>3, <2>1, ConcatProperties
  <2>3. Len(f) + Len(s2) = L + 1
    BY <1>1, <1>3, <2>1
  <2> QED
    BY <1>3, <2>2, <2>3
<1>6. us[L] = u /\ us[L + 1] = v
  <2>1. /\ L \in 1 .. L + 1 /\ ~(L <= L - 1) /\ L - (L - 1) = 1
        /\ L + 1 \in 1 .. L + 1 /\ ~(L + 1 <= L - 1) /\ (L + 1) - (L - 1) = 2
    BY <1>1
  <2> QED
    BY <1>4, <1>5, <2>1
<1>7. \A n \in 1 .. L - 1 : us[n] = ts[n]
  <2>1. \A n \in 1 .. L - 1 : n \in 1 .. L + 1 /\ n <= L - 1
    BY <1>1
  <2> QED
    BY ONLY <1>3, <1>5, <2>1
<1> QED
  BY <1>1, <1>5, <1>6, <1>7

LEMMA PutOK ==
    ASSUME NEW ts, TablesOK(ts), NEW u, GoodTable(u), Len(ts[Len(ts)].key) <= Len(u.key)
    PROVE  TablesOK(Front(ts) \o <<u>>)
<1> PICK L, us : L = Len(ts) /\ us = Front(ts) \o <<u>>
  OBVIOUS
<1>1. /\ ts \in Seq(Records) /\ ts # <<>> /\ L \in Nat \ {0} /\ u \in Records /\ Len(u.key) \in Nat
      /\ \A n \in 1 .. L : Len(ts[n].key) \in Nat /\ ts[n].key \in Seq(Entries)
  <2>1. RoomInv(u)
    BY DEF GoodTable
  <2>2. u \in Records /\ Len(u.key) \in Nat
    BY <2>1, RoomFacts DEF RoomInv
  <2> QED
    BY <2>2, TablesFacts DEF TablesOK
<1>2. /\ us \in Seq(Records) /\ Len(us) = L /\ us[L] = u
      /\ \A n \in 1 .. L - 1 : us[n] = ts[n]
  BY <1>1, PutFacts
<1>3. us # <<>>
  BY <1>1, <1>2
<1>4. ASSUME NEW n \in 1 .. L - 1
      PROVE  OldTable(us[n]) /\ Live(us[n], Len(us[n].key)) <= Len(us[n + 1].key)
  <2>1. n \in 1 .. L /\ n + 1 \in 1 .. L /\ us[n] = ts[n] /\ OldTable(ts[n])
        /\ Live(ts[n], Len(ts[n].key)) <= Len(ts[n + 1].key)
    BY <1>1, <1>2 DEF TablesOK
  <2>2. CASE n + 1 = L
    <3> PICK t, l : t = ts[n] /\ l = Live(t, Len(t.key))
      OBVIOUS
    <3>1. t.key \in Seq(Entries) /\ Len(t.key) \in 0 .. Len(t.key)
      BY <1>1, <2>1
    <3>2. l \in 0 .. Len(t.key)
      BY <3>1, LiveFacts
    <3>3. l <= Len(ts[L].key) /\ Len(ts[L].key) <= Len(u.key)
      BY <2>1, <2>2
    <3>4. l <= Len(u.key)
      BY <1>1, <2>1, <2>2, <3>1, <3>2, <3>3
    <3> QED
      BY <1>2, <2>1, <2>2, <3>4
  <2>3. CASE n + 1 # L
    <3>1. n + 1 \in 1 .. L - 1
      BY <1>1, <2>3
    <3> QED
      BY <1>2, <2>1, <3>1
  <2> QED
    BY <2>2, <2>3
<1> QED
  BY <1>2, <1>3, <1>4 DEF TablesOK

LEMMA RehashOK ==
    ASSUME NEW ts, TablesOK(ts), NEW t, GoodTable(t), Len(t.key) = Len(ts[Len(ts)].key),
           NEW v, GoodTable(v), t.elements <= Len(v.key)
    PROVE  TablesOK(Front(ts) \o <<Abandoned(t), v>>)
<1> PICK L, u, us : L = Len(ts) /\ u = Abandoned(t) /\ us = Front(ts) \o <<u, v>>
  OBVIOUS
<1>1. OldTable(u) /\ u.key = t.key
  BY AbandonOld
<1>2. ts \in Seq(Records) /\ ts # <<>> /\ L \in Nat \ {0} /\ u \in Records /\ v \in Records
  BY <1>1, TablesFacts DEF TablesOK, GoodTable, RoomInv, OldTable
<1>3. /\ us \in Seq(Records) /\ Len(us) = L + 1 /\ us[L] = u /\ us[L + 1] = v
      /\ \A n \in 1 .. L - 1 : us[n] = ts[n]
  BY <1>2, TwoFacts
<1>4. us # <<>>
  BY <1>2, <1>3
<1>5. ASSUME NEW n \in 1 .. L
      PROVE  OldTable(us[n]) /\ Live(us[n], Len(us[n].key)) <= Len(us[n + 1].key)
  <2>1. CASE n = L
    <3>1. Live(u, Len(u.key)) = t.elements
      BY <1>1 DEF GoodTable, Live
    <3> QED
      BY <1>1, <1>3, <2>1, <3>1
  <2>2. CASE n # L
    <3>1. n \in 1 .. L - 1 /\ us[n] = ts[n] /\ OldTable(ts[n])
          /\ Live(ts[n], Len(ts[n].key)) <= Len(ts[n + 1].key)
      <4>1. n \in 1 .. L - 1
        BY <1>2, <2>2
      <4> QED
        BY <1>3, <4>1 DEF TablesOK
    <3>2. Len(us[n + 1].key) = Len(ts[n + 1].key)
      <4>1. CASE n + 1 = L
        BY <1>1, <1>3, <4>1
      <4>2. CASE n + 1 # L
        <5>1. n + 1 \in 1 .. L - 1
          BY <1>2, <3>1, <4>2
        <5> QED
          BY <1>3, <5>1
      <4> QED
        BY <4>1, <4>2
    <3> QED
      BY <3>1, <3>2
  <2> QED
    BY <2>1, <2>2
<1>6. Len(us) - 1 = L /\ us[Len(us)] = v
  BY <1>2, <1>3
<1> QED
  BY <1>3, <1>4, <1>5, <1>6 DEF TablesOK

LEMMA TailOK ==
    ASSUME NEW ts, TablesOK(ts), Len(ts) > 1
    PROVE  /\ TablesOK(Tail(ts)) /\ Len(Tail(ts)) = Len(ts) - 1
           /\ \A n \in 1 .. Len(ts) - 1 : Tail(ts)[n] = ts[n + 1]
<1> PICK L, us : L = Len(ts) /\ us = Tail(ts)
  OBVIOUS
<1>1. ts \in Seq(Records) /\ L \in Nat /\ L > 1
  BY TablesFacts
<1>2. us \in Seq(Records) /\ Len(us) = L - 1 /\ \A n \in 1 .. L - 1 : us[n] = ts[n + 1]
  BY <1>1
<1>3. us # <<>> /\ us[Len(us)] = ts[L]
  <2>1. L - 1 \in 1 .. L - 1 /\ (L - 1) + 1 = L /\ L - 1 # 0
    BY <1>1
  <2> QED
    BY <1>2, <2>1
<1>4. ASSUME NEW n \in 1 .. Len(us) - 1
      PROVE  OldTable(us[n]) /\ Live(us[n], Len(us[n].key)) <= Len(us[n + 1].key)
  <2>1. n \in 1 .. L - 1 /\ n + 1 \in 1 .. L - 1
    BY <1>1, <1>2
  <2>2. us[n] = ts[n + 1] /\ us[n + 1] = ts[(n + 1) + 1]
    BY <1>2, <2>1
  <2> QED
    BY <2>1, <2>2 DEF TablesOK
<1> QED
  BY <1>2, <1>3, <1>4 DEF TablesOK

-----------------------------------------------------------------------------
(* Where a cursor goes on *)

\* The last hole before a cursor counts them all.
LEMMA DeletedAreHoles ==
    ASSUME NEW t, OldTable(t), NEW n \in 0 .. Len(t.key)
    PROVE  n - GetDeletedElementsAt(t, n) = Live(t, n)
<1> PICK L, H : L = Len(t.key) /\ H = HolePlaces(t, n)
  OBVIOUS
<1>1. /\ L \in Nat /\ t.key \in Seq(Entries) /\ DOMAIN t.key = 1 .. L
      /\ \A i \in 1 .. L : t.key[i] = KeyHole => t.next[i] = Holes(t, i)
  BY RoomFacts DEF OldTable
<1>2. H \in SUBSET (1 .. n) /\ n \in Nat /\ n <= L
  BY <1>1 DEF HolePlaces
<1>3. Holes(t, n) = n - Live(t, n) /\ Live(t, n) \in 0 .. n
  BY <1>1, HolesFacts, LiveFacts
<1>4. GetDeletedElementsAt(t, n) =
        IF H = {} THEN 0 ELSE t.next[CHOOSE i \in H : \A j \in H : j <= i]
  BY DEF GetDeletedElementsAt, HolePlaces
<1>5. CASE H = {}
  <2>1. Holes(t, n) = Cardinality(H)
    BY DEF Holes, HolePlaces
  <2>2. \A S : S = {} => Cardinality(S) = 0
    BY FS_EmptySet
  <2> QED
    BY <1>2, <1>3, <1>4, <1>5, <2>1, <2>2
<1>6. CASE H # {}
  <2> PICK D : D = {n - i : i \in H}
    OBVIOUS
  <2>1. D \in SUBSET Nat /\ D # {}
    BY <1>2, <1>6
  <2>2. PICK d \in D : \A m \in D : d <= m
    BY <2>1, LeastElement
  <2>3. PICK i \in H : d = n - i
    BY <2>2
  <2>4. \A j \in H : n - i <= n - j
    BY <2>2, <2>3
  <2>5. \A j \in H : j <= i
    BY <1>2, <2>3, <2>4
  <2> PICK m : m = CHOOSE x \in H : \A j \in H : j <= x
    OBVIOUS
  <2>6. m \in H /\ \A j \in H : j <= m
    BY <2>3, <2>5
  <2>7. t.key[m] = KeyHole /\ m \in 1 .. L /\ m \in 1 .. n
    BY <1>1, <1>2, <2>6 DEF HolePlaces
  <2>8. HolePlaces(t, m) = HolePlaces(t, n)
    <3>1. \A x : x \in HolePlaces(t, n) <=> x \in 1 .. n /\ t.key[x] = KeyHole
      BY DEF HolePlaces
    <3>2. \A x : x \in HolePlaces(t, m) <=> x \in 1 .. m /\ t.key[x] = KeyHole
      BY DEF HolePlaces
    <3>3. \A x \in HolePlaces(t, n) : x \in 1 .. m
      BY <1>2, <2>6, <2>7
    <3>4. \A x \in 1 .. m : x \in 1 .. n
      BY <1>2, <2>7
    <3> QED
      BY <3>1, <3>2, <3>3, <3>4
  <2>9. Holes(t, m) = Holes(t, n)
    BY <2>8 DEF Holes, HolePlaces
  <2>10. GetDeletedElementsAt(t, n) = Holes(t, n)
    BY <1>1, <1>4, <1>6, <2>7, <2>9
  <2> QED
    BY <1>2, <1>3, <2>10
<1> QED
  BY <1>5, <1>6

PositionOK(ts, p) ==
    p \in Positions /\ p.table \in 1 .. Len(ts) /\ p.index \in 0 .. Len(ts[p.table].key)

UpdateStep(ts, p, f, n) ==
    IF n = p.table THEN p.index ELSE f[n - 1] - GetDeletedElementsAt(ts[n - 1], f[n - 1])
IsUpdate(ts, p, f) == f = [n \in p.table .. Len(ts) |-> UpdateStep(ts, p, f, n)]
UpdateOf(ts, p) == CHOOSE f : IsUpdate(ts, p, f)

LEMMA UpdateExists ==
    ASSUME NEW ts, TablesOK(ts), NEW p, PositionOK(ts, p)
    PROVE  IsUpdate(ts, p, UpdateOf(ts, p))
<1> PICK a, b : a = p.table /\ b = Len(ts)
  OBVIOUS
<1>1. a \in Nat /\ b \in Nat /\ a <= b
  BY TablesFacts DEF PositionOK
<1> PICK len : len = b - a
  OBVIOUS
<1>2. len \in Nat /\ a + len = b
  BY <1>1
<1> DEFINE N == {n \in 0 .. len : \E f : f = [k \in a .. a + n |-> UpdateStep(ts, p, f, k)]}
<1>3. 0 \in N
  <2> DEFINE f == [k \in a .. a + 0 |-> p.index]
  <2>1. \A k \in a .. a + 0 : k = a
    BY <1>1
  <2>2. f = [k \in a .. a + 0 |-> UpdateStep(ts, p, f, k)]
    BY <2>1 DEF UpdateStep
  <2> QED
    BY <1>2, <2>2
<1>4. ASSUME NEW n \in 1 .. len, n - 1 \in N
      PROVE  n \in N
  <2>1. PICK f : f = [k \in a .. a + (n - 1) |-> UpdateStep(ts, p, f, k)]
    BY <1>4
  <2> DEFINE g == [k \in a .. a + n |-> IF k = a + n THEN UpdateStep(ts, p, f, k) ELSE f[k]]
  <2>2. \A k \in a .. a + n : g[k] = UpdateStep(ts, p, g, k)
    <3> SUFFICES ASSUME NEW k \in a .. a + n
                 PROVE  g[k] = UpdateStep(ts, p, g, k)
      OBVIOUS
    <3>1. k = a \/ (k - 1 \in a .. a + (n - 1) /\ k - 1 \in a .. a + n /\ k - 1 # a + n)
      <4>1. a \in Int /\ n \in Int
        BY <1>1
      <4> QED
        BY ONLY <4>1, k \in a .. a + n
    <3>2. k = a \/ g[k - 1] = f[k - 1]
      BY <3>1
    <3>3. UpdateStep(ts, p, g, k) = UpdateStep(ts, p, f, k)
      <4> HIDE DEF g
      <4> QED
        BY <3>2 DEF UpdateStep
    <3>4. k # a + n => k \in a .. a + (n - 1)
      BY <1>1
    <3>5. k # a + n => f[k] = UpdateStep(ts, p, f, k)
      BY <2>1, <3>4
    <3> QED
      BY <3>3, <3>5
  <2>3. g = [k \in a .. a + n |-> UpdateStep(ts, p, g, k)]
    BY <2>2
  <2> HIDE DEF g
  <2>4. \E h : h = [k \in a .. a + n |-> UpdateStep(ts, p, h, k)]
    BY <2>3
  <2>5. n \in 0 .. len
    BY <1>2
  <2> QED
    BY <2>4, <2>5
<1>5. len \in N
  <2> HIDE DEF N
  <2>1. \A i \in 0 .. len : i \in N
    BY <1>2, <1>3, <1>4, UpTo
  <2>2. len \in 0 .. len
    BY <1>2
  <2> QED
    BY <2>1, <2>2
<1>6. PICK f : f = [k \in a .. a + len |-> UpdateStep(ts, p, f, k)]
  BY <1>5
<1>7. a .. a + len = p.table .. Len(ts)
  BY <1>2
<1>8. IsUpdate(ts, p, f)
  BY <1>6, <1>7 DEF IsUpdate
<1> QED
  BY <1>8 DEF UpdateOf

\* A cursor is moved from table to table by the holes in front of it.
LEMMA UpdateFacts ==
    ASSUME NEW ts, TablesOK(ts), NEW p, PositionOK(ts, p)
    PROVE  LET f == UpdateOf(ts, p)
           IN  /\ f[p.table] = p.index
               /\ \A n \in p.table .. Len(ts) : f[n] \in 0 .. Len(ts[n].key)
               /\ \A n \in p.table + 1 .. Len(ts) : f[n] = Live(ts[n - 1], f[n - 1])
<1> PICK a, b, f : a = p.table /\ b = Len(ts) /\ f = UpdateOf(ts, p)
  OBVIOUS
<1>1. /\ a \in 1 .. b /\ b \in Nat /\ a \in Nat /\ p.index \in 0 .. Len(ts[a].key)
      /\ \A n \in 1 .. b : Len(ts[n].key) \in Nat /\ ts[n].key \in Seq(Entries)
  BY TablesFacts DEF PositionOK
<1>2. f = [n \in a .. b |-> UpdateStep(ts, p, f, n)]
  BY UpdateExists DEF IsUpdate
<1>3. f[a] = p.index
  BY <1>1, <1>2 DEF UpdateStep
<1>4. ASSUME NEW n \in a + 1 .. b, f[n - 1] \in 0 .. Len(ts[n - 1].key)
      PROVE  f[n] = Live(ts[n - 1], f[n - 1]) /\ f[n] \in 0 .. Len(ts[n].key)
  <2> PICK m, t, i : m = n - 1 /\ t = ts[m] /\ i = f[m]
    OBVIOUS
  <2>1. n \in a .. b /\ n # a /\ m \in 1 .. b - 1 /\ m \in 1 .. b /\ n \in 1 .. b /\ m + 1 = n
    BY <1>1
  <2>2. f[n] = i - GetDeletedElementsAt(t, i)
    BY <1>2, <2>1 DEF UpdateStep
  <2>3. OldTable(t) /\ Live(t, Len(t.key)) <= Len(ts[n].key)
    BY <2>1 DEF TablesOK
  <2>4. i \in 0 .. Len(t.key)
    BY <1>4
  <2>5. f[n] = Live(t, i)
    BY <2>2, <2>3, <2>4, DeletedAreHoles
  <2>6. t.key \in Seq(Entries) /\ Len(t.key) \in i .. Len(t.key) /\ Len(t.key) \in 0 .. Len(t.key)
    BY <1>1, <2>1, <2>4
  <2>7. Live(t, i) <= Live(t, Len(t.key)) /\ Live(t, i) \in 0 .. i /\ Live(t, Len(t.key)) \in 0 .. Len(t.key)
    <3>1. Live(t, i) <= Live(t, Len(t.key))
      BY <2>4, <2>6, LiveGrows
    <3>2. \A x \in 0 .. Len(t.key) : Live(t, x) \in 0 .. x
      BY <2>6, LiveFacts
    <3> QED
      BY <2>4, <2>6, <3>1, <3>2
  <2>8. Len(ts[n].key) \in Nat
    BY <1>1, <2>1
  <2> QED
    BY <2>3, <2>4, <2>5, <2>7, <2>8
<1> PICK len : len = b - a
  OBVIOUS
<1>5. len \in Nat /\ a + len = b
  BY <1>1
<1> PICK N : N = {d \in 0 .. len : f[a + d] \in 0 .. Len(ts[a + d].key)}
  OBVIOUS
<1>6. 0 \in N
  <2>1. a + 0 = a
    BY <1>1
  <2>2. f[a] \in 0 .. Len(ts[a].key)
    BY <1>1, <1>3
  <2>3. f[a + 0] \in 0 .. Len(ts[a + 0].key)
    BY <2>1, <2>2
  <2>4. 0 \in 0 .. len
    BY <1>5
  <2> QED
    BY <2>3, <2>4
<1>7. ASSUME NEW d \in 1 .. len, d - 1 \in N
      PROVE  d \in N
  <2> PICK n : n = a + d
    OBVIOUS
  <2>1. n \in a + 1 .. b /\ n - 1 = a + (d - 1) /\ d \in 0 .. len
    <3>1. a \in Int /\ b \in Int /\ len \in Nat /\ a + len = b /\ d \in 1 .. len /\ n = a + d
      BY ONLY <1>1, <1>5, d \in 1 .. len, n = a + d
    <3> QED
      BY ONLY <3>1
  <2>2. f[n - 1] \in 0 .. Len(ts[n - 1].key)
    BY <1>7, <2>1
  <2>3. f[n] \in 0 .. Len(ts[n].key)
    BY <1>4, <2>1, <2>2
  <2> QED
    BY <2>1, <2>3
<1>8. \A d \in 0 .. len : d \in N
  BY <1>5, <1>6, <1>7, UpTo
<1>9. \A n \in a .. b : f[n] \in 0 .. Len(ts[n].key)
  <2> SUFFICES ASSUME NEW n \in a .. b
               PROVE  f[n] \in 0 .. Len(ts[n].key)
    OBVIOUS
  <2>1. n - a \in 0 .. len /\ a + (n - a) = n
    BY <1>1, <1>5
  <2>2. n - a \in N
    BY <1>8, <2>1
  <2> QED
    BY <2>1, <2>2
<1>10. \A n \in a + 1 .. b : n - 1 \in a .. b
  BY <1>1
<1> QED
  BY <1>3, <1>4, <1>9, <1>10

\* The way of a cursor depends on the keys of the tables it leaves.
LEMMA SameUpdate ==
    ASSUME NEW ts, TablesOK(ts), NEW us, TablesOK(us), NEW p, PositionOK(ts, p),
           NEW q, PositionOK(us, q), NEW d \in Nat, p.table = q.table + d, p.index = q.index,
           NEW m \in p.table .. Len(ts), m - d <= Len(us),
           \A n \in p.table .. m - 1 : us[n - d].key = ts[n].key
    PROVE  UpdateOf(us, q)[m - d] = UpdateOf(ts, p)[m]
<1> PICK a, c, L, M, f, g, len :
        /\ a = p.table /\ c = q.table /\ L = Len(ts) /\ M = Len(us)
        /\ f = UpdateOf(ts, p) /\ g = UpdateOf(us, q) /\ len = m - a
  OBVIOUS
<1>1. /\ a \in Nat /\ c \in Nat /\ d \in Nat /\ a = c + d /\ L \in Nat /\ M \in Nat
      /\ m \in a .. L /\ m - d <= M
  <2>1. a \in 1 .. L /\ c \in 1 .. M
    BY DEF PositionOK
  <2>2. L \in Nat /\ M \in Nat
    BY TablesFacts
  <2> QED
    BY <2>1, <2>2
<1>0. len = m - a /\ \A n \in a .. m - 1 : us[n - d].key = ts[n].key
  OBVIOUS
<1>2. len \in Nat /\ a + len = m /\ m \in Nat /\ c + len = m - d
  BY ONLY <1>0, <1>1
<1>3. /\ f[a] = p.index /\ \A n \in a + 1 .. m : f[n] = Live(ts[n - 1], f[n - 1])
  <2>1. \A n \in a + 1 .. m : n \in a + 1 .. L
    BY <1>1
  <2>2. f[a] = p.index /\ \A n \in a + 1 .. L : f[n] = Live(ts[n - 1], f[n - 1])
    BY UpdateFacts
  <2> QED
    BY <2>1, <2>2
<1>4. /\ g[c] = p.index /\ \A n \in c + 1 .. M : g[n] = Live(us[n - 1], g[n - 1])
  BY UpdateFacts
<1> PICK N : N = {i \in 0 .. len : g[c + i] = f[a + i]}
  OBVIOUS
<1>5. 0 \in N
  <2>1. a + 0 = a /\ c + 0 = c /\ 0 \in 0 .. len
    BY ONLY <1>1, <1>2
  <2>2. g[c + 0] = f[a + 0]
    BY <1>3, <1>4, <2>1
  <2> QED
    BY <2>1, <2>2
<1>6. ASSUME NEW i \in 1 .. len, i - 1 \in N
      PROVE  i \in N
  <2> PICK n, o : n = a + i /\ o = c + i
    OBVIOUS
  <2>1. /\ n \in a + 1 .. m /\ n - 1 \in a .. m - 1 /\ n - 1 = a + (i - 1) /\ i \in 0 .. len
        /\ o \in c + 1 .. M /\ o - 1 = c + (i - 1) /\ (n - 1) - d = o - 1
    <3>1. n = a + i /\ o = c + i
      OBVIOUS
    <3> QED
      BY ONLY <1>1, <1>2, <3>1
  <2>2. g[o - 1] = f[n - 1]
    BY <1>6, <2>1
  <2>3. us[o - 1].key = ts[n - 1].key
    <3>1. us[(n - 1) - d].key = ts[n - 1].key
      BY ONLY <1>0, <2>1
    <3> QED
      BY ONLY <2>1, <3>1
  <2>4. \A x : Live(us[o - 1], x) = Live(ts[n - 1], x)
    BY <2>3 DEF Live
  <2>5. g[o] = f[n]
    BY ONLY <1>3, <1>4, <2>1, <2>2, <2>4
  <2> QED
    BY <2>1, <2>5
<1>7. \A i \in 0 .. len : i \in N
  BY <1>2, <1>5, <1>6, UpTo
<1>8. len \in N
  BY ONLY <1>2, <1>7
<1> QED
  BY <1>2, <1>8

\* The place in the table in use where a cursor goes on.
Index(ts, p) == UpdateOf(ts, p)[Len(ts)]

LEMMA IndexRange ==
    ASSUME NEW ts, TablesOK(ts), NEW p, PositionOK(ts, p)
    PROVE  Index(ts, p) \in 0 .. Len(ts[Len(ts)].key)
<1> PICK a, L : a = p.table /\ L = Len(ts)
  OBVIOUS
<1>1. a \in 1 .. L /\ L \in Nat
  BY TablesFacts DEF PositionOK
<1>2. \A n \in a .. L : UpdateOf(ts, p)[n] \in 0 .. Len(ts[n].key)
  BY UpdateFacts
<1>3. L \in a .. L
  BY ONLY <1>1
<1> QED
  BY <1>2, <1>3 DEF Index

KeepsIndex(ts, us) ==
    \A p : PositionOK(ts, p) => PositionOK(us, p) /\ Index(us, p) = Index(ts, p)
CountsIndex(ts, us, t) ==
    \A p : PositionOK(ts, p) => PositionOK(us, p) /\ Index(us, p) = Live(t, Index(ts, p))

\* A table that is replaced leaves the cursors where they are ...
LEMMA PutMoves ==
    ASSUME NEW ts, TablesOK(ts), NEW u, GoodTable(u), Len(ts[Len(ts)].key) <= Len(u.key)
    PROVE  KeepsIndex(ts, Front(ts) \o <<u>>)
<1> PICK us : us = Front(ts) \o <<u>>
  OBVIOUS
<1> SUFFICES ASSUME NEW p, PositionOK(ts, p)
             PROVE  PositionOK(us, p) /\ Index(us, p) = Index(ts, p)
  BY DEF KeepsIndex
<1> PICK L, a, d : L = Len(ts) /\ a = p.table /\ d = 0
  OBVIOUS
<1>1. /\ TablesOK(us) /\ Len(us) = L /\ us[L] = u /\ L \in Nat
      /\ \A n \in 1 .. L - 1 : us[n] = ts[n]
  <2>1. ts \in Seq(Records) /\ ts # <<>> /\ u \in Records /\ L \in Nat
    BY TablesFacts DEF TablesOK, GoodTable, RoomInv
  <2> QED
    BY <2>1, PutFacts, PutOK
<1>2. a \in 1 .. L /\ p \in Positions /\ p.index \in 0 .. Len(ts[a].key)
  BY DEF PositionOK
<1>3. PositionOK(us, p)
  <2>1. CASE a = L
    <3>1. Len(ts[L].key) \in Nat /\ Len(u.key) \in Nat
      <4>1. RoomInv(u)
        BY DEF GoodTable
      <4>2. Len(u.key) \in Nat
        BY <4>1, RoomFacts
      <4> QED
        BY <1>2, <2>1, <4>2, TablesFacts
    <3>2. Len(ts[L].key) <= Len(u.key)
      OBVIOUS
    <3>3. p.index \in 0 .. Len(u.key)
      BY <1>2, <2>1, <3>1, <3>2
    <3> QED
      BY <1>1, <1>2, <2>1, <3>3 DEF PositionOK
  <2>2. CASE a # L
    <3>1. a \in 1 .. L - 1
      BY <1>1, <1>2, <2>2
    <3>2. us[a] = ts[a]
      BY <1>1, <3>1
    <3> QED
      BY <1>1, <1>2, <3>2 DEF PositionOK
  <2> QED
    BY <2>1, <2>2
<1>4. UpdateOf(us, p)[L - d] = UpdateOf(ts, p)[L]
  <2> PICK q, m : q = p /\ m = L
    OBVIOUS
  <2>1. d \in Nat /\ p.table = q.table + d /\ p.index = q.index
    BY <1>1, <1>2
  <2>2. m \in p.table .. Len(ts) /\ m - d <= Len(us)
    BY <1>1, <1>2
  <2>3. \A n \in p.table .. m - 1 : us[n - d].key = ts[n].key
    <3> SUFFICES ASSUME NEW n \in a .. L - 1
                 PROVE  us[n - d].key = ts[n].key
      OBVIOUS
    <3>1. n \in 1 .. L - 1 /\ n - d = n
      BY <1>1, <1>2
    <3> QED
      BY <1>1, <3>1
  <2>4. TablesOK(ts) /\ TablesOK(us) /\ PositionOK(ts, p) /\ PositionOK(us, q)
    BY <1>1, <1>3
  <2>5. UpdateOf(us, q)[m - d] = UpdateOf(ts, p)[m]
    BY ONLY <2>1, <2>2, <2>3, <2>4, SameUpdate
  <2> QED
    BY <2>5
<1>5. L - d = L
  BY <1>1
<1> QED
  BY <1>1, <1>3, <1>4, <1>5 DEF Index

\* ... and one that is left behind moves them to the number of keys they have passed.
LEMMA RehashMoves ==
    ASSUME NEW ts, TablesOK(ts), NEW t, GoodTable(t), Len(t.key) = Len(ts[Len(ts)].key),
           NEW v, GoodTable(v), t.elements <= Len(v.key)
    PROVE  CountsIndex(ts, Front(ts) \o <<Abandoned(t), v>>, t)
<1> PICK us : us = Front(ts) \o <<Abandoned(t), v>>
  OBVIOUS
<1> SUFFICES ASSUME NEW p, PositionOK(ts, p)
             PROVE  PositionOK(us, p) /\ Index(us, p) = Live(t, Index(ts, p))
  BY DEF CountsIndex
<1> PICK L, a, d, u : L = Len(ts) /\ a = p.table /\ d = 0 /\ u = Abandoned(t)
  OBVIOUS
<1>1. /\ TablesOK(us) /\ Len(us) = L + 1 /\ us[L] = u /\ us[L + 1] = v /\ L \in Nat
      /\ u.key = t.key /\ \A n \in 1 .. L - 1 : us[n] = ts[n]
  <2>1. OldTable(u) /\ u.key = t.key
    BY AbandonOld
  <2>2. ts \in Seq(Records) /\ ts # <<>> /\ u \in Records /\ v \in Records /\ L \in Nat
    BY <2>1, TablesFacts DEF TablesOK, GoodTable, RoomInv, OldTable
  <2>3. TablesOK(us)
    BY RehashOK
  <2> QED
    BY <2>1, <2>2, <2>3, TwoFacts
<1>2. a \in 1 .. L /\ p \in Positions /\ p.index \in 0 .. Len(ts[a].key)
  BY DEF PositionOK
<1>3. PositionOK(us, p)
  <2>1. a \in 1 .. L + 1
    BY <1>1, <1>2
  <2>2. CASE a = L
    BY <1>1, <1>2, <2>1, <2>2 DEF PositionOK
  <2>3. CASE a # L
    <3>1. a \in 1 .. L - 1
      BY <1>1, <1>2, <2>3
    <3>2. us[a] = ts[a]
      BY <1>1, <3>1
    <3> QED
      BY <1>1, <1>2, <2>1, <3>2 DEF PositionOK
  <2> QED
    BY <2>2, <2>3
<1>4. UpdateOf(us, p)[L - d] = UpdateOf(ts, p)[L]
  <2> PICK q, m : q = p /\ m = L
    OBVIOUS
  <2>1. d \in Nat /\ p.table = q.table + d /\ p.index = q.index
    BY <1>1, <1>2
  <2>2. m \in p.table .. Len(ts) /\ m - d <= Len(us)
    BY <1>1, <1>2
  <2>3. \A n \in p.table .. m - 1 : us[n - d].key = ts[n].key
    <3> SUFFICES ASSUME NEW n \in a .. L - 1
                 PROVE  us[n - d].key = ts[n].key
      OBVIOUS
    <3>1. n \in 1 .. L - 1 /\ n - d = n
      BY <1>1, <1>2
    <3> QED
      BY <1>1, <3>1
  <2>4. TablesOK(ts) /\ TablesOK(us) /\ PositionOK(ts, p) /\ PositionOK(us, q)
    BY <1>1, <1>3
  <2>5. UpdateOf(us, q)[m - d] = UpdateOf(ts, p)[m]
    BY ONLY <2>1, <2>2, <2>3, <2>4, SameUpdate
  <2> QED
    BY <2>5
<1>5. UpdateOf(us, p)[L] = Index(ts, p)
  <2>1. L - d = L
    BY <1>1
  <2> QED
    BY <1>4, <2>1 DEF Index
<1>6. Index(us, p) = Live(us[L], UpdateOf(us, p)[L])
  <2>1. \A n \in p.table + 1 .. Len(us) : UpdateOf(us, p)[n] = Live(us[n - 1], UpdateOf(us, p)[n - 1])
    <3>1. TablesOK(us) /\ PositionOK(us, p)
      BY <1>1, <1>3
    <3>2. LET f == UpdateOf(us, p)
          IN  \A n \in p.table + 1 .. Len(us) : f[n] = Live(us[n - 1], f[n - 1])
      BY ONLY <3>1, UpdateFacts
    <3> QED
      BY <3>2
  <2>2. L + 1 \in p.table + 1 .. Len(us) /\ (L + 1) - 1 = L
    BY <1>1, <1>2
  <2> QED
    BY <1>1, <2>1, <2>2 DEF Index
<1>7. Live(us[L], Index(ts, p)) = Live(t, Index(ts, p))
  BY <1>1 DEF Live
<1> QED
  BY <1>3, <1>5, <1>6, <1>7

\* The oldest table that no cursor stands in.
LEMMA TailMoves ==
    ASSUME NEW ts, TablesOK(ts), Len(ts) > 1, NEW p, PositionOK(ts, p), p.table > 1,
           NEW q, q = [p EXCEPT !.table = @ - 1]
    PROVE  PositionOK(Tail(ts), q) /\ Index(Tail(ts), q) = Index(ts, p)
<1> PICK L, a, d, us : L = Len(ts) /\ a = p.table /\ d = 1 /\ us = Tail(ts)
  OBVIOUS
<1>1. /\ TablesOK(us) /\ Len(us) = L - 1 /\ L \in Nat /\ L > 1
      /\ \A n \in 1 .. L - 1 : us[n] = ts[n + 1]
  BY TailOK, TablesFacts
<1>2. a \in 1 .. L /\ p \in Positions /\ p.index \in 0 .. Len(ts[a].key) /\ a > 1
  BY DEF PositionOK
<1>3. q \in Positions /\ q.table = a - 1 /\ q.index = p.index
  BY <1>1, <1>2 DEF Positions
<1>4. PositionOK(us, q)
  <2>1. a - 1 \in 1 .. L - 1 /\ (a - 1) + 1 = a
    BY <1>1, <1>2
  <2>2. us[a - 1] = ts[a]
    BY <1>1, <2>1
  <2> QED
    BY <1>1, <1>2, <1>3, <2>1, <2>2 DEF PositionOK
<1>5. UpdateOf(us, q)[L - d] = UpdateOf(ts, p)[L]
  <2> PICK m : m = L
    OBVIOUS
  <2>1. d \in Nat /\ p.table = q.table + d /\ p.index = q.index
    BY <1>1, <1>2, <1>3
  <2>2. m \in p.table .. Len(ts) /\ m - d <= Len(us)
    BY <1>1, <1>2
  <2>3. \A n \in p.table .. m - 1 : us[n - d].key = ts[n].key
    <3> SUFFICES ASSUME NEW n \in a .. L - 1
                 PROVE  us[n - d].key = ts[n].key
      OBVIOUS
    <3>1. n - 1 \in 1 .. L - 1 /\ n - d = n - 1 /\ (n - 1) + 1 = n
      BY <1>1, <1>2
    <3>2. us[n - 1] = ts[n]
      BY <1>1, <3>1
    <3> QED
      BY <3>1, <3>2
  <2>4. TablesOK(ts) /\ TablesOK(us) /\ PositionOK(ts, p) /\ PositionOK(us, q)
    BY <1>1, <1>4
  <2>5. UpdateOf(us, q)[m - d] = UpdateOf(ts, p)[m]
    BY ONLY <2>1, <2>2, <2>3, <2>4, SameUpdate
  <2> QED
    BY <2>5
<1> QED
  BY <1>1, <1>4, <1>5 DEF Index

-----------------------------------------------------------------------------
(* The keys in the order of their insertion *)

OrderOf(ts) == Kept(ts[Len(ts)].key, Keys)

\* How many of them a cursor has passed.
At(ts, p) == Live(ts[Len(ts)], Index(ts, p))

LEMMA OrderInjective ==
    ASSUME NEW t, t.key \in Seq(Entries), KeyInv(t)
    PROVE  IsInjective(Kept(t.key, Keys))
<1> PICK L, K : L = Len(t.key) /\ K = KeptUpTo(t.key, Keys)
  OBVIOUS
<1>1. L \in Nat /\ DOMAIN t.key = 1 .. L /\ \A i \in 1 .. L : t.key[i] \in Entries
  BY LenProperties, ElementOfSeq
<1>2. /\ K[0] = <<>>
      /\ \A n \in 1 .. L : K[n] = IF t.key[n] \in Keys THEN Append(K[n - 1], t.key[n]) ELSE K[n - 1]
      /\ \A n \in 0 .. L : K[n] \in Seq(Entries)
  BY KeptFacts
<1>3. \A n \in 0 .. L : ToSet(K[n]) = {t.key[j] : j \in 1 .. n} \cap Keys
  <2> PICK s : s = t.key
    OBVIOUS
  <2>1. s \in Seq(Entries) /\ L = Len(s) /\ K = KeptUpTo(s, Keys)
    OBVIOUS
  <2>2. LET J == KeptUpTo(s, Keys)
        IN  \A j \in 0 .. Len(s) : ToSet(J[j]) = {s[i] : i \in 1 .. j} \cap Keys
    BY ONLY <2>1, KeptElements
  <2> QED
    BY <2>1, <2>2
<1> PICK N : N = {n \in 0 .. L : IsInjective(K[n])}
  OBVIOUS
<1>4. 0 \in N
  <2>1. IsInjective(<<>>)
    BY DEF IsInjective
  <2>2. 0 \in 0 .. L
    BY <1>1
  <2> QED
    BY <1>2, <2>1, <2>2
<1>5. ASSUME NEW n \in 1 .. L, n - 1 \in N
      PROVE  n \in N
  <2> PICK s, k : s = K[n - 1] /\ k = t.key[n]
    OBVIOUS
  <2>1. n \in 0 .. L /\ n - 1 \in 0 .. L /\ IsInjective(s) /\ s \in Seq(Entries) /\ k \in Entries
    BY <1>1, <1>2, <1>5
  <2>2. CASE k \in Keys
    <3>1. \A j \in 1 .. n - 1 : t.key[j] # k
      BY <1>1, <2>2, HoleAssumption DEF KeyInv
    <3>2. k \notin ToSet(s)
      <4>1. ToSet(K[n - 1]) = {t.key[j] : j \in 1 .. n - 1} \cap Keys
        BY <1>3, <2>1
      <4>2. k \notin {t.key[j] : j \in 1 .. n - 1}
        BY <3>1
      <4> QED
        BY <4>1, <4>2
    <3>3. IsInjective(Append(s, k))
      BY ONLY <2>1, <3>2, AppendFacts
    <3> QED
      BY <1>2, <2>1, <2>2, <3>3
  <2>3. CASE k \notin Keys
    BY <1>2, <2>1, <2>3
  <2> QED
    BY <2>2, <2>3
<1>6. \A n \in 0 .. L : n \in N
  BY <1>1, <1>4, <1>5, UpTo
<1>7. L \in N
  BY <1>1, <1>6
<1> QED
  BY <1>7 DEF Kept

LEMMA AllLive ==
    ASSUME NEW t, t.key \in Seq(Entries), \A i \in 1 .. Len(t.key) : t.key[i] # KeyHole
    PROVE  Kept(t.key, Keys) = t.key /\ \A n \in 0 .. Len(t.key) : Live(t, n) = n
<1> PICK s, L : s = t.key /\ L = Len(t.key)
  OBVIOUS
<1>1. L \in Nat /\ s \in Seq(Entries) /\ L = Len(s) /\ DOMAIN s = 1 .. L /\ \A i \in 1 .. L : s[i] \in Entries
  BY LenProperties, ElementOfSeq
<1>2. Kept(s, Keys) = s
  <2>1. \A i \in 1 .. L : s[i] \in Keys
    BY <1>1 DEF Entries
  <2>2. ToSet(s) \subseteq Keys
    BY <1>1, <2>1 DEF ToSet
  <2> QED
    BY <1>1, <2>2, KeptAll
<1>3. \A n \in 0 .. L : Live(t, n) = n
  <2>1. \A n \in 0 .. L : HolePlaces(t, n) = {}
    BY <1>1 DEF HolePlaces
  <2>2. \A S : S = {} => Cardinality(S) = 0
    BY FS_EmptySet
  <2>3. \A n \in 0 .. L : Holes(t, n) = 0
    BY <2>1, <2>2 DEF Holes, HolePlaces
  <2>4. \A n \in 0 .. L : Holes(t, n) = n - Live(t, n)
    BY HolesFacts
  <2>5. \A n \in 0 .. L : Live(t, n) \in 0 .. n
    BY LiveFacts
  <2> QED
    BY <1>1, <2>3, <2>4, <2>5
<1> QED
  BY <1>2, <1>3

LEMMA OrderHolds ==
    ASSUME NEW t, t.key \in Seq(Entries)
    PROVE  /\ Kept(t.key, Keys) \in Seq(Entries) /\ Len(Kept(t.key, Keys)) = Live(t, Len(t.key))
           /\ DOMAIN Kept(t.key, Keys) = 1 .. Len(Kept(t.key, Keys))
           /\ \A i \in DOMAIN Kept(t.key, Keys) :
                /\ Kept(t.key, Keys)[i] \in Keys
                /\ \E j \in DOMAIN t.key : t.key[j] = Kept(t.key, Keys)[i]
<1> PICK s, o : s = t.key /\ o = Kept(s, Keys)
  OBVIOUS
<1>1. s \in Seq(Entries)
  OBVIOUS
<1>2. o \in Seq(Entries) /\ ToSet(o) = ToSet(s) \cap Keys
  BY <1>1, KeptType
<1>3. Len(o) = Live(t, Len(t.key))
  BY DEF Live, Kept
<1>4. DOMAIN o = 1 .. Len(o)
  BY <1>2, LenProperties
<1>5. ASSUME NEW i \in DOMAIN o
      PROVE  o[i] \in Keys /\ \E j \in DOMAIN s : s[j] = o[i]
  <2>1. o[i] \in ToSet(o)
    BY DEF ToSet
  <2>2. o[i] \in Keys /\ o[i] \in ToSet(s)
    BY <1>2, <2>1
  <2> QED
    BY <2>2 DEF ToSet
<1> QED
  BY <1>2, <1>3, <1>4, <1>5

\* A key in no entry is not in the order.
LEMMA NotKept ==
    ASSUME NEW t, t.key \in Seq(Entries), NEW k, \A i \in DOMAIN t.key : t.key[i] # k
    PROVE  \A i \in DOMAIN Kept(t.key, Keys) : Kept(t.key, Keys)[i] # k
<1>1. \A i \in DOMAIN Kept(t.key, Keys) : \E j \in DOMAIN t.key : t.key[j] = Kept(t.key, Keys)[i]
  BY OrderHolds, Zenon
<1> QED
  BY <1>1

\* The key of entry p is the Live(t, p)-th.
LEMMA PlaceInOrder ==
    ASSUME NEW t, t.key \in Seq(Entries), NEW p \in 1 .. Len(t.key), t.key[p] # KeyHole
    PROVE  /\ Live(t, p) \in 1 .. Len(Kept(t.key, Keys)) /\ Kept(t.key, Keys)[Live(t, p)] = t.key[p]
           /\ Live(t, p - 1) = Live(t, p) - 1
<1> PICK L, K : L = Len(t.key) /\ K = KeptUpTo(t.key, Keys)
  OBVIOUS
<1>1. L \in Nat /\ p \in 1 .. L /\ p \in 0 .. L /\ p - 1 \in 0 .. L /\ L \in p .. L /\ L \in 0 .. L
  <2>1. L \in Nat /\ p \in 1 .. L
    BY LenProperties
  <2> QED
    BY ONLY <2>1
<1>2. /\ \A n \in 0 .. L : Live(t, n) \in 0 .. n
      /\ \A n \in 1 .. L : t.key[n] # KeyHole => Live(t, n) = Live(t, n - 1) + 1 /\ K[n][Live(t, n)] = t.key[n]
  BY LiveFacts
<1>3. Live(t, p) = Live(t, p - 1) + 1 /\ K[p][Live(t, p)] = t.key[p] /\ Live(t, p - 1) \in Nat
      /\ Live(t, p) \in Nat /\ Live(t, L) \in Nat
  BY <1>1, <1>2
<1>4. Live(t, p) <= Live(t, L) /\ \A x \in 1 .. Live(t, p) : K[L][x] = K[p][x]
  BY <1>1, LiveGrows
<1>5. Live(t, L) = Len(Kept(t.key, Keys)) /\ Kept(t.key, Keys) = K[L]
  BY DEF Live, Kept
<1>6. Live(t, p) \in 1 .. Live(t, L) /\ Live(t, p) \in 1 .. Live(t, p)
      /\ Live(t, p - 1) = Live(t, p) - 1
  BY ONLY <1>3, <1>4
<1>7. K[L][Live(t, p)] = t.key[p]
  BY ONLY <1>3, <1>4, <1>6
<1> QED
  BY ONLY <1>5, <1>6, <1>7

\* A hole in place of an entry takes its key out of the order.
LEMMA HoleRemoves ==
    ASSUME NEW t, t.key \in Seq(Entries), KeyInv(t), NEW p \in 1 .. Len(t.key), t.key[p] # KeyHole
    PROVE  Kept([t.key EXCEPT ![p] = KeyHole], Keys) = RemoveAt(Kept(t.key, Keys), Live(t, p))
<1> PICK s, r, h, L, J, K : /\ s = t.key /\ r = RemoveAt(s, p) /\ h = [s EXCEPT ![p] = KeyHole]
                            /\ L = Len(s) /\ J = KeptUpTo(h, Keys) /\ K = KeptUpTo(r, Keys)
  OBVIOUS
<1>1. /\ L \in Nat /\ DOMAIN s = 1 .. L /\ p \in 1 .. L /\ s \in Seq(Entries) /\ p \in 1 .. Len(s)
      /\ \A i \in 1 .. L : s[i] \in Entries
  BY LenProperties, ElementOfSeq
<1>2. r \in Seq(Entries) /\ Len(r) = L - 1 /\ \A i \in 1 .. L - 1 : r[i] = IF i < p THEN s[i] ELSE s[i + 1]
  BY <1>1, RemoveFacts
<1>3. h \in Seq(Entries) /\ Len(h) = L /\ \A i \in 1 .. L : h[i] = IF i = p THEN KeyHole ELSE s[i]
  <2>1. KeyHole \in Entries
    BY DEF Entries
  <2> QED
    BY <1>1, <2>1, ExceptSeq
<1>4. /\ J[0] = <<>>
      /\ \A n \in 1 .. L : J[n] = IF h[n] \in Keys THEN Append(J[n - 1], h[n]) ELSE J[n - 1]
  <2>1. LET F == KeptUpTo(h, Keys)
        IN  /\ F[0] = <<>>
            /\ \A n \in 1 .. Len(h) : F[n] = IF h[n] \in Keys THEN Append(F[n - 1], h[n]) ELSE F[n - 1]
    <3>1. h \in Seq(Entries)
      BY <1>3
    <3> QED
      BY ONLY <3>1, KeptFacts
  <2> QED
    BY <1>3, <2>1
<1>5. /\ K[0] = <<>>
      /\ \A n \in 1 .. L - 1 : K[n] = IF r[n] \in Keys THEN Append(K[n - 1], r[n]) ELSE K[n - 1]
  <2>1. LET F == KeptUpTo(r, Keys)
        IN  /\ F[0] = <<>>
            /\ \A n \in 1 .. Len(r) : F[n] = IF r[n] \in Keys THEN Append(F[n - 1], r[n]) ELSE F[n - 1]
    <3>1. r \in Seq(Entries)
      BY <1>2
    <3> QED
      BY ONLY <3>1, KeptFacts
  <2> QED
    BY <1>2, <2>1
<1> PICK N : N = {n \in 0 .. L : J[n] = IF n < p THEN K[n] ELSE K[n - 1]}
  OBVIOUS
<1>6. 0 \in N
  BY <1>1, <1>4, <1>5
<1>7. ASSUME NEW n \in 1 .. L, n - 1 \in N
      PROVE  n \in N
  <2>1. n \in 0 .. L /\ J[n - 1] = IF n - 1 < p THEN K[n - 1] ELSE K[(n - 1) - 1]
    BY <1>1, <1>7
  <2>2. CASE n < p
    <3>1. n \in 1 .. L - 1 /\ n # p /\ n - 1 < p
      BY <1>1, <2>2
    <3>2. r[n] = s[n] /\ h[n] = s[n] /\ J[n - 1] = K[n - 1]
      BY <1>2, <1>3, <2>1, <2>2, <3>1
    <3>3. J[n] = K[n]
      <4>1. J[n] = IF h[n] \in Keys THEN Append(J[n - 1], h[n]) ELSE J[n - 1]
        BY <1>4
      <4>2. K[n] = IF r[n] \in Keys THEN Append(K[n - 1], r[n]) ELSE K[n - 1]
        BY ONLY <1>5, <3>1
      <4> QED
        BY ONLY <3>2, <4>1, <4>2
    <3> QED
      BY <2>1, <2>2, <3>3
  <2>3. CASE n = p
    <3>1. h[n] = KeyHole /\ J[n - 1] = K[n - 1]
      BY <1>1, <1>3, <2>1, <2>3
    <3>2. J[n] = K[n - 1]
      BY <1>4, <3>1, HoleAssumption
    <3> QED
      BY <1>1, <2>1, <2>3, <3>2
  <2>4. CASE n > p
    <3>1. n - 1 \in 1 .. L - 1 /\ n # p /\ ~(n - 1 < p) /\ (n - 1) + 1 = n /\ ~(n < p)
      BY <1>1, <2>4
    <3>2. r[n - 1] = s[n] /\ h[n] = s[n] /\ J[n - 1] = K[(n - 1) - 1]
      BY <1>2, <1>3, <2>1, <3>1
    <3>3. J[n] = K[n - 1]
      <4>1. J[n] = IF h[n] \in Keys THEN Append(J[n - 1], h[n]) ELSE J[n - 1]
        BY <1>4
      <4>2. K[n - 1] = IF r[n - 1] \in Keys THEN Append(K[(n - 1) - 1], r[n - 1]) ELSE K[(n - 1) - 1]
        BY ONLY <1>5, <3>1
      <4> QED
        BY ONLY <3>2, <4>1, <4>2
    <3> QED
      BY <2>1, <3>1, <3>3
  <2> QED
    BY <1>1, <2>2, <2>3, <2>4
<1>8. \A n \in 0 .. L : n \in N
  BY <1>1, <1>6, <1>7, UpTo
<1>9. J[L] = K[L - 1]
  <2>1. L \in 0 .. L /\ ~(L < p)
    BY <1>1
  <2>2. L \in N
    BY <1>8, <2>1
  <2> QED
    BY <2>1, <2>2
<1>10. Kept(h, Keys) = Kept(r, Keys)
  BY <1>2, <1>3, <1>9 DEF Kept
<1> PICK o, q : o = Kept(s, Keys) /\ q = Live(t, p)
  OBVIOUS
<1>11. q \in 1 .. Len(o) /\ o[q] = s[p]
  BY PlaceInOrder
<1>12. s[p] \in Keys
  <2>1. s[p] \in Entries /\ s[p] # KeyHole
    BY <1>1
  <2> QED
    BY <2>1 DEF Entries
<1>13. PICK x \in 1 .. Len(o) : o[x] = s[p] /\ Kept(r, Keys) = RemoveAt(o, x)
  <2>1. IF s[p] \in Keys
        THEN \E y \in 1 .. Len(Kept(s, Keys)) :
                Kept(s, Keys)[y] = s[p] /\ Kept(RemoveAt(s, p), Keys) = RemoveAt(Kept(s, Keys), y)
        ELSE Kept(RemoveAt(s, p), Keys) = Kept(s, Keys)
    BY ONLY <1>1, KeptRemove
  <2> QED
    BY <1>12, <2>1
<1>14. x = q
  <2>1. IsInjective(o)
    BY OrderInjective
  <2>2. o \in Seq(Entries)
    BY <1>1, KeptType
  <2>3. DOMAIN o = 1 .. Len(o)
    BY <2>2, LenProperties
  <2> QED
    BY <1>11, <1>13, <2>1, <2>3 DEF IsInjective
<1> QED
  BY <1>10, <1>13, <1>14

-----------------------------------------------------------------------------
(* What the operations do to the keys and to the cursors *)

SameCursors(ts, us) ==
    \A p : PositionOK(ts, p) => PositionOK(us, p) /\ At(us, p) = At(ts, p)

\* A rehashed table has no holes.
LEMMA RehashedLive ==
    ASSUME NEW t, GoodTable(t), NEW v, v.key = Kept(t.key, Keys), GoodTable(v)
    PROVE  /\ Kept(v.key, Keys) = v.key /\ \A n \in 0 .. Len(v.key) : Live(v, n) = n
           /\ \A i \in 1 .. Len(v.key) : v.key[i] \in Keys
           /\ Len(v.key) = t.elements
<1>1. t.key \in Seq(Entries) /\ v.key \in Seq(Entries) /\ t.elements = Live(t, Len(t.key))
  <2>1. RoomInv(t) /\ RoomInv(v)
    BY DEF GoodTable
  <2> QED
    BY <2>1, RoomFacts DEF GoodTable
<1>2. Len(v.key) = t.elements
  BY <1>1 DEF Live, Kept
<1> PICK s : s = t.key
  OBVIOUS
<1>3. ToSet(Kept(s, Keys)) = ToSet(s) \cap Keys
  BY <1>1, KeptType
<1>4. DOMAIN v.key = 1 .. Len(v.key)
  BY <1>1, LenProperties
<1>5. \A i \in 1 .. Len(v.key) : v.key[i] \in Keys
  BY <1>3, <1>4 DEF ToSet
<1>6. \A i \in 1 .. Len(v.key) : v.key[i] # KeyHole
  BY <1>5, HoleAssumption
<1> QED
  BY <1>1, <1>2, <1>5, <1>6, AllLive

LEMMA SetEffect ==
    ASSUME TablesOK(tables), Len(tables) <= MaxTables, NEW k \in Keys, Set(k)
    PROVE  /\ TablesOK(tables') /\ Len(tables') <= MaxTables /\ SameCursors(tables, tables')
           /\ OrderOf(tables') = IF FindElement(Table, k) # NoEntry
                                 THEN OrderOf(tables) ELSE Append(OrderOf(tables), k)
<1> PICK ts, us, L, t, o :
        /\ ts = tables /\ us = tables' /\ L = Len(tables) /\ t = tables[Len(tables)]
        /\ o = Kept(tables[Len(tables)].key, Keys)
  OBVIOUS
<1>1. Table = t /\ GoodTable(t) /\ L \in Nat \ {0} /\ TablesOK(ts) /\ OrderOf(ts) = o /\ o = Kept(t.key, Keys)
  BY TablesFacts DEF Table, OrderOf
<1>2. RoomInv(t) /\ t \in Records /\ t.key \in Seq(Entries) /\ Len(t.key) \in Nat
      /\ t.elements \in Nat /\ t.deleted \in Nat /\ t.capacity \in Nat \ {0}
      /\ Len(t.key) = t.elements + t.deleted /\ DOMAIN t.key = 1 .. Len(t.key)
  <2>1. RoomInv(t) /\ t \in Records
    BY <1>1 DEF GoodTable, RoomInv
  <2> QED
    BY <2>1, RoomFacts
<1>3. o \in Seq(Entries)
  BY <1>1, <1>2, OrderHolds
<1>4. FindElement(t, k) = NoEntry => \A i \in DOMAIN t.key : t.key[i] # k
  BY <1>1, PlacesOfKey
<1>5. CASE FindElement(t, k) # NoEntry
  <2>1. us = ts
    BY <1>1, <1>5 DEF Set
  <2> QED
    BY <1>1, <1>5, <2>1 DEF SameCursors
<1>6. CASE FindElement(t, k) = NoEntry /\ HasSufficientCapacity(t, 1)
  <2> PICK u : u = InsertNewEntry(t, k)
    OBVIOUS
  <2>1. us = Front(ts) \o <<u>>
    BY <1>1, <1>6 DEF Set, Put
  <2>2. Len(t.key) < t.capacity
    <3> PICK c, nof, D : c = t.capacity /\ nof = t.elements + 1 /\ D = t.deleted
      OBVIOUS
    <3>1. nof < c /\ D <= (c - nof) \div 2
      BY <1>6 DEF HasSufficientCapacity
    <3>2. c \in Nat /\ nof \in Nat /\ D \in Nat /\ Len(t.key) = nof - 1 + D
      <4>1. /\ t.elements \in Nat /\ t.deleted \in Nat /\ t.capacity \in Nat
            /\ Len(t.key) = t.elements + t.deleted
        BY <1>2
      <4>2. c = t.capacity /\ nof = t.elements + 1 /\ D = t.deleted
        OBVIOUS
      <4> QED
        BY ONLY <4>1, <4>2
    <3>3. \A x \in Nat : x \div 2 <= x
      OBVIOUS
    <3>4. c - nof \in Nat
      BY ONLY <3>1, <3>2
    <3>5. (c - nof) \div 2 <= c - nof
      BY ONLY <3>3, <3>4
    <3>6. (c - nof) \div 2 \in Int
      BY ONLY <3>4
    <3>7. D <= c - nof
      BY ONLY <3>1, <3>2, <3>5, <3>6
    <3>8. nof - 1 + D < c
      BY ONLY <3>2, <3>7
    <3> QED
      BY <3>2, <3>8
  <2>3. GoodTable(u) /\ u.key = Append(t.key, k)
    BY <1>1, <1>4, <1>6, <2>2, InsertGood
  <2>4. k \in Entries /\ k # KeyHole
    BY HoleAssumption DEF Entries
  <2> PICK s : s = t.key
    OBVIOUS
  <2>5. s \in Seq(Entries)
    BY <1>2
  <2>6. /\ u.key \in Seq(Entries) /\ Len(u.key) = Len(s) + 1 /\ \A i \in 1 .. Len(s) : u.key[i] = s[i]
    <3>1. u.key = Append(s, k)
      BY <2>3
    <3> QED
      BY ONLY <2>4, <2>5, <3>1, AppendFacts
  <2>7. Len(t.key) <= Len(u.key)
    BY <1>2, <2>6
  <2>8. /\ TablesOK(us) /\ Len(us) = L /\ us[L] = u
        /\ \A p : PositionOK(ts, p) => PositionOK(us, p) /\ Index(us, p) = Index(ts, p)
    <3>1. ts \in Seq(Records) /\ ts # <<>> /\ u \in Records
      BY <1>1, <2>3 DEF TablesOK, GoodTable, RoomInv
    <3>2. TablesOK(us) /\ Len(us) = L /\ us[L] = u
      BY <1>1, <2>1, <2>3, <2>7, <3>1, PutOK, PutFacts
    <3>3. \A p : PositionOK(ts, p) => PositionOK(us, p) /\ Index(us, p) = Index(ts, p)
      <4>1. TablesOK(ts) /\ GoodTable(u) /\ Len(ts[Len(ts)].key) <= Len(u.key)
        BY <1>1, <2>3, <2>7
      <4>2. KeepsIndex(ts, Front(ts) \o <<u>>)
        BY ONLY <4>1, PutMoves
      <4> QED
        BY <2>1, <4>2 DEF KeepsIndex
    <3> QED
      BY <3>2, <3>3
  <2>9. \A n \in 0 .. Len(t.key) : Live(u, n) = Live(t, n)
    <3> SUFFICES ASSUME NEW n \in 0 .. Len(t.key)
                 PROVE  Live(u, n) = Live(t, n)
      OBVIOUS
    <3>1. t.key \in Seq(Entries) /\ u.key \in Seq(Entries) /\ n \in 0 .. Len(t.key) /\ n <= Len(u.key)
      BY <1>2, <2>6, <2>7
    <3>2. \A i \in 1 .. n : u.key[i] = t.key[i]
      <4>1. \A i \in 1 .. n : i \in 1 .. Len(s)
        BY <1>2
      <4> QED
        BY <2>6, <4>1
    <3> QED
      BY ONLY <3>1, <3>2, LiveSame
  <2>10. SameCursors(ts, us)
    <3> SUFFICES ASSUME NEW p, PositionOK(ts, p)
                 PROVE  PositionOK(us, p) /\ At(us, p) = At(ts, p)
      BY DEF SameCursors
    <3>1. Index(ts, p) \in 0 .. Len(t.key)
      BY <1>1, IndexRange
    <3> QED
      BY <2>8, <2>9, <3>1 DEF At
  <2>11. Kept(u.key, Keys) = Append(Kept(s, Keys), k)
    <3>1. Kept(Append(s, k), Keys) = IF k \in Keys THEN Append(Kept(s, Keys), k) ELSE Kept(s, Keys)
      BY ONLY <2>4, <2>5, KeptAppend
    <3> QED
      BY <2>3, <3>1
  <2>12. OrderOf(us) = Append(o, k)
    BY <1>1, <2>8, <2>11 DEF OrderOf
  <2> QED
    BY <1>1, <1>6, <2>8, <2>10, <2>12
<1>7. CASE FindElement(t, k) = NoEntry /\ ~HasSufficientCapacity(t, 1)
  <2> PICK n, c, v, w : /\ n = t.elements + 1 /\ c = ComputeCapacity(t.elements + 1)
                        /\ v = Rehashed(t, c) /\ w = InsertNewEntry(v, k)
    OBVIOUS
  <2>1. us = Front(ts) \o <<Abandoned(t), w>> /\ Len(ts) < MaxTables
    BY <1>1, <1>7 DEF Set, RehashInto
  <2>2. c \in Nat \ {0} /\ t.elements + 1 <= c
    <3>1. n \in Nat /\ n <= Cardinality(Keys)
      <4>1. \A i \in DOMAIN t.key : t.key[i] # k
        BY <1>4, <1>7
      <4>2. t.elements + 1 <= Cardinality(Keys)
        BY <1>1, <4>1, ElementsBound
      <4> QED
        BY <1>2, <4>2
    <3>2. ComputeCapacity(n) \in Nat \ {0} /\ n <= ComputeCapacity(n)
      BY ONLY <3>1, CapacityFacts
    <3> QED
      BY <3>2
  <2>3. GoodTable(v) /\ v.key = o /\ Len(v.key) = t.elements /\ v.capacity = c
    <3>1. t.elements <= c
      BY <1>2, <2>2
    <3> QED
      BY <1>1, <2>2, <3>1, RehashGood
  <2>4. /\ \A m \in 0 .. Len(v.key) : Live(v, m) = m
        /\ \A i \in 1 .. Len(v.key) : v.key[i] \in Keys
        /\ Kept(v.key, Keys) = v.key
    BY <1>1, <2>3, RehashedLive
  <2>5. v.key \in Seq(Entries) /\ DOMAIN v.key = 1 .. Len(v.key) /\ Len(v.key) \in Nat /\ k \in Entries
    BY <1>2, <1>3, <2>3, LenProperties DEF Entries
  <2>6. GoodTable(w) /\ w.key = Append(v.key, k)
    <3>1. \A i \in DOMAIN v.key : v.key[i] # k
      <4>1. \A i \in DOMAIN t.key : t.key[i] # k
        BY <1>4, <1>7
      <4>2. \A i \in DOMAIN Kept(t.key, Keys) : Kept(t.key, Keys)[i] # k
        BY ONLY <1>2, <4>1, NotKept, Zenon
      <4>3. v.key = Kept(t.key, Keys)
        BY <1>1, <2>3
      <4> QED
        BY ONLY <4>2, <4>3
    <3>2. Len(v.key) < v.capacity
      BY <1>2, <2>2, <2>3
    <3> QED
      BY <2>3, <3>1, <3>2, InsertGood
  <2> PICK s : s = v.key
    OBVIOUS
  <2>7. s \in Seq(Entries) /\ k \in Entries /\ w.key = Append(s, k)
    BY <2>5, <2>6
  <2>8. w.key \in Seq(Entries) /\ Len(w.key) = Len(s) + 1 /\ \A i \in 1 .. Len(s) : w.key[i] = s[i]
    BY ONLY <2>7, AppendFacts
  <2>9. \A m \in 0 .. Len(v.key) : Live(w, m) = m
    <3> SUFFICES ASSUME NEW m \in 0 .. Len(v.key)
                 PROVE  Live(w, m) = m
      OBVIOUS
    <3>1. v.key \in Seq(Entries) /\ w.key \in Seq(Entries) /\ m \in 0 .. Len(v.key) /\ m <= Len(w.key)
      BY <2>5, <2>8
    <3>2. \A i \in 1 .. m : w.key[i] = v.key[i]
      <4>1. \A i \in 1 .. m : i \in 1 .. Len(v.key)
        BY ONLY <2>5, m \in 0 .. Len(v.key)
      <4>2. \A i \in 1 .. Len(v.key) : w.key[i] = v.key[i]
        BY ONLY <2>8, s = v.key
      <4> QED
        BY ONLY <4>1, <4>2
    <3>3. Live(w, m) = Live(v, m)
      BY ONLY <3>1, <3>2, LiveSame
    <3> QED
      BY <2>4, <3>3
  <2>10. t.elements <= Len(w.key) /\ Len(t.key) = Len(ts[Len(ts)].key)
    <3>1. Len(t.key) = Len(ts[Len(ts)].key) /\ t.elements \in Nat
      BY <1>2
    <3>2. t.elements <= Len(w.key)
      BY ONLY <2>3, <2>8, <3>1, s = v.key
    <3> QED
      BY <3>1, <3>2
  <2>11. TablesOK(us) /\ Len(us) = L + 1 /\ us[L + 1] = w
    <3>1. ts \in Seq(Records) /\ ts # <<>> /\ Abandoned(t) \in Records /\ w \in Records
      BY <1>1, <2>6, AbandonOld DEF TablesOK, GoodTable, RoomInv, OldTable
    <3>2. TablesOK(us)
      BY <1>1, <2>1, <2>6, <2>10, RehashOK
    <3> QED
      <4>1. LET x == Front(ts) \o <<Abandoned(t), w>>
            IN  Len(x) = Len(ts) + 1 /\ x[Len(ts) + 1] = w
        BY ONLY <3>1, TwoFacts
      <4> QED
        BY ONLY <2>1, <3>2, <4>1, L = Len(ts)
  <2>12. SameCursors(ts, us)
    <3> SUFFICES ASSUME NEW p, PositionOK(ts, p)
                 PROVE  PositionOK(us, p) /\ At(us, p) = At(ts, p)
      BY DEF SameCursors
    <3>1. Index(ts, p) \in 0 .. Len(t.key)
      BY <1>1, IndexRange
    <3>2. PositionOK(us, p) /\ Index(us, p) = Live(t, Index(ts, p))
      <4>1. /\ TablesOK(ts) /\ GoodTable(t) /\ Len(t.key) = Len(ts[Len(ts)].key)
            /\ GoodTable(w) /\ t.elements <= Len(w.key)
        BY <1>1, <2>6, <2>10
      <4>2. CountsIndex(ts, Front(ts) \o <<Abandoned(t), w>>, t)
        BY ONLY <4>1, RehashMoves
      <4> QED
        BY <2>1, <4>2 DEF CountsIndex
    <3>3. Live(t, Index(ts, p)) \in 0 .. t.elements
      <4>1. Index(ts, p) \in 0 .. Len(t.key) /\ Len(t.key) \in Index(ts, p) .. Len(t.key)
            /\ Len(t.key) \in 0 .. Len(t.key)
        BY <1>2, <3>1
      <4>2. Live(t, Index(ts, p)) <= Live(t, Len(t.key))
        BY <1>2, <4>1, LiveGrows
      <4>3. \A x \in 0 .. Len(t.key) : Live(t, x) \in 0 .. x
        BY <1>2, LiveFacts
      <4>4. t.elements = Live(t, Len(t.key))
        BY <1>1 DEF GoodTable
      <4> QED
        <5>1. /\ Live(t, Index(ts, p)) \in 0 .. Index(ts, p)
              /\ Live(t, Len(t.key)) \in 0 .. Len(t.key)
          BY ONLY <4>1, <4>3
        <5> QED
          BY ONLY <4>2, <4>4, <5>1
    <3>4. Live(w, Index(us, p)) = Live(t, Index(ts, p))
      BY <2>3, <2>9, <3>2, <3>3
    <3> QED
      BY <2>11, <3>2, <3>4 DEF At
  <2>13. Kept(w.key, Keys) = Append(o, k)
    <3>1. Kept(Append(s, k), Keys) = IF k \in Keys THEN Append(Kept(s, Keys), k) ELSE Kept(s, Keys)
      BY ONLY <2>7, KeptAppend
    <3> QED
      BY <2>3, <2>4, <2>7, <3>1
  <2>14. OrderOf(us) = Append(o, k)
    BY <1>1, <2>11, <2>13 DEF OrderOf
  <2>15. Len(us) <= MaxTables
    BY <1>1, <2>1, <2>11, MaxTablesAssumption
  <2> QED
    BY <1>1, <1>7, <2>11, <2>12, <2>14, <2>15
<1> QED
  BY <1>5, <1>6, <1>7

ShiftsCursors(ts, us, n) ==
    \A p : PositionOK(ts, p) =>
        PositionOK(us, p) /\ At(us, p) = IF At(ts, p) >= n THEN At(ts, p) - 1 ELSE At(ts, p)

\* A cursor behind an entry has passed its key.
LEMMA PassedIsBehind ==
    ASSUME NEW t, t.key \in Seq(Entries), NEW p \in 1 .. Len(t.key), t.key[p] # KeyHole,
           NEW n \in 0 .. Len(t.key)
    PROVE  n >= p <=> Live(t, n) >= Live(t, p)
<1> PICK L : L = Len(t.key)
  OBVIOUS
<1>1. L \in Nat /\ p \in 1 .. L /\ n \in 0 .. L /\ p \in 0 .. L /\ p - 1 \in 0 .. L
  <2>1. L \in Nat /\ p \in 1 .. L /\ n \in 0 .. L
    BY LenProperties
  <2> QED
    BY ONLY <2>1
<1>2. \A x \in 0 .. L : Live(t, x) \in 0 .. x
  BY LiveFacts
<1>3. Live(t, n) \in Nat /\ Live(t, p) \in Nat /\ Live(t, p - 1) = Live(t, p) - 1
  BY <1>1, <1>2, PlaceInOrder
<1>4. CASE n >= p
  <2>1. p \in 0 .. L /\ n \in p .. L
    BY ONLY <1>1, <1>4
  <2>2. Live(t, p) <= Live(t, n)
    BY <2>1, LiveGrows
  <2> QED
    BY <1>3, <1>4, <2>2
<1>5. CASE ~(n >= p)
  <2>1. n \in 0 .. L /\ p - 1 \in n .. L
    BY ONLY <1>1, <1>5
  <2>2. Live(t, n) <= Live(t, p - 1)
    BY <2>1, LiveGrows
  <2> QED
    BY <1>3, <1>5, <2>2
<1> QED
  BY <1>4, <1>5

LEMMA ShrinkFacts ==
    ASSUME NEW c, NEW n \in Nat, n <= Cardinality(Keys), ComputeCapacityWithShrink(c, n) # c
    PROVE  ComputeCapacityWithShrink(c, n) \in Nat \ {0} /\ n <= ComputeCapacityWithShrink(c, n)
  BY CapacityFacts DEF ComputeCapacityWithShrink

LEMMA DeleteEffect ==
    ASSUME TablesOK(tables), Len(tables) <= MaxTables, NEW k \in Keys, Delete(k)
    PROVE  /\ TablesOK(tables') /\ Len(tables') <= MaxTables
           /\ IF FindElement(Table, k) # NoEntry
              THEN \E n \in 1 .. Len(OrderOf(tables)) :
                        /\ Class[OrderOf(tables)[n]] = Class[k]
                        /\ OrderOf(tables') = RemoveAt(OrderOf(tables), n)
                        /\ ShiftsCursors(tables, tables', n)
              ELSE tables' = tables
<1> PICK ts, us, L, t, o, e :
        /\ ts = tables /\ us = tables' /\ L = Len(tables) /\ t = tables[Len(tables)]
        /\ o = Kept(tables[Len(tables)].key, Keys) /\ e = FindElement(tables[Len(tables)], k)
  OBVIOUS
<1>1. Table = t /\ GoodTable(t) /\ L \in Nat \ {0} /\ TablesOK(ts) /\ OrderOf(ts) = o /\ o = Kept(t.key, Keys)
      /\ L <= MaxTables /\ e = FindElement(t, k)
  BY TablesFacts DEF Table, OrderOf
<1>2. RoomInv(t) /\ t \in Records /\ t.key \in Seq(Entries) /\ Len(t.key) \in Nat
      /\ t.elements \in Nat /\ DOMAIN t.key = 1 .. Len(t.key) /\ KeyInv(t)
  <2>1. RoomInv(t) /\ t \in Records /\ KeyInv(t)
    BY <1>1 DEF GoodTable, RoomInv
  <2> QED
    BY <2>1, RoomFacts
<1>4. e # NoEntry => e \in 0 .. Len(t.key) - 1 /\ IsMatch(k, t.key[e + 1])
  BY <1>1, PlacesOfKey
<1>5. CASE e = NoEntry
  <2>1. us = ts
    BY <1>1, <1>5 DEF Delete
  <2> QED
    BY <1>1, <1>5, <2>1
<1>6. CASE e # NoEntry
  <2> PICK u, c, p, n : /\ u = RemoveEntry(t, e) /\ p = e + 1 /\ n = Live(t, e + 1)
                        /\ c = ComputeCapacityWithShrink(u.capacity, u.elements)
    OBVIOUS
  <2>1. IF c = u.capacity THEN us = Front(ts) \o <<u>>
        ELSE us = Front(ts) \o <<Abandoned(u), Rehashed(u, c)>> /\ Len(ts) < MaxTables
    BY <1>1, <1>6 DEF Delete, Put, RehashInto
  <2>2. /\ p \in 1 .. Len(t.key) /\ t.key[p] # KeyHole /\ Class[t.key[p]] = Class[k]
        /\ e \in 0 .. Len(t.key) - 1 /\ t.key[p] \in Keys
    <3>1. e \in 0 .. Len(t.key) - 1 /\ t.key[p] # KeyHole /\ Class[t.key[p]] = Class[k]
      BY <1>4, <1>6 DEF IsMatch
    <3>2. p \in 1 .. Len(t.key)
      BY <1>2, <3>1
    <3>3. t.key[p] \in Entries
      BY <1>2, <3>2, ElementOfSeq
    <3> QED
      BY <3>1, <3>2, <3>3 DEF Entries
  <2>3. GoodTable(u) /\ u.key = [t.key EXCEPT ![p] = KeyHole]
    BY <1>1, <2>2, RemoveGood
  <2>4. /\ u.key \in Seq(Entries) /\ Len(u.key) = Len(t.key) /\ u.key[p] = KeyHole
        /\ \A i \in 1 .. Len(t.key) : i # p => u.key[i] = t.key[i]
    <3>1. KeyHole \in Entries
      BY DEF Entries
    <3> QED
      BY <1>2, <2>2, <2>3, <3>1, ExceptSeq
  <2>5. \A m \in 0 .. Len(t.key) : Live(u, m) = IF m >= p THEN Live(t, m) - 1 ELSE Live(t, m)
    <3>1. /\ t.key \in Seq(Entries) /\ u.key \in Seq(Entries) /\ Len(u.key) = Len(t.key)
          /\ p \in 1 .. Len(t.key) /\ t.key[p] # KeyHole /\ u.key[p] = KeyHole
      BY <1>2, <2>2, <2>4
    <3>2. \A i \in 1 .. Len(t.key) : i # p => u.key[i] = t.key[i]
      BY <2>4
    <3> QED
      BY ONLY <3>1, <3>2, LiveLess
  <2>6. \A m \in 0 .. Len(t.key) : m >= p <=> Live(t, m) >= n
    BY <1>2, <2>2, PassedIsBehind
  <2>7. n \in 1 .. Len(o) /\ Class[o[n]] = Class[k]
    BY <1>1, <1>2, <2>2, PlaceInOrder
  <2>8. Kept(u.key, Keys) = RemoveAt(o, n)
    BY <1>1, <1>2, <2>2, <2>3, HoleRemoves
  <2>10. \A m \in 0 .. Len(t.key) :
            Live(u, m) = IF Live(t, m) >= n THEN Live(t, m) - 1 ELSE Live(t, m)
    BY <2>5, <2>6
  <2>11. CASE c = u.capacity
    <3>1. us = Front(ts) \o <<u>> /\ Len(ts[Len(ts)].key) <= Len(u.key)
      BY <1>2, <2>1, <2>4, <2>11
    <3>2. TablesOK(us) /\ Len(us) = L /\ us[L] = u
      <4>1. ts \in Seq(Records) /\ ts # <<>> /\ u \in Records
        BY <1>1, <2>3 DEF TablesOK, GoodTable, RoomInv
      <4> QED
        BY <1>1, <2>3, <3>1, <4>1, PutOK, PutFacts
    <3>3. KeepsIndex(ts, us)
      <4>1. TablesOK(ts) /\ GoodTable(u) /\ Len(ts[Len(ts)].key) <= Len(u.key)
        BY <1>1, <2>3, <3>1
      <4> QED
        BY ONLY <3>1, <4>1, PutMoves
    <3>4. ShiftsCursors(ts, us, n)
      <4> SUFFICES ASSUME NEW q, PositionOK(ts, q)
                   PROVE  /\ PositionOK(us, q)
                          /\ At(us, q) = IF At(ts, q) >= n THEN At(ts, q) - 1 ELSE At(ts, q)
        BY DEF ShiftsCursors
      <4>1. Index(ts, q) \in 0 .. Len(t.key)
        BY <1>1, IndexRange
      <4>2. PositionOK(us, q) /\ At(us, q) = Live(u, Index(ts, q)) /\ At(ts, q) = Live(t, Index(ts, q))
        BY <3>2, <3>3 DEF KeepsIndex, At
      <4> QED
        BY <2>10, <4>1, <4>2
    <3>5. OrderOf(us) = RemoveAt(o, n)
      BY <2>8, <3>2 DEF OrderOf
    <3> QED
      BY <1>1, <1>6, <2>7, <3>2, <3>4, <3>5
  <2>12. CASE c # u.capacity
    <3> PICK v : v = Rehashed(u, c)
      OBVIOUS
    <3>1. us = Front(ts) \o <<Abandoned(u), v>> /\ Len(ts) < MaxTables
      BY <2>1, <2>12
    <3>2. u.elements \in Nat /\ u.elements <= Cardinality(Keys) /\ u.elements = Live(u, Len(u.key))
      <4>1. RoomInv(u)
        BY <2>3 DEF GoodTable
      <4>2. u.elements \in Nat
        BY <4>1, RoomFacts
      <4>3. u.elements <= Cardinality(Keys)
        BY <2>3, ElementsBound
      <4> QED
        BY <2>3, <4>2, <4>3 DEF GoodTable
    <3>3. c \in Nat \ {0} /\ u.elements <= c
      BY <2>12, <3>2, ShrinkFacts
    <3>4. GoodTable(v) /\ v.key = Kept(u.key, Keys)
      BY <2>3, <3>3, RehashGood
    <3>5. /\ Kept(v.key, Keys) = v.key /\ \A m \in 0 .. Len(v.key) : Live(v, m) = m
          /\ Len(v.key) = u.elements
      <4>1. GoodTable(u) /\ v.key = Kept(u.key, Keys) /\ GoodTable(v)
        BY <2>3, <3>4
      <4> QED
        BY ONLY <4>1, RehashedLive
    <3>6. /\ TablesOK(ts) /\ GoodTable(u) /\ Len(u.key) = Len(ts[Len(ts)].key)
          /\ GoodTable(v) /\ u.elements <= Len(v.key)
      <4>1. ts[Len(ts)] = t
        OBVIOUS
      <4>2. u.elements <= Len(v.key)
        BY ONLY <3>2, <3>5
      <4> QED
        BY <1>1, <2>3, <2>4, <3>4, <4>1, <4>2
    <3>7. TablesOK(us) /\ Len(us) = L + 1 /\ us[L + 1] = v
      <4>1. ts \in Seq(Records) /\ ts # <<>> /\ Abandoned(u) \in Records /\ v \in Records
        BY <3>6, AbandonOld DEF TablesOK, GoodTable, RoomInv, OldTable
      <4>2. TablesOK(us)
        BY <3>1, <3>6, RehashOK
      <4> QED
        <5>1. LET x == Front(ts) \o <<Abandoned(u), v>>
              IN  Len(x) = Len(ts) + 1 /\ x[Len(ts) + 1] = v
          BY ONLY <4>1, TwoFacts
        <5> QED
          BY ONLY <3>1, <4>2, <5>1, L = Len(ts)
    <3>8. CountsIndex(ts, us, u)
      BY ONLY <3>1, <3>6, RehashMoves
    <3>9. ShiftsCursors(ts, us, n)
      <4> SUFFICES ASSUME NEW q, PositionOK(ts, q)
                   PROVE  /\ PositionOK(us, q)
                          /\ At(us, q) = IF At(ts, q) >= n THEN At(ts, q) - 1 ELSE At(ts, q)
        BY DEF ShiftsCursors
      <4> PICK i : i = Index(ts, q)
        OBVIOUS
      <4>1. i \in 0 .. Len(t.key) /\ i \in 0 .. Len(u.key) /\ u.key \in Seq(Entries) /\ Len(u.key) \in Nat
        BY <1>1, <1>2, <2>4, IndexRange
      <4>2. PositionOK(us, q) /\ Index(us, q) = Live(u, i)
        BY <3>8 DEF CountsIndex
      <4>3. Live(u, i) \in 0 .. Len(v.key)
        <5>1. Len(u.key) \in i .. Len(u.key) /\ Len(u.key) \in 0 .. Len(u.key)
          BY <4>1
        <5>2. Live(u, i) <= Live(u, Len(u.key))
          BY <4>1, <5>1, LiveGrows
        <5>3. \A x \in 0 .. Len(u.key) : Live(u, x) \in 0 .. x
          BY <4>1, LiveFacts
        <5> QED
          BY ONLY <3>2, <3>5, <4>1, <5>1, <5>2, <5>3
      <4>4. At(us, q) = Live(u, i) /\ At(ts, q) = Live(t, i)
        BY <3>5, <3>7, <4>2, <4>3 DEF At
      <4> QED
        BY <2>10, <4>1, <4>2, <4>4
    <3>10. OrderOf(us) = RemoveAt(o, n)
      BY <2>8, <3>4, <3>5, <3>7 DEF OrderOf
    <3>11. Len(us) <= MaxTables
      <4>1. L \in Nat /\ MaxTables \in Nat /\ L = Len(ts)
        BY <1>1, MaxTablesAssumption
      <4> QED
        BY ONLY <3>1, <3>7, <4>1
    <3> QED
      BY <1>1, <1>6, <2>7, <3>7, <3>9, <3>10, <3>11
  <2> QED
    BY <2>11, <2>12
<1> QED
  BY <1>5, <1>6

LEMMA ClearEffect ==
    ASSUME TablesOK(tables), Len(tables) <= MaxTables, Clear
    PROVE  /\ TablesOK(tables') /\ Len(tables') <= MaxTables /\ OrderOf(tables') = <<>>
           /\ \A p : PositionOK(tables, p) => PositionOK(tables', p) /\ At(tables', p) = 0
<1> PICK ts, us, L, t, u :
        /\ ts = tables /\ us = tables' /\ L = Len(tables) /\ t = tables[Len(tables)]
        /\ u = ClearTable(tables[Len(tables)])
  OBVIOUS
<1>1. Table = t /\ GoodTable(t) /\ L \in Nat \ {0} /\ TablesOK(ts) /\ L <= MaxTables /\ u = ClearTable(t)
  BY TablesFacts DEF Table
<1>2. us = Front(ts) \o <<u>>
  BY <1>1 DEF Clear, Put
<1>3. GoodTable(u) /\ Len(u.key) = Len(t.key) /\ \A i \in 1 .. Len(t.key) : u.key[i] = KeyHole
  BY <1>1, ClearGood
<1>4. Len(t.key) \in Nat /\ u.key \in Seq(Entries)
  <2>1. RoomInv(t) /\ RoomInv(u)
    BY <1>1, <1>3 DEF GoodTable
  <2> QED
    BY <2>1, RoomFacts
<1>5. TablesOK(ts) /\ GoodTable(u) /\ Len(ts[Len(ts)].key) <= Len(u.key)
  BY <1>1, <1>3, <1>4
<1>6. TablesOK(us) /\ Len(us) = L /\ us[L] = u
  <2>1. ts \in Seq(Records) /\ ts # <<>> /\ u \in Records
    BY <1>5 DEF TablesOK, GoodTable, RoomInv
  <2> QED
    BY <1>1, <1>2, <1>5, <2>1, PutOK, PutFacts
<1>7. KeepsIndex(ts, us)
  BY ONLY <1>2, <1>5, PutMoves
<1>8. \A n \in 0 .. Len(u.key) : Live(u, n) = 0
  <2> SUFFICES ASSUME NEW n \in 0 .. Len(u.key)
               PROVE  Live(u, n) = 0
    OBVIOUS
  <2>1. /\ 0 \in 0 .. Len(u.key) /\ n \in 0 .. Len(u.key) /\ u.key \in Seq(Entries)
        /\ \A i \in 0 + 1 .. n : u.key[i] = KeyHole
    BY <1>3, <1>4
  <2>2. Live(u, 0) = Live(u, n)
    BY <2>1, LiveGrows
  <2>3. Live(u, 0) = 0
    BY <1>4, LiveFacts
  <2> QED
    BY <2>2, <2>3
<1>9. OrderOf(us) = <<>>
  <2>1. Len(Kept(u.key, Keys)) = Live(u, Len(u.key))
    BY DEF Live, Kept
  <2>2. Len(Kept(u.key, Keys)) = 0
    BY <1>3, <1>4, <1>8, <2>1
  <2>3. Kept(u.key, Keys) \in Seq(Entries)
    BY <1>4, KeptType
  <2> QED
    BY <1>6, <2>2, <2>3, EmptySeq DEF OrderOf
<1>10. ASSUME NEW p, PositionOK(ts, p)
       PROVE  PositionOK(us, p) /\ At(us, p) = 0
  <2>1. Index(ts, p) \in 0 .. Len(t.key)
    BY <1>1, <1>10, IndexRange
  <2>2. PositionOK(us, p) /\ Index(us, p) = Index(ts, p)
    BY <1>7, <1>10 DEF KeepsIndex
  <2> QED
    BY <1>3, <1>6, <1>8, <2>1, <2>2 DEF At
<1> QED
  BY <1>1, <1>6, <1>9, <1>10

-----------------------------------------------------------------------------
(* The invariant *)

CursorsOK ==
    /\ cursor \in [Cursors -> Positions \cup {Unused, Closed}]
    /\ \A c \in Cursors : cursor[c] \in {Unused, Closed} \/ PositionOK(tables, cursor[c])

TableInv == TablesOK(tables) /\ Len(tables) <= MaxTables /\ CursorsOK

LEMMA UpdatedIsIndex == \A p : UpdatedIndex(p) = Index(tables, p)
  BY DEF UpdatedIndex, Index, UpdateOf, IsUpdate, UpdateStep

\* A cursor finds the next key, or the end.
LEMMA AdvanceEffect ==
    ASSUME TableInv, NEW c \in Cursors, cursor[c] \notin {Unused, Closed}, Advance(c)
    PROVE  LET o == OrderOf(tables)
               a == At(tables, cursor[c])
           IN  /\ a \in 0 .. Len(o) /\ Len(o) \in Nat
               /\ IF a < Len(o)
                  THEN \E q \in Positions :
                        /\ cursor' = [cursor EXCEPT ![c] = q] /\ PositionOK(tables, q)
                        /\ At(tables, q) = a + 1 /\ answer' = <<"next", o[a + 1]>>
                  ELSE cursor' = [cursor EXCEPT ![c] = Closed] /\ answer' = <<"end">>
<1> PICK ts, L, t, o, p, n, M :
        /\ ts = tables /\ L = Len(tables) /\ t = tables[Len(tables)] /\ o = OrderOf(tables)
        /\ p = cursor[c] /\ n = Index(tables, cursor[c]) /\ M = Len(tables[Len(tables)].key)
  OBVIOUS
<1>1. /\ TablesOK(ts) /\ Table = t /\ L \in Nat \ {0} /\ t = ts[L] /\ M = Len(t.key)
      /\ RoomInv(t) /\ t.key \in Seq(Entries) /\ M \in Nat /\ Used(t) = M
  <2>1. TablesOK(ts)
    BY DEF TableInv
  <2>2. L \in Nat \ {0} /\ Last(ts) = ts[L]
    BY <2>1, TablesFacts
  <2>3. RoomInv(ts[L]) /\ ts[L].key \in Seq(Entries) /\ Len(ts[L].key) \in Nat /\ Used(ts[L]) = Len(ts[L].key)
    <3>1. L \in 1 .. Len(ts)
      BY <2>2
    <3> QED
      BY <2>1, <3>1, TablesFacts
  <2> QED
    BY <2>1, <2>2, <2>3 DEF Table
<1>2. PositionOK(ts, p) /\ p \in Positions /\ cursor \in [Cursors -> Positions \cup {Unused, Closed}]
  BY DEF TableInv, CursorsOK, PositionOK
<1>3. n \in 0 .. M /\ UpdatedIndex(p) = n
  <2>1. n \in 0 .. M
    BY <1>1, <1>2, IndexRange
  <2> QED
    BY <2>1, UpdatedIsIndex
<1>4. /\ \A x \in 0 .. M : Live(t, x) \in 0 .. x
      /\ Len(o) = Live(t, M) /\ o = Kept(t.key, Keys)
  <2>1. \A x \in 0 .. M : Live(t, x) \in 0 .. x
    BY <1>1, LiveFacts
  <2>2. o = Kept(t.key, Keys)
    BY DEF OrderOf
  <2> QED
    BY <1>1, <2>1, <2>2 DEF Live, Kept
<1> PICK a, left : a = At(tables, cursor[c]) /\ left = Remaining(n)
  OBVIOUS
<1>5. a = Live(t, n)
  BY DEF At
<1>6. left = {i \in n + 1 .. M : t.key[i] # KeyHole}
  BY <1>1 DEF Remaining
<1>7. M \in 0 .. M /\ M \in n .. M
  BY ONLY <1>1, <1>3
<1>8. Live(t, n) <= Live(t, M)
  BY <1>1, <1>3, <1>7, LiveGrows
<1>9. a \in 0 .. Len(o) /\ Len(o) \in Nat
  BY <1>3, <1>4, <1>5, <1>7, <1>8
<1>10. CASE left = {}
  <2>1. \A i \in n + 1 .. M : t.key[i] = KeyHole
    BY <1>6, <1>10
  <2>2. Live(t, n) = Live(t, M)
    <3>1. n \in 0 .. Len(t.key) /\ M \in n .. Len(t.key) /\ t.key \in Seq(Entries)
      BY <1>1, <1>3, <1>7
    <3> QED
      BY ONLY <2>1, <3>1, LiveGrows
  <2>3. cursor' = [cursor EXCEPT ![c] = Closed] /\ answer' = <<"end">>
    BY <1>3, <1>10 DEF Advance
  <2> QED
    BY <1>4, <1>5, <1>9, <2>2, <2>3
<1>11. CASE left # {}
  <2> PICK i : i = CHOOSE j \in left : \A l \in left : j <= l
    OBVIOUS
  <2>1. i \in left /\ \A l \in left : i <= l
    <3>1. left \in SUBSET Nat
      BY <1>3, <1>6
    <3>2. \E j \in left : \A l \in left : j <= l
      BY <1>11, <3>1, LeastElement
    <3> QED
      BY <3>2
  <2>2. /\ i \in n + 1 .. M /\ t.key[i] # KeyHole /\ i \in 1 .. M /\ i - 1 \in n .. M /\ i - 1 \in 0 .. M
        /\ i \in 0 .. M /\ M \in i .. M
    <3>1. i \in n + 1 .. M /\ t.key[i] # KeyHole
      BY <1>6, <2>1
    <3> QED
      BY <1>1, <1>3, <3>1
  <2>3. \A j \in n + 1 .. i - 1 : t.key[j] = KeyHole
    <3> SUFFICES ASSUME NEW j \in n + 1 .. i - 1, t.key[j] # KeyHole
                 PROVE  FALSE
      OBVIOUS
    <3>1. j \in left
      <4>1. j \in n + 1 .. M
        BY ONLY <1>1, <1>3, <2>2
      <4> QED
        BY <1>6, <4>1
    <3>2. i <= j
      BY <2>1, <3>1
    <3> QED
      BY <1>3, <2>2, <3>2
  <2>4. Live(t, n) = Live(t, i - 1)
    <3> PICK r : r = i - 1
      OBVIOUS
    <3>1. /\ n \in 0 .. Len(t.key) /\ r \in n .. Len(t.key) /\ t.key \in Seq(Entries)
          /\ \A j \in n + 1 .. r : t.key[j] = KeyHole
      BY <1>1, <1>3, <2>2, <2>3
    <3>2. Live(t, n) = Live(t, r)
      BY ONLY <3>1, LiveGrows
    <3> QED
      BY <3>2
  <2>5. /\ Live(t, i) \in 1 .. Len(o) /\ o[Live(t, i)] = t.key[i] /\ Live(t, i - 1) = Live(t, i) - 1
    <3>1. t.key \in Seq(Entries) /\ i \in 1 .. Len(t.key) /\ t.key[i] # KeyHole
          /\ o = Kept(t.key, Keys)
      BY <1>1, <1>4, <2>2
    <3>2. /\ Live(t, i) \in 1 .. Len(Kept(t.key, Keys))
          /\ Kept(t.key, Keys)[Live(t, i)] = t.key[i] /\ Live(t, i - 1) = Live(t, i) - 1
      BY ONLY <3>1, PlaceInOrder
    <3> QED
      BY ONLY <3>1, <3>2
  <2>6. a + 1 = Live(t, i) /\ a < Len(o)
    BY <1>5, <1>9, <2>4, <2>5
  <2> PICK q : q = [cursor[c] EXCEPT !.table = L, !.index = i]
    OBVIOUS
  <2>7. q \in Positions /\ q.table = L /\ q.index = i
    <3>1. L \in Nat /\ i \in Nat
      BY <1>1, <2>2
    <3> QED
      BY <1>2, <3>1 DEF Positions
  <2>8. PositionOK(ts, q)
    <3>1. L \in 1 .. L
      BY <1>1
    <3> QED
      BY <1>1, <2>2, <2>7, <3>1 DEF PositionOK
  <2>9. Index(ts, q) = i
    <3>1. UpdateOf(ts, q)[q.table] = q.index
      <4>1. TablesOK(ts) /\ PositionOK(ts, q)
        BY <1>1, <2>8
      <4> QED
        BY ONLY <4>1, UpdateFacts
    <3> QED
      BY <2>7, <3>1 DEF Index
  <2>10. At(ts, q) = a + 1
    BY <2>6, <2>9 DEF At
  <2>11. cursor' = [cursor EXCEPT ![c] = q] /\ answer' = <<"next", t.key[i]>>
    <3>1. /\ cursor' = [cursor EXCEPT ![c].table = Len(tables), ![c].index = i]
          /\ answer' = <<"next", Table.key[i]>>
      BY <1>3, <1>11 DEF Advance
    <3>2. cursor' = [cursor EXCEPT ![c] = q]
      <4>1. cursor' = [[cursor EXCEPT ![c].table = L] EXCEPT ![c].index = i]
        BY <3>1
      <4>2. [cursor EXCEPT ![c].table = L][c] = [cursor[c] EXCEPT !.table = L]
        BY <1>2
      <4>3. [[cursor[c] EXCEPT !.table = L] EXCEPT !.index = i] = q
        BY <1>2 DEF Positions
      <4> QED
        BY <1>2, <4>1, <4>2, <4>3
    <3> QED
      BY <1>1, <3>1, <3>2
  <2> QED
    BY <1>9, <2>5, <2>6, <2>7, <2>8, <2>10, <2>11
<1> QED
  BY <1>10, <1>11

LEMMA InitTables == TableInit => TableInv
<1> SUFFICES ASSUME TableInit
             PROVE  TableInv
  OBVIOUS
<1> PICK t : t = Create(MIN_CAPACITY)
  OBVIOUS
<1>1. GoodTable(t)
  BY CapacityAssumption, CreateGood
<1>2. t \in Records
  BY <1>1 DEF GoodTable, RoomInv
<1>3. tables = <<t>> /\ tables \in Seq(Records) /\ Len(tables) = 1 /\ tables[1] = t /\ tables # <<>>
  BY <1>2 DEF TableInit
<1>4. TablesOK(tables)
  <2>1. 1 .. Len(tables) - 1 = {}
    BY <1>3
  <2> QED
    BY <1>1, <1>3, <2>1 DEF TablesOK
<1>5. CursorsOK
  BY DEF TableInit, CursorsOK
<1> QED
  BY <1>3, <1>4, <1>5, MaxTablesAssumption DEF TableInv

\* A change of the tables that leaves every cursor a place.
LEMMA CursorsStay ==
    ASSUME CursorsOK, cursor' = cursor, \A p : PositionOK(tables, p) => PositionOK(tables', p)
    PROVE  CursorsOK'
  BY DEF CursorsOK

LEMMA SetKeeps ==
    ASSUME TableInv, NEW k \in Keys, Set(k)
    PROVE  TableInv'
<1>1. TablesOK(tables') /\ Len(tables') <= MaxTables /\ SameCursors(tables, tables')
  BY SetEffect DEF TableInv
<1>2. CursorsOK'
  BY <1>1, CursorsStay DEF TableInv, SameCursors, Set
<1> QED
  BY <1>1, <1>2 DEF TableInv

LEMMA DeleteKeeps ==
    ASSUME TableInv, NEW k \in Keys, Delete(k)
    PROVE  TableInv'
<1>1. /\ TablesOK(tables') /\ Len(tables') <= MaxTables
      /\ tables' = tables \/ \E n : ShiftsCursors(tables, tables', n)
  BY DeleteEffect DEF TableInv
<1>2. \A p : PositionOK(tables, p) => PositionOK(tables', p)
  BY <1>1 DEF ShiftsCursors
<1>3. CursorsOK'
  BY <1>2, CursorsStay DEF TableInv, Delete
<1> QED
  BY <1>1, <1>3 DEF TableInv

LEMMA ClearKeeps ==
    ASSUME TableInv, Clear
    PROVE  TableInv'
<1>1. /\ TablesOK(tables') /\ Len(tables') <= MaxTables
      /\ \A p : PositionOK(tables, p) => PositionOK(tables', p)
  BY ClearEffect DEF TableInv
<1>2. CursorsOK'
  BY <1>1, CursorsStay DEF TableInv, Clear
<1> QED
  BY <1>1, <1>2 DEF TableInv

\* A cursor of the program is at its beginning, at a place, at its end or unused.
LEMMA CursorMoves ==
    ASSUME TableInv, tables' = tables, NEW c \in Cursors,
           NEW q \in Positions \cup {Unused, Closed}, cursor' = [cursor EXCEPT ![c] = q],
           q \in {Unused, Closed} \/ PositionOK(tables, q)
    PROVE  TableInv'
<1>1. CursorsOK'
  BY DEF TableInv, CursorsOK
<1> QED
  BY <1>1 DEF TableInv

LEMMA OpenPosition ==
    ASSUME TablesOK(tables), NEW kind \in {"iterator", "forEach"}, NEW q,
           q = [kind |-> kind, table |-> Len(tables), index |-> 0]
    PROVE  PositionOK(tables, q) /\ Index(tables, q) = 0 /\ At(tables, q) = 0
<1> PICK ts, L : ts = tables /\ L = Len(tables)
  OBVIOUS
<1>1. L \in Nat \ {0} /\ L \in 1 .. L /\ Len(ts[L].key) \in Nat /\ ts[L].key \in Seq(Entries) /\ TablesOK(ts)
  <2>1. L \in Nat \ {0}
    BY TablesFacts
  <2>2. L \in 1 .. L
    BY <2>1
  <2> QED
    BY <2>1, <2>2, TablesFacts
<1>2. q \in Positions /\ q.table = L /\ q.index = 0
  BY <1>1 DEF Positions
<1>3. PositionOK(ts, q)
  BY <1>1, <1>2 DEF PositionOK
<1>4. Index(ts, q) = 0
  <2>1. UpdateOf(ts, q)[q.table] = q.index
    BY ONLY <1>1, <1>3, UpdateFacts
  <2> QED
    BY <1>2, <2>1 DEF Index
<1>5. Live(ts[L], 0) = 0
  <2> PICK t : t = ts[L]
    OBVIOUS
  <2>1. Live(t, 0) = 0
    BY <1>1, LiveFacts
  <2> QED
    BY <2>1
<1> QED
  BY <1>3, <1>4, <1>5 DEF At

LEMMA AdvanceKeeps ==
    ASSUME TableInv, NEW c \in Cursors, cursor[c] \notin {Unused, Closed}, Advance(c), UNCHANGED tables
    PROVE  TableInv'
<1>1. \E q \in Positions \cup {Unused, Closed} :
        cursor' = [cursor EXCEPT ![c] = q] /\ (q \in {Unused, Closed} \/ PositionOK(tables, q))
  BY AdvanceEffect
<1> QED
  BY <1>1, CursorMoves

LEMMA CollectKeeps ==
    ASSUME TableInv, Collect
    PROVE  TableInv' /\ OrderOf(tables') = OrderOf(tables)
           /\ \A c \in Cursors :
                IF cursor[c] \in {Unused, Closed} THEN cursor'[c] = cursor[c]
                ELSE PositionOK(tables', cursor'[c]) /\ At(tables', cursor'[c]) = At(tables, cursor[c])
<1> PICK ts, us, L : ts = tables /\ us = tables' /\ L = Len(tables)
  OBVIOUS
<1>1. /\ TablesOK(ts) /\ L > 1 /\ L <= MaxTables /\ us = Tail(ts) /\ L \in Nat
      /\ \A c \in Standing : cursor[c].table > 1
      /\ cursor' = [c \in Cursors |->
            IF c \in Standing THEN [cursor[c] EXCEPT !.table = @ - 1] ELSE cursor[c]]
  BY TablesFacts DEF TableInv, Collect
<1>2. TablesOK(us) /\ Len(us) = L - 1 /\ us[L - 1] = ts[L]
  <2>1. /\ TablesOK(Tail(ts)) /\ Len(Tail(ts)) = Len(ts) - 1
        /\ \A n \in 1 .. Len(ts) - 1 : Tail(ts)[n] = ts[n + 1]
    BY <1>1, TailOK
  <2>2. L - 1 \in 1 .. L - 1 /\ (L - 1) + 1 = L
    BY <1>1
  <2> QED
    BY <1>1, <2>1, <2>2
<1>3. Len(us) <= MaxTables
  BY <1>1, <1>2, MaxTablesAssumption
<1>4. OrderOf(us) = OrderOf(ts)
  BY <1>2 DEF OrderOf
<1>5. ASSUME NEW c \in Cursors, cursor[c] \notin {Unused, Closed}
      PROVE  PositionOK(us, cursor'[c]) /\ At(us, cursor'[c]) = At(ts, cursor[c])
  <2> PICK p, q : p = cursor[c] /\ q = [p EXCEPT !.table = @ - 1]
    OBVIOUS
  <2>1. c \in Standing /\ PositionOK(ts, p) /\ p.table > 1 /\ cursor'[c] = q
    BY <1>1, <1>5 DEF TableInv, CursorsOK, Standing
  <2>2. TablesOK(ts) /\ Len(ts) > 1
    BY <1>1
  <2>3. q = [p EXCEPT !.table = @ - 1]
    OBVIOUS
  <2>4. PositionOK(Tail(ts), q) /\ Index(Tail(ts), q) = Index(ts, p)
    BY ONLY <2>1, <2>2, <2>3, TailMoves
  <2> QED
    BY <1>1, <1>2, <2>1, <2>4 DEF At
<1>6. CursorsOK'
  <2>1. ASSUME NEW c \in Cursors
        PROVE  /\ cursor'[c] \in Positions \cup {Unused, Closed}
               /\ cursor'[c] \in {Unused, Closed} \/ PositionOK(us, cursor'[c])
    <3>1. CASE cursor[c] \in {Unused, Closed}
      BY <1>1, <3>1 DEF Standing
    <3>2. CASE cursor[c] \notin {Unused, Closed}
      BY <1>5, <3>2 DEF PositionOK
    <3> QED
      BY <3>1, <3>2
  <2> QED
    BY <1>1, <2>1 DEF CursorsOK
<1>7. \A c \in Cursors : cursor[c] \in {Unused, Closed} => cursor'[c] = cursor[c]
  BY <1>1 DEF Standing
<1> QED
  BY <1>2, <1>3, <1>4, <1>5, <1>6, <1>7 DEF TableInv

LEMMA StepKeepsTables == TableInv /\ [TableNext]_tableVars => TableInv'
<1> SUFFICES ASSUME TableInv, [TableNext]_tableVars
             PROVE  TableInv'
  OBVIOUS
<1>0. TablesOK(tables)
  BY DEF TableInv
<1>1. ASSUME NEW k \in Keys, Set(k)
      PROVE  TableInv'
  BY <1>1, SetKeeps
<1>2. ASSUME NEW k \in Keys, Delete(k)
      PROVE  TableInv'
  BY <1>2, DeleteKeeps
<1>3. ASSUME UNCHANGED <<tables, cursor>>
      PROVE  TableInv'
  BY <1>3 DEF TableInv, CursorsOK
<1>4. ASSUME NEW k \in Keys, Has(k)
      PROVE  TableInv'
  BY <1>3, <1>4 DEF Has
<1>5. ASSUME Clear
      PROVE  TableInv'
  BY <1>5, ClearKeeps
<1>6. ASSUME GetSize
      PROVE  TableInv'
  BY <1>3, <1>6 DEF GetSize
<1>7. ASSUME NEW c \in Cursors, NEW kind \in {"iterator", "forEach"},
             cursor' = [cursor EXCEPT ![c] = [kind |-> kind, table |-> Len(tables), index |-> 0]],
             UNCHANGED tables
      PROVE  TableInv'
  <2> PICK q : q = [kind |-> kind, table |-> Len(tables), index |-> 0]
    OBVIOUS
  <2>1. PositionOK(tables, q)
    BY <1>0, OpenPosition
  <2>2. q \in Positions \cup {Unused, Closed}
    BY <2>1 DEF PositionOK
  <2> QED
    BY <1>7, <2>1, <2>2, CursorMoves
<1>8. ASSUME NEW c \in Cursors, NewJSMapIterator(c)
      PROVE  TableInv'
  BY <1>7, <1>8 DEF NewJSMapIterator
<1>9. ASSUME NEW c \in Cursors, ForEach(c)
      PROVE  TableInv'
  BY <1>7, <1>9 DEF ForEach
<1>10. ASSUME NEW c \in Cursors, IteratorNext(c) \/ ForEachContinues(c)
       PROVE  TableInv'
  BY <1>10, AdvanceKeeps DEF IteratorNext, ForEachContinues, Stands
<1>11. ASSUME NEW c \in Cursors, IteratorNextAtEnd(c)
       PROVE  TableInv'
  BY <1>3, <1>11 DEF IteratorNextAtEnd
<1>12. ASSUME NEW c \in Cursors, Release(c)
       PROVE  TableInv'
  BY <1>12, CursorMoves DEF Release
<1>13. ASSUME Collect
       PROVE  TableInv'
  BY <1>13, CollectKeeps
<1>14. CASE UNCHANGED tableVars
  BY <1>3, <1>14 DEF tableVars
<1> QED
  BY <1>1, <1>2, <1>4, <1>5, <1>6, <1>8, <1>9, <1>10, <1>11, <1>12, <1>13, <1>14 DEF TableNext

LEMMA TableInvHolds == TableSpec => []TableInv
<1>1. TableInit => TableInv
  BY InitTables
<1>2. TableInv /\ [TableNext]_tableVars => TableInv'
  BY StepKeepsTables
<1> QED
  BY <1>1, <1>2, PTL DEF TableSpec

LEMMA TablesHaveTypes == TableInv => TableTypeOK
<1> SUFFICES ASSUME TableInv
             PROVE  TableTypeOK
  OBVIOUS
<1> PICK L : L = Len(tables)
  OBVIOUS
<1>1. TablesOK(tables) /\ L \in Nat \ {0} /\ DOMAIN tables = 1 .. L /\ L <= MaxTables
  <2>1. TablesOK(tables) /\ L <= MaxTables
    BY DEF TableInv
  <2> QED
    BY <2>1, TablesFacts
<1>2. ASSUME NEW n \in 1 .. L
      PROVE  LET t == tables[n]
             IN  /\ t.key \in Seq(Entries)
                 /\ Len(t.next) = Len(t.key) /\ Len(t.key) = Used(t)
                 /\ \A i \in DOMAIN t.next : t.next[i] \in NoEntry .. Used(t)
                 /\ t.bucket \in [0 .. t.capacity - 1 -> NoEntry .. Used(t) - 1]
  <2> PICK t, M : t = tables[n] /\ M = Len(t.key)
    OBVIOUS
  <2>1. RoomInv(t)
    BY <1>1, TablesFacts
  <2>2. /\ t.key \in Seq(Entries) /\ Len(t.next) = M /\ M = Used(t) /\ M \in Nat
        /\ DOMAIN t.next = 1 .. M /\ DOMAIN t.key = 1 .. M /\ t.bucket \in [0 .. t.capacity - 1 -> Int]
    BY <2>1, RoomFacts DEF RoomInv
  <2>3. /\ \A i \in 1 .. M : t.next[i] \in NoEntry .. M
        /\ \A b \in 0 .. t.capacity - 1 : t.bucket[b] \in NoEntry .. M - 1
    <3>1. CASE n = L
      <4>1. ChainInv(t)
        BY <1>1, <3>1 DEF TablesOK, GoodTable
      <4> QED
        BY <2>1, <4>1, LinksInRange
    <3>2. CASE n # L
      <4>1. n \in 1 .. L - 1
        BY <1>1, <3>2
      <4>2. OldTable(t)
        BY <1>1, <4>1 DEF TablesOK
      <4> QED
        BY <2>2, <4>2 DEF OldTable
    <3> QED
      BY <3>1, <3>2
  <2>4. t.bucket \in [0 .. t.capacity - 1 -> NoEntry .. M - 1]
    BY <2>2, <2>3
  <2> QED
    BY <2>2, <2>3, <2>4
<1>3. ASSUME NEW c \in Cursors, cursor[c] \notin {Unused, Closed}
      PROVE  /\ cursor[c] \in Positions /\ cursor[c].table \in DOMAIN tables
             /\ cursor[c].index \in 0 .. Used(tables[cursor[c].table])
  <2>1. PositionOK(tables, cursor[c])
    BY <1>3 DEF TableInv, CursorsOK
  <2>2. cursor[c].table \in 1 .. L
    BY <2>1 DEF PositionOK
  <2>3. Used(tables[cursor[c].table]) = Len(tables[cursor[c].table].key)
    BY <1>2, <2>2
  <2> QED
    BY <1>1, <2>1, <2>2, <2>3 DEF PositionOK
<1>4. L \in 1 .. MaxTables
  BY <1>1, MaxTablesAssumption
<1> QED
  BY <1>1, <1>2, <1>3, <1>4 DEF TableTypeOK, Entries

\* EntriesFit, of any keys and hashes: whatever was inserted, removed, cleared and rehashed
\* before, no entry is appended to a table that is full.
THEOREM TablesHaveRoom == TableSpec => []EntriesFit
<1>1. ASSUME TableInv
      PROVE  EntriesFit
  <2>1. TableTypeOK
    BY <1>1, TablesHaveTypes
  <2>2. \A n \in DOMAIN tables : RoomInv(tables[n])
    BY <1>1, TablesFacts DEF TableInv
  <2> QED
    BY <2>1, <2>2 DEF EntriesFit, RoomInv
<1> QED
  BY <1>1, TableInvHolds, PTL

-----------------------------------------------------------------------------
(* LinkedHashTable implements OrderedTable *)

\* The list and the cursors of OrderedTable, as LinkedHashTable maps them.
KeysInOrder == LiveKeys(Len(Table.key))
PassedBy == [c \in Cursors |-> IF cursor[c] \in {Unused, Closed} THEN cursor[c] ELSE PassedKeys(cursor[c])]

\* They are what the lemmas about the operations speak of.
Passed(ts, cs) == [c \in Cursors |-> IF cs[c] \in {Unused, Closed} THEN cs[c] ELSE At(ts, cs[c])]

LEMMA MappedState ==
    KeysInOrder = OrderOf(tables) /\ PassedBy = Passed(tables, cursor)
<1>1. \A n : LiveKeys(n) = KeptUpTo(Table.key, Keys)[n]
  BY DEF LiveKeys, KeptUpTo, IsKept, KeptStep
<1>2. Table = tables[Len(tables)]
  BY DEF Table, Last
<1>3. KeysInOrder = OrderOf(tables)
  BY <1>1, <1>2 DEF KeysInOrder, OrderOf, Kept
<1>4. \A p : PassedKeys(p) = At(tables, p)
  BY <1>1, <1>2, UpdatedIsIndex DEF PassedKeys, At, Live
<1>5. PassedBy = Passed(tables, cursor)
  BY <1>4 DEF PassedBy, Passed
<1> QED
  BY <1>3, <1>5

LEMMA UpdatedIsIndexNext == \A p : UpdatedIndex(p)' = Index(tables', p)
  BY DEF UpdatedIndex, Index, UpdateOf, IsUpdate, UpdateStep

LEMMA MappedStateNext ==
    KeysInOrder' = OrderOf(tables') /\ PassedBy' = Passed(tables', cursor')
<1>1. \A n : LiveKeys(n)' = KeptUpTo(Table'.key, Keys)[n]
  BY DEF LiveKeys, KeptUpTo, IsKept, KeptStep
<1>2. Table' = tables'[Len(tables')]
  BY DEF Table, Last
<1>3. KeysInOrder' = OrderOf(tables')
  BY <1>1, <1>2 DEF KeysInOrder, OrderOf, Kept
<1>4. \A p : PassedKeys(p)' = At(tables', p)
  BY <1>1, <1>2, UpdatedIsIndexNext DEF PassedKeys, At, Live
<1>5. PassedBy' = Passed(tables', cursor')
  BY <1>4 DEF PassedBy, Passed
<1> QED
  BY <1>3, <1>5

LEMMA AtType ==
    ASSUME NEW ts, TablesOK(ts), NEW p, PositionOK(ts, p)
    PROVE  At(ts, p) \in Nat
<1> PICK t, n : t = ts[Len(ts)] /\ n = Index(ts, p)
  OBVIOUS
<1>1. t.key \in Seq(Entries) /\ Len(t.key) \in Nat
  <2>1. Len(ts) \in 1 .. Len(ts)
    BY TablesFacts
  <2> QED
    BY <2>1, TablesFacts
<1>2. n \in 0 .. Len(t.key)
  BY IndexRange
<1>3. Live(t, n) \in 0 .. n
  BY <1>1, <1>2, LiveFacts
<1> QED
  BY <1>1, <1>2, <1>3 DEF At

\* A cursor is a number of OrderedTable exactly when it stands somewhere.
LEMMA PassedFacts ==
    ASSUME TableInv, NEW c \in Cursors
    PROVE  /\ cursor[c] \in {Unused, Closed} => Passed(tables, cursor)[c] = cursor[c]
           /\ cursor[c] \notin {Unused, Closed} =>
                /\ PositionOK(tables, cursor[c])
                /\ Passed(tables, cursor)[c] = At(tables, cursor[c])
           /\ Passed(tables, cursor)[c] \in Nat <=> cursor[c] \notin {Unused, Closed}
<1>1. CASE cursor[c] \in {Unused, Closed}
  BY <1>1, CursorAssumption DEF Passed
<1>2. CASE cursor[c] \notin {Unused, Closed}
  <2>1. TablesOK(tables) /\ PositionOK(tables, cursor[c])
    BY <1>2 DEF TableInv, CursorsOK
  <2> QED
    BY <1>2, <2>1, AtType DEF Passed
<1> QED
  BY <1>1, <1>2

LEMMA CursorMapped ==
    ASSUME TableInv, tables' = tables, NEW c \in Cursors, NEW q, cursor' = [cursor EXCEPT ![c] = q]
    PROVE  /\ KeysInOrder' = KeysInOrder
           /\ PassedBy' = [PassedBy EXCEPT ![c] = IF q \in {Unused, Closed} THEN q ELSE At(tables, q)]
<1>1. cursor \in [Cursors -> Positions \cup {Unused, Closed}]
  BY DEF TableInv, CursorsOK
<1>2. Passed(tables, cursor') =
        [Passed(tables, cursor) EXCEPT ![c] = IF q \in {Unused, Closed} THEN q ELSE At(tables, q)]
  BY <1>1 DEF Passed
<1> QED
  BY <1>2, MappedState, MappedStateNext

LEMMA NothingMapped ==
    ASSUME UNCHANGED <<tables, cursor>>
    PROVE  KeysInOrder' = KeysInOrder /\ PassedBy' = PassedBy
  BY MappedState, MappedStateNext

\* With hashes that agree on equal keys, a lookup misses none.
LEMMA NoneMatches ==
    ASSUME EqualKeysHashAlike, NEW t, GoodTable(t), NEW k \in Keys, FindElement(t, k) = NoEntry
    PROVE  \A i \in DOMAIN t.key : ~IsMatch(k, t.key[i])
<1>1. t.key \in Seq(Entries) /\ DOMAIN t.key = 1 .. Len(t.key)
  BY RoomFacts DEF GoodTable
<1>2. \A i \in DOMAIN t.key : t.key[i] \in Entries /\ ~IsSame(k, t.key[i])
  BY <1>1, PlacesOfKey, ElementOfSeq
<1> QED
  BY <1>2 DEF IsSame, IsMatch, Entries, EqualKeysHashAlike

\* What an operation answers about a key.
LEMMA FoundIsOccurs ==
    ASSUME EqualKeysHashAlike, TableInv, NEW k \in Keys
    PROVE  FindElement(Table, k) # NoEntry <=> Ordered!Occurs(k)
<1> PICK t, o, e : t = tables[Len(tables)] /\ o = OrderOf(tables) /\ e = FindElement(Table, k)
  OBVIOUS
<1>1. Table = t /\ GoodTable(t) /\ o = Kept(t.key, Keys)
  BY TablesFacts DEF TableInv, Table, OrderOf
<1>2. t.key \in Seq(Entries)
  BY <1>1, RoomFacts DEF GoodTable
<1>3. \A i \in DOMAIN o : o[i] \in Keys /\ \E j \in DOMAIN t.key : t.key[j] = o[i]
  <2>1. \A i \in DOMAIN Kept(t.key, Keys) :
            /\ Kept(t.key, Keys)[i] \in Keys
            /\ \E j \in DOMAIN t.key : t.key[j] = Kept(t.key, Keys)[i]
    BY ONLY <1>2, OrderHolds, Zenon
  <2>2. o = Kept(t.key, Keys)
    BY <1>1
  <2> QED
    BY ONLY <2>1, <2>2
<1>4. Ordered!Occurs(k) <=> \E i \in DOMAIN o : Class[o[i]] = Class[k]
  BY MappedState DEF Ordered!Occurs, KeysInOrder
<1>5. ASSUME e # NoEntry
      PROVE  \E i \in DOMAIN o : Class[o[i]] = Class[k]
  <2>1. e + 1 \in 1 .. Len(t.key) /\ t.key[e + 1] # KeyHole /\ Class[t.key[e + 1]] = Class[k]
    BY <1>1, <1>5, PlacesOfKey DEF IsMatch
  <2>2. Live(t, e + 1) \in 1 .. Len(o) /\ o[Live(t, e + 1)] = t.key[e + 1]
    BY <1>1, <1>2, <2>1, PlaceInOrder
  <2>3. DOMAIN o = 1 .. Len(o)
    BY <1>1, <1>2, OrderHolds
  <2> QED
    BY <2>1, <2>2, <2>3
<1>6. ASSUME NEW i \in DOMAIN o, Class[o[i]] = Class[k]
      PROVE  e # NoEntry
  <2>1. PICK j \in DOMAIN t.key : t.key[j] = o[i]
    BY <1>3
  <2>2. IsMatch(k, t.key[j])
    BY <1>3, <1>6, <2>1, HoleAssumption DEF IsMatch
  <2> QED
    BY <1>1, <2>2, NoneMatches
<1> QED
  BY <1>4, <1>5, <1>6

\* The keys in the order are pairwise not equal.
Apart(o) == \A i, j \in DOMAIN o : Class[o[i]] = Class[o[j]] => i = j
ClassesApart == Apart(KeysInOrder)

LEMMA SetInserts ==
    ASSUME EqualKeysHashAlike, TableInv, NEW k \in Keys, Set(k)
    PROVE  Ordered!Insert(k)
<1>1. /\ SameCursors(tables, tables')
      /\ OrderOf(tables') = IF FindElement(Table, k) # NoEntry
                            THEN OrderOf(tables) ELSE Append(OrderOf(tables), k)
  BY SetEffect DEF TableInv
<1>2. KeysInOrder' = IF Ordered!Occurs(k) THEN KeysInOrder ELSE Append(KeysInOrder, k)
  <2>1. FindElement(Table, k) # NoEntry <=> Ordered!Occurs(k)
    BY FoundIsOccurs
  <2>2. KeysInOrder = OrderOf(tables) /\ KeysInOrder' = OrderOf(tables')
    BY MappedState, MappedStateNext
  <2> QED
    BY ONLY <1>1, <2>1, <2>2
<1>3. Passed(tables', cursor') = Passed(tables, cursor)
  <2>1. cursor' = cursor
    BY DEF Set
  <2>2. ASSUME NEW c \in Cursors, cursor[c] \notin {Unused, Closed}
        PROVE  At(tables', cursor[c]) = At(tables, cursor[c])
    BY <1>1, <2>2, PassedFacts DEF SameCursors
  <2> QED
    BY <2>1, <2>2 DEF Passed
<1>4. PassedBy' = PassedBy
  BY <1>3, MappedState, MappedStateNext
<1>5. answer' = <<"set">>
  BY DEF Set
<1> QED
  BY <1>2, <1>4, <1>5 DEF Ordered!Insert, KeysInOrder, PassedBy

LEMMA DeleteRemoves ==
    ASSUME EqualKeysHashAlike, TableInv, ClassesApart, NEW k \in Keys, Delete(k)
    PROVE  Ordered!Delete(k)
<1>1. answer' = <<"delete", Ordered!Occurs(k)>>
  <2>1. answer' = <<"delete", FindElement(Table, k) # NoEntry>>
    BY DEF Delete
  <2>2. (FindElement(Table, k) # NoEntry) = Ordered!Occurs(k)
    BY FoundIsOccurs DEF Ordered!Occurs
  <2> QED
    BY ONLY <2>1, <2>2
<1>2. cursor' = cursor
  BY DEF Delete
<1>3. CASE ~Ordered!Occurs(k)
  <2>1. tables' = tables
    <3>1. FindElement(Table, k) = NoEntry
      BY <1>3, FoundIsOccurs
    <3> QED
      BY <3>1 DEF Delete
  <2>2. KeysInOrder' = KeysInOrder /\ PassedBy' = PassedBy
    BY <1>2, <2>1, NothingMapped
  <2> QED
    BY <1>1, <1>3, <2>2 DEF Ordered!Delete, KeysInOrder, PassedBy
<1>4. CASE Ordered!Occurs(k)
  <2> PICK o, t : o = OrderOf(tables) /\ t = tables[Len(tables)]
    OBVIOUS
  <2>1. /\ TablesOK(tables) /\ Len(tables) <= MaxTables /\ FindElement(Table, k) # NoEntry
    BY <1>4, FoundIsOccurs DEF TableInv
  <2>2. PICK n \in 1 .. Len(o) :
            /\ Class[o[n]] = Class[k] /\ OrderOf(tables') = RemoveAt(o, n)
            /\ ShiftsCursors(tables, tables', n)
    BY <2>1, DeleteEffect
  <2>3. Apart(o) /\ DOMAIN o = 1 .. Len(o) /\ o = KeysInOrder
    <3>1. GoodTable(t)
      BY <2>1, TablesFacts
    <3>2. t.key \in Seq(Entries) /\ o = Kept(t.key, Keys)
      BY <3>1, RoomFacts DEF GoodTable, OrderOf
    <3>3. DOMAIN o = 1 .. Len(o)
      BY <3>2, OrderHolds
    <3> QED
      BY <3>3, MappedState DEF ClassesApart
  <2>4. Ordered!Place(k) = n
    <3>1. \A i \in DOMAIN o : Class[o[i]] = Class[k] => i = n
      BY <2>2, <2>3 DEF Apart
    <3>2. n \in DOMAIN o /\ Class[o[n]] = Class[k]
      BY <2>2, <2>3
    <3>3. (CHOOSE i \in DOMAIN o : Class[o[i]] = Class[k]) = n
      BY <3>1, <3>2
    <3> QED
      BY <2>3, <3>3 DEF Ordered!Place, KeysInOrder
  <2>5. KeysInOrder' = SubSeq(KeysInOrder, 1, n - 1) \o SubSeq(KeysInOrder, n + 1, Len(KeysInOrder))
    BY <2>2, <2>3, MappedStateNext DEF RemoveAt
  <2>6. PassedBy' = [c \in Cursors |->
            IF PassedBy[c] \in Nat /\ PassedBy[c] >= n THEN PassedBy[c] - 1 ELSE PassedBy[c]]
    <3>1. ASSUME NEW c \in Cursors
          PROVE  Passed(tables', cursor')[c] =
                    IF Passed(tables, cursor)[c] \in Nat /\ Passed(tables, cursor)[c] >= n
                    THEN Passed(tables, cursor)[c] - 1 ELSE Passed(tables, cursor)[c]
      <4>1. CASE cursor[c] \in {Unused, Closed}
        BY <1>2, <4>1, PassedFacts DEF Passed
      <4>2. CASE cursor[c] \notin {Unused, Closed}
        <5>1. /\ Passed(tables, cursor)[c] \in Nat /\ Passed(tables, cursor)[c] = At(tables, cursor[c])
              /\ PositionOK(tables, cursor[c])
          BY <4>2, PassedFacts
        <5>2. Passed(tables', cursor')[c] = At(tables', cursor[c])
          BY <1>2, <4>2 DEF Passed
        <5>3. At(tables', cursor[c]) =
                IF At(tables, cursor[c]) >= n THEN At(tables, cursor[c]) - 1 ELSE At(tables, cursor[c])
          BY <2>2, <5>1 DEF ShiftsCursors
        <5> QED
          BY ONLY <5>1, <5>2, <5>3
      <4> QED
        BY <4>1, <4>2
    <3> PICK f, g : f = Passed(tables, cursor) /\ g = Passed(tables', cursor')
      OBVIOUS
    <3>2. g = [c \in Cursors |-> g[c]]
      BY DEF Passed
    <3>3. \A c \in Cursors : g[c] = IF f[c] \in Nat /\ f[c] >= n THEN f[c] - 1 ELSE f[c]
      BY <3>1
    <3>4. g = [c \in Cursors |-> IF f[c] \in Nat /\ f[c] >= n THEN f[c] - 1 ELSE f[c]]
      BY ONLY <3>2, <3>3
    <3> QED
      BY <3>4, MappedState, MappedStateNext
  <2>7. KeysInOrder' = Ordered!Without(Ordered!Place(k)) /\ PassedBy' = Ordered!Shifted(Ordered!Place(k))
    <3>1. KeysInOrder' = Ordered!Without(n)
      BY <2>5 DEF Ordered!Without, KeysInOrder
    <3>2. PassedBy' = Ordered!Shifted(n)
      BY <2>6 DEF Ordered!Shifted, PassedBy
    <3> QED
      BY ONLY <2>4, <3>1, <3>2
  <2> QED
    BY <1>1, <1>4, <2>7 DEF Ordered!Delete, KeysInOrder, PassedBy
<1> QED
  BY <1>3, <1>4

LEMMA ClearEmpties ==
    ASSUME TableInv, Clear
    PROVE  Ordered!Clear
<1>1. /\ OrderOf(tables') = <<>>
      /\ \A p : PositionOK(tables, p) => PositionOK(tables', p) /\ At(tables', p) = 0
  BY ClearEffect DEF TableInv
<1>2. cursor' = cursor /\ answer' = <<"clear">>
  BY DEF Clear
<1>3. Passed(tables', cursor') =
        [c \in Cursors |-> IF Passed(tables, cursor)[c] \in Nat THEN 0 ELSE Passed(tables, cursor)[c]]
  <2>1. ASSUME NEW c \in Cursors
        PROVE  Passed(tables', cursor')[c] =
                IF Passed(tables, cursor)[c] \in Nat THEN 0 ELSE Passed(tables, cursor)[c]
    <3>1. CASE cursor[c] \in {Unused, Closed}
      BY <1>2, <3>1, PassedFacts DEF Passed
    <3>2. CASE cursor[c] \notin {Unused, Closed}
      BY <1>1, <1>2, <3>2, PassedFacts DEF Passed
    <3> QED
      BY <3>1, <3>2
  <2> PICK f, g : f = Passed(tables, cursor) /\ g = Passed(tables', cursor')
    OBVIOUS
  <2>2. g = [c \in Cursors |-> g[c]]
    BY DEF Passed
  <2>3. \A c \in Cursors : g[c] = IF f[c] \in Nat THEN 0 ELSE f[c]
    BY <2>1
  <2>4. g = [c \in Cursors |-> IF f[c] \in Nat THEN 0 ELSE f[c]]
    BY ONLY <2>2, <2>3
  <2> QED
    BY <2>4
<1>4. KeysInOrder' = <<>> /\ PassedBy' = [c \in Cursors |-> IF PassedBy[c] \in Nat THEN 0 ELSE PassedBy[c]]
  BY <1>1, <1>3, MappedState, MappedStateNext
<1> QED
  BY <1>2, <1>4 DEF Ordered!Clear, KeysInOrder, PassedBy

LEMMA HasAnswers ==
    ASSUME EqualKeysHashAlike, TableInv, NEW k \in Keys, Has(k)
    PROVE  Ordered!Has(k)
<1>1. answer' = <<"has", FindElement(Table, k) # NoEntry>> /\ UNCHANGED <<tables, cursor>>
  BY DEF Has
<1>2. (FindElement(Table, k) # NoEntry) = Ordered!Occurs(k)
  BY FoundIsOccurs DEF Ordered!Occurs
<1>3. answer' = <<"has", Ordered!Occurs(k)>>
  BY ONLY <1>1, <1>2
<1>4. KeysInOrder' = KeysInOrder /\ PassedBy' = PassedBy
  BY <1>1, NothingMapped
<1> QED
  BY <1>3, <1>4 DEF Ordered!Has, KeysInOrder, PassedBy

LEMMA SizeCounts ==
    ASSUME TableInv, GetSize
    PROVE  Ordered!Size
<1> PICK t : t = tables[Len(tables)]
  OBVIOUS
<1>1. Table = t /\ GoodTable(t)
  BY TablesFacts DEF TableInv, Table
<1>2. t.elements = Len(OrderOf(tables))
  BY <1>1 DEF GoodTable, Live, OrderOf, Kept
<1>3. answer' = <<"size", Len(KeysInOrder)>>
  BY <1>1, <1>2, MappedState DEF GetSize
<1>4. KeysInOrder' = KeysInOrder /\ PassedBy' = PassedBy
  BY NothingMapped DEF GetSize
<1> QED
  BY <1>3, <1>4 DEF Ordered!Size, KeysInOrder, PassedBy

LEMMA CursorOpens ==
    ASSUME TableInv, NEW c \in Cursors, NEW kind \in {"iterator", "forEach"}, cursor[c] = Unused,
           cursor' = [cursor EXCEPT ![c] = [kind |-> kind, table |-> Len(tables), index |-> 0]],
           UNCHANGED tables, answer' = <<"open">>
    PROVE  Ordered!Open(c)
<1> PICK q : q = [kind |-> kind, table |-> Len(tables), index |-> 0]
  OBVIOUS
<1>1. PositionOK(tables, q) /\ At(tables, q) = 0
  BY OpenPosition DEF TableInv
<1>2. q \notin {Unused, Closed}
  BY <1>1, CursorAssumption DEF PositionOK
<1>3. KeysInOrder' = KeysInOrder /\ PassedBy' = [PassedBy EXCEPT ![c] = 0]
  BY <1>1, <1>2, CursorMapped
<1>4. PassedBy[c] = Unused
  BY PassedFacts, MappedState
<1> QED
  BY <1>3, <1>4 DEF Ordered!Open, KeysInOrder, PassedBy

LEMMA CursorAdvances ==
    ASSUME TableInv, NEW c \in Cursors, cursor[c] \notin {Unused, Closed}, Advance(c), UNCHANGED tables
    PROVE  Ordered!Advance(c)
<1> PICK o, a : o = OrderOf(tables) /\ a = At(tables, cursor[c])
  OBVIOUS
<1>1. /\ a \in 0 .. Len(o) /\ Len(o) \in Nat
      /\ IF a < Len(o)
         THEN \E q \in Positions :
                /\ cursor' = [cursor EXCEPT ![c] = q] /\ PositionOK(tables, q)
                /\ At(tables, q) = a + 1 /\ answer' = <<"next", o[a + 1]>>
         ELSE cursor' = [cursor EXCEPT ![c] = Closed] /\ answer' = <<"end">>
  BY AdvanceEffect
<1>2. PassedBy[c] = a /\ a \in Nat /\ KeysInOrder = o
  BY <1>1, PassedFacts, MappedState
<1>3. PassedBy = [d \in Cursors |-> PassedBy[d]]
  BY MappedState DEF Passed
<1>4. CASE a < Len(o)
  <2>1. PICK q \in Positions :
            /\ cursor' = [cursor EXCEPT ![c] = q] /\ PositionOK(tables, q)
            /\ At(tables, q) = a + 1 /\ answer' = <<"next", o[a + 1]>>
    BY <1>1, <1>4
  <2>2. q \notin {Unused, Closed}
    BY CursorAssumption
  <2>3. KeysInOrder' = KeysInOrder /\ PassedBy' = [PassedBy EXCEPT ![c] = a + 1]
    BY <2>1, <2>2, CursorMapped
  <2>4. PassedBy' = [PassedBy EXCEPT ![c] = @ + 1] /\ answer' = <<"next", KeysInOrder[PassedBy[c] + 1]>>
        /\ PassedBy[c] \in Nat /\ PassedBy[c] < Len(KeysInOrder)
    BY <1>2, <1>4, <2>1, <2>3
  <2> QED
    BY <2>3, <2>4 DEF Ordered!Advance, KeysInOrder, PassedBy
<1>5. CASE ~(a < Len(o))
  <2>1. cursor' = [cursor EXCEPT ![c] = Closed] /\ answer' = <<"end">>
    BY <1>1, <1>5
  <2>2. KeysInOrder' = KeysInOrder /\ PassedBy' = [PassedBy EXCEPT ![c] = Closed]
    BY <2>1, CursorMapped
  <2>3. PassedBy[c] \in Nat /\ ~(PassedBy[c] < Len(KeysInOrder))
    BY <1>2, <1>5
  <2> QED
    BY <2>1, <2>2, <2>3 DEF Ordered!Advance, KeysInOrder, PassedBy
<1> QED
  BY <1>4, <1>5

LEMMA CursorIsReleased ==
    ASSUME TableInv, NEW c \in Cursors, Release(c)
    PROVE  Ordered!Release(c)
<1>1. KeysInOrder' = KeysInOrder /\ PassedBy' = [PassedBy EXCEPT ![c] = Unused]
  BY CursorMapped DEF Release
<1>2. PassedBy[c] # Unused
  BY PassedFacts, MappedState, CursorAssumption DEF Release
<1> QED
  BY <1>1, <1>2 DEF Ordered!Release, Release, KeysInOrder, PassedBy

LEMMA CursorStaysClosed ==
    ASSUME TableInv, NEW c \in Cursors, IteratorNextAtEnd(c)
    PROVE  Ordered!AdvanceClosed(c)
<1>1. KeysInOrder' = KeysInOrder /\ PassedBy' = PassedBy
  BY NothingMapped DEF IteratorNextAtEnd
<1>2. PassedBy[c] = Closed
  BY PassedFacts, MappedState DEF IteratorNextAtEnd
<1> QED
  BY <1>1, <1>2 DEF Ordered!AdvanceClosed, IteratorNextAtEnd, KeysInOrder, PassedBy

LEMMA CollectStutters ==
    ASSUME TableInv, Collect
    PROVE  KeysInOrder' = KeysInOrder /\ PassedBy' = PassedBy /\ answer' = answer
<1>1. /\ OrderOf(tables') = OrderOf(tables)
      /\ \A c \in Cursors :
            IF cursor[c] \in {Unused, Closed} THEN cursor'[c] = cursor[c]
            ELSE PositionOK(tables', cursor'[c]) /\ At(tables', cursor'[c]) = At(tables, cursor[c])
  BY CollectKeeps
<1>2. ASSUME NEW c \in Cursors, cursor[c] \notin {Unused, Closed}
      PROVE  cursor'[c] \notin {Unused, Closed}
  BY <1>1, <1>2, CursorAssumption DEF PositionOK
<1>3. Passed(tables', cursor') = Passed(tables, cursor)
  BY <1>1, <1>2 DEF Passed
<1> QED
  BY <1>1, <1>3, MappedState, MappedStateNext DEF Collect

LEMMA StepsOfTheTable ==
    ASSUME EqualKeysHashAlike, TableInv, ClassesApart, [TableNext]_tableVars
    PROVE  Ordered!Next \/ (KeysInOrder' = KeysInOrder /\ PassedBy' = PassedBy /\ answer' = answer)
<1>1. ASSUME NEW k \in Keys, Set(k)
      PROVE  Ordered!Next
  BY <1>1, SetInserts DEF Ordered!Next
<1>2. ASSUME NEW k \in Keys, Delete(k)
      PROVE  Ordered!Next
  BY <1>2, DeleteRemoves DEF Ordered!Next
<1>3. ASSUME NEW k \in Keys, Has(k)
      PROVE  Ordered!Next
  BY <1>3, HasAnswers DEF Ordered!Next
<1>4. ASSUME Clear
      PROVE  Ordered!Next
  BY <1>4, ClearEmpties DEF Ordered!Next
<1>5. ASSUME GetSize
      PROVE  Ordered!Next
  BY <1>5, SizeCounts DEF Ordered!Next
<1>6. ASSUME NEW c \in Cursors, NewJSMapIterator(c)
      PROVE  Ordered!Next
  <2>1. Ordered!Open(c)
    BY <1>6, CursorOpens DEF NewJSMapIterator
  <2> QED
    BY <2>1 DEF Ordered!Next
<1>7. ASSUME NEW c \in Cursors, ForEach(c)
      PROVE  Ordered!Next
  <2>1. Ordered!Open(c)
    BY <1>7, CursorOpens DEF ForEach
  <2> QED
    BY <2>1 DEF Ordered!Next
<1>8. ASSUME NEW c \in Cursors, IteratorNext(c) \/ ForEachContinues(c)
      PROVE  Ordered!Next
  <2>1. Ordered!Advance(c)
    BY <1>8, CursorAdvances DEF IteratorNext, ForEachContinues, Stands
  <2> QED
    BY <2>1 DEF Ordered!Next
<1>9. ASSUME NEW c \in Cursors, IteratorNextAtEnd(c)
      PROVE  Ordered!Next
  BY <1>9, CursorStaysClosed DEF Ordered!Next
<1>10. ASSUME NEW c \in Cursors, Release(c)
       PROVE  Ordered!Next
  BY <1>10, CursorIsReleased DEF Ordered!Next
<1>11. CASE UNCHANGED tableVars
  BY <1>11, NothingMapped DEF tableVars
<1> QED
  BY <1>1, <1>2, <1>3, <1>4, <1>5, <1>6, <1>7, <1>8, <1>9, <1>10, <1>11, CollectStutters DEF TableNext

\* Equal keys do not come into the order.
LEMMA ApartAppend ==
    ASSUME NEW o \in Seq(Entries), Apart(o), NEW k \in Entries, ~\E i \in DOMAIN o : Class[o[i]] = Class[k]
    PROVE  Apart(Append(o, k))
<1> PICK u, n : u = Append(o, k) /\ n = Len(o)
  OBVIOUS
<1>1. /\ n \in Nat /\ DOMAIN o = 1 .. n /\ DOMAIN u = 1 .. n + 1
      /\ \A i \in 1 .. n : u[i] = o[i]
      /\ u[n + 1] = k
  BY LenProperties, AppendFacts
<1>2. \A i \in 1 .. n + 1 : i \in 1 .. n \/ i = n + 1
  BY <1>1
<1> QED
  BY <1>1, <1>2 DEF Apart

LEMMA ApartRemove ==
    ASSUME NEW o \in Seq(Entries), Apart(o), NEW n \in DOMAIN o
    PROVE  Apart(RemoveAt(o, n))
<1> PICK u, L : u = RemoveAt(o, n) /\ L = Len(o)
  OBVIOUS
<1>1. L \in Nat /\ DOMAIN o = 1 .. L /\ n \in 1 .. L
  BY LenProperties
<1>2. u \in Seq(Entries) /\ Len(u) = L - 1 /\ \A i \in 1 .. L - 1 : u[i] = IF i < n THEN o[i] ELSE o[i + 1]
  BY <1>1, RemoveFacts
<1>3. DOMAIN u = 1 .. L - 1
  BY <1>2, LenProperties
<1> SUFFICES ASSUME NEW i \in 1 .. L - 1, NEW j \in 1 .. L - 1, Class[u[i]] = Class[u[j]]
             PROVE  i = j
  BY <1>3 DEF Apart
<1> PICK a, b : a = (IF i < n THEN i ELSE i + 1) /\ b = (IF j < n THEN j ELSE j + 1)
  OBVIOUS
<1>4. a \in 1 .. L /\ b \in 1 .. L /\ (a = b => i = j)
  BY <1>1
<1>5. u[i] = o[a] /\ u[j] = o[b]
  BY <1>2
<1>6. a = b
  BY <1>1, <1>4, <1>5 DEF Apart
<1> QED
  BY <1>4, <1>6

LEMMA ClassesStayApart ==
    ASSUME TableInv, ClassesApart, Ordered!Next \/ KeysInOrder' = KeysInOrder
    PROVE  ClassesApart'
<1>1. KeysInOrder \in Seq(Entries)
  <2>1. LET t == tables[Len(tables)] IN GoodTable(t)
    BY TablesFacts DEF TableInv
  <2>2. tables[Len(tables)].key \in Seq(Entries)
    BY <2>1, RoomFacts DEF GoodTable
  <2> QED
    BY <2>2, OrderHolds, MappedState DEF OrderOf
<1>2. ASSUME NEW k \in Keys, Ordered!Insert(k)
      PROVE  ClassesApart'
  <2>1. KeysInOrder' = IF \E i \in DOMAIN KeysInOrder : Class[KeysInOrder[i]] = Class[k]
                       THEN KeysInOrder ELSE Append(KeysInOrder, k)
    BY <1>2 DEF Ordered!Insert, Ordered!Occurs, KeysInOrder
  <2>2. k \in Entries
    BY DEF Entries
  <2> QED
    BY <1>1, <2>1, <2>2, ApartAppend DEF ClassesApart
<1>3. ASSUME NEW k \in Keys, Ordered!Delete(k)
      PROVE  ClassesApart'
  <2>1. CASE ~\E i \in DOMAIN KeysInOrder : Class[KeysInOrder[i]] = Class[k]
    <3>1. KeysInOrder' = KeysInOrder
      BY <1>3, <2>1 DEF Ordered!Delete, Ordered!Occurs, KeysInOrder
    <3> QED
      BY <3>1 DEF ClassesApart
  <2>2. CASE \E i \in DOMAIN KeysInOrder : Class[KeysInOrder[i]] = Class[k]
    <3> PICK n : n = CHOOSE i \in DOMAIN KeysInOrder : Class[KeysInOrder[i]] = Class[k]
      OBVIOUS
    <3>1. n \in DOMAIN KeysInOrder
      BY <2>2
    <3>2. KeysInOrder' = RemoveAt(KeysInOrder, n)
      BY <1>3, <2>2
      DEF Ordered!Delete, Ordered!Occurs, Ordered!Place, Ordered!Without, RemoveAt, KeysInOrder
    <3> QED
      BY <1>1, <3>1, <3>2, ApartRemove DEF ClassesApart
  <2> QED
    BY <2>1, <2>2
<1>4. ASSUME Ordered!Clear
      PROVE  ClassesApart'
  <2>1. KeysInOrder' = <<>>
    BY <1>4 DEF Ordered!Clear, KeysInOrder
  <2>2. Apart(<<>>)
    BY DEF Apart
  <2> QED
    BY <2>1, <2>2 DEF ClassesApart
<1>5. CASE KeysInOrder' = KeysInOrder
  BY <1>5 DEF ClassesApart
<1>6. ASSUME NEW k \in Keys, Ordered!Has(k)
      PROVE  KeysInOrder' = KeysInOrder
  BY <1>6 DEF Ordered!Has, KeysInOrder
<1>7. ASSUME Ordered!Size
      PROVE  KeysInOrder' = KeysInOrder
  BY <1>7 DEF Ordered!Size, KeysInOrder
<1>8. ASSUME NEW c \in Cursors,
             Ordered!Open(c) \/ Ordered!Advance(c) \/ Ordered!Release(c) \/ Ordered!AdvanceClosed(c)
      PROVE  KeysInOrder' = KeysInOrder
  BY <1>8 DEF Ordered!Open, Ordered!Advance, Ordered!Release, Ordered!AdvanceClosed, KeysInOrder
<1> QED
  BY <1>2, <1>3, <1>4, <1>5, <1>6, <1>7, <1>8 DEF Ordered!Next

\* The table starts empty.
LEMMA OrderStartsEmpty ==
    ASSUME TableInit
    PROVE  TableInv /\ ClassesApart /\ Ordered!Init
<1>1. TableInv
  BY InitTables
<1> PICK t : t = Create(MIN_CAPACITY)
  OBVIOUS
<1>2. tables[Len(tables)] = t /\ t.key = <<>>
  BY DEF TableInit, Create
<1>3. KeysInOrder = <<>>
  <2>1. Kept(<<>>, Keys) = <<>>
    BY EmptySeq, KeptFacts DEF Kept
  <2> QED
    BY <1>2, <2>1, MappedState DEF OrderOf
<1>4. PassedBy = [c \in Cursors |-> Unused]
  BY MappedState DEF TableInit, Passed
<1>5. ClassesApart
  BY <1>3 DEF ClassesApart, Apart
<1> QED
  BY <1>1, <1>3, <1>4, <1>5 DEF Ordered!Init, TableInit, KeysInOrder, PassedBy

LEMMA ApartHolds ==
    ASSUME EqualKeysHashAlike
    PROVE  TableSpec => [](TableInv /\ ClassesApart)
<1>1. TableInit => TableInv /\ ClassesApart
  BY OrderStartsEmpty
<1>2. TableInv /\ ClassesApart /\ [TableNext]_tableVars => (TableInv /\ ClassesApart)'
  <2> SUFFICES ASSUME TableInv, ClassesApart, [TableNext]_tableVars
               PROVE  TableInv' /\ ClassesApart'
    OBVIOUS
  <2>1. TableInv'
    BY StepKeepsTables
  <2>2. ClassesApart'
    BY StepsOfTheTable, ClassesStayApart
  <2> QED
    BY <2>1, <2>2
<1> QED
  BY <1>1, <1>2, PTL DEF TableSpec

\* Entries with equal keys are the same entry.
LEMMA MatchesMeet ==
    ASSUME NEW t, t.key \in Seq(Entries), Apart(Kept(t.key, Keys)),
           NEW i \in 1 .. Len(t.key), NEW j \in 1 .. Len(t.key),
           t.key[i] # KeyHole, t.key[j] # KeyHole, Class[t.key[i]] = Class[t.key[j]]
    PROVE  i = j
<1> PICK o : o = Kept(t.key, Keys)
  OBVIOUS
<1>1. DOMAIN o = 1 .. Len(o) /\ Len(t.key) \in Nat
  BY OrderHolds, LenProperties
<1>2. Live(t, i) \in 1 .. Len(o) /\ o[Live(t, i)] = t.key[i]
  BY PlaceInOrder
<1>3. Live(t, j) \in 1 .. Len(o) /\ o[Live(t, j)] = t.key[j]
  BY PlaceInOrder
<1>4. Live(t, i) = Live(t, j) /\ Live(t, i) \in Int
  BY <1>1, <1>2, <1>3 DEF Apart
<1>5. i \in 0 .. Len(t.key) /\ j \in 0 .. Len(t.key)
  BY <1>1
<1>6. i >= j <=> Live(t, i) >= Live(t, j)
  BY <1>5, PassedIsBehind
<1>7. j >= i <=> Live(t, j) >= Live(t, i)
  BY <1>5, PassedIsBehind
<1> QED
  BY ONLY <1>1, <1>4, <1>6, <1>7, i \in 1 .. Len(t.key), j \in 1 .. Len(t.key)

\* LookupIsExact, of keys whose hashes agree where they are equal: whatever was inserted,
\* removed, cleared and rehashed before, the chain of a key's bucket leads to the one entry
\* that holds a key equal to it, or to none when there is none in the table.
THEOREM LookupsAreExact ==
    ASSUME EqualKeysHashAlike
    PROVE  TableSpec => []LookupIsExact
<1>1. ASSUME EntriesFit, TableInv, ClassesApart
      PROVE  LookupIsExact
  <2> PICK t, M : t = tables[Len(tables)] /\ M = Len(tables[Len(tables)].key)
    OBVIOUS
  <2>1. GoodTable(t) /\ Table = t
    BY <1>1, TablesFacts DEF TableInv, Table
  <2>2. t.key \in Seq(Entries) /\ DOMAIN t.key = 1 .. M
    BY <2>1, RoomFacts DEF GoodTable
  <2>3. Apart(Kept(t.key, Keys))
    BY <1>1, MappedState DEF ClassesApart, OrderOf
  <2>4. ASSUME NEW k \in Keys
        PROVE  {i \in DOMAIN t.key : IsMatch(k, t.key[i])}
                 = IF FindElement(t, k) = NoEntry THEN {} ELSE {FindElement(t, k) + 1}
    <3> PICK r : r = FindElement(t, k)
      OBVIOUS
    <3>1. CASE r = NoEntry
      <4>1. \A i \in DOMAIN t.key : ~IsMatch(k, t.key[i])
        BY <2>1, <3>1, NoneMatches
      <4> QED
        BY <3>1, <4>1
    <3>2. CASE r # NoEntry
      <4>1. r + 1 \in 1 .. M /\ IsMatch(k, t.key[r + 1])
        BY <2>1, <3>2, PlacesOfKey
      <4>2. ASSUME NEW i \in 1 .. M, IsMatch(k, t.key[i])
            PROVE  i = r + 1
        <5>1. t.key[i] # KeyHole /\ t.key[r + 1] # KeyHole /\ Class[t.key[i]] = Class[t.key[r + 1]]
          BY <4>1, <4>2 DEF IsMatch
        <5> QED
          BY <2>2, <2>3, <4>1, <5>1, MatchesMeet
      <4> QED
        BY <2>2, <3>2, <4>1, <4>2
    <3> QED
      BY <3>1, <3>2
  <2> QED
    BY <1>1, <2>1, <2>4 DEF LookupIsExact
<1> QED
  BY <1>1, TablesHaveRoom, ApartHolds, PTL

\* A Map with its cursors is an ordered list of keys, when the hashes of equal keys agree:
\* what a table with holes, rehashed and abandoned while cursors stand in it, answers to
\* every operation is what OrderedTable answers.  A cursor returns each key that stays
\* exactly once, in the order of insertion, sees the keys added behind it, and a collection
\* of old tables changes nothing.
THEOREM TablesAreOrdered ==
    ASSUME EqualKeysHashAlike
    PROVE  TableSpec => IsOrderedTable
<1>1. TableInit => Ordered!Init
  BY OrderStartsEmpty
<1>2. ASSUME TableInv, ClassesApart, [TableNext]_tableVars
      PROVE  [Ordered!Next]_<<KeysInOrder, PassedBy, answer>>
  BY <1>2, StepsOfTheTable
<1> QED
  BY <1>1, <1>2, ApartHolds, PTL DEF TableSpec, IsOrderedTable, Ordered!Spec, KeysInOrder, PassedBy

=============================================================================
