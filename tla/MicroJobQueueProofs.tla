------------------------- MODULE MicroJobQueueProofs -------------------------
(***************************************************************************)
(* Proofs about MicroJobQueue for any set of jobs and any depth of calls:  *)
(* the ring buffer behaves like a sequence, the VM's flag is exact, a      *)
(* drain leaves nothing, and the whole is a job queue.                     *)
(***************************************************************************)
EXTENDS MicroJobQueue, SequenceTheorems, TLAPS

-----------------------------------------------------------------------------
(* The ring buffer *)

\* Indices of the ring: what % does to a sum that is less than twice the capacity.
LEMMA ModSmall ==
    ASSUME NEW n \in Nat \ {0}, NEW x \in 0 .. n - 1
    PROVE  x % n = x
OBVIOUS

LEMMA ModWrap ==
    ASSUME NEW n \in Nat \ {0}, NEW x \in n .. 2 * n - 1
    PROVE  x % n = x - n
OBVIOUS

\* The place in the ring `by` elements behind place `from`.
Place(q, by) == IF q.start + by < q.capacity THEN q.start + by ELSE q.start + by - q.capacity

QueueType == [capacity : Nat, start : Nat, end : Nat,
              elements : UNION {[0 .. n - 1 -> Jobs \cup {NoJob}] : n \in Nat}]

\* How many elements are in the ring.
Count(q) == IF q.start <= q.end THEN q.end - q.start ELSE q.end - q.start + q.capacity

\* A TaggedQueue: one that is shared and empty, or a ring with one free element at least,
\* whose elements lie from start on to end, and holes elsewhere.
IsQueue(q) ==
    /\ q \in QueueType
    /\ q.elements \in [0 .. q.capacity - 1 -> Jobs \cup {NoJob}]
    /\ \/ q.capacity = 0 /\ q.start = 0 /\ q.end = 0
       \/ q.capacity >= Q!MIN_CAPACITY /\ q.start < q.capacity /\ q.end < q.capacity
    /\ \A i \in 0 .. Count(q) - 1 : q.elements[Place(q, i)] \in Jobs
    /\ \A k \in 0 .. q.capacity - 1 :
        q.elements[k] # NoJob => \E i \in 0 .. Count(q) - 1 : k = Place(q, i)

\* The model's arithmetic modulo the capacity is that of Place and Count.
LEMMA RingFacts ==
    ASSUME NEW q, IsQueue(q)
    PROVE  /\ Q!Size(q) = Count(q) /\ Count(q) \in Nat
           /\ q.capacity # 0 => Count(q) < q.capacity
           /\ q.capacity # 0 => \A i \in 0 .. q.capacity - 1 : (q.start + i) % q.capacity = Place(q, i)
           /\ \A i \in 0 .. q.capacity - 1 : Place(q, i) \in 0 .. q.capacity - 1
           /\ \A i, n \in 0 .. q.capacity - 1 : Place(q, i) = Place(q, n) => i = n
           /\ Q!Empty(q) <=> Count(q) = 0
           /\ Q!Elements(q) \in Seq(Jobs) /\ Len(Q!Elements(q)) = Count(q)
           /\ \A i \in 1 .. Count(q) : Q!Elements(q)[i] = q.elements[Place(q, i - 1)]
<1>1. /\ q.capacity \in Nat /\ q.start \in Nat /\ q.end \in Nat
      /\ \/ q.capacity = 0 /\ q.start = 0 /\ q.end = 0
         \/ q.capacity >= 2 /\ q.start < q.capacity /\ q.end < q.capacity
  BY DEF IsQueue, QueueType, Q!MIN_CAPACITY
<1>2. Count(q) \in Nat /\ (IF q.capacity = 0 THEN Count(q) = 0 ELSE Count(q) < q.capacity)
  BY <1>1 DEF Count
<1>3. Q!Size(q) = Count(q)
  BY <1>1, <1>2, ModSmall, ModWrap DEF Count, Q!Size
<1>4. /\ q.capacity # 0 => \A i \in 0 .. q.capacity - 1 : (q.start + i) % q.capacity = Place(q, i)
      /\ \A i \in 0 .. q.capacity - 1 : Place(q, i) \in 0 .. q.capacity - 1
      /\ \A i, n \in 0 .. q.capacity - 1 : Place(q, i) = Place(q, n) => i = n
  <2>1. ASSUME NEW i \in 0 .. q.capacity - 1, q.capacity # 0
        PROVE  (q.start + i) % q.capacity = Place(q, i)
    <3> DEFINE x == q.start + i
    <3>1. q.capacity \in Nat \ {0} /\ (x \in 0 .. q.capacity - 1 \/ x \in q.capacity .. 2 * q.capacity - 1)
      BY <1>1, <2>1
    <3>2. x \in 0 .. q.capacity - 1 => x % q.capacity = x
      BY <3>1, ModSmall
    <3>3. x \in q.capacity .. 2 * q.capacity - 1 => x % q.capacity = x - q.capacity
      BY <3>1, ModWrap
    <3> QED
      BY <1>1, <2>1, <3>1, <3>2, <3>3 DEF Place
  <2>2. \A i \in 0 .. q.capacity - 1 : Place(q, i) \in 0 .. q.capacity - 1
    BY <1>1 DEF Place
  <2>3. \A i, n \in 0 .. q.capacity - 1 : Place(q, i) = Place(q, n) => i = n
    BY <1>1 DEF Place
  <2> QED
    BY <2>1, <2>2, <2>3
<1>5. Q!Empty(q) <=> Count(q) = 0
  BY <1>1 DEF Q!Empty, Count
<1>6. Q!Elements(q) = [i \in 1 .. Count(q) |-> q.elements[Place(q, i - 1)]]
  <2>1. \A i \in 1 .. Count(q) : (q.start + i - 1) % q.capacity = Place(q, i - 1)
    <3> SUFFICES ASSUME NEW i \in 1 .. Count(q)
                 PROVE  (q.start + i - 1) % q.capacity = Place(q, i - 1)
      OBVIOUS
    <3>1. i - 1 \in 0 .. q.capacity - 1 /\ q.capacity # 0 /\ q.start + i - 1 = q.start + (i - 1)
      BY <1>1, <1>2
    <3> QED
      BY <1>4, <3>1
  <2> QED
    BY <1>3, <2>1 DEF Q!Elements
<1>7. \A i \in 1 .. Count(q) : q.elements[Place(q, i - 1)] \in Jobs
  <2> SUFFICES ASSUME NEW i \in 1 .. Count(q)
               PROVE  q.elements[Place(q, i - 1)] \in Jobs
    OBVIOUS
  <2>1. i - 1 \in 0 .. Count(q) - 1
    BY <1>2
  <2> QED
    BY <2>1 DEF IsQueue
<1> QED
  BY <1>2, <1>3, <1>4, <1>5, <1>6, <1>7

\* Front and Pop take the first element.
LEMMA PopFacts ==
    ASSUME NEW q, IsQueue(q), ~Q!Empty(q)
    PROVE  /\ IsQueue(Q!Pop(q))
           /\ Q!Elements(q) # <<>> /\ Q!Front(q) = Head(Q!Elements(q)) /\ Q!Front(q) \in Jobs
           /\ Q!Elements(Q!Pop(q)) = Tail(Q!Elements(q))
<1> DEFINE p == Q!Pop(q)
<1>1. /\ q.capacity \in Nat /\ q.capacity >= 2 /\ q.start \in Nat /\ q.end \in Nat
      /\ q.start < q.capacity /\ q.end < q.capacity /\ q.start # q.end
      /\ q \in QueueType /\ q.elements \in [0 .. q.capacity - 1 -> Jobs \cup {NoJob}]
  BY DEF IsQueue, QueueType, Q!MIN_CAPACITY, Q!Empty
<1>0. /\ q.capacity \in Nat /\ q.capacity >= 2 /\ q.start \in Nat /\ q.end \in Nat
      /\ q.start < q.capacity /\ q.end < q.capacity /\ q.start # q.end
  BY <1>1
<1>2. (q.start + 1) % q.capacity = IF q.start + 1 < q.capacity THEN q.start + 1 ELSE 0
  <2>1. q.start + 1 < q.capacity => (q.start + 1) % q.capacity = q.start + 1
    BY <1>1, ModSmall
  <2>2. q.start + 1 = q.capacity => (q.start + 1) % q.capacity = 0
    BY <1>1, ModWrap
  <2> QED
    BY <1>1, <2>1, <2>2
<1> DEFINE start == IF q.start + 1 < q.capacity THEN q.start + 1 ELSE 0
           elements == [q.elements EXCEPT ![q.start] = NoJob]
<1>3. p = [q EXCEPT !.elements = elements, !.start = start]
  BY <1>1, <1>2 DEF Q!Pop, QueueType
<1>4. elements \in [0 .. q.capacity - 1 -> Jobs \cup {NoJob}]
  BY <1>1
<1>5. /\ p.capacity = q.capacity /\ p.end = q.end /\ p.start = start /\ p.elements = elements
      /\ p \in QueueType
  <2>1. elements \in UNION {[0 .. n - 1 -> Jobs \cup {NoJob}] : n \in Nat}
    BY <1>1, <1>4
  <2>2. start \in Nat
    BY <1>1
  <2> HIDE DEF elements, start
  <2> QED
    BY <1>1, <1>3, <2>1, <2>2 DEF QueueType
<1>6. start \in Nat /\ start < q.capacity
  BY <1>1
<1> HIDE DEF p
<1>7. Count(p) = Count(q) - 1 /\ Count(q) \in 1 .. q.capacity - 1
  <2>1. Count(q) \in 1 .. q.capacity - 1
    BY <1>1 DEF Count
  <2>2. CASE q.start + 1 < q.capacity
    <3>1. p.start = q.start + 1 /\ p.end = q.end /\ p.capacity = q.capacity
      BY <1>5, <2>2
    <3> HIDE DEF start, elements
    <3> QED
      BY ONLY <1>0, <2>2, <3>1 DEF Count
  <2>3. CASE q.start + 1 = q.capacity
    <3>1. p.start = 0 /\ p.end = q.end /\ p.capacity = q.capacity
      <4>1. start = 0
        BY ONLY <1>0, <2>3
      <4> HIDE DEF start, elements
      <4> QED
        BY ONLY <1>5, <4>1
    <3> QED
      BY ONLY <1>0, <2>3, <3>1 DEF Count
  <2> QED
    BY <1>1, <2>1, <2>2, <2>3
<1>8. \A i \in 0 .. Count(q) - 2 : Place(p, i) = Place(q, i + 1) /\ Place(q, i + 1) # q.start
  <2>1. CASE q.start + 1 < q.capacity
    <3>1. p.start = q.start + 1 /\ p.capacity = q.capacity
      BY <1>5, <2>1
    <3> HIDE DEF start, elements
    <3> QED
      BY ONLY <1>0, <1>7, <2>1, <3>1 DEF Place
  <2>2. CASE q.start + 1 = q.capacity
    <3>1. p.start = 0 /\ p.capacity = q.capacity
      <4>1. start = 0
        BY ONLY <1>0, <2>2
      <4> HIDE DEF start, elements
      <4> QED
        BY ONLY <1>5, <4>1
    <3> SUFFICES ASSUME NEW i \in 0 .. Count(q) - 2
                 PROVE  Place(p, i) = Place(q, i + 1) /\ Place(q, i + 1) # q.start
      OBVIOUS
    <3>2. i \in Nat /\ i + 1 < q.capacity
      BY ONLY <1>0, <1>7, i \in 0 .. Count(q) - 2
    <3>3. Place(p, i) = i
      BY ONLY <1>0, <3>1, <3>2 DEF Place
    <3>4. Place(q, i + 1) = i
      BY ONLY <1>0, <2>2, <3>2 DEF Place
    <3> QED
      BY ONLY <1>0, <2>2, <3>2, <3>3, <3>4
  <2> QED
    BY <1>1, <2>1, <2>2
<1>9. Place(q, 0) = q.start
  BY <1>1 DEF Place
<1>10. \A i \in 0 .. Count(q) - 2 : Place(q, i + 1) \in 0 .. q.capacity - 1
                                    /\ p.elements[Place(p, i)] = q.elements[Place(q, i + 1)]
  <2>1. \A i \in 0 .. Count(q) - 2 : Place(q, i + 1) \in 0 .. q.capacity - 1
    BY ONLY <1>0, <1>7 DEF Place
  <2> QED
    BY <1>1, <1>5, <1>8, <2>1
<1>11. IsQueue(p)
  <2>1. \A i \in 0 .. Count(p) - 1 : p.elements[Place(p, i)] \in Jobs
    <3> SUFFICES ASSUME NEW i \in 0 .. Count(p) - 1
                 PROVE  p.elements[Place(p, i)] \in Jobs
      OBVIOUS
    <3>1. i \in 0 .. Count(q) - 2 /\ i + 1 \in 0 .. Count(q) - 1
      BY <1>7
    <3> QED
      BY <1>10, <3>1 DEF IsQueue
  <2>2. ASSUME NEW k \in 0 .. p.capacity - 1, p.elements[k] # NoJob
        PROVE  \E i \in 0 .. Count(p) - 1 : k = Place(p, i)
    <3>1. k # q.start /\ q.elements[k] # NoJob /\ k \in 0 .. q.capacity - 1
      BY <1>1, <1>5, <2>2
    <3>2. PICK i \in 0 .. Count(q) - 1 : k = Place(q, i)
      BY <3>1 DEF IsQueue
    <3>3. i - 1 \in 0 .. Count(q) - 2 /\ i - 1 \in 0 .. Count(p) - 1 /\ (i - 1) + 1 = i
      BY <1>7, <1>9, <3>1, <3>2
    <3>4. k = Place(p, i - 1)
      BY <1>8, <3>2, <3>3
    <3> QED
      BY <3>3, <3>4
  <2> QED
    BY <1>1, <1>4, <1>5, <1>6, <2>1, <2>2 DEF IsQueue, Q!MIN_CAPACITY
<1> DEFINE s == Q!Elements(q)
           t == Q!Elements(p)
<1>12. /\ s \in Seq(Jobs) /\ Len(s) = Count(q) /\ \A i \in 1 .. Count(q) : s[i] = q.elements[Place(q, i - 1)]
       /\ t \in Seq(Jobs) /\ Len(t) = Count(p) /\ \A i \in 1 .. Count(p) : t[i] = p.elements[Place(p, i - 1)]
  BY <1>11, RingFacts
<1> HIDE DEF s, t
<1>13. s # <<>> /\ Head(s) = s[1] /\ s[1] = q.elements[q.start] /\ s[1] \in Jobs
  <2>1. s # <<>> /\ Head(s) = s[1]
    BY <1>7, <1>12, EmptySeq
  <2>2. s[1] = q.elements[Place(q, 0)]
    BY <1>7, <1>12
  <2> QED
    BY <1>7, <1>9, <1>12, <2>1, <2>2, ElementOfSeq
<1>14. t = Tail(s)
  <2>1. Tail(s) \in Seq(Jobs) /\ Len(Tail(s)) = Len(s) - 1 /\ \A i \in 1 .. Len(s) - 1 : Tail(s)[i] = s[i + 1]
    BY <1>12, <1>13, HeadTailProperties, LenProperties
  <2>2. ASSUME NEW i \in 1 .. Len(t)
        PROVE  t[i] = Tail(s)[i]
    <3>1. i - 1 \in 0 .. Count(q) - 2 /\ i + 1 \in 1 .. Count(q) /\ (i - 1) + 1 = i /\ (i + 1) - 1 = i
          /\ i \in 1 .. Len(s) - 1 /\ i \in 1 .. Count(p)
      BY <1>7, <1>12, <2>2
    <3>2. t[i] = q.elements[Place(q, i)]
      BY <1>10, <1>12, <3>1
    <3>3. Tail(s)[i] = q.elements[Place(q, i)]
      BY <1>12, <2>1, <3>1
    <3> QED
      BY <3>2, <3>3
  <2> QED
    BY <1>7, <1>12, <2>1, <2>2, SeqEqual
<1> QED
  BY <1>11, <1>13, <1>14 DEF p, s, t, Q!Front

\* Elements of a queue whose ring holds what the ring of q holds, and a value behind it.
LEMMA AppendedFacts ==
    ASSUME NEW q, IsQueue(q), NEW p, IsQueue(p), NEW value \in Jobs,
           Count(p) = Count(q) + 1,
           \A i \in 0 .. Count(q) - 1 : p.elements[Place(p, i)] = q.elements[Place(q, i)],
           p.elements[Place(p, Count(q))] = value
    PROVE  Q!Elements(p) = Append(Q!Elements(q), value)
<1> DEFINE s == Q!Elements(q)
           t == Q!Elements(p)
<1>1. /\ s \in Seq(Jobs) /\ Len(s) = Count(q) /\ \A i \in 1 .. Count(q) : s[i] = q.elements[Place(q, i - 1)]
      /\ t \in Seq(Jobs) /\ Len(t) = Count(p) /\ \A i \in 1 .. Count(p) : t[i] = p.elements[Place(p, i - 1)]
      /\ Count(q) \in Nat
  BY RingFacts
<1> HIDE DEF s, t
<1>2. /\ Append(s, value) \in Seq(Jobs) /\ Len(Append(s, value)) = Len(s) + 1
      /\ Append(s, value)[Len(s) + 1] = value
      /\ \A i \in 1 .. Len(s) : Append(s, value)[i] = s[i]
  BY <1>1, AppendProperties
<1>3. ASSUME NEW i \in 1 .. Len(t)
      PROVE  t[i] = Append(s, value)[i]
  <2>1. CASE i = Count(q) + 1
    <3>1. i - 1 = Count(q) /\ i \in 1 .. Count(p)
      BY <1>1, <1>3, <2>1
    <3>2. t[i] = value
      BY <1>1, <3>1
    <3> QED
      BY <1>1, <1>2, <2>1, <3>2
  <2>2. CASE i \in 1 .. Count(q)
    <3>1. i - 1 \in 0 .. Count(q) - 1 /\ i \in 1 .. Count(p)
      BY <1>1, <2>2
    <3>2. t[i] = s[i]
      BY <1>1, <2>2, <3>1
    <3> QED
      BY <1>1, <1>2, <2>2, <3>2
  <2> QED
    BY <1>1, <1>3, <2>1, <2>2
<1> QED
  BY <1>1, <1>2, <1>3, SeqEqual DEF s, t

\* Push into a queue that has room puts the value behind the others.
LEMMA PushedFacts ==
    ASSUME NEW q, IsQueue(q), ~Q!Full(q), NEW value \in Jobs
    PROVE  /\ IsQueue(Q!Pushed(q, value))
           /\ Q!Elements(Q!Pushed(q, value)) = Append(Q!Elements(q), value)
<1> DEFINE p == Q!Pushed(q, value)
           end == IF q.end + 1 < q.capacity THEN q.end + 1 ELSE 0
           elements == [q.elements EXCEPT ![q.end] = value]
<1>1. /\ q.capacity \in Nat /\ q.capacity >= 2 /\ q.start \in Nat /\ q.end \in Nat
      /\ q.start < q.capacity /\ q.end < q.capacity
  BY DEF IsQueue, QueueType, Q!MIN_CAPACITY, Q!Full
<1>2. q \in QueueType /\ q.elements \in [0 .. q.capacity - 1 -> Jobs \cup {NoJob}]
  BY DEF IsQueue
<1>3. (q.end + 1) % q.capacity = end
  <2>1. q.end + 1 < q.capacity => (q.end + 1) % q.capacity = q.end + 1
    BY <1>1, ModSmall
  <2>2. q.end + 1 = q.capacity => (q.end + 1) % q.capacity = 0
    BY <1>1, ModWrap
  <2> QED
    BY <1>1, <2>1, <2>2
<1>4. end \in Nat /\ end < q.capacity /\ end # q.start
  BY <1>1, <1>3 DEF Q!Full
<1>5. elements \in [0 .. q.capacity - 1 -> Jobs \cup {NoJob}]
  BY <1>1, <1>2
<1>6. /\ p.capacity = q.capacity /\ p.end = end /\ p.start = q.start /\ p.elements = elements
      /\ p \in QueueType
  <2>1. p = [q EXCEPT !.elements = elements, !.end = end]
    BY <1>1, <1>2, <1>3 DEF Q!Pushed, QueueType
  <2>2. elements \in UNION {[0 .. n - 1 -> Jobs \cup {NoJob}] : n \in Nat}
    BY <1>1, <1>5
  <2> HIDE DEF elements, end
  <2> QED
    BY <1>2, <1>4, <2>1, <2>2 DEF QueueType
<1> HIDE DEF p
<1>7. p.end = (IF q.end + 1 < q.capacity THEN q.end + 1 ELSE 0) /\ p.start = q.start
      /\ p.capacity = q.capacity /\ p.end # q.start
  BY <1>4, <1>6
<1>8. Count(q) \in 0 .. q.capacity - 2 /\ Count(p) = Count(q) + 1
  <2>1. CASE q.end + 1 < q.capacity
    <3>1. p.end = q.end + 1
      BY <1>7, <2>1
    <3> QED
      BY ONLY <1>1, <1>7, <3>1, <2>1 DEF Count
  <2>2. CASE q.end + 1 = q.capacity
    <3>1. p.end = 0
      BY <1>1, <1>7, <2>2
    <3> QED
      BY ONLY <1>1, <1>7, <3>1, <2>2 DEF Count
  <2> QED
    BY <1>1, <2>1, <2>2
<1>9. Place(q, Count(q)) = q.end
  BY ONLY <1>1 DEF Place, Count
<1>10. \A i : Place(p, i) = Place(q, i)
  BY <1>7 DEF Place
<1>11. /\ \A i \in 0 .. q.capacity - 1 : Place(q, i) \in 0 .. q.capacity - 1
       /\ \A i, n \in 0 .. q.capacity - 1 : Place(q, i) = Place(q, n) => i = n
  BY RingFacts
<1>12. ASSUME NEW i \in 0 .. Count(q) - 1
       PROVE  p.elements[Place(p, i)] = q.elements[Place(q, i)]
  <2>1. i \in 0 .. q.capacity - 1 /\ Count(q) \in 0 .. q.capacity - 1 /\ i # Count(q)
    BY <1>1, <1>8, <1>12
  <2>2. Place(q, i) # q.end /\ Place(q, i) \in 0 .. q.capacity - 1
    BY <1>9, <1>11, <2>1
  <2> QED
    BY <1>2, <1>6, <1>10, <2>2
<1>13. p.elements[Place(p, Count(q))] = value
  <2>1. q.end \in 0 .. q.capacity - 1
    BY <1>1
  <2> QED
    BY <1>2, <1>6, <1>9, <1>10, <2>1, ZenonT(40)
<1>14. IsQueue(p)
  <2>1. \A i \in 0 .. Count(p) - 1 : p.elements[Place(p, i)] \in Jobs
    <3> SUFFICES ASSUME NEW i \in 0 .. Count(p) - 1
                 PROVE  p.elements[Place(p, i)] \in Jobs
      OBVIOUS
    <3>1. i \in 0 .. Count(q) - 1 \/ i = Count(q)
      BY <1>8
    <3> QED
      BY <1>12, <1>13, <3>1 DEF IsQueue
  <2>2. ASSUME NEW k \in 0 .. p.capacity - 1, p.elements[k] # NoJob
        PROVE  \E i \in 0 .. Count(p) - 1 : k = Place(p, i)
    <3>1. CASE k = q.end
      <4>1. Count(q) \in 0 .. Count(p) - 1
        BY <1>8
      <4> QED
        BY <1>9, <1>10, <3>1, <4>1
    <3>2. CASE k # q.end
      <4>1. k \in 0 .. q.capacity - 1 /\ q.elements[k] # NoJob
        BY <1>2, <1>6, <2>2, <3>2
      <4>2. PICK i \in 0 .. Count(q) - 1 : k = Place(q, i)
        BY <4>1 DEF IsQueue
      <4>3. i \in 0 .. Count(p) - 1
        BY <1>8
      <4> QED
        BY <1>10, <4>2, <4>3
    <3> QED
      BY <3>1, <3>2
  <2>3. p.end < p.capacity
    BY <1>4, <1>6
  <2> QED
    BY <1>1, <1>5, <1>6, <2>1, <2>2, <2>3 DEF IsQueue, Q!MIN_CAPACITY
<1>15. Q!Elements(p) = Append(Q!Elements(q), value)
  BY <1>8, <1>12, <1>13, <1>14, AppendedFacts
<1> QED
  BY <1>14, <1>15 DEF p

\* The queue a VM starts with.
LEMMA EmptyTaggedQueueFacts ==
    IsQueue(Q!EmptyTaggedQueue) /\ Q!Elements(Q!EmptyTaggedQueue) = <<>>
<1> DEFINE q == Q!EmptyTaggedQueue
<1>1. /\ q.capacity = 0 /\ q.start = 0 /\ q.end = 0
      /\ q.elements = [i \in 0 .. 0 - 1 |-> NoJob]
  BY DEF Q!EmptyTaggedQueue, Q!NewTaggedQueue
<1>2. q.elements \in [0 .. q.capacity - 1 -> Jobs \cup {NoJob}]
  BY <1>1
<1>3. q \in QueueType
  <2>1. q.elements \in UNION {[0 .. n - 1 -> Jobs \cup {NoJob}] : n \in Nat}
    BY <1>1, <1>2
  <2> QED
    BY <1>1, <2>1 DEF QueueType, Q!EmptyTaggedQueue, Q!NewTaggedQueue
<1> HIDE DEF q
<1>4. Count(q) = 0
  BY <1>1 DEF Count
<1>5. IsQueue(q)
  BY <1>1, <1>2, <1>3, <1>4 DEF IsQueue
<1>6. Q!Elements(q) \in Seq(Jobs) /\ Len(Q!Elements(q)) = 0
  BY <1>4, <1>5, RingFacts
<1> QED
  BY <1>5, <1>6, EmptySeq DEF q

\* Push into a full queue: the new one starts at 0, with the elements in order and room for
\* more.
LEMMA GrownFacts ==
    ASSUME NEW q, IsQueue(q), Q!Full(q), NEW value \in Jobs
    PROVE  /\ IsQueue(Q!Grown(q, value))
           /\ Q!Elements(Q!Grown(q, value)) = Append(Q!Elements(q), value)
<1> DEFINE p == Q!Grown(q, value)
           capacity == IF q.capacity = 0 THEN 2 ELSE q.capacity + q.capacity \div 2
           elements == [k \in 0 .. capacity - 1 |->
                IF k < Count(q) THEN q.elements[Place(q, k)] ELSE IF k = Count(q) THEN value ELSE NoJob]
<1>1. /\ q.capacity \in Nat /\ q.start \in Nat /\ q.end \in Nat
      /\ \/ q.capacity = 0 /\ q.start = 0 /\ q.end = 0
         \/ q.capacity >= 2 /\ q.start < q.capacity /\ q.end < q.capacity
  BY DEF IsQueue, QueueType, Q!MIN_CAPACITY
<1>2. /\ Q!Size(q) = Count(q) /\ Count(q) \in Nat
      /\ IF q.capacity = 0 THEN Count(q) = 0 ELSE Count(q) < q.capacity
      /\ q.capacity # 0 => \A i \in 0 .. q.capacity - 1 : (q.start + i) % q.capacity = Place(q, i)
  BY <1>1, RingFacts DEF Count
<1>3. capacity \in Nat /\ capacity >= 2 /\ Count(q) + 1 < capacity
  <2>1. q.capacity # 0 => q.capacity \div 2 \in Nat /\ q.capacity \div 2 >= 1
    BY <1>1
  <2> QED
    BY <1>1, <1>2, <2>1
<1>4. \A i \in 0 .. Count(q) - 1 : q.elements[Place(q, i)] \in Jobs
  BY DEF IsQueue
<1>5. elements \in [0 .. capacity - 1 -> Jobs \cup {NoJob}]
  <2>1. ASSUME NEW k \in 0 .. capacity - 1
        PROVE  (IF k < Count(q) THEN q.elements[Place(q, k)] ELSE IF k = Count(q) THEN value ELSE NoJob)
                    \in Jobs \cup {NoJob}
    <3>1. k < Count(q) => k \in 0 .. Count(q) - 1
      BY <1>2, <1>3, <2>1
    <3> QED
      BY <1>4, <3>1
  <2> HIDE DEF capacity
  <2> QED
    BY <2>1
<1>6. p.capacity = capacity /\ p.start = 0 /\ p.end = Count(q) + 1 /\ p.elements = elements
      /\ p = [capacity |-> capacity, start |-> 0, end |-> Count(q) + 1, elements |-> elements]
  <2>1. CASE q.capacity = 0
    <3>1. p = [Q!NewTaggedQueue(2) EXCEPT !.elements[0] = value, !.end = 1]
      BY <2>1 DEF Q!Grown, Q!MIN_CAPACITY
    <3>2. p = [capacity |-> 2, start |-> 0, end |-> 1,
               elements |-> [[k \in 0 .. 2 - 1 |-> NoJob] EXCEPT ![0] = value]]
      BY <3>1 DEF Q!NewTaggedQueue
    <3>3. capacity = 2 /\ Count(q) = 0
      BY <1>2, <2>1
    <3>4. elements = [[k \in 0 .. 2 - 1 |-> NoJob] EXCEPT ![0] = value]
      BY <3>3
    <3> HIDE DEF elements, capacity, p
    <3> QED
      BY <3>2, <3>3, <3>4
  <2>2. CASE q.capacity # 0
    <3>1. p = [capacity |-> capacity, start |-> 0, end |-> Count(q) + 1,
               elements |-> [k \in 0 .. capacity - 1 |->
                    IF k < Count(q) THEN q.elements[(q.start + k) % q.capacity]
                    ELSE IF k = Count(q) THEN value ELSE NoJob]]
      BY <1>2, <2>2 DEF Q!Grown
    <3>2. \A k \in 0 .. capacity - 1 : k < Count(q) => (q.start + k) % q.capacity = Place(q, k)
      <4> SUFFICES ASSUME NEW k \in 0 .. capacity - 1, k < Count(q)
                   PROVE  (q.start + k) % q.capacity = Place(q, k)
        OBVIOUS
      <4>1. k \in 0 .. q.capacity - 1
        BY <1>1, <1>2, <1>3, <2>2
      <4> QED
        BY <1>2, <2>2, <4>1
    <3> HIDE DEF capacity, p
    <3> QED
      BY <3>1, <3>2
  <2> QED
    BY <2>1, <2>2
<1>7. p \in QueueType
  <2>1. elements \in UNION {[0 .. n - 1 -> Jobs \cup {NoJob}] : n \in Nat}
    BY <1>3, <1>5
  <2> HIDE DEF elements, capacity, p
  <2> QED
    BY <1>2, <1>3, <1>6, <2>1 DEF QueueType
<1>8. /\ \A k \in 0 .. Count(q) - 1 : elements[k] = q.elements[Place(q, k)]
      /\ elements[Count(q)] = value
      /\ \A k \in Count(q) + 1 .. capacity - 1 : elements[k] = NoJob
  BY <1>2, <1>3
<1> HIDE DEF p, elements, capacity
<1>9. Count(p) = Count(q) + 1 /\ \A k \in 0 .. Count(q) : Place(p, k) = k
  BY <1>2, <1>3, <1>6 DEF Count, Place
<1>10. \A i \in 0 .. Count(q) - 1 : p.elements[Place(p, i)] = q.elements[Place(q, i)]
  BY <1>2, <1>6, <1>8, <1>9
<1>11. p.elements[Place(p, Count(q))] = value
  BY <1>2, <1>6, <1>8, <1>9
<1>12. IsQueue(p)
  <2>1. \A i \in 0 .. Count(p) - 1 : p.elements[Place(p, i)] \in Jobs
    BY <1>2, <1>4, <1>9, <1>10, <1>11
  <2>2. ASSUME NEW k \in 0 .. p.capacity - 1, p.elements[k] # NoJob
        PROVE  \E i \in 0 .. Count(p) - 1 : k = Place(p, i)
    <3>1. k \in 0 .. Count(q)
      BY <1>2, <1>3, <1>6, <1>8, <2>2
    <3>2. k \in 0 .. Count(p) - 1 /\ k = Place(p, k)
      BY <1>2, <1>9, <3>1
    <3> QED
      BY <3>2
  <2> QED
    BY <1>3, <1>5, <1>6, <1>7, <2>1, <2>2 DEF IsQueue, Q!MIN_CAPACITY
<1>13. Q!Elements(p) = Append(Q!Elements(q), value)
  BY <1>9, <1>10, <1>11, <1>12, AppendedFacts
<1> QED
  BY <1>12, <1>13 DEF p

-----------------------------------------------------------------------------
(* The stack *)

CallType == [kind : CodeKinds \cup DrainKinds, promiseQueue : Nat]

IsDrain(s, i) == s[i].kind \in DrainKinds
CodeOnTop(s) == s # <<>> => ~IsDrain(s, Len(s))

\* A job runs on the drain that started it and on nothing else, and a drain that has control
\* works on the queue in the field.
StackInv(s, queues, current) ==
    /\ s \in Seq(CallType)
    /\ \A i \in DOMAIN s :
        /\ IsDrain(s, i) => s[i].promiseQueue \in queues
        /\ s[i].kind = "job" <=> (i > 1 /\ IsDrain(s, i - 1))
    /\ CodeOnTop(s) \/ s[Len(s)].promiseQueue = current

\* The flag is that of one drain on the stack.
FlagInv(s, flag) ==
    /\ flag \in BOOLEAN
    /\ flag = TRUE <=> \E i \in DOMAIN s : s[i].kind = "drain after call"
    /\ \A i, k \in DOMAIN s :
        s[i].kind = "drain after call" /\ s[k].kind = "drain after call" => i = k

Queues == {q \in QueueType : IsQueue(q)}

Inv ==
    /\ heap \in Seq(Queues) /\ promiseJobQueue \in DOMAIN heap
    /\ StackInv(calls, DOMAIN heap, promiseJobQueue)
    /\ FlagInv(calls, isProcessingPendingJob)
    /\ started \in Seq(Jobs) /\ nested \in 0 .. MaxNested

\* The stack below a frame that is not a job: code has control there.
LEMMA PrefixFacts ==
    ASSUME NEW s, NEW queues, NEW current, NEW other, StackInv(s, queues, current),
           NEW n \in DOMAIN s, s[n].kind # "job"
    PROVE  LET t == SubSeq(s, 1, n - 1)
           IN  /\ StackInv(t, queues, other) /\ CodeOnTop(t)
               /\ Len(t) = n - 1 /\ DOMAIN t = 1 .. n - 1 /\ \A i \in 1 .. n - 1 : t[i] = s[i]
<1> DEFINE t == SubSeq(s, 1, n - 1)
<1>1. s \in Seq(CallType) /\ DOMAIN s = 1 .. Len(s) /\ Len(s) \in Nat
  BY LenProperties DEF StackInv
<1>2. \A i \in DOMAIN s : s[i] \in CallType
  BY <1>1, ElementOfSeq
<1>3. \A i \in 1 .. n - 1 : i \in DOMAIN s
  BY <1>1
<1>4. t \in Seq(CallType) /\ Len(t) = n - 1 /\ \A i \in 1 .. n - 1 : t[i] = s[i]
  <2>1. /\ t \in Seq(CallType) /\ Len(t) = (IF 1 <= n - 1 THEN (n - 1) - 1 + 1 ELSE 0)
        /\ \A i \in 1 .. (n - 1) - 1 + 1 : t[i] = s[1 + i - 1]
    BY <1>1, <1>2, <1>3, SubSeqProperties
  <2>2. \A i \in 1 .. n - 1 : i \in 1 .. (n - 1) - 1 + 1 /\ 1 + i - 1 = i
    BY <1>1
  <2>3. Len(t) = n - 1
    BY <1>1, <2>1
  <2> HIDE DEF t
  <2> QED
    BY <2>1, <2>2, <2>3
<1>5. DOMAIN t = 1 .. n - 1
  BY <1>4, LenProperties
<1> HIDE DEF t
<1>6. CodeOnTop(t)
  <2> SUFFICES ASSUME t # <<>>
               PROVE  ~IsDrain(t, Len(t))
    BY DEF CodeOnTop
  <2>1. n - 1 \in 1 .. n - 1 /\ n > 1
    BY <1>1, <1>4, EmptySeq
  <2> QED
    BY <1>4, <2>1 DEF StackInv, IsDrain
<1>7. ASSUME NEW i \in DOMAIN t
      PROVE  /\ IsDrain(t, i) => t[i].promiseQueue \in queues
             /\ t[i].kind = "job" <=> (i > 1 /\ IsDrain(t, i - 1))
  <2>1. i \in DOMAIN s /\ t[i] = s[i] /\ (i > 1 => t[i - 1] = s[i - 1])
    BY <1>1, <1>4, <1>5, <1>7
  <2> QED
    BY <2>1 DEF StackInv, IsDrain
<1> QED
  BY <1>4, <1>5, <1>6, <1>7 DEF StackInv, t

\* A frame that is not a job on top of code.
LEMMA AppendFacts ==
    ASSUME NEW s, NEW queues, NEW current, StackInv(s, queues, current), CodeOnTop(s),
           NEW frame \in CallType, frame.kind # "job",
           frame.kind \in DrainKinds => frame.promiseQueue = current /\ current \in queues
    PROVE  LET t == Append(s, frame)
           IN  /\ StackInv(t, queues, current)
               /\ DOMAIN t = 1 .. Len(s) + 1 /\ t[Len(s) + 1] = frame
               /\ \A i \in DOMAIN s : t[i] = s[i]
<1> DEFINE t == Append(s, frame)
<1>1. s \in Seq(CallType) /\ DOMAIN s = 1 .. Len(s) /\ Len(s) \in Nat
  BY LenProperties DEF StackInv
<1>2. /\ t \in Seq(CallType) /\ Len(t) = Len(s) + 1 /\ DOMAIN t = 1 .. Len(s) + 1
      /\ t[Len(s) + 1] = frame /\ \A i \in DOMAIN s : t[i] = s[i]
  BY <1>1, AppendProperties, LenProperties
<1> HIDE DEF t
<1>3. ASSUME NEW i \in DOMAIN t
      PROVE  /\ IsDrain(t, i) => t[i].promiseQueue \in queues
             /\ t[i].kind = "job" <=> (i > 1 /\ IsDrain(t, i - 1))
  <2>1. CASE i \in DOMAIN s
    <3>1. t[i] = s[i] /\ (i > 1 => t[i - 1] = s[i - 1])
      BY <1>1, <1>2, <2>1
    <3> QED
      BY <2>1, <3>1 DEF StackInv, IsDrain
  <2>2. CASE i = Len(s) + 1
    <3>1. i > 1 => t[i - 1] = s[Len(s)] /\ s # <<>>
      BY <1>1, <1>2, <2>2
    <3> QED
      BY <1>2, <2>2, <3>1 DEF CodeOnTop, IsDrain
  <2> QED
    BY <1>1, <1>2, <2>1, <2>2
<1>4. CodeOnTop(t) \/ t[Len(t)].promiseQueue = current
  BY <1>2 DEF CodeOnTop, IsDrain
<1> QED
  BY <1>2, <1>3, <1>4 DEF StackInv, t

\* More queues and another one in the field while code has control.
LEMMA StackMonotone ==
    ASSUME NEW s, NEW queues, NEW current, StackInv(s, queues, current),
           NEW others, queues \subseteq others, NEW other, CodeOnTop(s) \/ other = current
    PROVE  StackInv(s, others, other)
BY DEF StackInv

\* A drain starts a job.
LEMMA StartFacts ==
    ASSUME NEW s, NEW queues, NEW current, StackInv(s, queues, current), s # <<>>,
           IsDrain(s, Len(s)), NEW flag, FlagInv(s, flag)
    PROVE  /\ StackInv(Append(s, Code("job")), queues, current)
           /\ FlagInv(Append(s, Code("job")), flag)
<1> DEFINE t == Append(s, Code("job"))
<1>1. s \in Seq(CallType) /\ DOMAIN s = 1 .. Len(s) /\ Len(s) \in Nat
  BY LenProperties DEF StackInv
<1>2. Code("job") \in CallType /\ Code("job").kind = "job"
  BY DEF Code, CallType, CodeKinds
<1>3. /\ t \in Seq(CallType) /\ Len(t) = Len(s) + 1 /\ DOMAIN t = 1 .. Len(s) + 1
      /\ t[Len(s) + 1].kind = "job" /\ \A i \in DOMAIN s : t[i] = s[i]
  BY <1>1, <1>2, AppendProperties, LenProperties
<1>4. Len(s) \in DOMAIN s /\ Len(s) + 1 > 1
  BY <1>1, EmptySeq
<1> HIDE DEF t
<1>5. ASSUME NEW i \in DOMAIN t
      PROVE  /\ IsDrain(t, i) => t[i].promiseQueue \in queues
             /\ t[i].kind = "job" <=> (i > 1 /\ IsDrain(t, i - 1))
  <2>1. CASE i \in DOMAIN s
    <3>1. t[i] = s[i] /\ (i > 1 => t[i - 1] = s[i - 1])
      BY <1>1, <1>3, <2>1
    <3> QED
      BY <2>1, <3>1 DEF StackInv, IsDrain
  <2>2. CASE i = Len(s) + 1
    <3>1. i > 1 /\ t[i - 1] = s[Len(s)]
      BY <1>1, <1>3, <1>4, <2>2
    <3> QED
      BY <1>3, <2>2, <3>1 DEF IsDrain, DrainKinds
  <2> QED
    BY <1>1, <1>3, <2>1, <2>2
<1>6. CodeOnTop(t)
  BY <1>3 DEF CodeOnTop, IsDrain, DrainKinds
<1>7. FlagInv(t, flag)
  <2>1. \A i \in DOMAIN t : t[i].kind = "drain after call" => i \in DOMAIN s /\ t[i] = s[i]
    <3>1. \A i \in DOMAIN t : i \in DOMAIN s \/ i = Len(s) + 1
      BY <1>1, <1>3
    <3> QED
      BY <1>3, <3>1
  <2>2. \A i \in DOMAIN s : i \in DOMAIN t
    BY <1>1, <1>3
  <2> QED
    BY <1>3, <2>1, <2>2 DEF FlagInv
<1> QED
  BY <1>3, <1>5, <1>6, <1>7 DEF StackInv, t

\* A job returns to its drain, which takes the queue in the field.
LEMMA ReturnFacts ==
    ASSUME NEW s, NEW queues, NEW current \in queues, StackInv(s, queues, current), s # <<>>,
           s[Len(s)].kind = "job", queues \subseteq Nat, NEW flag, FlagInv(s, flag)
    PROVE  LET n == Len(s)
               t == [i \in 1 .. n - 1 |->
                        IF i = n - 1 THEN [kind |-> s[i].kind, promiseQueue |-> current] ELSE s[i]]
           IN  StackInv(t, queues, current) /\ FlagInv(t, flag)
<1> DEFINE n == Len(s)
           t == [i \in 1 .. n - 1 |->
                    IF i = n - 1 THEN [kind |-> s[i].kind, promiseQueue |-> current] ELSE s[i]]
<1>1. s \in Seq(CallType) /\ DOMAIN s = 1 .. n /\ n \in Nat /\ \A i \in DOMAIN s : s[i] \in CallType
  BY LenProperties, ElementOfSeq DEF StackInv
<1>2. n > 1 /\ IsDrain(s, n - 1)
  <2>1. n \in DOMAIN s
    BY <1>1, EmptySeq
  <2> QED
    BY <2>1 DEF StackInv
<1>3. \A i \in 1 .. n - 1 : t[i] \in CallType /\ t[i].kind = s[i].kind
                            /\ (IF i = n - 1 THEN t[i].promiseQueue = current ELSE t[i] = s[i])
  <2>1. \A i \in 1 .. n - 1 : i \in DOMAIN s
    BY <1>1
  <2>2. \A c \in CallType : [kind |-> c.kind, promiseQueue |-> current] \in CallType
    BY DEF CallType
  <2> QED
    BY <1>1, <2>1, <2>2
<1>4. t \in Seq(CallType) /\ Len(t) = n - 1 /\ DOMAIN t = 1 .. n - 1
  <2> DEFINE m == n - 1
  <2>1. m \in Nat /\ DOMAIN t = 1 .. m
    BY <1>1, <1>2
  <2>2. t \in [1 .. m -> CallType]
    BY <1>3
  <2> HIDE DEF t, m
  <2>3. t \in Seq(CallType) /\ Len(t) = m
    BY <2>1, <2>2
  <2> QED
    BY <2>1, <2>3 DEF m
<1> HIDE DEF t, n
<1>5. ASSUME NEW i \in DOMAIN t
      PROVE  /\ IsDrain(t, i) => t[i].promiseQueue \in queues
             /\ t[i].kind = "job" <=> (i > 1 /\ IsDrain(t, i - 1))
  <2>1. /\ i \in DOMAIN s /\ t[i].kind = s[i].kind
        /\ i > 1 => t[i - 1].kind = s[i - 1].kind
    BY <1>1, <1>3, <1>4, <1>5
  <2>2. t[i].promiseQueue = current \/ t[i] = s[i]
    BY <1>3, <1>4, <1>5
  <2> QED
    BY <2>1, <2>2 DEF StackInv, IsDrain
<1>6. t[Len(t)].promiseQueue = current
  BY <1>1, <1>2, <1>3, <1>4
<1>7. FlagInv(t, flag)
  <2>1. \A i \in DOMAIN t : i \in DOMAIN s /\ t[i].kind = s[i].kind
    BY <1>1, <1>3, <1>4
  <2>2. \A i \in DOMAIN s : s[i].kind = "drain after call" => i \in DOMAIN t
    <3>1. \A i \in DOMAIN s : i \in DOMAIN t \/ i = n
      BY <1>1, <1>4
    <3> QED
      BY <3>1 DEF n
  <2> QED
    BY <2>1, <2>2 DEF FlagInv
<1> QED
  BY <1>4, <1>5, <1>6, <1>7 DEF StackInv, t, n

\* The flag when the frame n goes, with the job on it if there is one.
LEMMA FlagPrefix ==
    ASSUME NEW s, NEW flag, FlagInv(s, flag), NEW n \in DOMAIN s, DOMAIN s = 1 .. Len(s),
           NEW t, DOMAIN t = 1 .. n - 1, \A i \in 1 .. n - 1 : t[i] = s[i],
           Len(s) \in Nat, n = Len(s) \/ (n = Len(s) - 1 /\ s[Len(s)].kind = "job")
    PROVE  FlagInv(t, IF s[n].kind = "drain after call" THEN FALSE ELSE flag)
<1>1. \A i \in DOMAIN t : i \in DOMAIN s /\ t[i] = s[i] /\ i # n
  OBVIOUS
<1>2. \A i \in DOMAIN s : s[i].kind = "drain after call" => i \in DOMAIN t \/ i = n
  <2>1. \A i \in DOMAIN s : i \in DOMAIN t \/ i = n \/ (i = Len(s) /\ s[Len(s)].kind = "job")
    OBVIOUS
  <2> QED
    BY <2>1
<1> QED
  BY <1>1, <1>2 DEF FlagInv

\* The flag when a frame is added: it is set exactly for a drain after a call.
LEMMA FlagAppend ==
    ASSUME NEW s, NEW flag, FlagInv(s, flag), NEW t, NEW m, DOMAIN t = DOMAIN s \cup {m},
           \A i \in DOMAIN s : t[i] = s[i],
           t[m].kind = "drain after call" => flag = FALSE
    PROVE  FlagInv(t, IF t[m].kind = "drain after call" THEN TRUE ELSE flag)
BY DEF FlagInv

\* Both for a frame on top of code.
LEMMA PushFacts ==
    ASSUME NEW s, NEW queues, NEW current \in queues, StackInv(s, queues, current), CodeOnTop(s),
           NEW frame \in CallType, frame.kind # "job",
           frame.kind \in DrainKinds => frame.promiseQueue = current,
           NEW flag, FlagInv(s, flag), frame.kind = "drain after call" => flag = FALSE
    PROVE  LET t == Append(s, frame)
           IN  /\ StackInv(t, queues, current)
               /\ FlagInv(t, IF frame.kind = "drain after call" THEN TRUE ELSE flag)
<1> DEFINE t == Append(s, frame)
<1>1. /\ StackInv(s, queues, current) /\ CodeOnTop(s) /\ frame \in CallType /\ frame.kind # "job"
      /\ frame.kind \in DrainKinds => frame.promiseQueue = current /\ current \in queues
  OBVIOUS
<1>2. /\ StackInv(t, queues, current)
      /\ DOMAIN t = 1 .. Len(s) + 1 /\ t[Len(s) + 1] = frame
      /\ \A i \in DOMAIN s : t[i] = s[i]
  BY ONLY <1>1, AppendFacts
<1> HIDE DEF t
<1>3. FlagInv(t, IF frame.kind = "drain after call" THEN TRUE ELSE flag)
  <2>1. /\ FlagInv(s, flag) /\ Len(s) \in Nat /\ DOMAIN s = 1 .. Len(s)
        /\ frame.kind = "drain after call" => flag = FALSE
    BY <1>1, LenProperties DEF StackInv
  <2> PICK n, m : n = Len(s) /\ m = n + 1
    OBVIOUS
  <2>2. DOMAIN t = DOMAIN s \cup {m}
    <3>1. n \in Nat /\ m = n + 1 /\ DOMAIN s = 1 .. n
      BY <2>1
    <3>2. DOMAIN t = 1 .. m
      BY <1>2
    <3>3. 1 .. m = (1 .. n) \cup {m}
      BY ONLY <3>1
    <3> QED
      BY ONLY <3>1, <3>2, <3>3
  <2>3. t[m] = frame
    BY <1>2
  <2>4. FlagInv(s, flag)
    BY ONLY <2>1
  <2>5. \A i \in DOMAIN s : t[i] = s[i]
    BY ONLY <1>2
  <2>6. t[m].kind = "drain after call" => flag = FALSE
    BY ONLY <2>1, <2>3
  <2>7. FlagInv(t, IF t[m].kind = "drain after call" THEN TRUE ELSE flag)
    BY ONLY <2>2, <2>4, <2>5, <2>6, FlagAppend
  <2> QED
    BY ONLY <2>3, <2>7
<1> QED
  BY <1>2, <1>3 DEF t

-----------------------------------------------------------------------------
(* The steps *)

\* The embedder has not called anything yet.
LEMMA InitInv == Init => Inv
<1> SUFFICES ASSUME Init
             PROVE  Inv
    OBVIOUS
<1>1. heap = <<Q!EmptyTaggedQueue>> /\ Q!EmptyTaggedQueue \in Queues
  BY EmptyTaggedQueueFacts DEF Init, Queues, IsQueue
<1>2. heap \in Seq(Queues) /\ DOMAIN heap = 1 .. 1
  BY <1>1
<1>3. StackInv(calls, DOMAIN heap, promiseJobQueue)
  BY EmptySeq DEF Init, StackInv, CodeOnTop
<1>4. FlagInv(calls, isProcessingPendingJob)
  <2>1. calls = <<>> /\ isProcessingPendingJob = FALSE
    BY DEF Init
  <2>2. DOMAIN calls = {}
    BY <2>1
  <2> QED
    BY <2>1, <2>2 DEF FlagInv
<1>5. promiseJobQueue \in DOMAIN heap /\ started \in Seq(Jobs) /\ nested \in 0 .. MaxNested
  BY <1>2, EmptySeq, MaxNestedAssumption DEF Init
<1> QED
  BY <1>2, <1>3, <1>4, <1>5 DEF Inv

\* What the invariant says of the queue in the field and of the stack.
LEMMA InvFacts ==
    ASSUME Inv
    PROVE  /\ heap \in Seq(Queues) /\ DOMAIN heap = 1 .. Len(heap) /\ Len(heap) \in Nat
           /\ promiseJobQueue \in DOMAIN heap /\ promiseJobQueue \in Nat
           /\ Current \in Queues /\ IsQueue(Current)
           /\ calls \in Seq(CallType) /\ DOMAIN calls = 1 .. Len(calls) /\ Len(calls) \in Nat
           /\ InCode <=> CodeOnTop(calls)
           /\ calls # <<>> => /\ Top = calls[Len(calls)] /\ Len(calls) \in DOMAIN calls
                              /\ Top.kind \in DrainKinds => Top.promiseQueue = promiseJobQueue
<1>1. /\ heap \in Seq(Queues) /\ DOMAIN heap = 1 .. Len(heap) /\ Len(heap) \in Nat
      /\ promiseJobQueue \in DOMAIN heap
      /\ calls \in Seq(CallType) /\ DOMAIN calls = 1 .. Len(calls) /\ Len(calls) \in Nat
  BY LenProperties DEF Inv, StackInv
<1>2. Current \in Queues
  BY <1>1, ElementOfSeq DEF Current
<1>3. IsQueue(Current)
  BY <1>2 DEF Queues
<1>4. Top = calls[Len(calls)] /\ (calls # <<>> => Len(calls) \in DOMAIN calls)
  BY <1>1, EmptySeq DEF Top, Last
<1>5. InCode <=> CodeOnTop(calls)
  BY <1>4 DEF InCode, CodeOnTop, IsDrain
<1>6. calls # <<>> /\ Top.kind \in DrainKinds => Top.promiseQueue = promiseJobQueue
  BY <1>4 DEF Inv, StackInv, CodeOnTop, IsDrain
<1> QED
  BY <1>1, <1>2, <1>3, <1>4, <1>5, <1>6

\* A job enters the queue, which may be replaced.
LEMMA EnqueueJobStep ==
    ASSUME Inv, NEW j \in Jobs, EnqueueJob(j)
    PROVE  /\ Inv'
           /\ Q!Elements(heap'[promiseJobQueue']) = Append(Q!Elements(Current), j)
<1>1. /\ heap \in Seq(Queues) /\ DOMAIN heap = 1 .. Len(heap) /\ Len(heap) \in Nat
      /\ promiseJobQueue \in DOMAIN heap
      /\ IsQueue(Current) /\ CodeOnTop(calls)
  BY InvFacts DEF EnqueueJob
<1>2. UNCHANGED <<calls, isProcessingPendingJob, started, nested>>
  BY DEF EnqueueJob
<1>3. ASSUME NEW q \in Queues, Q!Elements(q) = Append(Q!Elements(Current), j),
             heap' \in Seq(Queues), DOMAIN heap \subseteq DOMAIN heap',
             promiseJobQueue' \in DOMAIN heap', heap'[promiseJobQueue'] = q
      PROVE  /\ Inv'
             /\ Q!Elements(heap'[promiseJobQueue']) = Append(Q!Elements(Current), j)
  <2>1. StackInv(calls, DOMAIN heap', promiseJobQueue')
    <3>1. StackInv(calls, DOMAIN heap, promiseJobQueue)
      BY <1>1 DEF Inv
    <3>2. DOMAIN heap \subseteq DOMAIN heap' /\ CodeOnTop(calls)
      BY <1>1, <1>3
    <3> QED
      BY ONLY <3>1, <3>2, StackMonotone
  <2> QED
    BY <1>2, <1>3, <2>1 DEF Inv
<1>4. CASE Q!Full(Current)
  <2> DEFINE q == Q!Grown(Current, j)
  <2>1. q \in Queues /\ Q!Elements(q) = Append(Q!Elements(Current), j)
    <3>1. IsQueue(Current) /\ Q!Full(Current) /\ j \in Jobs
      BY <1>1, <1>4
    <3>2. IsQueue(q) /\ Q!Elements(q) = Append(Q!Elements(Current), j)
      BY ONLY <3>1, GrownFacts
    <3> HIDE DEF q
    <3> QED
      BY ONLY <3>2 DEF Queues, IsQueue
  <2>2. heap' = Append(heap, q) /\ promiseJobQueue' = Len(heap')
    BY <1>4 DEF EnqueueJob
  <2> HIDE DEF q
  <2>3. /\ heap' \in Seq(Queues) /\ Len(heap') = Len(heap) + 1
        /\ DOMAIN heap' = 1 .. Len(heap) + 1 /\ heap'[Len(heap) + 1] = q
    BY <1>1, <2>1, <2>2, AppendProperties, LenProperties
  <2>4. DOMAIN heap \subseteq DOMAIN heap' /\ promiseJobQueue' \in DOMAIN heap'
        /\ heap'[promiseJobQueue'] = q
    BY <1>1, <2>2, <2>3
  <2> QED
    BY <1>3, <2>1, <2>3, <2>4
<1>5. CASE ~Q!Full(Current)
  <2> DEFINE q == Q!Pushed(Current, j)
  <2>1. q \in Queues /\ Q!Elements(q) = Append(Q!Elements(Current), j)
    BY <1>1, <1>5, PushedFacts DEF Queues, IsQueue
  <2>2. heap' = [heap EXCEPT ![promiseJobQueue] = q] /\ promiseJobQueue' = promiseJobQueue
    BY <1>5 DEF EnqueueJob, Current
  <2> HIDE DEF q
  <2>3. heap' \in Seq(Queues) /\ DOMAIN heap' = DOMAIN heap /\ heap'[promiseJobQueue] = q
    BY <1>1, <2>1, <2>2, ExceptSeq, LenProperties
  <2> QED
    BY <1>1, <1>3, <2>1, <2>2, <2>3
<1> QED
  BY <1>4, <1>5

\* A drain takes the first job out of the queue in the field and starts it.
LEMMA ExecutePendingJobStep ==
    ASSUME Inv, ExecutePendingJob
    PROVE  /\ Inv'
           /\ Q!Elements(Current) # <<>>
           /\ Q!Elements(heap'[promiseJobQueue']) = Tail(Q!Elements(Current))
           /\ started' = Append(started, Head(Q!Elements(Current)))
<1>1. /\ heap \in Seq(Queues) /\ DOMAIN heap = 1 .. Len(heap)
      /\ promiseJobQueue \in DOMAIN heap
      /\ IsQueue(Current) /\ calls # <<>> /\ Top = calls[Len(calls)]
      /\ Top.kind \in DrainKinds /\ Top.promiseQueue = promiseJobQueue
  BY InvFacts DEF ExecutePendingJob
<1> DEFINE q == Q!Pop(Current)
<1>2. /\ ~Q!Empty(Current)
      /\ heap' = [heap EXCEPT ![promiseJobQueue] = q]
      /\ started' = Append(started, Q!Front(Current))
      /\ calls' = Append(calls, Code("job"))
      /\ UNCHANGED <<promiseJobQueue, isProcessingPendingJob, nested>>
  BY <1>1 DEF ExecutePendingJob, Current
<1>3. /\ q \in Queues /\ Q!Elements(Current) # <<>>
      /\ Q!Front(Current) = Head(Q!Elements(Current)) /\ Q!Front(Current) \in Jobs
      /\ Q!Elements(q) = Tail(Q!Elements(Current))
  BY <1>1, <1>2, PopFacts DEF Queues, IsQueue
<1> HIDE DEF q
<1>4. heap' \in Seq(Queues) /\ DOMAIN heap' = DOMAIN heap /\ heap'[promiseJobQueue] = q
  BY <1>1, <1>2, <1>3, ExceptSeq, LenProperties
<1>5. StackInv(calls', DOMAIN heap, promiseJobQueue) /\ FlagInv(calls', isProcessingPendingJob)
  BY <1>1, <1>2, StartFacts DEF Inv, IsDrain
<1>6. started' \in Seq(Jobs)
  BY <1>2, <1>3, AppendProperties DEF Inv
<1> QED
  BY <1>1, <1>2, <1>3, <1>4, <1>5, <1>6 DEF Inv

\* The steps that change the stack only.
LEMMA StackStep ==
    ASSUME Inv, UNCHANGED queueVars, nested' \in 0 .. MaxNested,
           StackInv(calls', DOMAIN heap, promiseJobQueue), FlagInv(calls', isProcessingPendingJob')
    PROVE  Inv'
BY DEF Inv, queueVars

\* Code calls, and gets a frame of its own.
LEMMA CallStep ==
    ASSUME Inv, InvokeEcmaEntrypoint \/ Call
    PROVE  Inv'
<1>1. PICK frame \in {Code("entry"), Code("call")} : calls' = Append(calls, frame)
  BY DEF InvokeEcmaEntrypoint, Call
<1>2. CodeOnTop(calls) /\ UNCHANGED <<queueVars, isProcessingPendingJob>> /\ nested' \in 0 .. MaxNested
  <2>1. InCode /\ UNCHANGED <<queueVars, isProcessingPendingJob>> /\ nested' <= MaxNested
        /\ (nested' = nested \/ nested' = nested + 1)
    BY DEF InvokeEcmaEntrypoint, Call
  <2> QED
    BY <2>1, InvFacts, MaxNestedAssumption DEF Inv
<1>3. /\ frame \in CallType /\ frame.kind \notin DrainKinds
      /\ frame.kind # "job" /\ frame.kind # "drain after call"
  <2>1. frame \in CallType /\ frame.kind \in {"entry", "call"}
    BY DEF Code, CallType, CodeKinds
  <2> QED
    BY <2>1 DEF DrainKinds
<1>4. /\ StackInv(calls', DOMAIN heap, promiseJobQueue)
      /\ FlagInv(calls', IF frame.kind = "drain after call" THEN TRUE ELSE isProcessingPendingJob)
  <2>1. promiseJobQueue \in DOMAIN heap /\ StackInv(calls, DOMAIN heap, promiseJobQueue)
        /\ FlagInv(calls, isProcessingPendingJob)
    BY DEF Inv
  <2> QED
    BY <1>1, <1>2, <1>3, <2>1, PushFacts
<1>5. FlagInv(calls', isProcessingPendingJob)
  BY <1>3, <1>4
<1> QED
  BY <1>2, <1>4, <1>5, StackStep DEF queueVars

\* A job is done.
LEMMA JobReturnsStep ==
    ASSUME Inv, JobReturns
    PROVE  Inv'
<1>1. /\ calls # <<>> /\ calls[Len(calls)].kind = "job"
      /\ calls' = [i \in 1 .. Len(calls) - 1 |->
                    IF i = Len(calls) - 1 THEN [kind |-> calls[i].kind, promiseQueue |-> promiseJobQueue]
                    ELSE calls[i]]
      /\ UNCHANGED <<queueVars, isProcessingPendingJob, nested>>
  BY InvFacts DEF JobReturns, Drain
<1>2. promiseJobQueue \in DOMAIN heap /\ DOMAIN heap \subseteq Nat
  BY InvFacts
<1>3. StackInv(calls', DOMAIN heap, promiseJobQueue) /\ FlagInv(calls', isProcessingPendingJob)
  BY <1>1, <1>2, ReturnFacts DEF Inv
<1> QED
  BY <1>1, <1>3, StackStep DEF Inv, queueVars

\* A drain is over, and the job on it if it has thrown.
LEMMA DrainReturnsStep ==
    ASSUME Inv, NEW throws \in BOOLEAN, DrainReturns(throws)
    PROVE  Inv'
<1> DEFINE n == IF throws THEN Len(calls) - 1 ELSE Len(calls)
<1>1. /\ calls # <<>> /\ (throws => calls[Len(calls)].kind = "job")
      /\ n > 0 /\ calls[n].kind \in DrainKinds
      /\ calls' = SubSeq(calls, 1, n - 1)
      /\ isProcessingPendingJob' =
            IF calls[n].kind = "drain after call" THEN FALSE ELSE isProcessingPendingJob
      /\ UNCHANGED <<queueVars, nested>>
  BY InvFacts DEF DrainReturns
<1>2. DOMAIN calls = 1 .. Len(calls) /\ Len(calls) \in Nat
  BY InvFacts
<1>3. /\ n \in DOMAIN calls /\ calls[n].kind # "job"
      /\ n = Len(calls) \/ (n = Len(calls) - 1 /\ calls[Len(calls)].kind = "job")
  <2>1. IF throws THEN n = Len(calls) - 1 ELSE n = Len(calls)
    OBVIOUS
  <2> HIDE DEF n
  <2>2. n \in DOMAIN calls
    <3>1. n > 0 /\ Len(calls) \in Nat /\ (n = Len(calls) - 1 \/ n = Len(calls))
      BY <1>1, <1>2, <2>1
    <3>2. n \in 1 .. Len(calls)
      BY ONLY <3>1
    <3> QED
      BY <1>2, <3>2
  <2>3. calls[n].kind # "job"
    BY <1>1 DEF DrainKinds
  <2> QED
    BY <1>1, <2>1, <2>2, <2>3
<1> HIDE DEF n
<1>4. /\ StackInv(calls', DOMAIN heap, promiseJobQueue)
      /\ DOMAIN calls' = 1 .. n - 1 /\ \A i \in 1 .. n - 1 : calls'[i] = calls[i]
  BY <1>1, <1>3, PrefixFacts DEF Inv
<1>5. FlagInv(calls', isProcessingPendingJob')
  BY <1>1, <1>2, <1>3, <1>4, FlagPrefix DEF Inv
<1> QED
  BY <1>1, <1>4, <1>5, StackStep DEF Inv, queueVars

\* The code of an entry or of a call is done; it may be followed by a drain.
LEMMA CodeReturnsStep ==
    ASSUME Inv, NEW throws \in BOOLEAN, EntryReturns(throws) \/ CallReturns(throws)
    PROVE  Inv'
<1>1. /\ DOMAIN calls = 1 .. Len(calls) /\ Len(calls) \in Nat
      /\ calls # <<>> => Len(calls) \in DOMAIN calls /\ Top = calls[Len(calls)]
      /\ promiseJobQueue \in DOMAIN heap /\ promiseJobQueue \in Nat
      /\ isProcessingPendingJob \in BOOLEAN
  BY InvFacts DEF Inv, FlagInv
<1>2. PICK n : n = Len(calls)
  OBVIOUS
<1>3. PICK caller : caller = SubSeq(calls, 1, n - 1)
  OBVIOUS
<1>4. /\ n \in DOMAIN calls /\ calls[n].kind # "job" /\ calls[n].kind # "drain after call"
      /\ UNCHANGED <<queueVars, nested>>
  BY <1>1, <1>2 DEF EntryReturns, CallReturns
<1>5. /\ StackInv(caller, DOMAIN heap, promiseJobQueue) /\ CodeOnTop(caller)
      /\ DOMAIN caller = 1 .. n - 1 /\ \A i \in 1 .. n - 1 : caller[i] = calls[i]
  BY <1>3, <1>4, PrefixFacts DEF Inv
<1>6. FlagInv(caller, isProcessingPendingJob)
  <2>1. FlagInv(calls, isProcessingPendingJob)
    BY DEF Inv
  <2>2. FlagInv(caller, IF calls[n].kind = "drain after call" THEN FALSE ELSE isProcessingPendingJob)
    BY <1>1, <1>2, <1>4, <1>5, <2>1, FlagPrefix
  <2> QED
    BY <1>4, <2>2
<1>7. ASSUME calls' = caller, isProcessingPendingJob' = isProcessingPendingJob
      PROVE  Inv'
  BY <1>4, <1>5, <1>6, <1>7, StackStep DEF Inv, queueVars
<1>8. ASSUME NEW kind \in DrainKinds, calls' = Append(caller, Drain(kind)),
             kind = "drain after call" => isProcessingPendingJob = FALSE,
             isProcessingPendingJob' = IF kind = "drain after call" THEN TRUE ELSE isProcessingPendingJob
      PROVE  Inv'
  <2>1. PICK frame : frame = Drain(kind)
    OBVIOUS
  <2>2. /\ frame \in CallType /\ frame.kind = kind /\ frame.kind # "job"
        /\ frame.promiseQueue = promiseJobQueue
    BY <1>1, <2>1 DEF Drain, CallType, DrainKinds
  <2>3. /\ StackInv(calls', DOMAIN heap, promiseJobQueue)
        /\ FlagInv(calls', IF frame.kind = "drain after call" THEN TRUE ELSE isProcessingPendingJob)
    BY <1>1, <1>5, <1>6, <1>8, <2>1, <2>2, PushFacts
  <2>4. FlagInv(calls', isProcessingPendingJob')
    BY <1>8, <2>2, <2>3
  <2> QED
    BY <1>4, <2>3, <2>4, StackStep DEF Inv, queueVars
<1>9. CASE EntryReturns(throws)
  <2>1. /\ calls' = caller \/ calls' = Append(caller, Drain("drain after entry"))
        /\ isProcessingPendingJob' = isProcessingPendingJob
    BY <1>2, <1>3, <1>9 DEF EntryReturns
  <2> QED
    BY <1>7, <1>8, <2>1 DEF DrainKinds
<1>10. CASE CallReturns(throws)
  <2>1. CASE ~throws /\ ~isProcessingPendingJob
    <3>1. calls' = Append(caller, Drain("drain after call")) /\ isProcessingPendingJob' = TRUE
      BY <1>2, <1>3, <1>10, <2>1 DEF CallReturns
    <3> QED
      BY <1>1, <1>8, <2>1, <3>1 DEF DrainKinds
  <2>2. CASE ~(~throws /\ ~isProcessingPendingJob)
    <3>1. calls' = caller /\ isProcessingPendingJob' = isProcessingPendingJob
      BY <1>1, <1>2, <1>3, <1>10, <2>2 DEF CallReturns
    <3> QED
      BY <1>7, <3>1
  <2> QED
    BY <2>1, <2>2
<1> QED
  BY <1>9, <1>10

\* What is known of every step.
LEMMA NextFacts ==
    ASSUME Inv, Next
    PROVE  /\ Inv'
           /\ \/ \E j \in Jobs : EnqueueJob(j)
              \/ ExecutePendingJob
              \/ UNCHANGED queueVars
<1>1. CASE \E j \in Jobs : EnqueueJob(j)
  BY <1>1, EnqueueJobStep
<1>2. CASE ExecutePendingJob
  BY <1>2, ExecutePendingJobStep
<1>3. CASE InvokeEcmaEntrypoint \/ Call
  BY <1>3, CallStep DEF InvokeEcmaEntrypoint, Call
<1>4. CASE JobReturns
  BY <1>4, JobReturnsStep DEF JobReturns
<1>5. ASSUME NEW throws \in BOOLEAN, DrainReturns(throws)
      PROVE  Inv' /\ UNCHANGED queueVars
  BY <1>5, DrainReturnsStep DEF DrainReturns
<1>6. ASSUME NEW throws \in BOOLEAN, EntryReturns(throws) \/ CallReturns(throws)
      PROVE  Inv' /\ UNCHANGED queueVars
  BY <1>6, CodeReturnsStep DEF EntryReturns, CallReturns
<1> QED
  BY <1>1, <1>2, <1>3, <1>4, <1>5, <1>6 DEF Next

\* The invariant holds in every state.
LEMMA InvHolds == Init /\ [][Next]_vars => []Inv
<1>1. Inv /\ [Next]_vars => Inv'
  <2>1. CASE Next
    BY <2>1, NextFacts
  <2>2. CASE UNCHANGED vars
    BY <2>2 DEF vars, queueVars, Inv
  <2> QED
    BY <2>1, <2>2
<1> QED
  BY <1>1, InitInv, PTL

-----------------------------------------------------------------------------
(* Theorems *)

\* A ring holds jobs between start and end and holes elsewhere.
LEMMA QueueTypeOK ==
    ASSUME NEW q \in Queues
    PROVE  /\ q.capacity \in Nat /\ q.start \in 0 .. q.capacity /\ q.end \in 0 .. q.capacity
           /\ DOMAIN q.elements = 0 .. q.capacity - 1
           /\ \A k \in DOMAIN q.elements :
                (q.elements[k] # NoJob) <=> \E n \in 0 .. Q!Size(q) - 1 : k = (q.start + n) % q.capacity
<1>1. /\ IsQueue(q) /\ q.capacity \in Nat /\ q.start \in 0 .. q.capacity /\ q.end \in 0 .. q.capacity
      /\ DOMAIN q.elements = 0 .. q.capacity - 1
  BY DEF Queues, IsQueue, QueueType, Q!MIN_CAPACITY
<1>2. ASSUME NEW k \in DOMAIN q.elements
      PROVE  (q.elements[k] # NoJob) <=> \E n \in 0 .. Q!Size(q) - 1 : k = (q.start + n) % q.capacity
  <2>1. Q!Size(q) = Count(q) /\ Count(q) \in Nat /\ Count(q) < q.capacity
        /\ \A i \in 0 .. q.capacity - 1 : (q.start + i) % q.capacity = Place(q, i)
    <3>1. IsQueue(q) /\ q.capacity # 0
      BY <1>1, <1>2
    <3> QED
      BY ONLY <3>1, RingFacts
  <2>2. \A n \in 0 .. Count(q) - 1 : (q.start + n) % q.capacity = Place(q, n)
    <3> PICK c, m : c = q.capacity /\ m = Count(q) OBVIOUS
    <3>1. \A n \in 0 .. m - 1 : n \in 0 .. c - 1
      <4>1. c \in Nat /\ m \in Nat /\ m < c
        BY <1>1, <2>1
      <4> QED BY ONLY <4>1
    <3> QED BY <2>1, <3>1
  <2>3. q.elements[k] # NoJob => \E n \in 0 .. Count(q) - 1 : k = Place(q, n)
    BY <1>1, <1>2 DEF IsQueue
  <2>4. \A n \in 0 .. Count(q) - 1 : q.elements[Place(q, n)] # NoJob
    BY <1>1, JobsAssumption DEF IsQueue
  <2> QED
    BY <2>1, <2>2, <2>3, <2>4
<1> QED
  BY <1>1, <1>2

\* Every queue object stays a ring of jobs and holes, and every handle one of them.
LEMMA TypeOfInv == Inv => TypeOK
<1> SUFFICES ASSUME Inv
             PROVE  TypeOK
    OBVIOUS
<1>1. \A i \in DOMAIN heap : heap[i] \in Queues
  BY ElementOfSeq, LenProperties DEF Inv
<1>2. calls \in Seq(CallType) /\ \A i \in DOMAIN calls : calls[i] \in CallType
  BY ElementOfSeq, LenProperties DEF Inv, StackInv
<1>3. \A i \in DOMAIN calls : calls[i].kind \in CodeKinds \cup DrainKinds
  BY <1>2 DEF CallType
<1>4. \A i \in DOMAIN calls : calls[i].kind \in DrainKinds => calls[i].promiseQueue \in DOMAIN heap
  BY DEF Inv, StackInv, IsDrain
<1> QED
  BY <1>1, <1>3, <1>4, QueueTypeOK DEF TypeOK, Inv, FlagInv

\* isProcessingPendingJob_ is set exactly while one ExecutePromisePendingJob drains, however
\* jobs end and however drains nest.
THEOREM FlagIsThatOfADrain == Spec => []FlagIsExact
<1>1. ASSUME Inv
      PROVE  FlagIsExact
  <2>1. isProcessingPendingJob \in BOOLEAN /\ FlagInv(calls, isProcessingPendingJob)
    BY <1>1 DEF Inv, FlagInv
  <2>2. isProcessingPendingJob <=> \E i \in DOMAIN calls : calls[i].kind = "drain after call"
    BY <2>1 DEF FlagInv
  <2>3. \A i, k \in DOMAIN calls :
            calls[i].kind = "drain after call" /\ calls[k].kind = "drain after call" => i = k
    BY <2>1 DEF FlagInv
  <2> QED
    BY <1>1, <2>2, <2>3, TypeOfInv DEF FlagIsExact
<1> QED
  BY <1>1, InvHolds, PTL DEF Spec

\* A drain that comes to its end leaves the queue of the field empty, also when its last job
\* has made Push replace it.
THEOREM DrainsAreComplete == Spec => DrainLeavesNothing
<1> DEFINE Shorter == Len(calls') < Len(calls) /\ Last(calls).kind \in DrainKinds
<1>1. ASSUME Inv, [Next]_vars
      PROVE  [Shorter => Q!Empty(Current)]_vars
  <2> SUFFICES ASSUME Next, Shorter
               PROVE  Q!Empty(Current)
    BY <1>1
  <2>1. /\ DOMAIN calls = 1 .. Len(calls) /\ Len(calls) \in Nat /\ calls \in Seq(CallType)
        /\ Top.kind \in DrainKinds /\ calls # <<>> /\ Top.promiseQueue = promiseJobQueue
    <3>1. calls # <<>>
      <4>1. Len(calls') < Len(calls) /\ Len(calls) \in Nat /\ Len(calls') \in Nat
        <5>1. Inv'
          BY <1>1, NextFacts
        <5>2. calls' \in Seq(CallType)
          BY <5>1 DEF Inv, StackInv
        <5> QED
          BY <1>1, <5>2, InvFacts, LenProperties
      <4> QED
        BY <4>1, EmptySeq
    <3> QED
      BY <1>1, <3>1, InvFacts DEF Top
  <2>2. CASE DrainReturns(FALSE)
    BY <2>1, <2>2 DEF DrainReturns, Current
  <2>3. Top.kind \notin {"job", "entry", "call"} /\ ~InCode
    BY <2>1 DEF DrainKinds, InCode
  <2>4. /\ ~JobReturns /\ ~DrainReturns(TRUE)
        /\ \A throws \in BOOLEAN : ~EntryReturns(throws) /\ ~CallReturns(throws)
    BY <2>3 DEF JobReturns, DrainReturns, EntryReturns, CallReturns
  <2>5. ~InvokeEcmaEntrypoint /\ ~Call /\ \A j \in Jobs : ~EnqueueJob(j)
    BY <2>3 DEF InvokeEcmaEntrypoint, Call, EnqueueJob
  <2>6. CASE ExecutePendingJob
    <3>1. Code("job") \in CallType
      BY DEF Code, CallType, CodeKinds
    <3>2. Len(calls') = Len(calls) + 1
      BY <2>1, <2>6, <3>1, AppendProperties DEF ExecutePendingJob
    <3> QED
      BY <2>1, <3>2
  <2> QED
    BY <2>2, <2>4, <2>5, <2>6 DEF Next
<1>2. Spec => [][Shorter => Q!Empty(Current)]_vars
  BY <1>1, InvHolds, PTL DEF Spec
<1> QED
  BY <1>2, FlagIsThatOfADrain, PTL DEF DrainLeavesNothing

\* The elements of a concatenation.
LEMMA ToSetConcat ==
    ASSUME NEW s \in Seq(Jobs), NEW t \in Seq(Jobs)
    PROVE  ToSet(s \o t) \subseteq ToSet(s) \cup ToSet(t)
<1>1. /\ DOMAIN (s \o t) = 1 .. Len(s) + Len(t)
      /\ \A i \in 1 .. Len(s) + Len(t) : (s \o t)[i] = IF i <= Len(s) THEN s[i] ELSE t[i - Len(s)]
  BY ConcatProperties, LenProperties
<1>2. ASSUME NEW i \in DOMAIN (s \o t)
      PROVE  (s \o t)[i] \in ToSet(s) \cup ToSet(t)
  <2>1. DOMAIN s = 1 .. Len(s) /\ DOMAIN t = 1 .. Len(t) /\ Len(s) \in Nat /\ Len(t) \in Nat
    BY LenProperties
  <2>2. CASE i <= Len(s)
    BY <1>1, <1>2, <2>1, <2>2 DEF ToSet
  <2>3. CASE ~(i <= Len(s))
    <3>1. i - Len(s) \in DOMAIN t
      BY <1>1, <1>2, <2>1, <2>3
    <3> QED
      BY <1>1, <1>2, <2>3, <3>1 DEF ToSet
  <2> QED
    BY <2>2, <2>3
<1> QED
  BY <1>2 DEF ToSet

\* The rings, the handles and the drains that nest implement the queue of JobQueue: jobs
\* start in the order of EnqueueJob, each once, whoever runs them.
THEOREM ImplementsJobQueue == Spec => IsJobQueue
<1>1. ASSUME Init
      PROVE  Abstract!Init
  <2>1. Current = Q!EmptyTaggedQueue /\ started = <<>>
    BY <1>1 DEF Init, Current
  <2> QED
    BY <2>1, EmptyTaggedQueueFacts DEF Abstract!Init
<1>2. ASSUME Inv, Next
      PROVE  [Abstract!Next]_(Abstract!vars)
  <2>1. ASSUME NEW j \in Jobs, EnqueueJob(j)
        PROVE  Abstract!Enqueue(j)
    <3>1. Q!Elements(Current)' = Append(Q!Elements(Current), j)
      BY <1>2, <2>1, EnqueueJobStep DEF Current
    <3>2. j \notin ToSet(started) \cup ToSet(Q!Elements(Current)) /\ UNCHANGED started
      BY <2>1 DEF EnqueueJob
    <3>3. Q!Elements(Current) \in Seq(Jobs) /\ started \in Seq(Jobs)
      BY <1>2, InvFacts, RingFacts DEF Inv
    <3>4. ToSet(Q!Elements(Current) \o started) \subseteq ToSet(Q!Elements(Current)) \cup ToSet(started)
      BY <3>3, ToSetConcat
    <3>5. j \notin ToSet(Q!Elements(Current) \o started)
      BY <3>2, <3>4
    <3>6. j \notin Abstract!ToSet(Q!Elements(Current) \o started)
      BY <3>5 DEF ToSet, Abstract!ToSet
    <3> QED
      BY <3>1, <3>2, <3>6 DEF Abstract!Enqueue
  <2>2. CASE ExecutePendingJob
    <3>1. /\ Q!Elements(Current) # <<>>
          /\ Q!Elements(Current)' = Tail(Q!Elements(Current))
          /\ started' = Append(started, Head(Q!Elements(Current)))
      BY <1>2, <2>2, ExecutePendingJobStep DEF Current
    <3> QED
      BY <3>1 DEF Abstract!Next, Abstract!Start
  <2>3. CASE UNCHANGED queueVars
    BY <2>3 DEF queueVars, Abstract!vars, Current
  <2> QED
    BY <1>2, <2>1, <2>2, <2>3, NextFacts DEF Abstract!Next
<1>3. ASSUME UNCHANGED vars
      PROVE  UNCHANGED Abstract!vars
  BY <1>3 DEF vars, queueVars, Abstract!vars, Current
<1> QED
  BY <1>1, <1>2, <1>3, InvHolds, PTL DEF Spec, IsJobQueue, Abstract!Spec
=============================================================================
