-------------------------- MODULE LinkedHashTable --------------------------
(***************************************************************************)
(* LinkedHashTable (ecmascript/linked_hash_table.h, .cpp) as JSMap uses    *)
(* it, with the cursors that walk over it: JSMapIterator and the loop of   *)
(* Map.prototype.forEach.  A removed entry stays in its table as a hole.   *)
(* A table that gets too full or too empty is rehashed into a new one; the *)
(* old one keeps a link to it and, in its holes, how many holes came       *)
(* before, so that a cursor which still stands in it can find its place.   *)
(*                                                                         *)
(* A key is a value as the VM represents it.  Values of one class are the  *)
(* same key for SameValueZero, and yet may have different hashes: numbers  *)
(* are hashed by their bits, the integer 1 and the double 1.0 differ.      *)
(* A table that holds such keys misses them and enters them twice; what it *)
(* does for keys whose hashes agree is LookupIsExact and IsOrderedTable.   *)
(* BigInts are left out, whose hash is an address and changes when the     *)
(* collector moves them, and so are the values of a Map.  Entries are      *)
(* counted from 0, as in the code.                                         *)
(***************************************************************************)
EXTENDS Integers, Sequences, FiniteSets, SequencesExt

CONSTANTS
    Keys,                 \* the keys, as tagged values
    Class,                \* Class[k]: what SameValueZero compares, k's number, string or object
    Hash,                 \* Hash[k]: LinkedHash::Hash, which never changes for these keys
    Cursors,              \* the cursors the program may hold
    Unused,               \* a cursor that does not exist
    Closed,               \* an iterator whose IteratedMap is undefined
    KeyHole,              \* JSTaggedValue::Hole() in place of a key
    MIN_CAPACITY,         \* 4 in the code
    MIN_SHRINK_CAPACITY,  \* 16 in the code
    MaxTables             \* bound: tables alive at a time

\* Where a cursor stands.
Positions == [kind : {"iterator", "forEach"}, table : Nat, index : Nat]

ASSUME HashAssumption == Hash \in [Keys -> Nat]
ASSUME HoleAssumption == KeyHole \notin Keys
ASSUME CapacityAssumption == MIN_CAPACITY \in Nat \ {0} /\ MIN_SHRINK_CAPACITY \in Nat
ASSUME MaxTablesAssumption == MaxTables \in Nat \ {0}
ASSUME CursorAssumption ==
    Unused # Closed /\ \A x \in {Unused, Closed} : x \notin Positions /\ x \notin Nat

VARIABLES
    tables,  \* the tables, each the NextTable of the one before it; JSMap uses the last
    cursor,  \* cursor[c]: the table and the index of c, Unused or Closed
    answer   \* what the last operation returned

tableVars == <<tables, cursor, answer>>

\* "no entry" at the end of a bucket's chain
NoEntry == -1

\* Keys that are equal have the same hash.  LinkedHash::Hash sees to it for strings, for
\* symbols, for objects, and of the numbers for the zeros only: it fails when an integer
\* and the double of its value are both used as keys.
EqualKeysHashAlike == \A k, l \in Keys : Class[k] = Class[l] => Hash[k] = Hash[l]

-----------------------------------------------------------------------------
(* One table *)

\* The powers of two that an int32_t holds.
PowersOfTwo ==
    LET power[i \in 0 .. 30] == IF i = 0 THEN 1 ELSE 2 * power[i - 1]
    IN  {power[i] : i \in 0 .. 30}

\* There is a capacity for a table of all keys.
ASSUME KeysAssumption ==
    IsFiniteSet(Keys) /\ \E p \in PowersOfTwo : Cardinality(Keys) + Cardinality(Keys) \div 2 <= p

\* helpers::math::GetPowerOfTwoValue32: the least power of two that is not below n.
GetPowerOfTwoValue32(n) == CHOOSE p \in PowersOfTwo : p >= n /\ (p = 1 \/ p \div 2 < n)

ComputeCapacity(atLeastSpaceFor) ==
    LET capacity == GetPowerOfTwoValue32(atLeastSpaceFor + atLeastSpaceFor \div 2)
    IN  IF capacity > MIN_CAPACITY THEN capacity ELSE MIN_CAPACITY

ComputeCapacityWithShrink(currentCapacity, atLeastSpaceFor) ==
    LET newCapacity == ComputeCapacity(atLeastSpaceFor)
    IN  IF atLeastSpaceFor > currentCapacity \div 4 \/ newCapacity < MIN_SHRINK_CAPACITY
        THEN currentCapacity
        ELSE newCapacity

Used(t) == t.elements + t.deleted

\* Mutant of HasSufficientCapacity: the holes are forgotten.
HasSufficientCapacityLiveOnly(t, added) ==
    LET nof == t.elements + added
    IN  nof < t.capacity /\ nof + nof \div 2 <= t.capacity

HasSufficientCapacity(t, added) ==
    LET nof == t.elements + added
    IN  /\ nof < t.capacity
        /\ t.deleted <= (t.capacity - nof) \div 2
        /\ nof + nof \div 2 <= t.capacity

Create(capacity) ==
    [capacity |-> capacity, elements |-> 0, deleted |-> 0,
     bucket |-> [b \in 0 .. capacity - 1 |-> NoEntry], key |-> <<>>, next |-> <<>>]

HashToBucket(t, k) == Hash[k] % t.capacity

\* HashObject::IsMatch: what stands in an entry is equal to k; a hole never is.
IsMatch(k, element) == element # KeyHole /\ Class[element] = Class[k]

\* The first entry that holds a key equal to k in the chain of k's bucket.
FindElement(t, k) ==
    LET walk[e \in NoEntry .. Len(t.key) - 1] ==
            IF e = NoEntry \/ IsMatch(k, t.key[e + 1]) THEN e ELSE walk[t.next[e + 1]]
    IN  walk[t.bucket[HashToBucket(t, k)]]

\* A new entry behind the others, at the head of its bucket's chain.
InsertNewEntry(t, k) ==
    LET b == HashToBucket(t, k)
    IN  [t EXCEPT !.key = Append(@, k),
                  !.next = Append(@, t.bucket[b]),
                  !.bucket[b] = Used(t),
                  !.elements = @ + 1]

RemoveEntry(t, e) ==
    [t EXCEPT !.key[e + 1] = KeyHole, !.elements = @ - 1, !.deleted = @ + 1]

ClearTable(t) ==
    [t EXCEPT !.key = [i \in DOMAIN @ |-> KeyHole], !.elements = 0, !.deleted = Used(t)]

\* The holes among the first n entries.
Holes(t, n) == Cardinality({i \in 1 .. n : t.key[i] = KeyHole})

\* Mutant of Abandoned: a hole counts the holes before it, without itself.
AbandonedCountsBefore(t) ==
    [t EXCEPT !.next = [i \in DOMAIN @ |-> IF t.key[i] = KeyHole THEN Holes(t, i - 1) ELSE @[i]]]

\* Where a table is left by Rehash: every hole counts the holes up to it ...
Abandoned(t) ==
    [t EXCEPT !.next = [i \in DOMAIN @ |-> IF t.key[i] = KeyHole THEN Holes(t, i) ELSE @[i]]]

\* ... and the table it fills, entry by entry.
Rehashed(t, capacity) ==
    LET filled[n \in 0 .. Len(t.key)] ==
            IF n = 0 THEN Create(capacity)
            ELSE IF t.key[n] = KeyHole THEN filled[n - 1]
            ELSE InsertNewEntry(filled[n - 1], t.key[n])
    IN  filled[Len(t.key)]

\* The count in the last hole before entry: how far a cursor there moves back.
GetDeletedElementsAt(t, entry) ==
    LET holes == {i \in 1 .. entry : t.key[i] = KeyHole}
    IN  IF holes = {} THEN 0 ELSE t.next[CHOOSE i \in holes : \A j \in holes : j <= i]

-----------------------------------------------------------------------------
(* JSMap *)

TableTypeOK ==
    /\ Len(tables) \in 1 .. MaxTables
    /\ \A n \in DOMAIN tables :
        LET t == tables[n]
        IN  /\ t.key \in Seq(Keys \cup {KeyHole})
            /\ Len(t.next) = Len(t.key) /\ Len(t.key) = Used(t)
            /\ \A i \in DOMAIN t.next : t.next[i] \in NoEntry .. Used(t)
            /\ t.bucket \in [0 .. t.capacity - 1 -> NoEntry .. Used(t) - 1]
    /\ \A c \in Cursors :
        \/ cursor[c] \in {Unused, Closed}
        \/ /\ cursor[c] \in Positions /\ cursor[c].table \in DOMAIN tables
           /\ cursor[c].index \in 0 .. Used(tables[cursor[c].table])

TableInit ==
    /\ tables = <<Create(MIN_CAPACITY)>>
    /\ cursor = [c \in Cursors |-> Unused]
    /\ answer = <<"none">>

Table == Last(tables)
Put(t) == tables' = Front(tables) \o <<t>>

\* table->Rehash(newTable): JSMap goes on with the new table.
RehashInto(t, newTable) ==
    /\ Len(tables) < MaxTables
    /\ tables' = Front(tables) \o <<Abandoned(t), newTable>>

Set(k) ==
    /\ IF FindElement(Table, k) # NoEntry
       THEN UNCHANGED tables
       ELSE IF HasSufficientCapacity(Table, 1)
       THEN Put(InsertNewEntry(Table, k))
       ELSE RehashInto(Table,
                       InsertNewEntry(Rehashed(Table, ComputeCapacity(Table.elements + 1)), k))
    /\ answer' = <<"set">>
    /\ UNCHANGED cursor

\* RemoveEntry, then Shrink
Delete(k) ==
    LET e == FindElement(Table, k)
        removed == RemoveEntry(Table, e)
        newCapacity == ComputeCapacityWithShrink(removed.capacity, removed.elements)
    IN  /\ IF e = NoEntry
           THEN UNCHANGED tables
           ELSE IF newCapacity = removed.capacity
           THEN Put(removed)
           ELSE RehashInto(removed, Rehashed(removed, newCapacity))
        /\ answer' = <<"delete", e # NoEntry>>
        /\ UNCHANGED cursor

Clear ==
    /\ Put(ClearTable(Table))
    /\ answer' = <<"clear">>
    /\ UNCHANGED cursor

Has(k) ==
    /\ answer' = <<"has", FindElement(Table, k) # NoEntry>>
    /\ UNCHANGED <<tables, cursor>>

GetSize ==
    /\ answer' = <<"size", Table.elements>>
    /\ UNCHANGED <<tables, cursor>>

-----------------------------------------------------------------------------
(* The cursors *)

NewJSMapIterator(c) ==
    /\ cursor[c] = Unused
    /\ cursor' = [cursor EXCEPT ![c] = [kind |-> "iterator", table |-> Len(tables), index |-> 0]]
    /\ answer' = <<"open">>
    /\ UNCHANGED tables

ForEach(c) ==
    /\ cursor[c] = Unused
    /\ cursor' = [cursor EXCEPT ![c] = [kind |-> "forEach", table |-> Len(tables), index |-> 0]]
    /\ answer' = <<"open">>
    /\ UNCHANGED tables

\* JSMapIterator::Update: from table to table along NextTable, up to the one in use.
UpdatedIndex(p) ==
    LET index[n \in p.table .. Len(tables)] ==
            IF n = p.table THEN p.index
            ELSE index[n - 1] - GetDeletedElementsAt(tables[n - 1], index[n - 1])
    IN  index[Len(tables)]

\* The entries at or behind index that are not holes, as places in Table.key.
Remaining(index) == {i \in index + 1 .. Used(Table) : Table.key[i] # KeyHole}

\* The entry to return is the first of them; a cursor without one gives up its table.
Advance(c) ==
    LET left == Remaining(UpdatedIndex(cursor[c]))
        i == CHOOSE j \in left : \A l \in left : j <= l
    IN  IF left = {}
        THEN cursor' = [cursor EXCEPT ![c] = Closed] /\ answer' = <<"end">>
        ELSE /\ cursor' = [cursor EXCEPT ![c].table = Len(tables), ![c].index = i]
             /\ answer' = <<"next", Table.key[i]>>

Stands(c, kind) == cursor[c] \notin {Unused, Closed} /\ cursor[c].kind = kind

IteratorNext(c) ==
    /\ Stands(c, "iterator")
    /\ Advance(c)
    /\ UNCHANGED tables

\* IteratedMap is undefined
IteratorNextAtEnd(c) ==
    /\ cursor[c] = Closed
    /\ answer' = <<"end">>
    /\ UNCHANGED <<tables, cursor>>

\* The loop of forEach goes on when its callback returns, up to the next call of it or
\* to its end.  What happens in between is the callback's doing.
ForEachContinues(c) ==
    /\ Stands(c, "forEach")
    /\ Advance(c)
    /\ UNCHANGED tables

\* The program drops an iterator, or the callback of forEach throws.
Release(c) ==
    /\ cursor[c] # Unused
    /\ cursor' = [cursor EXCEPT ![c] = Unused]
    /\ answer' = <<"none">>
    /\ UNCHANGED tables

Standing == {c \in Cursors : cursor[c] \notin {Unused, Closed}}

\* The garbage collector frees the oldest table when no cursor stands in it.
Collect ==
    /\ Len(tables) > 1
    /\ \A c \in Standing : cursor[c].table > 1
    /\ tables' = Tail(tables)
    /\ cursor' = [c \in Cursors |->
            IF c \in Standing THEN [cursor[c] EXCEPT !.table = @ - 1] ELSE cursor[c]]
    /\ UNCHANGED answer

TableNext ==
    \/ \E k \in Keys : Set(k) \/ Delete(k) \/ Has(k)
    \/ Clear
    \/ GetSize
    \/ \E c \in Cursors : NewJSMapIterator(c) \/ IteratorNext(c) \/ IteratorNextAtEnd(c)
    \/ \E c \in Cursors : ForEach(c) \/ ForEachContinues(c)
    \/ \E c \in Cursors : Release(c)
    \/ Collect

TableSpec == TableInit /\ [][TableNext]_tableVars

-----------------------------------------------------------------------------
(* Properties *)

\* Entries are appended without a test for room: RehashInto and HasSufficientCapacity
\* must leave every table with a place for each entry, holes included, and with a free
\* bucket, whatever sequence of insertions, removals and Clear came before.
EntriesFit ==
    TableTypeOK /\ \A n \in DOMAIN tables : Used(tables[n]) <= tables[n].capacity

\* For keys with EqualKeysHashAlike: the chains of the table in use lead to every key it
\* holds and to no other.  A key is found by each of the values that are equal to it, also
\* behind holes and after a rehash, and stands in one entry.
LookupIsExact ==
    EntriesFit /\ \A k \in Keys :
        LET places == {i \in DOMAIN Table.key : IsMatch(k, Table.key[i])}
        IN  places = IF FindElement(Table, k) = NoEntry THEN {} ELSE {FindElement(Table, k) + 1}

\* The keys of the first n entries, in order.
LiveKeys(n) ==
    LET live[i \in 0 .. Len(Table.key)] ==
            IF i = 0 THEN <<>>
            ELSE IF Table.key[i] \in Keys THEN Append(live[i - 1], Table.key[i])
            ELSE live[i - 1]
    IN  live[n]

\* How many of the keys in use a cursor has passed.
PassedKeys(p) == Len(LiveKeys(UpdatedIndex(p)))

Ordered == INSTANCE OrderedTable WITH
    reply <- answer,
    order <- LiveKeys(Len(Table.key)),
    at <- [c \in Cursors |->
            IF cursor[c] \in {Unused, Closed} THEN cursor[c] ELSE PassedKeys(cursor[c])]

\* For keys with EqualKeysHashAlike: a Map with cursors that live through removals, Clear,
\* growing and shrinking is an ordered list without equal keys: every cursor returns each
\* key that stays exactly once, in the order of insertion, and sees the keys that are added
\* behind it.
IsOrderedTable == Ordered!Spec
=============================================================================
