---------------------------- MODULE OrderedTable ----------------------------
(***************************************************************************)
(* What a Map or a Set promises the program (specification of              *)
(* LinkedHashTable): the keys in the order of their insertion, and any     *)
(* number of cursors (iterators, forEach calls) that walk over them while  *)
(* the program goes on changing the table.  A cursor is the number of keys *)
(* of the table it has already returned: it returns every key that stays,  *)
(* once, the keys added behind it too, and no key that was deleted.        *)
(***************************************************************************)
EXTENDS Naturals, Sequences

CONSTANTS
    Keys,     \* the keys, as the program has them
    Class,    \* keys of one class are equal
    Cursors,  \* the cursors
    Unused,   \* a cursor nobody has opened
    Closed    \* a cursor that has reported its end

VARIABLES
    order,    \* the keys of the table, oldest first
    at,       \* at[c]: how many of them c has passed, Unused or Closed
    reply     \* what the last operation returned

\* Where a key equal to k stands: it keeps its place and its value when k is set again.
Occurs(k) == \E i \in DOMAIN order : Class[order[i]] = Class[k]
Place(k) == CHOOSE i \in DOMAIN order : Class[order[i]] = Class[k]

\* A cursor behind place p moves with the keys behind p.
Without(p) == SubSeq(order, 1, p - 1) \o SubSeq(order, p + 1, Len(order))
Shifted(p) ==
    [c \in Cursors |-> IF at[c] \in Nat /\ at[c] >= p THEN at[c] - 1 ELSE at[c]]

Init ==
    /\ order = <<>>
    /\ at = [c \in Cursors |-> Unused]
    /\ reply = <<"none">>

Insert(k) ==
    /\ order' = IF Occurs(k) THEN order ELSE Append(order, k)
    /\ reply' = <<"set">>
    /\ UNCHANGED at

Delete(k) ==
    /\ IF Occurs(k)
       THEN order' = Without(Place(k)) /\ at' = Shifted(Place(k))
       ELSE UNCHANGED <<order, at>>
    /\ reply' = <<"delete", Occurs(k)>>

Clear ==
    /\ order' = <<>>
    /\ at' = [c \in Cursors |-> IF at[c] \in Nat THEN 0 ELSE at[c]]
    /\ reply' = <<"clear">>

Has(k) ==
    /\ reply' = <<"has", Occurs(k)>>
    /\ UNCHANGED <<order, at>>

Size ==
    /\ reply' = <<"size", Len(order)>>
    /\ UNCHANGED <<order, at>>

Open(c) ==
    /\ at[c] = Unused
    /\ at' = [at EXCEPT ![c] = 0]
    /\ reply' = <<"open">>
    /\ UNCHANGED order

Advance(c) ==
    /\ at[c] \in Nat
    /\ IF at[c] < Len(order)
       THEN /\ reply' = <<"next", order[at[c] + 1]>>
            /\ at' = [at EXCEPT ![c] = @ + 1]
       ELSE /\ reply' = <<"end">>
            /\ at' = [at EXCEPT ![c] = Closed]
    /\ UNCHANGED order

\* A cursor the program no longer holds, or one at its end that is asked again.
Release(c) ==
    /\ at[c] # Unused
    /\ at' = [at EXCEPT ![c] = Unused]
    /\ reply' = <<"none">>
    /\ UNCHANGED order

AdvanceClosed(c) ==
    /\ at[c] = Closed
    /\ reply' = <<"end">>
    /\ UNCHANGED <<order, at>>

Next ==
    \/ \E k \in Keys : Insert(k) \/ Delete(k) \/ Has(k)
    \/ Clear
    \/ Size
    \/ \E c \in Cursors : Open(c) \/ Advance(c) \/ Release(c) \/ AdvanceClosed(c)

Spec == Init /\ [][Next]_<<order, at, reply>>
=============================================================================
