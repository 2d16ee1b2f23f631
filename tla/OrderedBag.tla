----------------------------- MODULE OrderedBag -----------------------------
(***************************************************************************)
(* What a skip list promises its clients: an ordered multiset of keys that *)
(* every operation reads or changes at a single instant.                   *)
(*                                                                         *)
(* The state is the history of the inserts.  The order in which iterators  *)
(* visit the items is by key, and the later of two equal keys comes first: *)
(* Insert (db/skiplist.h:141) puts a key in front of its equals.           *)
(***************************************************************************)
EXTENDS Integers, Sequences

CONSTANTS
  Keys,      \* the keys, numbered in the order of compare_
  Readers,   \* the callers that own an iterator
  NULL       \* the position of an iterator that is not Valid()

VARIABLES
  bag,       \* bag[n] is the key of the n-th insert
  pos,       \* pos[r] is the item the iterator of r stands on, or NULL
  found      \* found[r] is the answer of the last Contains of r

bagVars == <<bag, pos, found>>

Items == 1..Len(bag)

Before(a, b) == bag[a] < bag[b] \/ (bag[a] = bag[b] /\ a > b)

IsFirst(n, S) == IF S = {} THEN n = NULL
                 ELSE n \in S /\ \A m \in S : m = n \/ Before(n, m)

IsLast(n, S) == IF S = {} THEN n = NULL
                ELSE n \in S /\ \A m \in S : m = n \/ Before(m, n)

MoveTo(r, n) == pos' = [pos EXCEPT ![r] = n] /\ UNCHANGED <<bag, found>>

Init == /\ bag = << >>
        /\ pos = [r \in Readers |-> NULL]
        /\ found = [r \in Readers |-> FALSE]

Insert(k) == bag' = Append(bag, k) /\ UNCHANGED <<pos, found>>

Contains(r, k) ==
  /\ found' = [found EXCEPT ![r] = \E n \in Items : bag[n] = k]
  /\ UNCHANGED <<bag, pos>>

Seek(r, k) == \E n \in Items \cup {NULL} :
                 IsFirst(n, {m \in Items : bag[m] >= k}) /\ MoveTo(r, n)

SeekToFirst(r) == \E n \in Items \cup {NULL} : IsFirst(n, Items) /\ MoveTo(r, n)

SeekToLast(r) == \E n \in Items \cup {NULL} : IsLast(n, Items) /\ MoveTo(r, n)

\* Both require Valid(), as the assertions of the iterator do.
Advance(r) ==
  /\ pos[r] # NULL
  /\ \E n \in Items \cup {NULL} :
        IsFirst(n, {m \in Items : Before(pos[r], m)}) /\ MoveTo(r, n)

Retreat(r) ==
  /\ pos[r] # NULL
  /\ \E n \in Items \cup {NULL} :
        IsLast(n, {m \in Items : bag[m] < bag[pos[r]]}) /\ MoveTo(r, n)

Next == \/ \E k \in Keys : Insert(k)
        \/ \E r \in Readers :
              \/ \E k \in Keys : Contains(r, k) \/ Seek(r, k)
              \/ SeekToFirst(r) \/ SeekToLast(r)
              \/ Advance(r) \/ Retreat(r)

Spec == Init /\ [][Next]_bagVars
=============================================================================
