------------------------------ MODULE MemTable ------------------------------
(***************************************************************************)
(* db/memtable.cpp with the keys of db/dbformat.{h,cpp}.                   *)
(*                                                                         *)
(* The table is a skip list, used as the OrderedBag that SkipList is shown *)
(* to implement.  A Get is two steps: the Seek of its local iterator, and  *)
(* the reading of the entry the iterator stands on; Adds and other readers *)
(* may come in between.  An entry is never changed once it is added.       *)
(*                                                                         *)
(* seen and from are history variables of the forward scans.               *)
(***************************************************************************)
EXTENDS Integers, Sequences

CONSTANTS
  UserKeys,      \* the user keys, numbered in the order of user_comparator_
  Values,
  MaxSequence,   \* kMaxSequenceNumber
  Getters,       \* the callers of Get, each with its local iterator
  Iterators,     \* the MemTableIterators
  MaxEntries,    \* bound: entries the model adds
  Deleted, Absent, NULL

ASSUME ConstantsAssumption ==
  /\ UserKeys \subseteq Int
  /\ MaxSequence \in Nat /\ MaxEntries \in Nat
  /\ Getters \cap Iterators = {}
  /\ NULL \notin Int /\ NULL \notin Values /\ NULL \notin [key : UserKeys, tag : Nat]
  /\ Deleted \notin Values /\ Absent \notin Values
  /\ NULL \notin [key : UserKeys, seq : Nat, value : Values \cup {Deleted, Absent}]
  /\ Deleted # NULL /\ Absent # NULL /\ Deleted # Absent

VARIABLES
  entries,       \* entries[n]: what the n-th Add encoded
  pos,           \* pos[o]: the entry the iterator of o stands on, or NULL
  lookup,        \* lookup[g]: the LookupKey of the Get g is in, or NULL
  answer,        \* answer[g]: what the last Get of g returned
  seen,          \* seen[o]: the entries o has visited since SeekToFirst
  from           \* from[o]: how many entries there were then; 0 without a scan

vars == <<entries, pos, lookup, answer, seen, from>>

-----------------------------------------------------------------------------
(* Internal keys.  The tag is (sequence << 8) | type; one bit is enough    *)
(* for the two types.                                                      *)

kTypeDeletion == 0
kTypeValue == 1

kValueTypeForSeek == kTypeValue

Sequence == 0..MaxSequence
TagLimit == 2 * (MaxSequence + 1)

PackSequenceAndType(s, t) == 2 * s + t
SequenceOf(tag) == tag \div 2
TypeOf(tag) == tag % 2

\* Defect: the sought key sorts behind the value it should find.
LookupKeyDeletion(k, s) == [key |-> k, tag |-> PackSequenceAndType(s, kTypeDeletion)]

LookupKey(k, s) == [key |-> k, tag |-> PackSequenceAndType(s, kValueTypeForSeek)]

\* InternalKeyComparator: by user key, and the greater tag first.
Compare(a, b) ==
  IF a.key # b.key
    THEN IF a.key < b.key THEN -1 ELSE 1
    ELSE IF a.tag > b.tag THEN -1 ELSE IF a.tag < b.tag THEN 1 ELSE 0

\* Defect: the older version of a key sorts first.
RankOldestFirst(a) == a.key * TagLimit + a.tag

\* The place of an internal key in that order, as OrderedBag numbers it.
Rank(a) == a.key * TagLimit + (TagLimit - 1 - a.tag)

Owners == Getters \cup Iterators

Table == INSTANCE OrderedBag WITH
           Keys <- Int, Readers <- Owners,
           bag <- [n \in 1..Len(entries) |-> Rank(entries[n])],
           found <- [o \in Owners |-> FALSE]

-----------------------------------------------------------------------------
Init == /\ entries = << >>
        /\ pos = [o \in Owners |-> NULL]
        /\ lookup = [g \in Getters |-> NULL]
        /\ answer = [g \in Getters |-> NULL]
        /\ seen = [o \in Iterators |-> {}]
        /\ from = [o \in Iterators |-> 0]

Add(s, t, k, v) ==
  /\ Len(entries) < MaxEntries
  /\ LET e == [key |-> k, tag |-> PackSequenceAndType(s, t), value |-> v]
     IN entries' = Append(entries, e) /\ Table!Insert(Rank(e))
  /\ UNCHANGED <<lookup, answer, seen, from>>

-----------------------------------------------------------------------------
(* Get.                                                                    *)

\* What Get returns for the entry n.  The caller's Status is set for a
\* deletion only.
Outcome(n, lk) ==
  IF n # NULL /\ entries[n].key = lk.key
    THEN IF TypeOf(entries[n].tag) = kTypeValue THEN entries[n].value ELSE Deleted
    ELSE Absent

GetSeek(g, k, s) ==
  /\ lookup[g] = NULL
  /\ lookup' = [lookup EXCEPT ![g] = LookupKey(k, s)]
  /\ UNCHANGED <<entries, answer, seen, from>>
  /\ Table!Seek(g, Rank(LookupKey(k, s)))

\* Defect: the local iterator outlives the call.
GetReturnKeeping(g) ==
  /\ lookup[g] # NULL
  /\ answer' = [answer EXCEPT ![g] = Outcome(pos[g], lookup[g])]
  /\ lookup' = [lookup EXCEPT ![g] = NULL]
  /\ UNCHANGED <<entries, pos, seen, from>>

GetReturn(g) ==
  /\ lookup[g] # NULL
  /\ answer' = [answer EXCEPT ![g] = Outcome(pos[g], lookup[g])]
  /\ lookup' = [lookup EXCEPT ![g] = NULL]
  /\ pos' = [pos EXCEPT ![g] = NULL]
  /\ UNCHANGED <<entries, seen, from>>

-----------------------------------------------------------------------------
(* The MemTableIterator hands each call to the iterator of the table.      *)

NoScan(o) == /\ seen' = [seen EXCEPT ![o] = {}]
             /\ from' = [from EXCEPT ![o] = 0]
             /\ UNCHANGED <<entries, lookup, answer>>

Visited(o) == IF pos'[o] = NULL THEN {} ELSE {pos'[o]}

SeekToFirst(o) ==
  /\ UNCHANGED <<entries, lookup, answer>>
  /\ Table!SeekToFirst(o)
  /\ seen' = [seen EXCEPT ![o] = Visited(o)]
  /\ from' = [from EXCEPT ![o] = Len(entries)]

\* Defect: Next seeks behind the internal key it stands on.
IterNextBehindKey(o) ==
  /\ pos[o] # NULL
  /\ UNCHANGED <<entries, lookup, answer, from>>
  /\ Table!Seek(o, Rank(entries[pos[o]]) + 1)
  /\ seen' = [seen EXCEPT ![o] = IF from[o] = 0 THEN {} ELSE @ \cup Visited(o)]

IterNext(o) ==
  /\ UNCHANGED <<entries, lookup, answer, from>>
  /\ Table!Advance(o)
  /\ seen' = [seen EXCEPT ![o] = IF from[o] = 0 THEN {} ELSE @ \cup Visited(o)]

SeekToLast(o) == NoScan(o) /\ Table!SeekToLast(o)

Seek(o, k, s) == NoScan(o) /\ Table!Seek(o, Rank(LookupKey(k, s)))

IterPrev(o) == NoScan(o) /\ Table!Retreat(o)

-----------------------------------------------------------------------------
Next ==
  \/ \E s \in Sequence, t \in {kTypeDeletion, kTypeValue}, k \in UserKeys, v \in Values :
        Add(s, t, k, v)
  \/ \E g \in Getters : GetReturn(g) \/ \E k \in UserKeys, s \in Sequence : GetSeek(g, k, s)
  \/ \E o \in Iterators :
        \/ SeekToFirst(o) \/ SeekToLast(o) \/ IterNext(o) \/ IterPrev(o)
        \/ \E k \in UserKeys, s \in Sequence : Seek(o, k, s)

Spec == Init /\ [][Next]_vars

-----------------------------------------------------------------------------
Entry == [key : UserKeys, tag : 0..TagLimit - 1, value : Values]

\* Types.
TypeOK ==
  /\ entries \in Seq(Entry) /\ Len(entries) <= MaxEntries
  /\ pos \in [Owners -> 1..Len(entries) \cup {NULL}]
  /\ lookup \in [Getters -> [key : UserKeys, tag : 0..TagLimit - 1] \cup {NULL}]
  /\ answer \in [Getters -> Values \cup {Deleted, Absent, NULL}]
  /\ seen \in [Iterators -> SUBSET (1..Len(entries))]
  /\ from \in [Iterators -> 0..Len(entries)]
  /\ \A g \in Getters : lookup[g] = NULL => pos[g] = NULL

\* Get answers with the newest version its sequence number can see, taken at
\* the one instant of its Seek, however Adds interleave.
Versions == {[key |-> entries[n].key, seq |-> SequenceOf(entries[n].tag),
              value |-> IF TypeOf(entries[n].tag) = kTypeValue
                          THEN entries[n].value ELSE Deleted] : n \in 1..Len(entries)}

Promise(n, lk) == [key |-> lk.key, seq |-> SequenceOf(lk.tag), value |-> Outcome(n, lk)]

Map == INSTANCE VersionedMap WITH
         Snapshots <- Sequence, versions <- Versions,
         promised <- [g \in Getters |-> IF lookup[g] = NULL THEN NULL
                                        ELSE Promise(pos[g], lookup[g])]

ImplementsVersionedMap == Map!Spec

\* What a Get of k at s that seeks now would answer.
GetNow(k, s) ==
  LET S == {m \in Table!Items : Rank(entries[m]) >= Rank(LookupKey(k, s))}
  IN Outcome(CHOOSE n \in Table!Items \cup {NULL} : Table!IsFirst(n, S), LookupKey(k, s))

\* A snapshot is stable: an Add with a number above s changes no answer at s.
SnapshotStable ==
  [][\A k \in UserKeys, s \in Sequence :
       (/\ Len(entries') > Len(entries)
        /\ SequenceOf(entries'[Len(entries')].tag) > s) => GetNow(k, s)' = GetNow(k, s)]_vars

\* A forward scan misses nothing that was there when it began: what it has
\* not visited yet lies ahead of it, and at its end it has visited it all.
ScanComplete ==
  \A o \in Iterators : \A n \in 1..from[o] :
    n \in seen[o] \/ (pos[o] # NULL /\ Table!Before(pos[o], n))
=============================================================================
