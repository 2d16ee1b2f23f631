--------------------------- MODULE MemTableProofs ---------------------------
(***************************************************************************)
(* A MemTable implements a VersionedMap, for every set of keys, values and *)
(* readers and every range of sequence numbers.                            *)
(***************************************************************************)
EXTENDS MemTable, SequenceTheorems, WellFoundedInduction, TLAPS

USE ConstantsAssumption

Tags == 0..TagLimit - 1

LEMMA TagsOK ==
  /\ TagLimit \in Nat \ {0}
  /\ \A s \in Sequence, t \in {kTypeDeletion, kTypeValue} :
        /\ PackSequenceAndType(s, t) \in Tags
        /\ SequenceOf(PackSequenceAndType(s, t)) = s
        /\ TypeOf(PackSequenceAndType(s, t)) = t
  /\ \A tag \in Tags : SequenceOf(tag) \in Sequence
BY DEF TagLimit, Sequence, PackSequenceAndType, SequenceOf, TypeOf, Tags,
       kTypeDeletion, kTypeValue

\* The numbering of the internal keys is the order of InternalKeyComparator.
LEMMA RankOrder ==
  ASSUME NEW ka \in Int, NEW ta \in Tags, NEW kb \in Int, NEW tb \in Tags
  PROVE  ka * TagLimit + (TagLimit - 1 - ta) <= kb * TagLimit + (TagLimit - 1 - tb)
            <=> ka < kb \/ (ka = kb /\ ta >= tb)
<1> DEFINE T == TagLimit
<1>1. T \in Nat \ {0} /\ ta \in 0..T - 1 /\ tb \in 0..T - 1
  BY TagsOK DEF Tags
<1>2. /\ ka * T \in Int /\ kb * T \in Int
      /\ (ka + 1) * T = ka * T + T /\ (kb + 1) * T = kb * T + T
  BY <1>1
<1>3. \A u, v \in Int : u <= v => u * T <= v * T
  BY <1>1
<1> HIDE DEF T
<1>4. CASE ka = kb
  BY <1>1, <1>2, <1>4 DEF T
<1>5. CASE ka < kb
  <2>1. (ka + 1) * T <= kb * T
    BY <1>3, <1>5
  <2>2. QED
    BY <1>1, <1>2, <1>5, <2>1 DEF T
<1>6. CASE kb < ka
  <2>1. (kb + 1) * T <= ka * T
    BY <1>3, <1>6
  <2>2. QED
    BY <1>1, <1>2, <1>6, <2>1 DEF T
<1>7. QED
  BY <1>4, <1>5, <1>6

\* The skip list is searched by number, the code by Compare: the two agree,
\* so the table of the model is the table of the code.
THEOREM RankIsCompare ==
  ASSUME NEW a \in [key : Int, tag : Tags], NEW b \in [key : Int, tag : Tags]
  PROVE  /\ Rank(a) < Rank(b) <=> Compare(a, b) = -1
         /\ Rank(a) = Rank(b) <=> Compare(a, b) = 0
<1>1. Rank(a) \in Int /\ Rank(b) \in Int
  <2>1. \A key \in Int, tag \in Tags : key * TagLimit + (TagLimit - 1 - tag) \in Int
    BY TagsOK DEF Tags
  <2>2. QED
    BY <2>1 DEF Rank
<1>2. /\ Rank(a) <= Rank(b) <=> a.key < b.key \/ (a.key = b.key /\ a.tag >= b.tag)
      /\ Rank(b) <= Rank(a) <=> b.key < a.key \/ (b.key = a.key /\ b.tag >= a.tag)
  BY RankOrder DEF Rank
<1>3. a.key \in Int /\ b.key \in Int /\ a.tag \in Nat /\ b.tag \in Nat
  BY DEF Tags
<1>4. /\ Compare(a, b) = -1 <=> a.key < b.key \/ (a.key = b.key /\ a.tag > b.tag)
      /\ Compare(a, b) = 0 <=> a.key = b.key /\ a.tag = b.tag
  <2>1. CASE a.key < b.key
    BY <1>3, <2>1 DEF Compare
  <2>2. CASE a.key > b.key
    BY <1>3, <2>2 DEF Compare
  <2>3. CASE a.key = b.key /\ a.tag > b.tag
    BY <1>3, <2>3 DEF Compare
  <2>4. CASE a.key = b.key /\ a.tag < b.tag
    BY <1>3, <2>4 DEF Compare
  <2>5. CASE a.key = b.key /\ a.tag = b.tag
    BY <1>3, <2>5 DEF Compare
  <2>6. QED
    BY <1>3, <2>1, <2>2, <2>3, <2>4, <2>5
<1>5. QED
  BY <1>1, <1>2, <1>3, <1>4

-----------------------------------------------------------------------------
LEMMA EntriesOK ==
  ASSUME TypeOK
  PROVE  /\ Len(entries) \in Nat /\ Table!Items = 1..Len(entries)
         /\ \A n \in 1..Len(entries) :
               /\ entries[n] \in Entry /\ entries[n].key \in Int
               /\ entries[n].tag \in Tags
               /\ [m \in 1..Len(entries) |-> Rank(entries[m])][n] = Rank(entries[n])
<1>1. Len(entries) \in Nat /\ \A n \in 1..Len(entries) : entries[n] \in Entry
  BY LenProperties DEF TypeOK
<1>2. Table!Items = 1..Len(entries)
  BY <1>1 DEF Table!Items
<1>3. QED
  BY <1>1, <1>2 DEF Entry, Tags

LEMMA InitOK == Init => TypeOK
BY DEF Init, TypeOK, Owners

\* Every operation of the table moves the iterator of one owner to an entry.
LEMMA Moved ==
  ASSUME TypeOK, NEW o \in Owners, NEW k,
         \/ Table!Seek(o, k) \/ Table!SeekToFirst(o) \/ Table!SeekToLast(o)
         \/ Table!Advance(o) \/ Table!Retreat(o)
  PROVE  \E n \in 1..Len(entries) \cup {NULL} : pos' = [pos EXCEPT ![o] = n]
<1>1. Table!Items = 1..Len(entries)
  BY EntriesOK
<1>2. QED
  BY <1>1 DEF Table!Seek, Table!SeekToFirst, Table!SeekToLast, Table!Advance,
              Table!Retreat, Table!MoveTo

LEMMA AddOK ==
  ASSUME TypeOK, NEW s \in Sequence, NEW t \in {kTypeDeletion, kTypeValue},
         NEW k \in UserKeys, NEW v \in Values, Add(s, t, k, v)
  PROVE  /\ Len(entries') = Len(entries) + 1 /\ Len(entries) < MaxEntries
         /\ entries' \in Seq(Entry) /\ UNCHANGED <<pos, lookup, answer, seen, from>>
         /\ \A n \in 1..Len(entries) : entries'[n] = entries[n]
         /\ entries'[Len(entries) + 1] =
               [key |-> k, tag |-> PackSequenceAndType(s, t), value |-> v]
<1> DEFINE e == [key |-> k, tag |-> PackSequenceAndType(s, t), value |-> v]
<1>1. e \in Entry
  BY TagsOK DEF Entry, Tags
<1>2. /\ Len(entries) < MaxEntries /\ entries' = Append(entries, e)
      /\ UNCHANGED <<pos, lookup, answer, seen, from>>
  BY DEF Add, Table!Insert
<1>3. entries \in Seq(Entry)
  BY DEF TypeOK
<1> HIDE DEF e
<1>4. QED
  BY <1>1, <1>2, <1>3, AppendProperties DEF e

LEMMA AddTypeOK ==
  ASSUME TypeOK, NEW s \in Sequence, NEW t \in {kTypeDeletion, kTypeValue},
         NEW k \in UserKeys, NEW v \in Values, Add(s, t, k, v)
  PROVE  TypeOK'
<1>1. /\ Len(entries') = Len(entries) + 1 /\ Len(entries) < MaxEntries
      /\ entries' \in Seq(Entry) /\ UNCHANGED <<pos, lookup, answer, seen, from>>
  BY AddOK
<1>2. Len(entries) \in Nat
  BY EntriesOK
<1>3. 1..Len(entries) \subseteq 1..Len(entries') /\ 0..Len(entries) \subseteq 0..Len(entries')
  BY <1>1, <1>2
<1>4. Len(entries') <= MaxEntries
  BY <1>1, <1>2
<1>5. /\ pos' \in [Owners -> 1..Len(entries') \cup {NULL}]
      /\ seen' \in [Iterators -> SUBSET (1..Len(entries'))]
      /\ from' \in [Iterators -> 0..Len(entries')]
  BY <1>1, <1>3 DEF TypeOK
<1>6. QED
  BY <1>1, <1>4, <1>5 DEF TypeOK

LEMMA GetSeekOK ==
  ASSUME TypeOK, NEW g \in Getters, NEW k \in UserKeys, NEW s \in Sequence, GetSeek(g, k, s)
  PROVE  TypeOK'
<1>1. /\ UNCHANGED <<entries, answer, seen, from>>
      /\ lookup' = [lookup EXCEPT ![g] = LookupKey(k, s)]
      /\ g \in Owners
  BY DEF GetSeek, Owners
<1>2. \E n \in 1..Len(entries) \cup {NULL} : pos' = [pos EXCEPT ![g] = n]
  BY <1>1, Moved DEF GetSeek
<1>3. /\ LookupKey(k, s) \in [key : UserKeys, tag : 0..TagLimit - 1]
      /\ LookupKey(k, s) # NULL
  <2>1. PackSequenceAndType(s, kTypeValue) \in Tags
    BY TagsOK
  <2>2. LookupKey(k, s) \in [key : UserKeys, tag : 0..TagLimit - 1]
    BY <2>1 DEF LookupKey, Tags, kValueTypeForSeek
  <2>3. LookupKey(k, s) \in [key : UserKeys, tag : Nat]
    BY <2>1, TagsOK DEF LookupKey, Tags, kValueTypeForSeek
  <2>4. LookupKey(k, s) # NULL
    BY <2>3
  <2>5. QED
    BY <2>2, <2>4
<1>4. QED
  BY <1>1, <1>2, <1>3 DEF TypeOK

LEMMA GetReturnOK ==
  ASSUME TypeOK, NEW g \in Getters, GetReturn(g)
  PROVE  TypeOK' /\ Outcome(pos[g], lookup[g]) \in Values \cup {Deleted, Absent}
<1>1. g \in Owners /\ pos[g] \in 1..Len(entries) \cup {NULL}
  BY DEF Owners, TypeOK
<1>2. \A n \in 1..Len(entries) : entries[n].value \in Values
  BY EntriesOK DEF Entry
<1>3. Outcome(pos[g], lookup[g]) \in Values \cup {Deleted, Absent}
  BY <1>1, <1>2 DEF Outcome
<1>4. QED
  BY <1>1, <1>3 DEF GetReturn, TypeOK

LEMMA IteratorOK ==
  ASSUME TypeOK, NEW o \in Iterators, NEW k, NEW s,
         SeekToFirst(o) \/ SeekToLast(o) \/ IterNext(o) \/ IterPrev(o) \/ Seek(o, k, s)
  PROVE  TypeOK' /\ UNCHANGED <<entries, lookup, answer>> /\ \A g \in Getters : pos'[g] = pos[g]
<1>1. o \in Owners /\ o \notin Getters /\ UNCHANGED <<entries, lookup, answer>>
  BY DEF Owners, SeekToFirst, SeekToLast, IterNext, IterPrev, Seek, NoScan
<1>2. PICK n \in 1..Len(entries) \cup {NULL} : pos' = [pos EXCEPT ![o] = n]
  BY <1>1, Moved DEF SeekToFirst, SeekToLast, IterNext, IterPrev, Seek
<1>3. /\ seen \in [Iterators -> SUBSET (1..Len(entries))]
      /\ from \in [Iterators -> 0..Len(entries)]
      /\ pos \in [Owners -> 1..Len(entries) \cup {NULL}]
      /\ Len(entries) \in Nat
  BY EntriesOK DEF TypeOK
<1>4. Visited(o) \in SUBSET (1..Len(entries))
  BY <1>1, <1>2, <1>3 DEF Visited
<1>5. /\ seen' \in [Iterators -> SUBSET (1..Len(entries))]
      /\ from' \in [Iterators -> 0..Len(entries)]
  BY <1>3, <1>4 DEF SeekToFirst, SeekToLast, IterNext, IterPrev, Seek, NoScan
<1>6. pos' \in [Owners -> 1..Len(entries) \cup {NULL}] /\ \A g \in Getters : pos'[g] = pos[g]
  BY <1>1, <1>2, <1>3 DEF Owners
<1>7. QED
  BY <1>1, <1>5, <1>6 DEF TypeOK

LEMMA NextTypeOK == ASSUME TypeOK, [Next]_vars PROVE TypeOK'
<1>1. CASE Next
  <2>1. ASSUME NEW o \in Iterators,
               SeekToFirst(o) \/ SeekToLast(o) \/ IterNext(o) \/ IterPrev(o)
        PROVE  TypeOK'
    BY <2>1, IteratorOK
  <2>2. QED
    BY <1>1, <2>1, AddTypeOK, GetSeekOK, GetReturnOK, IteratorOK DEF Next
<1>2. CASE UNCHANGED vars
  BY <1>2 DEF vars, TypeOK
<1>3. QED
  BY <1>1, <1>2

\* The types, and that a Get leaves no iterator behind.
THEOREM TypeCorrect == Spec => []TypeOK
BY InitOK, NextTypeOK, PTL DEF Spec

-----------------------------------------------------------------------------
(* The refinement.                                                         *)

VersionOf(e) == [key |-> e.key, seq |-> SequenceOf(e.tag),
                 value |-> IF TypeOf(e.tag) = kTypeValue THEN e.value ELSE Deleted]

LEMMA VersionsOK ==
  ASSUME TypeOK
  PROVE  /\ Versions = {VersionOf(entries[n]) : n \in 1..Len(entries)}
         /\ \A n \in 1..Len(entries) : VersionOf(entries[n]) \in Map!Version
<1>1. Versions = {VersionOf(entries[n]) : n \in 1..Len(entries)}
  BY DEF Versions, VersionOf
<1>2. ASSUME NEW n \in 1..Len(entries) PROVE VersionOf(entries[n]) \in Map!Version
  BY EntriesOK, TagsOK DEF VersionOf, Map!Version, Entry
<1>3. QED
  BY <1>1, <1>2

\* The entry at which a seek for (k, s) stops is the newest version visible
\* at s, if there is one.
LEMMA SeekFindsNewest ==
  ASSUME TypeOK, NEW k \in UserKeys, NEW s \in Sequence,
         NEW n \in 1..Len(entries) \cup {NULL},
         LET bag == [m \in 1..Len(entries) |-> Rank(entries[m])]
             S == {m \in Table!Items : bag[m] >= Rank(LookupKey(k, s))}
         IN Table!IsFirst(n, S)
  PROVE  Outcome(n, LookupKey(k, s)) \in Map!Answers(k, s)
<1> DEFINE lk == LookupKey(k, s)
           I == 1..Len(entries)
           Sees(m) == entries[m].key = k /\ SequenceOf(entries[m].tag) <= s
           S == {m \in I : Rank(entries[m]) >= Rank(lk)}
<1>1. /\ lk.key = k /\ lk.tag = PackSequenceAndType(s, kTypeValue)
      /\ lk.key \in Int /\ lk.tag \in Tags
  BY TagsOK DEF LookupKey, kValueTypeForSeek
<1>2. \A m \in I : /\ entries[m].key \in Int /\ entries[m].tag \in Tags
                   /\ entries[m] \in Entry
  BY EntriesOK
<1>3. Table!IsFirst(n, S)
  <2>1. Table!Items = I /\ \A m \in I : [j \in I |-> Rank(entries[j])][m] = Rank(entries[m])
    BY EntriesOK
  <2>2. {m \in Table!Items : [j \in I |-> Rank(entries[j])][m] >= Rank(lk)} = S
    BY <2>1
  <2>3. QED
    BY <2>2
<1>4. \A m \in I : Rank(entries[m]) \in Int /\ Rank(lk) \in Int
  <2>1. \A key \in Int, tag \in Tags : key * TagLimit + (TagLimit - 1 - tag) \in Int
    BY TagsOK DEF Tags
  <2>2. QED
    BY <1>1, <1>2, <2>1 DEF Rank
<1>5. ASSUME NEW m \in I
      PROVE  m \in S <=> k < entries[m].key \/ Sees(m)
  <2>1. m \in S <=> k < entries[m].key \/ (k = entries[m].key /\ lk.tag >= entries[m].tag)
    BY <1>1, <1>2, <1>4, <1>5, RankOrder DEF Rank
  <2>2. lk.tag >= entries[m].tag <=> SequenceOf(entries[m].tag) <= s
    <3>1. entries[m].tag \in Nat /\ s \in Nat
      BY <1>2, <1>5, TagsOK DEF Tags, Sequence
    <3>2. \A tag \in Nat : 2 * s + 1 >= tag <=> tag \div 2 <= s
      BY <3>1
    <3>3. lk.tag = 2 * s + 1
      BY <1>1 DEF PackSequenceAndType, kTypeValue
    <3>4. QED
      BY <3>1, <3>2, <3>3 DEF SequenceOf
  <2>3. QED
    BY <2>1, <2>2
<1>6. ASSUME NEW a \in I, NEW b \in I, Table!Before(a, b)
      PROVE  \/ entries[a].key < entries[b].key
             \/ entries[a].key = entries[b].key /\ entries[a].tag >= entries[b].tag
  <2>1. Rank(entries[a]) <= Rank(entries[b])
    BY <1>4, <1>6, EntriesOK DEF Table!Before
  <2>2. QED
    BY <1>2, <1>6, <2>1, RankOrder DEF Rank
<1>7. /\ S = {} => n = NULL
      /\ S # {} => n \in S /\ \A m \in S : m = n \/ Table!Before(n, m)
  BY <1>3 DEF Table!IsFirst
<1> HIDE DEF S
<1>8. \A v : v \in Map!Visible(k, s) <=>
               \E m \in I : Sees(m) /\ v = VersionOf(entries[m])
  BY VersionsOK DEF Map!Visible, VersionOf
<1>9. CASE n # NULL /\ entries[n].key = k
  <2>1. n \in I /\ n \in S
    BY <1>7, <1>9
  <2>2. Sees(n)
    BY <1>1, <1>2, <1>5, <1>9, <2>1
  <2>3. ASSUME NEW m \in I, Sees(m)
        PROVE  SequenceOf(entries[m].tag) <= SequenceOf(entries[n].tag)
    <3>1. m \in S
      BY <1>5, <2>3
    <3>2. m = n \/ entries[n].tag >= entries[m].tag
      BY <1>2, <1>6, <1>7, <1>9, <2>1, <2>3, <3>1
    <3>3. entries[m].tag \in Nat /\ entries[n].tag \in Nat
      BY <1>2, <2>1, TagsOK DEF Tags
    <3>4. \A a, b \in Nat : a >= b => b \div 2 <= a \div 2
      OBVIOUS
    <3>5. QED
      BY <3>2, <3>3, <3>4 DEF SequenceOf
  <2>4. VersionOf(entries[n]) \in Map!Visible(k, s)
    BY <1>8, <2>1, <2>2
  <2>5. ASSUME NEW w \in Map!Visible(k, s) PROVE w.seq <= VersionOf(entries[n]).seq
    BY <1>8, <2>3 DEF VersionOf
  <2>6. VersionOf(entries[n]) \in Map!Newest(k, s)
    BY <2>4, <2>5 DEF Map!Newest
  <2>7. Outcome(n, lk) = VersionOf(entries[n]).value
    BY <1>1, <1>9 DEF Outcome, VersionOf
  <2>8. QED
    BY <2>4, <2>6, <2>7 DEF Map!Answers
<1>10. CASE ~(n # NULL /\ entries[n].key = k)
  <2>1. ASSUME NEW m \in I, Sees(m) PROVE FALSE
    <3>1. m \in S /\ n \in S /\ (m = n \/ Table!Before(n, m))
      BY <1>5, <1>7, <2>1
    <3>2. n \in I /\ n # NULL
      BY <3>1 DEF S
    <3>3. k < entries[n].key /\ (m = n \/ entries[n].key <= entries[m].key)
      BY <1>2, <1>5, <1>6, <1>10, <2>1, <3>1, <3>2
    <3>4. QED
      BY <1>1, <1>2, <2>1, <3>2, <3>3
  <2>2. Map!Visible(k, s) = {}
    BY <1>8, <2>1
  <2>3. Outcome(n, lk) = Absent
    BY <1>1, <1>10 DEF Outcome
  <2>4. QED
    BY <2>2, <2>3 DEF Map!Answers
<1>11. QED
  BY <1>9, <1>10

\* The answer a Get will give does not change when entries are added.
LEMMA PromiseKept ==
  ASSUME TypeOK, NEW g \in Getters,
         \A n \in 1..Len(entries) : entries'[n] = entries[n],
         pos'[g] = pos[g], lookup'[g] = lookup[g]
  PROVE  Outcome(pos[g], lookup[g])' = Outcome(pos[g], lookup[g])
<1>1. g \in Owners /\ pos[g] \in 1..Len(entries) \cup {NULL}
  BY DEF Owners, TypeOK
<1>2. QED
  BY <1>1 DEF Outcome

mpromised == [g \in Getters |-> IF lookup[g] = NULL THEN NULL
                                ELSE Promise(pos[g], lookup[g])]

LEMMA InitRefines == Init => Map!Init
<1> SUFFICES ASSUME Init PROVE Map!Init
  OBVIOUS
<1>1. Versions = {}
  BY DEF Init, Versions
<1>2. QED
  BY <1>1 DEF Init, Map!Init

LEMMA AddRefines ==
  ASSUME TypeOK, NEW s \in Sequence, NEW t \in {kTypeDeletion, kTypeValue},
         NEW k \in UserKeys, NEW v \in Values, Add(s, t, k, v)
  PROVE  \E w \in Map!Version : Map!Write(w)
<1> DEFINE e == [key |-> k, tag |-> PackSequenceAndType(s, t), value |-> v]
<1>1. /\ Len(entries') = Len(entries) + 1 /\ UNCHANGED <<pos, lookup, answer>>
      /\ \A n \in 1..Len(entries) : entries'[n] = entries[n]
      /\ entries'[Len(entries) + 1] = e
  BY AddOK
<1>2. Len(entries) \in Nat /\ TypeOK'
  BY EntriesOK, AddTypeOK
<1>3. Versions' = {VersionOf(entries'[n]) : n \in 1..Len(entries')}
  BY DEF Versions, VersionOf
<1>4. PICK w \in Map!Version : w = VersionOf(e)
  <2>1. e \in Entry
    BY TagsOK DEF Entry, Tags
  <2>2. VersionOf(e) \in Map!Version
    BY <2>1, TagsOK DEF VersionOf, Map!Version, Entry, Tags
  <2>3. QED
    BY <2>2
<1> HIDE DEF e
<1>5. Versions' = Versions \cup {w}
  BY <1>1, <1>2, <1>3, <1>4, VersionsOK
<1>6. mpromised' = mpromised
  BY <1>1, PromiseKept DEF mpromised, Promise
<1>7. Map!Write(w)
  BY <1>1, <1>5, <1>6 DEF Map!Write, mpromised
<1>8. QED
  BY <1>7

LEMMA GetSeekRefines ==
  ASSUME TypeOK, NEW g \in Getters, NEW k \in UserKeys, NEW s \in Sequence, GetSeek(g, k, s)
  PROVE  Map!Look(g, k, s)
<1>1. /\ UNCHANGED <<entries, answer>> /\ lookup[g] = NULL
      /\ lookup' = [lookup EXCEPT ![g] = LookupKey(k, s)] /\ g \in Owners
      /\ Table!Seek(g, Rank(LookupKey(k, s)))
  BY DEF GetSeek, Owners
<1>2. TypeOK' /\ LookupKey(k, s) # NULL
  <2>1. LookupKey(k, s) \in [key : UserKeys, tag : Nat]
    BY TagsOK DEF LookupKey, Tags, kValueTypeForSeek
  <2>2. QED
    BY <2>1, GetSeekOK
<1>3. PICK n \in 1..Len(entries) \cup {NULL} :
         /\ Table!IsFirst(n, {m \in Table!Items :
               [j \in 1..Len(entries) |-> Rank(entries[j])][m] >= Rank(LookupKey(k, s))})
         /\ pos' = [pos EXCEPT ![g] = n]
  BY <1>1, EntriesOK DEF Table!Seek, Table!MoveTo
<1>4. PICK a \in Map!Answers(k, s) : a = Outcome(n, LookupKey(k, s))
  BY <1>3, SeekFindsNewest
<1>5. /\ lookup \in [Getters -> [key : UserKeys, tag : 0..TagLimit - 1] \cup {NULL}]
      /\ pos'[g] = n /\ \A h \in Getters : h # g => pos'[h] = pos[h]
      /\ lookup'[g] = LookupKey(k, s) /\ \A h \in Getters : h # g => lookup'[h] = lookup[h]
  BY <1>1, <1>3 DEF TypeOK, Owners
<1>6. mpromised' = [mpromised EXCEPT ![g] = [key |-> k, seq |-> s, value |-> a]]
  <2>1. LookupKey(k, s).key = k /\ SequenceOf(LookupKey(k, s).tag) = s
    BY TagsOK DEF LookupKey, kValueTypeForSeek
  <2>2. Promise(n, LookupKey(k, s)) = [key |-> k, seq |-> s, value |-> a]
    BY <1>4, <2>1 DEF Promise
  <2>3. mpromised'[g] = [key |-> k, seq |-> s, value |-> a]
    <3>1. mpromised'[g] = Promise(n, LookupKey(k, s))
      BY <1>1, <1>2, <1>5 DEF mpromised, Promise, Outcome
    <3>2. QED
      BY <2>2, <3>1
  <2>4. \A h \in Getters : h # g => mpromised'[h] = mpromised[h]
    BY <1>1, <1>5 DEF mpromised, Promise, Outcome
  <2>5. QED
    BY <2>3, <2>4 DEF mpromised
<1>7. mpromised[g] = NULL
  BY <1>1 DEF mpromised
<1>8. Versions' = Versions
  BY <1>1 DEF Versions
<1>9. QED
  BY <1>1, <1>4, <1>6, <1>7, <1>8 DEF Map!Look, mpromised

LEMMA GetReturnRefines ==
  ASSUME TypeOK, NEW g \in Getters, GetReturn(g)
  PROVE  Map!Reply(g)
<1>1. /\ lookup[g] # NULL /\ UNCHANGED entries
      /\ answer' = [answer EXCEPT ![g] = Outcome(pos[g], lookup[g])]
      /\ lookup' = [lookup EXCEPT ![g] = NULL] /\ pos' = [pos EXCEPT ![g] = NULL]
  BY DEF GetReturn
<1>2. mpromised[g].value = Outcome(pos[g], lookup[g]) /\ mpromised[g] # NULL
  <2>1. mpromised[g] = Promise(pos[g], lookup[g])
    BY <1>1 DEF mpromised
  <2>2. lookup[g] \in [key : UserKeys, tag : 0..TagLimit - 1]
    BY <1>1 DEF TypeOK
  <2>3. SequenceOf(lookup[g].tag) \in Nat
    BY <2>2, TagsOK DEF Tags, Sequence
  <2>4. Outcome(pos[g], lookup[g]) \in Values \cup {Deleted, Absent}
    BY <1>1, GetReturnOK
  <2>5. Promise(pos[g], lookup[g]) \in
           [key : UserKeys, seq : Nat, value : Values \cup {Deleted, Absent}]
    BY <2>2, <2>3, <2>4 DEF Promise
  <2>6. QED
    BY <2>1, <2>5 DEF Promise
<1>3. mpromised' = [mpromised EXCEPT ![g] = NULL]
  BY <1>1 DEF mpromised, Promise, TypeOK, Outcome, Owners
<1>4. Versions' = Versions
  BY <1>1 DEF Versions
<1>5. QED
  BY <1>1, <1>2, <1>3, <1>4 DEF Map!Reply, mpromised

LEMMA Unseen ==
  ASSUME TypeOK, UNCHANGED <<entries, lookup, answer>>, \A g \in Getters : pos'[g] = pos[g]
  PROVE  UNCHANGED Map!mapVars
<1>1. Versions' = Versions
  BY DEF Versions
<1>2. mpromised' = mpromised
  BY PromiseKept DEF mpromised, Promise
<1>3. QED
  BY <1>1, <1>2 DEF Map!mapVars, mpromised

LEMMA NextRefines == ASSUME TypeOK, [Next]_vars PROVE [Map!Next]_(Map!mapVars)
<1>1. CASE Next
  <2>1. ASSUME NEW o \in Iterators,
               \/ SeekToFirst(o) \/ SeekToLast(o) \/ IterNext(o) \/ IterPrev(o)
               \/ \E k \in UserKeys, s \in Sequence : Seek(o, k, s)
        PROVE  UNCHANGED Map!mapVars
    BY <2>1, IteratorOK, Unseen
  <2>2. ASSUME NEW s \in Sequence, NEW t \in {kTypeDeletion, kTypeValue},
               NEW k \in UserKeys, NEW v \in Values, Add(s, t, k, v)
        PROVE  Map!Next
    BY <2>2, AddRefines DEF Map!Next
  <2>3. ASSUME NEW g \in Getters, NEW k \in UserKeys, NEW s \in Sequence, GetSeek(g, k, s)
        PROVE  Map!Next
    BY <2>3, GetSeekRefines DEF Map!Next
  <2>4. ASSUME NEW g \in Getters, GetReturn(g) PROVE Map!Next
    BY <2>4, GetReturnRefines DEF Map!Next
  <2>5. QED
    BY <1>1, <2>1, <2>2, <2>3, <2>4 DEF Next
<1>2. CASE UNCHANGED vars
  BY <1>2, Unseen DEF vars
<1>3. QED
  BY <1>1, <1>2

\* However Gets, scans and Adds interleave, every Get answers with the newest
\* version that its sequence number could see at one instant of the call.
THEOREM Refinement == Spec => ImplementsVersionedMap
<1>1. Init => Map!Init
  BY InitRefines
<1>2. TypeOK /\ [Next]_vars => [Map!Next]_(Map!mapVars)
  BY NextRefines
<1>3. QED
  BY <1>1, <1>2, TypeCorrect, PTL DEF Spec, ImplementsVersionedMap, Map!Spec

-----------------------------------------------------------------------------
(* Forward scans.                                                          *)

Covered(o) == \A n \in 1..from[o] :
                n \in seen[o] \/ (pos[o] # NULL /\ Table!Before(pos[o], n))

\* An entry keeps its place among the old ones when another is added.
LEMMA SameOrder ==
  ASSUME TypeOK, TypeOK', \A n \in 1..Len(entries) : entries'[n] = entries[n],
         Len(entries) <= Len(entries'),
         NEW a \in 1..Len(entries), NEW b \in 1..Len(entries)
  PROVE  Table!Before(a, b)' <=> Table!Before(a, b)
<1>1. /\ a \in 1..Len(entries') /\ b \in 1..Len(entries')
      /\ entries'[a] = entries[a] /\ entries'[b] = entries[b]
  BY EntriesOK
<1>2. Table!Before(a, b) <=> \/ Rank(entries[a]) < Rank(entries[b])
                             \/ Rank(entries[a]) = Rank(entries[b]) /\ a > b
  BY DEF Table!Before
<1>3. Table!Before(a, b)' <=> \/ Rank(entries'[a]) < Rank(entries'[b])
                              \/ Rank(entries'[a]) = Rank(entries'[b]) /\ a > b
  BY <1>1 DEF Table!Before, Rank
<1>4. QED
  BY <1>1, <1>2, <1>3

\* An iterator that is not moved stays ahead of nothing it has missed.
LEMMA CoveredStays ==
  ASSUME TypeOK, TypeOK', NEW o \in Iterators, Covered(o),
         \A n \in 1..Len(entries) : entries'[n] = entries[n], Len(entries) <= Len(entries'),
         pos'[o] = pos[o], seen'[o] = seen[o], from'[o] = from[o]
  PROVE  Covered(o)'
<1>1. /\ from[o] \in 0..Len(entries) /\ pos[o] \in 1..Len(entries) \cup {NULL}
      /\ Len(entries) \in Nat
  BY EntriesOK DEF TypeOK, Owners
<1>2. ASSUME NEW n \in 1..from[o], pos[o] # NULL, Table!Before(pos[o], n)
      PROVE  Table!Before(pos[o], n)'
  <2>1. pos[o] \in 1..Len(entries) /\ n \in 1..Len(entries)
    BY <1>1, <1>2
  <2>2. \A a, b \in 1..Len(entries) : Table!Before(a, b)' <=> Table!Before(a, b)
    BY SameOrder
  <2>3. QED
    BY <1>2, <2>1, <2>2 DEF Table!Before
<1>3. QED
  BY <1>2 DEF Covered

LEMMA SeekToFirstCovers ==
  ASSUME TypeOK, NEW o \in Iterators, SeekToFirst(o)
  PROVE  Covered(o)'
<1>1. o \in Owners /\ UNCHANGED entries /\ from'[o] = Len(entries) /\ seen'[o] = Visited(o)
  BY DEF SeekToFirst, Owners, TypeOK
<1>2. PICK n \in 1..Len(entries) \cup {NULL} :
         Table!IsFirst(n, 1..Len(entries)) /\ pos' = [pos EXCEPT ![o] = n]
  BY EntriesOK DEF SeekToFirst, Table!SeekToFirst, Table!MoveTo
<1>3. pos'[o] = n
  BY <1>1, <1>2 DEF TypeOK
<1>4. \A m \in 1..Len(entries) : n # NULL /\ (m = n \/ Table!Before(n, m))
  BY <1>2 DEF Table!IsFirst
<1>5. \A m \in 1..Len(entries) : Table!Before(n, m)' <=> Table!Before(n, m)
  BY <1>1 DEF Table!Before, Rank
<1>6. QED
  BY <1>1, <1>3, <1>4, <1>5 DEF Covered, Visited, Table!Before, Rank

LEMMA IterNextCovers ==
  ASSUME TypeOK, NEW o \in Iterators, Covered(o), IterNext(o)
  PROVE  Covered(o)'
<1>1. /\ o \in Owners /\ UNCHANGED <<entries, from>> /\ pos[o] # NULL
      /\ from[o] # 0 => seen'[o] = seen[o] \cup Visited(o)
      /\ from[o] \in 0..Len(entries) /\ Len(entries) \in Nat
  BY EntriesOK DEF IterNext, Owners, TypeOK, Table!Advance
<1>2. PICK n \in 1..Len(entries) \cup {NULL} :
         /\ Table!IsFirst(n, {m \in 1..Len(entries) : Table!Before(pos[o], m)})
         /\ pos' = [pos EXCEPT ![o] = n]
  BY EntriesOK DEF IterNext, Table!Advance, Table!MoveTo
<1>3. pos'[o] = n
  BY <1>1, <1>2 DEF TypeOK
<1>4. ASSUME NEW m \in 1..from[o]
      PROVE  m \in seen'[o] \/ (n # NULL /\ Table!Before(n, m))
  <2>1. m \in 1..Len(entries) /\ seen'[o] = seen[o] \cup Visited(o)
    BY <1>1
  <2>2. CASE m \in seen[o]
    BY <2>1, <2>2
  <2>3. CASE Table!Before(pos[o], m)
    <3>1. n # NULL /\ (m = n \/ Table!Before(n, m))
      BY <1>2, <2>1, <2>3 DEF Table!IsFirst
    <3>2. QED
      BY <1>3, <2>1, <3>1 DEF Visited
  <2>4. QED
    BY <2>2, <2>3 DEF Covered
<1>5. \A m \in 1..from[o] : Table!Before(n, m)' <=> Table!Before(n, m)
  BY <1>1 DEF Table!Before, Rank
<1>6. QED
  BY <1>1, <1>3, <1>4, <1>5 DEF Covered, Table!Before, Rank

\* The iterators a step does not name keep what they have.
LEMMA OthersStay ==
  ASSUME TypeOK, NEW o \in Iterators, NEW p \in Iterators, p # o, NEW k, NEW s,
         SeekToFirst(o) \/ SeekToLast(o) \/ IterNext(o) \/ IterPrev(o) \/ Seek(o, k, s)
  PROVE  pos'[p] = pos[p] /\ seen'[p] = seen[p] /\ from'[p] = from[p]
<1>1. o \in Owners /\ p \in Owners
  BY DEF Owners
<1>2. PICK n \in 1..Len(entries) \cup {NULL} : pos' = [pos EXCEPT ![o] = n]
  BY <1>1, Moved DEF SeekToFirst, SeekToLast, IterNext, IterPrev, Seek
<1>3. pos'[p] = pos[p]
  BY <1>1, <1>2 DEF TypeOK
<1>4. seen'[p] = seen[p] /\ from'[p] = from[p]
  BY DEF SeekToFirst, SeekToLast, IterNext, IterPrev, Seek, NoScan, TypeOK
<1>5. QED
  BY <1>3, <1>4

LEMMA IteratorCovers ==
  ASSUME TypeOK, NEW o \in Iterators, NEW k, NEW s, \A p \in Iterators : Covered(p),
         SeekToFirst(o) \/ SeekToLast(o) \/ IterNext(o) \/ IterPrev(o) \/ Seek(o, k, s)
  PROVE  \A p \in Iterators : Covered(p)'
<1>1. TypeOK' /\ UNCHANGED entries
  BY IteratorOK
<1>2. Covered(o)'
  <2>1. CASE SeekToFirst(o)
    BY <2>1, SeekToFirstCovers
  <2>2. CASE IterNext(o)
    BY <2>2, IterNextCovers
  <2>3. CASE SeekToLast(o) \/ IterPrev(o) \/ Seek(o, k, s)
    <3>1. from'[o] = 0
      BY <2>3 DEF SeekToLast, IterPrev, Seek, NoScan, TypeOK
    <3>2. QED
      BY <3>1 DEF Covered
  <2>4. QED
    BY <2>1, <2>2, <2>3
<1>3. ASSUME NEW p \in Iterators, p # o PROVE Covered(p)'
  <2>1. pos'[p] = pos[p] /\ seen'[p] = seen[p] /\ from'[p] = from[p]
    BY <1>3, OthersStay
  <2>2. Len(entries) <= Len(entries')
    BY <1>1, EntriesOK
  <2>3. QED
    BY <1>1, <2>1, <2>2, CoveredStays
<1>4. QED
  BY <1>2, <1>3

LEMMA NextCovers ==
  ASSUME TypeOK, \A p \in Iterators : Covered(p), [Next]_vars
  PROVE  \A p \in Iterators : Covered(p)'
<1>1. TypeOK'
  BY NextTypeOK
<1>2. ASSUME UNCHANGED <<seen, from>>, \A p \in Iterators : pos'[p] = pos[p],
             \A n \in 1..Len(entries) : entries'[n] = entries[n], Len(entries) <= Len(entries')
      PROVE  \A p \in Iterators : Covered(p)'
  BY <1>1, <1>2, CoveredStays
<1>3. ASSUME NEW s \in Sequence, NEW t \in {kTypeDeletion, kTypeValue},
             NEW k \in UserKeys, NEW v \in Values, Add(s, t, k, v)
      PROVE  \A p \in Iterators : Covered(p)'
  <2>1. /\ Len(entries') = Len(entries) + 1 /\ UNCHANGED <<pos, seen, from>>
        /\ \A n \in 1..Len(entries) : entries'[n] = entries[n]
    BY <1>3, AddOK
  <2>2. Len(entries) <= Len(entries')
    BY <2>1, EntriesOK
  <2>3. QED
    BY <1>2, <2>1, <2>2
<1>4. Len(entries) <= Len(entries)
  BY EntriesOK
<1>5. ASSUME NEW g \in Getters,
             GetReturn(g) \/ \E k \in UserKeys, s \in Sequence : GetSeek(g, k, s)
      PROVE  \A p \in Iterators : Covered(p)'
  <2>1. UNCHANGED <<entries, seen, from>> /\ g \in Owners
    BY <1>5 DEF GetReturn, GetSeek, Owners
  <2>2. \E n \in 1..Len(entries) \cup {NULL} : pos' = [pos EXCEPT ![g] = n]
    BY <1>5, <2>1, Moved DEF GetReturn, GetSeek
  <2>3. \A p \in Iterators : pos'[p] = pos[p]
    BY <2>1, <2>2 DEF TypeOK, Owners
  <2>4. QED
    BY <1>2, <1>4, <2>1, <2>3
<1>6. CASE UNCHANGED vars
  BY <1>2, <1>4, <1>6 DEF vars
<1>7. ASSUME NEW o \in Iterators,
             SeekToFirst(o) \/ SeekToLast(o) \/ IterNext(o) \/ IterPrev(o)
      PROVE  \A p \in Iterators : Covered(p)'
  BY <1>7, IteratorCovers
<1>8. ASSUME NEW o \in Iterators, NEW k \in UserKeys, NEW s \in Sequence, Seek(o, k, s)
      PROVE  \A p \in Iterators : Covered(p)'
  BY <1>8, IteratorCovers
<1>9. CASE Next
  BY <1>3, <1>5, <1>7, <1>8, <1>9 DEF Next
<1>10. QED
  BY <1>6, <1>9

\* A forward scan misses nothing that was there when it began, whatever is
\* added meanwhile and wherever.
THEOREM ScansCover == Spec => []ScanComplete
<1> DEFINE All == \A p \in Iterators : Covered(p)
<1>1. Init => All
  BY DEF Init, Covered
<1>2. TypeOK /\ All /\ [Next]_vars => All'
  BY NextCovers
<1>3. All => ScanComplete
  BY DEF Covered, ScanComplete
<1> HIDE DEF All
<1>4. QED
  BY <1>1, <1>2, <1>3, TypeCorrect, PTL DEF Spec

-----------------------------------------------------------------------------
(* Snapshots.                                                              *)

LEMMA RankLe ==
  ASSUME NEW a, NEW b, a.key \in Int, b.key \in Int, a.tag \in Tags, b.tag \in Tags
  PROVE  /\ Rank(a) \in Int /\ Rank(b) \in Int
         /\ Rank(a) <= Rank(b) <=> a.key < b.key \/ (a.key = b.key /\ a.tag >= b.tag)
<1>1. \A key \in Int, tag \in Tags : key * TagLimit + (TagLimit - 1 - tag) \in Int
  BY TagsOK DEF Tags
<1>2. QED
  BY <1>1, RankOrder DEF Rank

LEMMA LeastNatural ==
  ASSUME NEW T, T \subseteq Nat, T # {}
  PROVE  \E x \in T : \A y \in T : x <= y
<1>1. PICK x \in T : \A y \in T : ~(<<y, x>> \in OpToRel(<, Nat))
  BY NatLessThanWellFounded, WFMin
<1>2. ASSUME NEW y \in T PROVE x <= y
  <2>1. ~(y < x)
    BY <1>1 DEF OpToRel
  <2>2. QED
    BY <2>1
<1>3. QED
  BY <1>2

\* The entries es, sought for lk: what lies at or behind it, and its first.
Behind(es, lk) == {m \in 1..Len(es) : Rank(es[m]) >= Rank(lk)}

Precedes(es, a, b) ==
  Rank(es[a]) < Rank(es[b]) \/ (Rank(es[a]) = Rank(es[b]) /\ a > b)

IsStop(es, lk, n) ==
  IF Behind(es, lk) = {} THEN n = NULL
  ELSE n \in Behind(es, lk) /\ \A m \in Behind(es, lk) : m = n \/ Precedes(es, n, m)

Answer(es, lk, n) ==
  IF n # NULL /\ es[n].key = lk.key
    THEN IF TypeOf(es[n].tag) = kTypeValue THEN es[n].value ELSE Deleted
    ELSE Absent

LEMMA RanksOK ==
  ASSUME NEW es \in Seq(Entry), NEW k \in UserKeys, NEW s \in Sequence,
         NEW m \in 1..Len(es)
  PROVE  /\ es[m].key \in Int /\ es[m].tag \in Tags /\ Rank(es[m]) \in Int
         /\ Rank(LookupKey(k, s)) \in Int
         /\ LookupKey(k, s).key = k /\ k \in Int /\ LookupKey(k, s).tag = 2 * s + 1
         /\ LookupKey(k, s).tag \in Tags
<1>1. es[m] \in Entry
  BY ElementOfSeq
<1>2. es[m].key \in Int /\ es[m].tag \in Tags
  BY <1>1 DEF Entry, Tags
<1>3. /\ LookupKey(k, s).key = k /\ k \in Int /\ LookupKey(k, s).tag = 2 * s + 1
      /\ LookupKey(k, s).tag \in Tags
  <2>1. /\ LookupKey(k, s).key = k /\ k \in Int
        /\ LookupKey(k, s).tag = PackSequenceAndType(s, kTypeValue)
        /\ LookupKey(k, s).tag \in Tags
    BY TagsOK DEF LookupKey, kValueTypeForSeek
  <2>2. PackSequenceAndType(s, kTypeValue) = 2 * s + 1
    BY DEF PackSequenceAndType, kTypeValue
  <2>3. QED
    BY <2>1, <2>2
<1> DEFINE lk == LookupKey(k, s)
           e == es[m]
<1>4. e.key \in Int /\ lk.key \in Int /\ e.tag \in Tags /\ lk.tag \in Tags
  BY <1>2, <1>3
<1> HIDE DEF lk, e
<1>5. Rank(e) \in Int /\ Rank(lk) \in Int
  BY <1>4, RankLe
<1>6. QED
  BY <1>2, <1>3, <1>5 DEF lk, e

\* A search comes to a stop, and to one only.
LEMMA StopUnique ==
  ASSUME NEW es \in Seq(Entry), NEW k \in UserKeys, NEW s \in Sequence,
         NEW n, NEW m, IsStop(es, LookupKey(k, s), n), IsStop(es, LookupKey(k, s), m)
  PROVE  n = m
<1> DEFINE B == Behind(es, LookupKey(k, s))
<1>1. CASE B = {}
  BY <1>1 DEF IsStop
<1>2. CASE B # {}
  <2>1. /\ n \in B /\ m \in B
        /\ m = n \/ Precedes(es, n, m)
        /\ n = m \/ Precedes(es, m, n)
    BY <1>2 DEF IsStop
  <2>2. n \in 1..Len(es) /\ m \in 1..Len(es)
    BY <2>1 DEF Behind
  <2>3. Rank(es[n]) \in Int /\ Rank(es[m]) \in Int
    BY <2>2, RanksOK
  <2>4. QED
    BY <2>1, <2>2, <2>3 DEF Precedes
<1>3. QED
  BY <1>1, <1>2

LEMMA StopExists ==
  ASSUME NEW es \in Seq(Entry), NEW k \in UserKeys, NEW s \in Sequence
  PROVE  \E n \in 1..Len(es) \cup {NULL} : IsStop(es, LookupKey(k, s), n)
<1> DEFINE lk == LookupKey(k, s)
           B == Behind(es, lk)
           gaps == {Rank(es[m]) - Rank(lk) : m \in B}
<1>1. CASE B = {}
  BY <1>1 DEF IsStop
<1>2. CASE B # {}
  <2>1. \A m \in B : m \in 1..Len(es) /\ Rank(es[m]) \in Int /\ Rank(lk) \in Int
                     /\ Rank(es[m]) >= Rank(lk)
    BY RanksOK DEF Behind
  <2> HIDE DEF B, lk
  <2>2. gaps \subseteq Nat /\ gaps # {}
    BY <1>2, <2>1
  <2>3. PICK d \in gaps : \A x \in gaps : d <= x
    <3> HIDE DEF gaps
    <3>1. QED
      BY <2>2, LeastNatural
  <2>4. PICK a \in B : d = Rank(es[a]) - Rank(lk)
    OBVIOUS
  <2>5. \A m \in B : Rank(es[a]) <= Rank(es[m])
    <3> SUFFICES ASSUME NEW m \in B PROVE Rank(es[a]) <= Rank(es[m])
      OBVIOUS
    <3>1. Rank(es[a]) - Rank(lk) <= Rank(es[m]) - Rank(lk)
      BY <2>3, <2>4
    <3>2. QED
      BY <2>1, <3>1
  <2> DEFINE back == {Len(es) - m : m \in {j \in B : Rank(es[j]) = Rank(es[a])}}
  <2>6. back \subseteq Nat /\ back # {}
    <3>1. Len(es) \in Nat
      BY LenProperties
    <3>2. Len(es) - a \in back
      OBVIOUS
    <3>3. QED
      BY <2>1, <3>1, <3>2
  <2>7. PICK b \in back : \A x \in back : b <= x
    <3> HIDE DEF back
    <3>1. QED
      BY <2>6, LeastNatural
  <2>8. PICK n \in B : b = Len(es) - n /\ Rank(es[n]) = Rank(es[a])
    OBVIOUS
  <2>9. ASSUME NEW m \in B PROVE m = n \/ Precedes(es, n, m)
    <3>1. Rank(es[n]) <= Rank(es[m])
      BY <2>5, <2>8
    <3>2. CASE Rank(es[n]) = Rank(es[m])
      <4>1. Len(es) - m \in back
        BY <2>8, <3>2
      <4>2. Len(es) - n <= Len(es) - m
        BY <2>7, <2>8, <4>1
      <4>3. m <= n
        BY <2>1, <4>2, LenProperties
      <4>4. QED
        BY <2>1, <3>2, <4>3 DEF Precedes
    <3>3. CASE Rank(es[n]) # Rank(es[m])
      BY <2>1, <3>1, <3>3 DEF Precedes
    <3>4. QED
      BY <3>2, <3>3
  <2>10. IsStop(es, LookupKey(k, s), n) /\ n \in 1..Len(es)
    BY <1>2, <2>1, <2>8, <2>9 DEF IsStop, B, lk
  <2>11. QED
    BY <2>10
<1>3. QED
  BY <1>1, <1>2

LEMMA Through ==
  ASSUME NEW es, NEW a, NEW b, NEW c, a > c,
         Rank(es[a]) \in Int, Rank(es[b]) \in Int, Rank(es[c]) \in Int,
         Rank(es[a]) <= Rank(es[b]), c = b \/ Precedes(es, b, c)
  PROVE  Precedes(es, a, c)
<1>1. Rank(es[b]) <= Rank(es[c])
  BY DEF Precedes
<1>2. QED
  BY <1>1 DEF Precedes

\* A newer entry does not change what a search that cannot see it answers.
Newer(es, ds, e, s) ==
  es \in Seq(Entry) /\ e \in Entry /\ ds = Append(es, e) /\ SequenceOf(e.tag) > s

Kept(es, ds, k, s) ==
  \A n \in 1..Len(es) \cup {NULL} : \A m :
    IsStop(es, LookupKey(k, s), n) /\ IsStop(ds, LookupKey(k, s), m)
      => Answer(ds, LookupKey(k, s), m) = Answer(es, LookupKey(k, s), n)

LEMMA AnswerKept ==
  ASSUME NEW es, NEW ds, NEW e, NEW k \in UserKeys, NEW s \in Sequence,
         Newer(es, ds, e, s)
  PROVE  Kept(es, ds, k, s)
<1> SUFFICES ASSUME NEW n \in 1..Len(es) \cup {NULL}, NEW m,
                    IsStop(es, LookupKey(k, s), n), IsStop(ds, LookupKey(k, s), m)
             PROVE  Answer(ds, LookupKey(k, s), m) = Answer(es, LookupKey(k, s), n)
  BY DEF Kept
<1>0. es \in Seq(Entry) /\ e \in Entry /\ ds = Append(es, e) /\ SequenceOf(e.tag) > s
  BY DEF Newer
<1> DEFINE lk == LookupKey(k, s)
           l == Len(es)
           B == Behind(es, lk)
           D == Behind(ds, lk)
<1>1. /\ ds \in Seq(Entry) /\ l \in Nat /\ Len(ds) = l + 1 /\ ds[l + 1] = e
      /\ \A i \in 1..l : ds[i] = es[i]
  BY <1>0, AppendProperties, LenProperties
<1>2. /\ \A i \in 1..l + 1 : Rank(ds[i]) \in Int /\ ds[i].key \in Int /\ ds[i].tag \in Tags
      /\ lk.key = k /\ k \in Int /\ lk.tag = 2 * s + 1 /\ Rank(lk) \in Int /\ lk.tag \in Tags
  <2>1. \A i \in 1..l + 1 : i \in 1..Len(ds)
    BY <1>1
  <2>2. l + 1 \in 1..Len(ds)
    BY <1>1
  <2>3. ASSUME NEW i \in 1..l + 1
        PROVE  Rank(ds[i]) \in Int /\ ds[i].key \in Int /\ ds[i].tag \in Tags
    BY <1>0, <1>1, <2>1, RanksOK
  <2>4. /\ lk.key = k /\ k \in Int /\ lk.tag = 2 * s + 1 /\ Rank(lk) \in Int
        /\ lk.tag \in Tags
    BY <1>0, <1>1, <2>2, RanksOK
  <2>5. QED
    BY <2>3, <2>4
<1>3. l + 1 \in D <=> k < e.key
  <2>1. l + 1 \in D <=> Rank(lk) <= Rank(e)
    BY <1>1, <1>2 DEF Behind
  <2>2. e.key \in Int /\ e.tag \in Tags
    BY <1>1, <1>2
  <2>3. Rank(lk) <= Rank(e) <=> k < e.key \/ (k = e.key /\ lk.tag >= e.tag)
    <3> HIDE DEF lk
    <3>1. QED
      BY <1>2, <2>2, RankLe
  <2>4. ~(lk.tag >= e.tag)
    <3>1. e.tag \in Nat /\ s \in Nat
      BY <2>2, TagsOK DEF Tags, Sequence
    <3>2. \A tag \in Nat : 2 * s + 1 >= tag => tag \div 2 <= s
      BY <3>1
    <3>3. e.tag \div 2 \in Nat
      BY <3>1
    <3>4. QED
      BY <1>0, <1>2, <3>1, <3>2, <3>3 DEF SequenceOf
  <2>5. QED
    BY <2>1, <2>3, <2>4
<1>4. \A i \in 1..l : i \in D <=> i \in B
  BY <1>1 DEF Behind
<1>5. D \subseteq 1..l + 1 /\ B \subseteq 1..l
  BY <1>1 DEF Behind
<1>6. \A i \in 1..l + 1 : i = l + 1 \/ i \in 1..l
  BY <1>1
<1>7. \A i, j \in 1..l : Precedes(ds, i, j) <=> Precedes(es, i, j)
  BY <1>1 DEF Precedes
<1>8. NULL \notin 1..l + 1
  BY <1>1
<1>9. \A i \in 1..l \cup {NULL} : Answer(ds, lk, i) = Answer(es, lk, i)
  BY <1>1 DEF Answer
<1>10. /\ n = NULL <=> B = {}
       /\ n # NULL => n \in B /\ \A j \in B : j = n \/ Precedes(es, n, j)
  BY <1>5, <1>8 DEF IsStop
<1> DEFINE I == 1..l
<1>11. /\ B \subseteq I /\ D \subseteq I \cup {l + 1} /\ \A j \in I : j \in D <=> j \in B
       /\ \A i, j \in I : Precedes(ds, i, j) <=> Precedes(es, i, j)
  BY <1>4, <1>5, <1>6, <1>7
<1> HIDE DEF lk, l, B, D, I
<1>12. CASE l + 1 \notin D
  <2>1. D = B
    BY <1>4, <1>5, <1>12, <1>6
  <2>2. IsStop(ds, lk, n)
    <3>1. CASE B = {}
      BY <1>10, <2>1, <3>1 DEF IsStop, D
    <3>2. CASE B # {}
      <4>1. n \in B /\ n \in I /\ \A j \in B : j = n \/ Precedes(es, n, j)
        BY <1>10, <1>11, <3>2
      <4>2. \A j \in B : j = n \/ Precedes(ds, n, j)
        BY <1>11, <4>1
      <4>3. QED
        BY <2>1, <3>2, <4>1, <4>2 DEF IsStop, D
    <3>3. QED
      BY <3>1, <3>2
  <2>3. m = n
    BY <1>0, <1>1, <2>2, StopUnique DEF lk
  <2>4. QED
    BY <1>9, <2>3 DEF lk, l
<1>13. CASE l + 1 \in D
  <2>1. k < e.key
    BY <1>3, <1>13
  <2>2. Answer(ds, lk, l + 1) = Absent
    BY <1>1, <1>2, <2>1 DEF Answer
  <2>3. \A j \in D : j = l + 1 \/ j \in B
    BY <1>4, <1>5, <1>6
  <2>4. CASE n # NULL /\ Precedes(ds, n, l + 1)
    <3>1. n \in D /\ \A j \in D : j = n \/ Precedes(ds, n, j)
      <4>1. n \in B /\ n \in I /\ n \in D /\ \A j \in B : j = n \/ Precedes(es, n, j)
        BY <1>10, <1>11, <2>4
      <4>2. \A j \in B : j = n \/ Precedes(ds, n, j)
        BY <1>11, <4>1
      <4>3. QED
        BY <2>3, <2>4, <4>1, <4>2
    <3>2. IsStop(ds, lk, n)
      BY <3>1 DEF IsStop, D
    <3>3. m = n
      BY <1>0, <1>1, <3>2, StopUnique DEF lk
    <3>4. QED
      BY <1>9, <3>3 DEF lk, l
  <2>5. CASE n # NULL /\ ~Precedes(ds, n, l + 1)
    <3>1. n \in 1..l /\ n \in 1..l + 1 /\ l + 1 \in 1..l + 1 /\ l + 1 > n
      BY <1>1, <1>5, <1>10, <2>5
    <3>2. Rank(ds[l + 1]) <= Rank(ds[n])
      <4>1. Rank(ds[n]) \in Int /\ Rank(ds[l + 1]) \in Int
        BY <1>2, <3>1
      <4>2. ~(Rank(ds[n]) < Rank(ds[l + 1]))
        BY <2>5 DEF Precedes
      <4>3. \A x, y \in Int : ~(x < y) => y <= x
        OBVIOUS
      <4>4. QED
        BY <4>1, <4>2, <4>3
    <3>3. ASSUME NEW j \in D PROVE j = l + 1 \/ Precedes(ds, l + 1, j)
      <4>1. CASE j \in B
        <5>1. j \in 1..l /\ j \in 1..l + 1 /\ l + 1 > j
          BY <1>1, <1>5, <4>1
        <5>2. j = n \/ Precedes(ds, n, j)
          BY <1>7, <1>10, <2>5, <3>1, <4>1, <5>1
        <5>3. /\ Rank(ds[n]) \in Int /\ Rank(ds[l + 1]) \in Int /\ Rank(ds[j]) \in Int
          BY <1>2, <3>1, <5>1
        <5>4. QED
          BY <3>2, <5>1, <5>2, <5>3, Through
      <4>2. QED
        BY <2>3, <4>1
    <3>4. IsStop(ds, lk, l + 1)
      BY <1>13, <3>3 DEF IsStop, D
    <3>5. m = l + 1
      BY <1>0, <1>1, <3>4, StopUnique DEF lk
    <3>6. k < ds[n].key
      <4>1. ds[l + 1].key < ds[n].key \/ ds[l + 1].key = ds[n].key
        BY <1>2, <3>1, <3>2, RankLe
      <4>2. QED
        BY <1>1, <1>2, <2>1, <3>1, <4>1
    <3>7. Answer(es, lk, n) = Absent
      BY <1>1, <1>2, <3>1, <3>6 DEF Answer
    <3>8. QED
      BY <2>2, <3>5, <3>7 DEF lk
  <2>6. CASE n = NULL
    <3>1. \A j \in D : j = l + 1
      BY <1>10, <2>3, <2>6
    <3>2. IsStop(ds, lk, l + 1)
      BY <1>13, <3>1 DEF IsStop, D
    <3>3. m = l + 1
      BY <1>0, <1>1, <3>2, StopUnique DEF lk
    <3>4. QED
      BY <2>2, <2>6, <3>3 DEF Answer, lk
  <2>7. QED
    BY <2>4, <2>5, <2>6
<1>14. QED
  BY <1>12, <1>13

\* GetNow in terms of the entries, before a step and after it.
LEMMA NowIsAnswer ==
  ASSUME TypeOK, NEW k \in UserKeys, NEW s \in Sequence,
         NEW n \in 1..Len(entries) \cup {NULL}, IsStop(entries, LookupKey(k, s), n)
  PROVE  GetNow(k, s) = Answer(entries, LookupKey(k, s), n)
<1> DEFINE lk == LookupKey(k, s)
           S == {m \in Table!Items : Rank(entries[m]) >= Rank(lk)}
           A == Table!Items \cup {NULL}
<1>1. entries \in Seq(Entry) /\ Table!Items = 1..Len(entries)
  BY EntriesOK DEF TypeOK
<1>2. S = Behind(entries, lk)
  BY <1>1 DEF Behind
<1>3. \A a, b \in 1..Len(entries) : Table!Before(a, b) <=> Precedes(entries, a, b)
  BY DEF Table!Before, Precedes
<1>4. S \subseteq 1..Len(entries)
  BY <1>1
<1> HIDE DEF S
<1>5. \A x : Table!IsFirst(x, S) <=> IsStop(entries, lk, x)
  BY <1>2, <1>3, <1>4 DEF Table!IsFirst, IsStop
<1>6. (CHOOSE x \in A : Table!IsFirst(x, S)) = n
  <2>1. n \in A /\ Table!IsFirst(n, S)
    BY <1>1, <1>5
  <2>2. \A x \in A : Table!IsFirst(x, S) => x = n
    BY <1>1, <1>5, StopUnique
  <2> HIDE DEF A
  <2>3. QED
    BY <2>1, <2>2
<1>7. GetNow(k, s) = Outcome(n, lk)
  BY <1>6 DEF GetNow, S
<1>8. QED
  BY <1>7 DEF Outcome, Answer

LEMMA NowIsAnswerPrimed ==
  ASSUME TypeOK', NEW k \in UserKeys, NEW s \in Sequence,
         NEW n \in 1..Len(entries') \cup {NULL}, IsStop(entries', LookupKey(k, s), n)
  PROVE  GetNow(k, s)' = Answer(entries', LookupKey(k, s), n)
<1> DEFINE lk == LookupKey(k, s)
           S == {m \in Table!Items : Rank(entries[m]) >= Rank(LookupKey(k, s))}
           A == Table!Items \cup {NULL}
           c == CHOOSE x \in A : Table!IsFirst(x, S)
<1>1. entries' \in Seq(Entry) /\ Len(entries') \in Nat
  BY LenProperties DEF TypeOK
<1>2. A' = 1..Len(entries') \cup {NULL} /\ Table!Items' = 1..Len(entries')
  BY <1>1 DEF Table!Items
<1>3. S' = Behind(entries', lk)
  BY <1>2 DEF Behind, Rank, LookupKey
<1>4. \A a, b \in 1..Len(entries') : Table!Before(a, b)' <=> Precedes(entries', a, b)
  BY DEF Table!Before, Precedes, Rank
<1>5. Behind(entries', lk) \subseteq 1..Len(entries')
  BY DEF Behind
<1> HIDE DEF S, A
<1>6. \A x : Table!IsFirst(x, S)' <=> IsStop(entries', lk, x)
  BY <1>3, <1>4, <1>5 DEF Table!IsFirst, IsStop
<1>7. c' = n
  <2>1. n \in A' /\ Table!IsFirst(n, S)'
    BY <1>2, <1>6
  <2>2. \A x \in A' : Table!IsFirst(x, S)' => x = n
    BY <1>1, <1>6, StopUnique
  <2>3. QED
    BY <2>1, <2>2
<1> HIDE DEF c
<1>8. GetNow(k, s)' = Outcome(c, lk)'
  BY DEF GetNow, S, A, c
<1>9. QED
  BY <1>7, <1>8 DEF Outcome, Answer, LookupKey

\* Only Add makes the entries more.
LEMMA Grown ==
  ASSUME TypeOK, [Next]_vars, Len(entries') > Len(entries)
  PROVE  \E e \in Entry : entries' = Append(entries, e)
<1>1. CASE UNCHANGED entries
  BY <1>1, EntriesOK
<1>2. ASSUME NEW s \in Sequence, NEW t \in {kTypeDeletion, kTypeValue},
             NEW k \in UserKeys, NEW v \in Values, Add(s, t, k, v)
      PROVE  \E e \in Entry : entries' = Append(entries, e)
  <2> DEFINE e == [key |-> k, tag |-> PackSequenceAndType(s, t), value |-> v]
  <2>1. e \in Entry
    BY TagsOK DEF Entry, Tags
  <2>2. entries' = Append(entries, e)
    BY <1>2 DEF Add
  <2>3. QED
    BY <2>1, <2>2
<1>3. QED
  BY <1>1, <1>2 DEF Next, vars, GetReturn, GetSeek, SeekToFirst, SeekToLast, IterNext,
                    IterPrev, Seek, NoScan

LEMMA SnapshotKept ==
  ASSUME TypeOK, TypeOK', [Next]_vars, NEW k \in UserKeys, NEW s \in Sequence,
         Len(entries') > Len(entries), SequenceOf(entries'[Len(entries')].tag) > s
  PROVE  GetNow(k, s)' = GetNow(k, s)
<1>1. PICK e \in Entry : entries' = Append(entries, e)
  BY Grown
<1>2. entries \in Seq(Entry) /\ entries' \in Seq(Entry)
  BY DEF TypeOK
<1>3. entries'[Len(entries')] = e
  BY <1>1, <1>2, AppendProperties
<1>4. PICK n \in 1..Len(entries) \cup {NULL} : IsStop(entries, LookupKey(k, s), n)
  BY <1>2, StopExists
<1>5. PICK m \in 1..Len(entries') \cup {NULL} : IsStop(entries', LookupKey(k, s), m)
  BY <1>2, StopExists
<1>6. GetNow(k, s) = Answer(entries, LookupKey(k, s), n)
  BY <1>4, NowIsAnswer
<1>7. GetNow(k, s)' = Answer(entries', LookupKey(k, s), m)
  BY <1>5, NowIsAnswerPrimed
<1>8. Answer(entries', LookupKey(k, s), m) = Answer(entries, LookupKey(k, s), n)
  <2>1. Newer(entries, entries', e, s)
    BY <1>1, <1>2, <1>3 DEF Newer
  <2>2. Kept(entries, entries', k, s)
    BY <2>1, AnswerKept
  <2>3. QED
    BY <1>4, <1>5, <2>2 DEF Kept
<1>9. QED
  BY <1>6, <1>7, <1>8

\* Whatever is added with a greater number changes no answer at a snapshot,
\* wherever it falls in the order of the table.
THEOREM SnapshotsStable == Spec => SnapshotStable
<1> DEFINE Stable == \A k \in UserKeys, s \in Sequence :
                       (/\ Len(entries') > Len(entries)
                        /\ SequenceOf(entries'[Len(entries')].tag) > s)
                          => GetNow(k, s)' = GetNow(k, s)
<1>1. TypeOK /\ [Next]_vars => [Stable]_vars
  BY NextTypeOK, SnapshotKept
<1>2. QED
  BY <1>1, TypeCorrect, PTL DEF Spec, SnapshotStable
=============================================================================
