----------------------------- MODULE BlockProofs -----------------------------
(***************************************************************************)
(* The iterator of a block implements a SortedCursor over the entries that *)
(* were added, for every set of keys and bytes, all restart intervals and  *)
(* any damage.                                                             *)
(***************************************************************************)
EXTENDS Block, SequenceTheorems, WellFoundedInduction, TLAPS

-----------------------------------------------------------------------------
(* Prefixes.                                                               *)

LEMMA LeastOfNaturals ==
  ASSUME NEW T, T \subseteq Nat, T # {}
  PROVE  \E x \in T : \A y \in T : x <= y
<1>1. PICK x \in T : \A y \in T : ~(<<y, x>> \in OpToRel(<, Nat))
  BY NatLessThanWellFounded, WFMin
<1>2. ASSUME NEW y \in T PROVE x <= y
  <2>1. ~(y < x)
    BY <1>1 DEF OpToRel
  <2>2. QED
    BY <2>1
<1>3. QED
  BY <1>2

\* What two keys share is a prefix of both.
LEMMA SharedOK ==
  ASSUME NEW a \in Seq(Nat), NEW b \in Seq(Nat)
  PROVE  /\ Shared(a, b) \in 0..Len(a) /\ Shared(a, b) <= Len(b)
         /\ \A m \in 1..Shared(a, b) : a[m] = b[m]
         /\ a = << >> => Shared(a, b) = 0
<1> DEFINE P == {n \in 0..Len(a) : n <= Len(b) /\ \A m \in 1..n : a[m] = b[m]}
           gaps == {Len(a) - n : n \in P}
<1>1. Len(a) \in Nat /\ Len(b) \in Nat
  BY LenProperties
<1>2. gaps \subseteq Nat /\ gaps # {}
  <2>1. 0 \in P
    BY <1>1
  <2>2. QED
    BY <1>1, <2>1
<1>3. PICK d \in gaps : \A x \in gaps : d <= x
  <2> HIDE DEF gaps
  <2>1. QED
    BY <1>2, LeastOfNaturals
<1>4. PICK p \in P : d = Len(a) - p
  OBVIOUS
<1>5. \A n \in P : n <= p
  <2> SUFFICES ASSUME NEW n \in P PROVE n <= p
    OBVIOUS
  <2>1. Len(a) - p <= Len(a) - n
    BY <1>3, <1>4
  <2>2. QED
    BY <1>1, <2>1
<1>6. Shared(a, b) \in P
  <2>1. Shared(a, b) = CHOOSE n \in P : \A m \in P : m <= n
    BY DEF Shared
  <2>2. \E n \in P : \A m \in P : m <= n
    BY <1>5
  <2> HIDE DEF P
  <2>3. QED
    BY <2>1, <2>2
<1>7. QED
  BY <1>1, <1>6

\* A key is completed by the part of it that is not shared.
LEMMA FrontOf ==
  ASSUME NEW S, NEW a \in Seq(S), NEW n \in 0..Len(a)
  PROVE  /\ SubSeq(a, 1, n) \in Seq(S) /\ Len(SubSeq(a, 1, n)) = n
         /\ \A i \in 1..n : SubSeq(a, 1, n)[i] = a[i]
<1>1. Len(a) \in Nat /\ n \in Nat
  BY LenProperties
<1>2. \A i \in 1..n : a[i] \in S
  BY <1>1, ElementOfSeq
<1>3. /\ SubSeq(a, 1, n) \in Seq(S)
      /\ Len(SubSeq(a, 1, n)) = IF 1 <= n THEN n - 1 + 1 ELSE 0
      /\ \A i \in 1..n - 1 + 1 : SubSeq(a, 1, n)[i] = a[1 + i - 1]
  BY <1>1, <1>2, SubSeqProperties
<1>4. /\ 1..n - 1 + 1 = 1..n /\ \A i \in 1..n : 1 + i - 1 = i
      /\ (IF 1 <= n THEN n - 1 + 1 ELSE 0) = n
  BY <1>1
<1>5. QED
  BY <1>3, <1>4

LEMMA RestOf ==
  ASSUME NEW S, NEW b \in Seq(S), NEW n \in 0..Len(b)
  PROVE  /\ SubSeq(b, n + 1, Len(b)) \in Seq(S) /\ Len(SubSeq(b, n + 1, Len(b))) = Len(b) - n
         /\ \A i \in n + 1..Len(b) : SubSeq(b, n + 1, Len(b))[i - n] = b[i]
<1> DEFINE l == Len(b)
           k == n + 1
<1>1. l \in Nat /\ n \in Nat /\ k \in Nat /\ k = n + 1
  BY LenProperties
<1>2. \A i \in k..l : b[i] \in S
  BY <1>1, ElementOfSeq
<1> HIDE DEF l, k
<1>3. /\ SubSeq(b, k, l) \in Seq(S)
      /\ Len(SubSeq(b, k, l)) = IF k <= l THEN l - k + 1 ELSE 0
      /\ \A i \in 1..l - k + 1 : SubSeq(b, k, l)[i] = b[k + i - 1]
  BY <1>1, <1>2, SubSeqProperties
<1>4. n <= l
  BY DEF l
<1>5. (IF k <= l THEN l - k + 1 ELSE 0) = l - n
  BY <1>1, <1>4
<1>6. ASSUME NEW i \in k..l PROVE SubSeq(b, k, l)[i - n] = b[i]
  <2>1. i - n \in 1..l - k + 1 /\ k + (i - n) - 1 = i
    <3>1. i \in Int /\ k <= i /\ i <= l
      BY <1>1
    <3>2. i - n >= 1 /\ i - n <= l - k + 1
      BY <1>1, <3>1
    <3>3. QED
      BY <1>1, <3>1, <3>2
  <2>2. QED
    BY <1>3, <2>1
<1>7. QED
  BY <1>3, <1>5, <1>6 DEF k, l

CompletedBy(a, b, n) == SubSeq(a, 1, n) \o SubSeq(b, n + 1, Len(b))

LEMMA Completed ==
  ASSUME NEW S, NEW a \in Seq(S), NEW b \in Seq(S), NEW n \in 0..Len(a), n <= Len(b),
         \A m \in 1..n : a[m] = b[m]
  PROVE  /\ SubSeq(b, n + 1, Len(b)) \in Seq(S)
         /\ CompletedBy(a, b, n) = b
<1> DEFINE p == SubSeq(a, 1, n)
           q == SubSeq(b, n + 1, Len(b))
<1>1. Len(a) \in Nat /\ Len(b) \in Nat /\ n \in Nat /\ n \in 0..Len(b)
  BY LenProperties
<1>2. p \in Seq(S) /\ Len(p) = n /\ \A i \in 1..n : p[i] = a[i]
  BY FrontOf
<1>3. /\ q \in Seq(S) /\ Len(q) = Len(b) - n
      /\ \A i \in n + 1..Len(b) : q[i - n] = b[i]
  BY <1>1, RestOf
<1> DEFINE r == p \o q
<1> HIDE DEF p, q
<1>4. /\ r \in Seq(S) /\ Len(r) = Len(p) + Len(q)
      /\ \A i \in 1..Len(p) + Len(q) : r[i] = IF i <= Len(p) THEN p[i] ELSE q[i - Len(p)]
  BY <1>2, <1>3, ConcatProperties, Zenon
<1> HIDE DEF r
<1>5. Len(p) + Len(q) = Len(b) /\ Len(p) = n
  BY <1>1, <1>2, <1>3
<1>6. ASSUME NEW i \in 1..Len(b) PROVE r[i] = b[i]
  <2>1. r[i] = IF i <= n THEN p[i] ELSE q[i - n]
    BY <1>4, <1>5, Zenon
  <2>2. CASE i <= n
    BY <1>1, <1>2, <2>1, <2>2
  <2>3. CASE i > n
    <3>1. i \in n + 1..Len(b) /\ ~(i <= n)
      BY <1>1, <2>3
    <3>2. QED
      BY <1>3, <2>1, <3>1
  <2>4. QED
    BY <1>1, <2>2, <2>3
<1>7. r = b
  BY <1>4, <1>5, <1>6, SeqEqual
<1>8. QED
  BY <1>3, <1>7 DEF p, q, r, CompletedBy

LEMMA BytesOK ==
  ASSUME TypeOK, NEW n \in 0..Len(added)
  PROVE  KeyOf(n) \in Seq(Nat)
<1>1. CASE n = 0
  BY <1>1, EmptySeq DEF KeyOf
<1>2. CASE n # 0
  <2>1. n \in 1..Len(added)
    BY <1>2, LenProperties DEF TypeOK
  <2>2. added[n] \in [key : Keys, value : Values]
    BY <2>1, ElementOfSeq DEF TypeOK
  <2>3. QED
    BY <1>2, <2>2, ConstantsAssumption DEF KeyOf
<1>3. QED
  BY <1>1, <1>2

-----------------------------------------------------------------------------
(* Restart points and parsing.                                             *)

LEMMA PointsOK ==
  ASSUME TypeOK, RestartsOK
  PROVE  /\ num_restarts_ \in Nat \ {0} /\ Limit \in Nat
         /\ \A i \in 0..num_restarts_ - 1 : GetRestartPoint(i) \in 0..MaxEntries
         /\ GetRestartPoint(0) = 0
         /\ \A i, j \in 0..num_restarts_ - 1 : i < j => GetRestartPoint(i) < GetRestartPoint(j)
         /\ \A i \in 0..num_restarts_ - 1 : i > 0 => GetRestartPoint(i) < Limit
         /\ \A i \in 0..num_restarts_ - 1 :
              GetRestartPoint(i) < Limit => buffer_[GetRestartPoint(i) + 1].shared = 0
<1>1. num_restarts_ \in Nat \ {0} /\ Limit \in Nat
  BY LenProperties DEF TypeOK, RestartsOK, num_restarts_, Limit
<1>2. \A i \in 0..num_restarts_ - 1 :
        i + 1 \in 1..num_restarts_ /\ GetRestartPoint(i) = restarts_[i + 1]
  BY <1>1 DEF GetRestartPoint
<1>3. ASSUME NEW i \in 0..num_restarts_ - 1
      PROVE  /\ GetRestartPoint(i) \in 0..MaxEntries
             /\ i > 0 => GetRestartPoint(i) < Limit
             /\ GetRestartPoint(i) < Limit => buffer_[GetRestartPoint(i) + 1].shared = 0
  <2>1. restarts_[i + 1] \in 0..MaxEntries
    BY <1>2, ElementOfSeq DEF TypeOK, num_restarts_
  <2>2. i > 0 => i + 1 > 1
    BY <1>1
  <2>3. QED
    BY <1>2, <2>1, <2>2 DEF RestartsOK
<1>4. ASSUME NEW i \in 0..num_restarts_ - 1, NEW j \in 0..num_restarts_ - 1, i < j
      PROVE  GetRestartPoint(i) < GetRestartPoint(j)
  <2>1. i + 1 < j + 1
    BY <1>1, <1>4
  <2>2. QED
    BY <1>2, <2>1 DEF RestartsOK
<1>5. GetRestartPoint(0) = 0
  BY DEF GetRestartPoint, RestartsOK
<1>6. QED
  BY <1>1, <1>3, <1>4, <1>5

LEMMA EntryOK ==
  ASSUME TypeOK, EntriesOK, NEW n \in 1..Limit
  PROVE  /\ n \in 1..Len(added) /\ added[n] \in [key : Keys, value : Values]
         /\ buffer_[n] \in Entry /\ n - 1 \in 0..Len(added)
         /\ KeyOf(n) \in Seq(Nat) /\ KeyOf(n - 1) \in Seq(Nat)
         /\ added[n].key \in Int /\ KeyOf(n) = Bytes[added[n].key]
<1>1. Len(added) \in Nat /\ Len(buffer_) = Len(added) /\ Limit = Len(added)
  BY LenProperties DEF TypeOK, EntriesOK, Limit
<1>2. /\ n \in 1..Len(added) /\ n \in 1..Len(buffer_) /\ n - 1 \in 0..Len(added)
      /\ n \in 0..Len(added) /\ n # 0
  BY <1>1
<1>3. added[n] \in [key : Keys, value : Values] /\ buffer_[n] \in Entry
  BY <1>2, ElementOfSeq DEF TypeOK
<1>4. added[n].key \in Keys
  BY <1>3
<1>5. QED
  BY <1>2, <1>3, <1>4, BytesOK, ConstantsAssumption DEF KeyOf

\* The loop over the restart points stops at one index only.
LEMMA RestartIndexIs ==
  ASSUME TypeOK, RestartsOK, NEW o \in Nat, NEW i \in 0..num_restarts_ - 1,
         NEW r \in i..num_restarts_ - 1,
         \A q \in i + 1..r : GetRestartPoint(q) < o,
         r + 1 < num_restarts_ => GetRestartPoint(r + 1) >= o
  PROVE  RestartIndex(i, o) = r
<1> DEFINE Stops(x) == /\ \A q \in i + 1..x : q < num_restarts_ /\ GetRestartPoint(q) < o
                       /\ x + 1 < num_restarts_ => GetRestartPoint(x + 1) >= o
<1>1. num_restarts_ \in Nat \ {0}
  BY PointsOK
<1>2. r \in i..num_restarts_ /\ Stops(r)
  <2>1. \A q \in i + 1..r : q < num_restarts_
    BY <1>1
  <2>2. QED
    BY <1>1, <2>1
<1>3. ASSUME NEW x \in i..num_restarts_, Stops(x) PROVE x = r
  <2>1. CASE r < x
    <3>1. r + 1 \in i + 1..x
      BY <1>1, <2>1
    <3>2. r + 1 < num_restarts_ /\ GetRestartPoint(r + 1) < o
      BY <1>3, <3>1
    <3>3. GetRestartPoint(r + 1) \in Int /\ GetRestartPoint(r + 1) >= o
      BY <1>1, <3>2, PointsOK
    <3>4. QED
      BY <3>2, <3>3
  <2>2. CASE x < r
    <3>1. x + 1 \in i + 1..r /\ x + 1 < num_restarts_ /\ x + 1 \in 0..num_restarts_ - 1
      BY <1>1, <2>2
    <3>2. GetRestartPoint(x + 1) < o /\ GetRestartPoint(x + 1) >= o
      BY <1>3, <3>1
    <3>3. GetRestartPoint(x + 1) \in Int
      BY <1>1, <3>1, PointsOK
    <3>4. QED
      BY <3>2, <3>3
  <2>3. QED
    BY <1>1, <2>1, <2>2
<1>4. RestartIndex(i, o) = CHOOSE x \in i..num_restarts_ : Stops(x)
  BY DEF RestartIndex
<1> HIDE DEF Stops
<1>5. QED
  BY <1>2, <1>3, <1>4

LEMMA CorruptOK ==
  ASSUME TypeOK, RestartsOK
  PROVE  /\ Corrupt \in Iter /\ Off(Corrupt) /\ Corrupt.status_ = Corruption
<1>1. Limit \in 0..Limit /\ num_restarts_ \in 0..num_restarts_
  BY PointsOK
<1>2. << >> \in Seq(Nat)
  BY EmptySeq
<1>3. QED
  BY <1>1, <1>2 DEF TypeOK, Iter, Corrupt, PastEnd, Off

LEMMA RestartIndexMoves ==
  ASSUME TypeOK, RestartsOK, NEW j \in Iter, AtStart(j) \/ OnEntry(j),
         j.end \in Nat, j.end < Limit
  PROVE  LET r == RestartIndex(j.restart_index_, j.end)
         IN /\ r \in 0..num_restarts_ - 1 /\ GetRestartPoint(r) <= j.end
            /\ r + 1 < num_restarts_ => GetRestartPoint(r + 1) >= j.end
<1> DEFINE i == j.restart_index_
           o == j.end
<1>1. /\ num_restarts_ \in Nat \ {0}
      /\ \A x \in 0..num_restarts_ - 1 : GetRestartPoint(x) \in Int
      /\ \A x, y \in 0..num_restarts_ - 1 : x < y => GetRestartPoint(x) < GetRestartPoint(y)
  BY PointsOK
<1>2. i \in 0..num_restarts_ - 1 /\ o \in Nat
  BY <1>1 DEF AtStart, OnEntry, Iter
<1>3. \A r \in i..num_restarts_ - 1 :
        (/\ \A q \in i + 1..r : GetRestartPoint(q) < o
         /\ r + 1 < num_restarts_ => GetRestartPoint(r + 1) >= o)
        => RestartIndex(i, o) = r
  <2> HIDE DEF i, o
  <2>1. QED
    BY <1>2, RestartIndexIs
<1>4. CASE AtStart(j)
  <2>1. o = GetRestartPoint(i)
    BY <1>4 DEF AtStart
  <2>2. i + 1 < num_restarts_ => GetRestartPoint(i + 1) >= o
    <3> SUFFICES ASSUME i + 1 < num_restarts_ PROVE GetRestartPoint(i + 1) >= o
      OBVIOUS
    <3>1. i + 1 \in 0..num_restarts_ - 1 /\ i < i + 1
      BY <1>1, <1>2
    <3>2. GetRestartPoint(i) < GetRestartPoint(i + 1)
      BY <1>1, <1>2, <3>1
    <3>3. QED
      BY <1>1, <1>2, <2>1, <3>1, <3>2
  <2>3. i \in i..num_restarts_ - 1 /\ \A q \in i + 1..i : GetRestartPoint(q) < o
    BY <1>1, <1>2
  <2>4. RestartIndex(i, o) = i
    BY <1>3, <2>2, <2>3
  <2>5. GetRestartPoint(i) <= o
    BY <1>1, <1>2, <2>1
  <2>6. QED
    BY <1>2, <2>2, <2>4, <2>5
<1>5. CASE OnEntry(j)
  <2>1. /\ j.current_ \in Nat /\ o = j.current_ + 1 /\ GetRestartPoint(i) <= j.current_
        /\ i + 1 < num_restarts_ => GetRestartPoint(i + 1) >= j.current_
    BY <1>5 DEF OnEntry, Iter, Limit
  <2>2. GetRestartPoint(i) <= o
    BY <1>1, <1>2, <2>1
  <2>3. CASE i + 1 < num_restarts_ => GetRestartPoint(i + 1) >= o
    <3>1. i \in i..num_restarts_ - 1 /\ \A q \in i + 1..i : GetRestartPoint(q) < o
      BY <1>1, <1>2
    <3>2. RestartIndex(i, o) = i
      BY <1>3, <2>3, <3>1
    <3>3. QED
      BY <1>2, <2>2, <2>3, <3>2
  <2>4. CASE i + 1 < num_restarts_ /\ ~(GetRestartPoint(i + 1) >= o)
    <3>1. i + 1 \in 0..num_restarts_ - 1 /\ i + 1 \in i..num_restarts_ - 1
      BY <1>1, <1>2, <2>4
    <3>2. GetRestartPoint(i + 1) < o /\ GetRestartPoint(i + 1) <= o
          /\ GetRestartPoint(i + 1) = j.current_
      BY <1>1, <1>2, <2>1, <2>4, <3>1
    <3>3. \A q \in i + 1..i + 1 : GetRestartPoint(q) < o
      <4>1. \A q \in i + 1..i + 1 : q = i + 1
        BY <1>2
      <4>2. QED
        BY <3>2, <4>1
    <3>4. i + 1 + 1 < num_restarts_ => GetRestartPoint(i + 1 + 1) >= o
      <4> SUFFICES ASSUME i + 1 + 1 < num_restarts_ PROVE GetRestartPoint(i + 1 + 1) >= o
        OBVIOUS
      <4>1. i + 1 + 1 \in 0..num_restarts_ - 1 /\ i + 1 < i + 1 + 1
        BY <1>1, <1>2
      <4>2. GetRestartPoint(i + 1) < GetRestartPoint(i + 1 + 1)
        BY <1>1, <3>1, <4>1
      <4>3. GetRestartPoint(i + 1 + 1) \in Int
        BY <1>1, <4>1
      <4>4. QED
        BY <2>1, <3>2, <4>2, <4>3
    <3>5. RestartIndex(i, o) = i + 1
      BY <1>3, <3>1, <3>3, <3>4
    <3>6. QED
      BY <3>1, <3>2, <3>4, <3>5
  <2>5. QED
    BY <2>3, <2>4
<1>6. QED
  BY <1>4, <1>5

\* An iterator at a restart point or on an entry moves to the entry at end,
\* unless there is none or it is damaged.
Moved(j, k) ==
  /\ k \in Iter
  /\ j.end >= Limit => Off(k) /\ k.status_ = j.status_
  /\ j.end < Limit /\ j.end \in bad => k = Corrupt
  /\ j.end < Limit /\ j.end \notin bad =>
       OnEntry(k) /\ k.current_ = j.end /\ k.end = j.end + 1 /\ k.status_ = j.status_

LEMMA Parsing ==
  ASSUME TypeOK, EntriesOK, RestartsOK, NEW j \in Iter, AtStart(j) \/ OnEntry(j)
  PROVE  j.end \in 0..Limit /\ Moved(j, ParseNextKey(j))
<1> DEFINE o == j.end
           i == j.restart_index_
<1>1. /\ num_restarts_ \in Nat \ {0} /\ Limit \in Nat /\ MaxEntries \in Nat
      /\ \A x \in 0..num_restarts_ - 1 : GetRestartPoint(x) \in 0..MaxEntries
      /\ \A x \in 0..num_restarts_ - 1 : x > 0 => GetRestartPoint(x) < Limit
      /\ GetRestartPoint(0) = 0
  BY PointsOK, ConstantsAssumption
<1>2. i \in 0..num_restarts_ - 1 /\ j.current_ \in 0..Limit /\ j.key_ \in Seq(Nat)
      /\ j.value_ \in Values \cup {NULL} /\ j.status_ \in {OK, Corruption}
  BY <1>1 DEF AtStart, OnEntry, Iter
<1>3. o \in 0..Limit
  <2>1. CASE AtStart(j)
    <3>1. GetRestartPoint(i) \in 0..MaxEntries /\ (i > 0 => GetRestartPoint(i) < Limit)
      BY <1>1, <1>2
    <3>2. o = GetRestartPoint(i) /\ (i = 0 => GetRestartPoint(i) = 0)
      BY <1>1, <2>1 DEF AtStart
    <3>3. QED
      BY <1>1, <1>2, <3>1, <3>2
  <2>2. CASE OnEntry(j)
    BY <1>1, <1>2, <2>2 DEF OnEntry
  <2>3. QED
    BY <2>1, <2>2
<1>4. CASE o >= Limit
  <2>1. ParseNextKey(j) = [j EXCEPT !.current_ = Limit, !.restart_index_ = num_restarts_]
    BY <1>4 DEF ParseNextKey
  <2>2. Limit \in 0..Limit /\ num_restarts_ \in 0..num_restarts_
    BY <1>1
  <2>3. ~(j.end < Limit)
    BY <1>1, <1>3, <1>4
  <2>4. j.end # NULL /\ j.key_ = KeyOf(j.end)
    <3>1. j.end \in Int
      BY <1>1, <1>3
    <3>2. CASE AtStart(j)
      <4>1. i > 0 => GetRestartPoint(i) < Limit
        BY <1>1, <1>2
      <4>2. i = 0 /\ o = 0
        BY <1>1, <1>2, <1>3, <1>4, <3>2, <4>1 DEF AtStart
      <4>3. QED
        BY <3>1, <3>2, <4>2, ConstantsAssumption DEF AtStart, KeyOf
    <3>3. CASE OnEntry(j)
      BY <3>1, <3>3, ConstantsAssumption DEF OnEntry
    <3>4. QED
      BY <3>2, <3>3
  <2>5. QED
    BY <1>3, <2>1, <2>2, <2>3, <2>4 DEF Moved, Off, Iter
<1>5. CASE o < Limit /\ o \in bad
  <2>1. DecodeEntry(o) = NULL /\ ~(o >= Limit)
    BY <1>1, <1>3, <1>5 DEF DecodeEntry
  <2>2. ParseNextKey(j) = Corrupt
    BY <2>1 DEF ParseNextKey
  <2>3. QED
    BY <1>3, <1>5, <2>1, <2>2, CorruptOK DEF Moved
<1>6. CASE o < Limit /\ o \notin bad
  <2> DEFINE e == buffer_[o + 1]
             n == o + 1
  <2>1. n \in 1..Limit /\ n - 1 = o /\ n # 0 /\ o \in Nat /\ n \in 0..Limit /\ ~(o >= Limit)
    BY <1>1, <1>3, <1>6
  <2>2. /\ e \in Entry /\ KeyOf(n) \in Seq(Nat) /\ KeyOf(o) \in Seq(Nat)
        /\ added[n] \in [key : Keys, value : Values] /\ n \in 1..Len(added)
    BY <2>1, EntryOK
  <2>3. /\ e.value = added[n].value /\ e.shared <= Len(KeyOf(o))
        /\ SubSeq(KeyOf(o), 1, e.shared) \o e.delta = KeyOf(n)
    BY <2>1, <2>2 DEF EntriesOK
  <2>4. e.shared \in Nat /\ e.delta \in Seq(Nat) /\ e.value \in Values
    BY <2>2 DEF Entry
  <2>5. e.shared <= Len(j.key_) /\ SubSeq(j.key_, 1, e.shared) = SubSeq(KeyOf(o), 1, e.shared)
    <3>1. CASE AtStart(j)
      <4>1. e.shared = 0
        BY <1>2, <1>6, <3>1, PointsOK DEF AtStart
      <4>2. SubSeq(j.key_, 1, e.shared) = << >> /\ SubSeq(KeyOf(o), 1, e.shared) = << >>
        BY <4>1, SubSeqEmpty
      <4>3. Len(j.key_) \in Nat
        BY <1>2, LenProperties
      <4>4. QED
        BY <4>1, <4>2, <4>3
    <3>2. CASE OnEntry(j)
      BY <2>3, <3>2 DEF OnEntry
    <3>3. QED
      BY <3>1, <3>2
  <2>6. e # NULL
    BY <2>2, ConstantsAssumption DEF Entry
  <2>7. /\ RestartIndex(i, o) \in 0..num_restarts_ - 1
        /\ GetRestartPoint(RestartIndex(i, o)) <= o
        /\ RestartIndex(i, o) + 1 < num_restarts_ => GetRestartPoint(RestartIndex(i, o) + 1) >= o
    BY <1>6, <2>1, RestartIndexMoves
  <2>8. /\ DecodeEntry(o) = e
        /\ ParseNextKey(j) = [j EXCEPT !.current_ = o, !.key_ = KeyOf(n), !.value_ = e.value,
                                       !.end = n, !.restart_index_ = RestartIndex(i, o)]
    <3>1. DecodeEntry(o) = e
      BY <1>6 DEF DecodeEntry
    <3>2. ~(Len(j.key_) < e.shared)
      BY <1>2, <2>4, <2>5, LenProperties
    <3>3. SubSeq(j.key_, 1, e.shared) \o e.delta = KeyOf(n)
      BY <2>3, <2>5
    <3> HIDE DEF e
    <3>4. QED
      BY <2>1, <2>6, <3>1, <3>2, <3>3 DEF ParseNextKey
  <2> HIDE DEF e
  <2> DEFINE k == ParseNextKey(j)
  <2>9. /\ k.current_ = o /\ k.key_ = KeyOf(n) /\ k.value_ = added[n].value /\ k.end = n
        /\ k.restart_index_ = RestartIndex(i, o) /\ k.status_ = j.status_
        /\ k \in Iter
    <3>1. e.value \in Values \cup {NULL} /\ o \in 0..Limit /\ n \in 0..Limit \cup {NULL}
          /\ RestartIndex(i, o) \in 0..num_restarts_
      BY <1>1, <1>3, <2>1, <2>4, <2>7
    <3>2. QED
      BY <2>2, <2>3, <2>8, <3>1 DEF Iter
  <2> HIDE DEF k
  <2>10. OnEntry(k)
    BY <1>1, <1>6, <2>1, <2>7, <2>9 DEF OnEntry
  <2>11. QED
    BY <1>3, <1>6, <2>1, <2>9, <2>10 DEF Moved, k
<1>7. QED
  BY <1>1, <1>3, <1>4, <1>5, <1>6

\* An iterator that stands behind the last restart point is revived by an entry
\* at end, if its key_ is long enough.
RevivedBy(j, k) ==
  /\ k \in Iter
  /\ j.end >= Limit => Off(k) /\ k.status_ = j.status_
  /\ j.end < Limit =>
       k = Corrupt \/ (Revived(k) /\ k.end = j.end + 1 /\ k.status_ = j.status_)
  /\ j.end < Limit /\ j.end \notin bad /\ j.key_ = KeyOf(j.end) => k # Corrupt

LEMMA Reviving ==
  ASSUME TypeOK, EntriesOK, RestartsOK, NEW j \in Iter, j.end \in 0..Limit,
         j.restart_index_ = num_restarts_,
         j.key_ = KeyOf(j.end) \/ (j.key_ = << >> /\ j.end < Limit)
  PROVE  RevivedBy(j, ParseNextKey(j))
<1> DEFINE o == j.end
<1>1. /\ num_restarts_ \in Nat \ {0} /\ Limit \in Nat /\ o \in Nat /\ o # NULL
      /\ j.current_ \in 0..Limit /\ j.key_ \in Seq(Nat)
      /\ j.value_ \in Values \cup {NULL} /\ j.status_ \in {OK, Corruption}
  BY PointsOK, ConstantsAssumption DEF Iter
<1>2. Corrupt \in Iter /\ Corrupt.current_ = Limit
  BY CorruptOK DEF Off
<1>3. CASE o >= Limit
  <2>1. ParseNextKey(j) = [j EXCEPT !.current_ = Limit, !.restart_index_ = num_restarts_]
    BY <1>3 DEF ParseNextKey
  <2>2. Limit \in 0..Limit /\ num_restarts_ \in 0..num_restarts_ /\ ~(o < Limit)
    BY <1>1, <1>3
  <2>3. j.key_ = KeyOf(j.end)
    BY <2>2
  <2>4. QED
    BY <1>1, <2>1, <2>2, <2>3 DEF RevivedBy, Off, Iter
<1>4. CASE o < Limit /\ o \in bad
  <2>1. DecodeEntry(o) = NULL /\ ~(o >= Limit)
    BY <1>1, <1>4 DEF DecodeEntry
  <2>2. ParseNextKey(j) = Corrupt
    BY <2>1 DEF ParseNextKey
  <2>3. QED
    BY <1>2, <1>4, <2>1, <2>2 DEF RevivedBy
<1>5. CASE o < Limit /\ o \notin bad
  <2> DEFINE e == buffer_[o + 1]
             n == o + 1
  <2>1. n \in 1..Limit /\ n - 1 = o /\ n # 0 /\ n \in 0..Limit /\ ~(o >= Limit)
    BY <1>1, <1>5
  <2>2. /\ e \in Entry /\ KeyOf(n) \in Seq(Nat) /\ KeyOf(o) \in Seq(Nat)
        /\ added[n] \in [key : Keys, value : Values] /\ n \in 1..Len(added)
    BY <2>1, EntryOK
  <2>3. /\ e.value = added[n].value /\ e.shared <= Len(KeyOf(o))
        /\ SubSeq(KeyOf(o), 1, e.shared) \o e.delta = KeyOf(n)
    BY <2>1, <2>2 DEF EntriesOK
  <2>4. /\ e.shared \in Nat /\ e.delta \in Seq(Nat) /\ e.value \in Values /\ e # NULL
        /\ Len(j.key_) \in Nat /\ Len(KeyOf(o)) \in Nat /\ DecodeEntry(o) = e
    BY <1>1, <1>5, <2>2, LenProperties, ConstantsAssumption DEF Entry, DecodeEntry
  <2> HIDE DEF e
  <2>5. CASE Len(j.key_) < e.shared
    <3>1. ParseNextKey(j) = Corrupt
      BY <2>1, <2>4, <2>5 DEF ParseNextKey
    <3>2. j.key_ # KeyOf(j.end)
      BY <2>3, <2>4, <2>5
    <3>3. QED
      BY <1>2, <2>1, <3>1, <3>2 DEF RevivedBy
  <2>6. CASE ~(Len(j.key_) < e.shared)
    <3>1. SubSeq(j.key_, 1, e.shared) = SubSeq(KeyOf(o), 1, e.shared)
      <4>1. CASE j.key_ = << >>
        <5>1. e.shared = 0
          <6>1. Len(j.key_) = 0
            BY <4>1
          <6>2. QED
            BY <2>4, <2>6, <6>1
        <5>2. SubSeq(j.key_, 1, e.shared) = << >> /\ SubSeq(KeyOf(o), 1, e.shared) = << >>
          BY <5>1, SubSeqEmpty
        <5>3. QED
          BY <5>2
      <4>2. QED
        BY <4>1
    <3>2. RestartIndex(j.restart_index_, o) = num_restarts_
      <4>1. num_restarts_..num_restarts_ = {num_restarts_} /\ num_restarts_ + 1..num_restarts_ = {}
            /\ ~(num_restarts_ + 1 < num_restarts_)
        BY <1>1
      <4>2. QED
        BY <4>1 DEF RestartIndex
    <3> DEFINE k == ParseNextKey(j)
    <3>3. k = [j EXCEPT !.current_ = o, !.key_ = KeyOf(n), !.value_ = e.value,
                        !.end = n, !.restart_index_ = num_restarts_]
      BY <2>1, <2>3, <2>4, <2>6, <3>1, <3>2 DEF ParseNextKey
    <3> HIDE DEF k
    <3>4. /\ k.current_ = o /\ k.key_ = KeyOf(n) /\ k.value_ = added[n].value /\ k.end = n
          /\ k.restart_index_ = num_restarts_ /\ k.status_ = j.status_ /\ k \in Iter
      <4>1. e.value \in Values \cup {NULL} /\ o \in 0..Limit /\ n \in 0..Limit \cup {NULL}
            /\ num_restarts_ \in 0..num_restarts_
        BY <1>1, <2>1, <2>4
      <4>2. QED
        BY <2>2, <2>3, <3>3, <4>1 DEF Iter
    <3>5. Revived(k) /\ k # Corrupt
      BY <1>1, <1>2, <1>5, <3>4 DEF Revived
    <3>6. QED
      BY <2>1, <3>4, <3>5 DEF RevivedBy, k
  <2>7. QED
    BY <2>5, <2>6
<1>6. QED
  BY <1>1, <1>3, <1>4, <1>5

-----------------------------------------------------------------------------
(* The iterator: each step keeps the invariant.                            *)

Calling == {"idle", "last", "back", "aborted", "scan", "search", "linear"}

\* The steps of an iterator leave the block alone.
LEMMA Reading ==
  ASSUME Inv, UNCHANGED <<builder, bad>>, it' \in Iter, pc' \in Calling,
         original' \in 0..Limit, target' \in Keys \cup {NULL},
         left' \in 0..num_restarts_, right' \in 0..num_restarts_, strayed' \in BOOLEAN
  PROVE  /\ TypeOK' /\ EntriesOK' /\ RestartsOK'
         /\ Limit' = Limit /\ num_restarts_' = num_restarts_
         /\ Off(it') => Off(it)'
         /\ AtStart(it') => AtStart(it)'
         /\ OnEntry(it') => OnEntry(it)'
         /\ Revived(it') => Revived(it)'
         /\ \A n : KeyOf(n)' = KeyOf(n)
<1>1. /\ buffer_' = buffer_ /\ restarts_' = restarts_ /\ counter_' = counter_
      /\ finished_' = finished_ /\ last_key_' = last_key_ /\ interval' = interval
      /\ added' = added /\ bad' = bad
  BY DEF builder
<1>2. Limit' = Limit /\ num_restarts_' = num_restarts_ /\ (\A n : KeyOf(n)' = KeyOf(n))
  BY <1>1 DEF Limit, num_restarts_, KeyOf
<1>3. Iter' = Iter
  BY <1>2 DEF Iter
<1>4. TypeOK'
  BY <1>1, <1>2, <1>3 DEF Inv, TypeOK, Calling
<1>5. EntriesOK' /\ RestartsOK'
  BY <1>1, <1>2 DEF Inv, EntriesOK, RestartsOK
<1>6. /\ Off(it') => Off(it)'
      /\ AtStart(it') => AtStart(it)'
      /\ OnEntry(it') => OnEntry(it)'
      /\ Revived(it') => Revived(it)'
  BY <1>1, <1>2 DEF Off, AtStart, OnEntry, Revived, KeyOf, GetRestartPoint
<1>7. QED
  BY <1>2, <1>4, <1>5, <1>6

\* What ParseNextKey leads to, as the loops around it see it.
LEMMA ParsingStep ==
  ASSUME Inv, NEW j \in Iter, AtStart(j) \/ OnEntry(j), it' = ParseNextKey(j)
  PROVE  /\ j.end \in 0..Limit /\ Moved(j, it') /\ it' \in Iter
         /\ Off(it') \/ OnEntry(it')
         /\ Parsed <=> j.end < Limit /\ j.end \notin bad
<1>1. j.end \in 0..Limit /\ Moved(j, it') /\ Limit \in Nat
  BY Parsing, PointsOK DEF Inv
<1>2. CASE j.end >= Limit
  <2>1. ~(j.end < Limit) /\ Off(it')
    BY <1>1, <1>2 DEF Moved
  <2>2. QED
    BY <1>1, <2>1 DEF Moved, Off, Parsed
<1>3. CASE j.end < Limit /\ j.end \in bad
  <2>1. Off(it')
    BY <1>1, <1>3, CorruptOK DEF Moved, Inv
  <2>2. QED
    BY <1>1, <1>3, <2>1 DEF Moved, Off, Parsed
<1>4. CASE j.end < Limit /\ j.end \notin bad
  BY <1>1, <1>4 DEF Moved, OnEntry, Parsed
<1>5. QED
  BY <1>1, <1>2, <1>3, <1>4

LEMMA AtRestartOK ==
  ASSUME TypeOK, RestartsOK, NEW i \in 0..num_restarts_ - 1
  PROVE  /\ AtRestart(i) \in Iter /\ AtStart(AtRestart(i))
         /\ AtRestart(i).status_ = it.status_ /\ AtRestart(i).end = GetRestartPoint(i)
<1>1. /\ num_restarts_ \in Nat \ {0} /\ Limit \in Nat
      /\ GetRestartPoint(i) \in 0..MaxEntries
      /\ i > 0 => GetRestartPoint(i) < Limit
      /\ GetRestartPoint(0) = 0
  BY PointsOK
<1>2. GetRestartPoint(i) \in 0..Limit \cup {NULL} /\ i \in 0..num_restarts_ /\ i < num_restarts_
  BY <1>1, ConstantsAssumption
<1>3. << >> \in Seq(Nat)
  BY EmptySeq
<1>4. QED
  BY <1>2, <1>3 DEF AtRestart, AtStart, TypeOK, Iter

LEMMA SeekToFirstInv == ASSUME Inv, SeekToFirst PROVE Inv'
<1>1. /\ pc' = "idle" /\ strayed' = FALSE
      /\ UNCHANGED <<builder, bad, original, target, left, right>>
  BY DEF SeekToFirst, locals
<1>2. it' \in Iter /\ (Off(it') \/ OnEntry(it'))
  <2>1. 0 \in 0..num_restarts_ - 1
    BY PointsOK DEF Inv
  <2>2. QED
    BY <2>1, AtRestartOK, ParsingStep DEF Inv, SeekToFirst
<1>3. TypeOK' /\ EntriesOK' /\ RestartsOK' /\ (Off(it)' \/ OnEntry(it)')
  BY <1>1, <1>2, Reading DEF Inv, TypeOK, Calling
<1>4. IterOK'
  BY <1>1, <1>3 DEF IterOK
<1>5. CallOK'
  BY <1>1, <1>2 DEF Inv, CallOK, SeekToFirst, builder
<1>6. QED
  BY <1>3, <1>4, <1>5 DEF Inv

\* Next where it may be called.
LEMMA NextOnEntry ==
  ASSUME Inv, IterNext, Valid, ~strayed
  PROVE  OnEntry(it) /\ it \in Iter /\ it' = ParseNextKey(it) /\ strayed' = FALSE
<1>1. OnEntry(it) /\ it \in Iter
  BY PointsOK DEF Inv, IterOK, Off, IterNext, Valid, TypeOK
<1>2. it.end # NULL
  BY <1>1, PointsOK, ConstantsAssumption DEF OnEntry, Inv, Iter
<1>3. QED
  BY <1>1, <1>2 DEF IterNext, AfterNext

\* Next where it may not, or after that.
LEMMA NextElsewhere ==
  ASSUME Inv, IterNext, ~Valid \/ strayed
  PROVE  /\ it' \in Iter /\ (Off(it') \/ Revived(it'))
         /\ it'.status_ \in {it.status_, Corruption} /\ strayed' = TRUE
         /\ ~Valid => Off(it)
         /\ Valid => Revived(it) /\ strayed /\ it.end \in 1..Limit /\ RevivedBy(it, it')
<1>1. /\ it \in Iter /\ Limit \in Nat /\ it' \in AfterNext /\ strayed' = TRUE
      /\ Off(it) \/ (Revived(it) /\ strayed)
      /\ num_restarts_ \in 0..num_restarts_ /\ Limit \in 0..Limit
      /\ Off(it) <=> ~Valid
  <2>1. /\ it \in Iter /\ Limit \in Nat /\ num_restarts_ \in Nat /\ strayed \in BOOLEAN
        /\ it.current_ \in 0..Limit
    BY PointsOK DEF Inv, TypeOK, Iter
  <2>2. Off(it) \/ IF strayed THEN Revived(it) ELSE OnEntry(it)
    BY DEF Inv, IterOK, IterNext
  <2>3. /\ Off(it) => ~Valid
        /\ Revived(it) => Valid
        /\ OnEntry(it) => Valid
    BY <2>1 DEF Off, Revived, OnEntry, Valid
  <2>4. it' \in AfterNext /\ strayed' = TRUE
    BY DEF IterNext
  <2>5. QED
    BY <2>1, <2>2, <2>3, <2>4
<1>2. /\ it.restart_index_ = num_restarts_
      /\ it.end # NULL => it.end \in 0..Limit /\ it.key_ = KeyOf(it.end)
      /\ it.end = NULL => it.key_ = << >>
      /\ Revived(it) => it.end \in 1..Limit
  BY <1>1, ConstantsAssumption DEF Off, Revived, Iter
<1>3. Corrupt \in Iter /\ Off(Corrupt) /\ Corrupt.status_ = Corruption
  BY CorruptOK DEF Inv
<1>4. CASE it.end # NULL
  <2>1. it' = ParseNextKey(it)
    BY <1>1, <1>4 DEF AfterNext
  <2>2. RevivedBy(it, it')
    BY <1>1, <1>2, <1>4, <2>1, Reviving DEF Inv
  <2>3. it' \in Iter /\ (Off(it') \/ Revived(it')) /\ it'.status_ \in {it.status_, Corruption}
    BY <1>1, <1>2, <1>3, <1>4, <2>2 DEF RevivedBy
  <2>4. QED
    BY <1>1, <1>2, <2>2, <2>3
<1>5. CASE it.end = NULL
  <2>1. ~Revived(it)
    BY <1>2, <1>5, ConstantsAssumption
  <2>2. /\ it' \in Iter /\ (Off(it') \/ Revived(it'))
        /\ it'.status_ \in {it.status_, Corruption}
    <3>1. CASE it' = PastEnd
      BY <1>1, <1>2, <1>5, <3>1 DEF PastEnd, Off, Iter
    <3>2. CASE it' = Corrupt
      BY <1>3, <3>2
    <3>3. ASSUME NEW o \in 0..Limit - 1, it' = ParseNextKey([it EXCEPT !.end = o])
          PROVE  /\ it' \in Iter /\ (Off(it') \/ Revived(it'))
                 /\ it'.status_ \in {it.status_, Corruption}
      <4> DEFINE j == [it EXCEPT !.end = o]
      <4>1. o \in 0..Limit /\ o < Limit
        BY <1>1
      <4>2. /\ j \in Iter /\ j.end = o /\ j.restart_index_ = num_restarts_ /\ j.key_ = << >>
            /\ j.status_ = it.status_
        BY <1>1, <1>2, <1>5, <4>1 DEF Iter
      <4> HIDE DEF j
      <4>3. RevivedBy(j, ParseNextKey(j))
        BY <4>1, <4>2, Reviving DEF Inv
      <4>4. RevivedBy(j, it')
        BY <3>3, <4>3 DEF j
      <4>5. QED
        BY <1>3, <4>1, <4>2, <4>4 DEF RevivedBy
    <3>4. \/ it' \in {PastEnd, Corrupt}
          \/ \E o \in 0..Limit - 1 : it' = ParseNextKey([it EXCEPT !.end = o])
      BY <1>1, <1>5 DEF AfterNext
    <3>5. QED
      BY <3>1, <3>2, <3>3, <3>4
  <2>3. QED
    BY <1>1, <2>1, <2>2
<1>6. QED
  BY <1>4, <1>5

LEMMA IterNextInv == ASSUME Inv, IterNext PROVE Inv'
<1>1. pc = "idle" /\ pc' = "idle" /\ UNCHANGED <<builder, bad, original, target, left, right>>
  BY DEF IterNext, locals
<1>2. /\ it' \in Iter /\ strayed' \in BOOLEAN
      /\ Off(it') \/ IF strayed' THEN Revived(it') ELSE OnEntry(it')
  <2>1. CASE Valid /\ ~strayed
    BY <2>1, NextOnEntry, ParsingStep
  <2>2. CASE ~Valid \/ strayed
    BY <2>2, NextElsewhere
  <2>3. QED
    BY <2>1, <2>2
<1>3. /\ TypeOK' /\ EntriesOK' /\ RestartsOK'
      /\ Off(it)' \/ IF strayed' THEN Revived(it)' ELSE OnEntry(it)'
  BY <1>1, <1>2, Reading DEF Inv, TypeOK, Calling
<1>4. IterOK'
  BY <1>1, <1>3 DEF IterOK
<1>5. CallOK'
  BY <1>1, <1>2 DEF Inv, CallOK, builder
<1>6. QED
  BY <1>3, <1>4, <1>5 DEF Inv

LEMMA SeekToLastInv == ASSUME Inv, SeekToLast PROVE Inv'
<1>1. /\ pc = "idle" /\ pc' = "last" /\ strayed' = FALSE
      /\ UNCHANGED <<builder, bad, original, target, left, right>>
  BY DEF SeekToLast, locals
<1>2. it' \in Iter /\ AtStart(it')
  <2>1. num_restarts_ - 1 \in 0..num_restarts_ - 1
    BY PointsOK DEF Inv
  <2>2. QED
    BY <2>1, AtRestartOK DEF Inv, SeekToLast
<1>3. TypeOK' /\ EntriesOK' /\ RestartsOK' /\ AtStart(it)'
  BY <1>1, <1>2, Reading DEF Inv, TypeOK, Calling
<1>4. IterOK'
  BY <1>1, <1>3 DEF IterOK
<1>5. CallOK'
  BY <1>1, <1>2 DEF Inv, CallOK, builder
<1>6. QED
  BY <1>3, <1>4, <1>5 DEF Inv

\* A call that returns leaves the iterator on an entry or shows nothing.
LEMMA Returning ==
  ASSUME Inv, pc # "none", ~strayed, UNCHANGED <<builder, bad>>, Return, it' \in Iter,
         Off(it') \/ OnEntry(it')
  PROVE  Inv'
<1>1. /\ pc' = "idle" /\ pc' \in Calling /\ target' = NULL /\ strayed' = strayed
      /\ strayed' \in BOOLEAN
      /\ original' \in 0..Limit /\ target' \in Keys \cup {NULL}
      /\ left' \in 0..num_restarts_ /\ right' \in 0..num_restarts_
  BY PointsOK DEF Return, Inv, TypeOK, Calling
<1>2. TypeOK' /\ EntriesOK' /\ RestartsOK' /\ (Off(it)' \/ OnEntry(it)')
  BY <1>1, Reading
<1>3. IterOK'
  BY <1>1, <1>2 DEF IterOK
<1>4. CallOK'
  <2>1. finished_' = finished_ /\ bad' = bad
    BY DEF builder
  <2>2. ~finished_ => pc = "none" /\ bad = {}
    BY DEF Inv, CallOK
  <2>3. QED
    BY <1>1, <2>1, <2>2 DEF CallOK
<1>5. QED
  BY <1>2, <1>3, <1>4 DEF Inv

LEMMA SeekToLastParseInv == ASSUME Inv, SeekToLastParse PROVE Inv'
<1>1. pc = "last" /\ UNCHANGED <<builder, bad>> /\ ~strayed
  BY DEF SeekToLastParse, Inv, CallOK
<1>2. it' \in Iter /\ (Off(it') \/ OnEntry(it'))
      /\ (Parsed => OnEntry(it'))
  <2>1. (AtStart(it) \/ OnEntry(it)) /\ it \in Iter
    BY <1>1 DEF Inv, IterOK, TypeOK
  <2>2. QED
    BY <1>1, <2>1, ParsingStep DEF SeekToLastParse, Moved
<1>3. CASE Parsed /\ it'.end < Limit /\ UNCHANGED <<pc, call>>
  <2>1. /\ TypeOK' /\ EntriesOK' /\ RestartsOK' /\ OnEntry(it)' /\ Limit' = Limit
        /\ pc' = "last" /\ UNCHANGED <<original, target, left, right, strayed>>
    BY <1>1, <1>2, <1>3, Reading DEF Inv, TypeOK, Calling, call, locals
  <2>2. IterOK' /\ CallOK'
    BY <1>1, <1>2, <1>3, <2>1 DEF IterOK, Inv, CallOK, builder
  <2>3. QED
    BY <2>1, <2>2 DEF Inv
<1>4. CASE Return
  BY <1>1, <1>2, <1>4, Returning
<1>5. QED
  BY <1>3, <1>4 DEF SeekToLastParse

LEMMA PrevInv == ASSUME Inv, Prev PROVE Inv'
<1>1. /\ pc = "idle" /\ pc' = "back" /\ original' = it.current_ /\ it.current_ < Limit
      /\ UNCHANGED <<builder, bad, it, target, left, right, strayed>>
  BY DEF Prev, Valid
<1>2. /\ IF strayed THEN Revived(it) ELSE OnEntry(it)
      /\ it \in Iter /\ it.current_ \in 0..Limit
  BY <1>1, PointsOK DEF Inv, IterOK, Off, TypeOK, Iter
<1>3. /\ TypeOK' /\ EntriesOK' /\ RestartsOK' /\ Limit' = Limit
      /\ IF strayed THEN Revived(it)' ELSE OnEntry(it)'
  BY <1>1, <1>2, Reading DEF Inv, TypeOK, Calling
<1>4. IterOK' /\ CallOK'
  BY <1>1, <1>2, <1>3 DEF IterOK, Inv, CallOK, builder, OnEntry, Revived
<1>5. QED
  BY <1>3, <1>4 DEF Inv

LEMMA PrevAbortsInv == ASSUME Inv, PrevAborts PROVE Inv'
<1>1. /\ pc = "back" /\ pc' = "aborted"
      /\ UNCHANGED <<builder, bad, it, original, target, left, right, strayed>>
  BY DEF PrevAborts, call, locals
<1>2. /\ TypeOK' /\ EntriesOK' /\ RestartsOK' /\ Limit' = Limit
      /\ num_restarts_' = num_restarts_ /\ KeyOf(it.end)' = KeyOf(it'.end)
  BY <1>1, Reading DEF Inv, TypeOK, Calling, KeyOf, builder
<1>3. IterOK' /\ CallOK'
  BY <1>1, <1>2 DEF IterOK, Inv, CallOK, builder, GetRestartPoint
<1>4. QED
  BY <1>2, <1>3 DEF Inv

LEMMA PrevBackInv == ASSUME Inv, PrevBack PROVE Inv'
<1>1. /\ pc = "back" /\ UNCHANGED <<builder, bad>> /\ ~strayed
      /\ it.current_ = original /\ original < Limit /\ original \in 0..Limit
      /\ it.end = original + 1 /\ it.key_ = KeyOf(it.end)
      /\ it.restart_index_ \in 0..num_restarts_ - 1
      /\ it.restart_index_ + 1 < num_restarts_ =>
           GetRestartPoint(it.restart_index_ + 1) >= original
  BY PointsOK DEF PrevBack, Inv, IterOK, TypeOK, Iter
<1>2. CASE GetRestartPoint(it.restart_index_) >= it.current_ /\ NoMoreEntries
  <2>1. it' = PastEnd /\ Return
    BY <1>2 DEF PrevBack
  <2>2. it' \in Iter /\ Off(it')
    <3>1. Limit \in 0..Limit /\ num_restarts_ \in 0..num_restarts_ /\ it \in Iter
          /\ it.end # NULL
      BY <1>1, PointsOK, ConstantsAssumption DEF Inv, TypeOK
    <3>2. QED
      BY <1>1, <2>1, <3>1 DEF PastEnd, Off, Iter
  <2>3. QED
    BY <1>1, <2>1, <2>2, Returning
<1>3. CASE GetRestartPoint(it.restart_index_) >= it.current_ /\ ~NoMoreEntries
  <2>1. /\ it' = [it EXCEPT !.restart_index_ = @ - 1]
        /\ UNCHANGED <<pc, original, target, left, right, strayed>>
    BY <1>3 DEF PrevBack, call, locals
  <2>2. /\ it.restart_index_ - 1 \in 0..num_restarts_ - 1
        /\ it.restart_index_ - 1 \in 0..num_restarts_
        /\ it.restart_index_ - 1 + 1 = it.restart_index_
    BY <1>1, <1>3, PointsOK DEF NoMoreEntries, Inv
  <2>3. /\ it' \in Iter /\ it'.restart_index_ = it.restart_index_ - 1
        /\ it'.current_ = original /\ it'.end = it.end /\ it'.key_ = it.key_
    BY <1>1, <2>1, <2>2 DEF Iter, Inv, TypeOK
  <2>4. /\ TypeOK' /\ EntriesOK' /\ RestartsOK' /\ Limit' = Limit
        /\ num_restarts_' = num_restarts_ /\ KeyOf(it.end)' = KeyOf(it'.end)
        /\ pc' \in Calling
    BY <1>1, <2>1, <2>3, Reading DEF Inv, TypeOK, Calling, KeyOf, builder
  <2>5. /\ pc' = "back" /\ strayed' = strayed /\ original' = original /\ target' = target
        /\ finished_' = finished_ /\ bad' = bad /\ restarts_' = restarts_
    BY <1>1, <2>1 DEF builder
  <2>6. /\ it'.restart_index_ < num_restarts_
        /\ GetRestartPoint(it.restart_index_ + 1)' >= original
    <3>1. it'.restart_index_ < num_restarts_ /\ it'.restart_index_ + 1 = it.restart_index_
      <4>1. num_restarts_ \in Nat /\ it.restart_index_ \in Int
        BY <1>1, PointsOK DEF Inv
      <4>2. QED
        BY <2>2, <2>3, <4>1
    <3>2. GetRestartPoint(it.restart_index_ + 1)' = restarts_[it'.restart_index_ + 1 + 1]
      BY <2>5 DEF GetRestartPoint
    <3>3. GetRestartPoint(it.restart_index_ + 1)' = GetRestartPoint(it.restart_index_)
      BY <3>1, <3>2 DEF GetRestartPoint
    <3>4. QED
      BY <1>1, <1>3, <3>1, <3>3
  <2>7. IterOK'
    BY <1>1, <2>3, <2>4, <2>5, <2>6 DEF IterOK, GetRestartPoint
  <2>8. CallOK'
    BY <1>1, <2>3, <2>5 DEF Inv, CallOK
  <2>9. QED
    BY <2>4, <2>7, <2>8 DEF Inv
<1>4. CASE ~(GetRestartPoint(it.restart_index_) >= it.current_)
  <2>1. /\ it' = AtRestart(it.restart_index_) /\ pc' = "scan"
        /\ UNCHANGED <<original, target, left, right, strayed>>
    BY <1>4 DEF PrevBack, call, locals
  <2>2. it' \in Iter /\ AtStart(it') /\ it'.status_ = it.status_
        /\ it'.end = GetRestartPoint(it.restart_index_)
    BY <1>1, <2>1, AtRestartOK DEF Inv
  <2>3. it'.end < original
    BY <1>1, <1>4, <2>2, PointsOK DEF Inv
  <2>4. /\ TypeOK' /\ EntriesOK' /\ RestartsOK' /\ Limit' = Limit /\ AtStart(it)'
    BY <1>1, <2>1, <2>2, Reading DEF Inv, TypeOK, Calling
  <2>5. IterOK' /\ CallOK'
    BY <1>1, <2>1, <2>2, <2>3, <2>4 DEF IterOK, Inv, CallOK, builder
  <2>6. QED
    BY <2>4, <2>5 DEF Inv
<1>5. QED
  BY <1>2, <1>3, <1>4

LEMMA PrevScanInv == ASSUME Inv, PrevScan PROVE Inv'
<1>1. /\ pc = "scan" /\ UNCHANGED <<builder, bad>> /\ it.end < original /\ original < Limit
      /\ it \in Iter /\ (AtStart(it) \/ OnEntry(it)) /\ original \in 0..Limit /\ ~strayed
  BY DEF PrevScan, Inv, IterOK, CallOK, TypeOK
<1>2. it' \in Iter /\ (Off(it') \/ OnEntry(it'))
      /\ (Parsed => OnEntry(it'))
  BY <1>1, ParsingStep DEF PrevScan, Moved
<1>3. CASE Parsed /\ it'.end < original /\ UNCHANGED <<pc, call>>
  <2>1. /\ TypeOK' /\ EntriesOK' /\ RestartsOK' /\ OnEntry(it)' /\ Limit' = Limit
        /\ pc' = "scan" /\ UNCHANGED <<original, target, left, right, strayed>>
    BY <1>1, <1>2, <1>3, Reading DEF Inv, TypeOK, Calling, call, locals
  <2>2. IterOK' /\ CallOK'
    BY <1>1, <1>2, <1>3, <2>1 DEF IterOK, Inv, CallOK, builder
  <2>3. QED
    BY <2>1, <2>2 DEF Inv
<1>4. CASE Return
  BY <1>1, <1>2, <1>4, Returning
<1>5. QED
  BY <1>3, <1>4 DEF PrevScan

LEMMA SeekInv == ASSUME Inv, NEW t \in Keys, Seek(t) PROVE Inv'
<1>1. /\ pc = "idle" /\ pc' = "search" /\ target' = t /\ left' = 0
      /\ right' = num_restarts_ - 1 /\ strayed' = FALSE
      /\ UNCHANGED <<builder, bad, it, original>>
  BY DEF Seek
<1>2. /\ num_restarts_ \in Nat \ {0} /\ 0 \in 0..num_restarts_
      /\ num_restarts_ - 1 \in 0..num_restarts_ /\ num_restarts_ - 1 < num_restarts_
      /\ 0 <= num_restarts_ - 1
  BY PointsOK DEF Inv
<1>3. /\ TypeOK' /\ EntriesOK' /\ RestartsOK' /\ num_restarts_' = num_restarts_
  <2>1. it' \in Iter /\ original' \in 0..Limit /\ strayed' \in BOOLEAN
    BY <1>1 DEF Inv, TypeOK
  <2>2. pc' \in Calling /\ target' \in Keys \cup {NULL} /\ left' \in 0..num_restarts_
        /\ right' \in 0..num_restarts_
    BY <1>1, <1>2 DEF Calling
  <2>3. QED
    BY <1>1, <2>1, <2>2, Reading
<1>4. IterOK'
  BY <1>1, <1>3 DEF IterOK
<1>5. CallOK'
  BY <1>1, <1>2, <1>3 DEF Inv, CallOK, builder
<1>6. QED
  BY <1>3, <1>4, <1>5 DEF Inv

\* The order of the bytes of keys is that of the keys.
LEMMA BeforeIs ==
  ASSUME TypeOK, EntriesOK, NEW n \in 1..Limit, NEW t \in Keys
  PROVE  IsBefore(KeyOf(n), t) <=> added[n].key < t
<1>1. added[n] \in [key : Keys, value : Values] /\ KeyOf(n) = Bytes[added[n].key]
  BY EntryOK
<1>2. added[n].key \in Keys
  BY <1>1
<1>3. \A k \in Keys : Bytes[k] = Bytes[added[n].key] => k = added[n].key
  BY <1>2, ConstantsAssumption
<1>4. QED
  BY <1>1, <1>2, <1>3 DEF IsBefore

LEMMA RestartEntry ==
  ASSUME TypeOK, EntriesOK, RestartsOK, NEW x \in 0..num_restarts_ - 1,
         GetRestartPoint(x) < Limit, GetRestartPoint(x) \notin bad
  PROVE  /\ GetRestartPoint(x) + 1 \in 1..Limit
         /\ DecodeEntry(GetRestartPoint(x)) # NULL
         /\ DecodeEntry(GetRestartPoint(x)).shared = 0
         /\ DecodeEntry(GetRestartPoint(x)).delta = KeyOf(GetRestartPoint(x) + 1)
<1> DEFINE o == GetRestartPoint(x)
           n == o + 1
           e == buffer_[n]
<1>1. o \in Nat /\ n \in 1..Limit /\ n - 1 = o
  <2>1. o \in 0..MaxEntries /\ Limit \in Nat
    BY PointsOK
  <2>2. QED
    BY <2>1
<1>2. e \in Entry /\ e.shared = 0 /\ DecodeEntry(o) = e /\ KeyOf(o) \in Seq(Nat)
  BY <1>1, EntryOK, PointsOK DEF DecodeEntry
<1>3. n \in 1..Len(added)
  BY <1>1, EntryOK
<1>4. SubSeq(KeyOf(o), 1, e.shared) \o e.delta = KeyOf(n)
  BY <1>1, <1>3 DEF EntriesOK
<1>5. SubSeq(KeyOf(o), 1, e.shared) = << >>
  BY <1>2, SubSeqEmpty
<1>6. e.delta \in Seq(Nat)
  BY <1>2 DEF Entry
<1> HIDE DEF e, o, n
<1>7. << >> \o e.delta = e.delta
  BY <1>6, ConcatEmptySeq
<1>8. e # NULL
  BY <1>2, ConstantsAssumption DEF Entry
<1>9. QED
  BY <1>1, <1>2, <1>4, <1>5, <1>7, <1>8 DEF o, n

LEMMA SeekSearchInv == ASSUME Inv, SeekSearch PROVE Inv'
<1> DEFINE mid == Middle(left, right)
           e == DecodeEntry(GetRestartPoint(mid))
<1>1. /\ pc = "search" /\ UNCHANGED <<builder, bad>> /\ target \in Keys
      /\ left <= right /\ right < num_restarts_ /\ left \in Nat /\ right \in Nat
      /\ num_restarts_ \in Nat \ {0} /\ Limit \in Nat
      /\ left > 0 => added[GetRestartPoint(left) + 1].key < target
      /\ it \in Iter /\ original \in 0..Limit /\ ~strayed
  BY PointsOK DEF SeekSearch, Inv, CallOK, TypeOK
<1>2. CASE left >= right
  <2>1. /\ it' = AtRestart(left) /\ pc' = "linear"
        /\ UNCHANGED <<original, target, left, right, strayed>>
    BY <1>2 DEF SeekSearch, call, locals
  <2>2. left \in 0..num_restarts_ - 1
    BY <1>1
  <2>3. it' \in Iter /\ AtStart(it') /\ it'.status_ = it.status_
        /\ it'.end = GetRestartPoint(left)
    BY <2>1, <2>2, AtRestartOK DEF Inv
  <2>4. \A n \in 1..it'.end : added[n].key < target
    <3>1. CASE left = 0
      BY <2>3, <3>1, PointsOK DEF Inv
    <3>2. CASE left > 0
      <4>1. GetRestartPoint(left) \in Nat /\ GetRestartPoint(left) < Limit
        BY <2>2, <3>2, PointsOK DEF Inv
      <4>2. GetRestartPoint(left) + 1 \in 1..Limit
        BY <1>1, <4>1
      <4>3. ASSUME NEW n \in 1..GetRestartPoint(left) PROVE added[n].key < target
        <5>1. n \in 1..Limit /\ n < GetRestartPoint(left) + 1
          BY <1>1, <4>1
        <5>2. added[n].key \in Int /\ added[GetRestartPoint(left) + 1].key \in Int
              /\ n \in 1..Len(added) /\ GetRestartPoint(left) + 1 \in 1..Len(added)
          BY <4>2, <5>1, EntryOK DEF Inv
        <5>3. added[n].key < added[GetRestartPoint(left) + 1].key
          BY <5>1, <5>2 DEF Inv, EntriesOK
        <5>4. target \in Int
          BY <1>1, ConstantsAssumption
        <5>5. QED
          BY <1>1, <3>2, <5>2, <5>3, <5>4
      <4>4. QED
        BY <2>3, <4>3
    <3>3. QED
      BY <1>1, <3>1, <3>2
  <2>5. /\ TypeOK' /\ EntriesOK' /\ RestartsOK' /\ Limit' = Limit /\ AtStart(it)'
    BY <1>1, <2>1, <2>3, Reading DEF Inv, TypeOK, Calling
  <2>6. IterOK' /\ CallOK'
    BY <1>1, <2>1, <2>3, <2>4, <2>5 DEF IterOK, Inv, CallOK, builder
  <2>7. QED
    BY <2>5, <2>6 DEF Inv
<1>3. CASE left < right
  <2>1. mid \in left + 1..right /\ mid \in 0..num_restarts_ - 1 /\ mid > 0
    BY <1>1, <1>3 DEF Middle
  <2>2. GetRestartPoint(mid) < Limit
    BY <2>1, PointsOK DEF Inv
  <2>3. ~(left >= right)
    BY <1>1, <1>3
  <2> HIDE DEF mid
  <2>4. CASE e = NULL \/ e.shared # 0
    <3>1. it' = Corrupt /\ Return
      BY <2>3, <2>4 DEF SeekSearch, mid
    <3>2. it' \in Iter /\ Off(it')
      BY <3>1, CorruptOK DEF Inv
    <3>3. QED
      BY <1>1, <3>1, <3>2, Returning
  <2>5. CASE ~(e = NULL \/ e.shared # 0)
    <3>1. /\ \/ IsBefore(e.delta, target) /\ left' = mid /\ right' = right
             \/ ~IsBefore(e.delta, target) /\ right' = mid - 1 /\ left' = left
          /\ UNCHANGED <<it, pc, original, target, strayed>>
      BY <2>3, <2>5 DEF SeekSearch, mid
    <3>2. GetRestartPoint(mid) \notin bad
      BY <2>5 DEF DecodeEntry
    <3>3. GetRestartPoint(mid) + 1 \in 1..Limit /\ e.delta = KeyOf(GetRestartPoint(mid) + 1)
      BY <2>1, <2>2, <3>2, RestartEntry DEF Inv
    <3>4. IsBefore(e.delta, target) => added[GetRestartPoint(mid) + 1].key < target
      BY <1>1, <3>3, BeforeIs DEF Inv
    <3>5. /\ left' \in 0..num_restarts_ /\ right' \in 0..num_restarts_
          /\ left' <= right' /\ right' < num_restarts_
      BY <1>1, <2>1, <3>1
    <3>6. left' > 0 => added[GetRestartPoint(left') + 1].key < target
      BY <1>1, <3>1, <3>4
    <3>7. TypeOK' /\ EntriesOK' /\ RestartsOK' /\ num_restarts_' = num_restarts_
      BY <1>1, <3>1, <3>5, Reading DEF Calling, Inv, TypeOK
    <3>8. IterOK'
      BY <1>1, <3>1, <3>7 DEF IterOK
    <3>9. CallOK'
      <4>1. GetRestartPoint(left)' = GetRestartPoint(left') /\ added' = added
        BY <1>1 DEF GetRestartPoint, builder
      <4>2. QED
        BY <1>1, <3>1, <3>5, <3>6, <3>7, <4>1 DEF Inv, CallOK, builder
    <3>10. QED
      BY <3>7, <3>8, <3>9 DEF Inv
  <2>6. QED
    BY <2>4, <2>5
<1>4. QED
  BY <1>1, <1>2, <1>3

LEMMA SeekLinearInv == ASSUME Inv, SeekLinear PROVE Inv'
<1>1. /\ pc = "linear" /\ UNCHANGED <<builder, bad>> /\ it \in Iter
      /\ (AtStart(it) \/ OnEntry(it)) /\ target \in Keys /\ target \in Int /\ ~strayed
      /\ \A n \in 1..it.end : added[n].key < target
  BY ConstantsAssumption DEF SeekLinear, Inv, IterOK, CallOK, TypeOK
<1>2. /\ it.end \in 0..Limit /\ it' \in Iter /\ (Off(it') \/ OnEntry(it'))
      /\ Parsed => OnEntry(it') /\ it'.end = it.end + 1 /\ it.end < Limit
  BY <1>1, ParsingStep DEF SeekLinear, Moved
<1>3. CASE Parsed /\ IsBefore(it'.key_, target) /\ UNCHANGED <<pc, call>>
  <2>1. /\ TypeOK' /\ EntriesOK' /\ RestartsOK' /\ OnEntry(it)' /\ Limit' = Limit
        /\ pc' = "linear" /\ UNCHANGED <<original, target, left, right, strayed>>
    BY <1>1, <1>2, <1>3, Reading DEF Inv, TypeOK, Calling, call, locals
  <2>2. it'.end \in 1..Limit /\ it'.end = it.end + 1 /\ it.end \in Nat
    BY <1>2, <1>3, PointsOK DEF Inv
  <2>3. added[it'.end].key < target
    BY <1>1, <1>2, <1>3, <2>2, BeforeIs DEF OnEntry, Inv
  <2>4. \A n \in 1..it'.end : added[n].key < target
    <3>1. \A n \in 1..it'.end : n \in 1..it.end \/ n = it'.end
      BY <2>2
    <3>2. QED
      BY <1>1, <2>3, <3>1
  <2>5. IterOK' /\ CallOK'
    BY <1>1, <1>2, <1>3, <2>1, <2>4 DEF IterOK, Inv, CallOK, builder
  <2>6. QED
    BY <2>1, <2>5 DEF Inv
<1>4. CASE Return
  BY <1>1, <1>2, <1>4, Returning
<1>5. QED
  BY <1>3, <1>4 DEF SeekLinear

-----------------------------------------------------------------------------
(* The builder.                                                            *)

\* The n-th of the keys as it is after the next one has been added.
LEMMA AddEntries ==
  ASSUME Inv, NEW k \in Keys, NEW v \in Values, Add(k, v)
  PROVE  /\ EntriesOK' /\ buffer_' \in Seq(Entry) /\ last_key_' \in Seq(Nat)
         /\ added' \in Seq([key : Keys, value : Values])
         /\ Limit \in Nat /\ Limit' = Limit + 1
         /\ \A n \in 1..Limit : buffer_'[n] = buffer_[n]
         /\ \A n \in 1..Limit : added'[n] = added[n]
         /\ added'[Limit + 1] = [key |-> k, value |-> v]
         /\ buffer_'[Limit + 1].shared # 0 => counter_ < interval /\ Limit > 0
<1>0. PICK l \in Nat : l = Len(added)
  BY LenProperties DEF Inv, TypeOK
<1> DEFINE compress == counter_ < interval
           shared == IF compress THEN Shared(last_key_, Bytes[k]) ELSE 0
           delta == SubSeq(Bytes[k], shared + 1, Len(Bytes[k]))
           e == [shared |-> shared, delta |-> delta, value |-> v]
           a == [key |-> k, value |-> v]
<1>1. /\ l \in Nat /\ Len(buffer_) = l /\ Limit = l
      /\ buffer_' = Append(buffer_, e) /\ added' = Append(added, a)
      /\ last_key_' = SubSeq(last_key_, 1, shared) \o delta
      /\ last_key_ = KeyOf(l) /\ last_key_ \in Seq(Nat)
      /\ Bytes[k] \in Seq(Nat) /\ Len(Bytes[k]) \in Nat /\ Len(last_key_) \in Nat
      /\ \A n \in 1..l : added[n].key < k
  BY <1>0, LenProperties, ConstantsAssumption DEF Inv, TypeOK, EntriesOK, Add, Limit
<1>2. /\ shared \in 0..Len(last_key_) /\ shared <= Len(Bytes[k])
      /\ \A m \in 1..shared : last_key_[m] = Bytes[k][m]
      /\ last_key_ = << >> => shared = 0
      /\ shared # 0 => counter_ < interval
  <2> DEFINE b == Bytes[k]
             s == Shared(last_key_, b)
  <2>1. b \in Seq(Nat) /\ Len(b) \in Nat /\ Len(last_key_) \in Nat
    BY <1>1
  <2> HIDE DEF b
  <2>2. /\ s \in 0..Len(last_key_) /\ s <= Len(b)
        /\ \A m \in 1..s : last_key_[m] = b[m]
        /\ last_key_ = << >> => s = 0
    BY <1>1, <2>1, SharedOK
  <2>3. shared = IF counter_ < interval THEN s ELSE 0
    BY DEF b
  <2> HIDE DEF s, shared
  <2>4. CASE counter_ < interval
    <3>1. shared = s
      BY <2>3, <2>4
    <3>2. QED
      BY <2>2, <2>4, <3>1 DEF b
  <2>5. CASE ~(counter_ < interval)
    <3>1. shared = 0
      BY <2>3, <2>5
    <3>2. QED
      BY <2>1, <3>1 DEF b
  <2>6. QED
    BY <2>4, <2>5
<1> HIDE DEF compress
<1>3. delta \in Seq(Nat) /\ last_key_' = Bytes[k]
  <2> DEFINE b == Bytes[k]
             S == Nat
  <2>1. /\ b \in Seq(S) /\ last_key_ \in Seq(S) /\ delta = SubSeq(b, shared + 1, Len(b))
        /\ shared \in 0..Len(last_key_) /\ shared <= Len(b)
        /\ \A m \in 1..shared : last_key_[m] = b[m]
        /\ last_key_' = SubSeq(last_key_, 1, shared) \o delta
    BY <1>1, <1>2
  <2> HIDE DEF b, shared, delta, S
  <2>2. SubSeq(b, shared + 1, Len(b)) \in Seq(S) /\ CompletedBy(last_key_, b, shared) = b
    BY <2>1, Completed
  <2>3. QED
    BY <2>1, <2>2 DEF b, S, CompletedBy
<1> HIDE DEF shared, delta
<1>4. e \in Entry /\ a \in [key : Keys, value : Values] /\ e.shared = shared /\ e.value = v
      /\ e.delta = delta
  BY <1>1, <1>2, <1>3 DEF Entry
<1> HIDE DEF e, a
<1>5. /\ buffer_' \in Seq(Entry) /\ Len(buffer_') = l + 1 /\ buffer_'[l + 1] = e
      /\ \A n \in 1..l : buffer_'[n] = buffer_[n]
  <2>1. buffer_ \in Seq(Entry)
    BY DEF Inv, TypeOK
  <2>2. QED
    BY <1>1, <1>4, <2>1, AppendProperties
<1>6. /\ added' \in Seq([key : Keys, value : Values]) /\ Len(added') = l + 1
      /\ added'[l + 1] = a /\ \A n \in 1..l : added'[n] = added[n]
  <2>1. added \in Seq([key : Keys, value : Values]) /\ Len(added) = l
    BY <1>0 DEF Inv, TypeOK
  <2>2. QED
    BY <1>1, <1>4, <2>1, AppendProperties
<1>7. /\ \A n \in 0..l : KeyOf(n)' = KeyOf(n)
      /\ KeyOf(l + 1)' = Bytes[k]
  <2>1. \A n \in 0..l : n = 0 \/ n \in 1..l
    BY <1>1
  <2>2. l + 1 # 0
    BY <1>1
  <2>3. KeyOf(l + 1)' = Bytes[k]
    BY <1>6, <2>2 DEF KeyOf, a
  <2>4. QED
    BY <1>6, <2>1, <2>3 DEF KeyOf
<1>8. ASSUME NEW m \in 1..l + 1, NEW n \in 1..l + 1, m < n
      PROVE  added'[m].key < added'[n].key
  <2>1. m \in 1..l
    BY <1>1, <1>8
  <2>2. CASE n = l + 1
    BY <1>1, <1>6, <2>1, <2>2 DEF a
  <2>3. CASE n # l + 1
    <3>1. n \in 1..l
      BY <1>1, <2>3
    <3>2. QED
      BY <1>0, <1>6, <1>8, <2>1, <3>1 DEF Inv, EntriesOK
  <2>4. QED
    BY <2>2, <2>3
<1>9. ASSUME NEW n \in 1..l + 1
      PROVE  /\ buffer_'[n].value = added'[n].value
             /\ buffer_'[n].shared <= Len(KeyOf(n - 1)')
             /\ SubSeq(KeyOf(n - 1)', 1, buffer_'[n].shared) \o buffer_'[n].delta = KeyOf(n)'
  <2>1. CASE n = l + 1
    <3>1. n - 1 = l /\ l \in 0..l
      BY <1>1, <2>1
    <3>2. KeyOf(n - 1)' = last_key_
      BY <1>1, <1>7, <3>1
    <3>3. KeyOf(n)' = Bytes[k] /\ buffer_'[n] = e /\ added'[n] = a
      BY <1>5, <1>6, <1>7, <2>1
    <3>4. a.value = v
      BY DEF a
    <3>5. buffer_'[n].value = v /\ buffer_'[n].shared = shared /\ buffer_'[n].delta = delta
      BY <1>4, <3>3
    <3>6. /\ KeyOf(n - 1)' = last_key_ /\ KeyOf(n)' = last_key_' /\ added'[n].value = v
          /\ last_key_' = SubSeq(last_key_, 1, shared) \o delta
      BY <1>1, <1>3, <3>2, <3>3, <3>4
    <3>7. shared <= Len(last_key_)
      BY <1>1, <1>2
    <3>8. QED
      BY <3>5, <3>6, <3>7
  <2>2. CASE n # l + 1
    <3>1. n \in 1..l /\ n \in 0..l /\ n - 1 \in 0..l
      BY <1>1, <2>2
    <3>2. QED
      BY <1>0, <1>5, <1>6, <1>7, <3>1 DEF Inv, EntriesOK
  <2>3. QED
    BY <2>1, <2>2
<1>10. EntriesOK'
  <2>1. Len(buffer_') = Len(added') /\ last_key_' = KeyOf(Len(added))'
    BY <1>3, <1>5, <1>6, <1>7 DEF KeyOf
  <2>2. QED
    BY <1>6, <1>8, <1>9, <2>1 DEF EntriesOK
<1>11. Limit' = Limit + 1
  BY <1>1, <1>5 DEF Limit
<1>12. shared # 0 => Limit > 0
  <2>1. CASE l = 0
    BY <1>1, <1>2, <2>1 DEF KeyOf
  <2>2. QED
    BY <1>1, <2>1
<1>13. QED
  BY <1>1, <1>2, <1>3, <1>4, <1>5, <1>6, <1>10, <1>11, <1>12, EmptySeq DEF a

LEMMA AddRestarts ==
  ASSUME Inv, NEW k \in Keys, NEW v \in Values, Add(k, v)
  PROVE  /\ RestartsOK' /\ counter_' \in Nat /\ num_restarts_ <= num_restarts_'
         /\ restarts_' \in Seq(0..MaxEntries) /\ num_restarts_ \in Nat /\ num_restarts_' \in Nat
<1> DEFINE r == num_restarts_
<1>1. /\ Limit \in Nat /\ Limit' = Limit + 1 /\ Len(buffer_) = Limit /\ Len(buffer_') = Limit'
      /\ \A n \in 1..Limit : buffer_'[n] = buffer_[n]
      /\ buffer_'[Limit + 1].shared # 0 => counter_ < interval /\ Limit > 0
  BY AddEntries DEF Limit
<1>2. /\ r \in Nat /\ r >= 1 /\ Len(restarts_) = r /\ restarts_[1] = 0
      /\ restarts_ \in Seq(0..MaxEntries)
      /\ counter_ \in Nat /\ counter_ <= Limit /\ interval \in Nat \ {0}
      /\ Limit \in 0..MaxEntries /\ Limit < MaxEntries
      /\ \A i \in 1..r : restarts_[i] \in Nat
      /\ \A i, j \in 1..r : i < j => restarts_[i] < restarts_[j]
      /\ \A i \in 1..r : i > 1 => restarts_[i] < Limit
      /\ \A i \in 1..r : restarts_[i] < Limit => buffer_[restarts_[i] + 1].shared = 0
  <2>1. \A i \in 1..Len(restarts_) : restarts_[i] \in 0..MaxEntries
    BY ElementOfSeq DEF Inv, TypeOK
  <2>2. QED
    <3>1. r \in Nat /\ Len(restarts_) = r /\ r >= 1
      BY LenProperties DEF Inv, TypeOK, RestartsOK, num_restarts_
    <3>2. Limit \in 0..MaxEntries /\ Limit < MaxEntries
      BY <1>1, ConstantsAssumption DEF Add
    <3>3. \A i \in 1..r : restarts_[i] \in Nat
      BY <2>1, <3>1, ConstantsAssumption
    <3>4. counter_ \in Nat /\ counter_ <= Limit /\ interval \in Nat \ {0}
      BY <1>1, ConstantsAssumption DEF Inv, TypeOK, RestartsOK
    <3>5. restarts_ \in Seq(0..MaxEntries)
      BY DEF Inv, TypeOK
    <3>6. QED
      BY <3>1, <3>2, <3>3, <3>4, <3>5 DEF Inv, RestartsOK
<1>3. \A i \in 1..r : restarts_[i] <= Limit /\ (restarts_[i] = Limit => Limit = 0)
  <2>1. \A i \in 1..r : i = 1 \/ i > 1
    BY <1>2
  <2>2. QED
    BY <1>1, <1>2, <2>1
<1>4. \A i \in 1..r : restarts_[i] < Limit' /\ buffer_'[restarts_[i] + 1].shared = 0
  <2> SUFFICES ASSUME NEW i \in 1..r
               PROVE  restarts_[i] < Limit' /\ buffer_'[restarts_[i] + 1].shared = 0
    OBVIOUS
  <2>1. CASE restarts_[i] < Limit
    <3>1. restarts_[i] + 1 \in 1..Limit
      BY <1>1, <1>2, <2>1
    <3>2. QED
      BY <1>1, <1>2, <2>1, <3>1
  <2>2. CASE restarts_[i] = Limit
    <3>1. Limit = 0
      BY <1>3, <2>2
    <3>2. QED
      BY <1>1, <2>2, <3>1
  <2>3. QED
    BY <1>1, <1>2, <1>3, <2>1, <2>2
<1> HIDE DEF r
<1>5. CASE counter_ < interval
  <2>1. restarts_' = restarts_ /\ counter_' = counter_ + 1 /\ r' = r
    BY <1>5 DEF Add, r, num_restarts_
  <2>2. counter_' \in Nat /\ counter_' <= Len(buffer_')
    BY <1>1, <1>2, <2>1
  <2>3. RestartsOK'
    BY <1>2, <1>4, <2>1, <2>2 DEF RestartsOK, r
  <2>4. QED
    BY <1>2, <2>1, <2>2, <2>3 DEF r
<1>6. CASE ~(counter_ < interval)
  <2>1. restarts_' = Append(restarts_, Limit) /\ counter_' = 1
    BY <1>6 DEF Add, Limit
  <2>2. /\ restarts_' \in Seq(0..MaxEntries) /\ Len(restarts_') = r + 1
        /\ restarts_'[r + 1] = Limit /\ \A i \in 1..r : restarts_'[i] = restarts_[i]
    BY <1>2, <2>1, AppendProperties
  <2>3. r' = r + 1
    BY <2>2 DEF r, num_restarts_
  <2>4. Limit > 0
    BY <1>1, <1>2, <1>6
  <2>5. buffer_'[Limit + 1].shared = 0
    BY <1>1, <1>6
  <2>6. \A i \in 1..r + 1 : i \in 1..r \/ i = r + 1
    BY <1>2
  <2>7. 1 \in 1..r /\ 1..num_restarts_' = 1..r + 1
    BY <1>2, <2>3 DEF r
  <2>8. \A i, j \in 1..r + 1 : i < j => restarts_'[i] < restarts_'[j]
    <3> SUFFICES ASSUME NEW i \in 1..r + 1, NEW j \in 1..r + 1, i < j
                 PROVE  restarts_'[i] < restarts_'[j]
      OBVIOUS
    <3>1. i \in 1..r
      BY <1>2
    <3>2. CASE j = r + 1
      BY <1>1, <1>2, <1>3, <2>2, <2>4, <3>1, <3>2
    <3>3. CASE j \in 1..r
      BY <1>2, <2>2, <3>1, <3>3
    <3>4. QED
      BY <2>6, <3>2, <3>3
  <2>9. \A i \in 1..r + 1 : restarts_'[i] < Limit' /\ buffer_'[restarts_'[i] + 1].shared = 0
    BY <1>1, <1>4, <2>2, <2>5, <2>6
  <2>10. /\ num_restarts_' >= 1 /\ restarts_'[1] = 0 /\ counter_' <= Len(buffer_')
    BY <1>1, <1>2, <2>1, <2>2, <2>3, <2>7 DEF r
  <2>11. RestartsOK'
    BY <2>7, <2>8, <2>9, <2>10 DEF RestartsOK
  <2>12. QED
    BY <1>2, <2>1, <2>2, <2>3, <2>11 DEF r
<1>7. QED
  BY <1>5, <1>6

LEMMA AddInv == ASSUME Inv, NEW k \in Keys, NEW v \in Values, Add(k, v) PROVE Inv'
<1>1. /\ EntriesOK' /\ RestartsOK' /\ Limit' = Limit + 1 /\ Limit \in Nat
      /\ num_restarts_ <= num_restarts_' /\ num_restarts_ \in Nat /\ num_restarts_' \in Nat
  BY AddEntries, AddRestarts
<1>2. /\ pc = "none" /\ it = Fresh /\ bad = {} /\ ~finished_
      /\ Limit < MaxEntries
      /\ ~strayed
      /\ UNCHANGED <<finished_, interval, bad, it, pc, original, target, left, right, strayed>>
  BY DEF Add, Inv, CallOK, IterOK, call, locals, Limit
<1>3. Fresh \in Iter'
  <2>1. 0 \in 0..Limit' /\ 0 \in 0..num_restarts_' /\ << >> \in Seq(Nat)
    BY <1>1, EmptySeq
  <2>2. QED
    BY <2>1 DEF Fresh, Iter
<1>4. Len(buffer_') <= MaxEntries
  BY <1>1, <1>2, ConstantsAssumption DEF Limit
<1>5. original \in 0..Limit' /\ left \in 0..num_restarts_' /\ right \in 0..num_restarts_'
  BY <1>1 DEF Inv, TypeOK
<1>6. TypeOK'
  BY <1>1, <1>2, <1>3, <1>4, <1>5, AddEntries, AddRestarts DEF Inv, TypeOK
<1>7. IterOK' /\ CallOK'
  BY <1>2 DEF IterOK, Inv, CallOK, Fresh
<1>8. QED
  BY <1>1, <1>6, <1>7 DEF Inv

LEMMA EmptyBuilder ==
  ASSUME buffer_' = << >>, restarts_' = << 0 >>, counter_' = 0, last_key_' = << >>,
         added' = << >>, bad' = {}, it' = Fresh, pc' = "none", original' = 0,
         target' = NULL, left' = 0, right' = 0, strayed' = FALSE, interval' \in Intervals,
         finished_' \in BOOLEAN
  PROVE  Inv'
<1>1. Len(buffer_') = 0 /\ Len(added') = 0 /\ Limit' = 0 /\ num_restarts_' = 1
      /\ restarts_'[1] = 0 /\ restarts_' \in Seq(0..MaxEntries)
      /\ \A S : << >> \in Seq(S)
  BY EmptySeq, ConstantsAssumption DEF Limit, num_restarts_
<1>2. Fresh \in Iter'
  BY <1>1 DEF Fresh, Iter
<1>3. TypeOK'
  <2>1. /\ 0 \in Nat /\ 0 \in 0..Limit' /\ 0 \in 0..num_restarts_' /\ FALSE \in BOOLEAN
        /\ 0 <= MaxEntries /\ {} \subseteq 0..Len(buffer_') - 1
    BY <1>1, ConstantsAssumption
  <2>2. << >> \in Seq(Entry) /\ << >> \in Seq(Nat)
        /\ << >> \in Seq([key : Keys, value : Values])
    BY <1>1
  <2>3. QED
    BY <1>1, <1>2, <2>1, <2>2 DEF TypeOK
<1>4. EntriesOK'
  BY <1>1 DEF EntriesOK, KeyOf
<1>5. RestartsOK'
  BY <1>1 DEF RestartsOK
<1>6. IterOK' /\ CallOK'
  BY ConstantsAssumption DEF IterOK, CallOK, Fresh
<1>7. QED
  BY <1>3, <1>4, <1>5, <1>6 DEF Inv

LEMMA EmptyBlock == Init => Inv
<1> SUFFICES ASSUME Init PROVE Inv
  OBVIOUS
<1>1. Len(buffer_) = 0 /\ Len(added) = 0 /\ Limit = 0 /\ num_restarts_ = 1
      /\ restarts_[1] = 0 /\ restarts_ \in Seq(0..MaxEntries)
      /\ \A S : << >> \in Seq(S)
  BY EmptySeq, ConstantsAssumption DEF Init, Limit, num_restarts_
<1>2. Fresh \in Iter
  BY <1>1 DEF Fresh, Iter
<1>3. TypeOK
  <2>1. /\ 0 \in Nat /\ 0 \in 0..Limit /\ 0 \in 0..num_restarts_ /\ FALSE \in BOOLEAN
        /\ 0 <= MaxEntries /\ {} \subseteq 0..Len(buffer_) - 1
    BY <1>1, ConstantsAssumption
  <2>2. << >> \in Seq(Entry) /\ << >> \in Seq(Nat)
        /\ << >> \in Seq([key : Keys, value : Values])
    BY <1>1
  <2>3. QED
    BY <1>1, <1>2, <2>1, <2>2 DEF TypeOK, Init
<1>4. EntriesOK
  BY <1>1 DEF EntriesOK, KeyOf, Init
<1>5. RestartsOK
  BY <1>1 DEF RestartsOK, Init
<1>6. IterOK /\ CallOK
  BY ConstantsAssumption DEF IterOK, CallOK, Fresh, Init
<1>7. QED
  BY <1>3, <1>4, <1>5, <1>6 DEF Inv

LEMMA OptionsInv == ASSUME Inv, NEW n \in Intervals, ChangeOptions(n) PROVE Inv'
BY DEF Inv, ChangeOptions, TypeOK, EntriesOK, RestartsOK, IterOK, CallOK, Iter, Limit,
       num_restarts_, KeyOf, Off, AtStart, OnEntry, Revived, GetRestartPoint, call, locals

LEMMA FinishInv == ASSUME Inv, Finish PROVE Inv'
BY DEF Inv, Finish, TypeOK, EntriesOK, RestartsOK, IterOK, CallOK, Iter, Limit,
       num_restarts_, KeyOf, Off, AtStart, OnEntry, Revived, GetRestartPoint, call, locals

LEMMA DamageInv == ASSUME Inv, NEW o \in 0..Len(buffer_) - 1, Damage(o) PROVE Inv'
<1>1. bad' \subseteq 0..Len(buffer_) - 1 /\ bad' # {}
  BY DEF Damage, Inv, TypeOK
<1>2. QED
  BY <1>1 DEF Inv, Damage, TypeOK, EntriesOK, RestartsOK, IterOK, CallOK, Iter, Limit,
       num_restarts_, KeyOf, Off, AtStart, OnEntry, Revived, GetRestartPoint, call, locals, builder

LEMMA ResetInv == ASSUME Inv, Reset PROVE Inv'
BY EmptyBuilder DEF Inv, TypeOK, Reset, AfterReset

LEMMA NewIteratorInv == ASSUME Inv, NewIterator PROVE Inv'
<1>1. /\ pc = "none" /\ pc' = "idle" /\ it = Fresh /\ UNCHANGED <<builder, bad, call>>
      /\ it' = [Fresh EXCEPT !.current_ = Limit, !.restart_index_ = num_restarts_]
  BY DEF NewIterator, Inv, IterOK
<1>2. it' \in Iter /\ Off(it')
  <2>1. Limit \in 0..Limit /\ num_restarts_ \in 0..num_restarts_ /\ << >> \in Seq(Nat)
    BY PointsOK, EmptySeq DEF Inv
  <2>2. QED
    BY <1>1, <2>1 DEF Iter, Off, Fresh
<1>3. /\ TypeOK' /\ EntriesOK' /\ RestartsOK' /\ Off(it)'
  BY <1>1, <1>2, Reading DEF Inv, TypeOK, Calling, call, locals
<1>4. IterOK'
  BY <1>1, <1>3 DEF IterOK
<1>5. CallOK'
  BY <1>1, <1>2, ConstantsAssumption DEF Inv, CallOK, builder, call, locals, NewIterator
<1>6. QED
  BY <1>3, <1>4, <1>5 DEF Inv

\* The invariant holds from the first entry to the last call.
THEOREM Invariance == Spec => []Inv
<1>1. ASSUME Inv, UNCHANGED vars PROVE Inv'
  <2>1. /\ UNCHANGED <<buffer_, restarts_, counter_, finished_, last_key_, interval, added>>
        /\ UNCHANGED <<bad, it, pc, original, target, left, right, strayed>>
    BY <1>1 DEF vars, builder, call, locals
  <2>2. TypeOK'
    BY <1>1, <2>1 DEF Inv, TypeOK, Iter, Limit, num_restarts_
  <2>3. EntriesOK' /\ RestartsOK'
    BY <1>1, <2>1 DEF Inv, EntriesOK, RestartsOK, KeyOf, Limit, num_restarts_
  <2>4. IterOK'
    BY <1>1, <2>1 DEF Inv, IterOK, Limit, num_restarts_, KeyOf, Off, AtStart, OnEntry,
          Revived, GetRestartPoint
  <2>5. CallOK'
    BY <1>1, <2>1 DEF Inv, CallOK, num_restarts_, GetRestartPoint
  <2>6. QED
    BY <2>2, <2>3, <2>4, <2>5 DEF Inv
<1>2. Inv /\ [Next]_vars => Inv'
  BY <1>1, AddInv, OptionsInv, FinishInv, DamageInv, ResetInv, NewIteratorInv, SeekToFirstInv,
     IterNextInv, SeekToLastInv, SeekToLastParseInv, PrevInv, PrevBackInv, PrevAbortsInv,
     PrevScanInv, SeekInv, SeekSearchInv, SeekLinearInv DEF Next, Aborted
<1>3. QED
  BY <1>2, EmptyBlock, PTL DEF Spec

\* The types of the builder and of the iterator, with all positions in range.
THEOREM TypeCorrect == Spec => []TypeOK
<1>1. Inv => TypeOK
  BY DEF Inv
<1>2. QED
  BY <1>1, Invariance, PTL

\* The entry the iterator stands on lies in the restart block of its restart index,
\* and Prev asks for a restart point that is not there just after a Next while not
\* Valid().
THEOREM PositionsKept == Spec => []PositionsAgree
<1>1. Inv => PositionsAgree
  <2> SUFFICES ASSUME Inv PROVE PositionsAgree
    OBVIOUS
  <2>1. Limit \in Nat /\ num_restarts_ \in Nat
    BY PointsOK DEF Inv
  <2>2. ASSUME pc = "idle", ~strayed
        PROVE  IF Valid
                 THEN /\ it.restart_index_ < num_restarts_
                      /\ GetRestartPoint(it.restart_index_) <= it.current_
                      /\ it.restart_index_ + 1 < num_restarts_ =>
                            GetRestartPoint(it.restart_index_ + 1) >= it.current_
                 ELSE it.restart_index_ = num_restarts_
    <3>1. Off(it) \/ OnEntry(it)
      BY <2>2 DEF Inv, IterOK
    <3>2. QED
      BY <2>1, <3>1 DEF Off, OnEntry, Valid
  <2>3. pc = "back" => (it.restart_index_ < num_restarts_ <=> ~strayed)
    BY <2>1 DEF Inv, IterOK
  <2>4. QED
    BY <2>2, <2>3 DEF PositionsAgree
<1>2. QED
  BY <1>1, Invariance, PTL

-----------------------------------------------------------------------------
(* What the iterator shows: the refinement of SortedCursor.                *)

\* The bytes of a key are those of no other.
LEMMA KeyBack == ASSUME NEW j \in Keys PROVE (CHOOSE k \in Keys : Bytes[k] = Bytes[j]) = j
<1>1. \A k \in Keys : Bytes[k] = Bytes[j] => k = j
  BY ConstantsAssumption
<1>2. QED
  BY <1>1

\* An iterator on the n-th entry returns it.
LEMMA ShownIs ==
  ASSUME Inv, pc = "idle"
  PROVE  /\ Off(it) => Shown = NULL
         /\ OnEntry(it) \/ Revived(it) =>
              it.end \in 1..Limit /\ Shown = added[it.end] /\ Shown # NULL
<1>1. Limit \in Nat /\ (Off(it) => ~Valid)
  BY PointsOK DEF Off, Valid, Inv
<1>2. Off(it) => Shown = NULL
  BY <1>1 DEF Shown
<1>3. ASSUME OnEntry(it) \/ Revived(it)
      PROVE  it.end \in 1..Limit /\ Shown = added[it.end] /\ Shown # NULL
  <2> DEFINE n == it.end
             a == added[n]
  <2>1. n \in 1..Limit /\ Valid
    BY <1>1, <1>3 DEF OnEntry, Revived, Inv, TypeOK, Iter, Valid
  <2>2. a \in [key : Keys, value : Values] /\ KeyOf(n) = Bytes[a.key]
    BY <2>1, EntryOK DEF Inv
  <2>3. it.key_ = Bytes[a.key] /\ it.value_ = a.value
    BY <1>3, <2>2 DEF OnEntry, Revived
  <2> HIDE DEF a
  <2>4. (CHOOSE k \in Keys : Bytes[k] = it.key_) = a.key
    BY <2>2, <2>3, KeyBack
  <2>5. Shown = [key |-> a.key, value |-> a.value]
    BY <2>1, <2>3, <2>4 DEF Shown
  <2>6. Shown = a /\ a # NULL
    BY <2>2, <2>5, ConstantsAssumption
  <2>7. QED
    BY <2>1, <2>6 DEF a
<1>4. QED
  BY <1>2, <1>3

\* The same when a call returns, which leaves the block as it is.
LEMMA Showing ==
  ASSUME Inv, Inv', UNCHANGED <<builder, bad>>, pc' = "idle"
  PROVE  /\ Contents' = Contents /\ UNCHANGED (bad # {})
         /\ CursorOp' = "idle" /\ CursorArg' = NULL
         /\ Off(it') => Shown' = NULL
         /\ OnEntry(it') \/ Revived(it') => it'.end \in 1..Limit /\ Shown' = added[it'.end]
<1>1. /\ added' = added /\ Limit' = Limit /\ Limit \in Nat /\ it' \in Iter
  <2>1. added' = added /\ Limit' = Limit
    BY DEF builder, Limit
  <2>2. it' \in Iter
    BY DEF Inv, TypeOK, Iter, builder, Limit, num_restarts_
  <2>3. QED
    BY <2>1, <2>2, PointsOK DEF Inv
<1>2. Contents' = Contents /\ UNCHANGED (bad # {})
  BY <1>1 DEF Contents
<1>3. CursorOp' = "idle" /\ CursorArg' = NULL
  BY DEF CursorOp, CursorArg, Inv, CallOK
<1>4. Off(it') => Shown' = NULL
  BY <1>1 DEF Off, Shown, Valid
<1>5. ASSUME OnEntry(it') \/ Revived(it')
      PROVE  it'.end \in 1..Limit /\ Shown' = added[it'.end]
  <2> DEFINE n == it'.end
             a == added[n]
  <2>1. n \in 1..Limit /\ Valid'
    BY <1>1, <1>5 DEF OnEntry, Revived, Iter, Valid
  <2>2. a \in [key : Keys, value : Values] /\ KeyOf(n) = Bytes[a.key]
    BY <2>1, EntryOK DEF Inv
  <2>3. it'.key_ = Bytes[a.key] /\ it'.value_ = a.value
    BY <1>5, <2>2 DEF OnEntry, Revived
  <2> HIDE DEF a
  <2>4. (CHOOSE k \in Keys : Bytes[k] = it'.key_) = a.key
    BY <2>2, <2>3, KeyBack
  <2>5. Shown' = [key |-> a.key, value |-> a.value]
    BY <2>1, <2>3, <2>4 DEF Shown
  <2>6. Shown' = a
    BY <2>2, <2>5
  <2>7. QED
    BY <2>1, <2>6 DEF a
<1>6. QED
  BY <1>2, <1>3, <1>4, <1>5

\* A call meets the damage, and says so.
LEMMA Losing ==
  ASSUME Inv, Inv', UNCHANGED <<builder, bad>>, pc' = "idle", it' = Corrupt, bad # {},
         pc \notin {"back", "aborted"}, strayed' \in {strayed, FALSE}
  PROVE  Cursor!Next
<1>1. Off(it') /\ it'.status_ = Corruption /\ Limit' = Limit /\ Limit \in Nat
  BY CorruptOK, PointsOK DEF Inv, builder, Limit
<1>2. Contents' = Contents /\ UNCHANGED (bad # {})
  BY DEF Contents, builder
<1>3. CursorOp' = "idle" /\ CursorArg' = NULL
  BY DEF CursorOp, CursorArg, Inv, CallOK
<1>4. Shown' = NULL
  BY <1>1 DEF Off, Shown, Valid
<1>5. CursorOp = "idle" \/ ~strayed
  BY DEF CursorOp, Inv, CallOK
<1>6. Cursor!Lose
  BY <1>1, <1>2, <1>3, <1>4, <1>5 DEF Cursor!Lose
<1>7. QED
  BY <1>6 DEF Cursor!Next

\* A call goes on.
LEMMA Pending ==
  ASSUME UNCHANGED <<builder, bad, original, target, strayed>>, it'.status_ = it.status_,
         NEW X \in {{"last"}, {"back", "aborted", "scan"}, {"search", "linear"}},
         pc \in X, pc' \in X
  PROVE  UNCHANGED Cursor!vars
<1>1. CursorOp' = CursorOp /\ CursorArg' = CursorArg
  BY DEF CursorOp, CursorArg, builder
<1>2. Shown = NULL /\ Shown' = NULL
  BY DEF Shown
<1>3. Contents' = Contents
  BY DEF Contents, builder
<1>4. QED
  BY <1>1, <1>2, <1>3 DEF Cursor!vars

\* The entries behind the n-th, and those up to it, in the order of their keys.
LEMMA After ==
  ASSUME Inv, NEW n \in 0..Limit, NEW S, S = {added[m] : m \in n + 1..Limit}
  PROVE  /\ n = Limit => Cursor!IsLeast(NULL, S)
         /\ n < Limit => Cursor!IsLeast(added[n + 1], S) /\ added[n + 1] \in Contents
<1>1. Limit \in Nat /\ n \in Nat /\ Len(added) = Limit
  BY PointsOK DEF Inv, EntriesOK, Limit
<1>2. CASE n = Limit
  <2>1. n + 1..Limit = {}
    BY <1>1, <1>2
  <2>2. S = {}
    BY <2>1
  <2>3. QED
    BY <1>1, <1>2, <2>2 DEF Cursor!IsLeast
<1>3. CASE n < Limit
  <2>1. n + 1 \in 1..Limit /\ n + 1 \in n + 1..Limit
    BY <1>1, <1>3
  <2>2. added[n + 1] \in S /\ added[n + 1] \in Contents
    BY <1>1, <2>1 DEF Contents
  <2>3. ASSUME NEW f \in S PROVE added[n + 1].key <= f.key
    <3>1. PICK m \in n + 1..Limit : f = added[m]
      OBVIOUS
    <3>2. m \in 1..Limit /\ (n + 1 < m \/ n + 1 = m)
      BY <1>1, <3>1
    <3>3. added[n + 1].key \in Int /\ added[m].key \in Int
      BY <2>1, <3>2, EntryOK DEF Inv
    <3>4. n + 1 < m => added[n + 1].key < added[m].key
      BY <1>1, <2>1, <3>2 DEF Inv, EntriesOK
    <3>5. QED
      BY <3>1, <3>2, <3>3, <3>4
  <2>4. QED
    BY <1>1, <1>3, <2>2, <2>3 DEF Cursor!IsLeast
<1>4. QED
  BY <1>1, <1>2, <1>3

LEMMA UpTo ==
  ASSUME Inv, NEW n \in 0..Limit, NEW S, S = {added[m] : m \in 1..n}
  PROVE  /\ n = 0 => Cursor!IsGreatest(NULL, S)
         /\ n > 0 => Cursor!IsGreatest(added[n], S) /\ added[n] \in Contents
<1>1. Limit \in Nat /\ n \in Nat /\ Len(added) = Limit
  BY PointsOK DEF Inv, EntriesOK, Limit
<1>2. CASE n = 0
  <2>1. 1..n = {}
    BY <1>1, <1>2
  <2>2. S = {}
    BY <2>1
  <2>3. QED
    BY <1>1, <1>2, <2>2 DEF Cursor!IsGreatest
<1>3. CASE n > 0
  <2>1. n \in 1..Limit /\ n \in 1..n
    BY <1>1, <1>3
  <2>2. added[n] \in S /\ added[n] \in Contents
    BY <1>1, <2>1 DEF Contents
  <2>3. ASSUME NEW f \in S PROVE f.key <= added[n].key
    <3>1. PICK m \in 1..n : f = added[m]
      OBVIOUS
    <3>2. m \in 1..Limit /\ (m < n \/ m = n)
      BY <1>1, <3>1
    <3>3. added[n].key \in Int /\ added[m].key \in Int
      BY <2>1, <3>2, EntryOK DEF Inv
    <3>4. m < n => added[m].key < added[n].key
      BY <1>1, <2>1, <3>2 DEF Inv, EntriesOK
    <3>5. QED
      BY <3>1, <3>2, <3>3, <3>4
  <2>4. QED
    BY <1>1, <1>3, <2>2, <2>3 DEF Cursor!IsGreatest
<1>4. QED
  BY <1>1, <1>2, <1>3

\* A condition on the keys selects the entries behind the n-th, or those up to it.
LEMMA Selected ==
  ASSUME Inv, NEW n \in 0..Limit, NEW P \in [Contents -> BOOLEAN],
         \A m \in 1..n : ~P[added[m]], \A m \in n + 1..Limit : P[added[m]]
  PROVE  /\ {f \in Contents : P[f]} = {added[m] : m \in n + 1..Limit}
         /\ {f \in Contents : ~P[f]} = {added[m] : m \in 1..n}
<1>1. Limit \in Nat /\ n \in Nat /\ Len(added) = Limit
  BY PointsOK DEF Inv, EntriesOK, Limit
<1>2. \A m \in 1..Limit : m \in 1..n \/ m \in n + 1..Limit
  BY <1>1
<1>3. \A m \in 1..n : m \in 1..Limit
  BY <1>1
<1>4. \A m \in n + 1..Limit : m \in 1..Limit
  BY <1>1
<1>5. \A f : f \in Contents <=> \E m \in 1..Limit : f = added[m]
  BY <1>1 DEF Contents
<1>6. QED
  BY <1>2, <1>3, <1>4, <1>5

LEMMA OpIs ==
  ASSUME Inv
  PROVE  /\ pc \in {"none", "idle"} => CursorOp = "idle" /\ CursorArg = NULL /\ target = NULL
         /\ pc \in {"back", "aborted", "scan"} =>
              CursorOp = "prev" /\ CursorArg = added[original + 1].key
         /\ pc \in {"search", "linear"} => CursorOp = "seek" /\ CursorArg = target
         /\ pc = "last" => CursorOp = "last" /\ CursorArg = NULL
         /\ pc # "idle" => Shown = NULL
BY DEF CursorOp, CursorArg, Inv, CallOK, Shown

LEMMA AddRefines == ASSUME Inv, NEW k \in Keys, NEW v \in Values, Add(k, v) PROVE Cursor!Next
<1>1. /\ pc = "none" /\ added' = Append(added, [key |-> k, value |-> v])
      /\ \A n \in 1..Len(added) : added[n].key < k
      /\ UNCHANGED <<it, pc, original, target, bad, strayed>>
  BY DEF Add, Inv, CallOK, call, locals
<1>2. Contents' = Contents \cup {[key |-> k, value |-> v]}
  <2>1. PICK l \in Nat : l = Len(added)
    BY LenProperties DEF Inv, TypeOK
  <2>2. [key |-> k, value |-> v] \in [key : Keys, value : Values]
    OBVIOUS
  <2>3. /\ Len(added') = l + 1 /\ added'[l + 1] = [key |-> k, value |-> v]
        /\ \A n \in 1..l : added'[n] = added[n]
    <3>1. added \in Seq([key : Keys, value : Values])
      BY DEF Inv, TypeOK
    <3>2. QED
      BY <1>1, <2>1, <2>2, <3>1, AppendProperties
  <2>4. \A n \in 1..l + 1 : n \in 1..l \/ n = l + 1
    BY <2>1
  <2>5. \A n \in 1..l : n \in 1..l + 1
    BY <2>1
  <2>6. l + 1 \in 1..l + 1
    BY <2>1
  <2>7. QED
    BY <2>1, <2>3, <2>4, <2>5, <2>6 DEF Contents
<1>3. \A e \in Contents : e.key < k
  BY <1>1 DEF Contents
<1>4. UNCHANGED <<Shown, it.status_, bad # {}, CursorOp, CursorArg>>
  BY <1>1 DEF Shown, CursorOp, CursorArg
<1>5. Cursor!Add(k, v)
  BY <1>1, <1>2, <1>3, <1>4 DEF Cursor!Add
<1>6. QED
  BY <1>5 DEF Cursor!Next

LEMMA BuilderRefines ==
  ASSUME Inv, Inv', Finish \/ \E n \in Intervals : ChangeOptions(n)
  PROVE  UNCHANGED Cursor!vars
<1>1. UNCHANGED <<added, bad, it, pc, original, target, strayed>> /\ pc = "none"
  BY DEF Finish, ChangeOptions, call, locals, Inv, CallOK
<1>2. UNCHANGED <<Contents, Shown, it.status_, bad # {}, CursorOp, CursorArg>>
  BY <1>1 DEF Contents, Shown, CursorOp, CursorArg
<1>3. QED
  BY <1>1, <1>2 DEF Cursor!vars

LEMMA DamageRefines ==
  ASSUME Inv, Inv', NEW o \in 0..Len(buffer_) - 1, Damage(o)
  PROVE  Cursor!Next
<1>1. UNCHANGED <<added, it, pc, original, target, strayed>> /\ pc = "none" /\ bad' # {}
  BY DEF Damage, call, locals, builder
<1>2. UNCHANGED <<Contents, Shown, it.status_, CursorOp, CursorArg>> /\ (bad # {})' = TRUE
  BY <1>1 DEF Contents, Shown, CursorOp, CursorArg
<1>3. Cursor!Damage
  BY <1>1, <1>2 DEF Cursor!Damage
<1>4. QED
  BY <1>3 DEF Cursor!Next

LEMMA ResetRefines == ASSUME Inv, Inv', Reset PROVE Cursor!Next
<1>1. /\ pc \in {"none", "idle"} /\ pc' = "none" /\ added' = << >> /\ bad' = {}
      /\ it'.status_ = OK /\ strayed' = FALSE
  BY DEF Reset, Fresh
<1>2. CursorOp = "idle" /\ CursorArg = NULL /\ CursorOp' = "idle" /\ CursorArg' = NULL
  BY <1>1 DEF Inv, CallOK, CursorOp, CursorArg
<1>3. Shown' = NULL /\ (bad # {})' = FALSE
  BY <1>1 DEF Shown
<1>4. Contents' = {}
  BY <1>1 DEF Contents
<1>5. Cursor!Clear
  BY <1>1, <1>2, <1>3, <1>4 DEF Cursor!Clear
<1>6. QED
  BY <1>5 DEF Cursor!Next

LEMMA NewIteratorRefines == ASSUME Inv, Inv', NewIterator PROVE UNCHANGED Cursor!vars
<1>1. pc = "none" /\ pc' = "idle" /\ UNCHANGED <<builder, bad, target, original, strayed>>
      /\ Off(it') /\ it'.status_ = OK /\ it.status_ = OK
  BY DEF NewIterator, Fresh, Off, call, locals, Inv, IterOK
<1>2. /\ Contents' = Contents /\ UNCHANGED it.status_ /\ UNCHANGED (bad # {})
      /\ CursorOp' = "idle" /\ CursorArg' = NULL /\ Shown' = NULL
  BY <1>1, Showing
<1>3. Shown = NULL /\ CursorOp = "idle" /\ CursorArg = NULL
  BY <1>1, OpIs
<1>4. QED
  BY <1>1, <1>2, <1>3 DEF Cursor!vars

\* A call of the iterator begins.
LEMMA SeekToLastRefines == ASSUME Inv, Inv', SeekToLast PROVE Cursor!Next
<1>1. /\ pc = "idle" /\ pc' = "last" /\ UNCHANGED <<added, bad, target>>
      /\ it'.status_ = it.status_ /\ strayed' = FALSE
  BY DEF SeekToLast, AtRestart, builder, call, locals, Inv, TypeOK, Iter
<1>2. CursorOp = "idle" /\ CursorOp' = "last" /\ CursorArg' = NULL /\ Shown' = NULL
  BY <1>1 DEF Inv, CallOK, CursorOp, CursorArg, Shown
<1>3. Contents' = Contents /\ UNCHANGED it.status_ /\ UNCHANGED (bad # {})
  BY <1>1 DEF Contents
<1>4. Cursor!Call("last", NULL)
  BY <1>1, <1>2, <1>3 DEF Cursor!Call
<1>5. QED
  BY <1>4 DEF Cursor!Next

LEMMA PrevRefines == ASSUME Inv, Inv', Prev PROVE Cursor!Next
<1>1. /\ pc = "idle" /\ pc' = "back" /\ UNCHANGED <<added, bad, target, it, strayed>>
      /\ OnEntry(it) \/ Revived(it)
      /\ original' = it.current_ /\ it.end = it.current_ + 1
  BY PointsOK DEF Prev, Valid, builder, Inv, TypeOK, Iter, IterOK, Off, OnEntry, Revived
<1>2. Shown = added[it.current_ + 1] /\ Shown # NULL
  BY <1>1, ShownIs
<1>3. CursorOp = "idle" /\ CursorOp' = "prev" /\ CursorArg' = Shown.key /\ Shown' = NULL
  BY <1>1, <1>2 DEF Inv, CallOK, CursorOp, CursorArg, Shown
<1>4. Contents' = Contents /\ UNCHANGED it.status_ /\ UNCHANGED (bad # {})
  BY <1>1 DEF Contents
<1>5. strayed' = (strayed /\ "prev" = "prev")
  BY <1>1 DEF Inv, TypeOK
<1>6. Cursor!Call("prev", Shown.key)
  BY <1>3, <1>4, <1>5 DEF Cursor!Call
<1>7. QED
  BY <1>2, <1>6 DEF Cursor!Next

\* The program has ended in a call.
LEMMA PrevAbortsRefines == ASSUME Inv, Inv', PrevAborts PROVE UNCHANGED Cursor!vars
<1>1. /\ pc = "back" /\ pc' = "aborted"
      /\ UNCHANGED <<builder, bad, it, original, target, strayed>>
  BY DEF PrevAborts, call, locals
<1>2. QED
  BY <1>1, Pending

LEMMA SeekRefines == ASSUME Inv, Inv', NEW t \in Keys, Seek(t) PROVE Cursor!Next
<1>1. /\ pc = "idle" /\ pc' = "search" /\ UNCHANGED <<added, bad, it>> /\ target' = t
      /\ strayed' = FALSE
  BY DEF Seek, builder
<1>2. CursorOp = "idle" /\ CursorOp' = "seek" /\ CursorArg' = t /\ Shown' = NULL
  BY <1>1 DEF Inv, CallOK, CursorOp, CursorArg, Shown
<1>3. Contents' = Contents /\ UNCHANGED it.status_ /\ UNCHANGED (bad # {})
  BY <1>1 DEF Contents
<1>4. Cursor!Call("seek", t)
  BY <1>1, <1>2, <1>3 DEF Cursor!Call
<1>5. QED
  BY <1>4 DEF Cursor!Next

\* What ParseNextKey leaves, and what the cursor then shows if the call returns.
LEMMA ParsedOrNot ==
  ASSUME Inv, Inv', NEW j \in Iter, AtStart(j) \/ OnEntry(j), it' = ParseNextKey(j),
         UNCHANGED <<builder, bad>>, j.status_ = it.status_
  PROVE  /\ j.end \in 0..Limit /\ Limit \in Nat
         /\ Parsed => j.end < Limit /\ OnEntry(it') /\ it'.end = j.end + 1
                      /\ it'.status_ = it.status_
         /\ ~Parsed /\ j.end < Limit => it' = Corrupt /\ bad # {}
         /\ ~Parsed /\ ~(j.end < Limit) => j.end = Limit /\ Off(it') /\ it'.status_ = it.status_
<1>1. /\ j.end \in 0..Limit /\ Moved(j, it') /\ (Parsed <=> j.end < Limit /\ j.end \notin bad)
  BY ParsingStep
<1>2. Limit \in Nat
  BY PointsOK DEF Inv
<1>3. QED
  BY <1>1, <1>2 DEF Moved

LEMMA SeekToFirstRefines == ASSUME Inv, Inv', SeekToFirst PROVE Cursor!Next
<1> DEFINE j == AtRestart(0)
<1>1. /\ pc = "idle" /\ pc' = "idle" /\ UNCHANGED <<builder, bad>> /\ it' = ParseNextKey(j)
      /\ strayed' = FALSE
  BY DEF SeekToFirst
<1>2. j \in Iter /\ AtStart(j) /\ j.end = 0 /\ j.status_ = it.status_
  <2>1. 0 \in 0..num_restarts_ - 1 /\ GetRestartPoint(0) = 0
    BY PointsOK DEF Inv
  <2>2. QED
    BY <2>1, AtRestartOK DEF Inv
<1> HIDE DEF j
<1>3. CASE ~Parsed /\ 0 < Limit
  BY <1>1, <1>2, <1>3, ParsedOrNot, Losing
<1>4. CASE Parsed \/ ~(0 < Limit)
  <2>1. /\ it'.status_ = it.status_ /\ Limit \in Nat
        /\ \/ 0 < Limit /\ OnEntry(it') /\ it'.end = 1
           \/ 0 = Limit /\ Off(it')
    BY <1>1, <1>2, <1>4, ParsedOrNot
  <2>2. Contents = {added[m] : m \in 0 + 1..Limit}
    BY DEF Contents, Inv, EntriesOK, Limit
  <2>3. /\ 0 = Limit => Cursor!IsLeast(NULL, Contents)
        /\ 0 < Limit => Cursor!IsLeast(added[1], Contents) /\ added[1] \in Contents
    BY <2>1, <2>2, After
  <2>4. /\ Contents' = Contents /\ UNCHANGED it.status_ /\ UNCHANGED (bad # {})
        /\ CursorOp' = "idle" /\ CursorArg' = NULL /\ CursorOp = "idle"
        /\ Off(it') => Shown' = NULL
        /\ OnEntry(it') => Shown' = added[it'.end]
    BY <1>1, <2>1, Showing, OpIs
  <2>5. Shown' \in Contents \cup {NULL} /\ Cursor!IsLeast(Shown', Contents)
    BY <2>1, <2>3, <2>4
  <2>6. Cursor!First
    BY <1>1, <2>4, <2>5 DEF Cursor!First, Cursor!Show
  <2>7. QED
    BY <2>6 DEF Cursor!Next
<1>5. QED
  BY <1>3, <1>4

\* Next goes on to the entry behind the one that is shown.
LEMMA ForwardRefines ==
  ASSUME Inv, Inv', pc = "idle", pc' = "idle", UNCHANGED <<builder, bad, strayed>>,
         OnEntry(it) \/ Revived(it), it'.status_ = it.status_,
         \/ it.end < Limit /\ (OnEntry(it') \/ Revived(it')) /\ it'.end = it.end + 1
         \/ it.end = Limit /\ Off(it')
  PROVE  Cursor!Next
<1>1. it.end \in 1..Limit /\ Shown = added[it.end] /\ Shown # NULL /\ Limit \in Nat
  BY ShownIs, PointsOK DEF Inv
<1> DEFINE n == it.end
           S == {f \in Contents : f.key > Shown.key}
<1>2. S = {added[m] : m \in n + 1..Limit}
  <2> DEFINE P == [f \in Contents |-> f.key > Shown.key]
  <2>1. n \in 0..Limit /\ P \in [Contents -> BOOLEAN]
    BY <1>1
  <2>2. \A m \in 1..Limit : added[m] \in Contents /\ added[m].key \in Int
    BY EntryOK DEF Contents, Inv
  <2>3. ASSUME NEW m \in 1..n PROVE ~P[added[m]]
    <3>1. m \in 1..Limit /\ (m < n \/ m = n)
      BY <1>1
    <3>2. m < n => added[m].key < added[n].key
      BY <1>1, <3>1 DEF Inv, EntriesOK, Limit
    <3>3. added[m].key \in Int /\ added[n].key \in Int /\ added[m] \in Contents
      BY <1>1, <2>2, <3>1
    <3>4. ~(added[m].key > added[n].key)
      BY <3>1, <3>2, <3>3
    <3>5. QED
      BY <1>1, <3>3, <3>4
  <2>4. ASSUME NEW m \in n + 1..Limit PROVE P[added[m]]
    <3>1. m \in 1..Limit /\ n < m
      BY <1>1
    <3>2. added[n].key < added[m].key
      BY <1>1, <3>1 DEF Inv, EntriesOK, Limit
    <3>3. QED
      BY <1>1, <2>2, <3>1, <3>2
  <2>5. S = {f \in Contents : P[f]}
    OBVIOUS
  <2> HIDE DEF P, n, S
  <2>6. QED
    BY <2>1, <2>3, <2>4, <2>5, Selected
<1> HIDE DEF S
<1>3. /\ it.end = Limit => Cursor!IsLeast(NULL, S)
      /\ it.end < Limit => Cursor!IsLeast(added[it.end + 1], S) /\ added[it.end + 1] \in Contents
  <2>1. n \in 0..Limit
    BY <1>1
  <2>2. QED
    BY <1>2, <2>1, After
<1>4. /\ Contents' = Contents /\ UNCHANGED it.status_ /\ UNCHANGED (bad # {})
      /\ CursorOp' = "idle" /\ CursorArg' = NULL /\ CursorOp = "idle"
      /\ Off(it') => Shown' = NULL
      /\ OnEntry(it') \/ Revived(it') => Shown' = added[it'.end]
  BY <1>1, Showing, OpIs
<1>5. Shown' \in Contents \cup {NULL} /\ Cursor!IsLeast(Shown', S)
  BY <1>1, <1>3, <1>4
<1>6. Cursor!Forward
  BY <1>1, <1>4, <1>5 DEF Cursor!Forward, Cursor!Show, S
<1>7. QED
  BY <1>6 DEF Cursor!Next

LEMMA IterNextRefines == ASSUME Inv, Inv', IterNext PROVE Cursor!Next
<1>1. /\ pc = "idle" /\ pc' = "idle" /\ UNCHANGED <<builder, bad>> /\ it \in Iter
      /\ strayed \in BOOLEAN /\ Limit \in Nat
  BY PointsOK DEF IterNext, Inv, TypeOK
<1>2. CASE Valid /\ ~strayed
  <2>1. OnEntry(it) /\ it' = ParseNextKey(it) /\ strayed' = strayed
    BY <1>1, <1>2, NextOnEntry
  <2>2. CASE ~Parsed /\ it.end < Limit
    BY <1>1, <2>1, <2>2, ParsedOrNot, Losing
  <2>3. CASE Parsed \/ ~(it.end < Limit)
    <3>1. /\ it'.status_ = it.status_
          /\ \/ it.end < Limit /\ OnEntry(it') /\ it'.end = it.end + 1
             \/ it.end = Limit /\ Off(it')
      BY <1>1, <2>1, <2>3, ParsedOrNot
    <3>2. QED
      BY <1>1, <2>1, <3>1, ForwardRefines
  <2>4. QED
    BY <2>2, <2>3
<1>3. CASE Valid /\ strayed
  <2>1. /\ Revived(it) /\ it.end \in 1..Limit /\ RevivedBy(it, it') /\ strayed' = strayed
        /\ it.key_ = KeyOf(it.end)
    BY <1>1, <1>3, NextElsewhere DEF Revived
  <2>2. CASE it.end < Limit /\ it' = Corrupt
    <3>1. bad # {}
      BY <2>1, <2>2 DEF RevivedBy
    <3>2. QED
      BY <1>1, <2>1, <2>2, <3>1, Losing
  <2>3. CASE ~(it.end < Limit /\ it' = Corrupt)
    <3>1. /\ it'.status_ = it.status_
          /\ \/ it.end < Limit /\ Revived(it') /\ it'.end = it.end + 1
             \/ it.end = Limit /\ Off(it')
      BY <1>1, <2>1, <2>3 DEF RevivedBy
    <3>2. QED
      BY <1>1, <2>1, <3>1, ForwardRefines
  <2>4. QED
    BY <2>2, <2>3
<1>4. CASE ~Valid
  <2>1. /\ Off(it) /\ (Off(it') \/ Revived(it')) /\ strayed' = TRUE
        /\ it'.status_ \in {it.status_, Corruption}
    BY <1>4, NextElsewhere
  <2>2. Shown = NULL /\ CursorOp = "idle" /\ CursorArg = NULL
    BY <1>1, <2>1, ShownIs, OpIs
  <2>3. /\ Contents' = Contents /\ UNCHANGED (bad # {})
        /\ CursorOp' = "idle" /\ CursorArg' = NULL
        /\ Off(it') => Shown' = NULL
        /\ Revived(it') => it'.end \in 1..Limit /\ Shown' = added[it'.end]
    BY <1>1, Showing
  <2>4. Shown' \in Contents \cup {NULL}
    <3>1. \A n \in 1..Limit : added[n] \in Contents
      BY DEF Contents, Inv, EntriesOK, Limit
    <3>2. QED
      BY <2>1, <2>3, <3>1
  <2>5. Cursor!Stray
    BY <2>1, <2>2, <2>3, <2>4 DEF Cursor!Stray
  <2>6. QED
    BY <2>5 DEF Cursor!Next
<1>5. QED
  BY <1>2, <1>3, <1>4

LEMMA SeekToLastParseRefines ==
  ASSUME Inv, Inv', SeekToLastParse PROVE Cursor!Next \/ UNCHANGED Cursor!vars
<1>1. /\ pc = "last" /\ UNCHANGED <<builder, bad>> /\ it' = ParseNextKey(it)
      /\ it \in Iter /\ (AtStart(it) \/ (OnEntry(it) /\ it.end < Limit))
      /\ strayed' = strayed
  BY DEF SeekToLastParse, Return, call, Inv, TypeOK, IterOK
<1>2. CASE Parsed /\ it'.end < Limit
  <2>1. pc' = "last" /\ UNCHANGED <<original, target>> /\ it'.status_ = it.status_
    BY <1>1, <1>2, ParsedOrNot DEF SeekToLastParse, call, locals
  <2>2. QED
    BY <1>1, <2>1, Pending
<1>3. CASE ~(Parsed /\ it'.end < Limit)
  <2>1. pc' = "idle"
    BY <1>3 DEF SeekToLastParse, Return
  <2>2. CASE ~Parsed /\ it.end < Limit
    BY <1>1, <2>1, <2>2, ParsedOrNot, Losing
  <2>3. CASE Parsed \/ ~(it.end < Limit)
    <3>1. /\ it'.status_ = it.status_ /\ Limit \in Nat /\ it.end \in 0..Limit
          /\ \/ it.end < Limit /\ OnEntry(it') /\ it'.end = it.end + 1 /\ Parsed
             \/ it.end = Limit /\ Off(it')
      BY <1>1, <2>3, ParsedOrNot
    <3>2. it.end = Limit => Limit = 0
      <4>1. ASSUME it.end = Limit PROVE AtStart(it) /\ it.restart_index_ \in 0..num_restarts_ - 1
        BY <1>1, <3>1, <4>1, PointsOK DEF AtStart, Iter, Inv
      <4>2. ASSUME it.end = Limit PROVE it.restart_index_ = 0
        <5>1. /\ it.restart_index_ > 0 => GetRestartPoint(it.restart_index_) < Limit
              /\ num_restarts_ \in Nat
          BY <4>1, <4>2, PointsOK DEF Inv
        <5>2. GetRestartPoint(it.restart_index_) = Limit
          BY <4>1, <4>2 DEF AtStart
        <5>3. QED
          BY <3>1, <4>1, <4>2, <5>1, <5>2
      <4>3. QED
        BY <4>1, <4>2, PointsOK DEF AtStart, Inv
    <3>3. /\ Limit > 0 => OnEntry(it') /\ it'.end = Limit
          /\ Limit = 0 => Off(it')
      BY <1>3, <3>1, <3>2
    <3>4. Contents = {added[m] : m \in 1..Limit}
      BY DEF Contents, Inv, EntriesOK, Limit
    <3>5. /\ Limit = 0 => Cursor!IsGreatest(NULL, Contents)
          /\ Limit > 0 => Cursor!IsGreatest(added[Limit], Contents) /\ added[Limit] \in Contents
      <4>1. Limit \in 0..Limit
        BY <3>1
      <4>2. QED
        BY <3>4, <4>1, UpTo
    <3>6. /\ Contents' = Contents /\ UNCHANGED it.status_ /\ UNCHANGED (bad # {})
          /\ CursorOp' = "idle" /\ CursorArg' = NULL /\ CursorOp = "last"
          /\ Off(it') => Shown' = NULL
          /\ OnEntry(it') => Shown' = added[it'.end]
      BY <1>1, <2>1, <3>1, Showing, OpIs
    <3>7. Shown' \in Contents \cup {NULL} /\ Cursor!IsGreatest(Shown', Contents)
      BY <3>1, <3>3, <3>5, <3>6
    <3>8. Cursor!Last
      BY <1>1, <3>6, <3>7 DEF Cursor!Last, Cursor!Show
    <3>9. QED
      BY <3>8 DEF Cursor!Next
  <2>4. QED
    BY <2>2, <2>3
<1>4. QED
  BY <1>2, <1>3

\* The entries before the one that Prev starts from.
LEMMA BeforeOriginal ==
  ASSUME Inv, pc \in {"back", "scan"}
  PROVE  LET S == {f \in Contents : f.key < CursorArg}
         IN /\ original \in Nat
            /\ original = 0 => Cursor!IsGreatest(NULL, S)
            /\ original > 0 => Cursor!IsGreatest(added[original], S)
                               /\ added[original] \in Contents
<1> DEFINE n == original
           S == {f \in Contents : f.key < CursorArg}
           P == [f \in Contents |-> ~(f.key < CursorArg)]
<1>1. /\ n \in 0..Limit /\ n < Limit /\ Limit \in Nat /\ CursorArg = added[n + 1].key
      /\ n + 1 \in 1..Limit
  BY PointsOK, OpIs DEF Inv, TypeOK, IterOK
<1>2. \A m \in 1..Limit : added[m] \in Contents /\ added[m].key \in Int
  BY EntryOK DEF Contents, Inv
<1>3. ASSUME NEW m \in 1..n PROVE ~P[added[m]]
  <2>1. m \in 1..Limit /\ m < n + 1
    BY <1>1
  <2>2. added[m].key < added[n + 1].key
    BY <1>1, <2>1 DEF Inv, EntriesOK, Limit
  <2>3. QED
    BY <1>1, <1>2, <2>1, <2>2
<1>4. ASSUME NEW m \in n + 1..Limit PROVE P[added[m]]
  <2>1. m \in 1..Limit /\ (n + 1 < m \/ m = n + 1)
    BY <1>1
  <2>2. n + 1 < m => added[n + 1].key < added[m].key
    BY <1>1, <2>1 DEF Inv, EntriesOK, Limit
  <2>3. ~(added[m].key < added[n + 1].key)
    <3>1. added[m].key \in Int /\ added[n + 1].key \in Int
      BY <1>1, <1>2, <2>1
    <3>2. QED
      BY <2>1, <2>2, <3>1
  <2>4. QED
    BY <1>1, <1>2, <2>1, <2>3
<1>5. S = {f \in Contents : ~P[f]} /\ P \in [Contents -> BOOLEAN]
  OBVIOUS
<1>6. S = {added[m] : m \in 1..n}
  <2> HIDE DEF P, S, n
  <2>1. QED
    BY <1>1, <1>3, <1>4, <1>5, Selected
<1> HIDE DEF S
<1>7. /\ n = 0 => Cursor!IsGreatest(NULL, S)
      /\ n > 0 => Cursor!IsGreatest(added[n], S) /\ added[n] \in Contents
  BY <1>1, <1>6, UpTo
<1>8. QED
  BY <1>1, <1>7 DEF S

LEMMA Stepping ==
  ASSUME Inv, Inv', pc \in {"back", "scan"}, UNCHANGED <<builder, bad>>, pc' = "idle",
         it'.status_ = it.status_,
         ~strayed, strayed' = strayed,
         \/ original = 0 /\ Off(it')
         \/ original > 0 /\ OnEntry(it') /\ it'.end = original
  PROVE  Cursor!Next
<1> DEFINE S == {f \in Contents : f.key < CursorArg}
<1>1. /\ original \in Nat
      /\ original = 0 => Cursor!IsGreatest(NULL, S)
      /\ original > 0 => Cursor!IsGreatest(added[original], S) /\ added[original] \in Contents
  BY BeforeOriginal
<1> HIDE DEF S
<1>2. /\ Contents' = Contents /\ UNCHANGED it.status_ /\ UNCHANGED (bad # {})
      /\ CursorOp' = "idle" /\ CursorArg' = NULL /\ CursorOp = "prev"
      /\ Off(it') => Shown' = NULL
      /\ OnEntry(it') => Shown' = added[it'.end]
  BY Showing, OpIs
<1>3. Shown' \in Contents \cup {NULL} /\ Cursor!IsGreatest(Shown', S)
  BY <1>1, <1>2
<1>4. Cursor!Back
  BY <1>2, <1>3 DEF Cursor!Back, Cursor!Show, S
<1>5. QED
  BY <1>4 DEF Cursor!Next

LEMMA PrevBackRefines ==
  ASSUME Inv, Inv', PrevBack PROVE Cursor!Next \/ UNCHANGED Cursor!vars
<1>1. /\ pc = "back" /\ UNCHANGED <<builder, bad>> /\ it \in Iter /\ it.current_ = original
      /\ original < Limit /\ original \in Nat /\ Limit \in Nat
      /\ ~strayed /\ strayed' = strayed /\ it.end = original + 1 /\ it.key_ = KeyOf(it.end)
  <2>1. strayed' = strayed
    BY DEF PrevBack, Return, call
  <2>2. num_restarts_ \in Nat /\ Limit \in Nat /\ pc = "back" /\ UNCHANGED <<builder, bad>>
        /\ it.restart_index_ < num_restarts_
    BY PointsOK DEF PrevBack, Inv
  <2>3. QED
    BY <2>1, <2>2 DEF Inv, TypeOK, IterOK
<1>2. CASE GetRestartPoint(it.restart_index_) >= it.current_ /\ NoMoreEntries
  <2>1. it' = PastEnd /\ pc' = "idle"
    BY <1>2 DEF PrevBack, Return
  <2>2. Off(it') /\ it'.status_ = it.status_
    <3>1. it.end # NULL
      BY <1>1, ConstantsAssumption
    <3>2. QED
      BY <1>1, <2>1, <3>1 DEF PastEnd, Off, Iter
  <2>3. original = 0
    <3>1. GetRestartPoint(0) = 0
      BY PointsOK DEF Inv
    <3>2. QED
      BY <1>1, <1>2, <3>1 DEF NoMoreEntries
  <2>4. QED
    BY <1>1, <2>1, <2>2, <2>3, Stepping
<1>3. CASE ~(GetRestartPoint(it.restart_index_) >= it.current_ /\ NoMoreEntries)
  <2>1. /\ UNCHANGED <<original, target>> /\ pc' \in {"back", "scan"}
        /\ \/ it' = [it EXCEPT !.restart_index_ = @ - 1] \/ it' = AtRestart(it.restart_index_)
    BY <1>1, <1>3 DEF PrevBack, call, locals
  <2>2. it'.status_ = it.status_
    BY <1>1, <2>1 DEF AtRestart, Iter
  <2>3. QED
    BY <1>1, <2>1, <2>2, Pending
<1>4. QED
  BY <1>2, <1>3

LEMMA PrevScanRefines ==
  ASSUME Inv, Inv', PrevScan PROVE Cursor!Next \/ UNCHANGED Cursor!vars
<1>1. /\ pc = "scan" /\ UNCHANGED <<builder, bad>> /\ it' = ParseNextKey(it)
      /\ it \in Iter /\ (AtStart(it) \/ OnEntry(it)) /\ it.end < original /\ original < Limit
      /\ original \in Nat /\ ~strayed /\ strayed' = strayed
  BY PointsOK DEF PrevScan, Return, call, Inv, TypeOK, IterOK, CallOK
<1>2. CASE Parsed /\ it'.end < original
  <2>1. pc' = "scan" /\ UNCHANGED <<original, target>> /\ it'.status_ = it.status_
    BY <1>1, <1>2, ParsedOrNot DEF PrevScan, call, locals
  <2>2. QED
    BY <1>1, <2>1, Pending
<1>3. CASE ~(Parsed /\ it'.end < original)
  <2>1. pc' = "idle"
    BY <1>3 DEF PrevScan, Return
  <2>2. it.end \in 0..Limit /\ Limit \in Nat /\ it.end < Limit
    BY <1>1, ParsedOrNot
  <2>3. CASE ~Parsed
    BY <1>1, <2>1, <2>2, <2>3, ParsedOrNot, Losing
  <2>4. CASE Parsed
    <3>1. it'.status_ = it.status_ /\ OnEntry(it') /\ it'.end = it.end + 1
      BY <1>1, <2>4, ParsedOrNot
    <3>2. it'.end = original /\ original > 0
      BY <1>1, <1>3, <2>2, <2>4, <3>1
    <3>3. QED
      BY <1>1, <2>1, <3>1, <3>2, Stepping
  <2>5. QED
    BY <2>3, <2>4
<1>4. QED
  BY <1>2, <1>3

LEMMA SeekSearchRefines ==
  ASSUME Inv, Inv', SeekSearch PROVE Cursor!Next \/ UNCHANGED Cursor!vars
<1>1. pc = "search" /\ UNCHANGED <<builder, bad>> /\ it \in Iter /\ strayed' = strayed
  BY DEF SeekSearch, Return, call, Inv, TypeOK
<1> DEFINE m == GetRestartPoint(Middle(left, right))
           e == DecodeEntry(m)
<1>2. CASE left >= right
  <2>1. pc' = "linear" /\ UNCHANGED <<original, target>> /\ it' = AtRestart(left)
    BY <1>2 DEF SeekSearch, call, locals
  <2>2. it'.status_ = it.status_
    BY <1>1, <2>1 DEF AtRestart, Iter
  <2>3. QED
    BY <1>1, <2>1, <2>2, Pending
<1>3. CASE ~(left >= right) /\ (e = NULL \/ e.shared # 0)
  <2>1. it' = Corrupt /\ pc' = "idle"
    BY <1>3 DEF SeekSearch, Return
  <2>2. bad # {}
    <3>1. /\ left \in Nat /\ right \in Nat /\ right < num_restarts_ /\ left < right
          /\ num_restarts_ \in Nat
      BY <1>1, <1>3, PointsOK DEF Inv, TypeOK, CallOK
    <3>2. Middle(left, right) \in 0..num_restarts_ - 1 /\ Middle(left, right) > 0
      BY <3>1 DEF Middle
    <3>3. m < Limit
      BY <3>2, PointsOK DEF Inv
    <3>4. m \in bad
      BY <1>3, <3>2, <3>3, RestartEntry DEF Inv
    <3>5. QED
      BY <3>4
  <2>3. QED
    BY <1>1, <2>1, <2>2, Losing
<1>4. CASE ~(left >= right) /\ ~(e = NULL \/ e.shared # 0)
  <2>1. UNCHANGED <<it, pc, original, target>>
    BY <1>4 DEF SeekSearch
  <2>2. QED
    BY <1>1, <2>1, Pending
<1>5. QED
  BY <1>2, <1>3, <1>4

LEMMA SeekLinearRefines ==
  ASSUME Inv, Inv', SeekLinear PROVE Cursor!Next \/ UNCHANGED Cursor!vars
<1>1. /\ pc = "linear" /\ UNCHANGED <<builder, bad>> /\ it' = ParseNextKey(it)
      /\ it \in Iter /\ (AtStart(it) \/ OnEntry(it)) /\ target \in Keys /\ target \in Int
      /\ strayed' = strayed /\ \A n \in 1..it.end : added[n].key < target
  <2>1. strayed' = strayed
    BY DEF SeekLinear, Return, call
  <2>2. QED
    BY <2>1, ConstantsAssumption DEF SeekLinear, Inv, TypeOK, IterOK, CallOK
<1>2. CASE Parsed /\ IsBefore(it'.key_, target)
  <2>1. pc' = "linear" /\ UNCHANGED <<original, target>> /\ it'.status_ = it.status_
    BY <1>1, <1>2, ParsedOrNot DEF SeekLinear, call, locals
  <2>2. QED
    BY <1>1, <2>1, Pending
<1>3. CASE ~(Parsed /\ IsBefore(it'.key_, target))
  <2>1. pc' = "idle"
    BY <1>3 DEF SeekLinear, Return
  <2>2. CASE ~Parsed /\ it.end < Limit
    BY <1>1, <2>1, <2>2, ParsedOrNot, Losing
  <2>3. CASE Parsed \/ ~(it.end < Limit)
    <3>1. /\ it'.status_ = it.status_ /\ Limit \in Nat /\ it.end \in 0..Limit
          /\ \/ it.end < Limit /\ OnEntry(it') /\ it'.end = it.end + 1 /\ Parsed
             \/ it.end = Limit /\ Off(it')
      BY <1>1, <2>3, ParsedOrNot
    <3> DEFINE n == it.end
               S == {f \in Contents : f.key >= CursorArg}
    <3>2. n < Limit => ~(added[n + 1].key < target)
      <4> SUFFICES ASSUME n < Limit PROVE ~(added[n + 1].key < target)
        OBVIOUS
      <4>1. n + 1 \in 1..Limit
        BY <3>1
      <4>2. it'.key_ = KeyOf(n + 1) /\ ~IsBefore(it'.key_, target)
        BY <1>3, <3>1 DEF OnEntry
      <4>3. QED
        BY <1>1, <4>1, <4>2, BeforeIs DEF Inv
    <3>3. S = {added[m] : m \in n + 1..Limit}
      <4> DEFINE P == [f \in Contents |-> f.key >= CursorArg]
      <4>1. n \in 0..Limit /\ P \in [Contents -> BOOLEAN] /\ CursorArg = target
        BY <1>1, <3>1, OpIs
      <4>2. \A m \in 1..Limit : added[m] \in Contents /\ added[m].key \in Int
        BY EntryOK DEF Contents, Inv
      <4>3. ASSUME NEW m \in 1..n PROVE ~P[added[m]]
        <5>1. m \in 1..Limit /\ added[m].key < target
          BY <1>1, <3>1
        <5>2. ~(added[m].key >= target) /\ added[m] \in Contents
          BY <1>1, <4>2, <5>1
        <5>3. QED
          BY <4>1, <5>2
      <4>4. ASSUME NEW m \in n + 1..Limit PROVE P[added[m]]
        <5>1. m \in 1..Limit /\ n + 1 \in 1..Limit /\ (n + 1 < m \/ m = n + 1) /\ n < Limit
          BY <3>1
        <5>2. n + 1 < m => added[n + 1].key < added[m].key
          BY <5>1 DEF Inv, EntriesOK, Limit
        <5>3. added[m].key \in Int /\ added[n + 1].key \in Int
          BY <4>2, <5>1
        <5>4. added[m].key >= target
          BY <1>1, <3>2, <5>1, <5>2, <5>3
        <5>5. QED
          BY <4>1, <4>2, <5>1, <5>4
      <4>5. S = {f \in Contents : P[f]}
        OBVIOUS
      <4> HIDE DEF P, n, S
      <4>6. QED
        BY <4>1, <4>3, <4>4, <4>5, Selected
    <3> HIDE DEF S
    <3>4. /\ it.end = Limit => Cursor!IsLeast(NULL, S)
          /\ it.end < Limit =>
               Cursor!IsLeast(added[it.end + 1], S) /\ added[it.end + 1] \in Contents
      <4>1. n \in 0..Limit
        BY <3>1
      <4>2. QED
        BY <3>3, <4>1, After
    <3>5. /\ Contents' = Contents /\ UNCHANGED it.status_ /\ UNCHANGED (bad # {})
          /\ CursorOp' = "idle" /\ CursorArg' = NULL /\ CursorOp = "seek"
          /\ Off(it') => Shown' = NULL
          /\ OnEntry(it') => Shown' = added[it'.end]
      BY <1>1, <2>1, <3>1, Showing, OpIs
    <3>6. Shown' \in Contents \cup {NULL} /\ Cursor!IsLeast(Shown', S)
      BY <3>1, <3>4, <3>5
    <3>7. Cursor!Seek
      BY <1>1, <3>5, <3>6 DEF Cursor!Seek, Cursor!Show, S
    <3>8. QED
      BY <3>7 DEF Cursor!Next
  <2>4. QED
    BY <2>2, <2>3
<1>4. QED
  BY <1>2, <1>3

LEMMA InitRefines == Init => Cursor!Init
<1> SUFFICES ASSUME Init PROVE Cursor!Init
  OBVIOUS
<1>1. Contents = {}
  BY DEF Init, Contents
<1>2. Shown = NULL /\ it.status_ = OK /\ (bad # {}) = FALSE
  BY DEF Init, Shown, Fresh
<1>3. strayed = FALSE /\ CursorOp = "idle" /\ CursorArg = NULL
  BY DEF Init, CursorOp, CursorArg
<1>4. QED
  BY <1>1, <1>2, <1>3 DEF Cursor!Init

LEMMA NextRefines == Inv /\ Inv' /\ [Next]_vars => [Cursor!Next]_(Cursor!vars)
<1> SUFFICES ASSUME Inv, Inv', [Next]_vars PROVE Cursor!Next \/ UNCHANGED Cursor!vars
  OBVIOUS
<1>1. CASE UNCHANGED vars
  <2>1. UNCHANGED <<added, bad, it, pc, original, target, strayed>> /\ UNCHANGED buffer_
    BY <1>1 DEF vars, builder, call, locals
  <2>2. UNCHANGED <<Contents, Shown, it.status_, bad # {}, CursorOp, CursorArg>>
    BY <2>1 DEF Contents, Shown, Valid, Limit, CursorOp, CursorArg
  <2>3. QED
    BY <2>1, <2>2 DEF Cursor!vars
<1>2. CASE Next
  BY <1>1, <1>2, AddRefines, BuilderRefines, DamageRefines, ResetRefines, NewIteratorRefines,
     SeekToFirstRefines, IterNextRefines, SeekToLastRefines, SeekToLastParseRefines,
     PrevRefines, PrevBackRefines, PrevAbortsRefines, PrevScanRefines, SeekRefines,
     SeekSearchRefines, SeekLinearRefines DEF Next, Aborted
<1>3. QED
  BY <1>1, <1>2

\* A block that was built with any restart intervals is, through its iterator, the
\* sorted set of the entries that were added: every call shows the entry it has
\* to, and damage that it meets leaves nothing shown and the status Corruption.  A
\* Next that is called while nothing is shown may show any entry.
THEOREM Refinement == Spec => ImplementsCursor
<1>1. Init => Cursor!Init
  BY InitRefines
<1>2. Inv /\ Inv' /\ [Next]_vars => [Cursor!Next]_(Cursor!vars)
  BY NextRefines
<1>3. QED
  BY <1>1, <1>2, Invariance, PTL DEF Spec, ImplementsCursor, Cursor!Spec
=============================================================================
