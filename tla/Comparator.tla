----------------------------- MODULE Comparator -----------------------------
(***************************************************************************)
(* util/comparator.cpp and the InternalKeyComparator of db/dbformat.cpp:   *)
(* the orders, and the two functions that shorten a key for the index of a *)
(* table.  A key is shortened any number of times, each time against the   *)
(* same limit.                                                             *)
(*                                                                         *)
(* A key is a sequence of bytes.  An internal key ends in TagLength bytes  *)
(* of tag: a number with its low byte first, as memcpy leaves it on a      *)
(* little-endian machine; the low byte is the type.                        *)
(***************************************************************************)
EXTENDS Integers, Sequences, FiniteSetsExt

CONSTANTS
  MaxByte,       \* 0xff
  MaxLength,     \* bound: the bytes of a user key
  TagLength,     \* 8
  Comparators,   \* those in use, of "bytewise" and "internal"
  Shortened      \* the comparators whose FindShortSuccessor is called

ASSUME ConstantsAssumption ==
  /\ MaxByte \in Nat \ {0} /\ MaxLength \in Nat /\ TagLength \in Nat \ {0}
  /\ Shortened \subseteq Comparators /\ Comparators \subseteq {"bytewise", "internal"}

VARIABLES
  comparator,    \* the comparator in use
  first,         \* the key as it was given
  limit,         \* the key it has to stay before
  bounded,       \* whether it has to: no FindShortSuccessor yet
  key            \* the key as it is now

vars == <<comparator, first, limit, bounded, key>>

Byte == 0..MaxByte
UserKey == UNION {[1..n -> Byte] : n \in 0..MaxLength}
kTypes == {0, 1}
Tag == {t \in [1..TagLength -> Byte] : t[1] \in kTypes}
InternalKey == {u \o t : u \in UserKey, t \in Tag}

-----------------------------------------------------------------------------
(* Slice::compare and the bytewise comparator.                             *)

\* The length of the common prefix of a and b.
DiffIndex(a, b) ==
  Max({n \in 0..Len(a) : n <= Len(b) /\ \A m \in 1..n : a[m] = b[m]})

BytewiseBefore(a, b) ==
  LET n == DiffIndex(a, b)
  IN n < Len(b) /\ (n = Len(a) \/ a[n + 1] < b[n + 1])

\* The first n bytes of k, the last of them incremented.
Bump(k, n) == [SubSeq(k, 1, n) EXCEPT ![n] = @ + 1]

\* Defect: the incremented byte may be that of the limit.
SeparatorReachingLimit(start, bound) ==
  LET n == DiffIndex(start, bound) + 1
  IN IF /\ n <= Len(start) /\ n <= Len(bound)
        /\ start[n] < MaxByte /\ start[n] + 1 <= bound[n]
       THEN Bump(start, n) ELSE start

\* BytewiseComparatorImpl::FindShortestSeparator
Separator(start, bound) ==
  LET n == DiffIndex(start, bound) + 1
  IN IF /\ n <= Len(start) /\ n <= Len(bound)
        /\ start[n] < MaxByte /\ start[n] + 1 < bound[n]
       THEN Bump(start, n) ELSE start

\* FindShortSuccessor of either comparator: internal keys are cut as if they
\* were user keys.
Successor(k) ==
  LET Can == {n \in 1..Len(k) : k[n] # MaxByte}
  IN IF Can = {} THEN k ELSE Bump(k, Min(Can))

-----------------------------------------------------------------------------
(* Internal keys.                                                          *)

ExtractUserKey(k) == SubSeq(k, 1, Len(k) - TagLength)

TagOf(k) == SubSeq(k, Len(k) - TagLength + 1, Len(k))

\* DecodeFixed64(s) < DecodeFixed64(t)
Smaller(s, t) == \E n \in 1..TagLength :
                   s[n] < t[n] /\ \A m \in (n + 1)..TagLength : s[m] = t[m]

InternalBefore(a, b) ==
  \/ BytewiseBefore(ExtractUserKey(a), ExtractUserKey(b))
  \/ ExtractUserKey(a) = ExtractUserKey(b) /\ Smaller(TagOf(b), TagOf(a))

\* PackSequenceAndType(kMaxSequenceNumber, kValueTypeForSeek)
EarliestTag == [n \in 1..TagLength |-> IF n = 1 THEN 1 ELSE MaxByte]

\* Defect: a user key that did not get shorter gets the earliest tag, too.
InternalSeparatorRetagging(start, bound) ==
  Separator(ExtractUserKey(start), ExtractUserKey(bound)) \o EarliestTag

\* InternalKeyComparator::FindShortestSeparator
InternalSeparator(start, bound) ==
  LET user == ExtractUserKey(start)
      tmp == Separator(user, ExtractUserKey(bound))
  IN IF Len(tmp) < Len(user) /\ BytewiseBefore(user, tmp)
       THEN tmp \o EarliestTag ELSE start

Before(c, a, b) == IF c = "bytewise" THEN BytewiseBefore(a, b) ELSE InternalBefore(a, b)

-----------------------------------------------------------------------------
Init ==
  /\ comparator \in Comparators
  /\ LET Given == IF comparator = "bytewise" THEN UserKey ELSE InternalKey
     IN /\ first \in Given
        /\ limit \in {l \in Given : Before(comparator, first, l)}
  /\ key = first /\ bounded = TRUE

FindShortestSeparator ==
  /\ bounded
  /\ key' = IF comparator = "bytewise" THEN Separator(key, limit)
                                       ELSE InternalSeparator(key, limit)
  /\ UNCHANGED <<comparator, first, limit, bounded>>

\* On an internal key that is shorter than its tag nothing can be called.
FindShortSuccessor ==
  /\ comparator \in Shortened
  /\ comparator = "internal" => Len(key) >= TagLength
  /\ key' = Successor(key)
  /\ bounded' = FALSE
  /\ UNCHANGED <<comparator, first, limit>>

Next == FindShortestSeparator \/ FindShortSuccessor

Spec == Init /\ [][Next]_vars

-----------------------------------------------------------------------------
\* What ExtractUserKey asserts of an internal key (dbformat.h:28).
WellFormed == comparator = "internal" => Len(key) >= TagLength

\* However often a key is shortened, it stays a key of its kind that is not
\* before the key it stands for: every entry of the block that it closes is at
\* or before it.
NotBeforeFirst == WellFormed /\ ~Before(comparator, key, first)

\* Without FindShortSuccessor it stays before the limit, the first key of the
\* block behind it.
BeforeLimit == bounded => Before(comparator, key, limit)

-----------------------------------------------------------------------------
(* The inductive invariant.                                                *)

IsKey(k) == k \in Seq(Byte) /\ (comparator = "internal" => Len(k) >= TagLength)

\* FindShortSuccessor may destroy an internal key, after which nothing is
\* promised.
Inv ==
  /\ comparator \in Comparators /\ (~bounded => comparator \in Shortened)
  /\ IsKey(first) /\ IsKey(limit) /\ BeforeLimit
  /\ bounded \/ comparator = "bytewise" => IsKey(key) /\ NotBeforeFirst
=============================================================================
