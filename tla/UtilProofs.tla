----------------------------- MODULE UtilProofs -----------------------------
(***************************************************************************)
(* Components of util/, and format.cpp, which is built on them: what the   *)
(* comparators' shortened keys may be, for every byte range, tag length    *)
(* and set of keys; that what is written with varints is read back, for    *)
(* every width of bytes and words; that Unmask inverts Mask; that Extend,  *)
(* with its tables and strides, computes the checksum by its definition    *)
(* and tells any two octets apart, for every polynomial with its highest  *)
(* coefficient and every width; and what of a file of blocks is accepted.  *)
(***************************************************************************)
EXTENDS Comparator, Format, SequenceTheorems, FiniteSetTheorems, WellFoundedInduction, TLAPS

-----------------------------------------------------------------------------
(* Comparator.                                                             *)

\* A set of numbers has a least one.
LEMMA LeastOfNaturals ==
  ASSUME NEW T, T \subseteq Nat, T # {}
  PROVE  \E x \in T : \A y \in T : x <= y
<1>1. PICK x \in T : \A y \in T : ~(<<y, x>> \in OpToRel(<, Nat))
  BY NatLessThanWellFounded, WFMin, Zenon
<1>2. ASSUME NEW y \in T PROVE x <= y
  <2>1. ~(y < x)
    BY <1>1 DEF OpToRel
  <2>2. QED
    BY <2>1
<1>3. QED
  BY <1>2

\* The largest element of a bounded set, which is the one with the smallest gap.
LEMMA MaxOK ==
  ASSUME NEW T, NEW l \in Nat, T \subseteq 0..l, T # {}
  PROVE  Max(T) \in T /\ \A y \in T : y <= Max(T)
<1> DEFINE gaps == {l - n : n \in T}
<1>1. gaps \subseteq Nat /\ gaps # {}
  <2>1. PICK t \in T : TRUE
    OBVIOUS
  <2>2. l - t \in gaps
    OBVIOUS
  <2>3. \A n \in T : l - n \in Nat
    OBVIOUS
  <2>4. QED
    BY <2>2, <2>3
<1>2. PICK d \in gaps : \A x \in gaps : d <= x
  <2> HIDE DEF gaps
  <2>1. QED
    BY <1>1, LeastOfNaturals
<1>3. PICK p \in T : d = l - p
  OBVIOUS
<1>4. \A n \in T : p >= n
  <2> SUFFICES ASSUME NEW n \in T PROVE p >= n
    OBVIOUS
  <2>1. l - n \in gaps /\ p \in Nat /\ n \in Nat
    OBVIOUS
  <2>2. d <= l - n
    BY <1>2, <2>1
  <2>3. QED
    BY <1>3, <2>1, <2>2
<1>5. Max(T) = CHOOSE x \in T : \A y \in T : x >= y
  BY DEF Max
<1>6. Max(T) \in T /\ \A y \in T : Max(T) >= y
  BY <1>4, <1>5
<1>7. QED
  BY <1>6

\* The smallest element.
LEMMA MinOK ==
  ASSUME NEW T, T \subseteq Nat, T # {}
  PROVE  Min(T) \in T /\ \A y \in T : Min(T) <= y
<1>1. \E x \in T : \A y \in T : x <= y
  BY LeastOfNaturals
<1>2. Min(T) = CHOOSE x \in T : \A y \in T : x <= y
  BY DEF Min
<1>3. QED
  BY <1>1, <1>2

\* a and b agree on n bytes.
Agree(a, b, n) == n \in 0..Len(a) /\ n <= Len(b) /\ \A m \in 1..n : a[m] = b[m]

\* The two loops that look for the first difference stop at the longest prefix.
LEMMA DiffIndexOK ==
  ASSUME NEW a \in Seq(Byte), NEW b \in Seq(Byte)
  PROVE  /\ Agree(a, b, DiffIndex(a, b))
         /\ \A n : Agree(a, b, n) => n <= DiffIndex(a, b)
<1> DEFINE T == {n \in 0..Len(a) : n <= Len(b) /\ \A m \in 1..n : a[m] = b[m]}
<1>1. Len(a) \in Nat /\ Len(b) \in Nat
  BY LenProperties
<1>2. T \subseteq 0..Len(a) /\ 0 \in T
  BY <1>1
<1>3. DiffIndex(a, b) = Max(T)
  BY DEF DiffIndex
<1>4. \A n : Agree(a, b, n) <=> n \in T
  BY DEF Agree
<1> HIDE DEF T
<1>5. Max(T) \in T /\ \A y \in T : y <= Max(T)
  BY <1>1, <1>2, MaxOK
<1>6. QED
  BY <1>3, <1>4, <1>5

\* BytewiseBefore, with any common prefix that decides.
Decides(a, b, n) ==
  Agree(a, b, n) /\ n < Len(b) /\ (n = Len(a) \/ (n < Len(a) /\ a[n + 1] < b[n + 1]))

\* The bytes of a key.
LEMMA ByteOf ==
  ASSUME NEW a \in Seq(Byte)
  PROVE  Len(a) \in Nat /\ \A n \in 1..Len(a) : a[n] \in Byte /\ a[n] \in Int
BY LenProperties, ElementOfSeq, ConstantsAssumption DEF Byte

\* What compare decides by the longest common prefix, any prefix may decide.
LEMMA BeforeIs ==
  ASSUME NEW a \in Seq(Byte), NEW b \in Seq(Byte)
  PROVE  BytewiseBefore(a, b) <=> \E n \in Nat : Decides(a, b, n)
<1> DEFINE d == DiffIndex(a, b)
<1>1. /\ Len(a) \in Nat /\ Len(b) \in Nat
      /\ (\A n \in 1..Len(a) : a[n] \in Int) /\ (\A n \in 1..Len(b) : b[n] \in Int)
  BY ByteOf
<1>2. Agree(a, b, d) /\ \A n : Agree(a, b, n) => n <= d
  BY DiffIndexOK
<1>3. BytewiseBefore(a, b) <=> d < Len(b) /\ (d = Len(a) \/ a[d + 1] < b[d + 1])
  BY DEF BytewiseBefore
<1> HIDE DEF d
<1>4. d \in 0..Len(a) /\ d <= Len(b) /\ d \in Nat
  BY <1>1, <1>2 DEF Agree
<1>5. BytewiseBefore(a, b) => Decides(a, b, d)
  BY <1>1, <1>2, <1>3, <1>4 DEF Decides
<1>6. ASSUME NEW n \in Nat, Decides(a, b, n) PROVE BytewiseBefore(a, b)
  <2>1. /\ Agree(a, b, n) /\ n < Len(b) /\ n \in 0..Len(a)
        /\ (n = Len(a) \/ (n < Len(a) /\ a[n + 1] < b[n + 1]))
    BY <1>6 DEF Decides, Agree
  <2>2. n <= d
    BY <1>2, <2>1
  <2>3. n = d
    <3>1. CASE n < d
      <4>1. n + 1 \in 1..d /\ n < Len(a) /\ n + 1 \in 1..Len(a)
        BY <1>4, <3>1
      <4>2. a[n + 1] = b[n + 1] /\ a[n + 1] \in Int
        BY <1>1, <1>2, <4>1 DEF Agree
      <4>3. QED
        BY <2>1, <4>1, <4>2
    <3>2. QED
      BY <1>4, <2>2, <3>1
  <2>4. QED
    BY <1>3, <2>1, <2>3
<1>7. QED
  BY <1>4, <1>5, <1>6

\* memcmp and the lengths make a strict order: no key is before itself,
LEMMA Irreflexive == ASSUME NEW a \in Seq(Byte) PROVE ~BytewiseBefore(a, a)
<1>1. ASSUME NEW n \in Nat, Decides(a, a, n) PROVE FALSE
  <2>1. n + 1 \in 1..Len(a) /\ a[n + 1] < a[n + 1]
    BY <1>1, ByteOf DEF Decides, Agree
  <2>2. a[n + 1] \in Int
    BY <2>1, ByteOf
  <2>3. QED
    BY <2>1, <2>2
<1>2. QED
  BY <1>1, BeforeIs

\* and a key before a key before a third is before the third.
LEMMA Transitive ==
  ASSUME NEW a \in Seq(Byte), NEW b \in Seq(Byte), NEW c \in Seq(Byte),
         BytewiseBefore(a, b), BytewiseBefore(b, c)
  PROVE  BytewiseBefore(a, c)
<1>1. PICK p \in Nat : Decides(a, b, p)
  BY BeforeIs
<1>2. PICK q \in Nat : Decides(b, c, q)
  BY BeforeIs
<1>3. /\ Len(a) \in Nat /\ Len(b) \in Nat /\ Len(c) \in Nat
      /\ \A n \in 1..Len(a) : a[n] \in Int
  BY ByteOf
<1>4. (\A n \in 1..Len(b) : b[n] \in Int) /\ (\A n \in 1..Len(c) : c[n] \in Int)
  BY ByteOf
<1>5. /\ p <= Len(a) /\ p < Len(b) /\ \A m \in 1..p : a[m] = b[m]
      /\ p = Len(a) \/ (p < Len(a) /\ a[p + 1] < b[p + 1])
  BY <1>1 DEF Decides, Agree
<1>6. /\ q <= Len(b) /\ q < Len(c) /\ \A m \in 1..q : b[m] = c[m]
      /\ q = Len(b) \/ (q < Len(b) /\ b[q + 1] < c[q + 1])
  BY <1>2 DEF Decides, Agree
<1>7. CASE p <= q
  <2>1. \A m \in 1..p : a[m] = c[m]
    BY <1>5, <1>6, <1>7
  <2>2. p < Len(c) /\ p \in 0..Len(a) /\ p <= Len(c)
    BY <1>3, <1>5, <1>6, <1>7
  <2>3. p = Len(a) \/ (p < Len(a) /\ a[p + 1] < c[p + 1])
    <3> SUFFICES ASSUME p < Len(a), a[p + 1] < b[p + 1] PROVE a[p + 1] < c[p + 1]
      BY <1>5
    <3>1. p + 1 \in 1..Len(a) /\ p + 1 \in 1..Len(b) /\ p + 1 \in 1..Len(c)
      BY <1>3, <1>5, <2>2
    <3>2. CASE p < q
      <4>1. p + 1 \in 1..q
        BY <3>2
      <4>2. QED
        BY <1>6, <4>1
    <3>3. CASE p = q
      <4>1. b[p + 1] < c[p + 1]
        BY <1>3, <1>5, <1>6, <3>3
      <4>2. a[p + 1] \in Int /\ b[p + 1] \in Int /\ c[p + 1] \in Int
        BY <1>3, <1>4, <3>1
      <4>3. QED
        BY <4>1, <4>2
    <3>4. QED
      BY <1>7, <3>2, <3>3
  <2>4. Decides(a, c, p)
    BY <2>1, <2>2, <2>3 DEF Decides, Agree
  <2>5. QED
    BY <2>4, BeforeIs
<1>8. CASE q < p
  <2>1. \A m \in 1..q : a[m] = c[m]
    <3>1. \A m \in 1..q : m \in 1..p
      BY <1>8
    <3>2. QED
      BY <1>5, <1>6, <3>1
  <2>2. q + 1 \in 1..p /\ q < Len(a) /\ q < Len(b) /\ q \in 0..Len(a) /\ q <= Len(c)
    BY <1>3, <1>5, <1>6, <1>8
  <2>3. a[q + 1] = b[q + 1] /\ b[q + 1] < c[q + 1]
    BY <1>3, <1>5, <1>6, <2>2
  <2>4. Decides(a, c, q)
    BY <1>6, <2>1, <2>2, <2>3 DEF Decides, Agree
  <2>5. QED
    BY <2>4, BeforeIs
<1>9. QED
  BY <1>7, <1>8

\* A byte incremented, and what is behind it cut off, makes a later key.
LEMMA BumpOK ==
  ASSUME NEW k \in Seq(Byte), NEW n \in 1..Len(k), k[n] < MaxByte
  PROVE  /\ Bump(k, n) \in Seq(Byte) /\ Len(Bump(k, n)) = n
         /\ \A m \in 1..n - 1 : Bump(k, n)[m] = k[m]
         /\ Bump(k, n)[n] = k[n] + 1
         /\ BytewiseBefore(k, Bump(k, n))
<1> DEFINE f == SubSeq(k, 1, n)
           s == Bump(k, n)
<1>1. /\ Len(k) \in Nat /\ n \in Nat /\ MaxByte \in Nat
      /\ \A m \in 1..Len(k) : k[m] \in Byte /\ k[m] \in Int
  BY ByteOf, ConstantsAssumption
<1>2. f \in Seq(Byte) /\ Len(f) = n /\ \A m \in 1..n : f[m] = k[m]
  <2>1. \A m \in 1..n : k[m] \in Byte
    BY <1>1
  <2>2. /\ f \in Seq(Byte) /\ Len(f) = IF 1 <= n THEN n - 1 + 1 ELSE 0
        /\ \A m \in 1..n - 1 + 1 : f[m] = k[1 + m - 1]
    BY <1>1, <2>1, SubSeqProperties
  <2>3. 1..n - 1 + 1 = 1..n /\ (\A m \in 1..n : 1 + m - 1 = m)
        /\ (IF 1 <= n THEN n - 1 + 1 ELSE 0) = n
    BY <1>1
  <2>4. QED
    BY <2>2, <2>3
<1> HIDE DEF f
<1>3. k[n] + 1 \in Byte /\ k[n] < k[n] + 1
  BY <1>1 DEF Byte
<1>4. s = [f EXCEPT ![n] = f[n] + 1]
  BY DEF Bump, f
<1>5. f[n] = k[n] /\ n \in 1..n
  BY <1>1, <1>2
<1> HIDE DEF s
<1>6. s \in Seq(Byte) /\ Len(s) = n /\ s[n] = k[n] + 1 /\ \A m \in 1..n : m # n => s[m] = k[m]
  BY <1>2, <1>3, <1>4, <1>5, ExceptSeq
<1>7. \A m \in 1..n - 1 : s[m] = k[m]
  BY <1>1, <1>6
<1>8. Decides(k, s, n - 1)
  <2>1. /\ n - 1 \in 0..Len(k) /\ n - 1 <= Len(s) /\ n - 1 < Len(s) /\ n - 1 < Len(k)
        /\ n - 1 + 1 = n
    BY <1>1, <1>6
  <2>2. QED
    BY <1>3, <1>6, <1>7, <2>1 DEF Decides, Agree
<1>9. BytewiseBefore(k, s)
  BY <1>1, <1>6, <1>8, BeforeIs
<1>10. QED
  BY <1>6, <1>7, <1>9 DEF s

\* A separator is the key itself, or strictly between the key and the limit.
THEOREM SeparatorOK ==
  ASSUME NEW start \in Seq(Byte), NEW bound \in Seq(Byte)
  PROVE  /\ Separator(start, bound) \in Seq(Byte)
         /\ \/ Separator(start, bound) = start
            \/ /\ BytewiseBefore(start, Separator(start, bound))
               /\ BytewiseBefore(Separator(start, bound), bound)
<1> DEFINE d == DiffIndex(start, bound)
           n == d + 1
           s == Bump(start, n)
           C == /\ n <= Len(start) /\ n <= Len(bound)
                /\ start[n] < MaxByte /\ start[n] + 1 < bound[n]
<1>1. Separator(start, bound) = IF C THEN s ELSE start
  BY DEF Separator
<1>2. CASE ~C
  BY <1>1, <1>2
<1>3. CASE C
  <2>1. /\ Len(start) \in Nat /\ Len(bound) \in Nat /\ d \in 0..Len(start) /\ d <= Len(bound)
        /\ \A m \in 1..d : start[m] = bound[m]
    BY ByteOf, DiffIndexOK DEF Agree
  <2> HIDE DEF d
  <2>2. /\ n \in 1..Len(start) /\ n \in 1..Len(bound) /\ start[n] < MaxByte
        /\ start[n] + 1 < bound[n] /\ n - 1 = d /\ d \in Nat /\ d < Len(bound) /\ n \in Nat
    BY <1>3, <2>1
  <2> HIDE DEF n, s, C
  <2>3. /\ s \in Seq(Byte) /\ Len(s) = n /\ \A m \in 1..n - 1 : s[m] = start[m]
        /\ s[n] = start[n] + 1 /\ BytewiseBefore(start, s)
    BY <2>2, BumpOK DEF s
  <2>4. Decides(s, bound, d)
    <3>1. d + 1 = n /\ d \in 0..Len(s) /\ d < Len(s) /\ d <= Len(bound)
      BY <2>1, <2>2, <2>3 DEF n
    <3>2. \A m \in 1..d : s[m] = bound[m]
      BY <2>1, <2>2, <2>3
    <3>3. s[d + 1] < bound[d + 1]
      BY <2>2, <2>3, <3>1
    <3>4. QED
      BY <2>2, <3>1, <3>2, <3>3 DEF Decides, Agree
  <2>5. BytewiseBefore(s, bound)
    BY <2>2, <2>3, <2>4, BeforeIs
  <2>6. QED
    BY <1>1, <1>3, <2>3, <2>5
<1>4. QED
  BY <1>2, <1>3

\* A successor is the key itself or later.
LEMMA SuccessorOK ==
  ASSUME NEW k \in Seq(Byte)
  PROVE  /\ Successor(k) \in Seq(Byte)
         /\ Successor(k) = k \/ BytewiseBefore(k, Successor(k))
<1> DEFINE Can == {n \in 1..Len(k) : k[n] # MaxByte}
<1>1. Successor(k) = IF Can = {} THEN k ELSE Bump(k, Min(Can))
  BY DEF Successor
<1>2. CASE Can = {}
  BY <1>1, <1>2
<1>3. CASE Can # {}
  <2> DEFINE n == Min(Can)
  <2>1. n \in Can
    <3>1. Can \subseteq Nat
      OBVIOUS
    <3> HIDE DEF Can
    <3>2. QED
      BY <1>3, <3>1, MinOK
  <2> HIDE DEF n
  <2>2. n \in 1..Len(k) /\ k[n] # MaxByte
    BY <2>1
  <2>3. k[n] < MaxByte
    BY <2>2, ByteOf, ConstantsAssumption DEF Byte
  <2>4. QED
    BY <1>1, <1>3, <2>2, <2>3, BumpOK DEF n
<1>4. QED
  BY <1>2, <1>3

\* An internal key of legal length has a user key.
LEMMA UserKeyOK ==
  ASSUME NEW k \in Seq(Byte), Len(k) >= TagLength
  PROVE  ExtractUserKey(k) \in Seq(Byte)
<1> DEFINE l == Len(k) - TagLength
<1>1. Len(k) \in Nat /\ TagLength \in Nat /\ l \in 0..Len(k)
  BY ByteOf, ConstantsAssumption
<1>2. \A m \in 1..l : k[m] \in Byte
  BY <1>1, ByteOf
<1> HIDE DEF l
<1>3. SubSeq(k, 1, l) \in Seq(Byte)
  BY <1>1, <1>2, SubSeqProperties
<1>4. QED
  BY <1>3 DEF ExtractUserKey, l

\* Nor is an internal key before itself.
LEMMA InternalIrreflexive ==
  ASSUME NEW k \in Seq(Byte), Len(k) >= TagLength
  PROVE  ~InternalBefore(k, k)
<1>1. ~BytewiseBefore(ExtractUserKey(k), ExtractUserKey(k))
  BY UserKeyOK, Irreflexive
<1> DEFINE t == TagOf(k)
           b == Len(k) - TagLength + 1
<1>2. ASSUME NEW n \in 1..TagLength PROVE ~(t[n] < t[n])
  <2>1. /\ Len(k) \in Nat /\ TagLength \in Nat /\ b \in 1..Len(k) + 1
        /\ \A m \in 1..Len(k) : k[m] \in Byte /\ k[m] \in Int
    BY ByteOf, ConstantsAssumption
  <2>2. t = SubSeq(k, b, Len(k))
    BY DEF TagOf
  <2>3. \A m \in b..Len(k) : k[m] \in Byte
    BY <2>1
  <2>4. Len(k) - b + 1 = TagLength
    BY <2>1
  <2> HIDE DEF b, t
  <2>5. \A m \in 1..Len(k) - b + 1 : SubSeq(k, b, Len(k))[m] = k[b + m - 1]
    BY <2>1, <2>3, SubSeqProperties
  <2>6. t[n] = k[b + n - 1] /\ b + n - 1 \in 1..Len(k)
    BY <2>1, <2>2, <2>4, <2>5
  <2>7. QED
    BY <2>1, <2>6
<1> HIDE DEF t
<1>3. ~Smaller(t, t)
  BY <1>2 DEF Smaller
<1>4. QED
  BY <1>1, <1>3 DEF InternalBefore, t

\* What the table builder starts with.
LEMMA InitOK == Init => Inv
<1> SUFFICES ASSUME Init PROVE Inv
  OBVIOUS
<1>1. ASSUME NEW u \in UserKey PROVE u \in Seq(Byte)
  <2>1. PICK n \in 0..MaxLength : u \in [1..n -> Byte]
    BY DEF UserKey
  <2>2. n \in Nat
    BY ConstantsAssumption
  <2>3. QED
    BY <2>1, <2>2
<1>2. ASSUME NEW k \in InternalKey PROVE k \in Seq(Byte) /\ Len(k) >= TagLength
  <2>1. PICK u \in UserKey, t \in Tag : k = u \o t
    BY DEF InternalKey
  <2>2. t \in [1..TagLength -> Byte] /\ TagLength \in Nat
    BY ConstantsAssumption DEF Tag
  <2>3. t \in Seq(Byte) /\ Len(t) = TagLength
    BY <2>2
  <2>4. u \in Seq(Byte) /\ Len(u) \in Nat
    BY <1>1, LenProperties
  <2>5. k \in Seq(Byte) /\ Len(k) = Len(u) + Len(t)
    BY <2>1, <2>3, <2>4, ConcatProperties
  <2>6. QED
    BY <2>2, <2>3, <2>4, <2>5
<1>3. IsKey(first) /\ IsKey(limit) /\ IsKey(key) /\ key = first
  <2>1. comparator = "bytewise" \/ comparator = "internal"
    BY ConstantsAssumption DEF Init
  <2>2. CASE comparator = "bytewise"
    BY <1>1, <2>2 DEF Init, IsKey
  <2>3. CASE comparator = "internal"
    BY <1>2, <2>3 DEF Init, IsKey
  <2>4. QED
    BY <2>1, <2>2, <2>3
<1>4. ~Before(comparator, first, first)
  <2>1. CASE comparator = "bytewise"
    BY <1>3, <2>1, Irreflexive DEF Before, IsKey
  <2>2. CASE comparator # "bytewise"
    <3>1. comparator = "internal"
      BY <2>2, ConstantsAssumption DEF Init
    <3>2. QED
      BY <1>3, <2>2, <3>1, InternalIrreflexive DEF Before, IsKey
  <2>3. QED
    BY <2>1, <2>2
<1>5. Before(comparator, first, limit)
  BY DEF Init
<1>6. QED
  BY <1>3, <1>4, <1>5 DEF Init, Inv, NotBeforeFirst, WellFormed, IsKey, BeforeLimit

\* A later key is not before the first, if the key was not.
LEMMA LaterOK ==
  ASSUME NEW a \in Seq(Byte), NEW b \in Seq(Byte), NEW c \in Seq(Byte),
         ~BytewiseBefore(a, c), BytewiseBefore(a, b)
  PROVE  ~BytewiseBefore(b, c)
BY Transitive

\* FindShortSuccessor, after which there is no next block.
LEMMA SuccessorStep == ASSUME Inv, FindShortSuccessor PROVE Inv'
<1>1. /\ comparator \in Shortened /\ key' = Successor(key) /\ ~bounded'
      /\ UNCHANGED <<comparator, first, limit>>
  BY DEF FindShortSuccessor
<1>2. CASE comparator = "bytewise"
  <2>1. key \in Seq(Byte) /\ first \in Seq(Byte) /\ ~BytewiseBefore(key, first)
    BY <1>2 DEF Inv, IsKey, NotBeforeFirst, Before
  <2>2. key' \in Seq(Byte) /\ (key' = key \/ BytewiseBefore(key, key'))
    BY <1>1, <2>1, SuccessorOK
  <2>3. ~BytewiseBefore(key', first)
    BY <2>1, <2>2, LaterOK
  <2>4. QED
    BY <1>1, <1>2, <2>2, <2>3 DEF Inv, IsKey, NotBeforeFirst, WellFormed, BeforeLimit, Before
<1>3. CASE comparator # "bytewise"
  BY <1>1, <1>3 DEF Inv, IsKey, BeforeLimit
<1>4. QED
  BY <1>2, <1>3

\* FindShortestSeparator of the bytewise comparator.
LEMMA BytewiseStep ==
  ASSUME Inv, FindShortestSeparator, comparator = "bytewise"
  PROVE  Inv'
<1>1. /\ key' = Separator(key, limit) /\ UNCHANGED <<comparator, first, limit, bounded>>
      /\ bounded
  BY DEF FindShortestSeparator
<1>2. /\ key \in Seq(Byte) /\ first \in Seq(Byte) /\ limit \in Seq(Byte)
      /\ ~BytewiseBefore(key, first) /\ BytewiseBefore(key, limit)
  BY <1>1 DEF Inv, IsKey, NotBeforeFirst, BeforeLimit, Before
<1>3. /\ key' \in Seq(Byte)
      /\ key' = key \/ (BytewiseBefore(key, key') /\ BytewiseBefore(key', limit))
  BY <1>1, <1>2, SeparatorOK
<1>4. ~BytewiseBefore(key', first) /\ BytewiseBefore(key', limit)
  BY <1>2, <1>3, LaterOK
<1>5. QED
  BY <1>1, <1>3, <1>4 DEF Inv, IsKey, NotBeforeFirst, WellFormed, BeforeLimit, Before

\* The user key of u \o EarliestTag is u.
LEMMA Tagged ==
  ASSUME NEW u \in Seq(Byte)
  PROVE  /\ u \o EarliestTag \in Seq(Byte) /\ Len(u \o EarliestTag) >= TagLength
         /\ ExtractUserKey(u \o EarliestTag) = u
<1> DEFINE t == EarliestTag
           k == u \o t
<1>1. Len(u) \in Nat /\ TagLength \in Nat /\ MaxByte \in Nat \ {0}
  BY ByteOf, ConstantsAssumption
<1>2. t \in Seq(Byte) /\ Len(t) = TagLength
  <2>1. t \in [1..TagLength -> Byte]
    BY <1>1 DEF EarliestTag, Byte
  <2> HIDE DEF t
  <2>2. QED
    BY <1>1, <2>1
<1> HIDE DEF t
<1>3. /\ k \in Seq(Byte) /\ Len(k) = Len(u) + Len(t)
      /\ \A i \in 1..Len(u) + Len(t) : k[i] = IF i <= Len(u) THEN u[i] ELSE t[i - Len(u)]
  BY <1>2, ConcatProperties, Zenon
<1> HIDE DEF k
<1>4. Len(k) >= TagLength /\ Len(k) - TagLength = Len(u) /\ Len(k) \in Nat
  BY <1>1, <1>2, <1>3
<1> DEFINE x == SubSeq(k, 1, Len(u))
<1>5. \A i \in 1..Len(u) : i \in 1..Len(u) + Len(t) /\ i <= Len(u) /\ k[i] = u[i]
  BY <1>1, <1>2, <1>3
<1>6. x \in Seq(Byte) /\ Len(x) = Len(u) /\ \A i \in 1..Len(u) : x[i] = k[i]
  <2>1. \A i \in 1..Len(u) : k[i] \in Byte
    BY <1>5, ByteOf
  <2>2. /\ x \in Seq(Byte) /\ Len(x) = IF 1 <= Len(u) THEN Len(u) - 1 + 1 ELSE 0
        /\ \A i \in 1..Len(u) - 1 + 1 : x[i] = k[1 + i - 1]
    BY <1>1, <2>1, SubSeqProperties
  <2>3. 1..Len(u) - 1 + 1 = 1..Len(u) /\ (\A i \in 1..Len(u) : 1 + i - 1 = i)
        /\ (IF 1 <= Len(u) THEN Len(u) - 1 + 1 ELSE 0) = Len(u)
    BY <1>1
  <2>4. QED
    BY <2>2, <2>3
<1> HIDE DEF x
<1>7. x = u
  BY <1>5, <1>6, SeqEqual
<1>8. ExtractUserKey(k) = u
  BY <1>4, <1>7 DEF ExtractUserKey, x
<1>9. QED
  BY <1>3, <1>4, <1>8 DEF k, t

\* FindShortestSeparator of the internal comparator.
LEMMA InternalStep ==
  ASSUME Inv, FindShortestSeparator, comparator = "internal"
  PROVE  Inv'
<1> DEFINE user == ExtractUserKey(key)
           bound == ExtractUserKey(limit)
           tmp == Separator(user, bound)
           one == ExtractUserKey(first)
<1>1. /\ key' = InternalSeparator(key, limit) /\ UNCHANGED <<comparator, first, limit, bounded>>
      /\ bounded
  BY DEF FindShortestSeparator
<1>2. /\ IsKey(key) /\ IsKey(first) /\ IsKey(limit)
      /\ ~InternalBefore(key, first) /\ InternalBefore(key, limit)
  BY <1>1 DEF Inv, NotBeforeFirst, BeforeLimit, Before
<1>3. user \in Seq(Byte) /\ bound \in Seq(Byte) /\ one \in Seq(Byte)
  BY <1>2, UserKeyOK DEF IsKey
<1>4. ~BytewiseBefore(user, one)
  BY <1>2 DEF InternalBefore
<1>5. key' = IF Len(tmp) < Len(user) /\ BytewiseBefore(user, tmp) THEN tmp \o EarliestTag ELSE key
  BY <1>1 DEF InternalSeparator
<1> HIDE DEF user, bound, one, tmp
<1>6. CASE Len(tmp) < Len(user) /\ BytewiseBefore(user, tmp)
  <2>1. tmp \in Seq(Byte) /\ tmp # user /\ BytewiseBefore(tmp, bound)
    <3>1. tmp \in Seq(Byte) /\ (tmp = user \/ BytewiseBefore(tmp, bound))
      BY <1>3, SeparatorOK DEF tmp
    <3>2. tmp # user
      BY <1>3, <1>6, Irreflexive
    <3>3. QED
      BY <3>1, <3>2
  <2>2. /\ key' = tmp \o EarliestTag /\ key' \in Seq(Byte) /\ Len(key') >= TagLength
        /\ ExtractUserKey(key') = tmp
    BY <1>5, <1>6, <2>1, Tagged
  <2>3. InternalBefore(key', limit)
    BY <2>1, <2>2 DEF InternalBefore, bound
  <2>4. ~InternalBefore(key', first)
    <3>1. ~BytewiseBefore(tmp, one)
      BY <1>3, <1>4, <1>6, <2>1, LaterOK
    <3>2. tmp # one
      BY <1>4, <1>6
    <3>3. QED
      BY <2>2, <3>1, <3>2 DEF InternalBefore, one
  <2>5. QED
    BY <1>1, <1>2, <2>2, <2>3, <2>4
       DEF Inv, IsKey, NotBeforeFirst, WellFormed, BeforeLimit, Before
<1>7. CASE ~(Len(tmp) < Len(user) /\ BytewiseBefore(user, tmp))
  BY <1>1, <1>5, <1>7 DEF Inv, IsKey, NotBeforeFirst, WellFormed, BeforeLimit, Before
<1>8. QED
  BY <1>6, <1>7

\* Every step of either comparator keeps the invariant.
THEOREM Invariance == Spec => []Inv
<1>1. Inv /\ [Next]_vars => Inv'
  <2> SUFFICES ASSUME Inv, [Next]_vars PROVE Inv'
    OBVIOUS
  <2>1. CASE FindShortSuccessor
    BY <2>1, SuccessorStep
  <2>2. CASE FindShortestSeparator
    <3>1. CASE comparator = "bytewise"
      BY <2>2, <3>1, BytewiseStep
    <3>2. CASE comparator = "internal"
      BY <2>2, <3>2, InternalStep
    <3>3. QED
      BY <3>1, <3>2, ConstantsAssumption DEF Inv
  <2>3. CASE UNCHANGED vars
    BY <2>3 DEF vars, Inv, IsKey, NotBeforeFirst, WellFormed, BeforeLimit
  <2>4. QED
    BY <2>1, <2>2, <2>3 DEF Next
<1>2. QED
  BY <1>1, InitOK, PTL DEF Spec

\* However often a key of either comparator is shortened by
\* FindShortestSeparator, and a bytewise key by FindShortSuccessor, it remains at
\* or behind the key it stands for.  (FindShortSuccessor cuts an internal key
\* below its tag, which is why it is kept out.)
THEOREM NeverBeforeFirst ==
  ASSUME "internal" \notin Shortened
  PROVE  Spec => []NotBeforeFirst
<1>1. Inv => NotBeforeFirst
  BY ConstantsAssumption DEF Inv
<1>2. QED
  BY <1>1, Invariance, PTL

\* A separator stays before the first key of the next block.
THEOREM StaysBeforeLimit == Spec => []BeforeLimit
<1>1. Inv => BeforeLimit
  BY DEF Inv
<1>2. QED
  BY <1>1, Invariance, PTL

-----------------------------------------------------------------------------
(* Coding.                                                                 *)

\* Induction, with a set of numbers for the predicate.
LEMMA Ascent ==
  ASSUME NEW T, \A n \in Nat : (\A m \in Nat : m < n => m \in T) => n \in T
  PROVE  \A n \in Nat : n \in T
<1> DEFINE Bad == {n \in Nat : n \notin T}
<1>1. ASSUME Bad # {} PROVE FALSE
  <2>1. PICK n \in Bad : \A m \in Bad : n <= m
    BY <1>1, LeastOfNaturals
  <2>2. \A m \in Nat : m < n => m \in T
    BY <2>1
  <2>3. QED
    BY <2>1, <2>2
<1>2. QED
  BY <1>1

\* What a recursive function is given by: at v in Stop the value base[v],
\* elsewhere next[v][the value at down[v]].
Recursive(g, Stop, base, next, down) ==
  \A v \in Nat : g[v] = IF v \in Stop THEN base[v] ELSE next[v][g[down[v]]]

\* A recursive function whose argument falls exists.
LEMMA RecursiveExists ==
  ASSUME NEW S, NEW Stop, NEW base \in [Nat -> S], NEW next \in [Nat -> [S -> S]],
         NEW down \in [Nat -> Nat], \A v \in Nat : v \in Stop \/ down[v] < v, S # {}
  PROVE  \E g \in [Nat -> S] : Recursive(g, Stop, base, next, down)
<1> DEFINE Val(g, v) == IF v \in Stop THEN base[v] ELSE next[v][g[down[v]]]
           Upto(n, g) == \A v \in Nat : v < n => g[v] = Val(g, v)
<1>1. \A n \in Nat : \E g \in [Nat -> S] : Upto(n, g)
  <2> DEFINE T == {n \in Nat : \E g \in [Nat -> S] : Upto(n, g)}
  <2>1. ASSUME NEW n \in Nat, \A m \in Nat : m < n => m \in T PROVE n \in T
    <3>1. CASE n = 0
      <4>1. PICK s \in S : TRUE
        OBVIOUS
      <4>2. [v \in Nat |-> s] \in [Nat -> S] /\ Upto(0, [v \in Nat |-> s])
        OBVIOUS
      <4>3. QED
        BY <3>1, <4>2
    <3>2. CASE n # 0
      <4>1. n - 1 \in Nat /\ n - 1 < n
        BY <3>2
      <4>2. PICK g \in [Nat -> S] : Upto(n - 1, g)
        BY <2>1, <4>1
      <4> DEFINE h == [g EXCEPT ![n - 1] = Val(g, n - 1)]
      <4>3. Val(g, n - 1) \in S
        BY <4>1
      <4>4. h \in [Nat -> S]
        BY <4>1, <4>3
      <4>5. ASSUME NEW v \in Nat, v < n PROVE h[v] = Val(h, v)
        <5>1. v <= n - 1
          BY <4>5
        <5>2. v \notin Stop => down[v] < n - 1 /\ down[v] \in Nat
          BY <5>1
        <5>3. Val(h, v) = Val(g, v)
          BY <4>1, <5>2
        <5>4. CASE v = n - 1
          BY <4>1, <5>3, <5>4
        <5>5. CASE v < n - 1
          <6>1. h[v] = g[v]
            BY <4>1, <5>5
          <6>2. g[v] = Val(g, v)
            BY <4>2, <5>5
          <6>3. QED
            BY <5>3, <6>1, <6>2
        <5>6. QED
          BY <5>1, <5>4, <5>5
      <4>6. Upto(n, h)
        <5> HIDE DEF h
        <5>1. QED
          BY <4>5
      <4>7. QED
        <5> HIDE DEF h, Upto
        <5>1. QED
          BY <4>4, <4>6
    <3>3. QED
      BY <3>1, <3>2
  <2> HIDE DEF T
  <2>2. \A n \in Nat : n \in T
    BY <2>1, Ascent
  <2>3. QED
    BY <2>2 DEF T
<1>2. ASSUME NEW n \in Nat, NEW g \in [Nat -> S], NEW h \in [Nat -> S], NEW m \in Nat,
             Upto(n, g), Upto(m, h), m <= n
      PROVE  \A v \in Nat : v < m => g[v] = h[v]
  <2> DEFINE T == {v \in Nat : v < m => g[v] = h[v]}
  <2>1. ASSUME NEW v \in Nat, \A u \in Nat : u < v => u \in T PROVE v \in T
    <3> SUFFICES ASSUME v < m PROVE g[v] = h[v]
      OBVIOUS
    <3>1. g[v] = Val(g, v) /\ h[v] = Val(h, v)
      BY <1>2
    <3>2. CASE v \in Stop
      BY <3>1, <3>2
    <3>3. CASE v \notin Stop
      <4>1. down[v] \in Nat /\ down[v] < v /\ down[v] < m
        BY <3>3
      <4>2. g[down[v]] = h[down[v]]
        BY <2>1, <4>1
      <4>3. QED
        BY <3>1, <3>3, <4>2
    <3>4. QED
      BY <3>2, <3>3
  <2> HIDE DEF T
  <2>2. \A v \in Nat : v \in T
    BY <2>1, Ascent
  <2>3. QED
    BY <2>2 DEF T
<1> DEFINE Part(n) == CHOOSE g : g \in [Nat -> S] /\ Upto(n, g)
           G == [v \in Nat |-> Part(v + 1)[v]]
<1>3. \A n \in Nat : Part(n) \in [Nat -> S] /\ Upto(n, Part(n))
  <2> HIDE DEF Upto
  <2>1. QED
    BY <1>1
<1> HIDE DEF Part
<1>4. G \in [Nat -> S]
  BY <1>3
<1>5. ASSUME NEW v \in Nat PROVE G[v] = Val(G, v)
  <2>1. G[v] = Part(v + 1)[v] /\ v + 1 \in Nat /\ v < v + 1
    OBVIOUS
  <2>2. Part(v + 1)[v] = Val(Part(v + 1), v)
    BY <1>3, <2>1
  <2>3. CASE v \in Stop
    BY <2>1, <2>2, <2>3
  <2>4. CASE v \notin Stop
    <3> DEFINE u == down[v]
    <3>1. u \in Nat /\ u < v /\ u + 1 \in Nat /\ u + 1 <= v + 1 /\ u < u + 1
      BY <2>4
    <3>2. G[u] = Part(u + 1)[u]
      BY <3>1
    <3> HIDE DEF u, Upto, G
    <3>3. Part(v + 1)[u] = Part(u + 1)[u]
      <4>1. PICK n \in Nat, m \in Nat : n = v + 1 /\ m = u + 1 /\ m <= n /\ u < m
        BY <2>1, <3>1
      <4>2. /\ Part(n) \in [Nat -> S] /\ Upto(n, Part(n))
            /\ Part(m) \in [Nat -> S] /\ Upto(m, Part(m))
        BY <1>3
      <4>3. \A x \in Nat : x < m => Part(n)[x] = Part(m)[x]
        BY <1>2, <4>1, <4>2
      <4>4. QED
        BY <3>1, <4>1, <4>3
    <3>4. QED
      BY <2>1, <2>2, <2>4, <3>2, <3>3 DEF u
  <2>5. QED
    BY <2>3, <2>4
<1>6. QED
  <2> HIDE DEF G
  <2>1. Recursive(G, Stop, base, next, down)
    BY <1>5 DEF Recursive
  <2>2. QED
    BY <1>4, <2>1

\* Division with remainder is unique.
LEMMA Quotient ==
  ASSUME NEW n \in Nat \ {0}, NEW q \in Int, NEW r \in 0..n - 1
  PROVE  (q * n + r) \div n = q /\ (q * n + r) % n = r
<1> DEFINE x == q * n + r
           d == x \div n
           m == x % n
<1>1. x \in Int
  <2>1. q * n \in Int
    OBVIOUS
  <2>2. QED
    BY <2>1
<1>2. d \in Int /\ m \in 0..n - 1 /\ x = n * d + m
  BY <1>1
<1> HIDE DEF d, m
<1>3. (q - d) * n = m - r
  <2>1. x = q * n + r
    OBVIOUS
  <2>2. (q - d) * n = q * n - n * d
    BY <1>2
  <2>3. q * n \in Int /\ n * d \in Int
    BY <1>2
  <2>4. QED
    BY <1>2, <2>1, <2>2, <2>3
<1>4. q - d = 0
  <2>1. ASSUME q - d >= 1 PROVE FALSE
    <3>1. (q - d) * n >= n
      BY <1>2, <2>1
    <3>2. QED
      BY <1>2, <1>3, <3>1
  <2>2. ASSUME q - d <= -1 PROVE FALSE
    <3>1. (q - d) * n <= -n
      BY <1>2, <2>2
    <3>2. QED
      BY <1>2, <1>3, <3>1
  <2>3. QED
    BY <1>2, <2>1, <2>2
<1>5. d = q /\ m = r
  BY <1>2, <1>3, <1>4
<1> QED
  BY <1>5 DEF d, m

\* Division with remainder.
LEMMA Division ==
  ASSUME NEW v \in Nat, NEW n \in Nat \ {0}
  PROVE  v \div n \in Nat /\ v % n \in 0..n - 1 /\ v = n * (v \div n) + (v % n)
<1>1. \E q \in Int, r \in 0..n - 1 : q = v \div n /\ r = v % n /\ v = n * q + r
  BY Z3
<1>2. PICK q \in Int, r \in 0..n - 1 : q = v \div n /\ r = v % n /\ v = n * q + r
  BY <1>1
<1>3. ASSUME q <= -1 PROVE FALSE
  <2>1. n * q <= -n
    BY <1>3
  <2>2. n * q \in Int
    OBVIOUS
  <2>3. QED
    BY <1>2, <2>1, <2>2
<1>4. q \in Nat
  BY <1>3
<1>5. v \div n \in Nat /\ v % n \in 0..n - 1
  BY <1>2, <1>4
<1>6. v = n * (v \div n) + (v % n)
  BY Z3
<1>7. QED
  BY <1>5, <1>6, Zenon

\* Without its lowest group a number is smaller.
LEMMA Shorter ==
  ASSUME NEW v \in Nat
  PROVE  /\ v \div B \in Nat /\ v % B \in 0..B - 1 /\ v = B * (v \div B) + (v % B)
         /\ v >= B => v \div B < v /\ v \div B # 0
<1>1. B \in Nat /\ B >= 2 /\ B \in Nat \ {0}
  BY CodingAssumption
<1>2. v \div B \in Nat /\ v % B \in 0..B - 1 /\ v = B * (v \div B) + (v % B)
  BY <1>1, Division
<1>3. PICK q \in Nat, r \in 0..B - 1 : q = v \div B /\ r = v % B /\ v = B * q + r
  BY <1>2, Z3
<1>4. ASSUME v >= B PROVE q < v /\ q # 0
  <2>1. q # 0
    BY <1>1, <1>3, <1>4
  <2>2. B * q >= 2 * q
    BY <1>1, <1>3
  <2>3. B * q \in Nat
    BY <1>1, <1>3
  <2>4. QED
    BY <1>1, <1>3, <1>4, <2>1, <2>2, <2>3
<1>5. v >= B => v \div B < v /\ v \div B # 0
  BY <1>3, <1>4, Zenon
<1>6. QED
  BY <1>2, <1>5, Zenon

\* The powers of B.
LEMMA PowerOK ==
  /\ Power[0] = 1
  /\ \A n \in Nat : Power[n] \in Nat \ {0} /\ Power[n + 1] = B * Power[n]
<1> DEFINE Law(f) == f = [n \in Nat |-> IF n = 0 THEN 1 ELSE B * f[n - 1]]
           next == [v \in Nat |-> [x \in Nat |-> B * x]]
           down == [v \in Nat |-> IF v = 0 THEN 0 ELSE v - 1]
           base == [v \in Nat |-> 1]
<1>1. B \in Nat /\ B >= 2
  BY CodingAssumption
<1>2. \E f : Law(f)
  <2>1. next \in [Nat -> [Nat -> Nat]] /\ down \in [Nat -> Nat] /\ base \in [Nat -> Nat]
    BY <1>1
  <2>2. \A v \in Nat : v \in {0} \/ down[v] < v
    OBVIOUS
  <2>3. PICK g \in [Nat -> Nat] : Recursive(g, {0}, base, next, down)
    <3> HIDE DEF next, down, base
    <3>1. QED
      BY <2>1, <2>2, RecursiveExists
  <2>4. \A n \in Nat : g[n] = IF n = 0 THEN 1 ELSE B * g[n - 1]
    <3>1. \A n \in Nat : g[n] = IF n \in {0} THEN base[n] ELSE next[n][g[down[n]]]
      BY <2>3 DEF Recursive
    <3>2. \A n \in Nat : n # 0 => down[n] = n - 1 /\ n - 1 \in Nat
      OBVIOUS
    <3>3. \A n \in Nat, x \in Nat : next[n][x] = B * x /\ base[n] = 1
      OBVIOUS
    <3> HIDE DEF next, down, base
    <3>4. QED
      BY <3>1, <3>2, <3>3
  <2>5. Law(g)
    BY <2>4
  <2>6. QED
    BY <2>5
<1>3. Law(Power)
  <2>1. Power = CHOOSE f : Law(f)
    BY DEF Power
  <2> HIDE DEF Law
  <2>2. QED
    BY <1>2, <2>1
<1>4. \A n \in Nat : Power[n] = IF n = 0 THEN 1 ELSE B * Power[n - 1]
  BY <1>3
<1>5. \A n \in Nat : Power[n + 1] = B * Power[n]
  BY <1>4
<1>6. \A n \in Nat : Power[n] \in Nat \ {0}
  <2> DEFINE T == {n \in Nat : Power[n] \in Nat \ {0}}
  <2>1. ASSUME NEW n \in Nat, \A m \in Nat : m < n => m \in T PROVE n \in T
    <3>1. CASE n = 0
      BY <1>4, <3>1
    <3>2. CASE n # 0
      <4>1. n - 1 \in T
        BY <2>1, <3>2
      <4>2. Power[n] = B * Power[n - 1] /\ Power[n - 1] \in Nat \ {0}
        BY <1>4, <3>2, <4>1
      <4>3. QED
        BY <1>1, <4>2
    <3>3. QED
      BY <3>1, <3>2
  <2> HIDE DEF T
  <2>2. \A n \in Nat : n \in T
    BY <2>1, Ascent
  <2>3. QED
    BY <2>2 DEF T
<1>7. QED
  BY <1>4, <1>5, <1>6

\* VarintLength and EncodeVarint64 are what their recursions say.
LEMMA LengthIs ==
  \A v \in Nat : /\ VarintLength[v] \in Nat
                 /\ VarintLength[v] = IF v >= B THEN 1 + VarintLength[v \div B] ELSE 1
<1> DEFINE Law(f) == f = [v \in Nat |-> IF v >= B THEN 1 + f[v \div B] ELSE 1]
           Stop == {v \in Nat : v < B}
           next == [v \in Nat |-> [x \in Nat |-> 1 + x]]
           down == [v \in Nat |-> v \div B]
           base == [v \in Nat |-> 1]
<1>1. B \in Nat /\ B >= 2
  BY CodingAssumption
<1>2. \E f : Law(f)
  <2>1. next \in [Nat -> [Nat -> Nat]] /\ base \in [Nat -> Nat]
    OBVIOUS
  <2>2. down \in [Nat -> Nat] /\ \A v \in Nat : v \in Stop \/ down[v] < v
    BY <1>1, Shorter
  <2>3. PICK g \in [Nat -> Nat] : Recursive(g, Stop, base, next, down)
    <3> HIDE DEF next, down, base, Stop
    <3>1. QED
      BY <2>1, <2>2, RecursiveExists
  <2>4. \A n \in Nat : g[n] = IF n >= B THEN 1 + g[n \div B] ELSE 1
    <3>1. \A n \in Nat : g[n] = IF n \in Stop THEN base[n] ELSE next[n][g[down[n]]]
      BY <2>3 DEF Recursive
    <3>2. \A n \in Nat : down[n] = n \div B /\ n \div B \in Nat /\ (n \in Stop <=> ~(n >= B))
      BY <1>1, Shorter
    <3>3. \A n \in Nat, x \in Nat : next[n][x] = 1 + x /\ base[n] = 1
      OBVIOUS
    <3> HIDE DEF next, down, base, Stop
    <3>4. SUFFICES ASSUME NEW n \in Nat
                   PROVE  g[n] = IF n >= B THEN 1 + g[n \div B] ELSE 1
      OBVIOUS
    <3>5. CASE n >= B
      <4>1. g[n] = next[n][g[down[n]]] /\ down[n] = n \div B /\ g[n \div B] \in Nat
        BY <2>3, <3>1, <3>2, <3>5
      <4>2. QED
        BY <3>3, <3>5, <4>1, Zenon
    <3>6. CASE ~(n >= B)
      BY <3>1, <3>2, <3>3, <3>6
    <3>7. QED
      BY <3>5, <3>6
  <2>5. Law(g)
    BY <2>4
  <2>6. QED
    BY <2>5
<1>3. Law(VarintLength)
  <2>1. VarintLength = CHOOSE f : Law(f)
    BY DEF VarintLength
  <2> HIDE DEF Law
  <2>2. QED
    BY <1>2, <2>1
<1>4. \A v \in Nat : VarintLength[v] = IF v >= B THEN 1 + VarintLength[v \div B] ELSE 1
  BY <1>3
<1>5. \A v \in Nat : VarintLength[v] \in Nat
  <2> DEFINE T == {v \in Nat : VarintLength[v] \in Nat}
  <2>1. ASSUME NEW v \in Nat, \A m \in Nat : m < v => m \in T PROVE v \in T
    <3>1. CASE v >= B
      <4>1. v \div B \in T
        BY <2>1, <3>1, Shorter
      <4>2. QED
        BY <1>4, <3>1, <4>1
    <3>2. CASE ~(v >= B)
      BY <1>4, <3>2
    <3>3. QED
      BY <3>1, <3>2
  <2> HIDE DEF T
  <2>2. \A n \in Nat : n \in T
    BY <2>1, Ascent
  <2>3. QED
    BY <2>2 DEF T
<1>6. QED
  BY <1>4, <1>5

LEMMA EncodeIs ==
  \A v \in Nat : EncodeVarint64[v] = IF v >= B THEN <<(v % B) + B>> \o EncodeVarint64[v \div B]
                                               ELSE <<v>>
<1> DEFINE Law(f) == f = [v \in Nat |-> IF v >= B THEN <<(v % B) + B>> \o f[v \div B] ELSE <<v>>]
           Stop == {v \in Nat : v < B}
           next == [v \in Nat |-> [x \in Seq(Nat) |-> <<(v % B) + B>> \o x]]
           down == [v \in Nat |-> v \div B]
           base == [v \in Nat |-> <<v>>]
<1>1. B \in Nat /\ B >= 2
  BY CodingAssumption
<1>2. \E f : Law(f)
  <2>1. next \in [Nat -> [Seq(Nat) -> Seq(Nat)]] /\ base \in [Nat -> Seq(Nat)] /\ Seq(Nat) # {}
    <3>1. ASSUME NEW v \in Nat, NEW x \in Seq(Nat) PROVE <<(v % B) + B>> \o x \in Seq(Nat)
      <4>1. (v % B) + B \in Nat
        BY <1>1, Shorter
      <4>2. <<(v % B) + B>> \in Seq(Nat)
        BY <4>1
      <4>3. QED
        BY <4>2, ConcatProperties
    <3>2. next \in [Nat -> [Seq(Nat) -> Seq(Nat)]]
      BY <3>1, Zenon
    <3>3. base \in [Nat -> Seq(Nat)] /\ << >> \in Seq(Nat)
      OBVIOUS
    <3>4. QED
      BY <3>2, <3>3, Zenon
  <2>2. down \in [Nat -> Nat] /\ \A v \in Nat : v \in Stop \/ down[v] < v
    BY <1>1, Shorter
  <2>3. PICK g \in [Nat -> Seq(Nat)] : Recursive(g, Stop, base, next, down)
    <3> HIDE DEF next, down, base, Stop
    <3>1. QED
      BY <2>1, <2>2, RecursiveExists
  <2>4. \A n \in Nat : g[n] = IF n >= B THEN <<(n % B) + B>> \o g[n \div B] ELSE <<n>>
    <3>1. \A n \in Nat : g[n] = IF n \in Stop THEN base[n] ELSE next[n][g[down[n]]]
      BY <2>3 DEF Recursive
    <3>2. \A n \in Nat : down[n] = n \div B /\ n \div B \in Nat /\ (n \in Stop <=> ~(n >= B))
      BY <1>1, Shorter
    <3>3. \A n \in Nat, x \in Seq(Nat) : next[n][x] = <<(n % B) + B>> \o x /\ base[n] = <<n>>
      OBVIOUS
    <3> HIDE DEF next, down, base, Stop
    <3>4. SUFFICES ASSUME NEW n \in Nat
                   PROVE  g[n] = IF n >= B THEN <<(n % B) + B>> \o g[n \div B] ELSE <<n>>
      OBVIOUS
    <3>5. CASE n >= B
      <4>1. g[n] = next[n][g[down[n]]] /\ down[n] = n \div B /\ g[n \div B] \in Seq(Nat)
        BY <2>3, <3>1, <3>2, <3>5
      <4>2. QED
        BY <3>3, <3>5, <4>1, Zenon
    <3>6. CASE ~(n >= B)
      BY <3>1, <3>2, <3>3, <3>6
    <3>7. QED
      BY <3>5, <3>6
  <2>5. Law(g)
    BY <2>4
  <2>6. QED
    BY <2>5
<1>3. Law(EncodeVarint64)
  <2>1. EncodeVarint64 = CHOOSE f : Law(f)
    BY DEF EncodeVarint64
  <2> HIDE DEF Law
  <2>2. QED
    BY <1>2, <2>1
<1>4. QED
  BY <1>3

\* The widths.
LEMMA ByteBase == B \in Nat /\ B >= 2 /\ B \in Nat \ {0} /\ WordSize \in Nat /\ MaxGroups \in Nat \ {0}
BY CodingAssumption

\* Two divisions are one by the product.
LEMMA Twice ==
  ASSUME NEW v \in Nat, NEW a \in Nat \ {0}, NEW b \in Nat \ {0}
  PROVE  a * b \in Nat \ {0} /\ (v \div a) \div b = v \div (a * b)
<1>1. PICK q \in Nat, r \in 0..a - 1 : q = v \div a /\ v = a * q + r
  BY Division
<1>2. PICK u \in Nat, s \in 0..b - 1 : u = q \div b /\ q = b * u + s
  BY Division
<1> DEFINE n == a * b
           t == a * s + r
<1>3. n \in Nat \ {0}
  OBVIOUS
<1>4. t \in 0..n - 1
  <2>1. a * s \in Nat /\ a * (b - 1 - s) \in Nat
    OBVIOUS
  <2>2. a * s + a * (b - 1 - s) = n - a
    OBVIOUS
  <2> HIDE DEF n
  <2>3. QED
    BY <1>3, <2>1, <2>2
<1>5. v = u * n + t
  <2>1. a * q = a * (b * u) + a * s
    BY <1>2
  <2>2. a * (b * u) = u * n
    OBVIOUS
  <2>3. a * s \in Nat /\ u * n \in Nat
    OBVIOUS
  <2>4. QED
    BY <1>1, <2>1, <2>2, <2>3
<1> HIDE DEF n, t
<1>6. v \div n = u
  BY <1>3, <1>4, <1>5, Quotient
<1>7. QED
  BY <1>1, <1>2, <1>3, <1>6, Zenon DEF n

\* A number fits m + 1 groups if without its lowest one it fits m.
LEMMA Fits ==
  ASSUME NEW v \in Nat, NEW m \in Nat
  PROVE  v < Power[m + 1] <=> v \div B < Power[m]
<1>1. PICK q \in Nat, r \in 0..B - 1 : q = v \div B /\ v = B * q + r
  BY Shorter
<1> DEFINE p == Power[m]
<1>2. p \in Nat \ {0} /\ Power[m + 1] = B * p
  BY PowerOK
<1> HIDE DEF p
<1>3. ASSUME q < p PROVE v < B * p
  <2>1. B * q <= B * (p - 1) /\ B * (p - 1) = B * p - B
    BY <1>2, <1>3, ByteBase
  <2>2. B * q \in Nat /\ B * p \in Nat
    BY <1>2, ByteBase
  <2>3. QED
    BY <1>1, <1>2, <2>1, <2>2, ByteBase
<1>4. ASSUME q >= p PROVE v >= B * p
  <2>1. B * q >= B * p
    BY <1>2, <1>4, ByteBase
  <2>2. B * q \in Nat /\ B * p \in Nat
    BY <1>2, ByteBase
  <2>3. QED
    BY <1>1, <1>2, <2>1, <2>2, ByteBase
<1>5. v < B * p <=> q < p
  <2>1. B * p \in Nat
    BY <1>2, ByteBase
  <2>2. QED
    BY <1>2, <1>3, <1>4, <2>1
<1>6. QED
  BY <1>1, <1>2, <1>5 DEF p

\* The number of bytes of a varint.
Size(v) == Min({m \in Nat \ {0} : v < Power[m]})

\* A number has a least number of groups that it fits,
LEMMA SizeOK ==
  ASSUME NEW v \in Nat
  PROVE  /\ Size(v) \in Nat \ {0} /\ v < Power[Size(v)]
         /\ \A m \in Nat \ {0} : v < Power[m] => Size(v) <= m
<1> DEFINE Fit(u) == {m \in Nat \ {0} : u < Power[m]}
           T == {u \in Nat : Fit(u) # {}}
<1>1. ASSUME NEW u \in Nat, \A m \in Nat : m < u => m \in T PROVE u \in T
  <2>1. CASE u < B
    <3>1. Power[1] = B
      <4>1. Power[0 + 1] = B * Power[0] /\ Power[0] = 1
        BY PowerOK
      <4>2. QED
        BY <4>1, ByteBase
    <3>2. 1 \in Fit(u)
      BY <2>1, <3>1
    <3>3. QED
      BY <3>2
  <2>2. CASE u >= B
    <3>1. PICK m \in Fit(u \div B) : TRUE
      BY <1>1, <2>2, Shorter
    <3>2. m + 1 \in Fit(u)
      BY <3>1, Fits
    <3>3. QED
      BY <3>2
  <2>3. QED
    BY <2>1, <2>2, ByteBase
<1>2. v \in T
  <2> HIDE DEF T
  <2>1. \A u \in Nat : u \in T
    BY <1>1, Ascent
  <2>2. QED
    BY <2>1
<1>3. Size(v) \in Fit(v) /\ \A m \in Fit(v) : Size(v) <= m
  <2>1. Size(v) = Min(Fit(v))
    BY DEF Size
  <2>2. Fit(v) \subseteq Nat /\ Fit(v) # {}
    BY <1>2
  <2> HIDE DEF Fit
  <2>3. QED
    BY <2>1, <2>2, MinOK
<1>4. QED
  BY <1>3

\* one more than without its lowest group.
LEMMA SizeStep ==
  ASSUME NEW v \in Nat
  PROVE  /\ v < B => Size(v) = 1
         /\ v >= B => Size(v) = Size(v \div B) + 1
<1>1. Power[1] = B
  <2>1. Power[0 + 1] = B * Power[0] /\ Power[0] = 1
    BY PowerOK
  <2>2. QED
    BY <2>1, ByteBase
<1>2. ASSUME v < B PROVE Size(v) = 1
  BY <1>1, <1>2, SizeOK
<1>3. ASSUME v >= B PROVE Size(v) = Size(v \div B) + 1
  <2> DEFINE n == Size(v)
             k == Size(v \div B)
  <2>1. n \in Nat \ {0} /\ v < Power[n] /\ \A m \in Nat \ {0} : v < Power[m] => n <= m
    BY SizeOK
  <2>2. v \div B \in Nat
    BY Shorter
  <2>3. /\ k \in Nat \ {0} /\ v \div B < Power[k]
        /\ \A m \in Nat \ {0} : v \div B < Power[m] => k <= m
    BY <2>2, SizeOK
  <2> HIDE DEF n, k
  <2>4. n # 1
    BY <1>1, <1>3, <2>1, ByteBase
  <2>5. n - 1 \in Nat \ {0} /\ (n - 1) + 1 = n
    BY <2>1, <2>4
  <2>6. v \div B < Power[n - 1]
    BY <2>1, <2>5, Fits
  <2>7. k <= n - 1
    BY <2>3, <2>5, <2>6
  <2>8. v < Power[k + 1] /\ k + 1 \in Nat \ {0}
    BY <2>3, Fits
  <2>9. n <= k + 1
    BY <2>1, <2>8
  <2>10. QED
    BY <2>1, <2>3, <2>7, <2>9 DEF n, k
<1>4. QED
  BY <1>2, <1>3

\* VarintLength counts the bytes.
LEMMA LengthOK == \A v \in Nat : VarintLength[v] = Size(v)
<1> DEFINE T == {v \in Nat : VarintLength[v] = Size(v)}
<1>1. ASSUME NEW v \in Nat, \A m \in Nat : m < v => m \in T PROVE v \in T
  <2>1. CASE v < B
    BY <2>1, LengthIs, SizeStep, ByteBase
  <2>2. CASE v >= B
    <3>1. v \div B \in T
      BY <1>1, <2>2, Shorter
    <3>2. VarintLength[v \div B] = Size(v \div B) /\ Size(v \div B) \in Nat
      BY <3>1, SizeOK
    <3>3. QED
      BY <2>2, <3>2, LengthIs, SizeStep
  <2>3. QED
    BY <2>1, <2>2, ByteBase
<1> HIDE DEF T
<1>2. \A v \in Nat : v \in T
  BY <1>1, Ascent
<1>3. QED
  BY <1>2 DEF T

\* The bytes of a varint.
Varint(v) == [m \in 1..Size(v) |-> Group(v, m) + (IF m < Size(v) THEN B ELSE 0)]

\* The groups of a number are those of the number without the lowest one.
LEMMA GroupOK ==
  ASSUME NEW v \in Nat
  PROVE  /\ Group(v, 1) = v % B
         /\ \A m \in Nat \ {0} : /\ Group(v, m) \in 0..B - 1
                                 /\ Group(v, m + 1) = Group(v \div B, m)
<1>1. Group(v, 1) = v % B
  <2>1. v \div 1 = v
    BY ONLY Z3
  <2>2. Power[1 - 1] = 1
    BY PowerOK
  <2>3. QED
    BY <2>1, <2>2 DEF Group
<1>2. ASSUME NEW m \in Nat \ {0}
      PROVE  Group(v, m) \in 0..B - 1 /\ Group(v, m + 1) = Group(v \div B, m)
  <2>1. m - 1 \in Nat /\ (m - 1) + 1 = m /\ (m + 1) - 1 = m
    OBVIOUS
  <2>2. Power[m - 1] \in Nat \ {0} /\ Power[m] = B * Power[m - 1]
    BY <2>1, PowerOK
  <2>3. v \div Power[m - 1] \in Nat
    BY <2>2, Division
  <2>4. Group(v, m) \in 0..B - 1
    BY <2>3, Shorter DEF Group
  <2>5. (v \div B) \div Power[m - 1] = v \div Power[m]
    BY <2>2, Twice, ByteBase
  <2>6. Group(v, m + 1) = (v \div Power[m]) % B
    BY <2>1 DEF Group
  <2>7. QED
    BY <2>4, <2>5, <2>6 DEF Group
<1>3. QED
  BY <1>1, <1>2

\* Of the bytes of a varint the last one alone is without the flag.
LEMMA VarintOK ==
  ASSUME NEW v \in Nat
  PROVE  /\ Varint(v) \in Seq(Nat) /\ Len(Varint(v)) = Size(v) /\ Size(v) \in Nat \ {0}
         /\ \A m \in 1..Size(v) :
               /\ Varint(v)[m] = Group(v, m) + (IF m < Size(v) THEN B ELSE 0)
               /\ Varint(v)[m] \in Nat
               /\ Varint(v)[m] < B <=> m = Size(v)
               /\ Varint(v)[m] % B = Group(v, m)
<1> DEFINE n == Size(v)
<1>1. n \in Nat \ {0}
  BY SizeOK
<1> HIDE DEF n
<1>2. Varint(v) = [m \in 1..n |-> Group(v, m) + (IF m < n THEN B ELSE 0)]
  BY DEF Varint, n
<1>3. ASSUME NEW m \in 1..n
      PROVE  /\ Varint(v)[m] = Group(v, m) + (IF m < n THEN B ELSE 0)
             /\ Varint(v)[m] \in Nat
             /\ Varint(v)[m] < B <=> m = n
             /\ Varint(v)[m] % B = Group(v, m)
  <2> DEFINE g == Group(v, m)
             x == Varint(v)[m]
  <2>1. g \in 0..B - 1
    <3>1. m \in Nat \ {0}
      BY <1>1
    <3>2. QED
      BY <3>1, GroupOK
  <2>2. x = g + (IF m < n THEN B ELSE 0)
    BY <1>2
  <2> HIDE DEF g, x
  <2>3. x \in Nat /\ (x < B <=> m = n)
    BY <1>1, <2>1, <2>2, ByteBase
  <2>4. x % B = g
    <3>1. (1 * B + g) % B = g /\ (0 * B + g) % B = g
      BY <2>1, ByteBase, Quotient
    <3>2. 1 * B = B /\ 0 * B = 0
      BY ByteBase
    <3>3. x = 1 * B + g \/ x = 0 * B + g
      BY <2>1, <2>2, <3>2, ByteBase
    <3>4. QED
      BY <3>1, <3>3
  <2>5. QED
    BY <2>2, <2>3, <2>4 DEF g, x
<1>4. Varint(v) \in Seq(Nat) /\ Len(Varint(v)) = n
  <2>1. \A m \in 1..n : Group(v, m) + (IF m < n THEN B ELSE 0) \in Nat
    BY <1>2, <1>3
  <2>2. Varint(v) \in [1..n -> Nat]
    BY <1>2, <2>1
  <2>3. QED
    BY <1>1, <2>2, SeqDef, LenProperties
<1>5. QED
  BY <1>1, <1>3, <1>4 DEF n

\* The loop of EncodeVarint64 writes these bytes,
LEMMA LoopOK == \A v \in Nat : EncodeVarint64[v] = Varint(v)
<1> DEFINE T == {v \in Nat : EncodeVarint64[v] = Varint(v)}
<1>1. ASSUME NEW v \in Nat, \A m \in Nat : m < v => m \in T PROVE v \in T
  <2>1. Varint(v) \in Seq(Nat) /\ Len(Varint(v)) = Size(v)
    BY VarintOK
  <2>2. CASE v < B
    <3>1. Size(v) = 1
      BY <2>2, SizeStep
    <3>2. v % B = v
      <4>1. (0 * B + v) % B = v
        BY <2>2, Quotient, ByteBase
      <4>2. 0 * B + v = v
        BY ByteBase
      <4>3. QED
        BY <4>1, <4>2, Zenon
    <3>3. Varint(v)[1] = v
      <4>1. Varint(v)[1] = Group(v, 1) + (IF 1 < Size(v) THEN B ELSE 0)
        <5>1. 1 \in 1..Size(v)
          BY <3>1
        <5>2. QED
          BY <5>1, VarintOK
      <4>2. Group(v, 1) = v
        BY <3>2, GroupOK
      <4>3. QED
        BY <3>1, <4>1, <4>2
    <3>4. Varint(v) = <<v>>
      BY <2>1, <3>1, <3>3
    <3>5. EncodeVarint64[v] = IF v >= B THEN <<(v % B) + B>> \o EncodeVarint64[v \div B]
                                        ELSE <<v>>
      BY EncodeIs, Zenon
    <3>6. ~(v >= B)
      BY <2>2, ByteBase
    <3>7. QED
      BY <3>4, <3>5, <3>6, Zenon
  <2>3. CASE v >= B
    <3> DEFINE w == v \div B
               b == (v % B) + B
    <3>1. w \in T /\ w \in Nat /\ b \in Nat
      BY <1>1, <2>3, Shorter, ByteBase
    <3>2. EncodeVarint64[v] = <<b>> \o Varint(w)
      BY <2>3, <3>1, EncodeIs
    <3>3. Size(v) = Size(w) + 1 /\ Size(w) \in Nat \ {0}
      BY <2>3, <3>1, SizeStep, SizeOK
    <3>4. Varint(w) \in Seq(Nat) /\ Len(Varint(w)) = Size(w)
      BY <3>1, VarintOK
    <3>5. Varint(v)[1] = b
      <4>1. Varint(v)[1] = Group(v, 1) + (IF 1 < Size(v) THEN B ELSE 0)
        BY <3>3, VarintOK
      <4>2. Group(v, 1) = v % B
        BY GroupOK
      <4>3. QED
        BY <3>3, <4>1, <4>2
    <3>6. ASSUME NEW m \in 1..Size(w) PROVE Varint(v)[m + 1] = Varint(w)[m]
      <4>1. m + 1 \in 1..Size(v) /\ (m + 1 < Size(v) <=> m < Size(w)) /\ m \in Nat \ {0}
        BY <3>3
      <4>2. Group(v, m + 1) = Group(w, m)
        BY <4>1, GroupOK
      <4>3. Varint(v)[m + 1] = Group(v, m + 1) + (IF m + 1 < Size(v) THEN B ELSE 0)
        BY <4>1, VarintOK
      <4>4. Varint(w)[m] = Group(w, m) + (IF m < Size(w) THEN B ELSE 0)
        BY <3>1, VarintOK
      <4>5. QED
        BY <4>1, <4>2, <4>3, <4>4
    <3> HIDE DEF w, b
    <3>7. <<b>> \in Seq(Nat) /\ Len(<<b>>) = 1 /\ <<b>>[1] = b
      BY <3>1
    <3> DEFINE s == <<b>> \o Varint(w)
    <3>8. s \in Seq(Nat) /\ Len(s) = Size(v)
      BY <3>3, <3>4, <3>7, ConcatProperties
    <3>9. \A m \in 1..Size(v) : s[m] = Varint(v)[m]
      <4> SUFFICES ASSUME NEW m \in 1..Size(v) PROVE s[m] = Varint(v)[m]
        OBVIOUS
      <4>1. CASE m = 1
        <5>1. s[1] = <<b>>[1]
          BY <3>4, <3>7, ConcatProperties
        <5>2. QED
          BY <3>5, <3>7, <4>1, <5>1
      <4>2. CASE m > 1
        <5>1. m - 1 \in 1..Size(w) /\ (m - 1) + 1 = m
          BY <3>3, <4>2
        <5>2. s[m] = Varint(w)[m - 1]
          BY <3>3, <3>4, <3>7, <4>2, ConcatProperties
        <5>3. QED
          BY <3>6, <5>1, <5>2
      <4>3. m = 1 \/ m > 1
        BY <3>3
      <4>4. QED
        BY <4>1, <4>2, <4>3, Zenon
    <3> HIDE DEF s
    <3>10. s = Varint(v)
      BY <2>1, <3>8, <3>9, SeqEqual
    <3>11. QED
      BY <3>2, <3>10 DEF s
  <2>4. QED
    BY <2>2, <2>3, ByteBase
<1> HIDE DEF T
<1>2. \A v \in Nat : v \in T
  BY <1>1, Ascent
<1>3. QED
  BY <1>2 DEF T

\* as do the branches of EncodeVarint32.
LEMMA BranchesOK ==
  ASSUME NEW v \in Word
  PROVE  EncodeVarint32(v) = Varint(v) /\ Size(v) <= MaxGroups /\ v \in Nat
<1>1. v \in Nat /\ v < WordSize
  BY ByteBase DEF Word
<1>2. v < Power[MaxGroups]
  <2>1. WordSize <= Power[MaxGroups] /\ Power[MaxGroups] \in Nat
    BY CodingAssumption, PowerOK
  <2>2. QED
    BY <1>1, <2>1, ByteBase
<1>3. /\ Size(v) \in Nat \ {0} /\ v < Power[Size(v)]
      /\ \A m \in Nat \ {0} : v < Power[m] => Size(v) <= m
  BY <1>1, SizeOK
<1>4. Size(v) <= MaxGroups
  BY <1>2, <1>3, ByteBase
<1> DEFINE T == {m \in 1..MaxGroups : m = MaxGroups \/ v < Power[m]}
<1>5. Size(v) \in T /\ T \subseteq Nat
  BY <1>3, <1>4, ByteBase
<1>6. \A m \in T : Size(v) <= m
  BY <1>2, <1>3, ByteBase
<1>7. Min(T) = Size(v)
  <2> HIDE DEF T
  <2>1. Min(T) \in T /\ \A m \in T : Min(T) <= m
    BY <1>5, MinOK
  <2>2. QED
    <3>1. Min(T) <= Size(v) /\ Size(v) <= Min(T) /\ Min(T) \in Nat /\ Size(v) \in Nat
      BY <1>3, <1>5, <1>6, <2>1
    <3>2. QED
      BY <3>1
<1>8. EncodeVarint32(v) = Varint(v)
  BY <1>7, Zenon DEF EncodeVarint32, Varint
<1>9. QED
  BY <1>1, <1>4, <1>8

\* Result, one group after the other.
LEMMA ResultIs ==
  ASSUME NEW p, NEW n \in Nat, \A m \in 1..n : p[m] \in Nat
  PROVE  \E f \in [0..n -> Nat] :
           /\ Result(p, n) = f[n] /\ f[0] = 0
           /\ \A m \in 1..n : f[m] = f[m - 1] + (p[m] % B) * Power[m - 1]
<1> DEFINE D == 0..n
           Law(f) == f = [m \in D |-> IF m = 0 THEN 0
                                      ELSE f[m - 1] + (p[m] % B) * Power[m - 1]]
           add(v) == IF v \in 1..n THEN (p[v] % B) * Power[v - 1] ELSE 0
           next == [v \in Nat |-> [x \in Nat |-> x + add(v)]]
           down == [v \in Nat |-> IF v = 0 THEN 0 ELSE v - 1]
           base == [v \in Nat |-> 0]
<1>1. \A v \in Nat : add(v) \in Nat
  <2> SUFFICES ASSUME NEW v \in 1..n PROVE (p[v] % B) * Power[v - 1] \in Nat
    OBVIOUS
  <2>1. p[v] % B \in Nat
    <3>1. p[v] % B \in 0..B - 1
      BY Shorter
    <3>2. QED
      BY <3>1, ByteBase
  <2>2. Power[v - 1] \in Nat
    <3>1. v - 1 \in Nat
      OBVIOUS
    <3>2. QED
      BY <3>1, PowerOK
  <2>3. QED
    BY <2>1, <2>2
<1> HIDE DEF add
<1>2. \E f \in [D -> Nat] : Law(f)
  <2>1. next \in [Nat -> [Nat -> Nat]] /\ down \in [Nat -> Nat] /\ base \in [Nat -> Nat]
    BY <1>1
  <2>2. \A v \in Nat : v \in {0} \/ down[v] < v
    OBVIOUS
  <2>3. PICK g \in [Nat -> Nat] : Recursive(g, {0}, base, next, down)
    <3> HIDE DEF next, down, base
    <3>1. QED
      BY <2>1, <2>2, RecursiveExists
  <2>4. \A m \in Nat : g[m] = IF m = 0 THEN 0 ELSE g[m - 1] + add(m)
    <3>1. \A m \in Nat : g[m] = IF m \in {0} THEN base[m] ELSE next[m][g[down[m]]]
      BY <2>3 DEF Recursive
    <3>2. \A m \in Nat : m # 0 => down[m] = m - 1 /\ m - 1 \in Nat
      OBVIOUS
    <3>3. \A m \in Nat, x \in Nat : next[m][x] = x + add(m) /\ base[m] = 0
      OBVIOUS
    <3> HIDE DEF next, down, base
    <3>4. QED
      BY <3>1, <3>2, <3>3
  <2> DEFINE f == [m \in D |-> g[m]]
  <2>5. f \in [D -> Nat]
    OBVIOUS
  <2>6. ASSUME NEW m \in D
        PROVE  f[m] = IF m = 0 THEN 0 ELSE f[m - 1] + (p[m] % B) * Power[m - 1]
    <3>1. CASE m = 0
      BY <2>4, <3>1
    <3>2. CASE m # 0
      <4>1. m - 1 \in D /\ m \in 1..n /\ m \in Nat
        BY <3>2
      <4>2. f[m] = g[m] /\ f[m - 1] = g[m - 1]
        BY <4>1
      <4>3. add(m) = (p[m] % B) * Power[m - 1]
        BY <4>1 DEF add
      <4>4. g[m] = g[m - 1] + add(m)
        BY <2>4, <3>2, <4>1
      <4>5. QED
        BY <3>2, <4>2, <4>3, <4>4, Zenon
    <3>3. QED
      BY <3>1, <3>2
  <2> HIDE DEF D
  <2>7. f = [m \in D |-> f[m]]
    OBVIOUS
  <2> HIDE DEF f
  <2>8. Law(f)
    BY <2>6, <2>7, Zenon
  <2> HIDE DEF Law
  <2>9. QED
    BY <2>5, <2>8
<1> DEFINE R == CHOOSE f : Law(f)
<1>3. Law(R)
  <2> HIDE DEF Law
  <2>1. QED
    BY <1>2
<1>4. Result(p, n) = R[n]
  BY DEF Result
<1> HIDE DEF R
<1>5. ASSUME NEW m \in D PROVE R[m] = IF m = 0 THEN 0 ELSE R[m - 1] + (p[m] % B) * Power[m - 1]
  BY <1>3, Zenon
<1>6. DOMAIN R = D
  BY <1>3
<1>7. \A m \in D : R[m] \in Nat
  <2> DEFINE T == {m \in Nat : m \in D => R[m] \in Nat}
  <2>1. ASSUME NEW m \in Nat, \A k \in Nat : k < m => k \in T PROVE m \in T
    <3> SUFFICES ASSUME m \in D PROVE R[m] \in Nat
      OBVIOUS
    <3>1. CASE m = 0
      BY <1>5, <3>1
    <3>2. CASE m # 0
      <4>1. m - 1 \in Nat /\ m - 1 \in D /\ m - 1 < m /\ m \in 1..n
        BY <3>2
      <4>2. R[m - 1] \in Nat
        BY <2>1, <4>1
      <4>3. add(m) \in Nat /\ add(m) = (p[m] % B) * Power[m - 1]
        BY <1>1, <4>1 DEF add
      <4>4. R[m] = R[m - 1] + add(m)
        BY <1>5, <3>2, <4>3
      <4>5. QED
        BY <4>2, <4>3, <4>4
    <3>3. QED
      BY <3>1, <3>2
  <2> HIDE DEF T
  <2>2. \A m \in Nat : m \in T
    BY <2>1, Ascent
  <2>3. D \subseteq Nat
    OBVIOUS
  <2>4. QED
    BY <2>2, <2>3, Zenon DEF T
<1>8. R = [m \in D |-> R[m]]
  BY <1>3
<1>9. R \in [D -> Nat]
  BY <1>7, <1>8
<1>10. R[0] = 0 /\ \A m \in 1..n : R[m] = R[m - 1] + (p[m] % B) * Power[m - 1]
  <2>1. 0 \in D /\ \A m \in 1..n : m \in D /\ m # 0
    OBVIOUS
  <2>2. QED
    BY <1>5, <2>1, Zenon
<1>11. QED
  BY <1>4, <1>9, <1>10, Zenon

\* The groups of a varint, put together, are the number.
LEMMA ResultOK ==
  ASSUME NEW v \in Nat, NEW p, \A m \in 1..Size(v) : p[m] = Varint(v)[m]
  PROVE  Result(p, Size(v)) = v
<1> DEFINE n == Size(v)
<1>1. n \in Nat \ {0} /\ v < Power[n]
  BY SizeOK
<1>2. \A m \in 1..n : p[m] \in Nat /\ p[m] % B = Group(v, m)
  BY VarintOK
<1> HIDE DEF n
<1>3. PICK f \in [0..n -> Nat] :
         /\ Result(p, n) = f[n] /\ f[0] = 0
         /\ \A m \in 1..n : f[m] = f[m - 1] + (p[m] % B) * Power[m - 1]
  BY <1>1, <1>2, ResultIs
<1> DEFINE T == {m \in Nat : m <= n => v = f[m] + Power[m] * (v \div Power[m])}
<1>4. ASSUME NEW m \in Nat, \A k \in Nat : k < m => k \in T PROVE m \in T
  <2> SUFFICES ASSUME m <= n PROVE v = f[m] + Power[m] * (v \div Power[m])
    OBVIOUS
  <2>1. CASE m = 0
    <3>1. Power[0] = 1 /\ v \div 1 = v
      BY PowerOK
    <3>2. QED
      BY <1>3, <2>1, <3>1
  <2>2. CASE m # 0
    <3> DEFINE k == m - 1
               x == Power[k]
               q == v \div x
    <3>1. k \in Nat /\ k < m /\ k <= n /\ k + 1 = m /\ m \in 1..n /\ k \in 0..n
      BY <1>1, <2>2
    <3>2. x \in Nat \ {0} /\ Power[m] = B * x
      BY <3>1, PowerOK
    <3>3. q \in Nat
      BY <3>2, Division
    <3>4. v = f[k] + x * q
      BY <1>4, <3>1
    <3>5. f[m] = f[k] + (q % B) * x
      <4>1. Group(v, m) = q % B
        BY DEF Group
      <4>2. QED
        BY <1>2, <1>3, <3>1, <4>1
    <3>6. v \div Power[m] = q \div B
      <4>1. v \div (x * B) = q \div B
        BY <3>2, Twice, ByteBase
      <4>2. x * B = B * x
        BY <3>2, ByteBase
      <4>3. QED
        BY <3>2, <4>1, <4>2
    <3>7. PICK u \in Nat, s \in 0..B - 1 : u = q \div B /\ s = q % B /\ q = B * u + s
      BY <3>3, Shorter
    <3>8. f[k] \in Nat
      BY <1>3, <3>1
    <3> HIDE DEF q, x, k
    <3>9. x * q = (B * x) * u + s * x
      <4>1. x * (B * u + s) = (B * x) * u + s * x
        <5>1. PICK a \in Nat : a = B
          BY ByteBase
        <5>2. x * (a * u + s) = (a * x) * u + s * x
          BY <3>2, <3>7
        <5>3. QED
          BY <5>1, <5>2, Zenon
      <4>2. QED
        BY <3>7, <4>1
    <3>10. (B * x) * u \in Nat /\ s * x \in Nat
      BY <3>2, <3>7, ByteBase
    <3>11. f[m] = f[k] + s * x
      BY <3>5, <3>7
    <3>12. Power[m] * (v \div Power[m]) = (B * x) * u
      BY <3>2, <3>6, <3>7
    <3>13. QED
      BY <3>4, <3>8, <3>9, <3>10, <3>11, <3>12
  <2>3. QED
    BY <2>1, <2>2
<1> HIDE DEF T
<1>5. \A m \in Nat : m \in T
  BY <1>4, Ascent
<1>6. v = f[n] + Power[n] * (v \div Power[n])
  BY <1>1, <1>5 DEF T
<1>7. v \div Power[n] = 0
  <2>1. Power[n] \in Nat \ {0}
    BY <1>1, PowerOK
  <2>2. (0 * Power[n] + v) \div Power[n] = 0
    <3>1. v \in 0..Power[n] - 1
      BY <1>1, <2>1
    <3>2. QED
      BY <2>1, <3>1, Quotient
  <2>3. 0 * Power[n] + v = v
    BY <2>1
  <2>4. QED
    BY <2>2, <2>3, Zenon
<1>8. f[n] = v
  <2>1. Power[n] * 0 = 0 /\ f[n] \in Nat
    <3>1. Power[n] \in Nat /\ n \in 0..n
      <4>1. Power[n] \in Nat \ {0}
        BY <1>1, PowerOK
      <4>2. QED
        BY <1>1, <4>1
    <3>2. QED
      BY <1>3, <3>1
  <2>2. QED
    BY <1>6, <1>7, <2>1
<1>9. QED
  BY <1>3, <1>8 DEF n

\* A varint that is there is read as what it stands for;
LEMMA DecodeOK ==
  ASSUME NEW v \in Word, NEW p \in Seq(Nat), NEW end \in Nat, Size(v) <= end, Size(v) <= Len(p),
         \A m \in 1..Size(v) : p[m] = Varint(v)[m]
  PROVE  /\ GetVarint32Ptr(p, end) = [value |-> v, bytes |-> Size(v)]
         /\ GetVarint32Ptr(p, end) # NULL
<1> DEFINE T == {n \in 1..Len(p) : n <= end /\ n <= MaxGroups /\ p[n] < B}
           k == Size(v)
<1>1. v \in Nat /\ k <= MaxGroups /\ v < WordSize
  BY BranchesOK, ByteBase DEF Word
<1>2. /\ k \in Nat \ {0}
      /\ \A m \in 1..k : Varint(v)[m] \in Nat /\ (Varint(v)[m] < B <=> m = k)
  BY <1>1, VarintOK
<1>3. Result(p, k) = v
  BY <1>1, ResultOK
<1>4. GetVarint32Ptr(p, end) = IF T = {} THEN NULL
                               ELSE [value |-> Result(p, Min(T)) % WordSize, bytes |-> Min(T)]
  BY DEF GetVarint32Ptr
<1>5. k \in T
  BY <1>1, <1>2, LenProperties
<1>6. T \subseteq Nat
  BY LenProperties
<1>7. \A m \in T : k <= m
  <2> SUFFICES ASSUME NEW m \in T, m < k PROVE FALSE
    BY <1>2, <1>6
  <2>1. m \in 1..k /\ p[m] < B
    BY <1>2
  <2>2. QED
    BY <1>2, <2>1
<1> HIDE DEF T, k
<1>8. Min(T) = k
  <2>1. Min(T) \in T /\ \A m \in T : Min(T) <= m
    BY <1>5, <1>6, MinOK
  <2>2. Min(T) <= k /\ k <= Min(T) /\ Min(T) \in Nat /\ k \in Nat
    BY <1>2, <1>5, <1>6, <1>7, <2>1
  <2>3. QED
    BY <2>2
<1>9. v % WordSize = v
  <2>1. (0 * WordSize + v) % WordSize = v
    BY <1>1, ByteBase, Quotient, SMTT(30)
  <2>2. 0 * WordSize + v = v
    BY <1>1, ByteBase
  <2>3. QED
    BY <2>1, <2>2, Zenon
<1>10. GetVarint32Ptr(p, end) = [value |-> v, bytes |-> k]
  BY <1>3, <1>4, <1>5, <1>8, <1>9
<1>11. [value |-> v, bytes |-> k] \in [value : Nat, bytes : Nat]
  BY <1>1, <1>2
<1>12. QED
  BY <1>10, <1>11, CodingAssumption DEF k

\* one that was cut is not read.
LEMMA DecodeCut ==
  ASSUME NEW v \in Word, NEW p \in Seq(Nat), NEW end \in Nat, Len(p) < Size(v),
         \A m \in 1..Len(p) : p[m] = Varint(v)[m]
  PROVE  GetVarint32Ptr(p, end) = NULL
<1>1. v \in Nat /\ Len(p) \in Nat
  BY BranchesOK, LenProperties
<1>2. Size(v) \in Nat /\ \A m \in 1..Size(v) : (Varint(v)[m] < B <=> m = Size(v))
  BY <1>1, VarintOK
<1>3. {n \in 1..Len(p) : n <= end /\ n <= MaxGroups /\ p[n] < B} = {}
  BY <1>1, <1>2
<1>4. QED
  BY <1>3, Zenon DEF GetVarint32Ptr

-----------------------------------------------------------------------------
(* Masking.                                                                *)

\* What is stored in a trailer yields the checksum again, whatever the widths
\* of the rotation and the delta.
THEOREM MaskInverts == \A crc \in 0..Low * High - 1 : Unmask(Mask(crc)) = crc
<1> SUFFICES ASSUME NEW crc \in 0..Low * High - 1 PROVE Unmask(Mask(crc)) = crc
  OBVIOUS
<1> DEFINE W == Low * High
           q == crc \div Low
           r == crc % Low
           rot == q + r * High
<1>1. W \in Nat \ {0} /\ W = High * Low
  BY MaskAssumption
<1>2. q \in Int /\ r \in 0..Low - 1 /\ crc = Low * q + r
  BY <1>1, MaskAssumption
<1>3. q \in 0..High - 1
  <2>1. Low \in Int /\ High \in Int /\ crc \in 0..W - 1
    BY MaskAssumption
  <2>2. ASSUME q >= High PROVE FALSE
    <3>1. Low * q >= Low * High
      BY <1>2, <2>1, <2>2, MaskAssumption
    <3>2. QED
      BY <1>1, <1>2, <2>1, <3>1
  <2>3. ASSUME q <= -1 PROVE FALSE
    <3>1. Low * q <= -Low
      BY <1>2, <2>1, <2>3, MaskAssumption
    <3>2. QED
      BY <1>2, <2>1, <3>1
  <2>4. QED
    BY <1>2, <2>1, <2>2, <2>3
<1> HIDE DEF q, r
<1>4. rot \in 0..W - 1
  <2>1. r * High >= 0 /\ r * High <= W - High
    <3>1. (Low - 1 - r) * High >= 0 /\ r * High >= 0
      BY <1>2, MaskAssumption
    <3>2. (Low - 1 - r) * High = W - High - r * High
      BY <1>1, <1>2, MaskAssumption
    <3>3. r * High \in Int /\ High \in Int
      BY <1>2, MaskAssumption
    <3>4. QED
      BY <1>1, <3>1, <3>2, <3>3
  <2>2. r * High \in Int /\ High \in Int
    BY <1>2, MaskAssumption
  <2>3. QED
    BY <1>1, <1>3, <2>1, <2>2
<1>5. rot \div High = r /\ rot % High = q
  <2>1. rot = r * High + q /\ r \in Int /\ q \in 0..High - 1
    BY <1>2, <1>3, MaskAssumption
  <2>2. QED
    BY <2>1, Quotient, MaskAssumption
<1> HIDE DEF rot, W
<1>6. (Mask(crc) - kMaskDelta) % W = rot
  <2>1. Mask(crc) = (rot + kMaskDelta) % W /\ kMaskDelta \in 0..W - 1
    BY MaskAssumption DEF Mask, rot, q, r, W
  <2>2. CASE rot + kMaskDelta < W
    <3>1. rot + kMaskDelta = 0 * W + (rot + kMaskDelta) /\ rot = 0 * W + rot
      BY <1>1, <1>4, <2>1
    <3>2. rot + kMaskDelta \in 0..W - 1
      BY <1>1, <1>4, <2>1, <2>2
    <3>3. (0 * W + (rot + kMaskDelta)) % W = rot + kMaskDelta
      BY <1>1, <3>2, Quotient
    <3>4. (0 * W + rot) % W = rot
      BY <1>1, <1>4, Quotient
    <3>5. (rot + kMaskDelta) % W = rot + kMaskDelta /\ rot % W = rot
      BY <3>1, <3>3, <3>4
    <3>6. QED
      BY <1>4, <2>1, <3>5
  <2>3. CASE rot + kMaskDelta >= W
    <3>1. rot + kMaskDelta = 1 * W + (rot + kMaskDelta - W) /\ rot - W = (-1) * W + rot
      BY <1>1, <1>4, <2>1
    <3>2. rot + kMaskDelta - W \in 0..W - 1
      BY <1>1, <1>4, <2>1, <2>3
    <3>3. (1 * W + (rot + kMaskDelta - W)) % W = rot + kMaskDelta - W
      BY <1>1, <3>2, Quotient
    <3>4. ((-1) * W + rot) % W = rot
      BY <1>1, <1>4, Quotient
    <3>5. (rot + kMaskDelta) % W = rot + kMaskDelta - W /\ (rot - W) % W = rot
      BY <3>1, <3>3, <3>4
    <3>6. QED
      BY <1>1, <1>4, <2>1, <3>5
  <2>4. QED
    BY <1>1, <1>4, <2>1, <2>2, <2>3
<1>7. Unmask(Mask(crc)) = r + q * Low
  BY <1>5, <1>6 DEF Unmask, W
<1>8. QED
  BY <1>2, <1>3, <1>7, MaskAssumption

-----------------------------------------------------------------------------
(* Registers: shifting is linear.                                          *)

\* A chain of values, each made of the one before it.
Made(f, a, N, make) == f[0] = a /\ \A n \in 1..N : f[n] = make[n][f[n - 1]]

LEMMA ChainExists ==
  ASSUME NEW S, NEW a \in S, NEW N \in Nat, NEW make \in [1..N -> [S -> S]]
  PROVE  \E f \in [0..N -> S] : Made(f, a, N, make)
<1> DEFINE next == [v \in Nat |-> IF v \in 1..N THEN make[v] ELSE [x \in S |-> x]]
           down == [v \in Nat |-> IF v = 0 THEN 0 ELSE v - 1]
           base == [v \in Nat |-> a]
<1>1. next \in [Nat -> [S -> S]] /\ down \in [Nat -> Nat] /\ base \in [Nat -> S]
  OBVIOUS
<1>2. \A v \in Nat : v \in {0} \/ down[v] < v
  OBVIOUS
<1>3. PICK g \in [Nat -> S] : Recursive(g, {0}, base, next, down)
  <2> HIDE DEF next, down, base
  <2>1. S # {}
    OBVIOUS
  <2>2. QED
    BY <1>1, <1>2, <2>1, RecursiveExists
<1>4. \A v \in Nat : g[v] = IF v \in {0} THEN base[v] ELSE next[v][g[down[v]]]
  BY <1>3 DEF Recursive
<1> DEFINE f == [n \in 0..N |-> g[n]]
<1>5. f \in [0..N -> S]
  OBVIOUS
<1>6. f[0] = a
  <2>1. f[0] = g[0] /\ base[0] = a
    OBVIOUS
  <2> HIDE DEF f, next, down, base
  <2>2. QED
    BY <1>4, <2>1
<1>7. ASSUME NEW n \in 1..N PROVE f[n] = make[n][f[n - 1]]
  <2>1. n - 1 \in 0..N /\ n \in 0..N /\ n \in Nat /\ n # 0
    OBVIOUS
  <2>2. f[n] = g[n] /\ f[n - 1] = g[n - 1]
    BY <2>1
  <2>3. next[n] = make[n] /\ down[n] = n - 1
    BY <2>1
  <2> HIDE DEF f, next, down, base
  <2>4. g[n] = next[n][g[down[n]]]
    BY <1>4, <2>1
  <2>5. QED
    BY <2>2, <2>3, <2>4
<1> HIDE DEF f
<1>8. QED
  BY <1>5, <1>6, <1>7 DEF Made

-----------------------------------------------------------------------------
Register == SUBSET Positions

\* The widths.
LEMMA Width ==
  /\ ByteBits \in Nat \ {0} /\ 4 * ByteBits \in Nat /\ Positions \subseteq Nat
  /\ Polynomial \in Register /\ {} \in Register /\ kCRC32Xor \in Register
BY ChecksumAssumption DEF Positions, Register, kCRC32Xor

\* Exclusive or.
LEMMA XorElement == \A x, a, b : x \in Xor(a, b) <=> ~(x \in a <=> x \in b)
BY DEF Xor

LEMMA XorLaws ==
  /\ \A a, b \in Register : Xor(a, b) \in Register
  /\ \A a, b : Xor(a, b) = Xor(b, a)
  /\ \A a, b, c : Xor(Xor(a, b), c) = Xor(a, Xor(b, c))
  /\ \A a : Xor(a, a) = {} /\ Xor(a, {}) = a /\ Xor({}, a) = a
BY DEF Xor, Register

\* Shifting to the right.
LEMMA ShiftRightOK ==
  ASSUME NEW w \in Register, NEW n \in Nat
  PROVE  /\ ShiftRight(w, n) \in Register
         /\ \A k \in Nat : k \in ShiftRight(w, n) <=> k + n \in w
<1>1. w \subseteq Nat
  BY Width DEF Register
<1>2. ASSUME NEW k \in Nat PROVE k \in ShiftRight(w, n) <=> k + n \in w
  <2>1. ASSUME k \in ShiftRight(w, n) PROVE k + n \in w
    <3>1. PICK i \in w : i >= n /\ k = i - n
      BY <2>1 DEF ShiftRight
    <3>2. QED
      BY <1>1, <3>1
  <2>2. ASSUME k + n \in w PROVE k \in ShiftRight(w, n)
    <3>1. k + n \in {j \in w : j >= n} /\ (k + n) - n = k
      BY <2>2
    <3>2. QED
      BY <3>1 DEF ShiftRight
  <2>3. QED
    BY <2>1, <2>2
<1>3. ASSUME NEW k \in ShiftRight(w, n) PROVE k \in Positions
  <2>1. PICK i \in w : i >= n /\ k = i - n
    BY DEF ShiftRight
  <2>2. i \in 0..4 * ByteBits - 1
    BY <2>1 DEF Register, Positions
  <2>3. QED
    BY <2>1, <2>2, Width DEF Positions
<1>4. QED
  BY <1>2, <1>3 DEF Register

\* Equal where it matters.
LEMMA SameBits ==
  ASSUME NEW v \in Register, NEW w \in Register, \A k \in Nat : k \in v <=> k \in w
  PROVE  v = w
BY Width DEF Register

\* Shifting is linear,
LEMMA ShiftRightLinear ==
  ASSUME NEW v \in Register, NEW w \in Register, NEW n \in Nat
  PROVE  ShiftRight(Xor(v, w), n) = Xor(ShiftRight(v, n), ShiftRight(w, n))
<1>1. Xor(v, w) \in Register
  BY XorLaws
<1>2. /\ ShiftRight(Xor(v, w), n) \in Register
      /\ Xor(ShiftRight(v, n), ShiftRight(w, n)) \in Register
  BY <1>1, ShiftRightOK, XorLaws
<1>3. ASSUME NEW k \in Nat
      PROVE  k \in ShiftRight(Xor(v, w), n) <=> k \in Xor(ShiftRight(v, n), ShiftRight(w, n))
  <2>1. k \in ShiftRight(Xor(v, w), n) <=> k + n \in Xor(v, w)
    BY <1>1, ShiftRightOK
  <2>2. /\ k \in ShiftRight(v, n) <=> k + n \in v
        /\ k \in ShiftRight(w, n) <=> k + n \in w
    BY ShiftRightOK
  <2>3. QED
    <3>1. k + n \in Xor(v, w) <=> ~(k + n \in v <=> k + n \in w)
      BY XorElement
    <3>2. k \in Xor(ShiftRight(v, n), ShiftRight(w, n))
            <=> ~(k \in ShiftRight(v, n) <=> k \in ShiftRight(w, n))
      BY XorElement
    <3>3. QED
      BY <2>1, <2>2, <3>1, <3>2
<1>4. QED
  BY <1>2, <1>3, SameBits

\* The register is linear.
LEMMA ShiftedOK ==
  /\ \A v \in Register : Shifted(v) \in Register
  /\ \A v, w \in Register : Shifted(Xor(v, w)) = Xor(Shifted(v), Shifted(w))
<1>1. ASSUME NEW v \in Register PROVE Shifted(v) \in Register
  BY ShiftRightOK, XorLaws, Width DEF Shifted
<1>2. ASSUME NEW v \in Register, NEW w \in Register
      PROVE  Shifted(Xor(v, w)) = Xor(Shifted(v), Shifted(w))
  <2> DEFINE a == ShiftRight(v, 1)
             b == ShiftRight(w, 1)
             p == Polynomial
  <2>1. ShiftRight(Xor(v, w), 1) = Xor(a, b)
    BY ShiftRightLinear
  <2>2. Shifted(Xor(v, w)) = IF 0 \in Xor(v, w) THEN Xor(Xor(a, b), p) ELSE Xor(a, b)
    BY <2>1 DEF Shifted
  <2>3. /\ Shifted(v) = IF 0 \in v THEN Xor(a, p) ELSE a
        /\ Shifted(w) = IF 0 \in w THEN Xor(b, p) ELSE b
    BY DEF Shifted
  <2>4. 0 \in Xor(v, w) <=> ~(0 \in v <=> 0 \in w)
    BY XorElement
  <2> HIDE DEF a, b, p
  <2>5. /\ Xor(Xor(a, b), p) = Xor(a, Xor(b, p)) /\ Xor(Xor(a, b), p) = Xor(Xor(a, p), b)
        /\ Xor(a, b) = Xor(Xor(a, p), Xor(b, p))
    BY DEF Xor
  <2>6. QED
    BY <2>2, <2>3, <2>4, <2>5, Zenon
<1>3. QED
  BY <1>1, <1>2

-----------------------------------------------------------------------------
(* Registers: the bits after zeros.                                        *)

\* The register after n zero bits, as a function of the register before.
Iterates(Z) ==
  /\ Z \in [Nat -> [Register -> Register]]
  /\ \A l \in Register : Z[0][l] = l
  /\ \A n \in Nat, l \in Register : Z[n + 1][l] = Shifted(Z[n][l])

Zeros == CHOOSE Z : Iterates(Z)

LEMMA ZerosOK == Iterates(Zeros)
<1> DEFINE F == [Register -> Register]
           base == [v \in Nat |-> [l \in Register |-> l]]
           next == [v \in Nat |-> [f \in F |-> [l \in Register |-> Shifted(f[l])]]]
           down == [v \in Nat |-> IF v = 0 THEN 0 ELSE v - 1]
<1>1. base \in [Nat -> F] /\ down \in [Nat -> Nat]
  OBVIOUS
<1>2. next \in [Nat -> [F -> F]]
  <2>1. \A f \in F, l \in Register : Shifted(f[l]) \in Register
    BY ShiftedOK
  <2>2. QED
    BY <2>1
<1>3. \A v \in Nat : v \in {0} \/ down[v] < v
  OBVIOUS
<1>4. F # {}
  BY <1>1
<1>5. PICK Z \in [Nat -> F] : Recursive(Z, {0}, base, next, down)
  <2> HIDE DEF F, base, next, down
  <2>1. QED
    BY <1>1, <1>2, <1>3, <1>4, RecursiveExists
<1>6. \A v \in Nat : Z[v] = IF v \in {0} THEN base[v] ELSE next[v][Z[down[v]]]
  BY <1>5 DEF Recursive
<1>7. Iterates(Z)
  <2>1. ASSUME NEW l \in Register PROVE Z[0][l] = l
    <3>1. base[0][l] = l
      OBVIOUS
    <3> HIDE DEF base, next, down, F
    <3>2. Z[0] = base[0]
      BY <1>6
    <3>3. QED
      BY <3>1, <3>2
  <2>2. ASSUME NEW n \in Nat, NEW l \in Register PROVE Z[n + 1][l] = Shifted(Z[n][l])
    <3>1. down[n + 1] = n /\ n + 1 \in Nat /\ n + 1 # 0
      OBVIOUS
    <3>2. \A f \in F : next[n + 1][f][l] = Shifted(f[l])
      BY <3>1
    <3> HIDE DEF base, next, down
    <3>3. Z[n + 1] = next[n + 1][Z[n]]
      BY <1>6, <3>1
    <3>4. Z[n] \in F
      BY <1>5
    <3>5. QED
      BY <3>2, <3>3, <3>4
  <2>3. QED
    BY <1>5, <2>1, <2>2 DEF Iterates
<1>8. QED
  BY <1>7 DEF Zeros

LEMMA ZerosLaws ==
  /\ \A n \in Nat, l \in Register : Zeros[n][l] \in Register
  /\ \A l \in Register : Zeros[0][l] = l
  /\ \A n \in Nat, l \in Register : Zeros[n + 1][l] = Shifted(Zeros[n][l])
BY ZerosOK DEF Iterates

\* What a step of an induction over Nat is.
LEMMA Upward ==
  ASSUME NEW T, 0 \in T, \A n \in Nat : n \in T => n + 1 \in T
  PROVE  \A n \in Nat : n \in T
<1>1. ASSUME NEW n \in Nat, \A m \in Nat : m < n => m \in T PROVE n \in T
  <2>1. CASE n = 0
    BY <2>1
  <2>2. CASE n # 0
    <3>1. n - 1 \in Nat /\ n - 1 < n /\ (n - 1) + 1 = n
      BY <2>2
    <3>2. n - 1 \in T
      BY <1>1, <3>1
    <3>3. QED
      BY <3>1, <3>2
  <2>3. QED
    BY <2>1, <2>2
<1>2. QED
  BY <1>1, Ascent

\* The register after zeros is linear in the register before,
LEMMA ZerosLinear ==
  ASSUME NEW v \in Register, NEW w \in Register
  PROVE  \A n \in Nat : Zeros[n][Xor(v, w)] = Xor(Zeros[n][v], Zeros[n][w])
<1> DEFINE T == {n \in Nat : Zeros[n][Xor(v, w)] = Xor(Zeros[n][v], Zeros[n][w])}
<1>1. Xor(v, w) \in Register
  BY XorLaws
<1>2. 0 \in T
  BY <1>1, ZerosLaws
<1>3. ASSUME NEW n \in Nat, n \in T PROVE n + 1 \in T
  <2>1. Zeros[n + 1][Xor(v, w)] = Shifted(Xor(Zeros[n][v], Zeros[n][w]))
    BY <1>1, <1>3, ZerosLaws
  <2>2. Zeros[n][v] \in Register /\ Zeros[n][w] \in Register
    BY ZerosLaws
  <2>3. Shifted(Xor(Zeros[n][v], Zeros[n][w])) = Xor(Shifted(Zeros[n][v]), Shifted(Zeros[n][w]))
    BY <2>2, ShiftedOK
  <2>4. Shifted(Zeros[n][v]) = Zeros[n + 1][v] /\ Shifted(Zeros[n][w]) = Zeros[n + 1][w]
    BY ZerosLaws
  <2>5. QED
    BY <2>1, <2>3, <2>4
<1> HIDE DEF T
<1>4. \A n \in Nat : n \in T
  BY <1>2, <1>3, Upward
<1>5. QED
  BY <1>4 DEF T

\* and zeros behind zeros add up.
LEMMA ZerosAdd ==
  ASSUME NEW l \in Register, NEW m \in Nat
  PROVE  \A n \in Nat : Zeros[m + n][l] = Zeros[n][Zeros[m][l]]
<1> DEFINE T == {n \in Nat : Zeros[m + n][l] = Zeros[n][Zeros[m][l]]}
           x == Zeros[m][l]
<1>1. x \in Register
  BY ZerosLaws
<1>2. 0 \in T
  <2>1. m + 0 = m /\ Zeros[0][x] = x
    BY <1>1, ZerosLaws
  <2>2. QED
    BY <2>1
<1>3. ASSUME NEW n \in Nat, n \in T PROVE n + 1 \in T
  <2>1. m + (n + 1) = (m + n) + 1 /\ m + n \in Nat
    OBVIOUS
  <2>2. Zeros[(m + n) + 1][l] = Shifted(Zeros[m + n][l])
    BY <2>1, ZerosLaws
  <2>3. Zeros[n + 1][x] = Shifted(Zeros[n][x])
    BY <1>1, ZerosLaws
  <2>4. Zeros[m + n][l] = Zeros[n][x]
    BY <1>3
  <2> HIDE DEF x
  <2>5. Zeros[m + (n + 1)][l] = Zeros[n + 1][x]
    BY <2>1, <2>2, <2>3, <2>4
  <2>6. QED
    BY <2>5 DEF x
<1> HIDE DEF T
<1>4. \A n \in Nat : n \in T
  BY <1>2, <1>3, Upward
<1>5. QED
  BY <1>4 DEF T

\* What is not yet at the low end only moves.
LEMMA ZerosMove ==
  ASSUME NEW w \in Register, NEW m \in Nat, \A i \in w : i >= m
  PROVE  Zeros[m][w] = ShiftRight(w, m)
<1> DEFINE T == {n \in Nat : n <= m => Zeros[n][w] = ShiftRight(w, n)}
<1>1. 0 \in T
  <2>1. ShiftRight(w, 0) \in Register /\ \A k \in Nat : k \in ShiftRight(w, 0) <=> k \in w
    <3>1. \A k \in Nat : k + 0 = k
      OBVIOUS
    <3>2. QED
      BY <3>1, ShiftRightOK
  <2>2. ShiftRight(w, 0) = w
    BY <2>1, SameBits
  <2>3. QED
    BY <2>2, ZerosLaws
<1>2. ASSUME NEW n \in Nat, n \in T PROVE n + 1 \in T
  <2> SUFFICES ASSUME n + 1 <= m PROVE Zeros[n + 1][w] = ShiftRight(w, n + 1)
    OBVIOUS
  <2> DEFINE x == ShiftRight(w, n)
  <2>1. Zeros[n][w] = x
    BY <1>2
  <2>2. x \in Register /\ \A k \in Nat : k \in x <=> k + n \in w
    BY ShiftRightOK
  <2>3. 0 \notin x
    <3>1. 0 + n \notin w
      OBVIOUS
    <3>2. QED
      BY <2>2, <3>1
  <2> HIDE DEF x
  <2>4. Shifted(x) = ShiftRight(x, 1)
    BY <2>3 DEF Shifted
  <2>5. ShiftRight(x, 1) \in Register /\ ShiftRight(w, n + 1) \in Register
    BY <2>2, ShiftRightOK
  <2>6. ASSUME NEW k \in Nat PROVE k \in ShiftRight(x, 1) <=> k \in ShiftRight(w, n + 1)
    <3>1. k \in ShiftRight(x, 1) <=> k + 1 \in x
      BY <2>2, ShiftRightOK
    <3>2. k + 1 \in x <=> (k + 1) + n \in w
      BY <2>2
    <3>3. k \in ShiftRight(w, n + 1) <=> k + (n + 1) \in w
      BY ShiftRightOK
    <3>4. (k + 1) + n = k + (n + 1)
      OBVIOUS
    <3>5. QED
      BY <3>1, <3>2, <3>3, <3>4
  <2>7. ShiftRight(x, 1) = ShiftRight(w, n + 1)
    BY <2>5, <2>6, SameBits
  <2>8. QED
    BY <2>1, <2>4, <2>7, ZerosLaws
<1> HIDE DEF T
<1>3. \A n \in Nat : n \in T
  BY <1>1, <1>2, Upward
<1>4. QED
  BY <1>3 DEF T

\* The images the tables are made from.
LEMMA AfterZerosOK ==
  ASSUME NEW n \in Nat, NEW i \in Positions
  PROVE  AfterZeros(n, i) = Zeros[n][{i}]
<1> DEFINE D == 0..n
           Law(f) == f = [m \in D |-> IF m = 0 THEN {i} ELSE Shifted(f[m - 1])]
           z == [m \in D |-> Zeros[m][{i}]]
<1>1. {i} \in Register
  BY DEF Register
<1>2. Law(z)
  <2>1. ASSUME NEW m \in D PROVE z[m] = IF m = 0 THEN {i} ELSE Shifted(z[m - 1])
    <3>1. CASE m = 0
      BY <1>1, <3>1, ZerosLaws
    <3>2. CASE m # 0
      <4>1. m - 1 \in D /\ m - 1 \in Nat /\ (m - 1) + 1 = m
        BY <3>2
      <4>2. z[m] = Zeros[m][{i}] /\ z[m - 1] = Zeros[m - 1][{i}]
        BY <4>1
      <4>3. Zeros[m][{i}] = Shifted(Zeros[m - 1][{i}])
        BY <1>1, <4>1, ZerosLaws
      <4>4. QED
        BY <3>2, <4>2, <4>3, Zenon
    <3>3. QED
      BY <3>1, <3>2
  <2>2. z = [m \in D |-> z[m]]
    OBVIOUS
  <2> HIDE DEF z, D
  <2>3. QED
    BY <2>1, <2>2, Zenon
<1> DEFINE R == CHOOSE f : Law(f)
<1>3. Law(R)
  <2> HIDE DEF Law, z
  <2>1. QED
    BY <1>2
<1>4. AfterZeros(n, i) = R[n]
  BY DEF AfterZeros
<1> HIDE DEF R
<1>5. ASSUME NEW m \in D PROVE R[m] = IF m = 0 THEN {i} ELSE Shifted(R[m - 1])
  BY <1>3, Zenon
<1> DEFINE T == {m \in Nat : m <= n => R[m] = Zeros[m][{i}]}
<1>6. 0 \in T
  <2>1. 0 \in D
    OBVIOUS
  <2>2. R[0] = {i}
    BY <1>5, <2>1
  <2>3. QED
    BY <1>1, <2>2, ZerosLaws
<1>7. ASSUME NEW m \in Nat, m \in T PROVE m + 1 \in T
  <2> SUFFICES ASSUME m + 1 <= n PROVE R[m + 1] = Zeros[m + 1][{i}]
    OBVIOUS
  <2>1. m + 1 \in D /\ m + 1 # 0 /\ (m + 1) - 1 = m
    OBVIOUS
  <2>2. R[m + 1] = Shifted(R[m])
    BY <1>5, <2>1
  <2>3. R[m] = Zeros[m][{i}]
    BY <1>7
  <2>4. QED
    BY <1>1, <2>2, <2>3, ZerosLaws
<1> HIDE DEF T
<1>8. \A m \in Nat : m \in T
  BY <1>6, <1>7, Upward
<1>9. QED
  BY <1>4, <1>8 DEF T

-----------------------------------------------------------------------------
(* Words and bytes as sets of bits.                                        *)

\* Odd and even.
LEMMA Parity == \A c \in Nat : (c + 1) % 2 = 1 <=> ~(c % 2 = 1)
OBVIOUS

\* A linear map is known by what it makes of single bits.
LEMMA AppliedOK ==
  ASSUME NEW n \in Nat, NEW w \in Register, NEW image,
         \A i \in w : image[i] = Zeros[n][{i}]
  PROVE  Applied(image, w) = Zeros[n][w]
<1> DEFINE Below(k) == w \cap 0..k - 1
           Ones(k, j) == {i \in Below(k) : j \in image[i]}
           Good(k, j) == /\ IsFiniteSet(Ones(k, j)) /\ Cardinality(Ones(k, j)) \in Nat
                         /\ j \in Zeros[n][Below(k)] <=> Cardinality(Ones(k, j)) % 2 = 1
           T == {k \in Nat : \A j \in Positions : Good(k, j)}
<1>1. w \subseteq 0..4 * ByteBits - 1 /\ 4 * ByteBits \in Nat
  BY Width DEF Register, Positions
<1>2. /\ \A k : Below(k) \in Register
      /\ Below(0) = {} /\ Below(4 * ByteBits) = w
  <2>1. 0..0 - 1 = {}
    OBVIOUS
  <2>2. QED
    BY <1>1, <2>1 DEF Register
<1>3. ASSUME NEW k \in Nat
      PROVE  /\ k \notin Below(k)
             /\ k \in w => Below(k + 1) = Below(k) \cup {k}
             /\ k \notin w => Below(k + 1) = Below(k)
  <2>1. 0..(k + 1) - 1 = 0..k - 1 \cup {k} /\ k \notin 0..k - 1
    OBVIOUS
  <2>2. QED
    BY <2>1
<1> HIDE DEF Below
<1>4. 0 \in T
  <2>1. \A j : Ones(0, j) = {}
    BY <1>2
  <2>2. Zeros[n][{}] = {}
    <3>1. ShiftRight({}, n) = {}
      BY DEF ShiftRight
    <3>2. QED
      BY <3>1, Width, ZerosMove
  <2>3. Cardinality({}) = 0 /\ IsFiniteSet({}) /\ 0 % 2 = 0
    BY FS_EmptySet
  <2> HIDE DEF Ones
  <2>4. \A j \in Positions : Good(0, j)
    <3> SUFFICES ASSUME NEW j \in Positions PROVE Good(0, j)
      OBVIOUS
    <3>1. IsFiniteSet(Ones(0, j)) /\ Cardinality(Ones(0, j)) = 0
      BY <2>1, <2>3
    <3>2. j \notin Zeros[n][Below(0)]
      BY <1>2, <2>2
    <3>3. QED
      BY <2>3, <3>1, <3>2
  <2> HIDE DEF Good
  <2>5. QED
    BY <2>4
<1>5. ASSUME NEW k \in Nat, k \in T PROVE k + 1 \in T
  <2> SUFFICES ASSUME NEW j \in Positions PROVE Good(k + 1, j)
    <3> HIDE DEF Good
    <3> QED
      OBVIOUS
  <2>1. Good(k, j)
    <3> HIDE DEF Good
    <3> QED
      BY <1>5
  <2> HIDE DEF T
  <2>2. CASE k \notin w
    <3>1. Below(k + 1) = Below(k)
      BY <1>3, <2>2
    <3>2. Ones(k + 1, j) = Ones(k, j)
      BY <3>1
    <3> HIDE DEF Ones
    <3>3. QED
      BY <2>1, <3>1, <3>2
  <2>3. CASE k \in w
    <3>1. Below(k + 1) = Below(k) \cup {k} /\ {k} \in Register /\ k \notin Below(k)
      BY <1>3, <2>3 DEF Register
    <3>1a. Below(k + 1) = Xor(Below(k), {k})
      BY <3>1 DEF Xor
    <3>2. Zeros[n][Below(k + 1)] = Xor(Zeros[n][Below(k)], image[k])
      <4>1. \A m \in Nat : Zeros[m][Xor(Below(k), {k})] = Xor(Zeros[m][Below(k)], Zeros[m][{k}])
        BY <1>2, <3>1, ZerosLinear
      <4>2. Zeros[n][{k}] = image[k]
        BY <2>3
      <4>3. QED
        BY <3>1a, <4>1, <4>2
    <3>3. j \in Zeros[n][Below(k + 1)] <=> ~(j \in Zeros[n][Below(k)] <=> j \in image[k])
      BY <3>2, XorElement
    <3>4. k \notin Ones(k, j)
      BY <3>1
    <3>5. CASE j \in image[k]
      <4>1. Ones(k + 1, j) = Ones(k, j) \cup {k}
        BY <3>1, <3>5
      <4> HIDE DEF Ones
      <4>1a. IsFiniteSet(Ones(k, j)) /\ Cardinality(Ones(k, j)) \in Nat
        BY <2>1
      <4>2. /\ IsFiniteSet(Ones(k, j) \cup {k})
            /\ Cardinality(Ones(k, j) \cup {k}) = Cardinality(Ones(k, j)) + 1
        BY <3>4, <4>1a, FS_AddElement
      <4>3. (Cardinality(Ones(k, j)) + 1) % 2 = 1 <=> ~(Cardinality(Ones(k, j)) % 2 = 1)
        BY <4>1a, Parity
      <4>4. IsFiniteSet(Ones(k + 1, j)) /\ Cardinality(Ones(k + 1, j)) = Cardinality(Ones(k, j)) + 1
        BY <4>1, <4>2
      <4>5. j \in Zeros[n][Below(k + 1)] <=> (Cardinality(Ones(k, j)) + 1) % 2 = 1
        BY ONLY <2>1, <3>3, <3>5, <4>3
      <4>6. QED
        BY <4>1a, <4>4, <4>5
    <3>6. CASE j \notin image[k]
      <4>1. Ones(k + 1, j) = Ones(k, j)
        BY <3>1, <3>6
      <4> HIDE DEF Ones
      <4>2. QED
        BY <2>1, <3>3, <3>6, <4>1
    <3>7. QED
      BY <3>5, <3>6
  <2>4. QED
    BY <2>2, <2>3
<1>6. \A k \in Nat : k \in T
  <2> HIDE DEF T
  <2>1. QED
    BY <1>4, <1>5, Upward
<1>7. \A j \in Positions : j \in Zeros[n][w] <=> Cardinality({i \in w : j \in image[i]}) % 2 = 1
  <2>1. \A j \in Positions : Good(4 * ByteBits, j)
    <3> HIDE DEF Good
    <3>1. 4 * ByteBits \in T
      BY <1>1, <1>6
    <3>2. QED
      BY <3>1
  <2>2. QED
    BY <1>2, <2>1
<1>8. Applied(image, w) = {j \in Positions : j \in Zeros[n][w]}
  BY <1>7 DEF Applied
<1>9. Zeros[n][w] \in Register
  BY ZerosLaws
<1>10. QED
  BY <1>8, <1>9 DEF Register

-----------------------------------------------------------------------------
\* Powers of two.
LEMMA Power2OK ==
  /\ Power2[0] = 1
  /\ \A n \in Nat : Power2[n] \in Nat \ {0} /\ Power2[n + 1] = 2 * Power2[n]
<1> DEFINE Law(f) == f = [n \in Nat |-> IF n = 0 THEN 1 ELSE 2 * f[n - 1]]
           next == [v \in Nat |-> [x \in Nat |-> 2 * x]]
           down == [v \in Nat |-> IF v = 0 THEN 0 ELSE v - 1]
           base == [v \in Nat |-> 1]
<1>2. \E f : Law(f)
  <2>1. next \in [Nat -> [Nat -> Nat]] /\ down \in [Nat -> Nat] /\ base \in [Nat -> Nat]
    OBVIOUS
  <2>2. \A v \in Nat : v \in {0} \/ down[v] < v
    OBVIOUS
  <2>3. PICK g \in [Nat -> Nat] : Recursive(g, {0}, base, next, down)
    <3> HIDE DEF next, down, base
    <3>1. QED
      BY <2>1, <2>2, RecursiveExists
  <2>4. \A n \in Nat : g[n] = IF n = 0 THEN 1 ELSE 2 * g[n - 1]
    <3>1. \A n \in Nat : g[n] = IF n \in {0} THEN base[n] ELSE next[n][g[down[n]]]
      BY <2>3 DEF Recursive
    <3>2. \A n \in Nat : n # 0 => down[n] = n - 1 /\ n - 1 \in Nat
      OBVIOUS
    <3>3. \A n \in Nat, x \in Nat : next[n][x] = 2 * x /\ base[n] = 1
      OBVIOUS
    <3> HIDE DEF next, down, base
    <3>4. ASSUME NEW n \in Nat PROVE g[n] = IF n = 0 THEN 1 ELSE 2 * g[n - 1]
      <4>1. CASE n = 0
        BY <3>1, <3>3, <4>1
      <4>2. CASE n # 0
        <5>1. g[n] = next[n][g[n - 1]] /\ g[n - 1] \in Nat
          BY <2>3, <3>1, <3>2, <4>2
        <5>2. QED
          BY <3>3, <4>2, <5>1
      <4>3. QED
        BY <4>1, <4>2
    <3>5. QED
      BY <3>4
  <2>5. Law(g)
    BY <2>4
  <2>6. QED
    BY <2>5
<1>3. Law(Power2)
  <2>1. Power2 = CHOOSE f : Law(f)
    BY DEF Power2
  <2> HIDE DEF Law
  <2>2. QED
    BY <1>2, <2>1
<1>4. \A n \in Nat : Power2[n] = IF n = 0 THEN 1 ELSE 2 * Power2[n - 1]
  BY <1>3
<1>5. Power2[0] = 1 /\ \A n \in Nat : Power2[n + 1] = 2 * Power2[n]
  <2>1. Power2[0] = 1
    BY <1>4
  <2>2. ASSUME NEW n \in Nat PROVE Power2[n + 1] = 2 * Power2[n]
    <3>1. n + 1 \in Nat /\ n + 1 # 0 /\ (n + 1) - 1 = n
      OBVIOUS
    <3>2. QED
      BY <1>4, <3>1
  <2>3. QED
    BY <2>1, <2>2
<1>6. \A n \in Nat : Power2[n] \in Nat \ {0}
  <2> DEFINE T == {n \in Nat : Power2[n] \in Nat \ {0}}
  <2>1. 0 \in T
    BY <1>5
  <2>2. ASSUME NEW n \in Nat, n \in T PROVE n + 1 \in T
    BY <1>5, <2>2
  <2> HIDE DEF T
  <2>3. \A n \in Nat : n \in T
    BY <2>1, <2>2, Upward
  <2>4. QED
    BY <2>3 DEF T
<1>7. QED
  BY <1>5, <1>6

\* The bits of a number.
BitsOf(c, n) == {i \in 0..n - 1 : (c \div Power2[i]) % 2 = 1}

\* The bits of a number behind its lowest.
LEMMA BitOfTwice ==
  ASSUME NEW c \in Nat, NEW b \in {0, 1}
  PROVE  /\ (2 * c + b) % 2 = b
         /\ \A i \in Nat : (2 * c + b) \div Power2[i + 1] = c \div Power2[i]
<1> DEFINE d == 2 * c + b
<1>1. d \in Nat /\ d % 2 = b /\ d \div 2 = c
  <2>1. c * 2 + b = d
    OBVIOUS
  <2>2. (c * 2 + b) \div 2 = c /\ (c * 2 + b) % 2 = b
    BY Quotient
  <2>3. QED
    BY <2>1, <2>2
<1> HIDE DEF d
<1>2. ASSUME NEW i \in Nat PROVE d \div Power2[i + 1] = c \div Power2[i]
  <2>1. Power2[i] \in Nat \ {0} /\ Power2[i + 1] = 2 * Power2[i]
    BY Power2OK
  <2>2. (d \div 2) \div Power2[i] = d \div (2 * Power2[i])
    BY <1>1, <2>1, Twice
  <2>3. QED
    BY <1>1, <2>1, <2>2
<1>3. QED
  BY <1>1, <1>2 DEF d

\* Any bits are those of a number.
LEMMA BitsOnto ==
  \A n \in Nat : \A w \in SUBSET (0..n - 1) : \E c \in 0..Power2[n] - 1 : BitsOf(c, n) = w
<1> DEFINE T == {n \in Nat : \A w \in SUBSET (0..n - 1) :
                                \E c \in 0..Power2[n] - 1 : BitsOf(c, n) = w}
<1>1. 0 \in T
  <2>1. 0..0 - 1 = {} /\ Power2[0] = 1
    BY Power2OK
  <2>2. 0 \in 0..Power2[0] - 1 /\ BitsOf(0, 0) = {}
    BY <2>1 DEF BitsOf
  <2>3. QED
    BY <2>1, <2>2
<1>2. ASSUME NEW n \in Nat, n \in T PROVE n + 1 \in T
  <2> SUFFICES ASSUME NEW w \in SUBSET (0..(n + 1) - 1)
               PROVE  \E c \in 0..Power2[n + 1] - 1 : BitsOf(c, n + 1) = w
    OBVIOUS
  <2> DEFINE v == {i \in 0..n - 1 : i + 1 \in w}
             b == IF 0 \in w THEN 1 ELSE 0
  <2>1. PICK c \in 0..Power2[n] - 1 : BitsOf(c, n) = v
    BY <1>2
  <2>2. Power2[n] \in Nat \ {0} /\ Power2[n + 1] = 2 * Power2[n]
    BY Power2OK
  <2>3. c \in Nat /\ b \in {0, 1}
    BY <2>2
  <2>4. 2 * c + b \in 0..Power2[n + 1] - 1
    BY <2>2
  <2>5. /\ (2 * c + b) % 2 = b
        /\ \A i \in Nat : (2 * c + b) \div Power2[i + 1] = c \div Power2[i]
    <3> HIDE DEF b
    <3>1. QED
      BY <2>3, BitOfTwice
  <2> DEFINE d == 2 * c + b
  <2>6. d \div Power2[0] = d
    <3>1. d \in Nat
      BY <2>3
    <3> HIDE DEF d
    <3>2. d \div 1 = d
      BY <3>1
    <3>3. QED
      BY <3>2, Power2OK
  <2>7. (d \div Power2[0]) % 2 = 1 <=> 0 \in w
    BY <2>5, <2>6
  <2>8. ASSUME NEW i \in 1..n PROVE (d \div Power2[i]) % 2 = 1 <=> i \in w
    <3>1. i - 1 \in Nat /\ i - 1 \in 0..n - 1 /\ (i - 1) + 1 = i
      OBVIOUS
    <3>2. d \div Power2[i] = c \div Power2[i - 1]
      BY <2>5, <3>1
    <3> HIDE DEF d, b
    <3>3. i - 1 \in BitsOf(c, n) <=> (c \div Power2[i - 1]) % 2 = 1
      BY <3>1 DEF BitsOf
    <3>4. i - 1 \in v <=> i \in w
      BY <3>1
    <3>5. QED
      BY <2>1, <3>2, <3>3, <3>4
  <2> HIDE DEF d, v
  <2>9. \A i \in 0..(n + 1) - 1 : (d \div Power2[i]) % 2 = 1 <=> i \in w
    <3>1. \A i \in 0..(n + 1) - 1 : i = 0 \/ i \in 1..n
      OBVIOUS
    <3>2. QED
      BY <2>7, <2>8, <3>1
  <2>10. BitsOf(d, n + 1) = w
    BY <2>9 DEF BitsOf
  <2>11. QED
    BY <2>4, <2>10 DEF d
<1> HIDE DEF T
<1>3. \A n \in Nat : n \in T
  BY <1>1, <1>2, Upward
<1>4. QED
  BY <1>3 DEF T

\* Bits is one to one between octets and sets of positions,
LEMMA BitsOK ==
  /\ \A c \in Octet : Bits[c] \in Register /\ Bits[c] \subseteq 0..ByteBits - 1
  /\ \A w \in SUBSET (0..ByteBits - 1) : \E c \in Octet : Bits[c] = w
<1>1. \A c \in Octet : Bits[c] = BitsOf(c, ByteBits)
  BY DEF Bits, BitsOf
<1>2. 0..ByteBits - 1 \subseteq Positions
  BY Width DEF Positions
<1>3. \A c \in Octet : Bits[c] \subseteq 0..ByteBits - 1
  BY <1>1 DEF BitsOf
<1>4. \A w \in SUBSET (0..ByteBits - 1) : \E c \in Octet : BitsOf(c, ByteBits) = w
  BY BitsOnto, Width DEF Octet
<1>5. QED
  BY <1>1, <1>2, <1>3, <1>4 DEF Register

\* and ByteAt takes it back.
LEMMA ByteAtOK ==
  ASSUME NEW w \in Register, NEW n \in Nat
  PROVE  /\ ByteAt(w, n) \in Octet
         /\ Bits[ByteAt(w, n)] = ShiftRight(w, n * ByteBits) \cap 0..ByteBits - 1
<1> DEFINE v == ShiftRight(w, n * ByteBits) \cap 0..ByteBits - 1
<1>1. v \in SUBSET (0..ByteBits - 1)
  OBVIOUS
<1>2. \E c \in Octet : Bits[c] = v
  BY <1>1, BitsOK
<1>3. QED
  BY <1>2, Zenon DEF ByteAt

-----------------------------------------------------------------------------
(* One byte.                                                               *)

\* No shift.
LEMMA ShiftNone == ASSUME NEW w \in Register PROVE ShiftRight(w, 0) = w
<1>1. ShiftRight(w, 0) \in Register /\ \A k \in Nat : k \in ShiftRight(w, 0) <=> k + 0 \in w
  BY ShiftRightOK
<1>2. \A k \in Nat : k + 0 = k
  OBVIOUS
<1>3. QED
  BY <1>1, <1>2, SameBits

\* What is low is turned into the register, what is high only moves.
LEMMA ZerosSplit ==
  ASSUME NEW w \in Register, NEW m \in Nat
  PROVE  Zeros[m][w] = Xor(Zeros[m][w \cap 0..m - 1], ShiftRight(w, m))
<1> DEFINE low == w \cap 0..m - 1
           high == w \ (0..m - 1)
<1>1. low \in Register /\ high \in Register /\ w = Xor(low, high)
  BY DEF Register, Xor
<1>2. \A i \in high : i >= m
  BY Width DEF Register
<1>3. ShiftRight(high, m) = ShiftRight(w, m)
  <2>1. \A k \in Nat : k + m \in high <=> k + m \in w
    OBVIOUS
  <2>2. ShiftRight(high, m) \in Register /\ ShiftRight(w, m) \in Register
    BY <1>1, ShiftRightOK
  <2>3. \A k \in Nat : k \in ShiftRight(high, m) <=> k + m \in high
    BY <1>1, ShiftRightOK
  <2>4. \A k \in Nat : k \in ShiftRight(w, m) <=> k + m \in w
    BY ShiftRightOK
  <2> HIDE DEF high
  <2>5. QED
    BY <2>1, <2>2, <2>3, <2>4, SameBits
<1> HIDE DEF low, high
<1>4. Zeros[m][high] = ShiftRight(high, m)
  BY <1>1, <1>2, ZerosMove
<1>5. \A n \in Nat : Zeros[n][Xor(low, high)] = Xor(Zeros[n][low], Zeros[n][high])
  BY <1>1, ZerosLinear
<1>6. Zeros[m][w] = Xor(Zeros[m][low], ShiftRight(w, m))
  BY <1>1, <1>3, <1>4, <1>5
<1>7. QED
  BY <1>6 DEF low

\* The table of bytes holds the byte as many zeros later as it has bits.
LEMMA ByteTable ==
  ASSUME NEW c \in Octet PROVE kByteExtensionTable[c] = Zeros[ByteBits][Bits[c]]
<1> DEFINE image == [i \in 0..ByteBits - 1 |-> AfterZeros(ByteBits, i)]
<1>1. kByteExtensionTable[c] = Applied(image, Bits[c])
  BY DEF kByteExtensionTable
<1>2. Bits[c] \in Register /\ Bits[c] \subseteq 0..ByteBits - 1
  BY BitsOK
<1>3. \A i \in Bits[c] : image[i] = Zeros[ByteBits][{i}]
  <2>1. \A i \in Bits[c] : i \in Positions /\ image[i] = AfterZeros(ByteBits, i)
    BY <1>2 DEF Register
  <2> HIDE DEF image
  <2>2. QED
    BY <2>1, AfterZerosOK, Width
<1> HIDE DEF image
<1>4. QED
  <2>1. Applied(image, Bits[c]) = Zeros[ByteBits][Bits[c]]
    <3>1. ByteBits \in Nat
      BY Width
    <3>2. QED
      BY ONLY <1>2, <1>3, <3>1, AppliedOK
  <2>2. QED
    BY ONLY <1>1, <2>1

LEMMA LowByte ==
  ASSUME NEW w \in Register
  PROVE  kByteExtensionTable[ByteAt(w, 0)] = Zeros[ByteBits][w \cap 0..ByteBits - 1]
<1>1. 0 * ByteBits = 0
  BY Width
<1>2. ByteAt(w, 0) \in Octet /\ Bits[ByteAt(w, 0)] = ShiftRight(w, 0) \cap 0..ByteBits - 1
  BY <1>1, ByteAtOK
<1>3. QED
  BY <1>2, ShiftNone, ByteTable

\* A turn of STEP4W is ByteBits zeros.
LEMMA TurnOK == ASSUME NEW w \in Register PROVE Turn(w) = Zeros[ByteBits][w]
<1>1. Turn(w) = Xor(ShiftRight(w, ByteBits), Zeros[ByteBits][w \cap 0..ByteBits - 1])
  BY LowByte DEF Turn
<1>2. QED
  BY <1>1, ZerosSplit, XorLaws, Width

\* The register after a byte.
AfterByte(l, byte) == Zeros[ByteBits][Xor(l, Bits[byte])]

LEMMA AfterByteOK ==
  ASSUME NEW l \in Register, NEW byte \in Octet
  PROVE  Xor(l, Bits[byte]) \in Register /\ AfterByte(l, byte) \in Register
BY BitsOK, XorLaws, ZerosLaws, Width DEF AfterByte

\* STEP1 is the register after a byte,
LEMMA Step1OK ==
  ASSUME NEW l \in Register, NEW byte \in Octet
  PROVE  Step1[l][byte] = AfterByte(l, byte)
<1> DEFINE w == Xor(l, Bits[byte])
<1>1. w \in Register /\ Bits[byte] \in Register /\ Bits[byte] \subseteq 0..ByteBits - 1
  BY AfterByteOK, BitsOK
<1>2. ShiftRight(w, ByteBits) = ShiftRight(l, ByteBits)
  <2>1. ShiftRight(Bits[byte], ByteBits) = {}
    <3>1. \A i \in 0..ByteBits - 1 : ~(i >= ByteBits)
      BY Width
    <3>2. QED
      BY <1>1, <3>1 DEF ShiftRight
  <2>2. ShiftRight(w, ByteBits) = Xor(ShiftRight(l, ByteBits), ShiftRight(Bits[byte], ByteBits))
    BY <1>1, Width, ShiftRightLinear
  <2>3. QED
    BY <2>1, <2>2, XorLaws
<1>3. Step1[l][byte] = Xor(kByteExtensionTable[ByteAt(w, 0)], ShiftRight(l, ByteBits))
  BY DEF Step1, Register
<1> HIDE DEF w
<1>4. Step1[l][byte] = Zeros[ByteBits][w]
  BY <1>1, <1>2, <1>3, LowByte, ZerosSplit, Width
<1>5. QED
  BY <1>4 DEF w, AfterByte

\* The bits of a byte one by one come to the same.
LEMMA FedOK ==
  ASSUME NEW l \in Register, NEW byte \in Octet
  PROVE  Fed[l][byte] = AfterByte(l, byte)
<1> DEFINE D == 0..ByteBits
           Fold(n, r) == IF (0 \in r) = (n - 1 \in Bits[byte]) THEN ShiftRight(r, 1)
                         ELSE Xor(ShiftRight(r, 1), Polynomial)
           Law(f) == f = [n \in D |-> IF n = 0 THEN l ELSE Fold(n, f[n - 1])]
           low(n) == Bits[byte] \cap 0..n - 1
           z == [n \in D |-> Zeros[n][Xor(l, low(n))]]
<1>1. Bits[byte] \in Register /\ Bits[byte] \subseteq 0..ByteBits - 1 /\ ByteBits \in Nat
  BY BitsOK, Width
<1>2. \A n : low(n) \in Register /\ Xor(l, low(n)) \in Register
  BY <1>1, XorLaws DEF Register
<1>2a. \A n \in Nat : /\ n \in Bits[byte] => low(n + 1) = Xor(low(n), {n}) /\ {n} \in Register
                      /\ n \notin Bits[byte] => low(n + 1) = low(n)
  <2> SUFFICES ASSUME NEW n \in Nat
               PROVE  /\ n \in Bits[byte] => low(n + 1) = Xor(low(n), {n}) /\ {n} \in Register
                      /\ n \notin Bits[byte] => low(n + 1) = low(n)
    OBVIOUS
  <2>1. 0..(n + 1) - 1 = 0..n - 1 \cup {n} /\ n \notin 0..n - 1
    OBVIOUS
  <2>2. QED
    BY <1>1, <2>1 DEF Xor, Register
<1>2b. low(0) = {} /\ low(ByteBits) = Bits[byte]
  <2>1. 0..0 - 1 = {}
    OBVIOUS
  <2>2. QED
    BY <1>1, <2>1
<1>2a1. Zeros[0][Xor(l, low(0))] = l
  BY <1>2b, XorLaws, ZerosLaws
<1> HIDE DEF low
<1>3. ASSUME NEW n \in Nat
      PROVE  Zeros[n + 1][Xor(l, low(n + 1))] = Fold(n + 1, Zeros[n][Xor(l, low(n))])
  <2> DEFINE r == Zeros[n][Xor(l, low(n))]
             s == Zeros[n][Xor(l, low(n + 1))]
  <2>1. r \in Register /\ s \in Register
    BY <1>2, ZerosLaws
  <2>2. Zeros[n + 1][Xor(l, low(n + 1))] = Shifted(s)
    BY <1>2, ZerosLaws
  <2>3. (n + 1) - 1 = n
    OBVIOUS
  <2>4. CASE n \notin Bits[byte]
    <3>1. s = r
      BY <1>2a, <2>4
    <3>2. Shifted(r) = Fold(n + 1, r)
      BY <2>3, <2>4 DEF Shifted
    <3> HIDE DEF r, s, Fold
    <3>3. Zeros[n + 1][Xor(l, low(n + 1))] = Fold(n + 1, r)
      BY <2>2, <3>1, <3>2
    <3>4. QED
      BY <3>3 DEF r
  <2>5. CASE n \in Bits[byte]
    <3>1. low(n + 1) = Xor(low(n), {n}) /\ {n} \in Register
      BY <1>2a, <2>5
    <3>2. Xor(l, low(n + 1)) = Xor(Xor(l, low(n)), {n})
      BY <3>1, XorLaws
    <3>3. s = Xor(r, Zeros[n][{n}])
      <4>1. \A m \in Nat : Zeros[m][Xor(Xor(l, low(n)), {n})] = Xor(Zeros[m][Xor(l, low(n))], Zeros[m][{n}])
        BY <1>2, <3>1, ZerosLinear
      <4>2. QED
        BY <3>2, <4>1
    <3>4. Zeros[n][{n}] = {0}
      <4>1. Zeros[n][{n}] = ShiftRight({n}, n)
        BY <3>1, ZerosMove
      <4>2. ShiftRight({n}, n) = {0}
        <5>1. {j \in {n} : j >= n} = {n} /\ n - n = 0
          OBVIOUS
        <5>2. QED
          BY <5>1 DEF ShiftRight
      <4>3. QED
        BY <4>1, <4>2
    <3>5. ShiftRight({0}, 1) = {}
      <4>1. {j \in {0} : j >= 1} = {}
        OBVIOUS
      <4>2. QED
        BY <4>1 DEF ShiftRight
    <3>6. {0} \in Register
      <4>1. Zeros[n][{n}] \in Register
        BY <3>1, ZerosLaws
      <4>2. QED
        BY <3>4, <4>1
    <3> HIDE DEF r, s
    <3>7. ShiftRight(s, 1) = ShiftRight(r, 1)
      <4>1. ShiftRight(Xor(r, {0}), 1) = Xor(ShiftRight(r, 1), ShiftRight({0}, 1))
        BY <2>1, <3>6, ShiftRightLinear
      <4>2. QED
        BY <3>3, <3>4, <3>5, <4>1, XorLaws
    <3>8. 0 \in s <=> ~(0 \in r)
      BY <3>3, <3>4, XorElement
    <3>9. Shifted(s) = Fold(n + 1, r)
      BY <2>3, <2>5, <3>7, <3>8 DEF Shifted
    <3> HIDE DEF Fold
    <3>10. Zeros[n + 1][Xor(l, low(n + 1))] = Fold(n + 1, r)
      BY <2>2, <3>9 DEF s
    <3>11. QED
      BY <3>10 DEF r
  <2>6. QED
    BY <2>4, <2>5
<1> HIDE DEF Fold
<1>4. Law(z)
  <2>1. ASSUME NEW n \in D PROVE z[n] = IF n = 0 THEN l ELSE Fold(n, z[n - 1])
    <3>1. CASE n = 0
      <4>1. z[n] = Zeros[0][Xor(l, low(0))]
        BY <1>1, <3>1
      <4>2. QED
        BY <1>2a1, <3>1, <4>1
    <3>2. CASE n # 0
      <4>1. n - 1 \in D /\ n - 1 \in Nat /\ (n - 1) + 1 = n
        BY <1>1, <3>2
      <4>2. z[n] = Zeros[n][Xor(l, low(n))] /\ z[n - 1] = Zeros[n - 1][Xor(l, low(n - 1))]
        BY <4>1
      <4>3. Zeros[n][Xor(l, low(n))] = Fold(n, Zeros[n - 1][Xor(l, low(n - 1))])
        BY <1>3, <4>1
      <4>4. QED
        BY <3>2, <4>2, <4>3, Zenon
    <3>3. QED
      BY <3>1, <3>2
  <2>2. z = [n \in D |-> z[n]]
    OBVIOUS
  <2> HIDE DEF z, D
  <2>3. QED
    BY <2>1, <2>2, Zenon
<1> DEFINE R == CHOOSE f : Law(f)
<1>5. Law(R)
  <2> HIDE DEF Law, z
  <2>1. QED
    BY <1>4
<1>6. Fed[l][byte] = R[ByteBits]
  BY DEF Fed, Register, Fold
<1> HIDE DEF R
<1>7. ASSUME NEW n \in D PROVE R[n] = IF n = 0 THEN l ELSE Fold(n, R[n - 1])
  BY <1>5, Zenon
<1> DEFINE T == {n \in Nat : n <= ByteBits => R[n] = Zeros[n][Xor(l, low(n))]}
<1>8. 0 \in T
  <2>1. R[0] = l
    BY <1>1, <1>7
  <2>2. QED
    BY <1>1, <1>2a1, <2>1
<1>9. ASSUME NEW n \in Nat, n \in T PROVE n + 1 \in T
  <2> SUFFICES ASSUME n + 1 <= ByteBits PROVE R[n + 1] = Zeros[n + 1][Xor(l, low(n + 1))]
    OBVIOUS
  <2>1. n + 1 \in D /\ n + 1 # 0 /\ (n + 1) - 1 = n /\ n <= ByteBits
    BY <1>1
  <2>2. R[n + 1] = Fold(n + 1, R[n])
    BY <1>7, <2>1
  <2>3. R[n] = Zeros[n][Xor(l, low(n))]
    BY <1>9, <2>1
  <2>4. QED
    BY <1>3, <2>2, <2>3
<1> HIDE DEF T
<1>10. \A n \in Nat : n \in T
  BY <1>8, <1>9, Upward
<1>11. R[ByteBits] = Zeros[ByteBits][Xor(l, low(ByteBits))]
  BY <1>1, <1>10 DEF T
<1>12. QED
  BY <1>2b, <1>6, <1>11 DEF AfterByte

-----------------------------------------------------------------------------
(* One word, and 16 bytes.                                                 *)

\* The register after a word of zeros, and after a turn of the strides.
ZeroWord(l) == Zeros[4 * ByteBits][l]

ZeroTurn(l) == Zeros[16 * ByteBits][l]

\* Registers of words and of 16 bytes.
LEMMA WordLaws ==
  /\ \A l \in Register : ZeroWord(l) \in Register /\ ZeroTurn(l) \in Register
  /\ \A v, w \in Register : ZeroWord(Xor(v, w)) = Xor(ZeroWord(v), ZeroWord(w))
  /\ \A l \in Register : ZeroTurn(l) = ZeroWord(ZeroWord(ZeroWord(ZeroWord(l))))
  /\ ZeroWord({}) = {}
<1> DEFINE n == 4 * ByteBits
<1>1. n \in Nat /\ 16 * ByteBits = n + (n + (n + n)) /\ n + n \in Nat /\ n + (n + n) \in Nat
  BY Width
<1> HIDE DEF n
<1>2. \A l : ZeroWord(l) = Zeros[n][l]
  BY DEF ZeroWord, n
<1>3. \A l : ZeroTurn(l) = Zeros[n + (n + (n + n))][l]
  BY <1>1 DEF ZeroTurn
<1>4. \A l \in Register : Zeros[n][l] \in Register /\ Zeros[n + (n + (n + n))][l] \in Register
  BY <1>1, ZerosLaws
<1>5. \A v, w \in Register : Zeros[n][Xor(v, w)] = Xor(Zeros[n][v], Zeros[n][w])
  BY <1>1, ZerosLinear
<1>6. \A l \in Register : /\ Zeros[n + n][l] = Zeros[n][Zeros[n][l]]
                          /\ Zeros[n + (n + n)][l] = Zeros[n + n][Zeros[n][l]]
                          /\ Zeros[n + (n + (n + n))][l] = Zeros[n + (n + n)][Zeros[n][l]]
  BY <1>1, ZerosAdd
<1>7. \A l \in Register : Zeros[n + (n + (n + n))][l] = Zeros[n][Zeros[n][Zeros[n][Zeros[n][l]]]]
  BY <1>4, <1>6
<1>8. Zeros[n][{}] = {}
  <2>1. ShiftRight({}, n) = {}
    BY DEF ShiftRight
  <2>2. QED
    BY <1>1, <2>1, Width, ZerosMove
<1>9. QED
  BY <1>2, <1>3, <1>4, <1>5, <1>7, <1>8

\* Four bytes are a word.
LEMMA FourBytes ==
  /\ \A l \in Register :
       /\ Zeros[2 * ByteBits][l] = Zeros[ByteBits][Zeros[ByteBits][l]]
       /\ Zeros[3 * ByteBits][l] = Zeros[ByteBits][Zeros[2 * ByteBits][l]]
       /\ ZeroWord(l) = Zeros[ByteBits][Zeros[3 * ByteBits][l]]
  /\ 2 * ByteBits \in Nat /\ 3 * ByteBits \in Nat
<1> DEFINE n == ByteBits
<1>1. /\ n \in Nat /\ 2 * n \in Nat /\ 3 * n \in Nat
      /\ 2 * n = n + n /\ 3 * n = 2 * n + n /\ 4 * n = 3 * n + n
  BY Width
<1> HIDE DEF n
<1>2. \A l \in Register : /\ Zeros[n + n][l] = Zeros[n][Zeros[n][l]]
                          /\ Zeros[2 * n + n][l] = Zeros[n][Zeros[2 * n][l]]
                          /\ Zeros[3 * n + n][l] = Zeros[n][Zeros[3 * n][l]]
  BY <1>1, ZerosAdd
<1>3. \A l \in Register : /\ Zeros[2 * n][l] = Zeros[n][Zeros[n][l]]
                          /\ Zeros[3 * n][l] = Zeros[n][Zeros[2 * n][l]]
                          /\ Zeros[4 * n][l] = Zeros[n][Zeros[3 * n][l]]
  BY <1>1, <1>2
<1>4. QED
  BY <1>1, <1>3 DEF n, ZeroWord

\* STEP4W is a word of zeros.
LEMMA Step4WOK ==
  ASSUME NEW l \in Register, NEW crc \in Register
  PROVE  Step4W(l, crc) = ZeroWord(Xor(crc, l))
<1> DEFINE w == Xor(crc, l)
           b == ByteBits
<1>1. w \in Register
  BY XorLaws
<1> HIDE DEF w
<1>2. /\ Zeros[b][w] \in Register /\ Zeros[b][Zeros[b][w]] \in Register
      /\ Zeros[b][Zeros[b][Zeros[b][w]]] \in Register
  BY <1>1, ZerosLaws, Width
<1>3. Turn(Turn(Turn(Turn(w)))) = Zeros[b][Zeros[b][Zeros[b][Zeros[b][w]]]]
  BY <1>1, <1>2, TurnOK
<1>4. ZeroWord(w) = Zeros[b][Zeros[b][Zeros[b][Zeros[b][w]]]]
  BY <1>1, FourBytes
<1>5. QED
  BY <1>3, <1>4 DEF w, Step4W

-----------------------------------------------------------------------------
\* A byte of a word in its place.
LEMMA ShiftLeftOK ==
  ASSUME NEW c \in Octet, NEW n \in 0..3
  PROVE  /\ ShiftLeft(Bits[c], n * ByteBits) \in Register
         /\ \A i \in ShiftLeft(Bits[c], n * ByteBits) :
               i >= n * ByteBits /\ i < n * ByteBits + ByteBits
         /\ ShiftRight(ShiftLeft(Bits[c], n * ByteBits), n * ByteBits) = Bits[c]
<1> DEFINE o == n * ByteBits
           v == ShiftLeft(Bits[c], o)
<1>1. o \in Nat /\ o + ByteBits <= 4 * ByteBits
  <2>1. n = 0 \/ n = 1 \/ n = 2 \/ n = 3
    OBVIOUS
  <2>2. 0 * ByteBits = 0 /\ 1 * ByteBits = ByteBits
    BY Width
  <2>3. QED
    BY <2>1, <2>2, Width
<1>2. Bits[c] \in Register /\ Bits[c] \subseteq 0..ByteBits - 1
  BY BitsOK
<1> HIDE DEF o
<1>3. \A i \in v : \E j \in Bits[c] : i = j + o
  BY DEF ShiftLeft
<1>4. \A i \in v : i \in Positions /\ i >= o /\ i < o + ByteBits
  BY <1>1, <1>2, <1>3, Width DEF Positions
<1>5. v \in Register
  BY <1>4 DEF Register
<1>6. ShiftRight(v, o) = Bits[c]
  <2>1. ASSUME NEW k \in Nat PROVE k \in ShiftRight(v, o) <=> k \in Bits[c]
    <3>1. k \in ShiftRight(v, o) <=> k + o \in v
      BY <1>1, <1>5, ShiftRightOK
    <3>2. k \in Bits[c] => k + o \in v
      BY DEF ShiftLeft
    <3>3. ASSUME k + o \in v PROVE k \in Bits[c]
      <4>1. PICK j \in Bits[c] : k + o = j + o
        BY <1>3, <3>3
      <4>2. j \in Nat
        BY <1>2
      <4>3. k = j
        BY <1>1, <4>1, <4>2
      <4>4. QED
        BY <4>3
    <3>4. QED
      BY <3>1, <3>2, <3>3
  <2>2. ShiftRight(v, o) \in Register
    BY <1>1, <1>5, ShiftRightOK
  <2> HIDE DEF v
  <2>3. QED
    BY <1>2, <2>1, <2>2, SameBits
<1>7. QED
  BY <1>4, <1>5, <1>6 DEF o

\* The byte k of a word, moved by itself.
LEMMA PartOK ==
  ASSUME NEW w \in Register, NEW n \in 0..3
  PROVE  ShiftLeft(Bits[ByteAt(w, n)], n * ByteBits) = w \cap n * ByteBits..(n * ByteBits + ByteBits) - 1
<1> DEFINE o == n * ByteBits
           c == ByteAt(w, n)
           v == ShiftLeft(Bits[c], o)
           part == w \cap o..(o + ByteBits) - 1
<1>1. o \in Nat /\ n \in Nat
  <2>1. n = 0 \/ n = 1 \/ n = 2 \/ n = 3
    OBVIOUS
  <2>2. 0 * ByteBits = 0 /\ 1 * ByteBits = ByteBits
    BY Width
  <2>3. QED
    BY <2>1, <2>2, Width
<1>2. c \in Octet /\ Bits[c] = ShiftRight(w, o) \cap 0..ByteBits - 1
  BY <1>1, ByteAtOK
<1>2a. v \in Register
  BY <1>2, ShiftLeftOK
<1>2b. Bits[c] \subseteq 0..ByteBits - 1
  BY <1>2
<1> HIDE DEF c
<1>3. part \in Register
  BY DEF Register
<1>4. ASSUME NEW k \in Nat PROVE k \in v <=> k \in part
  <2> HIDE DEF o
  <2>1. ASSUME k \in v PROVE k \in part
    <3>1. PICK j \in Bits[c] : k = j + o
      BY <2>1 DEF ShiftLeft
    <3>2. j \in Nat /\ j < ByteBits /\ j \in ShiftRight(w, o)
      BY <1>2, Width
    <3>3. j + o \in w
      BY <1>1, <3>2, ShiftRightOK
    <3>4. k \in o..(o + ByteBits) - 1
      BY <1>1, <3>1, <3>2, Width
    <3>5. QED
      BY <3>1, <3>3, <3>4
  <2>2. ASSUME k \in part PROVE k \in v
    <3>1. k \in w /\ k >= o /\ k < o + ByteBits
      BY <1>1, <2>2, Width
    <3>2. (k - o) + o = k /\ k - o \in Nat /\ k - o \in 0..ByteBits - 1
      BY <1>1, <3>1, Width
    <3>3. k - o \in ShiftRight(w, o)
      BY <1>1, <3>1, <3>2, ShiftRightOK
    <3>4. k - o \in Bits[c]
      BY <1>2, <3>2, <3>3
    <3>5. QED
      BY <3>2, <3>4 DEF ShiftLeft
  <2>3. QED
    BY <2>1, <2>2
<1> HIDE DEF v, part
<1>5. v = part
  BY <1>2a, <1>3, <1>4, SameBits
<1>6. QED
  BY <1>5 DEF v, part, o, c

\* The tables of strides hold the bytes of a word 16 bytes later.
LEMMA StrideTable ==
  ASSUME NEW c \in Octet, NEW k \in 0..3
  PROVE  kStrideExtensionTable[k][c] = ZeroTurn(ShiftLeft(Bits[c], (3 - k) * ByteBits))
<1> DEFINE image == [i \in Positions |-> AfterZeros(16 * ByteBits, i)]
           w == ShiftLeft(Bits[c], (3 - k) * ByteBits)
<1>1. kStrideExtensionTable[k][c] = Applied(image, w)
  BY DEF kStrideExtensionTable
<1>2. w \in Register
  <2>1. 3 - k \in 0..3
    OBVIOUS
  <2>2. QED
    BY <2>1, ShiftLeftOK
<1>3. 16 * ByteBits \in Nat
  BY Width
<1> HIDE DEF w
<1>4. \A i \in w : image[i] = Zeros[16 * ByteBits][{i}]
  <2>1. \A i \in w : i \in Positions /\ image[i] = AfterZeros(16 * ByteBits, i)
    BY <1>2 DEF Register
  <2> HIDE DEF image
  <2>2. QED
    BY <1>3, <2>1, AfterZerosOK
<1> HIDE DEF image
<1>5. Applied(image, w) = Zeros[16 * ByteBits][w]
  BY <1>2, <1>3, <1>4, AppliedOK
<1>6. QED
  BY <1>1, <1>5 DEF ZeroTurn, w

LEMMA TurnLinear ==
  \A v, w \in Register : ZeroTurn(Xor(v, w)) = Xor(ZeroTurn(v), ZeroTurn(w))
<1>1. 16 * ByteBits \in Nat
  BY Width
<1>2. QED
  BY <1>1, ZerosLinear DEF ZeroTurn

\* STEP4 takes a stride 16 bytes further.
LEMMA Step4OK ==
  ASSUME NEW crc \in Register, NEW word \in Register
  PROVE  Step4(crc, word) = Xor(word, ZeroTurn(crc))
<1> DEFINE part(n) == ShiftLeft(Bits[ByteAt(crc, n)], n * ByteBits)
           b == ByteBits
<1>1. \A n \in 0..3 : part(n) \in Register
  <2>1. \A n \in 0..3 : n \in Nat
    OBVIOUS
  <2>2. \A n \in 0..3 : ByteAt(crc, n) \in Octet
    BY <2>1, ByteAtOK
  <2>3. QED
    BY <2>2, ShiftLeftOK
<1>2. \A n \in 0..3 : kStrideExtensionTable[3 - n][ByteAt(crc, n)] = ZeroTurn(part(n))
  <2> SUFFICES ASSUME NEW n \in 0..3
               PROVE  kStrideExtensionTable[3 - n][ByteAt(crc, n)] = ZeroTurn(part(n))
    OBVIOUS
  <2>1. n \in Nat /\ 3 - n \in 0..3 /\ 3 - (3 - n) = n
    OBVIOUS
  <2>2. ByteAt(crc, n) \in Octet
    BY <2>1, ByteAtOK
  <2>3. QED
    BY <2>1, <2>2, StrideTable
<1>3. Step4(crc, word) = Xor(word, Xor(Xor(ZeroTurn(part(0)), ZeroTurn(part(1))),
                                       Xor(ZeroTurn(part(2)), ZeroTurn(part(3)))))
  <2>1. 3 - 0 = 3 /\ 3 - 1 = 2 /\ 3 - 2 = 1 /\ 3 - 3 = 0 /\ 0 \in 0..3 /\ 1 \in 0..3 /\ 2 \in 0..3 /\ 3 \in 0..3
    OBVIOUS
  <2>2. Step4(crc, word) = Xor(word,
          Xor(Xor(kStrideExtensionTable[3][ByteAt(crc, 0)], kStrideExtensionTable[2][ByteAt(crc, 1)]),
              Xor(kStrideExtensionTable[1][ByteAt(crc, 2)], kStrideExtensionTable[0][ByteAt(crc, 3)])))
    BY <2>1 DEF Step4
  <2> HIDE DEF part
  <2>3. /\ kStrideExtensionTable[3][ByteAt(crc, 0)] = ZeroTurn(part(0))
        /\ kStrideExtensionTable[2][ByteAt(crc, 1)] = ZeroTurn(part(1))
        /\ kStrideExtensionTable[1][ByteAt(crc, 2)] = ZeroTurn(part(2))
        /\ kStrideExtensionTable[0][ByteAt(crc, 3)] = ZeroTurn(part(3))
    BY <1>2, <2>1
  <2>4. QED
    BY <2>2, <2>3
<1>4. /\ part(0) = crc \cap 0..b - 1 /\ part(1) = crc \cap b..2 * b - 1
      /\ part(2) = crc \cap 2 * b..3 * b - 1 /\ part(3) = crc \cap 3 * b..4 * b - 1
  <2>1. /\ 0 * b = 0 /\ 0 + b = b /\ 1 * b = b /\ b + b = 2 * b
        /\ 2 * b + b = 3 * b /\ 3 * b + b = 4 * b
    BY Width
  <2>2. \A n \in 0..3 : part(n) = crc \cap n * b..(n * b + b) - 1
    BY PartOK
  <2>3. 0 \in 0..3 /\ 1 \in 0..3 /\ 2 \in 0..3 /\ 3 \in 0..3
    OBVIOUS
  <2> HIDE DEF part, b
  <2>4. QED
    BY <2>1, <2>2, <2>3
<1> HIDE DEF part
<1>5. crc = Xor(Xor(part(0), part(1)), Xor(part(2), part(3)))
  <2>1. crc \subseteq 0..4 * b - 1 /\ b \in Nat
    BY Width DEF Register, Positions
  <2> HIDE DEF b
  <2>2. ASSUME NEW i \in 0..4 * b - 1
        PROVE  \/ i \in 0..b - 1 /\ i \notin b..2 * b - 1 /\ i \notin 2 * b..3 * b - 1 /\ i \notin 3 * b..4 * b - 1
               \/ i \notin 0..b - 1 /\ i \in b..2 * b - 1 /\ i \notin 2 * b..3 * b - 1 /\ i \notin 3 * b..4 * b - 1
               \/ i \notin 0..b - 1 /\ i \notin b..2 * b - 1 /\ i \in 2 * b..3 * b - 1 /\ i \notin 3 * b..4 * b - 1
               \/ i \notin 0..b - 1 /\ i \notin b..2 * b - 1 /\ i \notin 2 * b..3 * b - 1 /\ i \in 3 * b..4 * b - 1
    BY <2>1
  <2>3. \A i : i \in crc <=> i \in Xor(Xor(part(0), part(1)), Xor(part(2), part(3)))
    <3> SUFFICES ASSUME NEW i
                 PROVE  i \in crc <=> i \in Xor(Xor(part(0), part(1)), Xor(part(2), part(3)))
      OBVIOUS
    <3>1. i \in Xor(Xor(part(0), part(1)), Xor(part(2), part(3)))
            <=> ~(~(i \in part(0) <=> i \in part(1)) <=> ~(i \in part(2) <=> i \in part(3)))
      BY XorElement
    <3>2. CASE i \notin crc
      BY <1>4, <3>1, <3>2
    <3>3. CASE i \in crc
      <4>1. i \in 0..4 * b - 1
        BY <2>1, <3>3
      <4>2. QED
        BY <1>4, <2>2, <3>1, <3>3, <4>1
    <3>4. QED
      BY <3>2, <3>3
  <2>4. QED
    BY <2>3
<1>6. ZeroTurn(crc) = Xor(Xor(ZeroTurn(part(0)), ZeroTurn(part(1))),
                          Xor(ZeroTurn(part(2)), ZeroTurn(part(3))))
  <2>1. part(0) \in Register /\ part(1) \in Register /\ part(2) \in Register /\ part(3) \in Register
    BY <1>1
  <2>2. Xor(part(0), part(1)) \in Register /\ Xor(part(2), part(3)) \in Register
    BY <2>1, XorLaws
  <2>3. ZeroTurn(Xor(Xor(part(0), part(1)), Xor(part(2), part(3))))
          = Xor(ZeroTurn(Xor(part(0), part(1))), ZeroTurn(Xor(part(2), part(3))))
    BY <2>2, TurnLinear
  <2>4. /\ ZeroTurn(Xor(part(0), part(1))) = Xor(ZeroTurn(part(0)), ZeroTurn(part(1)))
        /\ ZeroTurn(Xor(part(2), part(3))) = Xor(ZeroTurn(part(2)), ZeroTurn(part(3)))
    BY <2>1, TurnLinear
  <2>5. QED
    BY <1>5, <2>3, <2>4
<1>7. QED
  BY <1>3, <1>6

-----------------------------------------------------------------------------
(* Data: bytes and words.                                                  *)

\* The four bytes of a word, in their places.
LEMMA WordIs ==
  ASSUME NEW p, NEW n, \A i \in 1..4 : p[4 * (n - 1) + i] \in Octet
  PROVE  LET x(i) == Bits[p[4 * (n - 1) + i]]
             b == ByteBits
         IN /\ WordOf(p, n) = Xor(Xor(Xor(ShiftLeft(x(1), 0 * b), ShiftLeft(x(2), 1 * b)),
                                      ShiftLeft(x(3), 2 * b)), ShiftLeft(x(4), 3 * b))
            /\ WordOf(p, n) \in Register
<1> DEFINE b == ByteBits
           S(i) == ShiftLeft(Bits[p[4 * (n - 1) + i]], (i - 1) * b)
<1>1. WordOf(p, n) = UNION {S(i) : i \in 1..4}
  BY DEF WordOf
<1>2. \A i \in 1..4 : /\ S(i) \in Register
                      /\ \A k \in S(i) : k >= (i - 1) * b /\ k < (i - 1) * b + b
  <2> SUFFICES ASSUME NEW i \in 1..4
               PROVE  /\ S(i) \in Register
                      /\ \A k \in S(i) : k >= (i - 1) * b /\ k < (i - 1) * b + b
    OBVIOUS
  <2>1. i - 1 \in 0..3 /\ p[4 * (n - 1) + i] \in Octet
    OBVIOUS
  <2>2. QED
    BY <2>1, ShiftLeftOK
<1>3. /\ S(1) = ShiftLeft(Bits[p[4 * (n - 1) + 1]], 0 * b)
      /\ S(2) = ShiftLeft(Bits[p[4 * (n - 1) + 2]], 1 * b)
      /\ S(3) = ShiftLeft(Bits[p[4 * (n - 1) + 3]], 2 * b)
      /\ S(4) = ShiftLeft(Bits[p[4 * (n - 1) + 4]], 3 * b)
  <2>1. 1 - 1 = 0 /\ 2 - 1 = 1 /\ 3 - 1 = 2 /\ 4 - 1 = 3
    OBVIOUS
  <2>2. QED
    BY <2>1
<1>4. /\ \A k \in S(1) : k < b
      /\ \A k \in S(2) : k >= b /\ k < 2 * b
      /\ \A k \in S(3) : k >= 2 * b /\ k < 3 * b
      /\ \A k \in S(4) : k >= 3 * b
      /\ S(1) \in Register /\ S(2) \in Register /\ S(3) \in Register /\ S(4) \in Register
  <2>1. /\ (1 - 1) * b + b = b /\ (2 - 1) * b = b /\ (2 - 1) * b + b = 2 * b
        /\ (3 - 1) * b = 2 * b /\ (3 - 1) * b + b = 3 * b /\ (4 - 1) * b = 3 * b
    BY Width
  <2>2. 1 \in 1..4 /\ 2 \in 1..4 /\ 3 \in 1..4 /\ 4 \in 1..4
    OBVIOUS
  <2> HIDE DEF S, b
  <2>3. QED
    BY <1>2, <2>1, <2>2
<1>5. WordOf(p, n) = S(1) \cup S(2) \cup S(3) \cup S(4)
  <2> HIDE DEF S
  <2>1. \A i : i \in 1..4 <=> i = 1 \/ i = 2 \/ i = 3 \/ i = 4
    OBVIOUS
  <2>2. QED
    BY <1>1, <2>1
<1> HIDE DEF S
<1>6. WordOf(p, n) \in Register
  BY <1>4, <1>5 DEF Register
<1>7. WordOf(p, n) = Xor(Xor(Xor(S(1), S(2)), S(3)), S(4))
  <2>1. \A k \in S(1) \cup S(2) \cup S(3) \cup S(4) : k \in Nat
    BY <1>4, Width DEF Register
  <2>2. b \in Nat
    BY Width
  <2> HIDE DEF b
  <2>3. /\ S(1) \cap S(2) = {} /\ S(1) \cap S(3) = {} /\ S(1) \cap S(4) = {}
        /\ S(2) \cap S(3) = {} /\ S(2) \cap S(4) = {} /\ S(3) \cap S(4) = {}
    BY <1>4, <2>1, <2>2
  <2>4. QED
    BY ONLY <1>5, <2>3 DEF Xor
<1>8. QED
  BY <1>3, <1>6, <1>7

\* Four bytes one by one, or a word at once.
LEMMA WordAtOnce ==
  ASSUME NEW p, NEW n, \A i \in 1..4 : p[4 * (n - 1) + i] \in Octet, NEW l \in Register
  PROVE  LET x(i) == p[4 * (n - 1) + i]
         IN AfterByte(AfterByte(AfterByte(AfterByte(l, x(1)), x(2)), x(3)), x(4))
              = ZeroWord(Xor(l, WordOf(p, n)))
<1> DEFINE b == ByteBits
           x(i) == p[4 * (n - 1) + i]
           s1 == ShiftLeft(Bits[x(1)], 0 * b)
           s2 == ShiftLeft(Bits[x(2)], 1 * b)
           s3 == ShiftLeft(Bits[x(3)], 2 * b)
           s4 == ShiftLeft(Bits[x(4)], 3 * b)
           Z(m, w) == Zeros[m][w]
<1>0. b \in Nat /\ 2 * b \in Nat /\ 3 * b \in Nat
  BY Width
<1>1. WordOf(p, n) = Xor(Xor(Xor(s1, s2), s3), s4)
  BY WordIs
<1>2. x(1) \in Octet /\ x(2) \in Octet /\ x(3) \in Octet /\ x(4) \in Octet
  OBVIOUS
<1> HIDE DEF x
<1>3. /\ s1 = Bits[x(1)]
      /\ s2 \in Register /\ Z(b, s2) = Bits[x(2)]
      /\ s3 \in Register /\ Z(2 * b, s3) = Bits[x(3)]
      /\ s4 \in Register /\ Z(3 * b, s4) = Bits[x(4)]
      /\ s1 \in Register
  <2>1. 0 \in 0..3 /\ 1 \in 0..3 /\ 2 \in 0..3 /\ 3 \in 0..3 /\ 0 * b = 0 /\ 1 * b = b
    BY <1>0
  <2>2. /\ s1 \in Register /\ ShiftRight(s1, 0) = Bits[x(1)]
    BY <1>2, <2>1, ShiftLeftOK
  <2>3. s2 \in Register /\ (\A i \in s2 : i >= b) /\ ShiftRight(s2, b) = Bits[x(2)]
    BY <1>2, <2>1, ShiftLeftOK
  <2>4. s3 \in Register /\ (\A i \in s3 : i >= 2 * b) /\ ShiftRight(s3, 2 * b) = Bits[x(3)]
    BY <1>2, <2>1, ShiftLeftOK
  <2>5. s4 \in Register /\ (\A i \in s4 : i >= 3 * b) /\ ShiftRight(s4, 3 * b) = Bits[x(4)]
    BY <1>2, <2>1, ShiftLeftOK
  <2> HIDE DEF s1, s2, s3, s4, b
  <2>6. s1 = Bits[x(1)]
    BY <2>2, ShiftNone
  <2>7. Z(b, s2) = ShiftRight(s2, b)
    BY <1>0, <2>3, ZerosMove
  <2>8. Z(2 * b, s3) = ShiftRight(s3, 2 * b)
    BY <1>0, <2>4, ZerosMove
  <2>9. Z(3 * b, s4) = ShiftRight(s4, 3 * b)
    BY <1>0, <2>5, ZerosMove
  <2>10. QED
    BY <2>2, <2>3, <2>4, <2>5, <2>6, <2>7, <2>8, <2>9
<1> DEFINE l1 == Xor(l, s1)
           l2 == Xor(l1, s2)
           l3 == Xor(l2, s3)
           l4 == Xor(l3, s4)
<1>4. l4 = Xor(l, WordOf(p, n))
  <2> HIDE DEF s1, s2, s3, s4
  <2>1. Xor(Xor(Xor(Xor(l, s1), s2), s3), s4) = Xor(l, Xor(Xor(Xor(s1, s2), s3), s4))
    <3>1. \A a, c, d : Xor(Xor(a, c), d) = Xor(a, Xor(c, d))
      BY XorLaws
    <3>2. Xor(Xor(l, s1), s2) = Xor(l, Xor(s1, s2))
      BY <3>1
    <3>3. Xor(Xor(Xor(l, s1), s2), s3) = Xor(l, Xor(Xor(s1, s2), s3))
      BY ONLY <3>1, <3>2
    <3>4. QED
      BY ONLY <3>1, <3>3
  <2>2. QED
    BY <1>1, <2>1
<1> HIDE DEF s1, s2, s3, s4
<1>5. l1 \in Register /\ l2 \in Register /\ l3 \in Register /\ l4 \in Register
  BY <1>3, XorLaws
<1>6. /\ Z(b, l2) = Xor(Z(b, l1), Bits[x(2)])
      /\ Z(2 * b, l3) = Xor(Z(2 * b, l2), Bits[x(3)])
      /\ Z(3 * b, l4) = Xor(Z(3 * b, l3), Bits[x(4)])
  <2> HIDE DEF l1, l2, l3
  <2>1. \A m \in Nat : Z(m, Xor(l1, s2)) = Xor(Z(m, l1), Z(m, s2))
    BY <1>3, <1>5, ZerosLinear
  <2>2. \A m \in Nat : Z(m, Xor(l2, s3)) = Xor(Z(m, l2), Z(m, s3))
    BY <1>3, <1>5, ZerosLinear
  <2>3. \A m \in Nat : Z(m, Xor(l3, s4)) = Xor(Z(m, l3), Z(m, s4))
    BY <1>3, <1>5, ZerosLinear
  <2> USE DEF l2, l3
  <2> HIDE DEF Z, b
  <2>4. QED
    BY <1>0, <1>3, <2>1, <2>2, <2>3
<1> HIDE DEF l1, l2, l3, l4
<1>7. AfterByte(l, x(1)) = Z(b, l1)
  BY <1>3 DEF AfterByte, l1
<1>8. AfterByte(Z(b, l1), x(2)) = Z(2 * b, l2)
  BY <1>5, <1>6, FourBytes DEF AfterByte
<1>9. AfterByte(Z(2 * b, l2), x(3)) = Z(3 * b, l3)
  BY <1>5, <1>6, FourBytes DEF AfterByte
<1>10. AfterByte(Z(3 * b, l3), x(4)) = ZeroWord(l4)
  BY <1>5, <1>6, FourBytes DEF AfterByte
<1>11. QED
  BY <1>4, <1>7, <1>8, <1>9, <1>10 DEF x

-----------------------------------------------------------------------------
\* The register after each of the bytes p.
Registers(R, l, p) ==
  /\ R \in [0..Len(p) -> Register] /\ R[0] = l
  /\ \A n \in 1..Len(p) : R[n] = AfterByte(R[n - 1], p[n])

\* There are such registers,
LEMMA RegistersExist ==
  ASSUME NEW l \in Register, NEW p \in Seq(Octet)
  PROVE  \E R : Registers(R, l, p)
<1> DEFINE N == Len(p)
           make == [n \in 1..N |-> [r \in Register |-> AfterByte(r, p[n])]]
<1>1. N \in Nat /\ \A n \in 1..N : p[n] \in Octet
  BY LenProperties, ElementOfSeq
<1> HIDE DEF N
<1>2. make \in [1..N -> [Register -> Register]]
  <2>1. \A n \in 1..N, r \in Register : AfterByte(r, p[n]) \in Register
    BY <1>1, AfterByteOK
  <2>2. QED
    BY <2>1
<1>3. \A n \in 1..N, r \in Register : make[n][r] = AfterByte(r, p[n])
  OBVIOUS
<1> HIDE DEF make
<1>3b. l \in Register
  OBVIOUS
<1>3a. \E R \in [0..N -> Register] : Made(R, l, N, make)
  BY <1>1, <1>2, <1>3b, ChainExists
<1>4. PICK R \in [0..N -> Register] : R[0] = l /\ \A n \in 1..N : R[n] = make[n][R[n - 1]]
  BY <1>3a DEF Made
<1>5. \A n \in 1..N : R[n] = AfterByte(R[n - 1], p[n])
  <2>1. \A n \in 1..N : n - 1 \in 0..N
    BY <1>1
  <2>2. QED
    BY <1>3, <1>4, <2>1
<1>6. QED
  BY <1>4, <1>5 DEF Registers, N

\* Two chains that begin alike and go on alike are alike.
Alike(N, f, R) == f[0] = R[0] /\ \A n \in 1..N : f[n - 1] = R[n - 1] => f[n] = R[n]

\* and only those.
LEMMA Agreement ==
  ASSUME NEW N \in Nat, NEW f, NEW R, Alike(N, f, R)
  PROVE  \A n \in 0..N : f[n] = R[n]
<1> DEFINE T == {n \in Nat : n <= N => f[n] = R[n]}
<1>0. f[0] = R[0] /\ \A n \in 1..N : f[n - 1] = R[n - 1] => f[n] = R[n]
  BY DEF Alike
<1>1. 0 \in T
  BY <1>0
<1>2. ASSUME NEW n \in Nat, n \in T PROVE n + 1 \in T
  <2> SUFFICES ASSUME n + 1 <= N PROVE f[n + 1] = R[n + 1]
    OBVIOUS
  <2>1. n + 1 \in 1..N /\ (n + 1) - 1 = n /\ n <= N
    OBVIOUS
  <2>2. QED
    BY <1>0, <1>2, <2>1
<1> HIDE DEF T
<1>3. \A n \in Nat : n \in T
  BY <1>1, <1>2, Upward
<1>4. QED
  BY <1>3 DEF T

\* Bytes is what STEP1 makes of the data,
LEMMA BytesOK ==
  ASSUME NEW l \in Register, NEW p \in Seq(Octet), NEW R, Registers(R, l, p)
  PROVE  Bytes(l, p) = R[Len(p)]
<1> DEFINE N == Len(p)
           Law(f) == f = [n \in 0..N |-> IF n = 0 THEN l ELSE Step1[f[n - 1]][p[n]]]
           f == CHOOSE f : Law(f)
<1>1. N \in Nat /\ \A n \in 1..N : p[n] \in Octet
  BY LenProperties, ElementOfSeq
<1>2. /\ R \in [0..N -> Register] /\ R[0] = l
      /\ \A n \in 1..N : R[n] = AfterByte(R[n - 1], p[n])
  BY DEF Registers
<1>3. Bytes(l, p) = f[N]
  BY DEF Bytes
<1> HIDE DEF N
<1>4. \A n \in 1..N : R[n] = Step1[R[n - 1]][p[n]]
  <2>1. \A n \in 1..N : n - 1 \in 0..N
    BY <1>1
  <2>2. QED
    BY <1>1, <1>2, <2>1, Step1OK
<1>5. Law(R)
  <2>1. ASSUME NEW n \in 0..N PROVE R[n] = IF n = 0 THEN l ELSE Step1[R[n - 1]][p[n]]
    <3>1. CASE n = 0
      BY <1>2, <3>1
    <3>2. CASE n # 0
      <4>1. n \in 1..N
        BY <3>2
      <4>2. QED
        BY <1>4, <3>2, <4>1
    <3>3. QED
      BY <3>1, <3>2
  <2>2. R = [n \in 0..N |-> R[n]]
    BY <1>2
  <2>3. QED
    BY <2>1, <2>2, Zenon
<1>6. Law(f)
  <2> HIDE DEF Law
  <2>1. QED
    BY <1>5
<1> HIDE DEF f
<1>7. \A n \in 0..N : f[n] = IF n = 0 THEN l ELSE Step1[f[n - 1]][p[n]]
  BY <1>6, Zenon
<1>8. f[0] = R[0]
  BY <1>1, <1>2, <1>7
<1>9. ASSUME NEW n \in 1..N, f[n - 1] = R[n - 1] PROVE f[n] = R[n]
  <2>1. n \in 0..N /\ n # 0
    BY <1>1
  <2>2. f[n] = Step1[f[n - 1]][p[n]]
    BY <1>7, <2>1
  <2>3. QED
    BY <1>4, <1>9, <2>2
<1>10. \A n \in 0..N : f[n] = R[n]
  <2>1. Alike(N, f, R)
    BY <1>8, <1>9 DEF Alike
  <2>2. QED
    BY <1>1, <2>1, Agreement
<1>11. QED
  BY <1>1, <1>3, <1>10 DEF N

\* and Checksum what its definition makes of it: the same.
LEMMA ChecksumOK ==
  ASSUME NEW p \in Seq(Octet), NEW R, Registers(R, kCRC32Xor, p)
  PROVE  Checksum(p) = Xor(R[Len(p)], kCRC32Xor)
<1> DEFINE N == Len(p)
           l == kCRC32Xor
           Law(f) == f = [n \in 0..N |-> IF n = 0 THEN l ELSE Fed[f[n - 1]][p[n]]]
           f == CHOOSE f : Law(f)
<1>1. N \in Nat /\ \A n \in 1..N : p[n] \in Octet
  BY LenProperties, ElementOfSeq
<1>2. /\ R \in [0..N -> Register] /\ R[0] = l
      /\ \A n \in 1..N : R[n] = AfterByte(R[n - 1], p[n])
  BY DEF Registers
<1>3. Checksum(p) = Xor(f[N], l)
  BY DEF Checksum
<1> HIDE DEF N, l
<1>4. \A n \in 1..N : R[n] = Fed[R[n - 1]][p[n]]
  <2>1. \A n \in 1..N : n - 1 \in 0..N
    BY <1>1
  <2>2. QED
    BY <1>1, <1>2, <2>1, FedOK
<1>5. Law(R)
  <2>1. ASSUME NEW n \in 0..N PROVE R[n] = IF n = 0 THEN l ELSE Fed[R[n - 1]][p[n]]
    <3>1. CASE n = 0
      BY <1>2, <3>1
    <3>2. CASE n # 0
      <4>1. n \in 1..N
        BY <3>2
      <4>2. QED
        BY <1>4, <3>2, <4>1
    <3>3. QED
      BY <3>1, <3>2
  <2>2. R = [n \in 0..N |-> R[n]]
    BY <1>2
  <2>3. QED
    BY <2>1, <2>2, Zenon
<1>6. Law(f)
  <2> HIDE DEF Law
  <2>1. QED
    BY <1>5
<1> HIDE DEF f
<1>7. \A n \in 0..N : f[n] = IF n = 0 THEN l ELSE Fed[f[n - 1]][p[n]]
  BY <1>6, Zenon
<1>8. f[0] = R[0]
  BY <1>1, <1>2, <1>7
<1>9. ASSUME NEW n \in 1..N, f[n - 1] = R[n - 1] PROVE f[n] = R[n]
  <2>1. n \in 0..N /\ n # 0
    BY <1>1
  <2>2. f[n] = Fed[f[n - 1]][p[n]]
    BY <1>7, <2>1
  <2>3. QED
    BY <1>4, <1>9, <2>2
<1>10. \A n \in 0..N : f[n] = R[n]
  <2>1. Alike(N, f, R)
    BY <1>8, <1>9 DEF Alike
  <2>2. QED
    BY <1>1, <2>1, Agreement
<1>11. QED
  BY <1>1, <1>3, <1>10 DEF N, l

-----------------------------------------------------------------------------
(* Data: four strides.                                                     *)

\* The register after each word.
LEMMA WordByWord ==
  ASSUME NEW l \in Register, NEW p \in Seq(Octet), NEW R, Registers(R, l, p),
         NEW n \in Nat \ {0}, 4 * n <= Len(p)
  PROVE  /\ WordOf(p, n) \in Register
         /\ R[4 * (n - 1)] \in Register /\ R[4 * n] = ZeroWord(Xor(R[4 * (n - 1)], WordOf(p, n)))
<1> DEFINE N == Len(p)
           k == 4 * (n - 1)
           x(i) == p[4 * (n - 1) + i]
<1>1. N \in Nat /\ \A m \in 1..N : p[m] \in Octet
  BY LenProperties, ElementOfSeq
<1>2. /\ R \in [0..N -> Register]
      /\ \A m \in 1..N : R[m] = AfterByte(R[m - 1], p[m])
  BY DEF Registers
<1>3. \A i \in 1..4 : p[4 * (n - 1) + i] \in Octet
  <2>1. \A i \in 1..4 : 4 * (n - 1) + i \in 1..N
    BY <1>1
  <2>2. QED
    BY <1>1, <2>1
<1>4. WordOf(p, n) \in Register
  BY <1>3, WordIs
<1>5. R[k] \in Register
  <2>1. k \in 0..N
    BY <1>1
  <2>2. QED
    BY <1>2, <2>1
<1>6. AfterByte(AfterByte(AfterByte(AfterByte(R[k], x(1)), x(2)), x(3)), x(4))
        = ZeroWord(Xor(R[k], WordOf(p, n)))
  BY <1>3, <1>5, WordAtOnce
<1>7. /\ R[k + 1] = AfterByte(R[k], x(1)) /\ R[k + 2] = AfterByte(R[k + 1], x(2))
      /\ R[k + 3] = AfterByte(R[k + 2], x(3)) /\ R[4 * n] = AfterByte(R[k + 3], x(4))
  <2>1. /\ k + 1 \in 1..N /\ k + 2 \in 1..N /\ k + 3 \in 1..N /\ k + 4 \in 1..N
        /\ (k + 1) - 1 = k /\ (k + 2) - 1 = k + 1 /\ (k + 3) - 1 = k + 2 /\ (k + 4) - 1 = k + 3
        /\ 4 * n = k + 4
    BY <1>1
  <2>2. x(1) = p[k + 1] /\ x(2) = p[k + 2] /\ x(3) = p[k + 3] /\ x(4) = p[k + 4]
    OBVIOUS
  <2> HIDE DEF k, x, N
  <2>3. QED
    BY <1>2, <2>1, <2>2
<1> HIDE DEF x
<1>8. QED
  BY <1>4, <1>5, <1>6, <1>7

-----------------------------------------------------------------------------
\* The registers of four strides, and what they come to at the end.
Four == {s \in Seq(Register) : Len(s) = 4}

Combined(s) == Step4W(Step4W(Step4W(Step4W({}, s[1]), s[2]), s[3]), s[4])

\* The strides put together are linear.
LEMMA CombinedOK ==
  ASSUME NEW s \in Four
  PROVE  /\ s[1] \in Register /\ s[2] \in Register /\ s[3] \in Register /\ s[4] \in Register
         /\ Combined(s) = ZeroWord(Xor(s[4], ZeroWord(Xor(s[3], ZeroWord(Xor(s[2], ZeroWord(s[1])))))))
<1>1. s[1] \in Register /\ s[2] \in Register /\ s[3] \in Register /\ s[4] \in Register
  <2>1. s \in Seq(Register) /\ Len(s) = 4
    BY Zenon DEF Four
  <2>2. 1 \in 1..4 /\ 2 \in 1..4 /\ 3 \in 1..4 /\ 4 \in 1..4
    OBVIOUS
  <2>3. \A i \in 1..4 : s[i] \in Register
    BY <2>1, ElementOfSeq
  <2>4. QED
    BY <2>2, <2>3
<1> DEFINE a == Step4W({}, s[1])
           b == Step4W(a, s[2])
           c == Step4W(b, s[3])
<1>2. a = ZeroWord(s[1]) /\ a \in Register
  <2>1. Step4W({}, s[1]) = ZeroWord(Xor(s[1], {}))
    BY <1>1, Width, Step4WOK
  <2>2. QED
    <3>1. Xor(s[1], {}) = s[1]
      BY XorLaws
    <3>2. ZeroWord(s[1]) \in Register
      BY <1>1, WordLaws
    <3>3. QED
      BY <2>1, <3>1, <3>2
<1> HIDE DEF a
<1>3. b = ZeroWord(Xor(s[2], a)) /\ b \in Register
  <2>1. Step4W(a, s[2]) = ZeroWord(Xor(s[2], a))
    BY <1>1, <1>2, Step4WOK
  <2>2. Xor(s[2], a) \in Register
    BY <1>1, <1>2, XorLaws
  <2>3. QED
    BY <2>1, <2>2, WordLaws
<1> HIDE DEF b
<1>4. c = ZeroWord(Xor(s[3], b)) /\ c \in Register
  <2>1. Step4W(b, s[3]) = ZeroWord(Xor(s[3], b))
    BY <1>1, <1>3, Step4WOK
  <2>2. Xor(s[3], b) \in Register
    BY <1>1, <1>3, XorLaws
  <2>3. QED
    BY <2>1, <2>2, WordLaws
<1> HIDE DEF c
<1>5. Step4W(c, s[4]) = ZeroWord(Xor(s[4], c))
  BY <1>1, <1>4, Step4WOK
<1>6. Combined(s) = Step4W(c, s[4])
  BY DEF Combined, a, b, c
<1>7. QED
  BY <1>1, <1>2, <1>3, <1>4, <1>5, <1>6

\* A stride that has taken its turn stands in the place of its four words.
LEMMA StrideStepOK ==
  ASSUME NEW s \in Four, NEW word \in Register
  PROVE  /\ StrideStep(s, word) \in Four
         /\ Combined(StrideStep(s, word)) = ZeroWord(Xor(Combined(s), word))
<1> DEFINE t == StrideStep(s, word)
           x == Step4(Head(s), word)
<1>1. s \in Seq(Register) /\ Len(s) = 4 /\ s # << >>
  <2>1. s \in Seq(Register) /\ Len(s) = 4
    BY Zenon DEF Four
  <2>2. Len(<< >>) = 0
    OBVIOUS
  <2>3. QED
    BY <2>1, <2>2
<1>2. Head(s) = s[1] /\ Tail(s) \in Seq(Register) /\ Len(Tail(s)) = 3
      /\ Tail(s)[1] = s[2] /\ Tail(s)[2] = s[3] /\ Tail(s)[3] = s[4]
  <2>1. /\ Head(s) = s[1] /\ Tail(s) \in Seq(Register) /\ Len(Tail(s)) = Len(s) - 1
        /\ \A i \in 1..Len(Tail(s)) : Tail(s)[i] = s[i + 1]
    BY <1>1, HeadTailProperties
  <2>2. Len(Tail(s)) = 3 /\ 1 + 1 = 2 /\ 2 + 1 = 3 /\ 3 + 1 = 4
    BY <1>1, <2>1
  <2>3. 1 \in 1..3 /\ 2 \in 1..3 /\ 3 \in 1..3
    OBVIOUS
  <2>4. Tail(s)[1] = s[1 + 1] /\ Tail(s)[2] = s[2 + 1] /\ Tail(s)[3] = s[3 + 1]
    BY <2>1, <2>2, <2>3
  <2>5. QED
    BY <2>1, <2>2, <2>4
<1>3. s[1] \in Register /\ s[2] \in Register /\ s[3] \in Register /\ s[4] \in Register
  BY CombinedOK
<1>4. x = Xor(word, ZeroTurn(s[1])) /\ x \in Register
  BY <1>2, <1>3, Step4OK, XorLaws, WordLaws
<1> HIDE DEF x
<1>5. t = Append(Tail(s), x)
  BY DEF StrideStep, x
<1>6. t \in Seq(Register) /\ Len(t) = 4 /\ t[1] = s[2] /\ t[2] = s[3] /\ t[3] = s[4] /\ t[4] = x
  <2> DEFINE u == Tail(s)
  <2>1. u \in Seq(Register) /\ Len(u) = 3 /\ u[1] = s[2] /\ u[2] = s[3] /\ u[3] = s[4]
    BY <1>2
  <2> HIDE DEF u
  <2>2. /\ Append(u, x) \in Seq(Register) /\ Len(Append(u, x)) = Len(u) + 1
        /\ \A i \in 1..Len(u) : Append(u, x)[i] = u[i]
        /\ Append(u, x)[Len(u) + 1] = x
    <3>1. x \in Register /\ u \in Seq(Register)
      BY <1>4, <2>1
    <3>2. QED
      BY ONLY <3>1, AppendProperties
  <2>3. 1 \in 1..3 /\ 2 \in 1..3 /\ 3 \in 1..3 /\ 3 + 1 = 4
    OBVIOUS
  <2>4. Append(u, x)[1] = s[2] /\ Append(u, x)[2] = s[3] /\ Append(u, x)[3] = s[4]
        /\ Append(u, x)[4] = x /\ Append(u, x) \in Seq(Register) /\ Len(Append(u, x)) = 4
    BY <2>1, <2>2, <2>3
  <2>5. t = Append(u, x)
    BY <1>5 DEF u
  <2> HIDE DEF t
  <2>6. QED
    BY <2>4, <2>5
<1>7. t \in Four
  BY <1>6 DEF Four
<1> HIDE DEF t
<1> DEFINE Z(v) == ZeroWord(v)
           c1 == s[1]
           c2 == s[2]
           c3 == s[3]
           c4 == s[4]
<1>8. Combined(t) = Z(Xor(x, Z(Xor(c4, Z(Xor(c3, Z(c2)))))))
  BY <1>6, <1>7, CombinedOK
<1>9. Combined(s) = Z(Xor(c4, Z(Xor(c3, Z(Xor(c2, Z(c1)))))))
  BY CombinedOK
<1>10. x = Xor(word, Z(Z(Z(Z(c1)))))
  BY <1>3, <1>4, WordLaws
<1>11. c1 \in Register /\ c2 \in Register /\ c3 \in Register /\ c4 \in Register
  BY <1>3
<1> HIDE DEF Z, c1, c2, c3, c4
<1>12. /\ \A v \in Register : Z(v) \in Register
       /\ \A v, w \in Register : Z(Xor(v, w)) = Xor(Z(v), Z(w))
  BY WordLaws DEF Z
<1>13. Z(Xor(c4, Z(Xor(c3, Z(Xor(c2, Z(c1)))))))
         = Xor(Z(Xor(c4, Z(Xor(c3, Z(c2))))), Z(Z(Z(Z(c1)))))
  <2>1. \A v, w \in Register : Xor(v, w) \in Register
    BY XorLaws
  <2>2. Z(Xor(c2, Z(c1))) = Xor(Z(c2), Z(Z(c1)))
    BY <1>11, <1>12
  <2>3. Xor(c3, Z(Xor(c2, Z(c1)))) = Xor(Xor(c3, Z(c2)), Z(Z(c1)))
    BY <2>2, XorLaws
  <2>4. Z(Xor(c3, Z(Xor(c2, Z(c1))))) = Xor(Z(Xor(c3, Z(c2))), Z(Z(Z(c1))))
    BY <1>11, <1>12, <2>1, <2>3
  <2>5. Xor(c4, Z(Xor(c3, Z(Xor(c2, Z(c1)))))) = Xor(Xor(c4, Z(Xor(c3, Z(c2)))), Z(Z(Z(c1))))
    BY <2>4, XorLaws
  <2>6. QED
    BY <1>11, <1>12, <2>1, <2>5
<1>14. Xor(x, Z(Xor(c4, Z(Xor(c3, Z(c2)))))) = Xor(Combined(s), word)
  <2> DEFINE y == Z(Xor(c4, Z(Xor(c3, Z(c2)))))
             z == Z(Z(Z(Z(c1))))
  <2>1. Combined(s) = Xor(y, z) /\ x = Xor(word, z)
    BY <1>9, <1>10, <1>13
  <2> HIDE DEF y, z
  <2>2. Xor(Xor(word, z), y) = Xor(Xor(y, z), word)
    BY DEF Xor
  <2>3. QED
    BY <2>1, <2>2 DEF y
<1>15. QED
  BY <1>7, <1>8, <1>14 DEF t, Z

-----------------------------------------------------------------------------
(* Data: Extend.                                                           *)

LEMMA FourOK ==
  ASSUME NEW a \in Register, NEW b \in Register, NEW c \in Register, NEW d \in Register
  PROVE  <<a, b, c, d>> \in Four
<1>1. <<a, b, c, d>> \in Seq(Register) /\ Len(<<a, b, c, d>>) = 4
  OBVIOUS
<1>2. QED
  BY <1>1, Zenon DEF Four

\* The four strides come to the register that the bytes one by one come to.
LEMMA StridesOK ==
  ASSUME NEW l \in Register, NEW p \in Seq(Octet), NEW R, Registers(R, l, p),
         NEW m \in Nat, m >= 4, Len(p) = 4 * m
  PROVE  Strides(l, p) = R[4 * m]
<1> DEFINE words == [n \in 1..Len(p) \div 4 |-> WordOf(p, n)]
           First == <<Xor(words[1], l), words[2], words[3], words[4]>>
           Law(f) == f = [n \in 4..Len(words) |->
                            IF n = 4 THEN First ELSE StrideStep(f[n - 1], words[n])]
           f == CHOOSE f : Law(f)
           last == f[Len(words)]
<1>1. Len(p) \div 4 = m
  BY SMT
<1>2. \A n \in 1..m : words[n] = WordOf(p, n)
  BY <1>1
<1>3. Len(words) = m
  <2>1. words = [n \in 1..m |-> WordOf(p, n)]
    BY <1>1
  <2>2. QED
    BY <2>1
<1>4. Strides(l, p) = Combined(last)
  BY DEF Strides, Combined
<1> HIDE DEF words
<1>5. \A n \in 1..m : /\ words[n] \in Register /\ R[4 * (n - 1)] \in Register
                      /\ R[4 * n] = ZeroWord(Xor(R[4 * (n - 1)], words[n]))
  <2> SUFFICES ASSUME NEW n \in 1..m
               PROVE  /\ words[n] \in Register /\ R[4 * (n - 1)] \in Register
                      /\ R[4 * n] = ZeroWord(Xor(R[4 * (n - 1)], words[n]))
    OBVIOUS
  <2>1. n \in Nat \ {0} /\ 4 * n <= Len(p)
    OBVIOUS
  <2>2. QED
    BY <1>2, <2>1, WordByWord
<1>6. /\ words[1] \in Register /\ words[2] \in Register /\ words[3] \in Register /\ words[4] \in Register
      /\ R[0] = l
      /\ R[4] = ZeroWord(Xor(R[0], words[1])) /\ R[8] = ZeroWord(Xor(R[4], words[2]))
      /\ R[12] = ZeroWord(Xor(R[8], words[3])) /\ R[16] = ZeroWord(Xor(R[12], words[4]))
  <2>1. 1 \in 1..m /\ 2 \in 1..m /\ 3 \in 1..m /\ 4 \in 1..m
    OBVIOUS
  <2>2. /\ 4 * 1 = 4 /\ 4 * 2 = 8 /\ 4 * 3 = 12 /\ 4 * 4 = 16
        /\ 4 * (1 - 1) = 0 /\ 4 * (2 - 1) = 4 /\ 4 * (3 - 1) = 8 /\ 4 * (4 - 1) = 12
    OBVIOUS
  <2>3. R[0] = l
    BY DEF Registers
  <2>4. /\ R[4] = ZeroWord(Xor(R[0], words[1])) /\ R[8] = ZeroWord(Xor(R[4], words[2]))
        /\ R[12] = ZeroWord(Xor(R[8], words[3])) /\ R[16] = ZeroWord(Xor(R[12], words[4]))
    BY <1>5, <2>1, <2>2
  <2>5. QED
    BY <1>5, <2>1, <2>3, <2>4
<1>7. First \in Four /\ Combined(First) = R[16]
  <2>1. Xor(words[1], l) \in Register /\ Xor(words[1], l) = Xor(l, words[1])
    BY <1>6, XorLaws
  <2>2. First \in Four
    BY <1>6, <2>1, FourOK
  <2>3. /\ First[1] = Xor(l, words[1]) /\ First[2] = words[2]
        /\ First[3] = words[3] /\ First[4] = words[4]
    BY <2>1
  <2> HIDE DEF First
  <2>4. Combined(First) = ZeroWord(Xor(words[4], ZeroWord(Xor(words[3],
                            ZeroWord(Xor(words[2], ZeroWord(Xor(l, words[1]))))))))
    BY <2>2, <2>3, CombinedOK
  <2>5. \A v, w : Xor(v, w) = Xor(w, v)
    BY XorLaws
  <2>6. R[4] = ZeroWord(Xor(l, words[1])) /\ R[8] = ZeroWord(Xor(words[2], R[4]))
        /\ R[12] = ZeroWord(Xor(words[3], R[8])) /\ R[16] = ZeroWord(Xor(words[4], R[12]))
    BY <1>6, <2>5
  <2>7. QED
    BY <2>2, <2>4, <2>6
<1> HIDE DEF First
<1>8. \E g : Law(g)
  <2> DEFINE make == [n \in 1..m - 4 |-> [s \in Four |-> StrideStep(s, words[n + 4])]]
  <2>1. m - 4 \in Nat /\ \A n \in 1..m - 4 : n + 4 \in 1..m
    OBVIOUS
  <2>2. make \in [1..m - 4 -> [Four -> Four]]
    <3>1. \A n \in 1..m - 4, s \in Four : StrideStep(s, words[n + 4]) \in Four
      BY <1>5, <2>1, StrideStepOK
    <3>2. QED
      BY <3>1
  <2>3. \A n \in 1..m - 4, s \in Four : make[n][s] = StrideStep(s, words[n + 4])
    OBVIOUS
  <2> HIDE DEF make
  <2>4. \E g \in [0..m - 4 -> Four] : Made(g, First, m - 4, make)
    BY <1>7, <2>1, <2>2, ChainExists
  <2>5. PICK g \in [0..m - 4 -> Four] :
          g[0] = First /\ \A n \in 1..m - 4 : g[n] = make[n][g[n - 1]]
    BY <2>4 DEF Made
  <2> DEFINE h == [n \in 4..m |-> g[n - 4]]
  <2>6. ASSUME NEW n \in 4..m PROVE h[n] = IF n = 4 THEN First ELSE StrideStep(h[n - 1], words[n])
    <3>1. CASE n = 4
      <4>1. n - 4 = 0
        BY <3>1
      <4>2. h[n] = g[n - 4]
        OBVIOUS
      <4>3. QED
        BY <2>5, <3>1, <4>1, <4>2
    <3>2. CASE n # 4
      <4>1. n - 4 \in 1..m - 4 /\ (n - 4) - 1 = (n - 1) - 4 /\ (n - 4) + 4 = n /\ n - 1 \in 4..m
            /\ (n - 4) - 1 \in 0..m - 4
        BY <3>2
      <4>2. h[n] = g[n - 4] /\ h[n - 1] = g[(n - 4) - 1]
        BY <4>1
      <4>3. g[n - 4] = make[n - 4][g[(n - 4) - 1]] /\ g[(n - 4) - 1] \in Four
        BY <2>5, <4>1
      <4>4. g[n - 4] = StrideStep(g[(n - 4) - 1], words[n])
        BY <2>3, <4>1, <4>3
      <4>5. QED
        BY <3>2, <4>2, <4>4
    <3>3. QED
      BY <3>1, <3>2
  <2>7. h = [n \in 4..m |-> h[n]]
    OBVIOUS
  <2> HIDE DEF h
  <2>8. Law(h)
    BY <1>3, <2>6, <2>7, Zenon
  <2>9. QED
    BY <2>8
<1>9. Law(f)
  <2> HIDE DEF Law
  <2>1. QED
    BY <1>8
<1> HIDE DEF f
<1>10. \A n \in 4..m : f[n] = IF n = 4 THEN First ELSE StrideStep(f[n - 1], words[n])
  BY <1>3, <1>9, Zenon
<1> DEFINE T == {k \in Nat : k <= m - 4 =>
                   f[k + 4] \in Four /\ Combined(f[k + 4]) = R[4 * (k + 4)]}
<1>11. 0 \in T
  <2>1. 0 + 4 = 4 /\ 4 * (0 + 4) = 16 /\ 4 \in 4..m
    OBVIOUS
  <2>2. f[4] = First
    BY <1>10, <2>1
  <2>3. QED
    BY <1>7, <2>1, <2>2
<1>12. ASSUME NEW k \in Nat, k \in T PROVE k + 1 \in T
  <2> SUFFICES ASSUME k + 1 <= m - 4
               PROVE  f[(k + 1) + 4] \in Four /\ Combined(f[(k + 1) + 4]) = R[4 * ((k + 1) + 4)]
    OBVIOUS
  <2> DEFINE n == (k + 1) + 4
  <2>1. n \in 4..m /\ n # 4 /\ n - 1 = k + 4 /\ n \in 1..m /\ k <= m - 4
    OBVIOUS
  <2>2. f[k + 4] \in Four /\ Combined(f[k + 4]) = R[4 * (k + 4)]
    BY <1>12, <2>1
  <2> HIDE DEF n
  <2>3. f[n] = StrideStep(f[k + 4], words[n])
    BY <1>10, <2>1
  <2>4. words[n] \in Register /\ R[4 * n] = ZeroWord(Xor(R[4 * (k + 4)], words[n]))
    BY <1>5, <2>1
  <2>5. f[n] \in Four /\ Combined(f[n]) = ZeroWord(Xor(Combined(f[k + 4]), words[n]))
    BY <2>2, <2>3, <2>4, StrideStepOK
  <2>6. f[n] \in Four /\ Combined(f[n]) = R[4 * n]
    BY <2>2, <2>4, <2>5
  <2>7. QED
    BY <2>6 DEF n
<1> HIDE DEF T
<1>13. \A k \in Nat : k \in T
  BY <1>11, <1>12, Upward
<1>14. Combined(f[m]) = R[4 * m]
  <2>1. m - 4 \in Nat /\ (m - 4) + 4 = m
    OBVIOUS
  <2>2. QED
    BY <1>13, <2>1, SMTT(30) DEF T
<1>15. QED
  BY <1>3, <1>4, <1>14

-----------------------------------------------------------------------------
\* The registers from the i-th to the j-th.
From(R, i, j) == [n \in 0..j - i |-> R[i + n]]

\* A part of the bytes takes the register on by as much.
LEMMA PartOfBytes ==
  ASSUME NEW l \in Register, NEW p \in Seq(Octet), NEW R, Registers(R, l, p),
         NEW i \in Nat, NEW j \in Nat, i <= j, j <= Len(p)
  PROVE  /\ SubSeq(p, i + 1, j) \in Seq(Octet) /\ Len(SubSeq(p, i + 1, j)) = j - i
         /\ R[i] \in Register /\ From(R, i, j)[j - i] = R[j]
         /\ Registers(From(R, i, j), R[i], SubSeq(p, i + 1, j))
<1> DEFINE N == Len(p)
           q == SubSeq(p, i + 1, j)
           Q == [n \in 0..j - i |-> R[i + n]]
<1>1. N \in Nat /\ \A n \in 1..N : p[n] \in Octet
  BY LenProperties, ElementOfSeq
<1>2. /\ R \in [0..N -> Register]
      /\ \A n \in 1..N : R[n] = AfterByte(R[n - 1], p[n])
  BY DEF Registers
<1>3. q \in Seq(Octet) /\ Len(q) = j - i /\ \A n \in 1..j - i : q[n] = p[i + n]
  <2>1. i + 1 \in 1..N + 1 /\ \A n \in i + 1..j : n \in 1..N
    BY <1>1
  <2>2. /\ q \in Seq(Octet)
        /\ Len(q) = IF i + 1 <= j THEN j - (i + 1) + 1 ELSE 0
        /\ \A n \in 1..j - (i + 1) + 1 : q[n] = p[(i + 1) + n - 1]
    BY <2>1, SubSeqProperties, SMTT(30)
  <2>3. \A n \in 1..j - i : (i + 1) + n - 1 = i + n
    OBVIOUS
  <2>4. (IF i + 1 <= j THEN j - (i + 1) + 1 ELSE 0) = j - i /\ j - (i + 1) + 1 = j - i
    OBVIOUS
  <2> HIDE DEF q
  <2>5. QED
    BY <2>2, <2>3, <2>4
<1> HIDE DEF q
<1>4. \A n \in 0..j - i : i + n \in 0..N /\ Q[n] = R[i + n] /\ R[i + n] \in Register
  BY <1>1, <1>2
<1>5. Q \in [0..j - i -> Register]
  BY <1>4
<1>6. Q[0] = R[i] /\ Q[j - i] = R[j] /\ R[i] \in Register
  <2>1. 0 \in 0..j - i /\ j - i \in 0..j - i /\ i + 0 = i /\ i + (j - i) = j
    OBVIOUS
  <2> HIDE DEF Q
  <2>2. QED
    BY <1>4, <2>1
<1>7. ASSUME NEW n \in 1..j - i PROVE Q[n] = AfterByte(Q[n - 1], q[n])
  <2>1. /\ n \in 0..j - i /\ n - 1 \in 0..j - i /\ i + n \in 1..N /\ (i + n) - 1 = i + (n - 1)
    BY <1>1
  <2> HIDE DEF Q
  <2>2. QED
    BY <1>2, <1>3, <1>4, <2>1
<1> HIDE DEF Q
<1>8. Registers(Q, R[i], q)
  BY <1>3, <1>5, <1>6, <1>7 DEF Registers
<1>9. QED
  BY <1>3, <1>6, <1>8 DEF q, Q, From

\* Extend, wherever the data lies.
LEMMA ExtendOK ==
  ASSUME NEW crc \in Register, NEW p \in Seq(Octet), NEW R,
         Registers(R, Xor(crc, kCRC32Xor), p), NEW address \in Int
  PROVE  Extend(crc, p, address) = Xor(R[Len(p)], kCRC32Xor)
<1> DEFINE l == Xor(crc, kCRC32Xor)
           N == Len(p)
           x == (-address) % 4
           head == IF x <= Len(p) THEN x ELSE 0
           rest == Len(p) - head
           bulk == IF rest >= 16 THEN 4 * (rest \div 4) ELSE 0
           l0 == Bytes(l, SubSeq(p, 1, head))
           l1 == IF bulk > 0 THEN Strides(l0, SubSeq(p, head + 1, head + bulk)) ELSE l0
           l2 == Bytes(l1, SubSeq(p, head + bulk + 1, Len(p)))
<1>1. Extend(crc, p, address) = Xor(l2, kCRC32Xor)
  BY DEF Extend
<1>2. l \in Register
  BY Width, XorLaws
<1>3. Registers(R, l, p) /\ R[0] = l /\ N \in Nat
  BY LenProperties DEF Registers
<1>4. head \in Nat /\ head <= N /\ rest \in Nat /\ head + rest = N
  <2>1. x \in Nat
    BY SMT
  <2> HIDE DEF x
  <2>2. QED
    BY <1>3, <2>1
<1> HIDE DEF head
<1>5. bulk \in Nat /\ head + bulk <= N /\ (bulk > 0 => bulk = 4 * (rest \div 4) /\ rest \div 4 \in Nat /\ rest \div 4 >= 4)
  <2>1. rest \div 4 \in Nat /\ 4 * (rest \div 4) <= rest /\ (rest >= 16 => rest \div 4 >= 4)
    BY <1>4, SMT
  <2>2. QED
    BY <1>4, <2>1
<1> HIDE DEF rest
<1> HIDE DEF bulk, l
<1>6. l0 = R[head]
  <2> DEFINE q == SubSeq(p, 0 + 1, head)
             Q == From(R, 0, head)
  <2>1. /\ q \in Seq(Octet) /\ Len(q) = head - 0
        /\ R[0] \in Register /\ Registers(Q, R[0], q) /\ Q[head - 0] = R[head]
    BY <1>2, <1>3, <1>4, PartOfBytes
  <2>2. 0 + 1 = 1 /\ head - 0 = head
    BY <1>4
  <2> HIDE DEF Q
  <2>3. Bytes(l, q) = R[head]
    BY <1>3, <2>1, <2>2, BytesOK
  <2>4. QED
    BY <2>2, <2>3
<1> HIDE DEF l0
<1>7. l1 = R[head + bulk]
  <2>1. CASE bulk = 0
    BY <1>4, <1>6, <2>1
  <2>2. CASE bulk > 0
    <3>0. /\ head + bulk \in Nat /\ rest \div 4 \in Nat /\ head <= head + bulk
          /\ (head + bulk) - head = 4 * (rest \div 4) /\ rest \div 4 >= 4
      BY <1>4, <1>5, <2>2
    <3>1. PICK i \in Nat, j \in Nat, m \in Nat :
            i = head /\ j = head + bulk /\ i <= j /\ j <= N /\ j - i = 4 * m /\ m >= 4
      BY <1>4, <1>5, <3>0
    <3> DEFINE q == SubSeq(p, i + 1, j)
               Q == From(R, i, j)
    <3>2. /\ q \in Seq(Octet) /\ Len(q) = j - i
          /\ R[i] \in Register /\ Registers(Q, R[i], q) /\ Q[j - i] = R[j]
      <4>1. i <= j /\ j <= N
        BY <3>1
      <4>2. QED
        BY <1>2, <1>3, <4>1, PartOfBytes
    <3>3. l1 = Strides(l0, q)
      BY <2>2, <3>1
    <3> HIDE DEF q, Q, l1
    <3>4. Strides(R[i], q) = Q[4 * m]
      BY <3>1, <3>2, StridesOK
    <3>5. QED
      BY <1>6, <3>1, <3>2, <3>3, <3>4
  <2>3. QED
    BY <1>5, <2>1, <2>2
<1> HIDE DEF l1
<1>8. l2 = R[N]
  <2> DEFINE i == head + bulk
             q == SubSeq(p, i + 1, N)
             Q == From(R, i, N)
  <2>1. i \in Nat /\ i <= N
    BY <1>4, <1>5
  <2>2. l2 = Bytes(R[i], q)
    BY <1>7
  <2> HIDE DEF i, l2
  <2>3. /\ q \in Seq(Octet) /\ Len(q) = N - i
        /\ R[i] \in Register /\ Registers(Q, R[i], q) /\ Q[N - i] = R[N]
    BY <1>2, <1>3, <2>1, PartOfBytes
  <2> HIDE DEF q, Q, N
  <2>4. QED
    BY <2>2, <2>3, BytesOK
<1>9. QED
  BY <1>1, <1>8

-----------------------------------------------------------------------------
(* What Value computes, and what it tells.                                 *)

\* A checksum is a word.
LEMMA ChecksumRegister ==
  ASSUME NEW p \in Seq(Octet) PROVE Checksum(p) \in Register
<1>1. PICK R : Registers(R, kCRC32Xor, p)
  BY Width, RegistersExist
<1>2. R[Len(p)] \in Register
  <2>1. Len(p) \in 0..Len(p)
    BY LenProperties
  <2>2. QED
    BY <1>1, <2>1 DEF Registers
<1>3. QED
  BY <1>1, <1>2, ChecksumOK, XorLaws, Width

\* Value computes the checksum by its definition, wherever the data lies: the
\* tables, the four strides and the alignment come to the same.
THEOREM ValueIsChecksum ==
  ASSUME NEW p \in Seq(Octet), NEW address \in Int
  PROVE  Value(p, address) = Checksum(p)
<1>1. PICK R : Registers(R, kCRC32Xor, p)
  BY Width, RegistersExist
<1>2. Xor({}, kCRC32Xor) = kCRC32Xor
  BY XorLaws
<1>3. Extend({}, p, address) = Xor(R[Len(p)], kCRC32Xor)
  BY <1>1, <1>2, Width, ExtendOK
<1>4. QED
  BY <1>1, <1>3, ChecksumOK DEF Value

\* Extend takes the checksum of one string, and a second one, to the checksum of
\* the two together (crc32c.h:14-17): for all strings, wherever the second lies.
THEOREM ExtendConcatenates ==
  ASSUME NEW A \in Seq(Octet), NEW p \in Seq(Octet), NEW address \in Int
  PROVE  Extend(Checksum(A), p, address) = Checksum(A \o p)
<1> DEFINE n == Len(A)
           N == Len(p)
           q == A \o p
<1>1. /\ n \in Nat /\ N \in Nat /\ q \in Seq(Octet) /\ Len(q) = n + N
      /\ \A i \in 1..n : q[i] = A[i]
      /\ \A i \in 1..N : q[n + i] = p[i]
  BY LenProperties, ConcatProperties
<1> HIDE DEF q
<1>2. PICK R : Registers(R, kCRC32Xor, q)
  BY <1>1, Width, RegistersExist
<1>3. /\ R \in [0..n + N -> Register] /\ R[0] = kCRC32Xor
      /\ \A i \in 1..n + N : R[i] = AfterByte(R[i - 1], q[i])
  BY <1>1, <1>2 DEF Registers
<1>4. PICK D : D = [i \in 0..n |-> R[i]]
  OBVIOUS
<1>5. Registers(D, kCRC32Xor, A)
  <2>1. D \in [0..n -> Register] /\ D[0] = kCRC32Xor
    BY <1>1, <1>3, <1>4
  <2>2. ASSUME NEW i \in 1..n PROVE D[i] = AfterByte(D[i - 1], A[i])
    <3>1. i \in 0..n /\ i - 1 \in 0..n /\ i \in 1..n + N
      BY <1>1
    <3>2. D[i] = R[i] /\ D[i - 1] = R[i - 1]
      BY <1>4, <3>1
    <3>3. QED
      BY <1>1, <1>3, <3>1, <3>2
  <2>3. QED
    BY <2>1, <2>2 DEF Registers
<1>6. Checksum(A) = Xor(R[n], kCRC32Xor)
  <2>1. Checksum(A) = Xor(D[n], kCRC32Xor)
    BY <1>5, ChecksumOK
  <2>2. D[n] = R[n]
    BY <1>1, <1>4
  <2>3. QED
    BY <2>1, <2>2
<1>7. R[n] \in Register
  BY <1>1, <1>3
<1>8. PICK S : S = [i \in 0..N |-> R[n + i]]
  OBVIOUS
<1>9. Registers(S, R[n], p)
  <2>1. \A i \in 0..N : n + i \in 0..n + N
    BY <1>1
  <2>2. S \in [0..N -> Register]
    BY <1>3, <1>8, <2>1
  <2>3. S[0] = R[n]
    <3>1. 0 \in 0..N /\ n + 0 = n
      BY <1>1
    <3>2. QED
      BY <1>8, <3>1
  <2>4. ASSUME NEW i \in 1..N PROVE S[i] = AfterByte(S[i - 1], p[i])
    <3>1. i \in 0..N /\ i - 1 \in 0..N /\ n + i \in 1..n + N /\ (n + i) - 1 = n + (i - 1)
      BY <1>1
    <3>2. S[i] = R[n + i] /\ S[i - 1] = R[(n + i) - 1]
      BY <1>8, <3>1
    <3>3. QED
      BY <1>1, <1>3, <3>1, <3>2
  <2>5. QED
    BY <2>2, <2>3, <2>4 DEF Registers
<1>10. Checksum(A) \in Register /\ Xor(Checksum(A), kCRC32Xor) = R[n]
  <2> DEFINE r == R[n]
             x == kCRC32Xor
             c == Checksum(A)
  <2>1. r \in Register /\ x \in Register /\ c = Xor(r, x)
    BY <1>6, <1>7, Width
  <2> HIDE DEF r, x, c
  <2>2. Xor(Xor(r, x), x) = r
    BY DEF Xor
  <2>3. Xor(r, x) \in Register
    BY <2>1, XorLaws
  <2>4. QED
    BY <2>1, <2>2, <2>3 DEF r, x, c
<1>11. Extend(Checksum(A), p, address) = Xor(S[N], kCRC32Xor)
  <2> DEFINE crc == Checksum(A)
  <2> HIDE DEF crc
  <2>1. crc \in Register /\ Registers(S, Xor(crc, kCRC32Xor), p)
    BY <1>9, <1>10 DEF crc
  <2>2. Extend(crc, p, address) = Xor(S[Len(p)], kCRC32Xor)
    BY <2>1, ExtendOK
  <2>3. QED
    BY <2>2 DEF crc
<1>12. S[N] = R[n + N]
  BY <1>1, <1>8
<1>13. Checksum(q) = Xor(R[n + N], kCRC32Xor)
  <2>1. Checksum(q) = Xor(R[Len(q)], kCRC32Xor)
    BY <1>1, <1>2, ChecksumOK
  <2>2. QED
    BY <1>1, <2>1
<1>14. QED
  BY <1>11, <1>12, <1>13 DEF q

\* Contents first and the type byte then, or both at once.
LEMMA TrailerOK ==
  ASSUME NEW data \in Seq(Octet), NEW type \in Octet, NEW address \in Int
  PROVE  /\ Append(data, type) \in Seq(Octet)
         /\ Extend(Value(data, address), <<type>>, 0) = Checksum(Append(data, type))
<1> DEFINE p == <<type>>
<1>1. p \in Seq(Octet) /\ Append(data, type) = data \o p
  OBVIOUS
<1> HIDE DEF p
<1>2. Value(data, address) = Checksum(data)
  BY ValueIsChecksum
<1>3. Extend(Checksum(data), p, 0) = Checksum(data \o p)
  BY <1>1, ExtendConcatenates
<1>4. Append(data, type) \in Seq(Octet)
  BY AppendProperties
<1>5. QED
  BY <1>1, <1>2, <1>3, <1>4 DEF p

-----------------------------------------------------------------------------
\* No register is lost on the way.
LEMMA ShiftedEmpty == ASSUME NEW w \in Register, Shifted(w) = {} PROVE w = {}
<1> DEFINE top == 4 * ByteBits - 1
<1>1. \A k \in Nat : k \in ShiftRight(w, 1) <=> k + 1 \in w
  BY ShiftRightOK
<1>2. CASE 0 \in w
  <2>1. Xor(ShiftRight(w, 1), Polynomial) = {}
    BY <1>2 DEF Shifted
  <2>2. top \in Polynomial /\ top \in Nat
    BY ChecksumAssumption
  <2>3. top \in ShiftRight(w, 1)
    <3>1. top \notin Xor(ShiftRight(w, 1), Polynomial)
      BY <2>1
    <3> HIDE DEF top
    <3>2. QED
      BY <2>2, <3>1, XorElement
  <2>4. top + 1 \in w
    BY <1>1, <2>2, <2>3
  <2>5. top + 1 \notin Positions
    BY Width DEF Positions
  <2>6. QED
    BY <2>4, <2>5 DEF Register
<1>3. CASE 0 \notin w
  <2>1. ShiftRight(w, 1) = {}
    BY <1>3 DEF Shifted
  <2>2. ASSUME NEW i \in w PROVE FALSE
    <3>1. i \in Nat /\ i # 0
      BY <1>3, Width DEF Register
    <3>2. i - 1 \in Nat /\ (i - 1) + 1 = i
      BY <3>1
    <3>3. i - 1 \in ShiftRight(w, 1)
      BY <1>1, <3>2
    <3>4. QED
      BY <2>1, <3>3
  <2>3. QED
    BY <2>2
<1>4. QED
  BY <1>2, <1>3

\* Equal words.
LEMMA XorEmpty == \A v, w : Xor(v, w) = {} => v = w
BY DEF Xor

\* Zeros do not make two registers one.
LEMMA ZerosInjective ==
  ASSUME NEW v \in Register, NEW w \in Register, v # w
  PROVE  \A n \in Nat : Zeros[n][v] # Zeros[n][w]
<1> DEFINE T == {n \in Nat : Zeros[n][v] # Zeros[n][w]}
<1>1. 0 \in T
  BY ZerosLaws
<1>2. ASSUME NEW n \in Nat, n \in T PROVE n + 1 \in T
  <2> DEFINE a == Zeros[n][v]
             b == Zeros[n][w]
  <2>1. a # b
    BY <1>2
  <2>2. a \in Register /\ b \in Register /\ Zeros[n + 1][v] = Shifted(a) /\ Zeros[n + 1][w] = Shifted(b)
    BY ZerosLaws
  <2> HIDE DEF a, b
  <2>3. ASSUME Shifted(a) = Shifted(b) PROVE FALSE
    <3>1. Xor(a, b) \in Register /\ Shifted(Xor(a, b)) = Xor(Shifted(a), Shifted(b))
      BY <2>2, XorLaws, ShiftedOK
    <3>2. Shifted(Xor(a, b)) = {}
      BY <2>3, <3>1, XorLaws
    <3>3. Xor(a, b) = {}
      BY <3>1, <3>2, ShiftedEmpty
    <3>4. QED
      BY <2>1, <3>3, XorEmpty
  <2>4. QED
    BY <2>2, <2>3
<1> HIDE DEF T
<1>3. \A n \in Nat : n \in T
  BY <1>1, <1>2, Upward
<1>4. QED
  BY <1>3 DEF T

\* Different numbers have different bits.
LEMMA BitsOfInjective ==
  \A n \in Nat : \A c, d \in 0..Power2[n] - 1 : BitsOf(c, n) = BitsOf(d, n) => c = d
<1> DEFINE T == {n \in Nat : \A c, d \in 0..Power2[n] - 1 : BitsOf(c, n) = BitsOf(d, n) => c = d}
<1>1. 0 \in T
  <2>1. 0..Power2[0] - 1 = {0}
    BY Power2OK
  <2>2. QED
    BY <2>1
<1>2. ASSUME NEW n \in Nat, n \in T PROVE n + 1 \in T
  <2> SUFFICES ASSUME NEW c \in 0..Power2[n + 1] - 1, NEW d \in 0..Power2[n + 1] - 1,
                      BitsOf(c, n + 1) = BitsOf(d, n + 1)
               PROVE  c = d
    OBVIOUS
  <2>0. Power2[n] \in Nat \ {0} /\ Power2[n + 1] = 2 * Power2[n] /\ Power2[0] = 1
    BY Power2OK
  <2>1. \A v \in 0..Power2[n + 1] - 1 :
           /\ v \in Nat /\ v \div 2 \in 0..Power2[n] - 1 /\ v % 2 \in {0, 1}
           /\ v = 2 * (v \div 2) + (v % 2) /\ v \div 1 = v
    BY <2>0
  <2>2. \A v \in 0..Power2[n + 1] - 1 : 0 \in BitsOf(v, n + 1) <=> v % 2 = 1
    <3>1. 0 \in 0..(n + 1) - 1
      OBVIOUS
    <3>2. QED
      BY <2>0, <2>1, <3>1 DEF BitsOf
  <2>3. \A v \in 0..Power2[n + 1] - 1 :
          BitsOf(v \div 2, n) = {i \in 0..n - 1 : i + 1 \in BitsOf(v, n + 1)}
    <3> SUFFICES ASSUME NEW v \in 0..Power2[n + 1] - 1
                 PROVE  BitsOf(v \div 2, n) = {i \in 0..n - 1 : i + 1 \in BitsOf(v, n + 1)}
      OBVIOUS
    <3>1. ASSUME NEW i \in 0..n - 1
          PROVE  (v \div 2) \div Power2[i] = v \div Power2[i + 1] /\ i + 1 \in 0..(n + 1) - 1
      <4>1. i \in Nat /\ Power2[i] \in Nat \ {0} /\ Power2[i + 1] = 2 * Power2[i]
        BY Power2OK
      <4>2. (v \div 2) \div Power2[i] = v \div (2 * Power2[i])
        BY <2>1, <4>1, Twice
      <4>3. QED
        BY <4>1, <4>2
    <3>2. QED
      BY <3>1 DEF BitsOf
  <2>4. c % 2 = d % 2
    BY <2>1, <2>2
  <2>5. c \div 2 = d \div 2
    <3>1. BitsOf(c \div 2, n) = BitsOf(d \div 2, n)
      BY <2>3
    <3>2. QED
      BY <1>2, <2>1, <3>1
  <2>6. QED
    BY <2>1, <2>4, <2>5
<1> HIDE DEF T
<1>3. \A n \in Nat : n \in T
  BY <1>1, <1>2, Upward
<1>4. QED
  BY <1>3 DEF T

LEMMA BitsInjective == \A c, d \in Octet : Bits[c] = Bits[d] => c = d
<1>1. \A c \in Octet : Bits[c] = BitsOf(c, ByteBits)
  BY DEF Bits, BitsOf
<1>2. QED
  BY <1>1, BitsOfInjective, Width DEF Octet

\* Data that differ in one byte, in whichever of its bits, have different
\* checksums.
THEOREM ChecksumTells ==
  ASSUME NEW p \in Seq(Octet), NEW q \in Seq(Octet), Len(p) = Len(q),
         NEW a \in 1..Len(p), p[a] # q[a], \A m \in 1..Len(p) : m # a => p[m] = q[m]
  PROVE  Checksum(p) # Checksum(q)
<1> DEFINE N == Len(p)
<1>1. PICK P : Registers(P, kCRC32Xor, p)
  BY Width, RegistersExist
<1>2. PICK Q : Registers(Q, kCRC32Xor, q)
  BY Width, RegistersExist
<1>3. N \in Nat /\ \A m \in 1..N : p[m] \in Octet /\ q[m] \in Octet
  BY LenProperties, ElementOfSeq
<1>4. /\ P \in [0..N -> Register] /\ P[0] = kCRC32Xor
      /\ \A m \in 1..N : P[m] = AfterByte(P[m - 1], p[m])
      /\ Q \in [0..N -> Register] /\ Q[0] = kCRC32Xor
      /\ \A m \in 1..N : Q[m] = AfterByte(Q[m - 1], q[m])
  BY <1>1, <1>2 DEF Registers
<1>5. a \in 1..N /\ \A m \in 1..N : m # a => p[m] = q[m]
  OBVIOUS
<1>6. p[a] # q[a] /\ Len(q) = N
  OBVIOUS
<1> HIDE DEF N
<1> DEFINE T == {m \in Nat : m <= N => (P[m] = Q[m] <=> m < a)}
<1>7. 0 \in T
  BY <1>3, <1>4, <1>5
<1>8. ASSUME NEW m \in Nat, m \in T PROVE m + 1 \in T
  <2> SUFFICES ASSUME m + 1 <= N PROVE P[m + 1] = Q[m + 1] <=> m + 1 < a
    OBVIOUS
  <2>1. m <= N /\ m \in 0..N /\ m + 1 \in 1..N /\ (m + 1) - 1 = m
    BY <1>3
  <2>2. P[m] = Q[m] <=> m < a
    BY <1>8, <2>1
  <2> DEFINE x == P[m]
             y == Q[m]
             b == Bits[p[m + 1]]
             c == Bits[q[m + 1]]
  <2>3. x \in Register /\ y \in Register /\ b \in Register /\ c \in Register
    BY <1>3, <1>4, <2>1, BitsOK
  <2>4. P[m + 1] = Zeros[ByteBits][Xor(x, b)] /\ Q[m + 1] = Zeros[ByteBits][Xor(y, c)]
    BY <1>4, <2>1 DEF AfterByte
  <2>5. b = c <=> m + 1 # a
    BY <1>3, <1>5, <1>6, <2>1, BitsInjective
  <2> HIDE DEF x, y, b, c
  <2>6. Xor(x, b) \in Register /\ Xor(y, c) \in Register
    BY <2>3, XorLaws
  <2>7. P[m + 1] = Q[m + 1] <=> Xor(x, b) = Xor(y, c)
    BY <2>4, <2>6, ZerosInjective, Width
  <2>8. x = y <=> m < a
    BY <2>2 DEF x, y
  <2>9. CASE m + 1 < a
    BY <1>5, <2>5, <2>7, <2>8, <2>9
  <2>10. CASE m + 1 = a
    <3>1. x = y /\ b # c
      BY <2>5, <2>8, <2>10
    <3>2. Xor(x, b) # Xor(y, c)
      BY ONLY <3>1 DEF Xor
    <3>3. QED
      BY <1>5, <2>7, <2>10, <3>2
  <2>11. CASE m + 1 > a
    <3>1. x # y /\ b = c
      BY <1>5, <2>5, <2>8, <2>11
    <3>2. Xor(x, b) # Xor(y, c)
      BY ONLY <3>1 DEF Xor
    <3>3. QED
      BY <1>5, <2>7, <2>11, <3>2
  <2>12. QED
    BY <1>5, <2>9, <2>10, <2>11
<1> HIDE DEF T
<1>9. \A m \in Nat : m \in T
  BY <1>7, <1>8, Upward
<1>10. P[N] # Q[N]
  BY <1>3, <1>5, <1>9 DEF T
<1>11. Checksum(p) = Xor(P[N], kCRC32Xor) /\ Checksum(q) = Xor(Q[N], kCRC32Xor)
  <2>1. Checksum(p) = Xor(P[Len(p)], kCRC32Xor)
    BY <1>1, ChecksumOK
  <2>2. Checksum(q) = Xor(Q[Len(q)], kCRC32Xor)
    BY <1>2, ChecksumOK
  <2>3. QED
    BY <1>6, <2>1, <2>2 DEF N
<1>12. QED
  BY ONLY <1>10, <1>11 DEF Xor

-----------------------------------------------------------------------------
(* Words as numbers, and as four octets.                                   *)

\* A word as a number, from the low end.
Summed(f, w) ==
  /\ f \in [0..4 * ByteBits -> Nat] /\ f[0] = 0
  /\ \A n \in 1..4 * ByteBits : f[n] = f[n - 1] + (IF n - 1 \in w THEN Power2[n - 1] ELSE 0)

LEMMA NumberIs ==
  ASSUME NEW w \in Register
  PROVE  \E f : Summed(f, w) /\ Number(w) = f[4 * ByteBits]
<1> DEFINE N == 4 * ByteBits
           Bit(n) == IF n - 1 \in w THEN Power2[n - 1] ELSE 0
           Law(f) == f = [n \in 0..N |-> IF n = 0 THEN 0 ELSE f[n - 1] + Bit(n)]
           make == [n \in 1..N |-> [x \in Nat |-> x + Bit(n)]]
           number == CHOOSE f : Law(f)
<1>1. N \in Nat
  BY Width
<1>2. Number(w) = number[N]
  BY DEF Number
<1> HIDE DEF N
<1>3. \A n \in 1..N : Bit(n) \in Nat
  BY Power2OK
<1>4. make \in [1..N -> [Nat -> Nat]]
  <2> HIDE DEF Bit
  <2>1. \A n \in 1..N, x \in Nat : x + Bit(n) \in Nat
    BY <1>3
  <2>2. QED
    BY <2>1
<1>5. \A n \in 1..N, x \in Nat : make[n][x] = x + Bit(n)
  OBVIOUS
<1> HIDE DEF make
<1>6. \E f \in [0..N -> Nat] : Made(f, 0, N, make)
  BY <1>1, <1>4, ChainExists
<1>7. PICK f \in [0..N -> Nat] : f[0] = 0 /\ \A n \in 1..N : f[n] = make[n][f[n - 1]]
  BY <1>6 DEF Made
<1>8. \A n \in 1..N : f[n] = f[n - 1] + Bit(n)
  <2>1. \A n \in 1..N : n - 1 \in 0..N
    BY <1>1
  <2> HIDE DEF Bit
  <2>2. QED
    BY <1>5, <1>7, <2>1
<1>9. Law(f)
  <2> HIDE DEF Bit
  <2>1. ASSUME NEW n \in 0..N PROVE f[n] = IF n = 0 THEN 0 ELSE f[n - 1] + Bit(n)
    <3>1. CASE n = 0
      BY <1>7, <3>1
    <3>2. CASE n # 0
      <4>1. n \in 1..N
        BY <3>2
      <4>2. QED
        BY <1>8, <3>2, <4>1
    <3>3. QED
      BY <3>1, <3>2
  <2>2. f = [n \in 0..N |-> f[n]]
    BY <1>7
  <2>3. QED
    BY <2>1, <2>2, Zenon
<1>10. Law(number)
  <2> HIDE DEF Law
  <2>1. QED
    BY <1>9
<1> HIDE DEF number
<1>11. \A n \in 0..N : number[n] = IF n = 0 THEN 0 ELSE number[n - 1] + Bit(n)
  <2> HIDE DEF Bit
  <2>1. QED
    BY <1>10, Zenon
<1>12. Alike(N, number, f)
  <2>1. number[0] = f[0]
    BY <1>1, <1>7, <1>11
  <2>2. ASSUME NEW n \in 1..N, number[n - 1] = f[n - 1] PROVE number[n] = f[n]
    <3>1. n \in 0..N /\ n # 0
      BY <1>1
    <3> HIDE DEF Bit
    <3>2. QED
      BY <1>8, <1>11, <2>2, <3>1
  <2>3. QED
    BY <2>1, <2>2 DEF Alike
<1>13. number[N] = f[N]
  <2>1. N \in 0..N
    BY <1>1
  <2>2. QED
    BY <1>1, <1>12, <2>1, Agreement
<1>14. Summed(f, w)
  BY <1>7, <1>8 DEF Summed, N
<1>15. QED
  BY <1>2, <1>13, <1>14 DEF N

\* A number of n bits is below 2^n,
LEMMA SummedBound ==
  ASSUME NEW w \in Register, NEW f, Summed(f, w)
  PROVE  \A n \in 0..4 * ByteBits : f[n] \in 0..Power2[n] - 1
<1> DEFINE N == 4 * ByteBits
           T == {n \in Nat : n <= N => f[n] \in 0..Power2[n] - 1}
<1>1. N \in Nat
  BY Width
<1>2. /\ f[0] = 0
      /\ \A n \in 1..N : f[n] = f[n - 1] + (IF n - 1 \in w THEN Power2[n - 1] ELSE 0)
  BY DEF Summed
<1> HIDE DEF N
<1>3. 0 \in T
  BY <1>2, Power2OK
<1>4. ASSUME NEW n \in Nat, n \in T PROVE n + 1 \in T
  <2> SUFFICES ASSUME n + 1 <= N PROVE f[n + 1] \in 0..Power2[n + 1] - 1
    OBVIOUS
  <2>1. n + 1 \in 1..N /\ (n + 1) - 1 = n /\ n <= N
    BY <1>1
  <2>2. f[n + 1] = f[n] + (IF n \in w THEN Power2[n] ELSE 0)
    BY <1>2, <2>1
  <2>3. f[n] \in 0..Power2[n] - 1
    BY <1>4, <2>1
  <2>4. Power2[n] \in Nat /\ Power2[n + 1] = 2 * Power2[n]
    BY Power2OK
  <2>5. QED
    BY <2>2, <2>3, <2>4
<1> HIDE DEF T
<1>5. \A n \in Nat : n \in T
  BY <1>3, <1>4, Upward
<1>6. QED
  BY <1>1, <1>5 DEF T, N

LEMMA NumberBound == ASSUME NEW w \in Register PROVE Number(w) \in 0..Power2[4 * ByteBits] - 1
<1>1. PICK f : Summed(f, w) /\ Number(w) = f[4 * ByteBits]
  BY NumberIs
<1>2. 4 * ByteBits \in 0..4 * ByteBits
  BY Width
<1>3. QED
  BY <1>1, <1>2, SummedBound

\* and is of one word only.
LEMMA NumberInjective ==
  ASSUME NEW v \in Register, NEW w \in Register, Number(v) = Number(w)
  PROVE  v = w
<1>1. PICK f : Summed(f, v) /\ Number(v) = f[4 * ByteBits]
  BY NumberIs
<1>2. PICK g : Summed(g, w) /\ Number(w) = g[4 * ByteBits]
  BY NumberIs
<1> DEFINE N == 4 * ByteBits
           T == {n \in Nat : n <= N /\ f[n] = g[n] => \A i \in 0..n - 1 : i \in v <=> i \in w}
<1>3. N \in Nat /\ f[N] = g[N]
  BY <1>1, <1>2, Width
<1>4. /\ \A n \in 1..N : /\ f[n] = f[n - 1] + (IF n - 1 \in v THEN Power2[n - 1] ELSE 0)
                         /\ g[n] = g[n - 1] + (IF n - 1 \in w THEN Power2[n - 1] ELSE 0)
  BY <1>1, <1>2 DEF Summed
<1>5. \A n \in 0..N : f[n] \in 0..Power2[n] - 1 /\ g[n] \in 0..Power2[n] - 1
  BY <1>1, <1>2, SummedBound
<1> HIDE DEF N
<1>6. 0 \in T
  OBVIOUS
<1>7. ASSUME NEW n \in Nat, n \in T PROVE n + 1 \in T
  <2> SUFFICES ASSUME n + 1 <= N, f[n + 1] = g[n + 1]
               PROVE  \A i \in 0..(n + 1) - 1 : i \in v <=> i \in w
    OBVIOUS
  <2>1. n + 1 \in 1..N /\ (n + 1) - 1 = n /\ n <= N /\ n \in 0..N
    BY <1>3
  <2>2. /\ f[n + 1] = f[n] + (IF n \in v THEN Power2[n] ELSE 0)
        /\ g[n + 1] = g[n] + (IF n \in w THEN Power2[n] ELSE 0)
    BY <1>4, <2>1
  <2>3. f[n] \in 0..Power2[n] - 1 /\ g[n] \in 0..Power2[n] - 1 /\ Power2[n] \in Nat
    BY <1>5, <2>1, Power2OK
  <2>4. (n \in v <=> n \in w) /\ f[n] = g[n]
    <3> DEFINE x == f[n]
               y == g[n]
               p == Power2[n]
    <3>1. x + (IF n \in v THEN p ELSE 0) = y + (IF n \in w THEN p ELSE 0)
      BY <2>2
    <3>2. x \in 0..p - 1 /\ y \in 0..p - 1 /\ p \in Nat
      BY <2>3
    <3> HIDE DEF x, y, p
    <3>3. CASE n \in v
      <4>1. CASE n \in w
        <5>1. x + p = y + p
          BY <3>1, <3>3, <4>1
        <5>2. x = y
          BY <3>2, <5>1
        <5>3. QED
          BY <3>3, <4>1, <5>2 DEF x, y
      <4>2. CASE n \notin w
        <5>1. x + p = y + 0
          BY <3>1, <3>3, <4>2
        <5>2. QED
          BY <3>2, <5>1
      <4>3. QED
        BY <4>1, <4>2
    <3>4. CASE n \notin v
      <4>1. CASE n \in w
        <5>1. x + 0 = y + p
          BY <3>1, <3>4, <4>1
        <5>2. QED
          BY <3>2, <5>1
      <4>2. CASE n \notin w
        <5>1. x + 0 = y + 0
          BY <3>1, <3>4, <4>2
        <5>2. x = y
          BY <3>2, <5>1
        <5>3. QED
          BY <3>4, <4>2, <5>2 DEF x, y
      <4>3. QED
        BY <4>1, <4>2
    <3>5. QED
      BY <3>3, <3>4
  <2>5. \A i \in 0..n - 1 : i \in v <=> i \in w
    BY <1>7, <2>1, <2>4
  <2>6. \A i \in 0..(n + 1) - 1 : i = n \/ i \in 0..n - 1
    OBVIOUS
  <2>7. QED
    BY <2>4, <2>5, <2>6
<1> HIDE DEF T
<1>8. \A n \in Nat : n \in T
  BY <1>6, <1>7, Upward
<1>9. \A i \in 0..N - 1 : i \in v <=> i \in w
  BY <1>3, <1>8 DEF T
<1>10. QED
  BY <1>9 DEF Register, Positions, N

-----------------------------------------------------------------------------
LEMMA Power2Add == \A m \in Nat : \A n \in Nat : Power2[m + n] = Power2[m] * Power2[n]
<1> SUFFICES ASSUME NEW m \in Nat PROVE \A n \in Nat : Power2[m + n] = Power2[m] * Power2[n]
  OBVIOUS
<1> DEFINE T == {n \in Nat : Power2[m + n] = Power2[m] * Power2[n]}
<1>1. 0 \in T
  <2>1. m + 0 = m /\ Power2[0] = 1 /\ Power2[m] \in Nat
    BY Power2OK
  <2>2. QED
    BY <2>1
<1>2. ASSUME NEW n \in Nat, n \in T PROVE n + 1 \in T
  <2>1. m + (n + 1) = (m + n) + 1 /\ m + n \in Nat
    OBVIOUS
  <2>2. /\ Power2[(m + n) + 1] = 2 * Power2[m + n] /\ Power2[n + 1] = 2 * Power2[n]
        /\ Power2[m] \in Nat /\ Power2[n] \in Nat
    BY <2>1, Power2OK
  <2>3. Power2[m + n] = Power2[m] * Power2[n]
    BY <1>2
  <2>4. \A x, y \in Nat : 2 * (x * y) = x * (2 * y)
    OBVIOUS
  <2>5. Power2[m + (n + 1)] = Power2[m] * Power2[n + 1]
    BY <2>1, <2>2, <2>3, <2>4
  <2>6. QED
    BY <2>5
<1> HIDE DEF T
<1>3. \A n \in Nat : n \in T
  BY <1>1, <1>2, Upward
<1>4. QED
  BY <1>3 DEF T

P == Power2[ByteBits]

\* The places of four octets.
LEMMA Bases ==
  /\ P \in Nat \ {0} /\ P * P \in Nat \ {0} /\ P * (P * P) \in Nat \ {0}
  /\ Power2[(1 - 1) * ByteBits] = 1 /\ Power2[(2 - 1) * ByteBits] = P
  /\ Power2[(3 - 1) * ByteBits] = P * P /\ Power2[(4 - 1) * ByteBits] = P * (P * P)
  /\ Power2[4 * ByteBits] = P * (P * (P * P)) /\ Low * High = P * (P * (P * P))
  /\ Octet = 0..P - 1
<1> DEFINE b == ByteBits
<1>1. /\ b \in Nat /\ (1 - 1) * b = 0 /\ (2 - 1) * b = b /\ (3 - 1) * b = b + b
      /\ (4 - 1) * b = b + (b + b) /\ 4 * b = b + (b + (b + b))
      /\ b + b \in Nat /\ b + (b + b) \in Nat
  BY Width
<1>2. P \in Nat \ {0} /\ Power2[0] = 1
  BY Power2OK, Width DEF P
<1>3. Power2[b + b] = P * P
  BY <1>1, Power2Add DEF P
<1>4. Power2[b + (b + b)] = P * (P * P)
  BY <1>1, <1>3, Power2Add DEF P
<1>5. Power2[b + (b + (b + b))] = P * (P * (P * P))
  BY <1>1, <1>4, Power2Add DEF P
<1>6. Power2[(2 - 1) * b] = P
  BY <1>1 DEF P
<1>7. \A x, y \in Nat \ {0} : x * y \in Nat \ {0}
  OBVIOUS
<1> HIDE DEF b
<1>8. P * P \in Nat \ {0} /\ P * (P * P) \in Nat \ {0}
  BY <1>2, <1>7
<1>9. QED
  BY <1>1, <1>2, <1>3, <1>4, <1>5, <1>6, <1>8, FormatAssumption DEF b, Octet, P

\* Four digits.
Digits(p) == p[1] + P * (p[2] + P * (p[3] + P * p[4]))

LEMMA DecodeIs ==
  ASSUME NEW p, p[1] \in Octet, p[2] \in Octet, p[3] \in Octet, p[4] \in Octet
  PROVE  DecodeFixed32(p) = Digits(p) /\ DecodeFixed32(p) \in Nat
<1>1. DecodeFixed32(p) = p[1] * 1 + p[2] * P + p[3] * (P * P) + p[4] * (P * (P * P))
  BY Bases DEF DecodeFixed32
<1>2. P \in Nat /\ p[1] \in Nat /\ p[2] \in Nat /\ p[3] \in Nat /\ p[4] \in Nat
  BY Bases
<1>3. \A x, a, b, c, d \in Nat :
        /\ a * 1 + b * x + c * (x * x) + d * (x * (x * x)) = a + x * (b + x * (c + x * d))
        /\ a + x * (b + x * (c + x * d)) \in Nat
  OBVIOUS
<1> HIDE DEF P
<1>4. QED
  BY <1>1, <1>2, <1>3 DEF Digits

\* A bound of quotients.
LEMMA QuotientBelow ==
  ASSUME NEW v \in Nat, NEW a \in Nat \ {0}, NEW c \in Nat, v < a * c
  PROVE  v \div a < c
<1>1. v \div a \in Nat /\ v % a \in 0..a - 1 /\ v = a * (v \div a) + (v % a)
  BY Division
<1> DEFINE q == v \div a
<1>2. ASSUME q >= c PROVE FALSE
  <2>1. a * q >= a * c
    BY <1>1, <1>2
  <2>2. a * q \in Nat /\ a * c \in Nat
    BY <1>1
  <2>3. QED
    BY <1>1, <2>1, <2>2
<1>3. QED
  BY <1>1, <1>2

\* What is stored is read.
LEMMA FixedOK ==
  ASSUME NEW n \in 0..Low * High - 1
  PROVE  /\ EncodeFixed32(n) \in Seq(Octet) /\ Len(EncodeFixed32(n)) = 4
         /\ DecodeFixed32(EncodeFixed32(n)) = n
<1> DEFINE e == EncodeFixed32(n)
           n1 == n \div P
           n2 == n1 \div P
           n3 == n2 \div P
<1>0. P \in Nat \ {0} /\ n \in Nat /\ n < P * (P * (P * P)) /\ P * P \in Nat \ {0} /\ P * (P * P) \in Nat \ {0}
  BY Bases
<1>1. n1 \in Nat /\ n % P \in 0..P - 1 /\ n = P * n1 + (n % P) /\ n1 < P * (P * P)
  BY <1>0, Division, QuotientBelow
<1>2. n2 \in Nat /\ n1 % P \in 0..P - 1 /\ n1 = P * n2 + (n1 % P) /\ n2 < P * P
  <2> HIDE DEF n1
  <2>1. QED
    BY <1>0, <1>1, Division, QuotientBelow
<1>3. n3 \in Nat /\ n2 % P \in 0..P - 1 /\ n2 = P * n3 + (n2 % P) /\ n3 < P
  <2> HIDE DEF n2
  <2>1. QED
    BY <1>0, <1>2, Division, QuotientBelow
<1>4. n \div (P * P) = n2 /\ n \div (P * (P * P)) = n3
  <2>0. /\ \A v \in Nat, a, c \in Nat \ {0} : (v \div a) \div c = v \div (a * c)
        /\ n \in Nat /\ P \in Nat \ {0} /\ P * P \in Nat \ {0}
    BY <1>0, Twice
  <2>1. (n \div P) \div P = n \div (P * P)
    BY ONLY <2>0
  <2>2. (n \div P) \div (P * P) = n \div (P * (P * P))
    BY ONLY <2>0
  <2>3. (n1 \div P) \div P = n1 \div (P * P)
    <3> HIDE DEF n1
    <3>1. n1 \in Nat
      BY <1>1
    <3>2. QED
      BY ONLY <2>0, <3>1
  <2>4. QED
    BY <2>1, <2>2, <2>3
<1>5. n \div 1 = n /\ n3 % P = n3
  <2>1. n \div 1 = n
    BY <1>0
  <2>2. \A x, y \in Nat : x < y => x % y = x
    OBVIOUS
  <2> HIDE DEF n3
  <2>3. n3 % P = n3
    BY <1>0, <1>3, <2>2
  <2>4. QED
    BY <2>1, <2>3
<1> HIDE DEF n1, n2, n3
<1>6. /\ e = [i \in 1..4 |-> (n \div Power2[(i - 1) * ByteBits]) % P]
  BY DEF EncodeFixed32, P
<1>7. e[1] = n % P /\ e[2] = n1 % P /\ e[3] = n2 % P /\ e[4] = n3
  <2>1. 1 \in 1..4 /\ 2 \in 1..4 /\ 3 \in 1..4 /\ 4 \in 1..4
    OBVIOUS
  <2>2. /\ e[1] = (n \div Power2[(1 - 1) * ByteBits]) % P
        /\ e[2] = (n \div Power2[(2 - 1) * ByteBits]) % P
        /\ e[3] = (n \div Power2[(3 - 1) * ByteBits]) % P
        /\ e[4] = (n \div Power2[(4 - 1) * ByteBits]) % P
    BY <1>6, <2>1
  <2>3. e[1] = (n \div 1) % P /\ e[2] = n1 % P /\ e[3] = (n \div (P * P)) % P
        /\ e[4] = (n \div (P * (P * P))) % P
    BY <2>2, Bases DEF n1
  <2> HIDE DEF e
  <2>4. QED
    BY <1>4, <1>5, <2>3
<1>8. e[1] \in Octet /\ e[2] \in Octet /\ e[3] \in Octet /\ e[4] \in Octet
  BY <1>1, <1>2, <1>3, <1>7, Bases
<1>9. e \in Seq(Octet) /\ Len(e) = 4
  <2>1. e \in [1..4 -> Octet]
    <3>1. e = [i \in 1..4 |-> e[i]]
      BY <1>6
    <3>2. \A i \in 1..4 : i = 1 \/ i = 2 \/ i = 3 \/ i = 4
      OBVIOUS
    <3>3. \A i \in 1..4 : e[i] \in Octet
      BY <1>8, <3>2
    <3> HIDE DEF e
    <3>4. QED
      BY <3>1, <3>3
  <2> HIDE DEF e
  <2>2. e \in Seq(Octet)
    <3>1. \E m \in Nat : e \in [1..m -> Octet]
      BY <2>1
    <3>2. QED
      BY ONLY <3>1, SeqDef
  <2>3. Len(e) \in Nat /\ DOMAIN e = 1..Len(e) /\ DOMAIN e = 1..4
    BY <2>1, <2>2, LenProperties
  <2>4. Len(e) = 4
    <3>1. \A i : i \in 1..Len(e) <=> i \in 1..4
      BY <2>3
    <3>2. QED
      BY <2>3, <3>1
  <2>5. QED
    BY <2>2, <2>4
<1>10. DecodeFixed32(e) = n
  <2>1. DecodeFixed32(e) = Digits(e)
    <3> HIDE DEF e
    <3>1. QED
      BY <1>8, DecodeIs
  <2> HIDE DEF e
  <2>2. Digits(e) = (n % P) + P * ((n1 % P) + P * ((n2 % P) + P * n3))
    BY <1>7 DEF Digits
  <2>3. \A x, y \in Int : x + y = y + x
    OBVIOUS
  <2>4. (n2 % P) + P * n3 = n2
    BY <1>0, <1>3, <2>3
  <2>5. (n1 % P) + P * n2 = n1
    BY <1>0, <1>2, <2>3
  <2>6. (n % P) + P * n1 = n
    BY <1>0, <1>1, <2>3
  <2>7. QED
    BY ONLY <2>1, <2>2, <2>4, <2>5, <2>6
<1>11. QED
  BY <1>9, <1>10

-----------------------------------------------------------------------------
(* What a trailer stores.                                                  *)

\* A function on 1..n is a sequence.
LEMMA SequenceIs ==
  ASSUME NEW S, NEW n \in Nat, NEW f \in [1..n -> S]
  PROVE  f \in Seq(S) /\ Len(f) = n
<1>1. f \in Seq(S)
  <2>1. \E m \in Nat : f \in [1..m -> S]
    OBVIOUS
  <2>2. QED
    BY ONLY <2>1, SeqDef
<1>2. Len(f) \in Nat /\ DOMAIN f = 1..Len(f) /\ DOMAIN f = 1..n
  BY <1>1, LenProperties
<1> DEFINE l == Len(f)
<1>3. l \in Nat /\ 1..l = 1..n
  BY <1>2
<1> HIDE DEF l
<1>4. (l >= 1 => l \in 1..n) /\ (n >= 1 => n \in 1..l)
  BY <1>3
<1>5. l = n
  BY <1>3, <1>4
<1>6. QED
  BY <1>1, <1>5 DEF l

\* Four octets are told by their number.
LEMMA DecodeTells ==
  ASSUME NEW p, NEW q, \A i \in 1..4 : p[i] \in Octet /\ q[i] \in Octet,
         DecodeFixed32(p) = DecodeFixed32(q)
  PROVE  \A i \in 1..4 : p[i] = q[i]
<1>1. /\ p[1] \in 0..P - 1 /\ p[2] \in 0..P - 1 /\ p[3] \in 0..P - 1 /\ p[4] \in 0..P - 1
      /\ q[1] \in 0..P - 1 /\ q[2] \in 0..P - 1 /\ q[3] \in 0..P - 1 /\ q[4] \in 0..P - 1
      /\ P \in Nat \ {0}
  BY Bases
<1>2. Digits(p) = Digits(q)
  BY DecodeIs
<1>3. ASSUME NEW a \in 0..P - 1, NEW b \in 0..P - 1, NEW x \in Nat, NEW y \in Nat,
             a + P * x = b + P * y
      PROVE  a = b /\ x = y
  <2>1. x * P + a = y * P + b
    <3>1. \A c, d \in Nat : c + P * d = d * P + c
      BY <1>1
    <3>2. a \in Nat /\ b \in Nat
      BY <1>1
    <3>3. QED
      BY <1>3, <3>1, <3>2
  <2>2. x \in Int /\ y \in Int
    OBVIOUS
  <2>3. (x * P + a) \div P = x /\ (x * P + a) % P = a
    BY <1>1, <2>2, Quotient
  <2>4. (y * P + b) \div P = y /\ (y * P + b) % P = b
    BY <1>1, <2>2, Quotient
  <2>5. QED
    BY <2>1, <2>3, <2>4
<1> DEFINE a1 == p[1]
           a2 == p[2]
           a3 == p[3]
           a4 == p[4]
           b1 == q[1]
           b2 == q[2]
           b3 == q[3]
           b4 == q[4]
           x3 == a3 + P * a4
           y3 == b3 + P * b4
           x2 == a2 + P * x3
           y2 == b2 + P * y3
<1>4. a1 + P * x2 = b1 + P * y2
  BY <1>2 DEF Digits
<1>5. \A x, y \in Nat : x + P * y \in Nat
  BY <1>1
<1>6. x3 \in Nat /\ y3 \in Nat
  BY <1>1, <1>5
<1>7. x2 \in Nat /\ y2 \in Nat
  <2> HIDE DEF x3, y3
  <2>1. QED
    BY <1>1, <1>5, <1>6
<1>8. a1 = b1 /\ x2 = y2
  <2>1. a1 \in 0..P - 1 /\ b1 \in 0..P - 1
    BY <1>1
  <2> HIDE DEF a1, b1, x2, y2
  <2>2. QED
    BY ONLY <1>3, <1>4, <1>7, <2>1
<1>9. a2 = b2 /\ x3 = y3
  <2>1. a2 \in 0..P - 1 /\ b2 \in 0..P - 1
    BY <1>1
  <2>2. a2 + P * x3 = b2 + P * y3
    BY <1>8
  <2> HIDE DEF a2, b2, x3, y3
  <2>3. QED
    BY ONLY <1>3, <1>6, <2>1, <2>2
<1>10. a3 = b3 /\ a4 = b4
  BY <1>1, <1>3, <1>9
<1>11. \A i \in 1..4 : i = 1 \/ i = 2 \/ i = 3 \/ i = 4
  OBVIOUS
<1>12. QED
  BY <1>8, <1>9, <1>10, <1>11

\* Four octets are a word.
LEMMA DecodeBound ==
  ASSUME NEW p, \A i \in 1..4 : p[i] \in Octet
  PROVE  DecodeFixed32(p) \in 0..Low * High - 1
<1>1. P \in Nat \ {0} /\ \A i \in 1..4 : p[i] \in 0..P - 1
  BY Bases
<1>2. ASSUME NEW a \in 0..P - 1, NEW m \in Nat \ {0}, NEW x \in 0..m - 1
      PROVE  a + P * x \in 0..P * m - 1
  <2>1. P * x <= P * (m - 1)
    BY <1>1
  <2>2. P * (m - 1) = P * m - P
    BY <1>1
  <2>3. P * x \in Nat /\ P * m \in Nat
    BY <1>1
  <2>4. QED
    BY <1>1, <2>1, <2>2, <2>3
<1> DEFINE x3 == p[3] + P * p[4]
           x2 == p[2] + P * x3
           x1 == p[1] + P * x2
<1>3. P * P \in Nat \ {0} /\ P * (P * P) \in Nat \ {0}
  BY Bases
<1>4. p[1] \in 0..P - 1 /\ p[2] \in 0..P - 1 /\ p[3] \in 0..P - 1 /\ p[4] \in 0..P - 1
  BY <1>1
<1>5. x3 \in 0..P * P - 1
  BY <1>1, <1>2, <1>4
<1>6. x2 \in 0..P * (P * P) - 1
  <2> HIDE DEF x3
  <2>1. QED
    BY <1>2, <1>3, <1>4, <1>5
<1>7. x1 \in 0..P * (P * (P * P)) - 1
  <2> HIDE DEF x2
  <2>1. QED
    BY <1>2, <1>3, <1>4, <1>6
<1>8. DecodeFixed32(p) = x1
  <2>1. DecodeFixed32(p) = Digits(p)
    BY <1>1, DecodeIs, Bases
  <2>2. QED
    BY <2>1, Zenon DEF Digits
<1> HIDE DEF x1
<1>9. QED
  BY <1>7, <1>8, Bases

\* What is masked is a word.
LEMMA MaskBound == \A crc \in Nat : Mask(crc) \in 0..Low * High - 1
<1> SUFFICES ASSUME NEW crc \in Nat PROVE Mask(crc) \in 0..Low * High - 1
  OBVIOUS
<1> DEFINE W == Low * High
           x == (crc \div Low) + (crc % Low) * High + kMaskDelta
<1>1. W \in Nat \ {0} /\ Low \in Nat \ {0} /\ High \in Nat /\ kMaskDelta \in Nat
  BY MaskAssumption
<1>2. crc \div Low \in Nat /\ crc % Low \in Nat
  BY <1>1, Division
<1>3. (crc % Low) * High \in Nat
  BY <1>1, <1>2
<1>4. x \in Nat
  BY <1>1, <1>2, <1>3
<1>5. Mask(crc) = x % W
  BY DEF Mask
<1> HIDE DEF x, W
<1>6. QED
  BY <1>1, <1>4, <1>5, Division DEF W

\* Unmask does not map two numbers of a word to one.
LEMMA UnmaskInjective ==
  ASSUME NEW x \in 0..Low * High - 1, NEW y \in 0..Low * High - 1, Unmask(x) = Unmask(y)
  PROVE  x = y
<1> DEFINE W == Low * High
           rx == (x - kMaskDelta) % W
           ry == (y - kMaskDelta) % W
<1>1. W \in Nat \ {0} /\ Low \in Nat \ {0} /\ High \in Nat \ {0} /\ kMaskDelta \in 0..W - 1
      /\ W = High * Low /\ x \in 0..W - 1 /\ y \in 0..W - 1
  BY MaskAssumption
<1>2. (rx \div High) + (rx % High) * Low = (ry \div High) + (ry % High) * Low
  BY DEF Unmask
<1> HIDE DEF W
<1>3. ASSUME NEW z \in 0..W - 1
      PROVE  /\ (z - kMaskDelta) % W \in 0..W - 1
             /\ z = IF kMaskDelta + ((z - kMaskDelta) % W) < W
                    THEN kMaskDelta + ((z - kMaskDelta) % W)
                    ELSE kMaskDelta + ((z - kMaskDelta) % W) - W
  <2>1. CASE z >= kMaskDelta
    <3> DEFINE t == z - kMaskDelta
    <3>1. t \in 0..W - 1 /\ 0 \in Int
      BY <1>1, <2>1
    <3>2. (0 * W + t) % W = t
      <4> HIDE DEF t
      <4>1. QED
        BY <1>1, <3>1, Quotient
    <3>3. 0 * W + t = t
      BY <1>1, <3>1
    <3>4. (z - kMaskDelta) % W = z - kMaskDelta
      BY <3>2, <3>3, Zenon
    <3>5. QED
      BY <1>1, <3>1, <3>4
  <2>2. CASE z < kMaskDelta
    <3> DEFINE t == z - kMaskDelta + W
    <3>1. t \in 0..W - 1 /\ -1 \in Int
      BY <1>1, <2>2
    <3>2. ((-1) * W + t) % W = t
      <4> HIDE DEF t
      <4>1. QED
        BY <1>1, <3>1, Quotient
    <3>3. (-1) * W + t = z - kMaskDelta
      BY <1>1, <3>1
    <3>4. (z - kMaskDelta) % W = z - kMaskDelta + W
      BY <3>2, <3>3
    <3>5. QED
      BY <1>1, <2>2, <3>1, <3>4
  <2>3. QED
    BY <1>1, <2>1, <2>2
<1>4. rx \in 0..W - 1 /\ ry \in 0..W - 1
  BY <1>1, <1>3
<1>5. ASSUME NEW z \in 0..W - 1
      PROVE  /\ z \div High \in 0..Low - 1 /\ z % High \in 0..High - 1
             /\ z = High * (z \div High) + (z % High)
  <2>1. z \in Nat /\ z < High * Low
    BY <1>1
  <2>2. z \div High \in Nat /\ z \div High < Low
    BY <1>1, <2>1, Division, QuotientBelow
  <2>3. QED
    BY <1>1, <2>1, <2>2, Division
<1> HIDE DEF rx, ry
<1>6. rx \div High = ry \div High /\ rx % High = ry % High
  <2> DEFINE a == rx \div High
             b == ry \div High
             c == rx % High
             d == ry % High
  <2>1. a \in 0..Low - 1 /\ b \in 0..Low - 1 /\ c \in Int /\ d \in Int
    <3>1. a \in 0..Low - 1 /\ c \in 0..High - 1
      BY <1>4, <1>5
    <3>2. b \in 0..Low - 1 /\ d \in 0..High - 1
      BY <1>4, <1>5
    <3> HIDE DEF a, b, c, d
    <3>3. QED
      BY <1>1, <3>1, <3>2
  <2>2. a + c * Low = b + d * Low
    BY <1>2
  <2> HIDE DEF a, b, c, d
  <2>3. c * Low + a = d * Low + b
    <3>1. c * Low \in Int /\ d * Low \in Int
      BY <1>1, <2>1
    <3>2. QED
      BY <1>1, <2>1, <2>2, <3>1
  <2>4. (c * Low + a) \div Low = c /\ (c * Low + a) % Low = a
    BY <1>1, <2>1, Quotient
  <2>5. (d * Low + b) \div Low = d /\ (d * Low + b) % Low = b
    BY <1>1, <2>1, Quotient
  <2>6. QED
    BY <2>3, <2>4, <2>5 DEF a, b, c, d
<1>7. rx = ry
  BY <1>4, <1>5, <1>6, Zenon
<1>8. QED
  BY <1>1, <1>3, <1>7 DEF rx, ry

\* What a trailer stores of a checksum.
LEMMA StoredOK ==
  ASSUME NEW w \in Register
  PROVE  LET stored == EncodeFixed32(Mask(Number(w)))
         IN /\ stored \in Seq(Octet) /\ Len(stored) = 4
            /\ Unmask(DecodeFixed32(stored)) = Number(w)
<1>1. Number(w) \in 0..Low * High - 1
  BY NumberBound, FormatAssumption
<1>2. Number(w) \in Nat
  BY <1>1, MaskAssumption
<1>3. Mask(Number(w)) \in 0..Low * High - 1
  BY <1>2, MaskBound
<1>4. Unmask(Mask(Number(w))) = Number(w)
  BY <1>1, MaskInverts
<1>5. QED
  BY <1>3, <1>4, FixedOK

\* An octet with one of its bits the other way.
LEMMA FlipOK ==
  ASSUME NEW b \in Octet, NEW i \in 0..ByteBits - 1
  PROVE  LET c == IF i \in Bits[b] THEN b - Power2[i] ELSE b + Power2[i]
         IN c \in Octet /\ c # b
<1> DEFINE p == Power2[i]
           q == b \div p
           r == b % p
           m == Power2[ByteBits - i - 1]
<1>1. ByteBits \in Nat /\ i \in Nat /\ ByteBits - i - 1 \in Nat /\ b \in Nat
  BY Width, Bases
<1>2. /\ p \in Nat \ {0} /\ m \in Nat \ {0}
      /\ Power2[(ByteBits - i - 1) + 1] = 2 * m
  BY <1>1, Power2OK
<1>3. P = p * (2 * m)
  <2>1. i + ((ByteBits - i - 1) + 1) = ByteBits /\ (ByteBits - i - 1) + 1 \in Nat
    BY <1>1
  <2>2. Power2[i + ((ByteBits - i - 1) + 1)] = p * Power2[(ByteBits - i - 1) + 1]
    BY <1>1, <2>1, Power2Add
  <2>3. QED
    BY <1>2, <2>1, <2>2 DEF P
<1>4. b < P
  BY Bases
<1>5. i \in Bits[b] <=> q % 2 = 1
  BY DEF Bits
<1> HIDE DEF p, m, P
<1>6. q \in Nat /\ r \in 0..p - 1 /\ b = p * q + r /\ q < 2 * m
  <2>1. 2 * m \in Nat /\ b < p * (2 * m)
    BY <1>2, <1>3, <1>4
  <2>2. QED
    BY <1>1, <1>2, <2>1, Division, QuotientBelow
<1> HIDE DEF q, r
<1>7. CASE q % 2 = 1
  <2>1. q >= 1
    BY <1>6, <1>7
  <2>2. p * q >= p
    BY <1>2, <1>6, <2>1
  <2>3. p * q \in Nat
    BY <1>2, <1>6
  <2>4. b - p \in 0..P - 1 /\ b - p # b
    <3> DEFINE y == p * q
    <3>1. y \in Nat /\ y >= p /\ b = y + r
      BY <1>6, <2>2, <2>3
    <3>2. p \in Nat \ {0} /\ r \in Nat /\ P \in Nat /\ b \in Nat /\ b < P
      BY <1>1, <1>2, <1>4, <1>6, Bases
    <3> HIDE DEF y
    <3>3. b - p \in 0..P - 1 /\ b - p # b
      BY ONLY <3>1, <3>2
    <3>4. QED
      BY <3>3
  <2>5. QED
    BY <1>5, <1>7, <2>4, Bases DEF p
<1>8. CASE ~(q % 2 = 1)
  <2>1. q + 1 < 2 * m
    BY <1>2, <1>6, <1>8
  <2>2. p * (q + 2) <= p * (2 * m)
    <3>1. q + 2 <= 2 * m
      BY <1>2, <1>6, <2>1
    <3>2. QED
      BY <1>2, <1>6, <3>1
  <2>3. p * (q + 2) = p * q + p + p /\ p * q \in Nat
    BY <1>2, <1>6
  <2>4. b + p \in 0..P - 1 /\ b + p # b
    <3>1. P \in Nat
      BY Bases
    <3>2. QED
      BY <1>1, <1>2, <1>3, <1>6, <2>2, <2>3, <3>1
  <2>5. QED
    BY <1>5, <1>8, <2>4, Bases DEF p
<1>9. QED
  BY <1>7, <1>8

-----------------------------------------------------------------------------
(* What the items are written as.                                          *)

\* Octets are numbers.
LEMMA OctetsOK == ASSUME NEW p \in Seq(Octet) PROVE p \in Seq(Nat)
<1>1. \A c \in Octet : c \in Nat
  BY Bases
<1>2. Len(p) \in Nat /\ p \in [1..Len(p) -> Octet]
  BY LenProperties
<1>3. p \in [1..Len(p) -> Nat]
  BY <1>1, <1>2
<1>4. \E n \in Nat : p \in [1..n -> Nat]
  BY <1>2, <1>3
<1>5. QED
  BY ONLY <1>4, SeqDef

\* One sequence behind the other.
LEMMA Joined ==
  ASSUME NEW S, NEW p \in Seq(S), NEW q \in Seq(S)
  PROVE  /\ Len(p) \in Nat /\ Len(q) \in Nat
         /\ p \o q \in Seq(S) /\ Len(p \o q) = Len(p) + Len(q)
         /\ \A i \in 1..Len(p) : (p \o q)[i] = p[i]
         /\ \A i \in 1..Len(q) : (p \o q)[Len(p) + i] = q[i]
<1>1. Len(p) \in Nat /\ Len(q) \in Nat
  BY LenProperties
<1>2. QED
  BY <1>1, ConcatProperties

LEMMA JoinedLength ==
  ASSUME NEW S, NEW p \in Seq(S), NEW q \in Seq(S)
  PROVE  p \o q \in Seq(S) /\ Len(p \o q) = Len(p) + Len(q)
<1>1. QED
  BY Joined

\* The kinds of items, and what they are written as.
LEMMA KindsOK ==
  ASSUME NEW item \in Item
  PROVE  \/ /\ item \in [word : Word] /\ Has(item, "word") /\ item = [word |-> item.word]
            /\ ~Has(item, "slice") /\ ~Has(item, "block") /\ ~Has(item, "footer")
            /\ item.word \in Word
         \/ /\ item \in [slice : Slices] /\ Has(item, "slice") /\ item = [slice |-> item.slice]
            /\ ~Has(item, "word") /\ ~Has(item, "block") /\ ~Has(item, "footer")
            /\ item.slice \in Slices
         \/ /\ Has(item, "block") /\ item = [block |-> item.block, type |-> item.type]
            /\ ~Has(item, "word") /\ ~Has(item, "slice") /\ ~Has(item, "footer")
            /\ item.block \in Blocks \cup {<< >>} /\ item.type \in Types
         \/ /\ Has(item, "footer") /\ item = [footer |-> item.footer]
            /\ ~Has(item, "word") /\ ~Has(item, "slice") /\ ~Has(item, "block")
            /\ item.footer \in Handles \X Handles
<1>1. CASE item \in [word : Word]
  BY <1>1 DEF Has
<1>2. CASE item \in [slice : Slices]
  BY <1>2 DEF Has
<1>3. CASE item \in [block : Blocks \cup {<< >>}, type : Types]
  BY <1>3 DEF Has
<1>4. CASE item \in [footer : Handles \X Handles]
  BY <1>4 DEF Has
<1>5. QED
  BY <1>1, <1>2, <1>3, <1>4, Zenon DEF Item

LEMMA CodeIs ==
  ASSUME NEW item \in Item
  PROVE  /\ Has(item, "word") => Code(item) = EncodeVarint32(item.word)
         /\ Has(item, "slice") => Code(item) = EncodeVarint32(Len(item.slice)) \o item.slice
         /\ Has(item, "block") => Code(item) = item.block \o Trailer(item.block, item.type)
         /\ Has(item, "footer") => Code(item) = EncodeFooter(item.footer[1], item.footer[2])
<1> DEFINE word == Has(item, "word")
           slice == Has(item, "slice")
           block == Has(item, "block")
           foot == Has(item, "footer")
<1>1. \/ word /\ ~slice /\ ~block /\ ~foot
      \/ slice /\ ~word /\ ~block /\ ~foot
      \/ block /\ ~word /\ ~slice /\ ~foot
      \/ foot /\ ~word /\ ~slice /\ ~block
  BY KindsOK, Zenon
<1>2. Code(item) = CASE word -> EncodeVarint32(item.word)
                     [] slice -> EncodeVarint32(Len(item.slice)) \o item.slice
                     [] block -> item.block \o Trailer(item.block, item.type)
                     [] foot -> EncodeFooter(item.footer[1], item.footer[2])
  BY DEF Code
<1> HIDE DEF word, slice, block, foot
<1>3. ASSUME word, ~slice, ~block, ~foot PROVE Code(item) = EncodeVarint32(item.word)
  BY <1>2, <1>3
<1>4. ASSUME slice, ~word, ~block, ~foot
      PROVE  Code(item) = EncodeVarint32(Len(item.slice)) \o item.slice
  BY <1>2, <1>4
<1>5. ASSUME block, ~word, ~slice, ~foot
      PROVE  Code(item) = item.block \o Trailer(item.block, item.type)
  BY <1>2, <1>5
<1>6. ASSUME foot, ~word, ~slice, ~block
      PROVE  Code(item) = EncodeFooter(item.footer[1], item.footer[2])
  BY <1>2, <1>6
<1>7. QED
  BY <1>1, <1>3, <1>4, <1>5, <1>6 DEF word, slice, block, foot

\* The trailer of a block: its type, and the checksum as it is stored.
Stored(data, type) == EncodeFixed32(Mask(Number(Checksum(Append(data, type)))))

LEMMA TrailerIs ==
  ASSUME NEW data \in Seq(Octet), NEW type \in Octet
  PROVE  /\ Append(data, type) \in Seq(Octet) /\ Checksum(Append(data, type)) \in Register
         /\ Stored(data, type) \in Seq(Octet) /\ Len(Stored(data, type)) = 4
         /\ Unmask(DecodeFixed32(Stored(data, type))) = Number(Checksum(Append(data, type)))
         /\ Trailer(data, type) \in Seq(Octet) /\ Len(Trailer(data, type)) = 5
         /\ Trailer(data, type)[1] = type
         /\ \A i \in 1..4 : Trailer(data, type)[1 + i] = Stored(data, type)[i]
<1> DEFINE w == Checksum(Append(data, type))
<1>1. Append(data, type) \in Seq(Octet)
  OBVIOUS
<1>2. w \in Register
  BY <1>1, ChecksumRegister
<1> DEFINE s == Stored(data, type)
<1>3. s \in Seq(Octet) /\ Len(s) = 4 /\ Unmask(DecodeFixed32(s)) = Number(w)
  BY <1>2, StoredOK DEF Stored
<1>4. Trailer(data, type) = <<type>> \o s
  BY DEF Trailer, Stored
<1> HIDE DEF s, w
<1>5. <<type>> \in Seq(Octet) /\ Len(<<type>>) = 1 /\ <<type>>[1] = type
  OBVIOUS
<1>6. /\ <<type>> \o s \in Seq(Octet) /\ Len(<<type>> \o s) = 1 + 4
      /\ \A i \in 1..1 : (<<type>> \o s)[i] = <<type>>[i]
      /\ \A i \in 1..4 : (<<type>> \o s)[1 + i] = s[i]
  <2> DEFINE t == <<type>>
  <2>1. t \in Seq(Octet) /\ Len(t) = 1
    BY <1>5
  <2> HIDE DEF t
  <2>2. /\ t \o s \in Seq(Octet) /\ Len(t \o s) = Len(t) + Len(s)
        /\ \A i \in 1..Len(t) : (t \o s)[i] = t[i]
        /\ \A i \in 1..Len(s) : (t \o s)[Len(t) + i] = s[i]
    <3>1. t \in Seq(Octet) /\ s \in Seq(Octet)
      BY <1>3, <2>1
    <3>2. t \o s \in Seq(Octet) /\ Len(t \o s) = Len(t) + Len(s)
      BY <3>1, Joined
    <3>3. \A i \in 1..Len(t) : (t \o s)[i] = t[i]
      BY <3>1, Joined
    <3>4. \A i \in 1..Len(s) : (t \o s)[Len(t) + i] = s[i]
      BY <3>1, Joined
    <3>5. QED
      BY <3>2, <3>3, <3>4
  <2>3. QED
    BY <1>3, <2>1, <2>2 DEF t
<1> DEFINE t == Trailer(data, type)
<1>7. t \in Seq(Octet) /\ Len(t) = 5
  BY <1>4, <1>6
<1>8. t[1] = type
  <2>1. (<<type>> \o s)[1] = <<type>>[1]
    BY <1>6
  <2>2. QED
    BY <1>4, <1>5, <2>1
<1>9. \A i \in 1..4 : t[1 + i] = s[i]
  BY <1>4, <1>6
<1> HIDE DEF t
<1>10. /\ w \in Register
       /\ s \in Seq(Octet) /\ Len(s) = 4 /\ Unmask(DecodeFixed32(s)) = Number(w)
       /\ t \in Seq(Octet) /\ Len(t) = 5 /\ t[1] = type
       /\ \A i \in 1..4 : t[1 + i] = s[i]
  BY <1>2, <1>3, <1>7, <1>8, <1>9
<1>11. QED
  BY <1>1, <1>10 DEF s, t, w

\* The types are octets.
LEMMA ZeroOneOctets == {0, 1} \subseteq Octet
<1>1. P \in Nat \ {0} /\ Octet = 0..P - 1 /\ P = 2 * B /\ B \in Nat /\ B >= 2
  BY Bases, FormatAssumption, CodingAssumption DEF P
<1>2. QED
  BY ONLY <1>1

\* A block and its trailer.
LEMMA BlockOK ==
  ASSUME NEW item \in Item, Has(item, "block")
  PROVE  LET data == item.block
             type == item.type
             n == Len(data)
         IN /\ data \in Seq(Octet) /\ type \in Octet /\ type \in {0, 1} /\ type \in Types /\ n \in Nat
            /\ item = [block |-> data, type |-> type]
            /\ Code(item) = data \o Trailer(data, type)
            /\ Code(item) \in Seq(Octet) /\ Len(Code(item)) = n + 5
            /\ \A m \in 1..n : Code(item)[m] = data[m]
            /\ Code(item)[n + 1] = type
            /\ \A i \in 1..4 : Code(item)[n + 1 + i] = Stored(data, type)[i]
<1> DEFINE data == item.block
           type == item.type
           n == Len(data)
           t == Trailer(data, type)
<1>1. /\ item = [block |-> data, type |-> type] /\ data \in Blocks \cup {<< >>} /\ type \in Types
      /\ ~Has(item, "word") /\ ~Has(item, "slice")
  BY KindsOK, Zenon
<1>2. type \in {0, 1} /\ type \in Octet /\ data \in Seq(Octet)
  <2>1. type \in {0, 1}
    BY <1>1, FormatAssumption
  <2>2. data \in Seq(Octet)
    <3>1. Blocks \subseteq Seq(Octet) /\ << >> \in Seq(Octet)
      BY FormatAssumption, EmptySeq
    <3>2. data \in Blocks \/ data = << >>
      BY <1>1
    <3> HIDE DEF data
    <3>3. QED
      BY <3>1, <3>2
  <2>3. {0, 1} \subseteq Octet
    BY ZeroOneOctets
  <2>4. QED
    BY <2>1, <2>2, <2>3
<1>3. n \in Nat
  BY <1>2, LenProperties
<1>4. Code(item) = data \o t
  BY CodeIs
<1>5. t \in Seq(Octet) /\ Len(t) = 5 /\ t[1] = type /\ \A i \in 1..4 : t[1 + i] = Stored(data, type)[i]
  BY <1>2, TrailerIs
<1>6. type \in Types
  BY <1>1
<1> HIDE DEF data, type, t
<1>8. /\ data \o t \in Seq(Octet) /\ Len(data \o t) = n + 5
      /\ \A i \in 1..n : (data \o t)[i] = data[i]
      /\ \A i \in 1..5 : (data \o t)[n + i] = t[i]
  <2>1. data \in Seq(Octet) /\ t \in Seq(Octet) /\ Len(t) = 5
    BY <1>2, <1>5, Zenon
  <2> HIDE DEF n
  <2>2. /\ data \o t \in Seq(Octet) /\ Len(data \o t) = Len(data) + Len(t)
        /\ \A i \in 1..Len(data) : (data \o t)[i] = data[i]
        /\ \A i \in 1..Len(t) : (data \o t)[Len(data) + i] = t[i]
    <3>0. data \in Seq(Octet) /\ t \in Seq(Octet)
      BY <2>1
    <3>1. data \o t \in Seq(Octet) /\ Len(data \o t) = Len(data) + Len(t)
      BY <3>0, Joined
    <3>2. \A i \in 1..Len(data) : (data \o t)[i] = data[i]
      BY <3>0, Joined
    <3>3. \A i \in 1..Len(t) : (data \o t)[Len(data) + i] = t[i]
      BY <3>0, Joined
    <3>4. QED
      BY <3>1, <3>2, <3>3
  <2>3. QED
    BY <2>1, <2>2 DEF n
<1> HIDE DEF n
<1>9. (data \o t)[n + 1] = type
  <2>1. 1 \in 1..5
    OBVIOUS
  <2>2. QED
    BY <1>5, <1>8, <2>1
<1>10. \A i \in 1..4 : (data \o t)[n + 1 + i] = Stored(data, type)[i]
  <2> SUFFICES ASSUME NEW i \in 1..4 PROVE (data \o t)[n + 1 + i] = Stored(data, type)[i]
    OBVIOUS
  <2>1. 1 + i \in 1..5 /\ n + 1 + i = n + (1 + i)
    BY <1>3
  <2>2. QED
    BY <1>5, <1>8, <2>1
<1>11. QED
  BY <1>1, <1>2, <1>3, <1>4, <1>6, <1>8, <1>9, <1>10 DEF data, type, n, t

\* What an item is read back as.
LEMMA ReadAsOK ==
  ASSUME NEW item \in Item
  PROVE  /\ ReadAs(item) \in Item
         /\ ~Has(item, "block") => ReadAs(item) = item
         /\ Types \subseteq {0} => ReadAs(item) = item
<1>1. CASE Has(item, "block") /\ item.type = 1
  <2>1. item.type \in Types
    BY <1>1, BlockOK
  <2>2. ReadAs(item) = [block |-> << >>, type |-> 1]
    BY <1>1 DEF ReadAs
  <2>3. [block |-> << >>, type |-> 1] \in [block : Blocks \cup {<< >>}, type : Types]
    BY <1>1, <2>1
  <2>4. ReadAs(item) \in Item
    BY <2>2, <2>3 DEF Item
  <2>5. QED
    BY <1>1, <2>1, <2>4
<1>2. CASE ~(Has(item, "block") /\ item.type = 1)
  BY <1>2 DEF ReadAs
<1>3. QED
  BY <1>1, <1>2

\* A footer has its length.
LEMMA FooterOK ==
  ASSUME NEW meta \in Handles, NEW index \in Handles
  PROVE  /\ EncodeFooter(meta, index) \in Seq(Nat)
         /\ Len(EncodeFooter(meta, index)) = kEncodedLength
         /\ kEncodedLength \in Nat \ {0}
<1> DEFINE h == EncodeHandle(meta) \o EncodeHandle(index)
           k == 2 * kMaxEncodedLength
           lo == EncodeFixed32(MagicLo)
           hi == EncodeFixed32(MagicHi)
<1>1. meta[1] \in Nat /\ meta[2] \in Nat /\ index[1] \in Nat /\ index[2] \in Nat
  BY FormatAssumption
<1>2. k \in Nat /\ kEncodedLength = k + 8
  BY FormatAssumption DEF kMaxEncodedLength, kEncodedLength
<1>3. ASSUME NEW v \in Nat PROVE EncodeVarint64[v] \in Seq(Nat)
  BY LoopOK, VarintOK
<1>4. h \in Seq(Nat)
  <2>1. EncodeVarint64[meta[1]] \in Seq(Nat) /\ EncodeVarint64[meta[2]] \in Seq(Nat)
    BY <1>1, <1>3
  <2>2. EncodeVarint64[index[1]] \in Seq(Nat) /\ EncodeVarint64[index[2]] \in Seq(Nat)
    BY <1>1, <1>3
  <2>3. EncodeHandle(meta) \in Seq(Nat) /\ EncodeHandle(index) \in Seq(Nat)
    BY <2>1, <2>2, ConcatProperties DEF EncodeHandle
  <2>4. QED
    BY <2>3, ConcatProperties
<1> HIDE DEF h, k
<1>5. Padded(h) \in Seq(Nat) /\ Len(Padded(h)) = k
  <2>1. Padded(h) = [i \in 1..k |-> IF i <= Len(h) THEN h[i] ELSE 0]
    BY DEF Padded, k
  <2>2. \A i \in 1..k : (IF i <= Len(h) THEN h[i] ELSE 0) \in Nat
    <3>1. \A i \in 1..k : i <= Len(h) => i \in 1..Len(h)
      BY <1>2, <1>4, LenProperties
    <3>2. QED
      BY <1>4, <3>1, ElementOfSeq
  <2>3. Padded(h) \in [1..k -> Nat]
    BY <2>1, <2>2
  <2>4. QED
    BY <1>2, <2>3, SequenceIs
<1>6. lo \in Seq(Nat) /\ hi \in Seq(Nat) /\ Len(lo) = 4 /\ Len(hi) = 4
  <2>1. lo \in Seq(Octet) /\ hi \in Seq(Octet) /\ Len(lo) = 4 /\ Len(hi) = 4
    BY FormatAssumption, FixedOK
  <2>2. QED
    BY <2>1, OctetsOK
<1>7. EncodeFooter(meta, index) = (Padded(h) \o lo) \o hi
  BY DEF EncodeFooter, h
<1> DEFINE p == Padded(h)
<1> HIDE DEF p, lo, hi
<1>8. p \o lo \in Seq(Nat) /\ Len(p \o lo) = k + 4
  <2>1. p \in Seq(Nat) /\ Len(p) = k
    BY <1>5 DEF p
  <2>2. p \o lo \in Seq(Nat) /\ Len(p \o lo) = Len(p) + Len(lo)
    <3>1. lo \in Seq(Nat)
      BY <1>6
    <3>2. QED
      BY ONLY <2>1, <3>1, JoinedLength
  <2>3. QED
    BY <1>6, <2>1, <2>2
<1>9. (p \o lo) \o hi \in Seq(Nat) /\ Len((p \o lo) \o hi) = (k + 4) + 4
  <2> DEFINE q == p \o lo
  <2>1. q \in Seq(Nat) /\ Len(q) = k + 4
    BY <1>8
  <2> HIDE DEF q
  <2>2. q \o hi \in Seq(Nat) /\ Len(q \o hi) = Len(q) + Len(hi)
    <3>1. hi \in Seq(Nat)
      BY <1>6
    <3>2. QED
      BY ONLY <2>1, <3>1, JoinedLength
  <2>3. QED
    BY <1>6, <2>1, <2>2 DEF q
<1>10. QED
  BY <1>2, <1>7, <1>9 DEF p

\* What the code of an item is.
LEMMA CodeOK ==
  ASSUME NEW item \in Item
  PROVE  /\ Code(item) \in Seq(Nat) /\ Len(Code(item)) \in Nat \ {0}
         /\ Has(item, "word") =>
              /\ item = [word |-> item.word] /\ item.word \in Word
              /\ Code(item) = Varint(item.word)
         /\ Has(item, "slice") =>
              /\ item = [slice |-> item.slice] /\ item.slice \in Slices
              /\ Len(item.slice) \in Word
              /\ Code(item) = Varint(Len(item.slice)) \o item.slice
<1>1. CASE Has(item, "word")
  <2>1. item = [word |-> item.word] /\ item.word \in Word /\ ~Has(item, "slice")
    BY <1>1, KindsOK, Zenon
  <2>2. Code(item) = EncodeVarint32(item.word) /\ EncodeVarint32(item.word) = Varint(item.word)
    BY <1>1, <2>1, BranchesOK, CodeIs
  <2>3. item.word \in Nat
    BY <2>1, BranchesOK
  <2>4. QED
    BY <2>1, <2>2, <2>3, VarintOK
<1>2. CASE Has(item, "slice")
  <2> DEFINE s == item.slice
  <2>1. item = [slice |-> s] /\ s \in Slices /\ ~Has(item, "word")
    BY <1>2, KindsOK, Zenon
  <2>2. s \in Seq(Nat) /\ Len(s) < WordSize
    BY <2>1, CodingAssumption
  <2>3. Len(s) \in Word
    BY <2>2, LenProperties, ByteBase DEF Word
  <2>4. Code(item) = Varint(Len(s)) \o s /\ Len(s) \in Nat
    <3>1. EncodeVarint32(Len(s)) = Varint(Len(s)) /\ Len(s) \in Nat
      BY <2>3, BranchesOK
    <3>2. Code(item) = EncodeVarint32(Len(s)) \o s
      BY <1>2, CodeIs
    <3>3. QED
      BY <3>1, <3>2
  <2>5. /\ Varint(Len(s)) \in Seq(Nat) /\ Len(Varint(Len(s))) \in Nat \ {0}
    BY <2>4, VarintOK
  <2> HIDE DEF s
  <2>6. Code(item) \in Seq(Nat) /\ Len(Code(item)) = Len(Varint(Len(s))) + Len(s)
    BY <2>2, <2>4, <2>5, ConcatProperties
  <2>7. QED
    BY <2>1, <2>3, <2>4, <2>5, <2>6 DEF s
<1>3. CASE Has(item, "block")
  <2>1. ~Has(item, "word") /\ ~Has(item, "slice")
    BY <1>3, KindsOK, Zenon
  <2>2. Code(item) \in Seq(Octet) /\ Len(Code(item)) = Len(item.block) + 5 /\ Len(item.block) \in Nat
    BY <1>3, BlockOK
  <2>3. Code(item) \in Seq(Nat)
    BY <2>2, OctetsOK
  <2>4. Len(Code(item)) \in Nat \ {0}
    <3> DEFINE l == Len(item.block)
    <3>1. l \in Nat /\ Len(Code(item)) = l + 5
      BY <2>2
    <3> HIDE DEF l
    <3>2. QED
      BY <3>1
  <2>5. QED
    BY <2>1, <2>3, <2>4
<1>4. CASE Has(item, "footer")
  <2>1. /\ ~Has(item, "word") /\ ~Has(item, "slice") /\ ~Has(item, "block")
        /\ item.footer \in Handles \X Handles
    BY <1>4, KindsOK, Zenon
  <2>2. Code(item) = EncodeFooter(item.footer[1], item.footer[2])
    BY <1>4, CodeIs
  <2>3. item.footer[1] \in Handles /\ item.footer[2] \in Handles
    BY <2>1
  <2>4. QED
    BY <2>1, <2>2, <2>3, FooterOK
<1>5. QED
  BY <1>1, <1>2, <1>3, <1>4, KindsOK

-----------------------------------------------------------------------------
(* Coding: the inductive invariant.                                        *)

\* Init.
LEMMA CodingInitInv == CodingInit => CodingInv
<1> SUFFICES ASSUME CodingInit PROVE CodingInv
  OBVIOUS
<1> USE DEF CodingInit
<1>1. dst = << >> /\ put = << >> /\ got = << >> /\ room = 0 /\ input = NULL /\ ~failed
  OBVIOUS
<1>2. Len(<< >>) = 0 /\ << >> \in Seq(Nat) /\ << >> \in Seq(Item) /\ DOMAIN << >> = {}
  OBVIOUS
<1>3. ReadsAs /\ FailsOnlyCut /\ RoomExact
  BY <1>1, <1>2 DEF ReadsAs, FailsOnlyCut, RoomExact
<1> DEFINE at == [n \in 0..0 |-> 0]
<1>4. at \in [0..Len(put) -> 0..Len(dst)] /\ Layout(at)
  BY <1>1, <1>2 DEF Layout
<1>5. QED
  BY <1>1, <1>2, <1>3, <1>4 DEF CodingInv

\* A write.
LEMMA PutStep ==
  ASSUME CodingInv, NEW bytes \in Seq(Nat), NEW item \in Item, NEW length,
         bytes = Code(item), length = Len(bytes), Put(bytes, length, item)
  PROVE  CodingInv'
<1>1. /\ input = NULL /\ dst' = dst \o bytes /\ room' = room + length
      /\ put' = Append(put, item) /\ input' = NULL /\ cut' = cut /\ got' = got /\ failed' = failed
  BY DEF Put
<1>2. /\ dst \in Seq(Nat) /\ put \in Seq(Item) /\ got = << >> /\ ~failed /\ room = Len(dst)
  BY <1>1 DEF CodingInv, RoomExact
<1>3. PICK at \in [0..Len(put) -> 0..Len(dst)] : Layout(at)
  BY DEF CodingInv
<1> DEFINE k == Len(put)
           n == Len(dst)
           l == Len(bytes)
<1>4. k \in Nat /\ n \in Nat /\ l \in Nat
  BY <1>2, LenProperties
<1>5. /\ dst' \in Seq(Nat) /\ Len(dst') = n + l
      /\ \A m \in 1..n : dst'[m] = dst[m]
      /\ \A m \in 1..l : dst'[n + m] = bytes[m]
  BY <1>1, <1>2, <1>4, ConcatProperties
<1>6. /\ put' \in Seq(Item) /\ Len(put') = k + 1 /\ put'[k + 1] = item
      /\ \A m \in 1..k : put'[m] = put[m]
  BY <1>1, <1>2, <1>4, AppendProperties
<1> HIDE DEF k, n, l
<1>7. /\ at \in [0..k -> 0..n] /\ at[0] = 0 /\ at[k] = n
      /\ \A i \in 1..k : /\ at[i] = at[i - 1] + Len(Code(put[i]))
                         /\ \A m \in 1..Len(Code(put[i])) :
                               dst[at[i - 1] + m] = Code(put[i])[m]
  BY <1>3 DEF Layout, k, n
<1>7a. PICK new : new = [m \in 0..k + 1 |-> IF m <= k THEN at[m] ELSE n + l]
  OBVIOUS
<1>8. new \in [0..Len(put') -> 0..Len(dst')]
  BY <1>4, <1>5, <1>6, <1>7, <1>7a
<1>9. Layout(new)'
  <2>1. new[0] = 0 /\ new[k + 1] = n + l /\ \A i \in 0..k : new[i] = at[i]
    BY <1>4, <1>7, <1>7a
  <2>2. ASSUME NEW i \in 1..k + 1
        PROVE  /\ new[i] = new[i - 1] + Len(Code(put'[i]))
               /\ \A m \in 1..Len(Code(put'[i])) : dst'[new[i - 1] + m] = Code(put'[i])[m]
    <3>1. CASE i = k + 1
      <4>1. i - 1 = k /\ new[i - 1] = n /\ Code(put'[i]) = bytes
        <5>1. i - 1 = k /\ k \in 0..k
          BY <1>4, <3>1
        <5>2. new[k] = n
          BY <1>7, <2>1, <5>1
        <5>3. QED
          BY <1>6, <3>1, <5>1, <5>2
      <4>2. QED
        BY <1>5, <2>1, <3>1, <4>1 DEF l
    <3>2. CASE i <= k
      <4>1. i \in 1..k /\ i \in 0..k /\ i - 1 \in 0..k
        BY <1>4, <3>2
      <4>2. new[i] = at[i] /\ new[i - 1] = at[i - 1] /\ put'[i] = put[i]
        BY <1>6, <2>1, <4>1
      <4>3. at[i] \in 0..n /\ at[i - 1] \in 0..n
        BY <1>7, <4>1
      <4>4. at[i] = at[i - 1] + Len(Code(put[i]))
        BY <1>7, <4>1
      <4>5. put[i] \in Item /\ Len(Code(put[i])) \in Nat
        BY <1>2, <4>1, ElementOfSeq, CodeOK DEF k
      <4>6. ASSUME NEW m \in 1..Len(Code(put[i]))
            PROVE  dst'[at[i - 1] + m] = Code(put[i])[m]
        <5>1. at[i - 1] + m \in 1..n
          BY <1>4, <4>3, <4>4, <4>5, SMTT(30)
        <5>2. dst[at[i - 1] + m] = Code(put[i])[m]
          BY <1>7, <4>1
        <5>3. QED
          BY <1>5, <5>1, <5>2
      <4>7. QED
        BY ONLY <4>2, <4>4, <4>6
    <3>3. QED
      BY <1>4, <3>1, <3>2, SMTT(30)
  <2>3. QED
    BY <1>5, <1>6, <2>1, <2>2 DEF Layout
<1>10. ReadsAs' /\ FailsOnlyCut' /\ RoomExact'
  <2>1. got' = << >> /\ ~failed'
    BY <1>1, <1>2
  <2>2. DOMAIN << >> = {}
    OBVIOUS
  <2>3. room' = Len(dst')
    BY <1>1, <1>2, <1>5 DEF n, l
  <2>4. QED
    BY <2>1, <2>2, <2>3 DEF ReadsAs, FailsOnlyCut, RoomExact
<1>11. got' \in Seq(Item) /\ Len(got') <= Len(put')
  <2>1. Len(<< >>) = 0 /\ << >> \in Seq(Item)
    OBVIOUS
  <2>2. QED
    BY <1>1, <1>2, <1>4, <1>6, <2>1
<1>12. QED
  BY <1>1, <1>2, <1>5, <1>6, <1>8, <1>9, <1>10, <1>11, Zenon DEF CodingInv

\* What is left behind the first n bytes.
LEMMA AfterOK ==
  ASSUME NEW p \in Seq(Nat), NEW n \in 0..Len(p)
  PROVE  /\ After(p, n) \in Seq(Nat) /\ Len(After(p, n)) = Len(p) - n
         /\ \A m \in 1..Len(p) - n : After(p, n)[m] = p[n + m]
<1>1. Len(p) \in Nat /\ n \in Nat /\ n + 1 \in 1..Len(p) + 1
  BY LenProperties
<1>2. \A m \in n + 1..Len(p) : m \in 1..Len(p)
  BY <1>1
<1>3. /\ SubSeq(p, n + 1, Len(p)) \in Seq(Nat)
      /\ Len(SubSeq(p, n + 1, Len(p))) = IF n + 1 <= Len(p) THEN Len(p) - (n + 1) + 1 ELSE 0
      /\ \A m \in 1..Len(p) - (n + 1) + 1 : SubSeq(p, n + 1, Len(p))[m] = p[(n + 1) + m - 1]
  BY <1>1, <1>2, SubSeqProperties
<1>4. \A m \in 1..Len(p) - n : (n + 1) + m - 1 = n + m
  BY <1>1
<1>5. QED
  BY <1>1, <1>3, <1>4, SMTT(30) DEF After

\* The first n bytes.
LEMMA FirstOK ==
  ASSUME NEW p \in Seq(Nat), NEW n \in 0..Len(p)
  PROVE  /\ SubSeq(p, 1, n) \in Seq(Nat) /\ Len(SubSeq(p, 1, n)) = n
         /\ \A m \in 1..n : SubSeq(p, 1, n)[m] = p[m]
<1>1. Len(p) \in Nat /\ n \in Nat
  BY LenProperties
<1>2. \A m \in 1..n : m \in 1..Len(p)
  BY <1>1
<1>3. /\ SubSeq(p, 1, n) \in Seq(Nat)
      /\ Len(SubSeq(p, 1, n)) = IF 1 <= n THEN n - 1 + 1 ELSE 0
      /\ \A m \in 1..n - 1 + 1 : SubSeq(p, 1, n)[m] = p[1 + m - 1]
  BY <1>1, <1>2, SubSeqProperties
<1>4. \A m \in 1..n : 1 + m - 1 = m
  BY <1>1
<1>5. QED
  BY <1>1, <1>3, <1>4

\* The layout is of the buffer alone.
LEMMA LayoutSame ==
  ASSUME NEW at, Layout(at), put' = put, dst' = dst
  PROVE  Layout(at)'
BY DEF Layout

\* The copy is made.
LEMMA ReadStep ==
  ASSUME CodingInv, NEW n \in 0..Len(dst), Read(n)
  PROVE  CodingInv'
<1>1. /\ input = NULL /\ put # << >> /\ input' = SubSeq(dst, 1, n) /\ cut' = (n < Len(dst))
      /\ dst' = dst /\ room' = room /\ put' = put /\ got' = got /\ failed' = failed
  BY DEF Read
<1>2. dst \in Seq(Nat) /\ put \in Seq(Item) /\ got = << >> /\ got \in Seq(Item) /\ ~failed
      /\ RoomExact /\ Len(got) <= Len(put)
  BY <1>1 DEF CodingInv
<1>3. PICK at \in [0..Len(put) -> 0..Len(dst)] : Layout(at)
  BY DEF CodingInv
<1>4. input' \in Seq(Nat) /\ Len(input') = n /\ \A m \in 1..n : input'[m] = dst[m]
  BY <1>1, <1>2, FirstOK
<1>5. input' # NULL
  BY <1>4, CodingAssumption
<1>6. Len(<< >>) = 0 /\ DOMAIN << >> = {} /\ at[0] = 0 /\ Len(dst) \in Nat
  BY <1>2, <1>3, LenProperties DEF Layout
<1>7. Layout(at)'
  BY <1>1, <1>3, LayoutSame
<1>8. InputOK(at)'
  <2>1. at[Len(got')] = 0
    BY <1>1, <1>2, <1>6
  <2>2. 0 + n = n /\ n <= Len(dst) /\ \A m \in 1..n : 0 + m = m
    BY <1>6
  <2>3. QED
    BY <1>1, <1>4, <2>1, <2>2 DEF InputOK
<1>9. ReadsAs' /\ FailsOnlyCut' /\ RoomExact'
  BY <1>1, <1>2, <1>6 DEF ReadsAs, FailsOnlyCut, RoomExact
<1>10. at \in [0..Len(put') -> 0..Len(dst')]
  BY <1>1, <1>3
<1>11. QED
  BY <1>1, <1>2, <1>4, <1>5, <1>7, <1>8, <1>9, <1>10, Zenon DEF CodingInv

\* What is left to read begins with the next item, as far as it goes.
LEMMA NextItem ==
  ASSUME CodingInv, Reads,
         NEW at \in [0..Len(put) -> 0..Len(dst)], Layout(at), InputOK(at)
  PROVE  LET code == Code(Expected)
             g == Len(got)
         IN /\ Expected \in Item /\ g \in Nat /\ g + 1 \in 1..Len(put)
            /\ input \in Seq(Nat) /\ Len(input) \in Nat /\ Len(code) \in Nat \ {0}
            /\ at[g] \in Nat /\ at[g + 1] = at[g] + Len(code) /\ at[g + 1] <= Len(dst)
            /\ \A m \in 1..Len(code) : m <= Len(input) => input[m] = code[m]
            /\ Len(input) < Len(code) => cut
            /\ ~cut => Len(code) <= Len(input)
<1> DEFINE code == Code(Expected)
           g == Len(got)
           s == at[g]
<1>1. /\ got \in Seq(Item) /\ put \in Seq(Item) /\ dst \in Seq(Nat) /\ input \in Seq(Nat)
      /\ g < Len(put)
  BY DEF CodingInv, Reads
<1>2. g \in Nat /\ Len(put) \in Nat /\ Len(dst) \in Nat /\ Len(input) \in Nat
  BY <1>1, LenProperties
<1>3. g + 1 \in 1..Len(put) /\ (g + 1) - 1 = g /\ g \in 0..Len(put) /\ g + 1 \in 0..Len(put)
  BY <1>1, <1>2
<1>4. Expected \in Item
  BY <1>1, <1>3, ElementOfSeq DEF Expected
<1>5. Len(code) \in Nat \ {0}
  BY <1>4, CodeOK
<1>6. /\ at[g + 1] = s + Len(code)
      /\ \A m \in 1..Len(code) : dst[s + m] = code[m]
  BY <1>3 DEF Layout, Expected
<1>7. s \in 0..Len(dst) /\ at[g + 1] \in 0..Len(dst)
  BY <1>3
<1>8. /\ s + Len(input) <= Len(dst) /\ cut = (s + Len(input) < Len(dst))
      /\ \A m \in 1..Len(input) : input[m] = dst[s + m]
  BY DEF InputOK
<1> HIDE DEF code, g, s
<1>9. \A m \in 1..Len(code) : m <= Len(input) => input[m] = code[m]
  BY <1>2, <1>5, <1>6, <1>8
<1>10. (Len(input) < Len(code) => cut) /\ (~cut => Len(code) <= Len(input))
  <2>1. (s + Len(input) < Len(dst)) => cut
    BY <1>8, Zenon
  <2>2. Len(input) < Len(code) => s + Len(input) < Len(dst)
    BY <1>2, <1>5, <1>6, <1>7
  <2>3. Len(input) < Len(code) \/ Len(code) <= Len(input)
    BY <1>2, <1>5
  <2>4. QED
    BY <2>1, <2>2, <2>3, Zenon
<1>11. QED
  BY <1>1, <1>2, <1>3, <1>4, <1>5, <1>6, <1>7, <1>9, <1>10 DEF code, g, s

\* The item is read, and what is left begins behind it.
LEMMA Consumed ==
  ASSUME CodingInv, Reads,
         NEW at \in [0..Len(put) -> 0..Len(dst)], Layout(at), InputOK(at),
         NEW l \in Nat, l = Len(Code(Expected)), l <= Len(input),
         got' = Append(got, ReadAs(Expected)), input' = After(input, l),
         UNCHANGED <<dst, room, put, cut, failed>>
  PROVE  CodingInv'
<1> DEFINE g == Len(got)
<1>1. /\ Expected \in Item /\ g \in Nat /\ g + 1 \in 1..Len(put)
      /\ input \in Seq(Nat) /\ Len(input) \in Nat
      /\ at[g] \in Nat /\ at[g + 1] = at[g] + l
  BY NextItem, Zenon
<1>2. /\ dst \in Seq(Nat) /\ put \in Seq(Item) /\ got \in Seq(Item) /\ ReadsAs /\ RoomExact
      /\ ~failed
  BY DEF CodingInv, Reads
<1> DEFINE read == ReadAs(Expected)
<1>0. read \in Item
  BY <1>1, ReadAsOK
<1> HIDE DEF read
<1>3. /\ dst' = dst /\ room' = room /\ put' = put /\ cut' = cut /\ failed' = failed
  OBVIOUS
<1>4. /\ got' \in Seq(Item) /\ Len(got') = g + 1 /\ got'[g + 1] = read
      /\ \A m \in 1..g : got'[m] = got[m]
  BY <1>0, <1>1, <1>2, AppendProperties DEF read
<1>5. /\ input' \in Seq(Nat) /\ Len(input') = Len(input) - l
      /\ \A m \in 1..Len(input) - l : input'[m] = input[l + m]
  <2>1. l \in 0..Len(input)
    BY <1>1
  <2>2. QED
    BY <1>1, <2>1, AfterOK
<1> HIDE DEF g
<1>6. ReadsAs'
  <2>1. DOMAIN got = 1..g /\ DOMAIN got' = 1..g + 1
    BY <1>1, <1>2, <1>4, LenProperties DEF g
  <2>2. \A m \in 1..g : got[m] = ReadAs(put[m])
    BY <1>2, <2>1 DEF ReadsAs
  <2>3. \A m \in 1..g + 1 : m \in 1..g \/ m = g + 1
    BY <1>1
  <2>4. read = ReadAs(put[g + 1])
    BY DEF Expected, g, read
  <2>5. QED
    BY <1>3, <1>4, <2>1, <2>2, <2>3, <2>4 DEF ReadsAs
<1>7. FailsOnlyCut' /\ RoomExact'
  BY <1>2, <1>3 DEF FailsOnlyCut, RoomExact
<1>8. Layout(at)' /\ at \in [0..Len(put') -> 0..Len(dst')]
  <2>1. Layout(at) /\ dst' = dst /\ put' = put
    BY <1>3
  <2>2. Layout(at)'
    BY <2>1, LayoutSame
  <2>3. QED
    BY <1>3, <2>2
<1>9. InputOK(at)'
  <2>1. /\ at[g] + Len(input) <= Len(dst) /\ cut = (at[g] + Len(input) < Len(dst))
        /\ \A m \in 1..Len(input) : input[m] = dst[at[g] + m]
    BY DEF InputOK, g
  <2>2. at[g + 1] + Len(input') = at[g] + Len(input)
    <3>1. /\ at[g] \in Nat /\ l \in Nat /\ Len(input) \in Nat
          /\ at[g + 1] = at[g] + l /\ Len(input') = Len(input) - l
      BY <1>1, <1>5, Zenon
    <3>2. QED
      BY ONLY <3>1
  <2>3. ASSUME NEW m \in 1..Len(input') PROVE input'[m] = dst[at[g + 1] + m]
    <3>1. m \in 1..Len(input) - l /\ l + m \in 1..Len(input) /\ at[g + 1] + m = at[g] + (l + m)
      <4>1. /\ at[g] \in Nat /\ l \in Nat /\ Len(input) \in Nat
            /\ at[g + 1] = at[g] + l /\ Len(input') = Len(input) - l
        BY <1>1, <1>5, Zenon
      <4>2. m \in Nat /\ m >= 1 /\ m <= Len(input) - l
        BY <2>3, <4>1
      <4>3. QED
        BY ONLY <4>1, <4>2
    <3>2. QED
      BY <1>5, <2>1, <3>1
  <2>4. QED
    BY <1>3, <1>4, <2>1, <2>2, <2>3 DEF InputOK
<1>10. Len(got') <= Len(put') /\ input' # NULL
  BY <1>1, <1>3, <1>4, <1>5, CodingAssumption
<1>11. QED
  BY <1>2, <1>3, <1>4, <1>5, <1>6, <1>7, <1>8, <1>9, <1>10, Zenon DEF CodingInv

\* A varint is read whole, or found to be cut.
LEMMA VarintStep == CodingInv /\ GetVarint32 => CodingInv'
<1> SUFFICES ASSUME CodingInv, GetVarint32 PROVE CodingInv'
  OBVIOUS
<1> DEFINE v == Expected.word
           l == Size(v)
           q == GetVarint32Ptr(input, Len(input))
<1>1. /\ Reads /\ IsWord /\ input # NULL
      /\ dst' = dst /\ room' = room /\ put' = put /\ cut' = cut
      /\ IF q = NULL THEN failed' = TRUE /\ input' = input /\ got' = got
         ELSE got' = Append(got, [word |-> q.value]) /\ input' = After(input, q.bytes)
              /\ failed' = failed
  BY DEF GetVarint32, Reads
<1>2. PICK at \in [0..Len(put) -> 0..Len(dst)] : Layout(at) /\ InputOK(at)
  BY <1>1 DEF CodingInv
<1>3. /\ Expected \in Item /\ input \in Seq(Nat) /\ Len(input) \in Nat
      /\ \A m \in 1..Len(Code(Expected)) : m <= Len(input) => input[m] = Code(Expected)[m]
      /\ Len(input) < Len(Code(Expected)) => cut
  BY <1>1, <1>2, NextItem, Zenon
<1>4. Expected = [word |-> v] /\ v \in Word /\ Code(Expected) = Varint(v)
  BY <1>1, <1>3, CodeOK DEF IsWord, Has
<1> HIDE DEF v
<1>5. v \in Nat
  BY <1>4, BranchesOK
<1>6. Len(Varint(v)) = l /\ l \in Nat
  BY <1>5, VarintOK
<1> HIDE DEF l
<1>7. CASE Len(input) < l
  <2>1. \A m \in 1..Len(input) : input[m] = Varint(v)[m]
    BY <1>3, <1>4, <1>6, <1>7
  <2>2. q = NULL
    BY <1>3, <1>4, <1>7, <2>1, DecodeCut DEF l
  <2>3. /\ dst' = dst /\ room' = room /\ put' = put /\ cut' = cut /\ input' = input /\ got' = got
    BY <1>1, <2>2, Zenon
  <2>4. cut
    BY <1>3, <1>4, <1>6, <1>7
  <2>5. FailsOnlyCut'
    <3>1. EncodeVarint64[v] = Varint(v) /\ Varint(v) \in Seq(Nat)
      BY <1>5, LoopOK, VarintOK
    <3>2. Len(input) < Len(EncodeVarint64[v])
      BY <1>6, <1>7, <3>1
    <3>3. IsPrefix(input, EncodeVarint64[v])
      <4> DEFINE n == Len(input)
      <4>1. n \in 0..Len(Varint(v)) /\ n \in 0..Len(input)
        BY <1>3, <1>6, <1>7
      <4>2. /\ SubSeq(input, 1, n) \in Seq(Nat) /\ Len(SubSeq(input, 1, n)) = n
            /\ \A m \in 1..n : SubSeq(input, 1, n)[m] = input[m]
        BY <1>3, <4>1, FirstOK
      <4>3. /\ SubSeq(Varint(v), 1, n) \in Seq(Nat) /\ Len(SubSeq(Varint(v), 1, n)) = n
            /\ \A m \in 1..n : SubSeq(Varint(v), 1, n)[m] = Varint(v)[m]
        BY <3>1, <4>1, FirstOK
      <4>4. SubSeq(input, 1, n) = SubSeq(Varint(v), 1, n)
        BY <2>1, <4>2, <4>3, SeqEqual
      <4>5. n <= Len(Varint(v))
        BY <4>1
      <4>6. QED
        BY <3>1, <4>4, <4>5 DEF IsPrefix
    <3>4. Expected' = Expected /\ v = Expected.word
      BY <2>3 DEF Expected, v
    <3>5. QED
      BY <2>3, <2>4, <3>2, <3>3, <3>4 DEF FailsOnlyCut
  <2>6. /\ dst \in Seq(Nat) /\ put \in Seq(Item) /\ got \in Seq(Item) /\ Len(got) <= Len(put)
        /\ ReadsAs /\ RoomExact
    BY DEF CodingInv
  <2>7. ReadsAs' /\ RoomExact'
    BY <2>3, <2>6 DEF ReadsAs, RoomExact
  <2>8. Layout(at) /\ InputOK(at)
    BY <1>2
  <2>9. Layout(at)'
    BY <2>3, <2>8, LayoutSame
  <2>10. InputOK(at)'
    BY ONLY <2>3, <2>8 DEF InputOK
  <2>11. at \in [0..Len(put') -> 0..Len(dst')]
    BY <1>2, <2>3
  <2>12. \E a \in [0..Len(put') -> 0..Len(dst')] : Layout(a)' /\ (input' # NULL => InputOK(a)')
    BY <2>9, <2>10, <2>11
  <2>13. dst' \in Seq(Nat) /\ put' \in Seq(Item) /\ got' \in Seq(Item) /\ Len(got') <= Len(put')
    BY <2>3, <2>6
  <2>14. input' \in Seq(Nat) /\ input' # NULL
    BY <1>1, <1>3, <2>3
  <2>15. QED
    BY <2>5, <2>7, <2>12, <2>13, <2>14, Zenon DEF CodingInv
<1>8. CASE l <= Len(input)
  <2>1. \A m \in 1..l : input[m] = Varint(v)[m]
    <3>1. \A m \in 1..l : m \in 1..Len(Varint(v)) /\ m <= Len(input)
      BY ONLY <1>3, <1>6, <1>8
    <3>2. QED
      BY ONLY <1>3, <1>4, <3>1
  <2>2. q = [value |-> v, bytes |-> l] /\ q # NULL
    BY <1>3, <1>4, <1>8, <2>1, DecodeOK DEF l
  <2> HIDE DEF q
  <2>3. got' = Append(got, Expected) /\ input' = After(input, l) /\ failed' = failed
    BY <1>1, <1>4, <2>2
  <2>4. l = Len(Code(Expected))
    BY <1>4, <1>6
  <2>5. UNCHANGED <<dst, room, put, cut, failed>>
    BY <1>1, <2>3
  <2>6. ReadAs(Expected) = Expected
    <3>1. ~Has(Expected, "block")
      BY <1>1, <1>3, KindsOK, Zenon DEF IsWord, Has
    <3>2. QED
      BY <1>3, <3>1, ReadAsOK
  <2>7. QED
    BY <1>1, <1>2, <1>6, <1>8, <2>3, <2>4, <2>5, <2>6, Consumed
<1>9. QED
  BY <1>3, <1>6, <1>7, <1>8

\* A slice is read.
LEMMA SliceStep == CodingInv /\ GetLengthPrefixedSlice => CodingInv'
<1> SUFFICES ASSUME CodingInv, GetLengthPrefixedSlice PROVE CodingInv'
  OBVIOUS
<1> DEFINE s == Expected.slice
           v == Len(s)
           l == Size(v)
           q == GetVarint32Ptr(input, MaxGroups)
           rest == After(input, q.bytes)
<1>1. /\ Reads /\ IsSlice /\ ~cut /\ input # NULL
      /\ UNCHANGED <<dst, room, put, cut, failed>>
      /\ got' = Append(got, [slice |-> SubSeq(rest, 1, q.value)]) /\ input' = After(rest, q.value)
  BY DEF GetLengthPrefixedSlice, Reads
<1>2. PICK at \in [0..Len(put) -> 0..Len(dst)] : Layout(at) /\ InputOK(at)
  BY <1>1 DEF CodingInv
<1>3. /\ Expected \in Item /\ input \in Seq(Nat) /\ Len(input) \in Nat
      /\ \A m \in 1..Len(Code(Expected)) : m <= Len(input) => input[m] = Code(Expected)[m]
      /\ Len(Code(Expected)) <= Len(input)
  BY <1>1, <1>2, NextItem, Zenon
<1>4. Has(Expected, "slice")
  BY <1>1 DEF IsSlice, Has
<1>5. /\ Expected = [slice |-> s] /\ s \in Slices /\ v \in Word
      /\ Code(Expected) = Varint(v) \o s
  BY <1>3, <1>4, CodeOK, Zenon
<1>6. s \in Seq(Nat)
  BY <1>5, CodingAssumption
<1> HIDE DEF s
<1>7. v \in Nat /\ l <= MaxGroups
  BY <1>5, BranchesOK
<1>8. /\ Varint(v) \in Seq(Nat) /\ Len(Varint(v)) = l /\ l \in Nat
  BY <1>7, VarintOK
<1>9. /\ Len(Code(Expected)) = l + v
      /\ \A m \in 1..l : Code(Expected)[m] = Varint(v)[m]
      /\ \A m \in 1..v : Code(Expected)[l + m] = s[m]
  <2>1. Varint(v) \in Seq(Nat) /\ Len(Varint(v)) = l /\ s \in Seq(Nat) /\ Code(Expected) = Varint(v) \o s
    BY <1>5, <1>6, <1>8
  <2> HIDE DEF l
  <2>2. Len(Code(Expected)) = Len(Varint(v)) + Len(s)
    BY ONLY <2>1, JoinedLength
  <2>3. \A m \in 1..Len(Varint(v)) : Code(Expected)[m] = Varint(v)[m]
    BY ONLY <2>1, Joined
  <2>4. \A m \in 1..Len(s) : Code(Expected)[Len(Varint(v)) + m] = s[m]
    <3>1. \A m \in 1..Len(s) : (Varint(v) \o s)[Len(Varint(v)) + m] = s[m]
      BY ONLY <2>1, Joined, SMTT(30)
    <3>2. QED
      BY ONLY <2>1, <3>1
  <2>5. QED
    BY <2>1, <2>2, <2>3, <2>4
<1> HIDE DEF v, l
<1>10. l + v <= Len(input) /\ l <= Len(input)
  BY <1>3, <1>7, <1>8, <1>9
<1>11. (\A m \in 1..l : input[m] = Varint(v)[m]) /\ (\A m \in 1..v : input[l + m] = s[m])
  <2>1. ASSUME NEW m \in 1..l PROVE input[m] = Varint(v)[m]
    BY <1>3, <1>7, <1>8, <1>9, <1>10
  <2>2. ASSUME NEW m \in 1..v PROVE input[l + m] = s[m]
    <3>1. l + m \in 1..l + v /\ l + m <= Len(input)
      BY <1>3, <1>7, <1>8, <1>10
    <3>2. QED
      BY <1>3, <1>9, <3>1
  <2>3. QED
    BY <2>1, <2>2
<1>12. q = [value |-> v, bytes |-> l]
  BY <1>3, <1>5, <1>7, <1>10, <1>11, ByteBase, DecodeOK DEF l
<1>13. rest = After(input, l) /\ q.value = v
  BY <1>12
<1> HIDE DEF q, rest
<1>14. /\ rest \in Seq(Nat) /\ Len(rest) = Len(input) - l
       /\ \A m \in 1..Len(input) - l : rest[m] = input[l + m]
  <2>1. l \in 0..Len(input)
    BY <1>3, <1>8, <1>10
  <2>2. QED
    BY <1>3, <1>13, <2>1, AfterOK
<1>15. v \in 0..Len(rest)
  BY <1>3, <1>7, <1>8, <1>10, <1>14
<1>16. SubSeq(rest, 1, v) = s
  <2>1. /\ SubSeq(rest, 1, v) \in Seq(Nat) /\ Len(SubSeq(rest, 1, v)) = v
        /\ \A m \in 1..v : SubSeq(rest, 1, v)[m] = rest[m]
    BY <1>14, <1>15, FirstOK
  <2>2. \A m \in 1..v : rest[m] = s[m]
    BY <1>3, <1>7, <1>8, <1>10, <1>11, <1>14
  <2>3. QED
    BY <1>6, <2>1, <2>2, SeqEqual DEF v
<1>17. After(rest, v) = After(input, l + v)
  <2>1. /\ After(rest, v) \in Seq(Nat) /\ Len(After(rest, v)) = Len(rest) - v
        /\ \A m \in 1..Len(rest) - v : After(rest, v)[m] = rest[v + m]
    BY <1>14, <1>15, AfterOK
  <2>2. l + v \in 0..Len(input)
    BY <1>3, <1>7, <1>8, <1>10
  <2>3. /\ After(input, l + v) \in Seq(Nat) /\ Len(After(input, l + v)) = Len(input) - (l + v)
        /\ \A m \in 1..Len(input) - (l + v) : After(input, l + v)[m] = input[(l + v) + m]
    BY <1>3, <2>2, AfterOK
  <2>4. Len(rest) - v = Len(input) - (l + v)
    BY <1>3, <1>7, <1>8, <1>14
  <2>5. ASSUME NEW m \in 1..Len(rest) - v PROVE After(rest, v)[m] = After(input, l + v)[m]
    <3>1. v + m \in 1..Len(input) - l /\ l + (v + m) = (l + v) + m
      <4>1. v \in Nat /\ l \in Nat /\ Len(input) \in Nat /\ Len(rest) = Len(input) - l
        BY <1>3, <1>7, <1>8, <1>14
      <4>2. m \in Nat /\ 1 <= m /\ m <= Len(rest) - v
        BY <4>1
      <4>3. QED
        BY ONLY <4>1, <4>2
    <3>2. QED
      BY <1>14, <2>1, <2>3, <2>4, <3>1
  <2>6. QED
    BY <2>1, <2>3, <2>4, <2>5, SeqEqual
<1>18. got' = Append(got, Expected) /\ input' = After(input, l + v)
  BY <1>1, <1>5, <1>13, <1>16, <1>17
<1>19. l + v \in Nat /\ l + v = Len(Code(Expected)) /\ l + v <= Len(input)
  BY <1>7, <1>8, <1>9, <1>10
<1>20. ReadAs(Expected) = Expected
  <2>1. ~Has(Expected, "block")
    BY <1>3, <1>4, KindsOK, Zenon
  <2>2. QED
    BY <1>3, <2>1, ReadAsOK
<1>21. QED
  BY <1>1, <1>2, <1>18, <1>19, <1>20, Consumed

\* What is written is the code of what is put, and its length is known before.
LEMMA PutAnyIs ==
  ASSUME PutAny
  PROVE  \E item \in Item : Put(Code(item), Len(Code(item)), item)
<1>1. ASSUME NEW v \in Word, PutVarint32(v)
      PROVE  \E item \in Item : Put(Code(item), Len(Code(item)), item)
  <2> DEFINE item == [word |-> v]
  <2>1. item \in Item /\ Has(item, "word") /\ item.word = v
    BY DEF Item, Has
  <2> HIDE DEF item
  <2>2. Code(item) = EncodeVarint32(v) /\ Code(item) = Varint(v) /\ v \in Nat
    <3>1. Code(item) = EncodeVarint32(v)
      BY <2>1, CodeIs
    <3>2. EncodeVarint32(v) = Varint(v) /\ v \in Nat
      BY BranchesOK
    <3>3. QED
      BY ONLY <3>1, <3>2
  <2>3. VarintLength[v] = Len(Code(item))
    <3>1. VarintLength[v] = Size(v)
      BY ONLY <2>2, LengthOK
    <3>2. Len(Varint(v)) = Size(v)
      BY ONLY <2>2, VarintOK
    <3>3. QED
      BY ONLY <2>2, <3>1, <3>2
  <2>4. Put(Code(item), VarintLength[v], item)
    BY <1>1, <2>2 DEF PutVarint32, item
  <2>5. QED
    BY <2>1, <2>3, <2>4
<1>2. ASSUME NEW s \in Slices, PutLengthPrefixedSlice(s)
      PROVE  \E item \in Item : Put(Code(item), Len(Code(item)), item)
  <2> DEFINE item == [slice |-> s]
             n == VarintLength[Len(s)] + Len(s)
             c == Varint(Len(s))
  <2>1. item \in Item /\ Has(item, "slice") /\ item.slice = s
    BY DEF Item, Has
  <2> HIDE DEF item
  <2>2. Code(item) = EncodeVarint32(Len(s)) \o s
    BY <2>1, CodeIs
  <2>3. Code(item) = c \o s /\ Len(s) \in Nat
    BY <2>1, CodeOK, BranchesOK
  <2>4. s \in Seq(Nat)
    BY CodingAssumption
  <2>5. c \in Seq(Nat) /\ Len(c) = Size(Len(s)) /\ VarintLength[Len(s)] = Size(Len(s))
    BY <2>3, VarintOK, LengthOK
  <2>6. Put(Code(item), n, item)
    BY <1>2, <2>2 DEF PutLengthPrefixedSlice, item
  <2>7. n = Len(Code(item))
    <3> HIDE DEF c
    <3>1. Len(c \o s) = Len(c) + Len(s)
      BY <2>4, <2>5, Joined
    <3>2. QED
      BY <2>3, <2>5, <3>1
  <2> HIDE DEF n
  <2>8. QED
    BY <2>1, <2>6, <2>7
<1>3. QED
  BY <1>1, <1>2 DEF PutAny

\* Every step keeps the invariant.
LEMMA CodingStep == CodingInv /\ [CodingNext]_codingVars => CodingInv'
<1> SUFFICES ASSUME CodingInv, [CodingNext]_codingVars PROVE CodingInv'
  OBVIOUS
<1>1. CASE PutAny
  <2>1. PICK item \in Item : Put(Code(item), Len(Code(item)), item)
    BY <1>1, PutAnyIs
  <2>2. Code(item) \in Seq(Nat)
    BY CodeOK
  <2>3. QED
    BY <2>1, <2>2, PutStep
<1>2. ASSUME NEW n \in 0..Len(dst), Read(n) PROVE CodingInv'
  BY <1>2, ReadStep
<1>3. CASE GetVarint32
  BY <1>3, VarintStep
<1>4. CASE GetLengthPrefixedSlice
  BY <1>4, SliceStep
<1>5. CASE UNCHANGED codingVars
  <2>1. /\ dst' = dst /\ room' = room /\ put' = put /\ input' = input /\ cut' = cut
        /\ got' = got /\ failed' = failed
    BY <1>5 DEF codingVars
  <2>2. PICK at \in [0..Len(put) -> 0..Len(dst)] : Layout(at) /\ (input # NULL => InputOK(at))
    BY DEF CodingInv
  <2>3. /\ dst \in Seq(Nat) /\ put \in Seq(Item) /\ got \in Seq(Item) /\ Len(got) <= Len(put)
        /\ ReadsAs /\ FailsOnlyCut /\ RoomExact
        /\ input = NULL => got = << >> /\ ~failed
        /\ input # NULL => input \in Seq(Nat)
    BY DEF CodingInv
  <2>4. ReadsAs' /\ RoomExact'
    BY ONLY <2>1, <2>3 DEF ReadsAs, RoomExact
  <2>5. FailsOnlyCut'
    BY ONLY <2>1, <2>3 DEF FailsOnlyCut, Expected, IsWord
  <2>6. Layout(at)'
    BY <2>1, <2>2, LayoutSame
  <2>7. (input # NULL => InputOK(at))'
    BY ONLY <2>1, <2>2 DEF InputOK
  <2>8. at \in [0..Len(put') -> 0..Len(dst')]
    BY <2>1, <2>2
  <2>9. QED
    BY <2>1, <2>3, <2>4, <2>5, <2>6, <2>7, <2>8, Zenon DEF CodingInv
<1>6. QED
  BY <1>1, <1>2, <1>3, <1>4, <1>5 DEF CodingNext, ReadAny

\* Of varints and slices alone.
Unframed == \A m \in DOMAIN put : ~Has(put[m], "block")

\* No step of Coding puts a block.
LEMMA UnframedStep == CodingInv /\ Unframed /\ [CodingNext]_codingVars => Unframed'
<1> SUFFICES ASSUME CodingInv, Unframed, [CodingNext]_codingVars PROVE Unframed'
  OBVIOUS
<1>1. put' = put \/ \E item : put' = Append(put, item) /\ ~Has(item, "block")
  <2>1. ASSUME NEW v \in Word, PutVarint32(v)
        PROVE  put' = Append(put, [word |-> v]) /\ ~Has([word |-> v], "block")
    BY <2>1 DEF PutVarint32, Put, Has
  <2>2. ASSUME NEW s \in Slices, PutLengthPrefixedSlice(s)
        PROVE  put' = Append(put, [slice |-> s]) /\ ~Has([slice |-> s], "block")
    BY <2>2 DEF PutLengthPrefixedSlice, Put, Has
  <2>3. CASE ReadAny
    BY <2>3 DEF ReadAny, Read, GetVarint32, GetLengthPrefixedSlice
  <2>4. CASE UNCHANGED codingVars
    BY <2>4 DEF codingVars
  <2>5. QED
    BY <2>1, <2>2, <2>3, <2>4 DEF CodingNext, PutAny
<1>2. CASE put' = put
  BY <1>2 DEF Unframed
<1>3. ASSUME NEW item, put' = Append(put, item), ~Has(item, "block") PROVE Unframed'
  <2>1. /\ put \in Seq(Item) /\ Len(put) \in Nat /\ DOMAIN put = 1..Len(put)
    BY LenProperties DEF CodingInv
  <2>2. /\ DOMAIN put' = 1..Len(put) + 1
        /\ \A m \in 1..Len(put) + 1 : put'[m] = IF m <= Len(put) THEN put[m] ELSE item
    BY <1>3, <2>1
  <2>3. QED
    BY <1>3, <2>1, <2>2 DEF Unframed
<1>4. QED
  BY <1>1, <1>2, <1>3

\* What is read as it was put.
LEMMA ReadsAsIs ==
  ASSUME put \in Seq(Item), got \in Seq(Item), Len(got) <= Len(put), ReadsAs,
         Unframed \/ Types \subseteq {0}
  PROVE  ReadsBack
<1> SUFFICES ASSUME NEW n \in DOMAIN got PROVE got[n] = put[n]
  BY DEF ReadsBack
<1>1. n \in 1..Len(put) /\ n \in DOMAIN put
  BY LenProperties
<1>2. put[n] \in Item /\ got[n] = ReadAs(put[n])
  BY <1>1, ElementOfSeq DEF ReadsAs
<1>3. QED
  BY <1>1, <1>2, ReadAsOK DEF Unframed

\* What lies in the buffer, and what is left to read of it, whatever is put and
\* wherever the copy is cut.
THEOREM CodingInvariance == CodingSpec => []CodingInv
<1>1. QED
  BY CodingInitInv, CodingStep, PTL DEF CodingSpec

\* Whatever the widths of a byte and a word, what MemTable::Add and the blocks
\* write with varints is read back as it was, and nothing else is.
THEOREM CodingReadsBack == CodingSpec => []ReadsBack
<1>1. CodingInv /\ Unframed => ReadsBack
  BY ReadsAsIs DEF CodingInv
<1>2. CodingInit => Unframed
  BY DEF CodingInit, Unframed
<1>3. QED
  BY CodingInvariance, UnframedStep, <1>1, <1>2, PTL DEF CodingSpec

\* GetVarint32 returns false at the end of a cut input only.
THEOREM CodingFailsOnlyCut == CodingSpec => []FailsOnlyCut
<1>1. CodingInv => FailsOnlyCut
  BY DEF CodingInv
<1>2. QED
  BY CodingInvariance, <1>1, PTL

\* VarintLength tells MemTable::Add the bytes that EncodeVarint32 then writes.
THEOREM CodingRoomExact == CodingSpec => []RoomExact
<1>1. CodingInv => RoomExact
  BY DEF CodingInv
<1>2. QED
  BY CodingInvariance, <1>1, PTL

-----------------------------------------------------------------------------
(* Format: a block on its way back.                                        *)

\* The elements i to j.
LEMMA SliceIs ==
  ASSUME NEW S, NEW p \in Seq(S), NEW i \in Nat \ {0}, NEW j \in Nat, i <= j, j <= Len(p)
  PROVE  /\ SubSeq(p, i, j) \in Seq(S) /\ Len(SubSeq(p, i, j)) = j - i + 1
         /\ \A m \in 1..j - i + 1 : SubSeq(p, i, j)[m] = p[i - 1 + m]
<1>1. Len(p) \in Nat
  BY LenProperties
<1>2. i \in 1..Len(p) + 1 /\ \A m \in i..j : m \in 1..Len(p)
  BY <1>1
<1>3. /\ SubSeq(p, i, j) \in Seq(S)
      /\ Len(SubSeq(p, i, j)) = IF i <= j THEN j - i + 1 ELSE 0
      /\ \A m \in 1..j - i + 1 : SubSeq(p, i, j)[m] = p[i + m - 1]
  BY <1>1, <1>2, SubSeqProperties
<1>4. \A m \in 1..j - i + 1 : i + m - 1 = i - 1 + m
  OBVIOUS
<1>5. QED
  BY <1>3, <1>4

\* A block that is as it was written is accepted.
LEMMA Accepts ==
  ASSUME NEW item \in Item, Has(item, "block"), NEW p \in Seq(Nat), NEW address \in Int,
         NEW n, n = Len(item.block), n + 5 <= Len(p),
         \A m \in 1..n + 5 : p[m] = Code(item)[m]
  PROVE  /\ p[n + 1] \in {0, 1}
         /\ [block |-> IF p[n + 1] = 0 THEN SubSeq(p, 1, n) ELSE << >>, type |-> p[n + 1]] = ReadAs(item)
         /\ Number(Value(SubSeq(p, 1, n + 1), address))
              = Unmask(DecodeFixed32(SubSeq(p, n + 2, n + 5)))
<1> DEFINE data == item.block
           type == item.type
           code == Code(item)
           whole == SubSeq(p, 1, n + 1)
           tail == SubSeq(p, n + 2, n + 5)
<1>1. /\ data \in Seq(Octet) /\ type \in Octet /\ type \in {0, 1} /\ n \in Nat
      /\ \A m \in 1..n : code[m] = data[m]
      /\ code[n + 1] = type /\ \A i \in 1..4 : code[n + 1 + i] = Stored(data, type)[i]
  BY BlockOK
<1>12. item = [block |-> data, type |-> type]
  BY BlockOK
<1> HIDE DEF code, data, type
<1>0. n \in Nat /\ type \in Nat
  BY <1>1
<1>2. data \in Seq(Nat)
  BY <1>1, OctetsOK
<1>3. Len(p) \in Nat
  BY LenProperties
<1>4. SubSeq(p, 1, n) = data
  <2>0. n = Len(data)
    BY DEF data
  <2>1. n \in 0..Len(p)
    BY <1>0, <1>3
  <2>2. /\ SubSeq(p, 1, n) \in Seq(Nat) /\ Len(SubSeq(p, 1, n)) = n
        /\ \A m \in 1..n : SubSeq(p, 1, n)[m] = p[m]
    BY <2>1, FirstOK
  <2>3. \A m \in 1..n : p[m] = data[m]
    <3>1. \A m \in 1..n : m \in 1..n + 5
      BY ONLY <1>0
    <3>2. QED
      BY <1>1, <3>1 DEF code
  <2>4. QED
    <3>1. /\ SubSeq(p, 1, n) \in Seq(Nat) /\ Len(SubSeq(p, 1, n)) = Len(data)
          /\ \A m \in 1..Len(data) : SubSeq(p, 1, n)[m] = data[m]
      BY ONLY <2>0, <2>2, <2>3
    <3>2. QED
      BY ONLY <1>2, <3>1, SeqEqual
<1>5. /\ Append(data, type) \in Seq(Octet) /\ Stored(data, type) \in Seq(Octet) /\ Len(Stored(data, type)) = 4
      /\ Unmask(DecodeFixed32(Stored(data, type))) = Number(Checksum(Append(data, type)))
  <2>1. data \in Seq(Octet) /\ type \in Octet
    BY ONLY <1>1
  <2>2. QED
    BY ONLY <2>1, TrailerIs
<1>6. p[n + 1] = type
  <2>1. n + 1 \in 1..n + 5
    BY ONLY <1>0
  <2>2. QED
    BY <1>1, <2>1 DEF code
<1>7. whole = Append(data, type)
  <2>0. n = Len(data)
    BY DEF data
  <2>1. n + 1 \in 0..Len(p)
    BY <1>0, <1>3
  <2>2. /\ whole \in Seq(Nat) /\ Len(whole) = n + 1
        /\ \A m \in 1..n + 1 : whole[m] = p[m]
    BY <2>1, FirstOK
  <2>3. /\ Append(data, type) \in Seq(Nat) /\ Len(Append(data, type)) = n + 1 /\ Append(data, type)[n + 1] = type
        /\ \A m \in 1..n : Append(data, type)[m] = data[m]
    BY ONLY <1>0, <1>2, <2>0, AppendProperties
  <2>4. ASSUME NEW m \in 1..n + 1 PROVE whole[m] = Append(data, type)[m]
    <3>1. CASE m = n + 1
      BY <1>6, <2>2, <2>3, <3>1
    <3>2. CASE m # n + 1
      <4>1. m \in 1..n /\ m \in 1..n + 5
        <5>1. m \in 1..n + 1
          OBVIOUS
        <5>2. QED
          BY ONLY <1>0, <3>2, <5>1
      <4>2. p[m] = code[m] /\ code[m] = data[m]
        BY <1>1, <4>1 DEF code
      <4>3. QED
        BY <2>2, <2>3, <4>1, <4>2
    <3>3. QED
      BY <3>1, <3>2
  <2>5. QED
    BY <2>2, <2>3, <2>4, SeqEqual
<1>8. tail = Stored(data, type)
  <2>1. n + 2 \in Nat \ {0} /\ n + 5 \in Nat /\ n + 2 <= n + 5 /\ (n + 5) - (n + 2) + 1 = 4
    BY ONLY <1>0
  <2>2. /\ tail \in Seq(Nat) /\ Len(tail) = 4 /\ \A m \in 1..4 : tail[m] = p[(n + 2) - 1 + m]
    BY <2>1, SliceIs
  <2>3. ASSUME NEW m \in 1..4 PROVE tail[m] = Stored(data, type)[m]
    <3>0. m \in 1..4
      OBVIOUS
    <3>1. (n + 2) - 1 + m = n + 1 + m /\ n + 1 + m \in 1..n + 5
      BY ONLY <1>0, <3>0
    <3>2. p[n + 1 + m] = code[n + 1 + m] /\ code[n + 1 + m] = Stored(data, type)[m]
      BY <1>1, <3>1 DEF code
    <3>3. QED
      BY <2>2, <3>1, <3>2
  <2>4. Stored(data, type) \in Seq(Nat)
    BY <1>5, OctetsOK
  <2>5. QED
    BY <1>5, <2>2, <2>3, <2>4, SeqEqual
<1>9. Value(Append(data, type), address) = Checksum(Append(data, type))
  BY <1>5, ValueIsChecksum
<1>10. [block |-> IF type = 0 THEN SubSeq(p, 1, n) ELSE << >>, type |-> type] = ReadAs(item)
  <2>1. CASE type = 0
    BY <1>4, <1>12, <2>1 DEF ReadAs, type
  <2>2. CASE type = 1
    BY <2>2 DEF ReadAs, type
  <2>3. QED
    BY <1>1, <2>1, <2>2
<1>11. QED
  BY <1>1, <1>5, <1>6, <1>7, <1>8, <1>9, <1>10

\* A block with one octet that is another one is refused.
LEMMA Refuses ==
  ASSUME NEW item \in Item, Has(item, "block"), NEW p \in Seq(Octet), NEW address \in Int,
         NEW n, n = Len(item.block), n + 5 <= Len(p),
         NEW hit \in 1..n + 5, p[hit] # Code(item)[hit],
         \A m \in 1..n + 5 : m # hit => p[m] = Code(item)[m]
  PROVE  Number(Value(SubSeq(p, 1, n + 1), address))
           # Unmask(DecodeFixed32(SubSeq(p, n + 2, n + 5)))
<1> DEFINE data == item.block
           type == item.type
           code == Code(item)
           whole == SubSeq(p, 1, n + 1)
           tail == SubSeq(p, n + 2, n + 5)
           wrote == Append(data, type)
           stored == Stored(data, type)
<1>1. /\ data \in Seq(Octet) /\ type \in Octet /\ n \in Nat
      /\ \A m \in 1..n : code[m] = data[m]
      /\ code[n + 1] = type /\ \A i \in 1..4 : code[n + 1 + i] = stored[i]
  BY BlockOK
<1>0. n \in Nat
  BY <1>1
<1>2. Len(p) \in Nat
  BY LenProperties
<1>3. /\ wrote \in Seq(Octet) /\ stored \in Seq(Octet) /\ Len(stored) = 4
      /\ Unmask(DecodeFixed32(stored)) = Number(Checksum(wrote))
      /\ Checksum(wrote) \in Register
  BY <1>1, TrailerIs
<1>4. Len(wrote) = n + 1 /\ wrote[n + 1] = type /\ \A m \in 1..n : wrote[m] = data[m]
  BY <1>1, AppendProperties
<1> HIDE DEF code, data, type, stored, wrote
<1>5. \A m \in 1..n + 1 : wrote[m] = code[m]
  <2> SUFFICES ASSUME NEW m \in 1..n + 1 PROVE wrote[m] = code[m]
    OBVIOUS
  <2>1. m = n + 1 \/ m \in 1..n
    BY <1>0
  <2>2. QED
    BY <1>1, <1>4, <2>1
<1>6. /\ whole \in Seq(Octet) /\ Len(whole) = n + 1 /\ \A m \in 1..n + 1 : whole[m] = p[m]
  <2>1. 1 \in Nat \ {0} /\ n + 1 \in Nat /\ 1 <= n + 1 /\ n + 1 <= Len(p) /\ (n + 1) - 1 + 1 = n + 1
    BY <1>0, <1>2
  <2>2. /\ whole \in Seq(Octet) /\ Len(whole) = n + 1
        /\ \A m \in 1..n + 1 : whole[m] = p[1 - 1 + m]
    BY <2>1, SliceIs
  <2>3. \A m \in 1..n + 1 : 1 - 1 + m = m
    BY ONLY <1>0
  <2>4. QED
    BY <2>2, <2>3
<1>7. /\ tail \in Seq(Octet) /\ Len(tail) = 4 /\ \A i \in 1..4 : tail[i] = p[n + 1 + i]
  <2>1. n + 2 \in Nat \ {0} /\ n + 5 \in Nat /\ n + 2 <= n + 5 /\ (n + 5) - (n + 2) + 1 = 4
    BY ONLY <1>0
  <2>2. /\ tail \in Seq(Octet) /\ Len(tail) = 4 /\ \A m \in 1..4 : tail[m] = p[(n + 2) - 1 + m]
    BY <2>1, SliceIs
  <2>3. \A m \in 1..4 : (n + 2) - 1 + m = n + 1 + m
    BY ONLY <1>0
  <2>4. QED
    BY <2>2, <2>3
<1>8. Value(whole, address) = Checksum(whole) /\ Checksum(whole) \in Register
  BY <1>6, ValueIsChecksum, ChecksumRegister
<1> HIDE DEF whole, tail
<1>9. CASE hit \in 1..n + 1
  <2>1. whole[hit] # wrote[hit] /\ hit \in 1..Len(whole)
    BY <1>5, <1>6, <1>9 DEF code
  <2>2. \A m \in 1..Len(whole) : m # hit => whole[m] = wrote[m]
    <3>1. \A m \in 1..n + 1 : m \in 1..n + 5
      BY ONLY <1>0
    <3>2. QED
      BY <1>5, <1>6, <3>1 DEF code
  <2>3. Checksum(whole) # Checksum(wrote)
    BY <1>3, <1>4, <1>6, <2>1, <2>2, ChecksumTells
  <2>4. Number(Checksum(whole)) # Number(Checksum(wrote))
    BY <1>3, <1>8, <2>3, NumberInjective
  <2>5. tail = stored
    <3>1. ASSUME NEW i \in 1..4 PROVE tail[i] = stored[i]
      <4>1. n + 1 + i \in 1..n + 5 /\ n + 1 + i # hit
        <5>1. n \in Nat /\ i \in 1..4
          BY <1>0
        <5>2. QED
          BY ONLY <1>9, <5>1
      <4>2. QED
        BY <1>1, <1>7, <4>1 DEF code
    <3>2. tail \in Seq(Octet) /\ stored \in Seq(Octet) /\ Len(tail) = 4 /\ Len(stored) = 4
      BY <1>3, <1>7
    <3>3. QED
      BY ONLY <3>1, <3>2, SeqEqual
  <2>6. QED
    BY <1>3, <1>8, <2>4, <2>5 DEF whole, tail
<1>10. CASE hit \notin 1..n + 1
  <2>1. whole = wrote
    <3>1. ASSUME NEW m \in 1..n + 1 PROVE whole[m] = wrote[m]
      <4>1. m \in 1..n + 5 /\ m # hit
        BY <1>0, <1>10
      <4>2. QED
        BY <1>5, <1>6, <4>1 DEF code
    <3>2. /\ whole \in Seq(Octet) /\ wrote \in Seq(Octet)
          /\ Len(whole) = n + 1 /\ Len(wrote) = n + 1
      BY <1>3, <1>4, <1>6
    <3>3. QED
      BY ONLY <3>1, <3>2, SeqEqual
  <2>2. PICK i \in 1..4 : hit = n + 1 + i
    <3>1. hit - (n + 1) \in 1..4 /\ hit = n + 1 + (hit - (n + 1))
      <4>1. n \in Nat /\ hit \in 1..n + 5
        BY <1>0
      <4>2. QED
        BY ONLY <1>10, <4>1
    <3>2. QED
      BY <3>1
  <2>3. tail[i] # stored[i]
    BY <1>1, <1>7, <2>2 DEF code
  <2>4. \A j \in 1..4 : tail[j] \in Octet /\ stored[j] \in Octet
    BY <1>3, <1>7, ElementOfSeq
  <2>5. DecodeFixed32(tail) # DecodeFixed32(stored)
    BY <2>3, <2>4, DecodeTells
  <2>6. Unmask(DecodeFixed32(tail)) # Unmask(DecodeFixed32(stored))
    <3>1. DecodeFixed32(tail) \in 0..Low * High - 1 /\ DecodeFixed32(stored) \in 0..Low * High - 1
      BY <2>4, DecodeBound
    <3>2. QED
      BY <2>5, <3>1, UnmaskInjective
  <2>7. QED
    BY <1>3, <1>8, <2>1, <2>6 DEF whole, tail
<1>11. QED
  BY <1>9, <1>10

-----------------------------------------------------------------------------
(* Format: writing.                                                        *)

\* What does not change what the invariant is about keeps it.
LEMMA FormatSame ==
  ASSUME FormatInv, UNCHANGED <<dst, room, put, input, cut, got, failed, altered>>
  PROVE  FormatInv'
<1>1. /\ dst' = dst /\ room' = room /\ put' = put /\ input' = input /\ cut' = cut
      /\ got' = got /\ failed' = failed /\ altered' = altered
  OBVIOUS
<1>2. RefusesOnly /\ (OnlyBlocks => dst \in Seq(Octet)) /\ (~altered => CodingInv)
      /\ (altered => AlteredInv)
  BY DEF FormatInv
<1>3. RefusesOnly'
  BY ONLY <1>1, <1>2 DEF RefusesOnly, Expected, Has, kBlockTrailerSize
<1>4. OnlyBlocks' <=> OnlyBlocks
  BY ONLY <1>1 DEF OnlyBlocks, Has
<1>5. ~altered' => CodingInv'
  BY <1>1, <1>2, CodingStep DEF codingVars
<1>6. ASSUME altered PROVE AlteredInv'
  <2>1. /\ input \in Seq(Octet) /\ dst \in Seq(Octet) /\ ~cut /\ OnlyBlocks
        /\ put \in Seq(Item) /\ got \in Seq(Item) /\ Len(got) <= Len(put)
        /\ ReadsAs /\ RoomExact
    BY <1>2, <1>6 DEF AlteredInv
  <2>2. PICK at \in [0..Len(put) -> 0..Len(dst)] : Layout(at) /\ \E hit \in Nat : HitOK(at, hit)
    BY <1>2, <1>6 DEF AlteredInv
  <2>3. PICK hit \in Nat : HitOK(at, hit)
    BY <2>2
  <2>4. ReadsAs' /\ RoomExact'
    BY ONLY <1>1, <2>1 DEF ReadsAs, RoomExact
  <2>5. Layout(at)'
    BY <1>1, <2>2, LayoutSame
  <2>6. HitOK(at, hit)'
    BY ONLY <1>1, <2>3 DEF HitOK
  <2>7. at \in [0..Len(put') -> 0..Len(dst')]
    BY <1>1, <2>2
  <2>8. \E h \in Nat : HitOK(at, h)'
    BY <2>6
  <2>9. /\ input' \in Seq(Octet) /\ dst' \in Seq(Octet) /\ ~cut' /\ OnlyBlocks'
        /\ put' \in Seq(Item) /\ got' \in Seq(Item) /\ Len(got') <= Len(put')
    BY <1>1, <1>4, <2>1
  <2>10. QED
    BY <2>4, <2>5, <2>7, <2>8, <2>9, Zenon DEF AlteredInv
<1>7. QED
  BY <1>1, <1>2, <1>3, <1>4, <1>5, <1>6 DEF FormatInv

\* Init.
LEMMA FormatInitInv == FormatInit => FormatInv
<1> SUFFICES ASSUME FormatInit PROVE FormatInv
  OBVIOUS
<1>1. CodingInv /\ ~altered
  BY CodingInitInv DEF FormatInit
<1>2. dst = << >> /\ ~failed
  BY DEF FormatInit, CodingInit
<1>3. << >> \in Seq(Octet)
  OBVIOUS
<1>4. RefusesOnly
  BY <1>2 DEF RefusesOnly
<1>5. QED
  BY <1>1, <1>2, <1>3, <1>4 DEF FormatInv

\* Before reading nothing is altered.
LEMMA NotAltered == ASSUME FormatInv, input = NULL PROVE ~altered /\ CodingInv
<1>1. ASSUME altered PROVE FALSE
  <2>1. input \in Seq(Octet)
    BY <1>1 DEF FormatInv, AlteredInv
  <2>2. input \in Seq(Nat)
    BY <2>1, OctetsOK
  <2>3. QED
    BY <2>2, CodingAssumption
<1>2. QED
  BY <1>1 DEF FormatInv

\* A write.
LEMMA FormatPut ==
  ASSUME FormatInv, NEW bytes, NEW item \in Item, NEW length,
         bytes = Code(item), length = Len(bytes), Put(bytes, length, item), altered' = altered
  PROVE  FormatInv'
<1>1. input = NULL /\ dst' = dst \o bytes /\ put' = Append(put, item) /\ failed' = failed
  BY DEF Put
<1>2. ~altered /\ CodingInv
  BY <1>1, NotAltered
<1>3. bytes \in Seq(Nat)
  BY CodeOK
<1>4. CodingInv'
  BY <1>2, <1>3, PutStep
<1>5. ~failed /\ put \in Seq(Item)
  BY <1>1, <1>2 DEF CodingInv
<1>6. RefusesOnly'
  BY <1>1, <1>5 DEF RefusesOnly
<1>7. ASSUME OnlyBlocks' PROVE dst' \in Seq(Octet)
  <2>1. /\ Len(put) \in Nat /\ Len(put') = Len(put) + 1 /\ put'[Len(put) + 1] = item
        /\ \A m \in 1..Len(put) : put'[m] = put[m]
        /\ DOMAIN put = 1..Len(put) /\ DOMAIN put' = 1..Len(put) + 1
    BY <1>1, <1>5, AppendProperties, LenProperties
  <2>2. \A m \in 1..Len(put) + 1 : "block" \in DOMAIN put'[m]
    BY <1>7, <2>1 DEF OnlyBlocks, Has
  <2>3. Has(item, "block")
    <3>1. Len(put) + 1 \in 1..Len(put) + 1
      BY <2>1
    <3>2. QED
      BY <2>1, <2>2, <3>1 DEF Has
  <2>4. OnlyBlocks
    <3>1. \A m \in 1..Len(put) : m \in 1..Len(put) + 1
      BY <2>1
    <3>2. QED
      BY <2>1, <2>2, <3>1 DEF OnlyBlocks, Has
  <2>5. dst \in Seq(Octet)
    BY <2>4 DEF FormatInv
  <2>6. bytes \in Seq(Octet)
    BY <2>3, BlockOK
  <2>7. QED
    BY <1>1, <2>5, <2>6, Joined
<1>8. QED
  BY <1>2, <1>4, <1>6, <1>7 DEF FormatInv

\* A block is written as the definition of the checksum has it.
LEMMA WriteStep ==
  ASSUME FormatInv, NEW data \in Blocks, NEW type \in Types, NEW address \in 0..3,
         WriteRawBlock(data, type, address)
  PROVE  FormatInv'
<1> DEFINE item == [block |-> data, type |-> type]
           n == Len(data)
           crc == EncodeFixed32(Mask(TrailerCrc(data, type, address)))
           bytes == data \o (<<type>> \o crc)
<1>1. item \in Item /\ Has(item, "block") /\ item.block = data /\ item.type = type
  BY DEF Item, Has
<1>2. Put(bytes, n + kBlockTrailerSize, item) /\ altered' = altered
  BY DEF WriteRawBlock
<1> HIDE DEF item
<1>3. data \in Seq(Octet) /\ type \in Octet /\ address \in Int
  <2>1. data \in Seq(Octet)
    BY FormatAssumption
  <2>2. type \in Octet
    BY FormatAssumption, ZeroOneOctets
  <2>3. QED
    BY <2>1, <2>2
<1>4. crc = Stored(data, type)
  <2>1. Extend(Value(data, address), <<type>>, 0) = Checksum(Append(data, type))
    BY <1>3, TrailerOK
  <2>2. QED
    BY <2>1 DEF TrailerCrc, Stored
<1>5. bytes = Code(item)
  <2>1. Code(item) = data \o Trailer(data, type)
    BY <1>1, CodeIs
  <2>2. Trailer(data, type) = <<type>> \o Stored(data, type)
    BY DEF Trailer, Stored
  <2>3. QED
    BY <1>4, <2>1, <2>2
<1> HIDE DEF bytes
<1>6. n + kBlockTrailerSize = Len(bytes)
  BY <1>1, <1>5, BlockOK DEF kBlockTrailerSize
<1>7. QED
  BY <1>1, <1>2, <1>5, <1>6, FormatPut

\* A footer is written.
LEMMA FooterStep ==
  ASSUME FormatInv, NEW meta \in Handles, NEW index \in Handles, PutFooter(meta, index)
  PROVE  FormatInv'
<1> DEFINE item == [footer |-> <<meta, index>>]
           bytes == EncodeFooter(meta, index)
<1>1. /\ item \in Item /\ Has(item, "footer") /\ item.footer[1] = meta /\ item.footer[2] = index
  BY DEF Item, Has
<1>2. Put(bytes, kEncodedLength, item) /\ altered' = altered
  BY DEF PutFooter
<1> HIDE DEF item
<1>3. bytes = Code(item)
  BY <1>1, CodeIs
<1>4. kEncodedLength = Len(bytes)
  BY FooterOK
<1> HIDE DEF bytes
<1>5. QED
  BY <1>1, <1>2, <1>3, <1>4, FormatPut

\* A varint or a slice is written.
LEMMA PutAnyStep == ASSUME FormatInv, PutAny, altered' = altered PROVE FormatInv'
<1>1. PICK item \in Item : Put(Code(item), Len(Code(item)), item)
  BY PutAnyIs
<1>2. QED
  BY <1>1, FormatPut

-----------------------------------------------------------------------------
(* Format: reading.                                                        *)

\* The copy is made, or a varint or a slice is read.
LEMMA ReadAnyStep == ASSUME FormatInv, ReadAny, altered' = altered PROVE FormatInv'
<1>1. ASSUME altered PROVE FALSE
  <2>1. /\ OnlyBlocks /\ put \in Seq(Item) /\ got \in Seq(Item) /\ input \in Seq(Octet)
    BY <1>1 DEF FormatInv, AlteredInv
  <2>2. input # NULL
    BY <2>1, OctetsOK, CodingAssumption
  <2>3. Reads /\ (IsWord \/ IsSlice)
    BY <2>2 DEF ReadAny, Read, GetVarint32, GetLengthPrefixedSlice
  <2>4. Len(got) + 1 \in DOMAIN put
    BY <2>1, <2>3, LenProperties DEF Reads
  <2>5. Expected \in Item /\ Has(Expected, "block")
    BY <2>1, <2>4, ElementOfSeq DEF OnlyBlocks, Expected
  <2>6. ~Has(Expected, "word") /\ ~Has(Expected, "slice")
    BY <2>5, KindsOK, Zenon
  <2>7. QED
    BY <2>3, <2>6 DEF IsWord, IsSlice, Has
<1>2. CodingInv /\ (OnlyBlocks => dst \in Seq(Octet))
  BY <1>1 DEF FormatInv
<1>3. CodingInv'
  BY <1>2, CodingStep DEF CodingNext
<1>4. put' = put /\ dst' = dst
  BY DEF ReadAny, Read, GetVarint32, GetLengthPrefixedSlice
<1>5. OnlyBlocks' => dst' \in Seq(Octet)
  BY <1>2, <1>4 DEF OnlyBlocks, Has
<1>6. RefusesOnly'
  <2>1. CASE \E n \in 0..Len(dst) : Read(n)
    <3>1. ~failed'
      BY <1>2, <2>1 DEF Read, CodingInv
    <3>2. QED
      BY <3>1 DEF RefusesOnly
  <2>2. CASE GetVarint32
    <3>1. Reads /\ IsWord /\ (~failed' \/ got' = got)
      BY <2>2 DEF GetVarint32, Reads
    <3>2. CASE got' = got
      <4>1. Expected' = Expected
        BY <1>4, <3>2 DEF Expected
      <4>2. Expected \in Item
        <5>1. put \in Seq(Item) /\ got \in Seq(Item)
          BY <1>2 DEF CodingInv
        <5>2. Len(got) + 1 \in 1..Len(put)
          BY <3>1, <5>1, LenProperties DEF Reads
        <5>3. QED
          BY <5>1, <5>2, ElementOfSeq DEF Expected
      <4>3. ~Has(Expected, "block")
        BY <3>1, <4>2, KindsOK, Zenon DEF IsWord, Has
      <4>4. ~Has(Expected, "block")'
        BY <4>1, <4>3 DEF Has
      <4>5. QED
        BY <4>4 DEF RefusesOnly
    <3>3. QED
      BY <3>1, <3>2 DEF RefusesOnly
  <2>3. CASE GetLengthPrefixedSlice
    <3>1. ~failed'
      BY <2>3 DEF GetLengthPrefixedSlice, Reads
    <3>2. QED
      BY <3>1 DEF RefusesOnly
  <2>4. QED
    BY <2>1, <2>2, <2>3 DEF ReadAny
<1>7. QED
  BY <1>1, <1>3, <1>5, <1>6 DEF FormatInv

\* A bit changes.
LEMMA AlterStep ==
  ASSUME FormatInv, input # NULL, NEW n \in DOMAIN input, NEW i \in 0..ByteBits - 1, Alter(n, i)
  PROVE  FormatInv'
<1> DEFINE b == input[n]
           c == IF i \in Bits[b] THEN b - Power2[i] ELSE b + Power2[i]
<1>1. /\ ~cut /\ ~altered /\ got = << >> /\ ~failed /\ OnlyBlocks
      /\ input' = [input EXCEPT ![n] = c] /\ altered'
      /\ dst' = dst /\ room' = room /\ put' = put /\ cut' = cut /\ got' = got /\ failed' = failed
  BY DEF Alter
<1>2. CodingInv /\ dst \in Seq(Octet)
  BY <1>1 DEF FormatInv
<1>3. /\ put \in Seq(Item) /\ got \in Seq(Item) /\ Len(got) <= Len(put) /\ ReadsAs /\ RoomExact
      /\ input \in Seq(Nat)
  BY <1>2 DEF CodingInv
<1>4. PICK at \in [0..Len(put) -> 0..Len(dst)] : Layout(at) /\ InputOK(at)
  BY <1>2 DEF CodingInv
<1>5. at[Len(got)] = 0 /\ Len(got) = 0
  BY <1>1, <1>4 DEF Layout
<1>6. Len(input) \in Nat /\ Len(dst) \in Nat /\ DOMAIN input = 1..Len(input)
  BY <1>2, <1>3, LenProperties
<1>7. Len(input) = Len(dst) /\ \A m \in 1..Len(input) : input[m] = dst[m]
  <2>1. /\ 0 + Len(input) <= Len(dst) /\ cut = (0 + Len(input) < Len(dst))
        /\ \A m \in 1..Len(input) : input[m] = dst[0 + m]
    BY <1>4, <1>5 DEF InputOK
  <2>2. ~(0 + Len(input) < Len(dst))
    BY <1>1, <2>1
  <2>3. \A m \in 1..Len(input) : 0 + m = m
    BY <1>6
  <2>4. QED
    BY <1>6, <2>1, <2>2, <2>3
<1>8. \A m \in 1..Len(input) : input[m] \in Octet
  BY <1>2, <1>7, ElementOfSeq
<1>9. c \in Octet /\ c # b
  BY <1>6, <1>8, FlipOK
<1> HIDE DEF c
<1>10. /\ input'[n] = c /\ \A m \in 1..Len(input) : m # n => input'[m] = input[m]
       /\ input' \in [1..Len(input) -> Octet]
  <2>1. input \in [1..Len(input) -> Nat]
    BY <1>3, LenProperties
  <2>2. input' = [m \in 1..Len(input) |-> IF m = n THEN c ELSE input[m]]
    BY <1>1, <1>6, <2>1
  <2>3. QED
    BY <1>6, <1>8, <1>9, <2>2
<1>11. input' \in Seq(Octet) /\ Len(input') = Len(input)
  BY <1>6, <1>10, SequenceIs
<1>12. HitOK(at, n)'
  <2>1. at[Len(got')] = 0
    BY <1>1, <1>5
  <2>2. Len(dst) - 0 = Len(dst) /\ n \in 1..Len(input) /\ 0 + n = n
    BY <1>6
  <2>3. \A m \in 1..Len(input) : 0 + m = m
    BY <1>6
  <2>4. /\ Len(input') = Len(dst') - at[Len(got')]
        /\ n \in 1..Len(input') /\ input'[n] # dst'[at[Len(got')] + n]
    BY <1>1, <1>7, <1>9, <1>10, <1>11, <2>1, <2>2
  <2>5. \A m \in 1..Len(input') : m # n => input'[m] = dst'[at[Len(got')] + m]
    BY <1>1, <1>7, <1>10, <1>11, <2>1, <2>3
  <2>6. QED
    BY <2>4, <2>5 DEF HitOK
<1>13. AlteredInv'
  <2>1. Layout(at)'
    BY <1>1, <1>4, LayoutSame
  <2>2. ReadsAs' /\ RoomExact' /\ OnlyBlocks'
    BY ONLY <1>1, <1>3 DEF ReadsAs, RoomExact, OnlyBlocks, Has
  <2>3. at \in [0..Len(put') -> 0..Len(dst')]
    BY <1>1, <1>4
  <2>4. n \in Nat
    BY <1>6
  <2>5. \E hit \in Nat : HitOK(at, hit)'
    BY <1>12, <2>4
  <2>6. /\ input' \in Seq(Octet) /\ dst' \in Seq(Octet) /\ ~cut'
        /\ put' \in Seq(Item) /\ got' \in Seq(Item) /\ Len(got') <= Len(put')
    BY <1>1, <1>2, <1>3, <1>11
  <2>7. QED
    BY <2>1, <2>2, <2>3, <2>5, <2>6, Zenon DEF AlteredInv
<1>14. RefusesOnly'
  BY <1>1 DEF RefusesOnly
<1>15. dst' \in Seq(Octet)
  BY <1>1, <1>2
<1>16. QED
  BY <1>1, <1>13, <1>14, <1>15 DEF FormatInv

\* What ReadBlock has in front of it.
AcceptedBlock(address) ==
  LET n == Len(Expected.block)
  IN /\ Len(input) >= n + kBlockTrailerSize
     /\ Number(Value(SubSeq(input, 1, n + 1), address))
          = Unmask(DecodeFixed32(SubSeq(input, n + 2, n + 5)))
     /\ input[n + 1] \in {0, 1}

LEMMA ReadBlockIs ==
  ASSUME NEW address \in 0..3, ReadBlock(address)
  PROVE  LET n == Len(Expected.block)
         IN /\ Reads /\ Has(Expected, "block") /\ UNCHANGED <<dst, room, put, cut, altered>>
            /\ AcceptedBlock(address) =>
                 /\ got' = Append(got, [block |-> IF input[n + 1] = 0 THEN SubSeq(input, 1, n)
                                                  ELSE << >>,
                                        type |-> input[n + 1]])
                 /\ input' = After(input, n + 5) /\ failed' = failed
            /\ ~AcceptedBlock(address) => failed' = TRUE /\ input' = input /\ got' = got
<1>1. CASE AcceptedBlock(address)
  BY <1>1 DEF ReadBlock, AcceptedBlock, kBlockTrailerSize
<1>2. CASE ~AcceptedBlock(address)
  BY <1>2 DEF ReadBlock, AcceptedBlock, kBlockTrailerSize
<1>3. QED
  BY <1>1, <1>2

\* A block of a file that is as it was written, whole or cut.
LEMMA ReadBlockStep ==
  ASSUME FormatInv, ~altered, NEW address \in 0..3, ReadBlock(address)
  PROVE  FormatInv'
<1> DEFINE n == Len(Expected.block)
<1>1. /\ Reads /\ Has(Expected, "block")
      /\ dst' = dst /\ room' = room /\ put' = put /\ cut' = cut /\ altered' = altered
      /\ AcceptedBlock(address) =>
           /\ got' = Append(got, [block |-> IF input[n + 1] = 0 THEN SubSeq(input, 1, n) ELSE << >>,
                                  type |-> input[n + 1]])
           /\ input' = After(input, n + 5) /\ failed' = failed
      /\ ~AcceptedBlock(address) => failed' = TRUE /\ input' = input /\ got' = got
  BY ReadBlockIs
<1>2. CodingInv /\ (OnlyBlocks => dst \in Seq(Octet))
  BY DEF FormatInv
<1>3. input # NULL /\ ~failed
  BY <1>1 DEF Reads
<1>4. PICK at \in [0..Len(put) -> 0..Len(dst)] : Layout(at) /\ InputOK(at)
  BY <1>2, <1>3 DEF CodingInv
<1>5. /\ Expected \in Item /\ input \in Seq(Nat) /\ Len(input) \in Nat
      /\ \A m \in 1..Len(Code(Expected)) : m <= Len(input) => input[m] = Code(Expected)[m]
  BY <1>1, <1>2, <1>4, NextItem, Zenon
<1>6. n \in Nat /\ Len(Code(Expected)) = n + 5
  BY <1>1, <1>5, BlockOK
<1>7. OnlyBlocks' => dst' \in Seq(Octet)
  BY <1>1, <1>2 DEF OnlyBlocks, Has
<1>8. CASE n + 5 <= Len(input)
  <2>1. \A m \in 1..n + 5 : input[m] = Code(Expected)[m]
    <3>1. \A m \in 1..n + 5 : m <= Len(input)
      BY ONLY <1>5, <1>6, <1>8
    <3>2. QED
      BY <1>5, <1>6, <3>1
  <2>2. address \in Int
    OBVIOUS
  <2>3. /\ input[n + 1] \in {0, 1}
        /\ [block |-> IF input[n + 1] = 0 THEN SubSeq(input, 1, n) ELSE << >>,
            type |-> input[n + 1]] = ReadAs(Expected)
        /\ Number(Value(SubSeq(input, 1, n + 1), address))
             = Unmask(DecodeFixed32(SubSeq(input, n + 2, n + 5)))
    BY <1>1, <1>5, <1>8, <2>1, <2>2, Accepts
  <2>4. Len(input) >= n + kBlockTrailerSize
    BY <1>5, <1>6, <1>8 DEF kBlockTrailerSize
  <2>5. AcceptedBlock(address)
    BY <2>3, <2>4 DEF AcceptedBlock
  <2>6. got' = Append(got, ReadAs(Expected)) /\ input' = After(input, n + 5) /\ failed' = failed
    BY <1>1, <2>3, <2>5
  <2>7. n + 5 \in Nat /\ n + 5 = Len(Code(Expected)) /\ UNCHANGED <<dst, room, put, cut, failed>>
    BY <1>1, <1>6, <2>6
  <2>8. CodingInv'
    BY <1>1, <1>2, <1>4, <1>8, <2>6, <2>7, Consumed
  <2>9. RefusesOnly'
    BY <1>3, <2>6 DEF RefusesOnly
  <2>10. QED
    BY <1>1, <1>7, <2>8, <2>9 DEF FormatInv
<1>9. CASE Len(input) < n + 5
  <2>1. ~AcceptedBlock(address)
    BY <1>5, <1>6, <1>9 DEF AcceptedBlock, kBlockTrailerSize
  <2>2. failed' = TRUE /\ input' = input /\ got' = got
    BY <1>1, <2>1
  <2>3. Expected' = Expected
    BY <1>1, <2>2 DEF Expected
  <2>4. RefusesOnly'
    <3>1. Len(input') < Len(Expected'.block) + 5
      BY <1>9, <2>2, <2>3
    <3>2. QED
      BY <3>1 DEF RefusesOnly, kBlockTrailerSize
  <2>5. ~IsWord'
    <3>1. ~Has(Expected, "word")
      BY <1>1, <1>5, KindsOK, Zenon
    <3>2. QED
      BY <2>3, <3>1 DEF IsWord, Has
  <2>6. /\ dst \in Seq(Nat) /\ put \in Seq(Item) /\ got \in Seq(Item) /\ Len(got) <= Len(put)
        /\ ReadsAs /\ RoomExact
    BY <1>2 DEF CodingInv
  <2>7. ReadsAs' /\ RoomExact' /\ FailsOnlyCut'
    BY <1>1, <2>2, <2>5, <2>6 DEF ReadsAs, RoomExact, FailsOnlyCut
  <2>8. Layout(at)'
    BY <1>1, <1>4, LayoutSame
  <2>9. InputOK(at)'
    BY ONLY <1>1, <1>4, <2>2 DEF InputOK
  <2>10. at \in [0..Len(put') -> 0..Len(dst')]
    BY <1>1, <1>4
  <2>11. CodingInv'
    BY <1>1, <1>3, <1>5, <2>2, <2>6, <2>7, <2>8, <2>9, <2>10, Zenon DEF CodingInv
  <2>12. QED
    BY <1>1, <1>7, <2>4, <2>11 DEF FormatInv
<1>10. QED
  BY <1>5, <1>6, <1>8, <1>9

\* A block of a file that was altered.
LEMMA ReadAlteredStep ==
  ASSUME FormatInv, altered, NEW address \in 0..3, ReadBlock(address)
  PROVE  FormatInv'
<1> DEFINE n == Len(Expected.block)
           g == Len(got)
           code == Code(Expected)
<1>1. /\ Reads /\ Has(Expected, "block")
      /\ dst' = dst /\ room' = room /\ put' = put /\ cut' = cut /\ altered' = altered
      /\ AcceptedBlock(address) =>
           /\ got' = Append(got, [block |-> IF input[n + 1] = 0 THEN SubSeq(input, 1, n) ELSE << >>,
                                  type |-> input[n + 1]])
           /\ input' = After(input, n + 5) /\ failed' = failed
      /\ ~AcceptedBlock(address) => failed' = TRUE /\ input' = input /\ got' = got
  BY ReadBlockIs
<1>2. /\ input \in Seq(Octet) /\ dst \in Seq(Octet) /\ ~cut /\ OnlyBlocks
      /\ put \in Seq(Item) /\ got \in Seq(Item) /\ g <= Len(put)
      /\ ReadsAs /\ RoomExact
  BY DEF FormatInv, AlteredInv
<1>3. PICK at \in [0..Len(put) -> 0..Len(dst)] : Layout(at) /\ \E h \in Nat : HitOK(at, h)
  BY DEF FormatInv, AlteredInv
<1>4. PICK hit \in Nat : HitOK(at, hit)
  BY <1>3
<1>5. /\ g \in Nat /\ Len(put) \in Nat /\ Len(input) \in Nat /\ Len(dst) \in Nat /\ g < Len(put)
  BY <1>1, <1>2, LenProperties DEF Reads
<1>6. g + 1 \in 1..Len(put) /\ (g + 1) - 1 = g /\ g \in 0..Len(put) /\ g + 1 \in 0..Len(put)
  BY <1>5
<1>7. Expected \in Item
  BY <1>2, <1>6, ElementOfSeq DEF Expected
<1>8. n \in Nat /\ Len(code) = n + 5
  BY <1>1, <1>7, BlockOK
<1> DEFINE s == at[g]
<1>9. s \in Nat /\ at[g + 1] = s + (n + 5) /\ at[g + 1] <= Len(dst)
      /\ \A m \in 1..n + 5 : dst[s + m] = code[m]
  <2>1. at[g] \in 0..Len(dst) /\ at[g + 1] \in 0..Len(dst)
    BY <1>3, <1>6
  <2>2. at[g + 1] = at[g] + Len(code) /\ \A m \in 1..Len(code) : dst[at[g] + m] = code[m]
    BY <1>3, <1>6 DEF Layout, Expected
  <2>3. QED
    BY <1>5, <1>8, <2>1, <2>2
<1>10. /\ Len(input) = Len(dst) - s
       /\ hit \in 1..Len(input) /\ input[hit] # dst[s + hit]
       /\ \A m \in 1..Len(input) : m # hit => input[m] = dst[s + m]
  BY <1>4 DEF HitOK
<1> HIDE DEF n, g, code, s
<1>11. n + 5 <= Len(input) /\ \A m \in 1..n + 5 : m \in 1..Len(input)
  BY <1>5, <1>8, <1>9, <1>10
<1>12. RefusesOnly' /\ (OnlyBlocks' <=> OnlyBlocks)
  BY <1>1 DEF RefusesOnly, OnlyBlocks, Has
<1>13. Layout(at)' /\ at \in [0..Len(put') -> 0..Len(dst')] /\ RoomExact'
  <2>1. Layout(at)'
    BY <1>1, <1>3, LayoutSame
  <2>2. RoomExact'
    BY ONLY <1>1, <1>2 DEF RoomExact
  <2>3. QED
    BY <1>1, <1>3, <2>1, <2>2
<1>14. CASE ~AcceptedBlock(address)
  <2>1. input' = input /\ got' = got
    BY <1>1, <1>14
  <2>2. HitOK(at, hit)'
    BY ONLY <1>1, <1>4, <2>1 DEF HitOK
  <2>3. ReadsAs'
    BY ONLY <1>1, <1>2, <2>1 DEF ReadsAs
  <2>4. \E h \in Nat : HitOK(at, h)'
    BY <2>2
  <2>5. /\ input' \in Seq(Octet) /\ dst' \in Seq(Octet) /\ ~cut' /\ OnlyBlocks'
        /\ put' \in Seq(Item) /\ got' \in Seq(Item) /\ Len(got') <= Len(put')
    BY <1>1, <1>2, <1>12, <2>1 DEF g
  <2>6. AlteredInv'
    BY <1>13, <2>3, <2>4, <2>5, Zenon DEF AlteredInv
  <2>7. QED
    BY <1>1, <1>12, <2>5, <2>6 DEF FormatInv
<1>15. CASE AcceptedBlock(address)
  <2>1. n + 5 < hit
    <3> SUFFICES ASSUME hit <= n + 5 PROVE FALSE
      BY <1>8
    <3>1. hit \in 1..n + 5 /\ address \in Int
      BY <1>8, <1>10
    <3>2. input[hit] # code[hit] /\ \A m \in 1..n + 5 : m # hit => input[m] = code[m]
      BY <1>9, <1>10, <1>11, <3>1
    <3>3. Number(Value(SubSeq(input, 1, n + 1), address))
            # Unmask(DecodeFixed32(SubSeq(input, n + 2, n + 5)))
      BY <1>1, <1>2, <1>7, <1>11, <3>1, <3>2, Refuses DEF n, code
    <3>4. QED
      BY <1>15, <3>3 DEF AcceptedBlock, n
  <2>2. \A m \in 1..n + 5 : input[m] = code[m]
    <3>1. \A m \in 1..n + 5 : m # hit
      BY <1>8, <2>1
    <3>2. QED
      BY <1>9, <1>10, <1>11, <3>1
  <2>3. [block |-> IF input[n + 1] = 0 THEN SubSeq(input, 1, n) ELSE << >>,
         type |-> input[n + 1]] = ReadAs(Expected)
    <3>1. input \in Seq(Nat) /\ address \in Int
      BY <1>2, OctetsOK
    <3>2. QED
      BY <1>1, <1>7, <1>11, <2>2, <3>1, Accepts DEF n, code
  <2> DEFINE read == ReadAs(Expected)
  <2>4. got' = Append(got, read) /\ input' = After(input, n + 5) /\ read \in Item
    BY <1>1, <1>7, <1>15, <2>3, ReadAsOK DEF n
  <2> HIDE DEF read
  <2>5. /\ got' \in Seq(Item) /\ Len(got') = g + 1 /\ got'[g + 1] = read
        /\ \A m \in 1..g : got'[m] = got[m]
    BY <1>2, <2>4, AppendProperties DEF g
  <2>6. /\ input' \in Seq(Octet) /\ Len(input') = Len(input) - (n + 5)
        /\ \A m \in 1..Len(input) - (n + 5) : input'[m] = input[n + 5 + m]
    <3>1. input \in Seq(Nat) /\ input \in Seq(Octet)
      BY <1>2, OctetsOK
    <3>2. /\ n + 5 \in 0..Len(input) /\ (n + 5) + 1 = n + 6 /\ n + 6 \in Nat \ {0}
          /\ n + 6 <= Len(input) /\ Len(input) \in Nat
      BY <1>5, <1>8, <1>10, <2>1
    <3>3. /\ Len(After(input, n + 5)) = Len(input) - (n + 5)
          /\ \A m \in 1..Len(input) - (n + 5) : After(input, n + 5)[m] = input[n + 5 + m]
      BY <3>1, <3>2, AfterOK
    <3>4. SubSeq(input, n + 6, Len(input)) \in Seq(Octet)
      BY ONLY <3>1, <3>2, SliceIs
    <3>5. After(input, n + 5) \in Seq(Octet)
      BY <3>2, <3>4 DEF After
    <3>6. QED
      BY <2>4, <3>3, <3>5
  <2>7. ReadsAs'
    <3>1. DOMAIN got = 1..g /\ DOMAIN got' = 1..g + 1
      BY <1>2, <2>5, LenProperties DEF g
    <3>2. \A m \in 1..g : got[m] = ReadAs(put[m])
      BY <1>2, <3>1 DEF ReadsAs
    <3>3. \A m \in 1..g + 1 : m \in 1..g \/ m = g + 1
      BY <1>5
    <3>4. read = ReadAs(put[g + 1])
      BY DEF Expected, g, read
    <3>5. QED
      BY <1>1, <2>5, <3>1, <3>2, <3>3, <3>4 DEF ReadsAs
  <2>8. PICK new \in Nat : new = hit - (n + 5)
    BY <1>8, <2>1
  <2>9. HitOK(at, new)'
    <3>1. at[Len(got')] = s + (n + 5) /\ dst' = dst
      BY <1>1, <1>9, <2>5
    <3>2. /\ Len(input) - (n + 5) = Len(dst) - (s + (n + 5))
          /\ new \in 1..Len(input) - (n + 5) /\ n + 5 + new = hit
          /\ s + (n + 5) + new = s + hit
      <4>1. n \in Nat /\ s \in Nat /\ hit \in 1..Len(input) /\ Len(input) = Len(dst) - s
            /\ Len(dst) \in Nat /\ Len(input) \in Nat
        BY <1>5, <1>8, <1>9, <1>10
      <4>2. QED
        BY ONLY <2>1, <2>8, <4>1
    <3>3. input'[new] # dst[s + (n + 5) + new]
      BY <1>10, <2>6, <3>2
    <3>4. ASSUME NEW m \in 1..Len(input) - (n + 5), m # new
          PROVE  input'[m] = dst[s + (n + 5) + m]
      <4>1. n + 5 + m \in 1..Len(input) /\ n + 5 + m # hit /\ s + (n + 5) + m = s + (n + 5 + m)
        <5>1. n \in Nat /\ s \in Nat /\ hit \in Nat /\ Len(input) \in Nat
          BY <1>5, <1>8, <1>9
        <5>2. QED
          BY ONLY <3>4, <5>1
      <4>2. QED
        BY <1>10, <2>6, <4>1
    <3>5. \A m \in 1..Len(input) - (n + 5) : m # new => input'[m] = dst[s + (n + 5) + m]
      BY <3>4
    <3>6. /\ Len(input') = Len(dst') - at[Len(got')] /\ new \in 1..Len(input')
          /\ input'[new] # dst'[at[Len(got')] + new]
      BY <2>6, <3>1, <3>2, <3>3
    <3>7. \A m \in 1..Len(input') : m # new => input'[m] = dst'[at[Len(got')] + m]
      BY <2>6, <3>1, <3>5
    <3>8. QED
      BY <3>6, <3>7 DEF HitOK
  <2>10. \E h \in Nat : HitOK(at, h)'
    BY <2>9
  <2>11. /\ input' \in Seq(Octet) /\ dst' \in Seq(Octet) /\ ~cut' /\ OnlyBlocks'
         /\ put' \in Seq(Item) /\ got' \in Seq(Item) /\ Len(got') <= Len(put')
    BY <1>1, <1>2, <1>5, <1>12, <2>5, <2>6
  <2>12. AlteredInv'
    BY <1>13, <2>7, <2>10, <2>11, Zenon DEF AlteredInv
  <2>13. QED
    BY <1>1, <1>12, <2>11, <2>12 DEF FormatInv
<1>16. QED
  BY <1>14, <1>15

-----------------------------------------------------------------------------
(* Format: the theorems.                                                   *)

\* Every step keeps the invariant.
LEMMA FormatStep == FormatInv /\ [FormatNext]_formatVars => FormatInv'
<1> SUFFICES ASSUME FormatInv, [FormatNext]_formatVars PROVE FormatInv'
  OBVIOUS
<1>1. CASE PutAny /\ altered' = altered
  BY <1>1, PutAnyStep
<1>2. CASE ReadAny /\ altered' = altered
  BY <1>2, ReadAnyStep
<1>3. ASSUME NEW data \in Blocks, NEW type \in Types, NEW address \in 0..3,
             WriteRawBlock(data, type, address)
      PROVE  FormatInv'
  BY <1>3, WriteStep
<1>4. ASSUME NEW meta \in Handles, NEW index \in Handles, PutFooter(meta, index)
      PROVE  FormatInv'
  BY <1>4, FooterStep
<1>5. ASSUME input # NULL, NEW n \in DOMAIN input, NEW i \in 0..ByteBits - 1, Alter(n, i)
      PROVE  FormatInv'
  BY <1>5, AlterStep
<1>6. ASSUME NEW address \in 0..3, ReadBlock(address) PROVE FormatInv'
  BY <1>6, ReadBlockStep, ReadAlteredStep
<1>7. CASE OpenFooter \/ UNCHANGED formatVars
  BY <1>7, FormatSame DEF OpenFooter, formatVars, codingVars
<1>8. QED
  BY <1>1, <1>2, <1>3, <1>4, <1>5, <1>6, <1>7 DEF FormatNext

\* The file and what is left to read of it, whatever is written, wherever it is
\* cut and whatever bit is altered.
THEOREM FormatInvariance == FormatSpec => []FormatInv
<1>1. QED
  BY FormatInitInv, FormatStep, PTL DEF FormatSpec

\* What a trailer stores is the checksum by its definition, of contents and
\* type together: for every width, polynomial, address and block.
THEOREM FormatChecksumExact == FormatSpec => []ChecksumExact
<1>1. FormatInv => ChecksumExact
  <2> SUFFICES ASSUME FormatInv, input = NULL, put # << >>, Has(Last(put), "block")
               PROVE  Unmask(DecodeFixed32(SubSeq(dst, Len(dst) - 3, Len(dst))))
                        = Number(Checksum(Append(Last(put).block, Last(put).type)))
    BY DEF ChecksumExact
  <2> DEFINE k == Len(put)
             item == Last(put)
             data == item.block
             type == item.type
             n == Len(data)
             l == Len(dst)
  <2>1. dst \in Seq(Nat) /\ put \in Seq(Item) /\ CodingInv
    BY NotAltered DEF CodingInv
  <2>2. PICK at \in [0..k -> 0..l] : Layout(at)
    BY <2>1 DEF CodingInv
  <2>3. k \in Nat /\ l \in Nat /\ k # 0
    BY <2>1, LenProperties, EmptySeq
  <2>4. k \in 1..k /\ item = put[k]
    BY <2>3 DEF Last
  <2>5. item \in Item
    BY <2>1, <2>4, ElementOfSeq
  <2>6. /\ data \in Seq(Octet) /\ type \in Octet /\ n \in Nat
        /\ Len(Code(item)) = n + 5 /\ \A i \in 1..4 : Code(item)[n + 1 + i] = Stored(data, type)[i]
    BY <2>5, BlockOK
  <2>7. /\ at[k] = l /\ at[k] = at[k - 1] + (n + 5)
        /\ \A m \in 1..n + 5 : dst[at[k - 1] + m] = Code(item)[m]
    <3>1. at[Len(put)] = Len(dst)
      BY <2>2 DEF Layout
    <3>2. /\ at[k] = at[k - 1] + Len(Code(put[k]))
          /\ \A m \in 1..Len(Code(put[k])) : dst[at[k - 1] + m] = Code(put[k])[m]
      BY <2>2, <2>4 DEF Layout
    <3> HIDE DEF item, n
    <3>3. QED
      BY <2>4, <2>6, <3>1, <3>2
  <2>8. at[k - 1] \in Nat
    BY <2>2, <2>3
  <2>9. /\ Stored(data, type) \in Seq(Octet) /\ Len(Stored(data, type)) = 4
        /\ Unmask(DecodeFixed32(Stored(data, type))) = Number(Checksum(Append(data, type)))
    BY <2>6, TrailerIs
  <2> HIDE DEF k, item, data, type, n, l
  <2>10. SubSeq(dst, l - 3, l) = Stored(data, type)
    <3> DEFINE f == l - 3
               tail == SubSeq(dst, f, l)
    <3>1. f \in Nat \ {0} /\ l \in Nat /\ f <= l /\ l - f + 1 = 4 /\ l <= Len(dst)
      <4>1. l = at[k - 1] + (n + 5) /\ n \in Nat /\ at[k - 1] \in Nat
        BY <2>6, <2>7, <2>8
      <4>2. l \in Nat /\ l >= 5
        BY ONLY <4>1
      <4>3. l - 3 \in Nat \ {0} /\ l - 3 <= l /\ l <= l
        BY ONLY <4>2
      <4>4. l - (l - 3) + 1 = 4
        BY ONLY <4>2
      <4>5. QED
        BY <4>2, <4>3, <4>4 DEF l
    <3> HIDE DEF f
    <3>2. tail \in Seq(Nat) /\ Len(tail) = l - f + 1 /\ \A i \in 1..l - f + 1 : tail[i] = dst[f - 1 + i]
      <4>1. dst \in Seq(Nat)
        BY <2>1
      <4>2. tail \in Seq(Nat) /\ Len(tail) = l - f + 1
        BY ONLY <3>1, <4>1, SliceIs
      <4>3. \A i \in 1..l - f + 1 : tail[i] = dst[f - 1 + i]
        BY ONLY <3>1, <4>1, SliceIs
      <4>4. QED
        BY <4>2, <4>3
    <3>3. Len(tail) = 4 /\ \A i \in 1..4 : tail[i] = dst[f - 1 + i]
      BY ONLY <3>1, <3>2
    <3>4. ASSUME NEW i \in 1..4 PROVE tail[i] = Stored(data, type)[i]
      <4>1. f - 1 + i = at[k - 1] + (n + 1 + i) /\ n + 1 + i \in 1..n + 5
        <5>1. l = at[k - 1] + (n + 5) /\ n \in Nat /\ at[k - 1] \in Nat /\ i \in 1..4
          BY <2>6, <2>7, <2>8
        <5> DEFINE before == at[k - 1]
        <5> HIDE DEF before
        <5>2. l = before + (n + 5) /\ n \in Nat /\ before \in Nat /\ f = l - 3
          BY <5>1 DEF before, f
        <5>3. f - 1 + i = before + (n + 1 + i) /\ n + 1 + i \in 1..n + 5
          BY ONLY <5>1, <5>2
        <5>4. QED
          BY <5>3 DEF before
      <4>2. tail[i] = dst[at[k - 1] + (n + 1 + i)]
        BY <3>3, <4>1
      <4>3. dst[at[k - 1] + (n + 1 + i)] = Code(item)[n + 1 + i]
        BY <2>7, <4>1
      <4>4. QED
        BY <2>6, <4>2, <4>3
    <3>5. Stored(data, type) \in Seq(Nat)
      BY <2>9, OctetsOK
    <3>6. QED
      BY <2>9, <3>2, <3>3, <3>4, <3>5, SeqEqual DEF f
  <2>11. QED
    BY <2>6, <2>9, <2>10 DEF k, item, data, type, n, l
<1>2. QED
  BY FormatInvariance, <1>1, PTL

\* A block that was altered has not been read.
LEMMA AlteredAhead ==
  ASSUME FormatInv, altered
  PROVE  Len(got) < Len(put) /\ ~IsWord
<1>1. /\ dst \in Seq(Octet) /\ put \in Seq(Item) /\ got \in Seq(Item) /\ Len(got) <= Len(put)
      /\ input \in Seq(Octet)
  BY DEF FormatInv, AlteredInv
<1>2. PICK at \in [0..Len(put) -> 0..Len(dst)] : Layout(at) /\ \E hit \in Nat : HitOK(at, hit)
  BY DEF FormatInv, AlteredInv
<1>3. PICK hit \in Nat : HitOK(at, hit)
  BY <1>2
<1>4. at[Len(put)] = Len(dst) /\ Len(input) = Len(dst) - at[Len(got)] /\ hit \in 1..Len(input)
  BY <1>2, <1>3 DEF Layout, HitOK
<1>5. Len(got) \in Nat /\ Len(put) \in Nat /\ Len(dst) \in Nat /\ Len(input) \in Nat
  BY <1>1, LenProperties
<1>6. Len(got) # Len(put)
  <2> SUFFICES ASSUME Len(got) = Len(put) PROVE FALSE
    OBVIOUS
  <2>1. at[Len(got)] = Len(dst)
    BY <1>4
  <2>2. QED
    BY <1>4, <1>5, <2>1
<1>7. Len(got) < Len(put)
  BY <1>1, <1>5, <1>6
<1>8. Len(got) + 1 \in DOMAIN put
  BY <1>1, <1>5, <1>7, LenProperties
<1>9. Expected \in Item /\ Has(Expected, "block")
  <2>1. OnlyBlocks
    BY DEF FormatInv, AlteredInv
  <2>2. QED
    BY <1>1, <1>8, <2>1, ElementOfSeq, LenProperties DEF OnlyBlocks, Expected
<1>10. ~IsWord
  <2>1. ~Has(Expected, "word")
    BY <1>9, KindsOK, Zenon
  <2>2. QED
    BY <2>1 DEF IsWord, Has
<1>11. QED
  BY <1>7, <1>10

\* ReadBlock refuses a file with any one bit altered at the block that holds it,
\* and refuses no block that is whole.
THEOREM FormatAlterationCaught == FormatSpec => []AlterationCaught
<1>1. FormatInv => AlterationCaught
  <2> SUFFICES ASSUME FormatInv PROVE AlterationCaught
    OBVIOUS
  <2>1. RefusesOnly
    BY DEF FormatInv
  <2>2. altered => Len(got) < Len(put)
    BY AlteredAhead
  <2>3. QED
    BY <2>1, <2>2 DEF AlterationCaught
<1>2. QED
  BY FormatInvariance, <1>1, PTL

\* Whatever lies between varints and slices, and whatever was altered, nothing
\* is read that was not put.
THEOREM FormatReadsBack ==
  ASSUME Types \subseteq {0}
  PROVE  FormatSpec => []ReadsBack
<1>1. FormatInv => ReadsBack
  BY ReadsAsIs DEF FormatInv, CodingInv, AlteredInv
<1>2. QED
  BY FormatInvariance, <1>1, PTL

\* GetVarint32 returns false at the end of a cut file only.
THEOREM FormatFailsOnlyCut == FormatSpec => []FailsOnlyCut
<1>1. FormatInv => FailsOnlyCut
  <2> SUFFICES ASSUME FormatInv PROVE FailsOnlyCut
    OBVIOUS
  <2>1. CASE ~altered
    BY <2>1 DEF FormatInv, CodingInv
  <2>2. CASE altered
    BY <2>2, AlteredAhead DEF FailsOnlyCut
  <2>3. QED
    BY <2>1, <2>2
<1>2. QED
  BY FormatInvariance, <1>1, PTL

\* What the builder adds to its offset is what it writes.
THEOREM FormatRoomExact == FormatSpec => []RoomExact
<1>1. FormatInv => RoomExact
  BY DEF FormatInv, CodingInv, AlteredInv
<1>2. QED
  BY FormatInvariance, <1>1, PTL

-----------------------------------------------------------------------------
(* Format: the footer.                                                     *)

\* A varint of 64 bits is read as what it stands for.
LEMMA Varint64OK ==
  ASSUME NEW v \in Nat, NEW p \in Seq(Nat), Size(v) <= Len(p),
         \A m \in 1..Size(v) : p[m] = Varint(v)[m]
  PROVE  GetVarint64(p) = [value |-> v, rest |-> After(p, Size(v))]
<1> DEFINE T == {m \in 1..Len(p) : p[m] < B}
           k == Size(v)
<1>1. /\ k \in Nat \ {0} /\ Len(p) \in Nat
      /\ \A m \in 1..k : Varint(v)[m] \in Nat /\ (Varint(v)[m] < B <=> m = k)
  BY VarintOK, LenProperties
<1>2. Result(p, k) = v
  BY ResultOK
<1>3. GetVarint64(p) = [value |-> Result(p, Min(T)), rest |-> After(p, Min(T))]
  BY DEF GetVarint64
<1>4. k \in T
  BY <1>1
<1>5. T \subseteq Nat
  BY <1>1
<1>6. \A m \in T : k <= m
  <2> SUFFICES ASSUME NEW m \in T, m < k PROVE FALSE
    BY <1>1, <1>5
  <2>1. m \in 1..k /\ p[m] < B
    BY <1>1
  <2>2. QED
    BY <1>1, <2>1
<1> HIDE DEF T, k
<1>7. Min(T) = k
  <2>1. Min(T) \in T /\ \A m \in T : Min(T) <= m
    BY <1>4, <1>5, MinOK
  <2>2. Min(T) <= k /\ k <= Min(T) /\ Min(T) \in Nat /\ k \in Nat
    BY <1>1, <1>4, <1>5, <1>6, <2>1
  <2>3. QED
    BY <2>2
<1>8. QED
  BY <1>2, <1>3, <1>7 DEF k

\* Where p holds q from position s + 1 on.
Holds(p, s, q) == s + Len(q) <= Len(p) /\ \A m \in 1..Len(q) : p[s + m] = q[m]

LEMMA HoldsJoined ==
  ASSUME NEW p \in Seq(Nat), NEW s \in Nat, NEW q \in Seq(Nat), NEW r \in Seq(Nat), Holds(p, s, q \o r)
  PROVE  Holds(p, s, q) /\ Holds(p, s + Len(q), r)
<1>1. /\ Len(q) \in Nat /\ Len(r) \in Nat /\ Len(q \o r) = Len(q) + Len(r)
      /\ \A i \in 1..Len(q) : (q \o r)[i] = q[i]
      /\ \A i \in 1..Len(r) : (q \o r)[Len(q) + i] = r[i]
  BY Joined, SMTT(30)
<1>2. s + Len(q \o r) <= Len(p) /\ \A m \in 1..Len(q \o r) : p[s + m] = (q \o r)[m]
  BY DEF Holds
<1>3. Len(p) \in Nat
  BY LenProperties
<1>4. s + Len(q) <= Len(p) /\ (s + Len(q)) + Len(r) <= Len(p)
  BY <1>1, <1>2, <1>3
<1>5. ASSUME NEW m \in 1..Len(q) PROVE p[s + m] = q[m]
  <2>1. m \in 1..Len(q \o r)
    BY <1>1
  <2>2. QED
    BY <1>1, <1>2, <2>1
<1>6. ASSUME NEW m \in 1..Len(r) PROVE p[(s + Len(q)) + m] = r[m]
  <2>1. Len(q) + m \in 1..Len(q \o r) /\ (s + Len(q)) + m = s + (Len(q) + m)
    BY <1>1
  <2>2. QED
    BY <1>1, <1>2, <2>1
<1>7. QED
  BY <1>4, <1>5, <1>6 DEF Holds

\* Where q is what lies in p behind its first s bytes.
Behind(q, p, s) == /\ q \in Seq(Nat) /\ Len(q) = Len(p) - s
                   /\ \A m \in 1..Len(p) - s : q[m] = p[s + m]

\* The next varint.
LEMMA Varint64Next ==
  ASSUME NEW v \in Nat, NEW p \in Seq(Nat), NEW s \in Nat, Holds(p, s, Varint(v)),
         NEW rest, Behind(rest, p, s)
  PROVE  /\ GetVarint64(rest).value = v
         /\ Behind(GetVarint64(rest).rest, p, s + Len(Varint(v)))
<1> DEFINE k == Size(v)
<1>0. /\ rest \in Seq(Nat) /\ Len(rest) = Len(p) - s
      /\ \A m \in 1..Len(p) - s : rest[m] = p[s + m]
  BY DEF Behind
<1>1. k \in Nat \ {0} /\ Len(Varint(v)) = k /\ Len(p) \in Nat
  BY VarintOK, LenProperties
<1>2. s + k <= Len(p) /\ \A m \in 1..k : p[s + m] = Varint(v)[m]
  BY <1>1 DEF Holds
<1>3. k <= Len(rest) /\ \A m \in 1..k : rest[m] = Varint(v)[m]
  <2>1. k <= Len(rest) /\ \A m \in 1..k : m \in 1..Len(p) - s
    BY <1>0, <1>1, <1>2
  <2>2. QED
    BY <1>0, <1>2, <2>1
<1>4. GetVarint64(rest) = [value |-> v, rest |-> After(rest, k)]
  BY <1>0, <1>3, Varint64OK
<1> HIDE DEF k
<1>5. k \in 0..Len(rest)
  BY <1>1, <1>3
<1> DEFINE q == After(rest, k)
<1>6. q \in Seq(Nat) /\ Len(q) = Len(rest) - k /\ \A m \in 1..Len(rest) - k : q[m] = rest[k + m]
  BY <1>0, <1>5, AfterOK
<1> HIDE DEF q
<1>7. Len(q) = Len(p) - (s + k)
  BY <1>0, <1>1, <1>6
<1>8. ASSUME NEW m \in 1..Len(p) - (s + k) PROVE q[m] = p[(s + k) + m]
  <2>1. m \in 1..Len(rest) - k /\ k + m \in 1..Len(p) - s /\ s + (k + m) = (s + k) + m
    BY <1>0, <1>1
  <2>2. QED
    BY <1>0, <1>6, <2>1
<1>9. GetVarint64(rest).value = v /\ GetVarint64(rest).rest = q
  BY <1>4 DEF q
<1>10. Behind(q, p, s + k)
  BY <1>6, <1>7, <1>8 DEF Behind
<1>11. QED
  BY <1>1, <1>9, <1>10

\* A handle fits the room it is given in a footer.
LEMMA HandleOK ==
  ASSUME NEW h \in Handles
  PROVE  /\ h[1] \in Nat /\ h[2] \in Nat /\ h = <<h[1], h[2]>>
         /\ EncodeHandle(h) = Varint(h[1]) \o Varint(h[2])
         /\ Varint(h[1]) \in Seq(Nat) /\ Varint(h[2]) \in Seq(Nat)
         /\ EncodeHandle(h) \in Seq(Nat) /\ Len(EncodeHandle(h)) <= kMaxEncodedLength
<1>1. /\ h[1] \in Nat /\ h[2] \in Nat /\ h = <<h[1], h[2]>>
      /\ h[1] < Power[MaxGroups64] /\ h[2] < Power[MaxGroups64] /\ MaxGroups64 \in Nat \ {0}
  BY FormatAssumption
<1>2. /\ Varint(h[1]) \in Seq(Nat) /\ Len(Varint(h[1])) = Size(h[1])
      /\ Varint(h[2]) \in Seq(Nat) /\ Len(Varint(h[2])) = Size(h[2])
  BY <1>1, VarintOK
<1>3. /\ Size(h[1]) \in Nat /\ Size(h[1]) <= MaxGroups64
      /\ Size(h[2]) \in Nat /\ Size(h[2]) <= MaxGroups64
  BY <1>1, SizeOK
<1>4. EncodeHandle(h) = Varint(h[1]) \o Varint(h[2])
  BY <1>1, LoopOK DEF EncodeHandle
<1>5. /\ EncodeHandle(h) \in Seq(Nat)
      /\ Len(EncodeHandle(h)) = Len(Varint(h[1])) + Len(Varint(h[2]))
  <2> DEFINE a == Varint(h[1])
             b == Varint(h[2])
  <2>1. a \in Seq(Nat) /\ b \in Seq(Nat) /\ EncodeHandle(h) = a \o b
    BY <1>2, <1>4
  <2> HIDE DEF a, b
  <2>2. a \o b \in Seq(Nat) /\ Len(a \o b) = Len(a) + Len(b)
    BY <2>1, Joined
  <2>3. QED
    BY <2>1, <2>2 DEF a, b
<1>6. Len(EncodeHandle(h)) <= kMaxEncodedLength
  <2>1. ASSUME NEW a, a \in Nat, NEW b, b \in Nat, a <= MaxGroups64, b <= MaxGroups64
        PROVE  a + b <= 2 * MaxGroups64
    BY <1>1, <2>1
  <2>2. Size(h[1]) + Size(h[2]) <= 2 * MaxGroups64
    BY <1>3, <2>1
  <2>3. Len(EncodeHandle(h)) = Size(h[1]) + Size(h[2])
    BY <1>2, <1>5
  <2>4. QED
    BY <2>2, <2>3 DEF kMaxEncodedLength
<1>7. QED
  BY <1>1, <1>2, <1>4, <1>5, <1>6

\* What a footer holds: the two handles, and the magic number at its end.
LEMMA FooterHolds ==
  ASSUME NEW meta \in Handles, NEW index \in Handles
  PROVE  LET p == EncodeFooter(meta, index)
             k == 2 * kMaxEncodedLength
         IN /\ Holds(p, 0, EncodeHandle(meta) \o EncodeHandle(index))
            /\ Holds(p, k, EncodeFixed32(MagicLo))
            /\ Holds(p, k + 4, EncodeFixed32(MagicHi))
<1> DEFINE h == EncodeHandle(meta) \o EncodeHandle(index)
           k == 2 * kMaxEncodedLength
           lo == EncodeFixed32(MagicLo)
           hi == EncodeFixed32(MagicHi)
           p == EncodeFooter(meta, index)
           q == Padded(h)
<1>1. k \in Nat /\ kMaxEncodedLength \in Nat
  BY FormatAssumption DEF kMaxEncodedLength
<1>2. h \in Seq(Nat) /\ Len(h) \in Nat /\ Len(h) <= k
  <2>1. /\ EncodeHandle(meta) \in Seq(Nat) /\ Len(EncodeHandle(meta)) <= kMaxEncodedLength
        /\ EncodeHandle(index) \in Seq(Nat) /\ Len(EncodeHandle(index)) <= kMaxEncodedLength
    BY HandleOK
  <2>2. /\ h \in Seq(Nat) /\ Len(h) = Len(EncodeHandle(meta)) + Len(EncodeHandle(index))
        /\ Len(EncodeHandle(meta)) \in Nat /\ Len(EncodeHandle(index)) \in Nat
    BY <2>1, Joined
  <2>3. QED
    BY <1>1, <2>1, <2>2
<1>3. lo \in Seq(Nat) /\ hi \in Seq(Nat) /\ Len(lo) = 4 /\ Len(hi) = 4
  <2>1. lo \in Seq(Octet) /\ hi \in Seq(Octet) /\ Len(lo) = 4 /\ Len(hi) = 4
    BY FormatAssumption, FixedOK
  <2>2. QED
    BY <2>1, OctetsOK
<1>4. p = (q \o lo) \o hi
  BY DEF EncodeFooter
<1>5. p \in Seq(Nat) /\ Len(p) = k + 8
  BY FooterOK DEF kEncodedLength
<1> HIDE DEF h, lo, hi, p
<1>6. q = [i \in 1..k |-> IF i <= Len(h) THEN h[i] ELSE 0]
  BY DEF Padded
<1> HIDE DEF q, k
<1>7. q \in Seq(Nat) /\ Len(q) = k
  <2>1. \A i \in 1..k : (IF i <= Len(h) THEN h[i] ELSE 0) \in Nat
    <3>1. \A i \in 1..k : i <= Len(h) => i \in 1..Len(h)
      BY <1>1, <1>2
    <3>2. QED
      BY <1>2, <3>1, ElementOfSeq
  <2>2. q \in [1..k -> Nat]
    BY <1>6, <2>1
  <2>3. QED
    BY <1>1, <2>2, SequenceIs
<1> DEFINE r == q \o lo
<1>8. r \in Seq(Nat) /\ Len(r) = k + 4
  <2>1. r \in Seq(Nat) /\ Len(r) = Len(q) + Len(lo)
    <3>1. q \in Seq(Nat) /\ lo \in Seq(Nat)
      BY <1>3, <1>7
    <3>2. QED
      BY ONLY <3>1, JoinedLength
  <2>2. QED
    BY <1>3, <1>7, <2>1
<1>9. Holds(p, 0, p)
  <2>1. 0 + Len(p) <= Len(p) /\ \A m \in 1..Len(p) : 0 + m = m
    BY <1>1, <1>5
  <2>2. QED
    BY <2>1 DEF Holds
<1>10. p = r \o hi
  BY <1>4
<1> HIDE DEF r
<1>11. Holds(p, 0, r) /\ Holds(p, 0 + Len(r), hi)
  <2>1. Holds(p, 0, r \o hi)
    BY <1>9, <1>10
  <2>2. QED
    BY <1>3, <1>5, <1>8, <2>1, HoldsJoined
<1>12. Holds(p, 0, q) /\ Holds(p, 0 + Len(q), lo)
  <2>1. Holds(p, 0, q \o lo)
    BY <1>11 DEF r
  <2>2. QED
    BY <1>3, <1>5, <1>7, <2>1, HoldsJoined
<1>13. Holds(p, 0, h)
  <2>1. 0 + Len(h) <= Len(p)
    BY <1>1, <1>2, <1>5
  <2>2. ASSUME NEW m \in 1..Len(h) PROVE p[0 + m] = h[m]
    <3>1. m \in 1..k /\ m <= Len(h)
      BY <1>1, <1>2
    <3>2. q[m] = h[m]
      BY <1>6, <3>1
    <3>3. p[0 + m] = q[m]
      BY <1>7, <1>12, <3>1 DEF Holds
    <3>4. QED
      BY <3>2, <3>3
  <2>3. QED
    BY <2>1, <2>2 DEF Holds
<1>14. 0 + Len(q) = k /\ 0 + Len(r) = k + 4
  BY <1>1, <1>7, <1>8
<1>15. Holds(p, k, lo) /\ Holds(p, k + 4, hi)
  BY <1>11, <1>12, <1>14
<1>16. QED
  BY <1>13, <1>15 DEF h, k, lo, hi, p

\* Four octets at a place, decoded.
LEMMA FixedAt ==
  ASSUME NEW p \in Seq(Nat), NEW s \in Nat, NEW n \in 0..Low * High - 1, Holds(p, s, EncodeFixed32(n))
  PROVE  DecodeFixed32(SubSeq(p, s + 1, s + 4)) = n
<1> DEFINE e == EncodeFixed32(n)
           q == SubSeq(p, s + 1, s + 4)
<1>1. e \in Seq(Octet) /\ Len(e) = 4 /\ DecodeFixed32(e) = n
  BY FixedOK
<1>2. e \in Seq(Nat)
  BY <1>1, OctetsOK
<1>3. s + 4 <= Len(p) /\ \A m \in 1..4 : p[s + m] = e[m]
  BY <1>1 DEF Holds
<1> HIDE DEF e, q
<1>4. /\ q \in Seq(Nat) /\ Len(q) = (s + 4) - (s + 1) + 1
      /\ \A m \in 1..(s + 4) - (s + 1) + 1 : q[m] = p[(s + 1) - 1 + m]
  <2> DEFINE i == s + 1
             j == s + 4
  <2>1. i \in Nat \ {0} /\ j \in Nat /\ i <= j /\ j <= Len(p)
    BY <1>3
  <2> HIDE DEF i, j
  <2>2. /\ SubSeq(p, i, j) \in Seq(Nat) /\ Len(SubSeq(p, i, j)) = j - i + 1
        /\ \A m \in 1..j - i + 1 : SubSeq(p, i, j)[m] = p[i - 1 + m]
    BY <2>1, SliceIs
  <2>3. QED
    BY <2>2 DEF i, j, q
<1>5. Len(q) = 4 /\ \A m \in 1..4 : q[m] = e[m]
  <2>1. (s + 4) - (s + 1) + 1 = 4 /\ \A m \in 1..4 : (s + 1) - 1 + m = s + m
    OBVIOUS
  <2>2. QED
    BY <1>3, <1>4, <2>1
<1>6. q = e
  BY <1>1, <1>2, <1>4, <1>5, SeqEqual
<1>7. QED
  BY <1>1, <1>6 DEF e, q

\* What a footer was written from is what it is decoded as.
LEMMA FooterDecoded ==
  ASSUME NEW meta \in Handles, NEW index \in Handles
  PROVE  DecodeFooter(EncodeFooter(meta, index)) = <<meta, index>>
<1> DEFINE p == EncodeFooter(meta, index)
           k == 2 * kMaxEncodedLength
           v1 == Varint(meta[1])
           v2 == Varint(meta[2])
           v3 == Varint(index[1])
           v4 == Varint(index[2])
           a == GetVarint64(p)
           b == GetVarint64(a.rest)
           c == GetVarint64(b.rest)
           d == GetVarint64(c.rest)
           t1 == 0 + Len(v1)
           t2 == t1 + Len(v2)
           t3 == t2 + Len(v3)
<1>1. p \in Seq(Nat) /\ Len(p) \in Nat /\ k \in Nat /\ kEncodedLength = k + 8
  <2>1. p \in Seq(Nat)
    BY FooterOK
  <2>2. k \in Nat /\ kEncodedLength = k + 8
    BY FormatAssumption DEF kMaxEncodedLength, kEncodedLength
  <2>3. QED
    BY <2>1, <2>2, LenProperties
<1>2. /\ meta = <<meta[1], meta[2]>> /\ index = <<index[1], index[2]>>
      /\ meta[1] \in Nat /\ meta[2] \in Nat /\ index[1] \in Nat /\ index[2] \in Nat
  BY HandleOK
<1>3. /\ v1 \in Seq(Nat) /\ v2 \in Seq(Nat) /\ v3 \in Seq(Nat) /\ v4 \in Seq(Nat)
      /\ EncodeHandle(meta) = v1 \o v2 /\ EncodeHandle(index) = v3 \o v4
  BY HandleOK
<1>4. /\ Holds(p, 0, (v1 \o v2) \o (v3 \o v4))
      /\ Holds(p, k, EncodeFixed32(MagicLo)) /\ Holds(p, k + 4, EncodeFixed32(MagicHi))
  BY <1>3, FooterHolds
<1>5. /\ DecodeFixed32(SubSeq(p, k + 1, k + 4)) = MagicLo
      /\ DecodeFixed32(SubSeq(p, (k + 4) + 1, (k + 4) + 4)) = MagicHi
  <2>1. MagicLo \in 0..Low * High - 1 /\ MagicHi \in 0..Low * High - 1
    BY FormatAssumption
  <2>2. k + 4 \in Nat
    BY <1>1
  <2> HIDE DEF p, k
  <2>3. DecodeFixed32(SubSeq(p, k + 1, k + 4)) = MagicLo
    BY <1>1, <1>4, <2>1, FixedAt
  <2>4. DecodeFixed32(SubSeq(p, (k + 4) + 1, (k + 4) + 4)) = MagicHi
    BY <1>1, <1>4, <2>1, <2>2, FixedAt
  <2>5. QED
    BY <2>3, <2>4
<1>6. DecodeFooter(p) = IF \/ DecodeFixed32(SubSeq(p, (kEncodedLength - 8) + 1, (kEncodedLength - 8) + 4)) # MagicLo
                           \/ DecodeFixed32(SubSeq(p, (kEncodedLength - 8) + 5, (kEncodedLength - 8) + 8)) # MagicHi
                          THEN Corruption
                        ELSE << <<a.value, b.value>>, <<c.value, d.value>> >>
  BY DEF DecodeFooter
<1>7. DecodeFooter(p) = << <<a.value, b.value>>, <<c.value, d.value>> >>
  <2> HIDE DEF p, k, a, b, c, d
  <2>1. /\ (kEncodedLength - 8) + 1 = k + 1 /\ (kEncodedLength - 8) + 4 = k + 4
        /\ (kEncodedLength - 8) + 5 = (k + 4) + 1 /\ (kEncodedLength - 8) + 8 = (k + 4) + 4
    BY <1>1
  <2>2. QED
    BY <1>5, <1>6, <2>1
<1> HIDE DEF p, v1, v2, v3, v4
<1>8. /\ t1 \in Nat /\ t2 \in Nat /\ t3 \in Nat
      /\ Holds(p, 0, v1) /\ Holds(p, t1, v2) /\ Holds(p, t2, v3) /\ Holds(p, t3, v4)
  <2> DEFINE q == v1 \o v2
             r == v3 \o v4
  <2>1. q \in Seq(Nat) /\ r \in Seq(Nat) /\ Len(q) = Len(v1) + Len(v2) /\ Len(v1) \in Nat
        /\ Len(v2) \in Nat /\ Len(v3) \in Nat
    BY <1>3, Joined
  <2>2. Holds(p, 0, q) /\ Holds(p, 0 + Len(q), r)
    <3>1. Holds(p, 0, q \o r)
      BY <1>4
    <3> HIDE DEF q, r
    <3>2. QED
      BY <1>1, <2>1, <3>1, HoldsJoined
  <2>3. Holds(p, 0, v1) /\ Holds(p, 0 + Len(v1), v2)
    BY <1>1, <1>3, <2>2, HoldsJoined
  <2>4. 0 + Len(q) = t2 /\ t2 \in Nat /\ t1 \in Nat /\ t3 \in Nat
    BY <2>1
  <2>5. Holds(p, t2, v3) /\ Holds(p, t2 + Len(v3), v4)
    <3>1. Holds(p, t2, v3 \o v4) /\ t2 \in Nat
      BY <2>2, <2>4
    <3> HIDE DEF t2
    <3>2. QED
      BY <1>1, <1>3, <3>1, HoldsJoined
  <2>6. QED
    BY <2>3, <2>4, <2>5
<1>9. Behind(p, p, 0)
  <2>1. Len(p) = Len(p) - 0 /\ \A m \in 1..Len(p) - 0 : m = 0 + m
    BY <1>1
  <2>2. QED
    BY <1>1, <2>1 DEF Behind
<1>10. ASSUME NEW v \in Nat, NEW t \in Nat, Holds(p, t, Varint(v)), NEW q, Behind(q, p, t)
       PROVE  GetVarint64(q).value = v /\ Behind(GetVarint64(q).rest, p, t + Len(Varint(v)))
  BY <1>1, <1>10, Varint64Next
<1> HIDE DEF t1, t2, t3
<1>11. a.value = meta[1] /\ Behind(a.rest, p, t1)
  BY <1>2, <1>8, <1>9, <1>10 DEF v1, t1
<1> HIDE DEF a
<1>12. b.value = meta[2] /\ Behind(b.rest, p, t2)
  BY <1>2, <1>8, <1>10, <1>11 DEF v2, t2
<1> HIDE DEF b
<1>13. c.value = index[1] /\ Behind(c.rest, p, t3)
  BY <1>2, <1>8, <1>10, <1>12 DEF v3, t3
<1> HIDE DEF c
<1>14. d.value = index[2]
  BY <1>2, <1>8, <1>10, <1>13 DEF v4
<1>15. QED
  BY <1>2, <1>7, <1>11, <1>12, <1>13, <1>14 DEF p

\* Table::Open finds the footer of a whole file.
LEMMA FooterRead ==
  ASSUME FormatInv, OpenFooter, Closed, ~cut
  PROVE  footer' = Last(put).footer
<1> DEFINE k == Len(put)
           l == Len(dst)
           n == kEncodedLength
           item == Last(put)
           meta == item.footer[1]
           index == item.footer[2]
           code == EncodeFooter(meta, index)
<1>1. CodingInv /\ dst \in Seq(Nat) /\ put \in Seq(Item) /\ input # NULL /\ input \in Seq(Nat) /\ got = << >>
  BY DEF FormatInv, CodingInv, OpenFooter, Reads
<1>2. PICK at \in [0..k -> 0..l] : Layout(at) /\ InputOK(at)
  BY <1>1 DEF CodingInv
<1>3. k \in Nat /\ l \in Nat /\ k # 0 /\ Len(input) \in Nat /\ Len(got) = 0
  <2>1. put # << >>
    BY DEF Closed
  <2>2. QED
    BY <1>1, <2>1, LenProperties, EmptySeq
<1>4. k \in 1..k /\ item = put[k]
  BY <1>3 DEF Last
<1>5. item \in Item /\ Has(item, "footer")
  BY <1>1, <1>4, ElementOfSeq DEF Closed
<1>6. meta \in Handles /\ index \in Handles /\ item.footer = <<meta, index>>
  <2>1. item.footer \in Handles \X Handles
    BY <1>5, KindsOK, Zenon
  <2>2. QED
    BY <2>1
<1>7. Code(item) = code /\ code \in Seq(Nat) /\ Len(code) = n /\ n \in Nat \ {0}
  <2>1. Code(item) = code
    BY <1>5, CodeIs
  <2>2. QED
    BY <1>6, <2>1, FooterOK
<1> HIDE DEF k, l, n, item, meta, index, code
<1>8. /\ at[0] = 0 /\ at[k] = l /\ at[k] = at[k - 1] + n
      /\ \A m \in 1..n : dst[at[k - 1] + m] = code[m]
  <2>1. at[0] = 0 /\ at[Len(put)] = Len(dst)
    BY <1>2 DEF Layout
  <2>2. /\ at[k] = at[k - 1] + Len(Code(put[k]))
        /\ \A m \in 1..Len(Code(put[k])) : dst[at[k - 1] + m] = Code(put[k])[m]
    BY <1>2, <1>4 DEF Layout, k
  <2>3. Code(put[k]) = code
    BY <1>4, <1>7
  <2>4. QED
    BY <1>7, <2>1, <2>2, <2>3 DEF k, l
<1>9. at[k - 1] \in Nat
  BY <1>2, <1>3
<1>10. Len(input) = l /\ \A m \in 1..l : input[m] = dst[m]
  <2>1. /\ at[Len(got)] + Len(input) <= Len(dst)
        /\ cut = (at[Len(got)] + Len(input) < Len(dst))
        /\ \A m \in 1..Len(input) : input[m] = dst[at[Len(got)] + m]
    BY <1>2 DEF InputOK
  <2>2. at[Len(got)] = 0
    BY <1>3, <1>8
  <2>3. Len(input) = l
    <3>1. ~(at[Len(got)] + Len(input) < Len(dst))
      BY <2>1, Zenon
    <3>2. 0 + Len(input) <= l /\ ~(0 + Len(input) < l)
      BY <2>1, <2>2, <3>1 DEF l
    <3>3. QED
      BY <1>3, <3>2
  <2>4. \A m \in 1..l : 0 + m = m
    BY <1>3
  <2>5. QED
    BY <2>1, <2>2, <2>3, <2>4
<1>11. SubSeq(input, l - n + 1, l) = code
  <2> DEFINE i == l - n + 1
             q == SubSeq(input, i, l)
  <2>1. i \in Nat \ {0} /\ i <= l /\ l - i + 1 = n /\ i - 1 = at[k - 1]
    BY <1>3, <1>7, <1>8, <1>9, SMTT(30)
  <2> HIDE DEF i
  <2>2. /\ q \in Seq(Nat) /\ Len(q) = l - i + 1
        /\ \A m \in 1..l - i + 1 : q[m] = input[i - 1 + m]
    <3>1. input \in Seq(Nat) /\ i \in Nat \ {0} /\ l \in Nat /\ i <= l /\ l <= Len(input)
      BY <1>1, <1>3, <1>10, <2>1
    <3>2. QED
      BY ONLY <3>1, SliceIs
  <2> HIDE DEF q
  <2>3. ASSUME NEW m \in 1..n PROVE q[m] = code[m]
    <3>1. at[k - 1] + m \in 1..l
      BY <1>3, <1>7, <1>8, <1>9, SMTT(30)
    <3>2. q[m] = input[at[k - 1] + m]
      BY <2>1, <2>2
    <3>3. QED
      BY <1>8, <1>10, <3>1, <3>2
  <2>4. q = code
    BY <1>7, <2>1, <2>2, <2>3, SeqEqual
  <2>5. QED
    BY <2>4 DEF i, q
<1>12. footer' = DecodeFooter(code)
  <2>1. footer' = IF Len(input) < n THEN Corruption
                  ELSE DecodeFooter(SubSeq(input, Len(input) - n + 1, Len(input)))
    BY DEF OpenFooter, n
  <2>2. ~(Len(input) < n)
    <3>1. l = at[k - 1] + n
      BY <1>8
    <3>2. n <= l
      BY <1>3, <1>7, <1>9, <3>1
    <3>3. QED
      BY <1>3, <1>7, <1>10, <3>2
  <2>3. QED
    BY <1>10, <1>11, <2>1, <2>2
<1>13. QED
  BY <1>6, <1>12, FooterDecoded DEF code, item

LEMMA AppendNotEmpty ==
  ASSUME NEW S, NEW s \in Seq(S), NEW x PROVE Append(s, x) # << >>
<1>1. x \in S \cup {x} /\ s \in Seq(S \cup {x})
  <2>1. Len(s) \in Nat /\ s \in [1..Len(s) -> S]
    BY LenProperties
  <2>2. s \in [1..Len(s) -> S \cup {x}]
    BY <2>1
  <2>3. QED
    BY <2>1, <2>2, SequenceIs
<1>2. Len(Append(s, x)) = Len(s) + 1 /\ Len(s) \in Nat
  BY <1>1, AppendProperties, LenProperties
<1>3. QED
  BY <1>2

\* What was found stays found: nothing is put any more.
LEMMA FooterKept ==
  ASSUME FormatInv, FormatInv', FooterInv, [FormatNext]_formatVars
  PROVE  FooterInv'
<1>1. ASSUME footer = NULL, footer' = footer PROVE FooterInv'
  BY <1>1 DEF FooterInv, FooterWhole
<1>2. ASSUME input = NULL, footer' = footer PROVE FooterInv'
  BY <1>1, <1>2 DEF FooterInv
<1>3. ASSUME footer' = footer, put' = put, cut' = cut, input' # NULL PROVE FooterInv'
  <2>1. FooterWhole
    BY DEF FooterInv
  <2>2. FooterWhole'
    BY <1>3, <2>1 DEF FooterWhole, Closed, Has
  <2>3. QED
    BY <1>3, <2>2 DEF FooterInv
<1>4. ASSUME NEW x, input # NULL, got' = Append(got, x) PROVE input' # NULL
  <2>1. got \in Seq(Item)
    BY DEF FormatInv, CodingInv, AlteredInv
  <2>2. got' # << >>
    BY <1>4, <2>1, AppendNotEmpty
  <2>3. CASE altered'
    <3>1. input' \in Seq(Octet)
      BY <2>3 DEF FormatInv, AlteredInv
    <3>2. QED
      BY <3>1, OctetsOK, CodingAssumption
  <2>4. CASE ~altered'
    BY <2>2, <2>4 DEF FormatInv, CodingInv
  <2>5. QED
    BY <2>3, <2>4
<1>5. CASE PutAny /\ footer' = footer
  BY <1>2, <1>5 DEF PutAny, PutVarint32, PutLengthPrefixedSlice, Put
<1>6. CASE ReadAny /\ footer' = footer
  <2>1. ASSUME NEW n \in 0..Len(dst), Read(n) PROVE FooterInv'
    BY <1>2, <1>6, <2>1 DEF Read
  <2>2. CASE GetVarint32
    <3>1. input # NULL /\ put' = put /\ cut' = cut
      BY <2>2 DEF GetVarint32, Reads
    <3>2. input' = input \/ \E x : got' = Append(got, x)
      BY <2>2 DEF GetVarint32
    <3>3. QED
      BY <1>3, <1>4, <1>6, <3>1, <3>2
  <2>3. CASE GetLengthPrefixedSlice
    <3>1. input # NULL /\ put' = put /\ cut' = cut
      BY <2>3 DEF GetLengthPrefixedSlice, Reads
    <3>2. \E x : got' = Append(got, x)
      BY <2>3 DEF GetLengthPrefixedSlice
    <3>3. QED
      BY <1>3, <1>4, <1>6, <3>1, <3>2
  <2>4. QED
    BY <1>6, <2>1, <2>2, <2>3 DEF ReadAny
<1>7. ASSUME NEW data \in Blocks, NEW type \in Types, NEW address \in 0..3,
             WriteRawBlock(data, type, address)
      PROVE  FooterInv'
  BY <1>2, <1>7 DEF WriteRawBlock, Put
<1>8. ASSUME NEW meta \in Handles, NEW index \in Handles, PutFooter(meta, index)
      PROVE  FooterInv'
  BY <1>2, <1>8 DEF PutFooter, Put
<1>9. ASSUME input # NULL, NEW n \in DOMAIN input, NEW i \in 0..ByteBits - 1, Alter(n, i)
      PROVE  FooterInv'
  <2>1. altered' /\ put' = put /\ cut' = cut /\ footer' = footer
    BY <1>9 DEF Alter
  <2>2. input' \in Seq(Octet)
    BY <2>1 DEF FormatInv, AlteredInv
  <2>3. QED
    BY <1>3, <2>1, <2>2, OctetsOK, CodingAssumption
<1>10. ASSUME NEW address \in 0..3, ReadBlock(address) PROVE FooterInv'
  <2>1. input # NULL /\ put' = put /\ cut' = cut /\ footer' = footer
    BY <1>10 DEF ReadBlock, Reads
  <2>2. input' = input \/ \E x : got' = Append(got, x)
    BY <1>10 DEF ReadBlock
  <2>3. QED
    BY <1>3, <1>4, <2>1, <2>2
<1>11. CASE OpenFooter
  <2>1. input # NULL /\ put' = put /\ cut' = cut /\ input' = input
    BY <1>11 DEF OpenFooter, Reads, codingVars
  <2>2. Closed /\ ~cut => footer' = Last(put).footer
    BY <1>11, FooterRead
  <2>3. FooterWhole'
    BY <2>1, <2>2 DEF FooterWhole, Closed, Has
  <2>4. QED
    BY <2>1, <2>3 DEF FooterInv
<1>12. CASE UNCHANGED formatVars
  <2>1. footer' = footer /\ put' = put /\ cut' = cut /\ input' = input
    BY <1>12 DEF formatVars, codingVars
  <2>2. QED
    BY <1>2, <1>3, <2>1
<1>13. QED
  BY <1>5, <1>6, <1>7, <1>8, <1>9, <1>10, <1>11, <1>12 DEF FormatNext

\* What Table::Open reads from the footer of a whole file are the two handles
\* that were written: for all handles of 64 bits, whatever is in front of it.
THEOREM FormatFooterWhole == FormatSpec => []FooterWhole
<1>1. FormatInit => FooterInv
  BY DEF FormatInit, FooterInv, FooterWhole
<1>2. FormatInv /\ FormatInv' /\ FooterInv /\ [FormatNext]_formatVars => FooterInv'
  BY FooterKept
<1>3. FooterInv => FooterWhole
  BY DEF FooterInv
<1>4. QED
  BY FormatInvariance, <1>1, <1>2, <1>3, PTL DEF FormatSpec
=============================================================================
