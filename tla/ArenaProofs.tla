---------------------------- MODULE ArenaProofs ----------------------------
(***************************************************************************)
(* Inv is an inductive invariant of Arena for every block size, alignment  *)
(* and set of requests; with it, what SumFunction adds up, which is what the *)
(* arena reports.                                                          *)
(***************************************************************************)
EXTENDS Arena, FiniteSets, FiniteSetTheorems, SequenceTheorems, WellFoundedInduction,
        TLAPS

-----------------------------------------------------------------------------
(* SumFunction chooses a function on the subsets of its domain: there is   *)
(* one, and the order in which it takes the elements does not matter.      *)

\* A set of numbers has a least one: all induction below rests on this.
LEMMA LeastOfNaturals ==
  ASSUME NEW T, T \subseteq Nat, T # {}
  PROVE  \E x \in T : \A y \in T : x <= y
<1>1. PICK x \in T : \A y \in T : ~(<<y, x>> \in OpToRel(<, Nat))
  BY NatLessThanWellFounded, WFMin, Zenon
<1>2. ASSUME NEW y \in T PROVE x <= y
  <2>1. ~(y < x)
    BY <1>1 DEF OpToRel
  <2>2. QED
    BY <2>1
<1>3. QED
  BY <1>2

Chosen(s) == CHOOSE x \in s : TRUE

\* What SumFunction adds up for the set s, by the sums g of its subsets.
SumOf(f, g, s) == IF s = {} THEN 0 ELSE f[Chosen(s)] + g[s \ {Chosen(s)}]

Sums(f, S, g) == g = [s \in SUBSET S |-> SumOf(f, g, s)]

\* The definition of the community modules, with its recursion named.
LEMMA SumIs ==
  ASSUME NEW f
  PROVE  SumFunction(f) = (CHOOSE g : Sums(f, DOMAIN f, g))[DOMAIN f]
BY Zenon DEF SumFunction, SumFunctionOnSet, FoldFunctionOnSet, MapThenFoldSet, Sums, SumOf, Chosen

\* A set without one of its elements is smaller.
LEMMA OneLess ==
  ASSUME NEW S, IsFiniteSet(S), NEW s \in SUBSET S, NEW x \in s
  PROVE  /\ s \ {x} \in SUBSET S /\ IsFiniteSet(s)
         /\ Cardinality(s) \in Nat /\ Cardinality(s \ {x}) \in Nat
         /\ Cardinality(s \ {x}) = Cardinality(s) - 1
<1>1. IsFiniteSet(s)
  BY FS_Subset
<1>2. IsFiniteSet(s \ {x}) /\ Cardinality(s \ {x}) = Cardinality(s) - 1
  BY <1>1, FS_RemoveElement
<1>3. QED
  BY <1>1, <1>2, FS_CardinalityType

\* What holds of a set once it holds of all sets with an element less.
Progressive(S, P) == \A s \in SUBSET S : (\A x \in s : s \ {x} \in P) => s \in P

\* Induction on finite sets, with a set P for the predicate: a smallest subset
\* outside P contradicts Progressive.
LEMMA SubsetInduction ==
  ASSUME NEW S, IsFiniteSet(S), NEW P, Progressive(S, P)
  PROVE  \A s \in SUBSET S : s \in P
<1> DEFINE Bad == {s \in SUBSET S : s \notin P}
           sizes == {Cardinality(s) : s \in Bad}
<1>1. ASSUME Bad # {} PROVE FALSE
  <2>1. sizes \subseteq Nat /\ sizes # {}
    BY <1>1, FS_Subset, FS_CardinalityType
  <2>2. PICK n \in sizes : \A m \in sizes : n <= m
    <3> HIDE DEF sizes
    <3>1. QED
      BY <2>1, LeastOfNaturals
  <2>3. PICK s \in Bad : n = Cardinality(s)
    OBVIOUS
  <2>4. PICK x \in s : s \ {x} \notin P
    BY DEF Progressive
  <2>5. /\ s \ {x} \in Bad /\ Cardinality(s) \in Nat /\ Cardinality(s \ {x}) \in Nat
        /\ Cardinality(s \ {x}) = Cardinality(s) - 1
    BY <2>4, OneLess
  <2>6. n <= Cardinality(s \ {x})
    BY <2>2, <2>5
  <2>7. QED
    BY <2>3, <2>5, <2>6
<1>2. QED
  BY <1>1

\* The element the recursion takes off first.
LEMMA ChosenIn == ASSUME NEW s, s # {} PROVE Chosen(s) \in s
BY DEF Chosen

\* The recursion defines a function.
LEMMA SumsExist ==
  ASSUME NEW S, IsFiniteSet(S), NEW f \in [S -> Int]
  PROVE  \E g \in [SUBSET S -> Int] : Sums(f, S, g)
<1> DEFINE Upto(n, g) == \A s \in SUBSET S : Cardinality(s) <= n => g[s] = SumOf(f, g, s)
           Fail == {n \in Nat : ~\E g \in [SUBSET S -> Int] : Upto(n, g)}
<1>1. \A s \in SUBSET S : Cardinality(s) \in Nat /\ (Cardinality(s) <= 0 => s = {})
  BY FS_Subset, FS_CardinalityType, FS_EmptySet
<1>2. ASSUME NEW g \in [SUBSET S -> Int], NEW s \in SUBSET S PROVE SumOf(f, g, s) \in Int
  <2>1. CASE s = {}
    BY <2>1 DEF SumOf
  <2>2. CASE s # {}
    <3>1. Chosen(s) \in S /\ s \ {Chosen(s)} \in SUBSET S
      BY <2>2, ChosenIn
    <3>2. QED
      BY <3>1 DEF SumOf
  <2>3. QED
    BY <2>1, <2>2
<1>3. 0 \notin Fail
  <2> DEFINE g == [s \in SUBSET S |-> 0]
  <2>1. g \in [SUBSET S -> Int]
    OBVIOUS
  <2>2. Upto(0, g)
    BY <1>1 DEF SumOf
  <2>3. QED
    BY <2>1, <2>2
<1>4. ASSUME NEW n \in Nat, n \notin Fail PROVE n + 1 \notin Fail
  <2>1. PICK g \in [SUBSET S -> Int] : Upto(n, g)
    BY <1>4
  <2> DEFINE h == [s \in SUBSET S |-> IF Cardinality(s) <= n THEN g[s] ELSE SumOf(f, g, s)]
  <2>2. h \in [SUBSET S -> Int]
    BY <1>2
  <2>3. ASSUME NEW s \in SUBSET S, Cardinality(s) <= n + 1 PROVE h[s] = SumOf(f, h, s)
    <3>1. h[s] = SumOf(f, g, s)
      BY <2>1
    <3>2. CASE s = {}
      BY <3>1, <3>2 DEF SumOf
    <3>3. CASE s # {}
      <4> DEFINE x == Chosen(s)
                 r == s \ {x}
      <4>1. x \in s
        BY <3>3, ChosenIn
      <4> HIDE DEF x
      <4>2. /\ r \in SUBSET S /\ Cardinality(s) \in Nat /\ Cardinality(r) \in Nat
            /\ Cardinality(r) = Cardinality(s) - 1
        BY <4>1, OneLess
      <4>3. Cardinality(r) <= n
        BY <2>3, <4>2
      <4>4. h[r] = g[r]
        BY <4>2, <4>3
      <4> HIDE DEF h
      <4>5. QED
        BY <3>1, <3>3, <4>4 DEF SumOf, x
    <3>4. QED
      BY <3>2, <3>3
  <2> HIDE DEF h
  <2>4. Upto(n + 1, h)
    BY <2>3
  <2>5. QED
    BY <2>2, <2>4
<1>5. Fail = {}
  <2> SUFFICES ASSUME Fail # {} PROVE FALSE
    OBVIOUS
  <2>1. PICK n \in Fail : \A m \in Fail : n <= m
    <3>1. Fail \subseteq Nat
      OBVIOUS
    <3> HIDE DEF Fail
    <3>2. QED
      BY <3>1, LeastOfNaturals
  <2>2. n \in Nat /\ n # 0
    BY <1>3
  <2>3. n - 1 \in Nat /\ n - 1 + 1 = n
    BY <2>2
  <2> HIDE DEF Fail
  <2>4. n - 1 \in Fail
    BY <1>4, <2>3
  <2>5. n <= n - 1
    BY <2>1, <2>4
  <2>6. QED
    BY <2>2, <2>5
<1>6. PICK g \in [SUBSET S -> Int] : Upto(Cardinality(S), g)
  <2>1. Cardinality(S) \in Nat
    BY FS_CardinalityType
  <2>2. QED
    BY <1>5, <2>1
<1>7. \A s \in SUBSET S : g[s] = SumOf(f, g, s)
  BY <1>6, FS_Subset
<1>8. Sums(f, S, g)
  BY <1>7 DEF Sums
<1>9. QED
  BY <1>8

\* g adds up f, whichever element is taken last.
Additive(f, S, g) == g[{}] = 0 /\ \A s \in SUBSET S : \A x \in s : g[s] = f[x] + g[s \ {x}]

\* The order in which a sum is taken does not matter.
LEMMA SumsOK ==
  ASSUME NEW S, IsFiniteSet(S), NEW f \in [S -> Int], NEW g \in [SUBSET S -> Int], Sums(f, S, g)
  PROVE  Additive(f, S, g)
<1>1. \A s \in SUBSET S : g[s] = SumOf(f, g, s)
  <2>1. g = [s \in SUBSET S |-> SumOf(f, g, s)]
    BY DEF Sums
  <2>2. ASSUME NEW s \in SUBSET S PROVE g[s] = SumOf(f, g, s)
    <3>1. [r \in SUBSET S |-> SumOf(f, g, r)][s] = SumOf(f, g, s)
      OBVIOUS
    <3>2. QED
      BY <2>1, <3>1
  <2>3. QED
    BY <2>2
<1>2. g[{}] = 0
  BY <1>1 DEF SumOf
<1> DEFINE P == {s \in SUBSET S : \A x \in s : g[s] = f[x] + g[s \ {x}]}
<1>3. ASSUME NEW s \in SUBSET S, \A x \in s : s \ {x} \in P PROVE s \in P
  <2> SUFFICES ASSUME NEW x \in s PROVE g[s] = f[x] + g[s \ {x}]
    OBVIOUS
  <2> DEFINE c == Chosen(s)
  <2>1. c \in s
    BY ChosenIn
  <2>2. g[s] = f[c] + g[s \ {c}]
    BY <1>1 DEF SumOf
  <2> HIDE DEF c
  <2>3. CASE c = x
    BY <2>2, <2>3
  <2>4. CASE c # x
    <3>1. x \in s \ {c} /\ c \in s \ {x} /\ (s \ {c}) \ {x} = (s \ {x}) \ {c}
      BY <2>1, <2>4
    <3>2. g[s \ {c}] = f[x] + g[(s \ {c}) \ {x}]
      BY <1>3, <2>1, <3>1
    <3>3. g[s \ {x}] = f[c] + g[(s \ {x}) \ {c}]
      BY <1>3, <3>1
    <3> DEFINE u == g[(s \ {x}) \ {c}]
    <3>4. f[x] \in Int /\ f[c] \in Int /\ u \in Int
      BY <2>1
    <3>5. g[s \ {c}] = f[x] + u /\ g[s \ {x}] = f[c] + u
      BY <3>1, <3>2, <3>3
    <3> HIDE DEF u
    <3>6. f[c] + (f[x] + u) = f[x] + (f[c] + u)
      BY <3>4
    <3>7. QED
      BY <2>2, <3>5, <3>6
  <2>5. QED
    BY <2>3, <2>4
<1>4. \A s \in SUBSET S : s \in P
  <2>1. Progressive(S, P)
    BY <1>3 DEF Progressive
  <2> HIDE DEF P
  <2>2. QED
    BY <2>1, SubsetInduction
<1>5. QED
  BY <1>2, <1>4 DEF Additive

AreSums(f, S, g) ==
  IsFiniteSet(S) /\ f \in [S -> Int] /\ g \in [SUBSET S -> Int] /\ Sums(f, S, g)

\* A sum does not depend on what is not summed up.
LEMMA SumsAgree ==
  ASSUME NEW f, NEW S, NEW g, AreSums(f, S, g), NEW h, NEW T, NEW k, AreSums(h, T, k),
         S \subseteq T, \A x \in S : f[x] = h[x]
  PROVE  g[S] = k[S]
<1> DEFINE P == {s \in SUBSET S : g[s] = k[s]}
<1>0. /\ g[{}] = 0 /\ k[{}] = 0
      /\ \A s \in SUBSET S : \A x \in s : g[s] = f[x] + g[s \ {x}]
      /\ \A s \in SUBSET T : \A x \in s : k[s] = h[x] + k[s \ {x}]
  <2>1. Additive(f, S, g)
    BY SumsOK DEF AreSums
  <2>2. Additive(h, T, k)
    BY SumsOK DEF AreSums
  <2>3. QED
    BY <2>1, <2>2 DEF Additive
<1>1. ASSUME NEW s \in SUBSET S, \A x \in s : s \ {x} \in P PROVE s \in P
  <2>1. CASE s = {}
    BY <1>0, <2>1
  <2>2. CASE s # {}
    <3>1. PICK x \in s : TRUE
      BY <2>2
    <3>2. g[s] = f[x] + g[s \ {x}]
      BY <1>0
    <3>3. k[s] = h[x] + k[s \ {x}]
      <4>1. s \in SUBSET T
        OBVIOUS
      <4>2. QED
        BY <1>0, <4>1
    <3>4. QED
      BY <1>1, <3>2, <3>3
  <2>3. QED
    BY <2>1, <2>2
<1>2. \A s \in SUBSET S : s \in P
  <2>1. Progressive(S, P)
    BY <1>1 DEF Progressive
  <2> HIDE DEF P
  <2>2. QED
    BY <2>1, SubsetInduction DEF AreSums
<1>3. QED
  BY <1>2

\* SumFunction takes its value from a function that the recursion defines.
LEMMA SumFunctionOK ==
  ASSUME NEW S, IsFiniteSet(S), NEW f \in [S -> Int]
  PROVE  \E g \in [SUBSET S -> Int] : Sums(f, S, g) /\ SumFunction(f) = g[S]
<1>1. PICK g \in [SUBSET S -> Int] : Sums(f, S, g)
  BY SumsExist
<1> DEFINE c == CHOOSE h : Sums(f, S, h)
<1>2. Sums(f, S, c)
  BY <1>1
<1> HIDE DEF c
<1>3. SumFunction(f) = c[S]
  BY SumIs DEF c
<1>4. c \in [SUBSET S -> Int]
  <2>1. c = [s \in SUBSET S |-> SumOf(f, c, s)]
    BY <1>2 DEF Sums
  <2>2. \A s \in SUBSET S : c[s] = SumOf(f, c, s)
    <3>1. ASSUME NEW s \in SUBSET S PROVE c[s] = SumOf(f, c, s)
      <4>1. [r \in SUBSET S |-> SumOf(f, c, r)][s] = SumOf(f, c, s)
        OBVIOUS
      <4>2. QED
        BY <2>1, <4>1
    <3>2. QED
      BY <3>1
  <2> DEFINE P == {s \in SUBSET S : c[s] \in Int}
  <2>3. ASSUME NEW s \in SUBSET S, \A x \in s : s \ {x} \in P PROVE s \in P
    <3>0. c[s] = SumOf(f, c, s)
      BY <2>2
    <3>1. CASE s = {}
      BY <3>0, <3>1 DEF SumOf
    <3>2. CASE s # {}
      <4> DEFINE x == Chosen(s)
      <4>1. x \in s
        BY <3>2, ChosenIn
      <4>2. SumOf(f, c, s) = f[x] + c[s \ {x}]
        BY <3>2 DEF SumOf
      <4> HIDE DEF x
      <4>3. c[s \ {x}] \in Int /\ f[x] \in Int
        BY <2>3, <4>1
      <4>4. c[s] \in Int
        BY <3>0, <4>2, <4>3
      <4>5. QED
        BY <4>4
    <3>3. QED
      BY <3>1, <3>2
  <2>4. \A s \in SUBSET S : s \in P
    <3>1. Progressive(S, P)
      BY <2>3 DEF Progressive
    <3> HIDE DEF P
    <3>2. QED
      BY <3>1, SubsetInduction
  <2>5. \A s \in SUBSET S : c[s] \in Int
    BY <2>4
  <2>6. QED
    BY <2>1, <2>5
<1>5. QED
  BY <1>2, <1>3, <1>4

\* The blocks of an arena, as a function with a finite domain.
LEMMA SumOfSequence ==
  ASSUME NEW s \in Seq(Int)
  PROVE  /\ Len(s) \in Nat /\ IsFiniteSet(1..Len(s)) /\ s \in [1..Len(s) -> Int]
         /\ SumFunction(s) \in Int
<1>1. Len(s) \in Nat /\ s \in [1..Len(s) -> Int]
  BY LenProperties
<1>2. IsFiniteSet(1..Len(s))
  BY <1>1, FS_Interval
<1>3. PICK g \in [SUBSET (1..Len(s)) -> Int] : SumFunction(s) = g[1..Len(s)]
  <2> DEFINE S == 1..Len(s)
  <2>1. IsFiniteSet(S) /\ s \in [S -> Int]
    BY <1>1, <1>2
  <2> HIDE DEF S
  <2>2. \E g \in [SUBSET S -> Int] : SumFunction(s) = g[S]
    BY <2>1, SumFunctionOK
  <2>3. QED
    BY <2>2 DEF S
<1>4. QED
  BY <1>1, <1>2, <1>3

\* No block.
LEMMA SumOfEmpty == SumFunction(<< >>) = 0
<1> DEFINE S == 1..0
           f == [x \in S |-> 0]
<1>1. S = {} /\ IsFiniteSet(S) /\ f \in [S -> Int]
  BY FS_EmptySet
<1>2. << >> = f
  <2>1. f \in Seq(Int) /\ Len(f) = 0
    OBVIOUS
  <2>2. QED
    BY <2>1, EmptySeq
<1> HIDE DEF S, f
<1>3. PICK g \in [SUBSET S -> Int] : Sums(f, S, g) /\ SumFunction(f) = g[S]
  BY <1>1, SumFunctionOK
<1>4. Additive(f, S, g)
  BY <1>1, <1>3, SumsOK
<1>5. QED
  BY <1>1, <1>2, <1>3, <1>4 DEF Additive

\* One more block.
LEMMA SumOfAppend ==
  ASSUME NEW s \in Seq(Int), NEW e \in Int
  PROVE  SumFunction(Append(s, e)) = SumFunction(s) + e
<1> DEFINE n == Len(s)
           h == Append(s, e)
           S == 1..n
           T == 1..n + 1
<1>1. n \in Nat /\ IsFiniteSet(S) /\ s \in [S -> Int]
  BY SumOfSequence
<1>2. h \in Seq(Int) /\ Len(h) = n + 1 /\ h[n + 1] = e /\ \A i \in S : h[i] = s[i]
  BY AppendProperties
<1>3. IsFiniteSet(T) /\ h \in [T -> Int]
  <2>1. Len(h) = n + 1 /\ h \in Seq(Int)
    BY <1>2
  <2> HIDE DEF h, n
  <2>2. QED
    BY <2>1, SumOfSequence
<1>4. S \subseteq T /\ n + 1 \in T /\ T \ {n + 1} = S
  BY <1>1
<1> HIDE DEF n, h, S, T
<1>5. PICK g \in [SUBSET S -> Int] : Sums(s, S, g) /\ SumFunction(s) = g[S]
  BY <1>1, SumFunctionOK
<1>6. PICK k \in [SUBSET T -> Int] : Sums(h, T, k) /\ SumFunction(h) = k[T]
  BY <1>3, SumFunctionOK
<1>7. g[S] = k[S]
  <2>1. \A x \in S : s[x] = h[x]
    BY <1>2
  <2>2. AreSums(s, S, g) /\ AreSums(h, T, k)
    BY <1>1, <1>3, <1>5, <1>6 DEF AreSums
  <2>3. QED
    BY <1>4, <2>1, <2>2, SumsAgree
<1>8. Additive(h, T, k)
  BY <1>3, <1>6, SumsOK
<1>9. k[T] = h[n + 1] + k[T \ {n + 1}]
  BY <1>4, <1>8 DEF Additive
<1>10. SumFunction(h) = e + g[S]
  BY <1>2, <1>4, <1>6, <1>7, <1>9
<1>11. g[S] \in Int
  OBVIOUS
<1>12. QED
  BY <1>5, <1>10, <1>11 DEF h

-----------------------------------------------------------------------------
(* The allocator.                                                          *)

USE ConstantsAssumption

\* The slop brings alloc_ptr_ to the next boundary.
LEMMA SlopOK ==
  ASSUME offset \in Nat
  PROVE  /\ Slop \in Nat /\ Slop < Align
         /\ (offset + Slop) % Align = 0
<1> DEFINE r == offset % Align
           q == offset \div Align
<1>1. /\ Align \in Nat \ {0} /\ r \in 0..Align - 1 /\ q \in Int
      /\ offset = Align * q + r
  OBVIOUS
<1>2. CASE r = 0
  BY <1>1, <1>2 DEF Slop
<1>3. CASE r # 0
  <2>1. Slop = Align - r
    BY <1>3 DEF Slop
  <2>2. offset + Slop = Align * (q + 1)
    BY <1>1, <2>1
  <2>3. (Align * (q + 1)) % Align = 0
    BY <1>1
  <2>4. QED
    BY <1>1, <1>3, <2>1, <2>2, <2>3
<1>4. QED
  BY <1>2, <1>3

\* The empty arena.
LEMMA InitInv == Init => Inv
BY DEF Init, Inv, TypeOK, CurrentOK, Separate, AlignedResults, WasteBounded, Allocation

\* The history after a request.
LEMMA GiveOK ==
  ASSUME Inv, NEW block \in Nat \ {0}, NEW from \in Nat, NEW bytes \in Sizes,
         NEW aligned \in BOOLEAN, Give(block, from, bytes, aligned)
  PROVE  /\ allocs' \in Seq(Allocation) /\ Len(allocs') = Len(allocs) + 1
         /\ \A n \in 1..Len(allocs) : allocs'[n] = allocs[n]
         /\ allocs'[Len(allocs) + 1] = [block |-> block, from |-> from,
                                        size |-> bytes, aligned |-> aligned]
<1>1. [block |-> block, from |-> from, size |-> bytes, aligned |-> aligned] \in Allocation
  BY DEF Allocation
<1>2. allocs \in Seq(Allocation)
  BY DEF Inv, TypeOK
<1>3. QED
  BY <1>1, <1>2, AppendProperties DEF Give

\* An old element keeps its End.
LEMMA OldEnds ==
  ASSUME Inv, NEW n \in 1..Len(allocs), allocs'[n] = allocs[n]
  PROVE  End(n)' = End(n) /\ End(n) \in Nat /\ allocs[n] \in Allocation
<1>1. allocs[n] \in Allocation
  BY LenProperties DEF Inv, TypeOK
<1>2. QED
  BY <1>1 DEF End, Allocation

\* The pairs of old elements.
LEMMA OldSeparate ==
  ASSUME Inv, NEW n \in 1..Len(allocs),
         \A k \in 1..Len(allocs) : allocs'[k] = allocs[k] /\ End(k)' = End(k)
  PROVE  /\ allocs'[n].block \in 1..Len(blocks)
         /\ End(n)' <= blocks[allocs'[n].block]
         /\ \A m \in 1..Len(allocs) :
               m < n /\ allocs'[m].block = allocs'[n].block =>
                  End(m)' <= allocs'[n].from \/ End(n)' <= allocs'[m].from
BY DEF Inv, Separate

\* A request served from the current block.
LEMMA BumpInv ==
  ASSUME Inv, NEW bytes \in Sizes, NEW slop \in Nat, NEW aligned \in BOOLEAN,
         slop + bytes <= remaining, aligned => (offset + slop) % Align = 0,
         Bump(bytes, slop, aligned)
  PROVE  Inv'
<1> PICK last \in Nat : last = Len(allocs) + 1
  BY LenProperties DEF Inv, TypeOK
<1>1. /\ Len(allocs) \in Nat /\ Len(blocks) \in Nat /\ bytes \in Nat \ {0}
      /\ offset \in Nat /\ remaining \in Nat /\ current \in 0..Len(blocks)
  BY LenProperties DEF Inv, TypeOK
<1>2. current # 0 /\ blocks[current] = BlockSize /\ offset + remaining = BlockSize
  BY <1>1 DEF Inv, CurrentOK
<1>3. /\ UNCHANGED <<blocks, current, memoryUsage>>
      /\ offset' = offset + slop + bytes /\ remaining' = remaining - (slop + bytes)
      /\ Give(current, offset + slop, bytes, aligned)
  BY DEF Bump
<1>4. /\ allocs' \in Seq(Allocation) /\ Len(allocs') = last
      /\ \A n \in 1..Len(allocs) : allocs'[n] = allocs[n]
      /\ allocs'[last] = [block |-> current, from |-> offset + slop,
                          size |-> bytes, aligned |-> aligned]
  BY <1>1, <1>2, <1>3, GiveOK
<1>5. \A n \in 1..Len(allocs) : End(n)' = End(n) /\ End(n) \in Nat
  BY <1>4, OldEnds
<1>6. End(last)' = offset'
  BY <1>3, <1>4 DEF End
<1>7. TypeOK'
  BY <1>1, <1>3, <1>4 DEF Inv, TypeOK
<1>8. CurrentOK'
  <2>1. \A n \in 1..Len(allocs') : allocs'[n].block = current => End(n)' <= offset'
    <3>1. \A n \in 1..Len(allocs) : allocs[n].block = current => End(n) <= offset
      BY <1>2 DEF Inv, CurrentOK
    <3>2. \A n \in 1..Len(allocs) : allocs'[n].block = current => End(n)' <= offset'
      <4>1. offset <= offset' /\ offset' \in Nat
        BY <1>1, <1>3
      <4>2. ASSUME NEW n \in 1..Len(allocs), allocs'[n].block = current
            PROVE  End(n)' <= offset'
        <5>1. End(n) <= offset /\ End(n)' = End(n) /\ End(n) \in Nat
          BY <1>4, <1>5, <3>1, <4>2
        <5>2. QED
          BY <1>1, <4>1, <5>1
      <4>3. QED
        BY <4>2
    <3>3. \A n \in 1..Len(allocs') : n \in 1..Len(allocs) \/ n = last
      BY <1>1, <1>4
    <3>4. QED
      BY <1>1, <1>3, <1>6, <3>2, <3>3
  <2>2. offset' + remaining' = BlockSize
    BY <1>1, <1>2, <1>3
  <2>3. last \in 1..Len(allocs') /\ allocs'[last].block = current
    BY <1>1, <1>4
  <2>4. QED
    BY <1>2, <1>3, <1>6, <2>1, <2>2, <2>3 DEF CurrentOK
<1>9. Separate'
  <2>1. ASSUME NEW n \in 1..Len(allocs)
        PROVE  /\ allocs'[n].block \in 1..Len(blocks)
               /\ End(n)' <= blocks[allocs'[n].block]
               /\ \A m \in 1..Len(allocs') :
                     m < n /\ allocs'[m].block = allocs'[n].block =>
                        End(m)' <= allocs'[n].from \/ End(n)' <= allocs'[m].from
    <3>1. \A m \in 1..Len(allocs') : m < n => m \in 1..Len(allocs)
      BY <1>1, <1>4
    <3>2. QED
      BY <1>4, <1>5, <3>1, OldSeparate
  <2>2. /\ allocs'[last].block \in 1..Len(blocks)
        /\ End(last)' <= blocks[allocs'[last].block]
    BY <1>1, <1>2, <1>3, <1>4, <1>6
  <2>3. ASSUME NEW m \in 1..Len(allocs), allocs'[m].block = current
        PROVE  End(m)' <= offset + slop
    <3>1. \A n \in 1..Len(allocs) : allocs[n].block = current => End(n) <= offset
      BY <1>2 DEF Inv, CurrentOK
    <3>2. End(m) <= offset /\ End(m)' = End(m) /\ End(m) \in Nat
      BY <1>4, <1>5, <2>3, <3>1
    <3>3. QED
      BY <1>1, <3>2
  <2>4. QED
    BY <1>1, <1>3, <1>4, <2>1, <2>2, <2>3 DEF Separate
<1>10. AlignedResults'
  <2> DEFINE OnBoundary(a) == a.from % Align = 0
  <2>1. \A n \in 1..Len(allocs) : allocs[n].aligned => OnBoundary(allocs[n])
    BY DEF Inv, AlignedResults
  <2>2. allocs'[last].aligned => OnBoundary(allocs'[last])
    BY <1>4
  <2> HIDE DEF OnBoundary
  <2>3. \A n \in 1..Len(allocs') : allocs'[n].aligned => OnBoundary(allocs'[n])
    BY <1>1, <1>4, <2>1, <2>2
  <2>4. QED
    BY <2>3 DEF AlignedResults, OnBoundary
<1>11. WasteBounded'
  <2>1. ASSUME NEW b \in 1..Len(blocks), b # current
        PROVE  \E n \in 1..Len(allocs') :
                  /\ allocs'[n].block = b
                  /\ \/ blocks[b] - End(n)' < BlockSize \div 4 + Align - 1
                     \/ blocks[b] = End(n)'
    <3>1. PICK n \in 1..Len(allocs) :
             /\ allocs[n].block = b
             /\ \/ blocks[b] - End(n) < BlockSize \div 4 + Align - 1
                \/ blocks[b] = End(n)
      BY <2>1 DEF Inv, WasteBounded
    <3>2. n \in 1..Len(allocs') /\ allocs'[n] = allocs[n] /\ End(n)' = End(n)
      <4>1. n \in 1..Len(allocs')
        BY <1>1, <1>4
      <4>2. QED
        BY <1>4, <1>5, <4>1
    <3>3. QED
      BY <3>1, <3>2
  <2>2. QED
    BY <1>3, <2>1 DEF WasteBounded
<1>12. QED
  BY <1>7, <1>8, <1>9, <1>10, <1>11 DEF Inv

\* A request that needs a new block, and what of the current one is lost to it.
LEMMA FallbackInv ==
  ASSUME Inv, NEW bytes \in Sizes, NEW aligned \in BOOLEAN,
         remaining < bytes + Align - 1 \/ remaining < bytes,
         AllocateFallback(bytes, aligned)
  PROVE  Inv'
<1> PICK last \in Nat, fresh \in Nat : last = Len(allocs) + 1 /\ fresh = Len(blocks) + 1
  BY LenProperties DEF Inv, TypeOK
<1> DEFINE size == IF BigRequest(bytes) THEN bytes ELSE BlockSize
<1>1. /\ Len(allocs) \in Nat /\ Len(blocks) \in Nat /\ bytes \in Nat \ {0}
      /\ offset \in Nat /\ remaining \in Nat /\ current \in 0..Len(blocks)
  BY LenProperties DEF Inv, TypeOK
<1>2. /\ Give(fresh, 0, bytes, aligned) /\ blocks' = Append(blocks, size)
      /\ memoryUsage' = memoryUsage + size + PointerSize
      /\ BigRequest(bytes) => UNCHANGED <<current, offset, remaining>>
      /\ ~BigRequest(bytes) => /\ current' = fresh /\ offset' = bytes
                               /\ remaining' = BlockSize - bytes
  BY DEF AllocateFallback, AllocateNewBlock
<1>3. /\ size \in Nat \ {0} /\ bytes <= size
      /\ ~BigRequest(bytes) => bytes <= BlockSize \div 4
  BY <1>1 DEF BigRequest
<1> HIDE DEF size
<1>4. /\ allocs' \in Seq(Allocation) /\ Len(allocs') = last
      /\ \A n \in 1..Len(allocs) : allocs'[n] = allocs[n]
      /\ allocs'[last] = [block |-> fresh, from |-> 0,
                          size |-> bytes, aligned |-> aligned]
  BY <1>1, <1>2, GiveOK
<1>5. \A n \in 1..Len(allocs) : End(n)' = End(n) /\ End(n) \in Nat
  BY <1>4, OldEnds
<1>6. End(last)' = bytes
  BY <1>1, <1>4 DEF End
<1>7. /\ blocks' \in Seq(Nat \ {0}) /\ Len(blocks') = fresh
      /\ \A b \in 1..Len(blocks) : blocks'[b] = blocks[b]
      /\ blocks'[fresh] = size
  BY <1>2, <1>3, AppendProperties DEF Inv, TypeOK
<1>8. \A n \in 1..Len(allocs) : allocs[n].block \in 1..Len(blocks)
  BY DEF Inv, Separate
<1>9. TypeOK'
  <2>1. memoryUsage' \in Nat
    BY <1>2, <1>3 DEF Inv, TypeOK
  <2>2. /\ current' \in 0..fresh /\ offset' \in Nat /\ remaining' \in Nat
    <3>1. CASE BigRequest(bytes)
      BY <1>1, <1>2, <3>1
    <3>2. CASE ~BigRequest(bytes)
      <4>1. BlockSize - bytes \in Nat
        BY <1>1, <1>3, <3>2
      <4>2. QED
        BY <1>1, <1>2, <3>2, <4>1
    <3>3. QED
      BY <3>1, <3>2
  <2>3. QED
    BY <1>4, <1>7, <2>1, <2>2 DEF TypeOK
<1>10. CurrentOK'
  <2>1. CASE BigRequest(bytes) /\ current = 0
    BY <1>2, <2>1 DEF Inv, CurrentOK
  <2>2. CASE BigRequest(bytes) /\ current # 0
    <3>1. /\ blocks[current] = BlockSize /\ offset + remaining = BlockSize
          /\ \A n \in 1..Len(allocs) : allocs[n].block = current => End(n) <= offset
      BY <2>2 DEF Inv, CurrentOK
    <3>2. PICK n \in 1..Len(allocs) : allocs[n].block = current /\ End(n) = offset
      BY <2>2 DEF Inv, CurrentOK
    <3>3. n \in 1..Len(allocs') /\ allocs'[n].block = current /\ End(n)' = offset
      BY <1>1, <1>4, <1>5, <3>2
    <3>4. \A m \in 1..Len(allocs') : allocs'[m].block = current => End(m)' <= offset
      <4>1. \A m \in 1..Len(allocs') : m \in 1..Len(allocs) \/ m = last
        BY <1>1, <1>4
      <4>2. allocs'[last].block # current
        BY <1>1, <1>4
      <4>3. QED
        BY <1>4, <1>5, <3>1, <4>1, <4>2
    <3>5. blocks'[current] = BlockSize
      <4>1. current \in 1..Len(blocks)
        BY <1>1, <2>2
      <4>2. QED
        BY <1>7, <3>1, <4>1
    <3>6. UNCHANGED <<current, offset, remaining>>
      BY <1>2, <2>2
    <3>7. QED
      BY <2>2, <3>1, <3>3, <3>4, <3>5, <3>6 DEF CurrentOK
  <2>3. CASE ~BigRequest(bytes)
    <3>1. \A m \in 1..Len(allocs') : allocs'[m].block = fresh => m = last
      BY <1>1, <1>4, <1>8
    <3>2. last \in 1..Len(allocs') /\ allocs'[last].block = fresh
      BY <1>1, <1>4
    <3>3. blocks'[fresh] = BlockSize
      BY <1>7, <2>3 DEF size
    <3>4. QED
      <4>1. /\ current' = fresh /\ fresh # 0
            /\ offset' = bytes /\ remaining' = BlockSize - bytes
        BY <1>1, <1>2, <2>3
      <4>2. offset' + remaining' = BlockSize
        BY <1>1, <4>1
      <4>3. \A n \in 1..Len(allocs') : allocs'[n].block = fresh => End(n)' <= offset'
        BY <1>1, <1>6, <3>1, <4>1
      <4>4. QED
        BY <1>6, <3>2, <3>3, <4>1, <4>2, <4>3 DEF CurrentOK
  <2>4. QED
    BY <2>1, <2>2, <2>3
<1>11. Separate'
  <2>1. ASSUME NEW n \in 1..Len(allocs)
        PROVE  /\ allocs'[n].block \in 1..Len(blocks')
               /\ End(n)' <= blocks'[allocs'[n].block]
               /\ \A m \in 1..Len(allocs') :
                     m < n /\ allocs'[m].block = allocs'[n].block =>
                        End(m)' <= allocs'[n].from \/ End(n)' <= allocs'[m].from
    <3>1. \A m \in 1..Len(allocs') : m < n => m \in 1..Len(allocs)
      BY <1>1, <1>4
    <3>2. 1..Len(blocks) \subseteq 1..Len(blocks')
      BY <1>1, <1>7
    <3>3. QED
      BY <1>4, <1>5, <1>7, <3>1, <3>2, OldSeparate
  <2>2. /\ allocs'[last].block \in 1..Len(blocks')
        /\ End(last)' <= blocks'[allocs'[last].block]
    BY <1>1, <1>3, <1>4, <1>6, <1>7
  <2>3. \A m \in 1..Len(allocs) : allocs'[m].block # allocs'[last].block
    BY <1>1, <1>4, <1>8
  <2>4. QED
    BY <1>1, <1>4, <2>1, <2>2, <2>3 DEF Separate
<1>12. AlignedResults'
  <2>1. 0 % Align = 0
    OBVIOUS
  <2>2. QED
    BY <1>1, <1>4, <2>1 DEF Inv, AlignedResults
<1>13. WasteBounded'
  <2>1. ASSUME NEW b \in 1..Len(blocks), b # current'
        PROVE  \E n \in 1..Len(allocs) :
                  /\ allocs[n].block = b
                  /\ \/ blocks[b] - End(n) < BlockSize \div 4 + Align - 1
                     \/ blocks[b] = End(n)
    <3>1. CASE b # current
      BY <3>1 DEF Inv, WasteBounded
    <3>2. CASE b = current
      <4>1. PICK n \in 1..Len(allocs) : allocs[n].block = b /\ End(n) = offset
        BY <2>1, <3>2 DEF Inv, CurrentOK
      <4>2. blocks[b] - offset = remaining
        <5>1. current # 0
          BY <1>1, <2>1, <3>2
        <5>2. blocks[current] = BlockSize /\ offset + remaining = BlockSize
          BY <5>1 DEF Inv, CurrentOK
        <5>3. QED
          BY <1>1, <3>2, <5>2
      <4>3. ~BigRequest(bytes)
        BY <1>2, <2>1, <3>2
      <4>4. remaining < BlockSize \div 4 + Align - 1
        BY <1>1, <1>3, <4>3
      <4>5. QED
        BY <4>1, <4>2, <4>4
    <3>3. QED
      BY <3>1, <3>2
  <2>2. ASSUME NEW b \in 1..Len(blocks), b # current'
        PROVE  \E n \in 1..Len(allocs') :
                  /\ allocs'[n].block = b
                  /\ \/ blocks'[b] - End(n)' < BlockSize \div 4 + Align - 1
                     \/ blocks'[b] = End(n)'
    <3>1. PICK n \in 1..Len(allocs) :
             /\ allocs[n].block = b
             /\ \/ blocks[b] - End(n) < BlockSize \div 4 + Align - 1
                \/ blocks[b] = End(n)
      BY <2>1, <2>2
    <3>2. n \in 1..Len(allocs') /\ allocs'[n] = allocs[n] /\ End(n)' = End(n)
      <4>1. n \in 1..Len(allocs')
        BY <1>1, <1>4
      <4>2. QED
        BY <1>4, <1>5, <4>1
    <3>3. QED
      BY <1>7, <3>1, <3>2
  <2>3. fresh # current' => blocks'[fresh] = End(last)'
    BY <1>2, <1>6, <1>7 DEF size
  <2>4. last \in 1..Len(allocs') /\ allocs'[last].block = fresh
    BY <1>1, <1>4
  <2>5. \A b \in 1..Len(blocks') : b \in 1..Len(blocks) \/ b = fresh
    BY <1>1, <1>7
  <2>6. QED
    BY <2>2, <2>3, <2>4, <2>5 DEF WasteBounded
<1>14. QED
  BY <1>9, <1>10, <1>11, <1>12, <1>13 DEF Inv

\* Either operation takes the fast path only when the request fits.
LEMMA NextInv == ASSUME Inv, [Next]_vars PROVE Inv'
<1>1. offset \in Nat /\ remaining \in Nat /\ Sizes \subseteq Nat /\ Align \in Nat \ {0}
  BY DEF Inv, TypeOK
<1>2. ASSUME NEW bytes \in Sizes, Allocate(bytes) PROVE Inv'
  <2>1. CASE bytes <= remaining
    <3>1. Bump(bytes, 0, FALSE)
      BY <1>2, <2>1, Zenon DEF Allocate
    <3>2. 0 + bytes <= remaining /\ 0 \in Nat
      BY <1>1, <2>1
    <3>3. QED
      BY <3>1, <3>2, BumpInv
  <2>2. CASE ~(bytes <= remaining)
    <3>1. AllocateFallback(bytes, FALSE)
      BY <1>2, <2>2, Zenon DEF Allocate
    <3>2. remaining < bytes
      BY <1>1, <2>2
    <3>3. QED
      BY <3>1, <3>2, FallbackInv
  <2>3. QED
    BY <2>1, <2>2
<1>3. ASSUME NEW bytes \in Sizes, AllocateAligned(bytes) PROVE Inv'
  <2>1. Slop \in Nat /\ Slop < Align /\ (offset + Slop) % Align = 0
    BY <1>1, SlopOK
  <2>2. CASE bytes + Slop <= remaining
    <3>1. Bump(bytes, Slop, TRUE)
      BY <1>3, <2>2, Zenon DEF AllocateAligned
    <3>2. Slop + bytes <= remaining
      BY <1>1, <2>1, <2>2
    <3>3. QED
      BY <2>1, <3>1, <3>2, BumpInv
  <2>3. CASE ~(bytes + Slop <= remaining)
    <3>1. AllocateFallback(bytes, TRUE)
      BY <1>3, <2>3, Zenon DEF AllocateAligned
    <3>2. remaining < bytes + Align - 1
      BY <1>1, <2>1, <2>3
    <3>3. QED
      BY <3>1, <3>2, FallbackInv
  <2>4. QED
    BY <2>2, <2>3
<1>4. CASE UNCHANGED vars
  BY <1>4 DEF vars, Inv, TypeOK, CurrentOK, Separate, AlignedResults, WasteBounded, End
<1>5. QED
  BY <1>2, <1>3, <1>4 DEF Next

THEOREM Invariance == Spec => []Inv
BY InitInv, NextInv, PTL DEF Spec

\* The types: in particular alloc_bytes_remaining_, a size_t, never wraps below 0.
THEOREM TypeCorrect == Spec => []TypeOK
<1>1. Inv => TypeOK
  BY DEF Inv
<1>2. QED
  BY <1>1, Invariance, PTL

\* Any mixture of requests, in any order: what callers hold never overlaps.
THEOREM AllocationsSeparate == Spec => []Separate
<1>1. Inv => Separate
  BY DEF Inv
<1>2. QED
  BY <1>1, Invariance, PTL

\* The assertion at the end of AllocateAligned, for every alignment.
THEOREM AllocationsAligned == Spec => []AlignedResults
<1>1. Inv => AlignedResults
  BY DEF Inv
<1>2. QED
  BY <1>1, Invariance, PTL

\* The waste at the end of a block, for every block size.
THEOREM LeftoverBounded == Spec => []WasteBounded
<1>1. Inv => WasteBounded
  BY DEF Inv
<1>2. QED
  BY <1>1, Invariance, PTL

-----------------------------------------------------------------------------
(* What the arena reports.                                                 *)

\* An empty arena uses nothing.
LEMMA InitUsage == Init => UsageExact
<1> SUFFICES ASSUME Init PROVE UsageExact
  OBVIOUS
<1>1. blocks = << >> /\ memoryUsage = 0 /\ SumFunction(blocks) = 0
  BY SumOfEmpty DEF Init
<1>2. Len(blocks) = 0
  BY <1>1
<1>3. QED
  BY <1>1, <1>2 DEF UsageExact

\* A new block adds its size and its slot to both sides.
LEMMA NewBlockUsage ==
  ASSUME TypeOK, UsageExact, NEW size \in Nat, AllocateNewBlock(size)
  PROVE  UsageExact'
<1> PICK n \in Nat, sum \in Int : n = Len(blocks) /\ sum = SumFunction(blocks)
  <2>1. blocks \in Seq(Int)
    BY SeqMonotonic, Nat \ {0} \subseteq Int DEF TypeOK
  <2>2. QED
    BY <2>1, SumOfSequence
<1>1. blocks' = Append(blocks, size) /\ memoryUsage' = memoryUsage + size + PointerSize
  BY DEF AllocateNewBlock
<1>2. SumFunction(blocks') = sum + size
  <2>1. blocks \in Seq(Int) /\ size \in Int
    BY SeqMonotonic, Nat \ {0} \subseteq Int DEF TypeOK
  <2>2. QED
    BY <1>1, <2>1, SumOfAppend
<1>3. Len(blocks') = n + 1
  BY <1>1, AppendProperties DEF TypeOK
<1>4. memoryUsage = sum + PointerSize * n
  BY DEF UsageExact
<1>5. PointerSize * (n + 1) = PointerSize * n + PointerSize /\ PointerSize * n \in Int
  OBVIOUS
<1>6. memoryUsage' = SumFunction(blocks') + PointerSize * Len(blocks')
  <2>1. memoryUsage' = sum + PointerSize * n + size + PointerSize
    BY <1>1, <1>4
  <2>2. QED
    BY <1>2, <1>3, <1>5, <2>1
<1>7. QED
  BY <1>6 DEF UsageExact

\* A request changes blocks_ and memory_usage_ together or neither.
LEMMA NextUsage == ASSUME TypeOK, UsageExact, [Next]_vars PROVE UsageExact'
<1>1. ASSUME UNCHANGED <<blocks, memoryUsage>> PROVE UsageExact'
  BY <1>1 DEF UsageExact
<1>2. ASSUME NEW bytes \in Sizes, NEW aligned \in BOOLEAN, AllocateFallback(bytes, aligned)
      PROVE  UsageExact'
  <2>1. PICK size \in Nat : AllocateNewBlock(size)
    BY <1>2 DEF AllocateFallback
  <2>2. QED
    BY <2>1, NewBlockUsage
<1>3. ASSUME NEW bytes \in Sizes, Allocate(bytes) PROVE UsageExact'
  <2>1. CASE Bump(bytes, 0, FALSE)
    BY <1>1, <2>1 DEF Bump
  <2>2. CASE AllocateFallback(bytes, FALSE)
    BY <1>2, <2>2
  <2>3. QED
    BY <1>3, <2>1, <2>2, Zenon DEF Allocate
<1>4. ASSUME NEW bytes \in Sizes, AllocateAligned(bytes) PROVE UsageExact'
  <2>1. CASE Bump(bytes, Slop, TRUE)
    BY <1>1, <2>1 DEF Bump
  <2>2. CASE AllocateFallback(bytes, TRUE)
    BY <1>2, <2>2
  <2>3. QED
    BY <1>4, <2>1, <2>2, Zenon DEF AllocateAligned
<1>5. CASE UNCHANGED vars
  BY <1>1, <1>5 DEF vars
<1>6. QED
  BY <1>3, <1>4, <1>5 DEF Next

\* MemoryUsage() is exact after every mixture of requests: no block and no slot
\* is forgotten or counted twice.
THEOREM UsageCounted == Spec => []UsageExact
BY InitUsage, NextUsage, TypeCorrect, PTL DEF Spec
============================================================================
