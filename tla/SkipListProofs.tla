--------------------------- MODULE SkipListProofs ---------------------------
(***************************************************************************)
(* Inv is an inductive invariant of SkipList, for every set of keys and    *)
(* readers and every height and number of nodes; and SkipList implements   *)
(* ConcurrentBag.                                                          *)
(***************************************************************************)
EXTENDS SkipList, SequenceTheorems, TLAPS

USE ConstantsAssumption DEF head_, Nodes, Levels, Procs, Searching

\* The actions that leave the list and the linking of a node alone.
Linking == pc[Writer] \in {"set", "link"}

Elsewhere == /\ UNCHANGED <<list, i>>
             /\ Linking \/ Linking' => pc'[Writer] = pc[Writer]

\* Such an action changes no level ...
LEMMA SameLevels ==
  ASSUME Elsewhere
  PROVE  /\ \A l \in Levels : InLevel(l)' = InLevel(l)
         /\ joined' = joined
BY DEF Elsewhere, Linking, InLevel, joined, list

\* ... and keeps what is said of the list alone.
LEMMA SameList ==
  ASSUME Inv, Elsewhere
  PROVE  MemoryOK' /\ LevelsOrdered' /\ LevelsNested'
<1>1. /\ \A l \in Levels : InLevel(l)' = InLevel(l)
      /\ joined' = joined
      /\ UNCHANGED <<count, key, next, maxHeight>>
  BY SameLevels DEF Elsewhere, list
<1>2. MemoryOK'
  BY <1>1 DEF Inv, MemoryOK
<1>3. LevelsOrdered'
  BY <1>1 DEF Inv, LevelsOrdered, Before
<1>4. LevelsNested'
  <2>1. \A l \in Levels : l > 0 => l - 1 \in Levels
    OBVIOUS
  <2>2. QED
    BY <1>1, <2>1 DEF Inv, LevelsNested
<1>5. QED
  BY <1>2, <1>3, <1>4

LEMMA InitInv == Init => Inv
<1> SUFFICES ASSUME Init PROVE Inv
  OBVIOUS
<1>1. TypeOK
  BY DEF Init, TypeOK, NoPrev
<1>2. \A l \in Levels : InLevel(l) = {}
  BY DEF Init, InLevel
<1>3. MemoryOK
  BY <1>2 DEF Init, MemoryOK, joined
<1>4. LevelsOrdered /\ LevelsNested
  BY <1>2 DEF Init, LevelsOrdered, LevelsNested
<1>5. SearchOK /\ WriterOK
  BY DEF Init, SearchOK, WriterOK
<1>6. QED
  BY <1>1, <1>3, <1>4, <1>5 DEF Inv

-----------------------------------------------------------------------------
(* What a search knows about the slot it has just loaded.                  *)

LEMMA InLevelNodes ==
  ASSUME TypeOK, NEW l
  PROVE  InLevel(l) \subseteq Nodes
BY DEF InLevel, TypeOK

LEMMA LoadedOK ==
  ASSUME Inv, NEW p \in Procs, pc[p] \in Searching
  PROVE  /\ Loaded(p) \in InLevel(level[p]) \cup {NULL}
         /\ Loaded(p) # NULL => Loaded(p) \in Nodes /\ key[Loaded(p)] \in Keys
         /\ Loaded(p) # Wild
<1>1. level[p] \in Levels /\ x[p] \in {head_} \cup InLevel(level[p])
  BY DEF Inv, TypeOK, SearchOK
<1>2. Loaded(p) \in InLevel(level[p]) \cup {NULL}
  BY <1>1 DEF Inv, LevelsOrdered, Loaded
<1>3. InLevel(level[p]) \subseteq 1..count /\ count \in 0..MaxNodes
  BY DEF InLevel, Inv, TypeOK
<1>4. QED
  BY <1>2, <1>3 DEF Inv, MemoryOK

LEMMA GoesRightOK ==
  ASSUME Inv, NEW p \in Procs, pc[p] \in Searching
  PROVE  /\ GoesRight(p) \in BOOLEAN
         /\ GoesRight(p) => Loaded(p) \in InLevel(level[p])
         /\ GoesRight(p) /\ pc[p] # "last" => key[Loaded(p)] < target[p]
         /\ ~GoesRight(p) /\ pc[p] # "last" /\ Loaded(p) # NULL =>
                key[Loaded(p)] >= target[p]
         /\ ~GoesRight(p) /\ pc[p] = "last" => Loaded(p) = NULL
<1>1. pc[p] # "last" => target[p] \in Int
  BY DEF Inv, SearchOK
<1>2. /\ Loaded(p) \in InLevel(level[p]) \cup {NULL}
      /\ Loaded(p) # NULL => key[Loaded(p)] \in Int
  BY LoadedOK
<1>3. CASE pc[p] \in {"insert", "seek", "contains"}
  <2>1. GoesRight(p) <=> Loaded(p) # NULL /\ key[Loaded(p)] < target[p]
    BY <1>3 DEF GoesRight, KeyIsAfterNode
  <2>2. (key[Loaded(p)] < target[p]) \in BOOLEAN
    BY <1>3
  <2>3. pc[p] # "last" /\ target[p] \in Int
    BY <1>1, <1>3
  <2>4. GoesRight(p) \in BOOLEAN
    BY <1>3 DEF GoesRight, KeyIsAfterNode
  <2>5. QED
    BY <1>2, <2>1, <2>3, <2>4
<1>4. CASE pc[p] = "prev"
  BY <1>1, <1>2, <1>4 DEF GoesRight
<1>5. CASE pc[p] = "last"
  BY <1>2, <1>5 DEF GoesRight
<1>6. QED
  BY <1>3, <1>4, <1>5

LEMMA MoveRightInv == ASSUME Inv, NEW p \in Procs, MoveRight(p) PROVE Inv'
<1>1. Elsewhere
  BY DEF MoveRight, Elsewhere, insert
<1>2. /\ pc[p] \in Searching
      /\ Loaded(p) \in InLevel(level[p])
      /\ pc[p] # "last" => key[Loaded(p)] < target[p]
      /\ Loaded(p) \in Nodes
  BY GoesRightOK, InLevelNodes DEF MoveRight, Inv
<1>3. /\ \A l \in Levels : InLevel(l)' = InLevel(l)
      /\ UNCHANGED <<count, key, next, maxHeight, pc, target, level>>
      /\ UNCHANGED <<prev, height, i, pos, found>>
      /\ x' = [x EXCEPT ![p] = Loaded(p)]
  BY SameLevels, <1>1 DEF MoveRight, list, insert
<1>4. TypeOK'
  BY <1>2, <1>3 DEF Inv, TypeOK
<1>5. SearchOK'
  BY <1>2, <1>3 DEF Inv, SearchOK, TypeOK
<1>6. WriterOK'
  BY <1>3 DEF Inv, WriterOK, PrevOK
<1>7. QED
  BY <1>1, <1>4, <1>5, <1>6, SameList DEF Inv

LEMMA MoveDownInv == ASSUME Inv, NEW p \in Procs, MoveDown(p) PROVE Inv'
<1>1. Elsewhere
  BY DEF MoveDown, Elsewhere
<1>2. /\ \A l \in Levels : InLevel(l)' = InLevel(l)
      /\ UNCHANGED <<count, key, next, maxHeight, pc, target, x>>
      /\ UNCHANGED <<height, i, pos, found>>
      /\ level' = [level EXCEPT ![p] = @ - 1]
      /\ prev' = IF p = Writer THEN [prev EXCEPT ![level[p]] = x[p]] ELSE prev
      /\ pc[p] \in Searching /\ level[p] > 0 /\ level[p] \in Levels
  BY SameLevels, <1>1 DEF MoveDown, list, Inv, TypeOK
<1>3. TypeOK'
  BY <1>2 DEF Inv, TypeOK
<1>4. SearchOK'
  <2>1. x[p] \in {head_} \cup InLevel(level[p] - 1)
    BY <1>2 DEF Inv, SearchOK, LevelsNested
  <2>2. QED
    BY <1>2, <2>1 DEF Inv, SearchOK, TypeOK
<1>5. WriterOK'
  <2>1. CASE p # Writer
    BY <1>2, <2>1 DEF Inv, WriterOK, PrevOK
  <2>2. CASE p = Writer
    <3>1. /\ pc[Writer] = "insert" /\ ~GoesRight(Writer)
          /\ prev' = [prev EXCEPT ![level[Writer]] = x[Writer]]
      BY <1>2, <2>2 DEF MoveDown, Inv, TypeOK
    <3>2. ASSUME NEW l \in Levels, l = level[Writer] PROVE PrevOK(l)'
      <4>1. /\ prev'[level[Writer]] = x[Writer]
            /\ level[Writer] \in Levels /\ level'[Writer] # level[Writer]
        BY <1>2, <2>2, <3>1 DEF Inv, TypeOK
      <4>2. /\ x[Writer] \in {head_} \cup InLevel(level[Writer])
            /\ x[Writer] # head_ => key[x[Writer]] < target[Writer]
        BY <3>1 DEF Inv, SearchOK
      <4>3. Loaded(Writer) # NULL => key[Loaded(Writer)] >= target[Writer]
        BY <1>2, <2>2, <3>1, GoesRightOK
      <4>4. QED
        BY <1>2, <3>2, <4>1, <4>2, <4>3 DEF PrevOK, Loaded
    <3>3. ASSUME NEW l \in Levels, level[Writer] < l, l < maxHeight
          PROVE  PrevOK(l)'
      BY <1>2, <3>1, <3>3 DEF PrevOK, Inv, WriterOK, TypeOK
    <3>4. \A l \in Levels : level'[Writer] < l /\ l < maxHeight => PrevOK(l)'
      <4>1. level'[Writer] = level[Writer] - 1 /\ level[Writer] \in Int
        BY <1>2, <2>2 DEF Inv, TypeOK
      <4>2. QED
        BY <4>1, <3>2, <3>3
    <3>5. QED
      BY <1>2, <3>1, <3>4 DEF WriterOK, Inv
  <2>3. QED
    BY <2>1, <2>2
<1>6. QED
  BY <1>1, <1>3, <1>4, <1>5, SameList DEF Inv

-----------------------------------------------------------------------------
(* The calls and returns of the readers, and the call of Insert.           *)

LEMMA CallInv ==
  ASSUME Inv, NEW p \in Procs, NEW op, NEW k, Call(p, op, k),
         UNCHANGED <<list, insert, pos, found>>,
         \/ p = Writer /\ op = "insert" /\ count < MaxNodes
         \/ p \in Readers /\ op \in {"seek", "contains", "last"}
         \/ p \in Readers /\ op = "prev" /\ pos[p] # NULL /\ k = key[pos[p]],
         k \in Keys \/ (k = NULL /\ op = "last")
  PROVE  Inv'
<1>1. Elsewhere
  BY DEF Call, Elsewhere, Linking, list, insert, Inv, TypeOK
<1>2. /\ \A l \in Levels : InLevel(l)' = InLevel(l)
      /\ UNCHANGED <<count, key, next, maxHeight, prev, height, i, pos, found>>
      /\ pc[p] = "idle" /\ pc' = [pc EXCEPT ![p] = op]
      /\ target' = [target EXCEPT ![p] = k]
      /\ x' = [x EXCEPT ![p] = head_]
      /\ level' = [level EXCEPT ![p] = maxHeight - 1]
      /\ op \in Searching
  BY SameLevels, <1>1 DEF Call, list, insert
<1>3. TypeOK'
  BY <1>2 DEF Inv, TypeOK
<1>4. SearchOK'
  BY <1>2 DEF Inv, SearchOK, TypeOK
<1>5. WriterOK'
  <2>1. p # Writer => pc'[Writer] = pc[Writer] /\ level'[Writer] = level[Writer]
                      /\ target'[Writer] = target[Writer]
    BY <1>2 DEF Inv, TypeOK
  <2>2. CASE p # Writer
    BY <1>2, <2>1, <2>2 DEF Inv, WriterOK, PrevOK
  <2>3. CASE p = Writer
    <3>1. /\ pc'[Writer] = "insert" /\ count < MaxNodes
          /\ level'[Writer] = maxHeight - 1 /\ maxHeight \in Int
      BY <1>2, <2>3 DEF Inv, TypeOK
    <3>2. QED
      BY <1>2, <3>1 DEF WriterOK
  <2>4. QED
    BY <2>2, <2>3
<1>6. QED
  BY <1>1, <1>3, <1>4, <1>5, SameList DEF Inv

LEMMA PosOK ==
  ASSUME Inv, NEW r \in Readers
  PROVE  /\ 0 \in Levels
         /\ pos[r] # NULL => pos[r] \in InLevel(0) /\ key[pos[r]] \in Keys
         /\ next[head_][0] \in InLevel(0) \cup {NULL}
         /\ pos[r] # NULL => next[pos[r]][0] \in InLevel(0) \cup {NULL}
<1>1. 0 \in Levels
  OBVIOUS
<1>2. pos[r] \in InLevel(0) \cup {NULL}
  BY DEF Inv, SearchOK
<1>3. InLevel(0) \subseteq 1..count /\ count \in 0..MaxNodes
  BY DEF InLevel, Inv, TypeOK
<1>4. pos[r] # NULL => key[pos[r]] \in Keys
  BY <1>2, <1>3 DEF Inv, MemoryOK
<1>5. \A a \in {head_} \cup InLevel(0) : next[a][0] \in InLevel(0) \cup {NULL}
  BY <1>1 DEF Inv, LevelsOrdered
<1>6. QED
  BY <1>1, <1>2, <1>4, <1>5

\* An iterator that has moved to n, with no call under way any more.
LEMMA MovedInv ==
  ASSUME Inv, NEW r \in Readers, NEW n \in InLevel(0) \cup {NULL},
         UNCHANGED <<list, target, insert>>,
         pos' = [pos EXCEPT ![r] = n], found' \in [Readers -> BOOLEAN],
         Return(r, "idle") \/ (pc[r] = "idle" /\ UNCHANGED <<pc, x, level>>)
  PROVE  Inv'
<1>1. /\ pc' = [pc EXCEPT ![r] = "idle"]
      /\ pc'[Writer] = pc[Writer] /\ level'[Writer] = level[Writer]
      /\ x' \in [Procs -> {head_} \cup Nodes] /\ level' \in [Procs -> Levels]
      /\ \A p \in Procs : p # r => x'[p] = x[p] /\ level'[p] = level[p]
  <2>1. /\ pc \in [Procs -> Searching \cup {"idle", "grow", "set", "link"}]
        /\ x \in [Procs -> {head_} \cup Nodes] /\ level \in [Procs -> Levels]
        /\ 0 \in Levels /\ r # Writer
    BY DEF Inv, TypeOK
  <2>2. CASE Return(r, "idle")
    BY <2>1, <2>2 DEF Return
  <2>3. CASE pc[r] = "idle" /\ UNCHANGED <<pc, x, level>>
    BY <2>1, <2>3
  <2>4. QED
    BY <2>2, <2>3
<1>2. Elsewhere
  BY <1>1 DEF Elsewhere, insert
<1>3. /\ \A l \in Levels : InLevel(l)' = InLevel(l)
      /\ UNCHANGED <<count, key, next, maxHeight, target, prev, height, i>>
  BY <1>2, SameLevels DEF list, insert
<1>4. 0 \in Levels
  OBVIOUS
<1>5. TypeOK'
  <2>1. n \in Nodes \cup {NULL}
    BY InLevelNodes DEF Inv
  <2>2. QED
    BY <1>1, <1>3, <2>1 DEF Inv, TypeOK
<1>6. SearchOK'
  <2>1. InLevel(0)' = InLevel(0)
    BY <1>3, <1>4
  <2>2. ASSUME NEW p \in Procs, pc'[p] \in Searching
        PROVE  p # r /\ pc'[p] = pc[p] /\ x'[p] = x[p] /\ level'[p] = level[p]
    BY <1>1, <2>2 DEF Inv, TypeOK
  <2>3. \A q \in Readers : /\ pos'[q] \in InLevel(0) \cup {NULL}
                           /\ pc'[q] = "prev" => pos'[q] = pos[q] /\ pc[q] = "prev"
    BY <1>1 DEF Inv, TypeOK, SearchOK
  <2>4. \A p \in Procs : level[p] \in Levels
    BY DEF Inv, TypeOK
  <2>5. QED
    BY <1>3, <2>1, <2>2, <2>3, <2>4 DEF Inv, SearchOK
<1>7. WriterOK'
  BY <1>1, <1>3 DEF Inv, WriterOK, PrevOK
<1>8. QED
  BY <1>2, <1>5, <1>6, <1>7, SameList DEF Inv

LEMMA ReaderCallsInv ==
  ASSUME Inv, NEW r \in Readers, NEW k \in Keys,
         \/ SeekCall(r, k) \/ ContainsCall(r, k) \/ PrevCall(r) \/ SeekToLastCall(r)
  PROVE  Inv'
<1>1. r \in Procs
  OBVIOUS
<1>2. CASE SeekCall(r, k)
  BY <1>1, <1>2, CallInv DEF SeekCall, ReaderCall
<1>3. CASE ContainsCall(r, k)
  BY <1>1, <1>3, CallInv DEF ContainsCall, ReaderCall
<1>4. CASE PrevCall(r)
  <2>1. pos[r] # NULL /\ key[pos[r]] \in Keys
    BY <1>4, PosOK DEF PrevCall
  <2>2. QED
    BY <1>1, <1>4, <2>1, CallInv DEF PrevCall, ReaderCall
<1>5. CASE SeekToLastCall(r)
  BY <1>1, <1>5, CallInv DEF SeekToLastCall, ReaderCall
<1>6. QED
  BY <1>2, <1>3, <1>4, <1>5

LEMMA ReaderReturnsInv ==
  ASSUME Inv, NEW r \in Readers,
         SeekReturn(r) \/ ContainsReturn(r) \/ ReturnLast(r)
  PROVE  Inv'
<1>1. /\ r \in Procs /\ pc[r] \in Searching /\ level[r] = 0
      /\ Return(r, "idle") /\ UNCHANGED <<list, target, insert>>
  BY DEF SeekReturn, ContainsReturn, ReturnLast, AtBottom
<1>2. Loaded(r) \in InLevel(0) \cup {NULL} /\ x[r] \in {head_} \cup InLevel(0)
  BY <1>1, LoadedOK DEF Inv, SearchOK
<1>3. found \in [Readers -> BOOLEAN] /\ pos \in [Readers -> Nodes \cup {NULL}]
  BY DEF Inv, TypeOK
<1>4. CASE SeekReturn(r)
  BY <1>1, <1>2, <1>3, <1>4, MovedInv DEF SeekReturn
<1>5. CASE ContainsReturn(r)
  <2>1. pos' = [pos EXCEPT ![r] = pos[r]] /\ pos[r] \in InLevel(0) \cup {NULL}
    BY <1>3, <1>5, PosOK DEF ContainsReturn
  <2>2. found' \in [Readers -> BOOLEAN]
    BY <1>3, <1>5 DEF ContainsReturn
  <2>3. QED
    BY <1>1, <2>1, <2>2, MovedInv
<1>6. CASE ReturnLast(r)
  <2> DEFINE n == IF x[r] = head_ THEN NULL ELSE x[r]
  <2>1. n \in InLevel(0) \cup {NULL} /\ pos' = [pos EXCEPT ![r] = n]
    BY <1>2, <1>6 DEF ReturnLast
  <2>2. found' \in [Readers -> BOOLEAN]
    BY <1>3, <1>6 DEF ReturnLast
  <2> HIDE DEF n
  <2>3. QED
    BY <1>1, <2>1, <2>2, MovedInv
<1>7. QED
  BY <1>4, <1>5, <1>6

LEMMA ReaderStepsInv ==
  ASSUME Inv, NEW r \in Readers, SeekToFirst(r) \/ Advance(r)
  PROVE  Inv'
<1>1. /\ pc[r] = "idle" /\ UNCHANGED <<list, search, insert, found>>
      /\ \E n \in InLevel(0) \cup {NULL} : pos' = [pos EXCEPT ![r] = n]
  BY PosOK DEF SeekToFirst, Advance
<1>2. found \in [Readers -> BOOLEAN]
  BY DEF Inv, TypeOK
<1>3. QED
  BY <1>1, <1>2, MovedInv DEF search

-----------------------------------------------------------------------------
(* The steps of Insert.                                                    *)

LEMMA InsertCallInv == ASSUME Inv, NEW k \in Keys, InsertCall(k) PROVE Inv'
<1>1. Writer \in Procs
  OBVIOUS
<1>2. QED
  BY <1>1, CallInv DEF InsertCall

LEMMA InsertFoundInv == ASSUME Inv, InsertFound PROVE Inv'
<1>1. /\ pc[Writer] = "insert" /\ ~GoesRight(Writer) /\ level[Writer] = 0
      /\ pc' = [pc EXCEPT ![Writer] = "grow"]
      /\ x' = [x EXCEPT ![Writer] = head_]
      /\ level' = [level EXCEPT ![Writer] = 0]
      /\ prev' = [prev EXCEPT ![0] = x[Writer]]
      /\ UNCHANGED <<count, key, next, maxHeight, target, height, i, pos, found>>
      /\ UNCHANGED list
  BY DEF InsertFound, AtBottom, Return, list
<1>2. Elsewhere
  BY <1>1 DEF Elsewhere, Linking, Inv, TypeOK
<1>3. \A l \in Levels : InLevel(l)' = InLevel(l)
  BY <1>2, SameLevels
<1>4. TypeOK'
  BY <1>1 DEF Inv, TypeOK
<1>5. SearchOK'
  <2>1. \A p \in Procs : pc'[p] \in Searching =>
           p # Writer /\ pc'[p] = pc[p] /\ x'[p] = x[p] /\ level'[p] = level[p]
    BY <1>1 DEF Inv, TypeOK
  <2>2. \A r \in Readers : pc'[r] = pc[r]
    BY <1>1 DEF Inv, TypeOK
  <2>3. 0 \in Levels /\ \A p \in Procs : level[p] \in Levels
    BY DEF Inv, TypeOK
  <2>4. QED
    BY <1>1, <1>3, <2>1, <2>2, <2>3 DEF Inv, SearchOK
<1>6. WriterOK'
  <2>1. /\ Writer \in Procs /\ 0 \in Levels
        /\ x[Writer] \in {head_} \cup InLevel(0)
        /\ x[Writer] # head_ => key[x[Writer]] < target[Writer]
        /\ target[Writer] \in Keys
    BY <1>1 DEF Inv, SearchOK
  <2>2. next[x[Writer]][0] # NULL => key[next[x[Writer]][0]] >= target[Writer]
    BY <1>1, <2>1, GoesRightOK DEF Loaded
  <2>3. \A l \in Levels : prev'[l] = IF l = 0 THEN x[Writer] ELSE prev[l]
    BY <1>1 DEF Inv, TypeOK
  <2>4. PrevOK(0)'
    BY <1>1, <1>3, <2>1, <2>2, <2>3 DEF PrevOK
  <2>5. ASSUME NEW l \in Levels, l < maxHeight, l # 0 PROVE PrevOK(l)'
    BY <1>1, <1>3, <2>3, <2>5 DEF PrevOK, Inv, WriterOK
  <2>6. pc'[Writer] = "grow" /\ count < MaxNodes
    BY <1>1 DEF Inv, TypeOK, WriterOK
  <2>7. QED
    BY <1>1, <2>1, <2>4, <2>5, <2>6 DEF WriterOK
<1>7. QED
  BY <1>2, <1>4, <1>5, <1>6, SameList DEF Inv

LEMMA InsertGrowInv ==
  ASSUME Inv, NEW h \in 1..MaxHeight, InsertGrow(h) PROVE Inv'
<1>1. /\ pc[Writer] = "grow" /\ pc' = [pc EXCEPT ![Writer] = "set"]
      /\ height' = h /\ i' = 0 /\ count' = count + 1
      /\ maxHeight' = (IF h > maxHeight THEN h ELSE maxHeight)
      /\ prev' = [l \in Levels |-> IF maxHeight <= l /\ l < h THEN head_ ELSE prev[l]]
      /\ key' = [key EXCEPT ![count + 1] = target[Writer]]
      /\ UNCHANGED <<next, target, x, level, pos, found>>
  BY DEF InsertGrow
<1>2. /\ count \in Nat /\ count + 1 \in Nodes /\ target[Writer] \in Keys
      /\ maxHeight \in 1..MaxHeight
      /\ \A l \in Levels : l < maxHeight => PrevOK(l)
  BY <1>1 DEF Inv, TypeOK, WriterOK
<1>3. \A l \in Levels : /\ next[count + 1][l] = Wild
                        /\ InLevel(l) \subseteq 1..count
  BY <1>2 DEF Inv, MemoryOK, InLevel
<1>4. \A n \in 1..count : key'[n] = key[n]
  BY <1>1, <1>2 DEF Inv, TypeOK
<1>5. pc'[Writer] = "set" /\ (pc[Writer] # "set" /\ pc[Writer] # "link")
  BY <1>1 DEF Inv, TypeOK
<1>6. \A l \in Levels : InLevel(l)' = InLevel(l)
  BY <1>1, <1>2, <1>3, <1>5 DEF InLevel
<1>7. joined' = joined
  BY <1>1, <1>2, <1>5 DEF joined
<1>8. TypeOK'
  BY <1>1, <1>2 DEF Inv, TypeOK
<1>9. MemoryOK'
  <2>1. \A n \in Nodes : n <= count' => key'[n] \in Keys
    BY <1>1, <1>2, <1>4 DEF Inv, MemoryOK, TypeOK
  <2>2. 0 \in Levels /\ InLevel(0)' = InLevel(0)
    BY <1>6
  <2>3. QED
    BY <1>1, <1>2, <1>7, <2>1, <2>2 DEF Inv, MemoryOK
<1>10. LevelsOrdered'
  <2>1. \A a \in {head_} \cup 1..count, b \in 1..count : Before(a, b)' <=> Before(a, b)
    BY <1>4 DEF Before
  <2>2. ASSUME NEW l \in Levels, NEW a \in {head_} \cup InLevel(l)
        PROVE  /\ next[a][l] \in InLevel(l) \cup {NULL}
               /\ next[a][l] # NULL => Before(a, next[a][l])'
               /\ \A c \in InLevel(l) : Before(a, c)' =>
                     /\ next[a][l] # NULL
                     /\ c = next[a][l] \/ Before(next[a][l], c)'
    <3>1. /\ next[a][l] \in InLevel(l) \cup {NULL}
          /\ next[a][l] # NULL => Before(a, next[a][l])
          /\ \A c \in InLevel(l) : Before(a, c) =>
                /\ next[a][l] # NULL
                /\ c = next[a][l] \/ Before(next[a][l], c)
      BY DEF Inv, LevelsOrdered
    <3>2. /\ UNCHANGED next
          /\ a \in {head_} \cup 1..count /\ InLevel(l) \subseteq 1..count
          /\ next[a][l] # NULL => next[a][l] \in 1..count
      BY <1>1, <1>3, <3>1
    <3>3. \A c \in InLevel(l) : Before(a, c)' <=> Before(a, c)
      BY <2>1, <3>2
    <3>4. next[a][l] # NULL =>
             /\ Before(a, next[a][l])' <=> Before(a, next[a][l])
             /\ \A c \in InLevel(l) : Before(next[a][l], c)' <=> Before(next[a][l], c)
      BY <1>1, <1>4, <3>2 DEF Before
    <3>5. QED
      BY <3>1, <3>2, <3>3, <3>4
  <2>3. QED
    BY <1>1, <1>6, <2>2 DEF LevelsOrdered
<1>11. LevelsNested'
  <2>1. \A l \in Levels : l > 0 => l - 1 \in Levels
    OBVIOUS
  <2>2. \A l \in Levels : l >= maxHeight' => l >= maxHeight
    BY <1>1, <1>2
  <2>3. QED
    BY <1>6, <2>1, <2>2 DEF Inv, LevelsNested
<1>12. SearchOK'
  <2>1. \A p \in Procs : pc'[p] \in Searching => pc'[p] = pc[p]
    BY <1>1 DEF Inv, TypeOK
  <2>2. \A r \in Readers : pc'[r] = pc[r]
    BY <1>1 DEF Inv, TypeOK
  <2>3. 0 \in Levels /\ \A p \in Procs : level[p] \in Levels
    BY DEF Inv, TypeOK
  <2>4. maxHeight' >= maxHeight /\ maxHeight' \in Int
    BY <1>1, <1>2
  <2>5. \A p \in Procs : pc'[p] \in Searching =>
           level[p] < maxHeight' /\ x[p] \in {head_} \cup InLevel(level[p])
    BY <1>2, <2>1, <2>3, <2>4 DEF Inv, SearchOK
  <2>6. \A p \in Procs : pc'[p] \in Searching /\ x[p] # head_ => key'[x[p]] = key[x[p]]
    BY <1>3, <1>4, <2>3, <2>5
  <2>7. \A r \in Readers : pos[r] # NULL => key'[pos[r]] = key[pos[r]]
    BY <1>3, <1>4, <2>3 DEF Inv, SearchOK
  <2>8. QED
    BY <1>1, <1>6, <2>1, <2>2, <2>3, <2>5, <2>6, <2>7 DEF Inv, SearchOK
<1>13. WriterOK'
  <2>1. ASSUME NEW l \in Levels, l < h PROVE PrevOK(l)'
    <3>1. CASE l < maxHeight
      <4>1. PrevOK(l) /\ prev'[l] = prev[l]
        BY <1>1, <1>2, <3>1
      <4>2. next[prev[l]][l] \in InLevel(l) \cup {NULL}
        BY <4>1 DEF PrevOK, Inv, LevelsOrdered
      <4>3. QED
        BY <1>1, <1>3, <1>4, <1>6, <4>1, <4>2 DEF PrevOK
    <3>2. CASE ~(l < maxHeight)
      <4>1. prev'[l] = head_ /\ InLevel(l) = {}
        BY <1>1, <1>2, <2>1, <3>2 DEF Inv, LevelsNested
      <4>2. next[head_][l] = NULL
        BY <4>1 DEF Inv, LevelsOrdered
      <4>3. QED
        BY <1>1, <1>6, <4>1, <4>2 DEF PrevOK
    <3>3. QED
      BY <3>1, <3>2
  <2>2. key'[count'] = target'[Writer] /\ count' >= 1
    BY <1>1, <1>2 DEF Inv, TypeOK
  <2>3. h <= maxHeight' /\ 0 < h
    BY <1>1, <1>2
  <2>4. next'[count'][0] = Wild /\ \A l \in Levels : next'[count'][l] = Wild
    BY <1>1, <1>3
  <2>5. QED
    BY <1>1, <1>5, <2>1, <2>2, <2>3, <2>4 DEF WriterOK
<1>14. QED
  BY <1>8, <1>9, <1>10, <1>11, <1>12, <1>13 DEF Inv

\* What the writer knows while it links level i.
LEMMA LinkingOK ==
  ASSUME Inv, Linking
  PROVE  /\ count \in Nodes /\ i \in Levels /\ prev[i] \in {head_} \cup InLevel(i)
         /\ PrevOK(i) /\ i < height /\ height <= maxHeight
         /\ next[prev[i]][i] \in InLevel(i) \cup {NULL}
         /\ key[count] = target[Writer]
         /\ \A l \in Levels : InLevel(l) \subseteq 1..count
         /\ \A l \in Levels : l >= i => count \notin InLevel(l)
<1>1. /\ count \in Nodes /\ i \in Levels /\ PrevOK(i) /\ i < height
      /\ height <= maxHeight /\ key[count] = target[Writer]
  BY DEF Linking, Inv, TypeOK, WriterOK
<1>2. prev[i] \in {head_} \cup InLevel(i)
  BY <1>1 DEF PrevOK
<1>3. next[prev[i]][i] \in InLevel(i) \cup {NULL}
  BY <1>1, <1>2 DEF Inv, LevelsOrdered
<1>4. \A l \in Levels : InLevel(l) \subseteq 1..count
  BY DEF InLevel
<1>5. \A l \in Levels : l >= i => count \notin InLevel(l)
  BY <1>1 DEF InLevel, Linking, Inv, WriterOK
<1>6. QED
  BY <1>1, <1>2, <1>3, <1>4, <1>5

LEMMA InsertSetInv == ASSUME Inv, InsertSet PROVE Inv'
<1> DEFINE v == next[prev[i]][i]
<1>1. /\ pc[Writer] = "set" /\ pc' = [pc EXCEPT ![Writer] = "link"]
      /\ next' = [next EXCEPT ![count][i] = v]
      /\ UNCHANGED <<count, key, maxHeight, target, x, level, pos, found>>
      /\ UNCHANGED <<prev, height, i>>
  BY DEF InsertSet, insert
<1>2. Linking
  BY <1>1 DEF Linking
<1>3. /\ count \in Nodes /\ i \in Levels /\ v \in Nodes \cup {NULL}
      /\ \A l \in Levels : l >= i => count \notin InLevel(l)
  BY <1>2, LinkingOK, InLevelNodes DEF Inv
<1> HIDE DEF v
<1>4. /\ next \in [{head_} \cup Nodes -> [Levels -> Nodes \cup {NULL, Wild}]]
      /\ next[count][i] = Wild
  BY <1>1 DEF Inv, TypeOK, WriterOK
<1>5. \A n \in {head_} \cup Nodes, l \in Levels :
         next'[n][l] = IF n = count /\ l = i THEN v ELSE next[n][l]
  BY <1>1, <1>3, <1>4
<1>6. pc'[Writer] = "link"
  BY <1>1 DEF Inv, TypeOK
<1>7. \A l \in Levels : InLevel(l)' = InLevel(l)
  <2>1. 1..count \subseteq Nodes
    BY <1>3
  <2>2. QED
    BY <1>1, <1>3, <1>4, <1>5, <1>6, <2>1 DEF InLevel
<1>8. joined' = joined
  BY <1>1, <1>6 DEF joined
<1>9. \A l \in Levels : \A a \in {head_} \cup InLevel(l) : next'[a][l] = next[a][l]
  BY <1>3, <1>5, InLevelNodes DEF Inv
<1>10. TypeOK'
  <2>1. next' \in [{head_} \cup Nodes -> [Levels -> Nodes \cup {NULL, Wild}]]
    BY <1>1, <1>3, <1>4
  <2>2. QED
    BY <1>1, <2>1 DEF Inv, TypeOK
<1>11. MemoryOK'
  <2>1. \A l \in Levels : next'[head_][l] # Wild
    BY <1>3, <1>5 DEF Inv, MemoryOK
  <2>2. \A n \in Nodes : n > count => \A l \in Levels : next'[n][l] = Wild
    BY <1>3, <1>5 DEF Inv, MemoryOK
  <2>3. 0 \in Levels
    OBVIOUS
  <2>4. QED
    BY <1>1, <1>7, <1>8, <2>1, <2>2, <2>3 DEF Inv, MemoryOK
<1>12. LevelsOrdered'
  BY <1>1, <1>7, <1>9 DEF Inv, LevelsOrdered, Before
<1>13. LevelsNested'
  <2>1. \A l \in Levels : l > 0 => l - 1 \in Levels
    OBVIOUS
  <2>2. QED
    BY <1>1, <1>7, <2>1 DEF Inv, LevelsNested
<1>14. SearchOK'
  <2>1. \A p \in Procs : pc'[p] \in Searching => pc'[p] = pc[p]
    BY <1>1 DEF Inv, TypeOK
  <2>2. \A r \in Readers : pc'[r] = pc[r]
    BY <1>1 DEF Inv, TypeOK
  <2>3. 0 \in Levels /\ \A p \in Procs : level[p] \in Levels
    BY DEF Inv, TypeOK
  <2>4. QED
    BY <1>1, <1>7, <2>1, <2>2, <2>3 DEF Inv, SearchOK
<1>15. WriterOK'
  <2>1. ASSUME NEW l \in Levels, i <= l, l < height PROVE PrevOK(l)'
    <3>1. PrevOK(l)
      BY <1>1, <2>1 DEF Inv, WriterOK
    <3>2. QED
      BY <1>1, <1>7, <1>9, <3>1 DEF PrevOK
  <2>2. next'[prev[i]][i] = v
    BY <1>2, <1>3, <1>9, LinkingOK DEF v
  <2>3. \A l \in Levels : l # i => next'[count][l] = next[count][l]
    BY <1>3, <1>5
  <2>4. next'[count][i] = v
    BY <1>3, <1>5
  <2>5. QED
    BY <1>1, <1>6, <2>1, <2>2, <2>3, <2>4 DEF Inv, WriterOK
<1>16. QED
  BY <1>10, <1>11, <1>12, <1>13, <1>14, <1>15 DEF Inv

LEMMA KeysOfNodes ==
  ASSUME Inv, NEW n \in 1..count
  PROVE  n \in Nodes /\ key[n] \in Int
<1>1. n \in Nodes /\ n <= count
  BY DEF Inv, TypeOK
<1>2. key[n] \in Keys
  BY <1>1 DEF Inv, MemoryOK
<1>3. QED
  BY <1>1, <1>2

\* Before is a strict total order of the nodes with head_ in front.
LEMMA BeforeOrder ==
  ASSUME Inv, NEW a \in {head_} \cup 1..count, NEW b \in 1..count, NEW c \in 1..count
  PROVE  /\ Before(a, b) /\ Before(b, c) => Before(a, c)
         /\ a # b => Before(a, b) \/ Before(b, a)
         /\ ~Before(b, b)
         /\ a # head_ => ~(Before(a, b) /\ Before(b, a))
<1>1. count \in Nat /\ \A n \in 1..count : key[n] \in Int
  BY KeysOfNodes DEF Inv, TypeOK
<1>2. QED
  BY <1>1 DEF Before

\* Level i with the new node between prev[i] and its successor.
LEMMA SplicedLevel ==
  ASSUME Inv, InsertLink, NEW a \in {head_, count} \cup InLevel(i)
  PROVE  LET b == next'[a][i] IN
           /\ b \in InLevel(i) \cup {count, NULL}
           /\ b # NULL => Before(a, b)
           /\ \A c \in InLevel(i) \cup {count} :
                 Before(a, c) => b # NULL /\ (c = b \/ Before(b, c))
<1> DEFINE p == prev[i]
           s == next[p][i]
           q == count
           M == InLevel(i)
<1>1. /\ pc[Writer] = "link" /\ Linking /\ next' = [next EXCEPT ![p][i] = q]
      /\ next \in [{head_} \cup Nodes -> [Levels -> Nodes \cup {NULL, Wild}]]
      /\ next[q][i] = s /\ i \in Levels
  BY DEF InsertLink, Linking, Inv, TypeOK, WriterOK
<1>2. /\ p \in {head_} \cup M /\ s \in M \cup {NULL} /\ M \subseteq 1..count
      /\ q \in 1..count /\ q \notin M /\ 1..count \subseteq Nodes /\ q # head_
  BY <1>1, LinkingOK
<1>3. /\ Before(p, q)
      /\ s # NULL => Before(q, s)
  <2>1. /\ p # head_ => key[p] < key[q]
        /\ s # NULL => key[s] >= key[q]
    BY <1>1, LinkingOK DEF PrevOK
  <2>2. \A n \in 1..count : key[n] \in Int
    BY KeysOfNodes
  <2>3. s # NULL => s \in 1..count /\ s < q
    BY <1>2
  <2>4. QED
    BY <1>2, <2>1, <2>2, <2>3 DEF Before
<1>4. \A n \in {head_} \cup M :
         /\ next[n][i] \in M \cup {NULL}
         /\ next[n][i] # NULL => Before(n, next[n][i])
         /\ \A c \in M : Before(n, c) =>
               next[n][i] # NULL /\ (c = next[n][i] \/ Before(next[n][i], c))
  BY <1>1 DEF Inv, LevelsOrdered
<1>5. next'[a][i] = IF a = p THEN q ELSE next[a][i]
  BY <1>1, <1>2
<1> HIDE DEF M
<1>6. CASE a = p
  <2>1. next'[a][i] = q /\ q # NULL
    BY <1>2, <1>5, <1>6
  <2>2. ASSUME NEW c \in M, Before(p, c) PROVE Before(q, c)
    <3>1. s # NULL /\ (c = s \/ Before(s, c))
      BY <1>2, <1>4, <2>2
    <3>2. QED
      BY <1>2, <1>3, <3>1, BeforeOrder
  <2>3. QED
    BY <1>3, <1>6, <2>1, <2>2 DEF M
<1>7. CASE a = q /\ a # p
  <2>1. next'[a][i] = s
    BY <1>1, <1>5, <1>7
  <2>2. ASSUME NEW c \in M \cup {q}, Before(q, c) PROVE s # NULL /\ (c = s \/ Before(s, c))
    <3>1. c \in M
      BY <1>2, <2>2, BeforeOrder
    <3>2. Before(p, c)
      BY <1>2, <1>3, <2>2, <3>1, BeforeOrder
    <3>3. QED
      BY <1>2, <1>4, <3>1, <3>2
  <2>3. QED
    BY <1>2, <1>3, <1>7, <2>1, <2>2 DEF M
<1>8. CASE a # p /\ a # q
  <2>1. a \in {head_} \cup M /\ next'[a][i] = next[a][i]
    BY <1>5, <1>8 DEF M
  <2>2. ASSUME Before(a, q)
        PROVE  next[a][i] # NULL /\ Before(next[a][i], q)
    <3>1. p \in M /\ Before(a, p)
      <4>1. CASE p = head_
        <5>1. a \in M /\ Before(p, a)
          BY <1>8, <2>1, <4>1 DEF Before
        <5>2. s # NULL /\ (a = s \/ Before(s, a))
          BY <1>2, <1>4, <5>1
        <5>3. Before(q, a)
          BY <1>2, <1>3, <5>1, <5>2, BeforeOrder
        <5>4. QED
          BY <1>2, <2>2, <5>1, <5>3, BeforeOrder
      <4>2. CASE p # head_ /\ Before(p, a) /\ a # head_
        <5>1. a \in M
          BY <2>1, <4>2
        <5>2. s # NULL /\ (a = s \/ Before(s, a))
          BY <1>2, <1>4, <4>2, <5>1
        <5>3. Before(q, a)
          BY <1>2, <1>3, <5>1, <5>2, BeforeOrder
        <5>4. QED
          BY <1>2, <2>2, <5>1, <5>3, BeforeOrder
      <4>3. CASE p # head_ /\ (~Before(p, a) \/ a = head_)
        <5>1. p \in 1..count /\ a \in {head_} \cup 1..count
          BY <1>2, <2>1, <4>3
        <5>2. Before(a, p)
          BY <1>8, <4>3, <5>1, BeforeOrder DEF Before
        <5>3. QED
          BY <1>2, <4>3, <5>2
      <4>4. QED
        BY <4>1, <4>2, <4>3
    <3>2. next[a][i] # NULL /\ (p = next[a][i] \/ Before(next[a][i], p))
      BY <1>4, <2>1, <3>1
    <3>3. next[a][i] \in M
      BY <1>4, <2>1, <3>2
    <3>4. QED
      BY <1>2, <1>3, <3>1, <3>2, <3>3, BeforeOrder
  <2>3. QED
    BY <1>4, <2>1, <2>2 DEF M
<1>9. QED
  BY <1>6, <1>7, <1>8

LEMMA InsertLinkInv == ASSUME Inv, InsertLink PROVE Inv'
<1>1. /\ pc[Writer] = "link" /\ Linking
      /\ next' = [next EXCEPT ![prev[i]][i] = count]
      /\ UNCHANGED <<count, key, maxHeight, target, x, level, pos, found>>
      /\ \/ /\ i + 1 < height /\ i' = i + 1 /\ UNCHANGED <<prev, height>>
            /\ pc' = [pc EXCEPT ![Writer] = "set"]
         \/ /\ i' = 0 /\ height' = 0 /\ prev' = NoPrev
            /\ pc' = [pc EXCEPT ![Writer] = "idle"]
  BY DEF InsertLink, Linking
<1>2. /\ next \in [{head_} \cup Nodes -> [Levels -> Nodes \cup {NULL, Wild}]]
      /\ \A l \in Levels : l < i => next[count][l] # Wild
      /\ \A l \in Levels : l > i => next[count][l] = Wild
      /\ next[count][i] # Wild
      /\ i \in Levels /\ height \in 0..MaxHeight
  <2>1. /\ next \in [{head_} \cup Nodes -> [Levels -> Nodes \cup {NULL, Wild}]]
        /\ i \in Levels /\ height \in 0..MaxHeight
    BY DEF Inv, TypeOK
  <2>2. /\ \A l \in Levels : l < i => next[count][l] # Wild
        /\ \A l \in Levels : l > i => next[count][l] = Wild
        /\ next[count][i] = next[prev[i]][i]
    BY <1>1 DEF Inv, WriterOK
  <2>3. next[prev[i]][i] \in Nodes \cup {NULL}
    BY <1>1, LinkingOK, InLevelNodes DEF Inv
  <2>4. NULL # Wild /\ Wild \notin Nodes
    OBVIOUS
  <2>5. QED
    BY <2>1, <2>2, <2>3, <2>4
<1>3. /\ count \in Nodes /\ i \in Levels /\ prev[i] \in {head_} \cup InLevel(i)
      /\ \A l \in Levels : InLevel(l) \subseteq Nodes
      /\ \A l \in Levels : l >= i => count \notin InLevel(l)
      /\ count # prev[i]
  BY <1>1, LinkingOK, InLevelNodes DEF Inv
<1>4. \A n \in {head_} \cup Nodes, l \in Levels :
         next'[n][l] = IF n = prev[i] /\ l = i THEN count ELSE next[n][l]
  BY <1>1, <1>2, <1>3
<1>5. pc'[Writer] # "link"
  BY <1>1 DEF Inv, TypeOK
<1>6. \A l \in Levels : InLevel(l)' = IF l = i THEN InLevel(l) \cup {count} ELSE InLevel(l)
  <2>1. 1..count \subseteq Nodes
    BY <1>3
  <2>2. next[prev[i]][i] # Wild
    BY <1>1, <1>3, LinkingOK
  <2>3. ASSUME NEW l \in Levels, NEW n \in 1..count
        PROVE  n \in InLevel(l)' <=> n \in InLevel(l) \/ (n = count /\ l = i)
    BY <1>1, <1>2, <1>3, <1>4, <1>5, <2>1, <2>2, <2>3 DEF InLevel
  <2>4. \A l \in Levels : InLevel(l)' \subseteq 1..count /\ InLevel(l) \subseteq 1..count
    BY <1>1 DEF InLevel
  <2>5. count \in 1..count
    BY <1>3
  <2>6. QED
    BY <2>3, <2>4, <2>5
<1>7. TypeOK'
  <2>1. next' \in [{head_} \cup Nodes -> [Levels -> Nodes \cup {NULL, Wild}]]
    BY <1>1, <1>2, <1>3
  <2>2. /\ i' \in Levels /\ height' \in 0..MaxHeight
        /\ prev' \in [Levels -> {head_, Wild} \cup Nodes]
    BY <1>1, <1>2 DEF Inv, TypeOK, NoPrev
  <2>3. QED
    BY <1>1, <2>1, <2>2 DEF Inv, TypeOK
<1>8. MemoryOK'
  <2>1. \A l \in Levels : next'[head_][l] # Wild
    BY <1>3, <1>4 DEF Inv, MemoryOK
  <2>2. \A n \in Nodes : n > count => \A l \in Levels : next'[n][l] = Wild
    <3>1. prev[i] \in 0..count
      BY <1>1, LinkingOK
    <3>2. QED
      BY <1>3, <1>4, <3>1 DEF Inv, MemoryOK
  <2>3. InLevel(0)' = 1..joined'
    <3>1. InLevel(0) = 1..joined /\ 0 \in Levels
      BY DEF Inv, MemoryOK
    <3>2. joined = IF i = 0 THEN count - 1 ELSE count
      BY <1>1 DEF joined
    <3>3. joined' = count
      <4>1. pc'[Writer] = "set" => i' # 0
        BY <1>1, <1>2 DEF Inv, TypeOK
      <4>2. QED
        BY <1>1, <1>5, <4>1 DEF joined
    <3>4. (1..count - 1) \cup {count} = 1..count
      BY <1>3
    <3>5. QED
      BY <1>6, <3>1, <3>2, <3>3, <3>4
  <2>4. QED
    BY <1>1, <2>1, <2>2, <2>3 DEF Inv, MemoryOK
<1>9. LevelsOrdered'
  <2>1. ASSUME NEW l \in Levels, NEW a \in {head_} \cup InLevel(l)'
        PROVE  LET b == next'[a][l] IN
                 /\ b \in InLevel(l)' \cup {NULL}
                 /\ b # NULL => Before(a, b)
                 /\ \A c \in InLevel(l)' : Before(a, c) =>
                       b # NULL /\ (c = b \/ Before(b, c))
    <3>1. CASE l = i
      <4>1. InLevel(l)' = InLevel(i) \cup {count}
        BY <1>6, <3>1
      <4>2. a \in {head_, count} \cup InLevel(i)
        BY <4>1
      <4>3. QED
        BY <3>1, <4>1, <4>2, SplicedLevel
    <3>2. CASE l # i
      <4>1. InLevel(l)' = InLevel(l)
        BY <1>6, <3>2
      <4>2. next'[a][l] = next[a][l]
        BY <1>3, <1>4, <3>2, <4>1
      <4>3. QED
        BY <4>1, <4>2 DEF Inv, LevelsOrdered
    <3>3. QED
      BY <3>1, <3>2
  <2>2. QED
    BY <1>1, <2>1 DEF LevelsOrdered, Before
<1>10. LevelsNested'
  <2>1. \A l \in Levels : l > 0 => l - 1 \in Levels
    OBVIOUS
  <2>2. i < maxHeight
    BY <1>1, <1>2, LinkingOK DEF Inv, TypeOK
  <2>3. i > 0 => count \in InLevel(i - 1)
    BY <1>1, <1>2, <1>3, <2>1 DEF InLevel
  <2>4. ASSUME NEW l \in Levels, l > 0 PROVE InLevel(l)' \subseteq InLevel(l - 1)'
    <3>1. InLevel(l) \subseteq InLevel(l - 1) /\ l - 1 \in Levels
      BY <2>1, <2>4 DEF Inv, LevelsNested
    <3>2. InLevel(l - 1) \subseteq InLevel(l - 1)'
      BY <1>6, <3>1
    <3>3. InLevel(l)' = IF l = i THEN InLevel(l) \cup {count} ELSE InLevel(l)
      BY <1>6
    <3>4. QED
      BY <2>3, <2>4, <3>1, <3>2, <3>3
  <2>5. ASSUME NEW l \in Levels, l >= maxHeight PROVE InLevel(l)' = {}
    BY <1>6, <2>2, <2>5 DEF Inv, TypeOK, LevelsNested
  <2>6. QED
    BY <1>1, <2>4, <2>5 DEF LevelsNested
<1>11. SearchOK'
  <2>1. \A p \in Procs : pc'[p] \in Searching => pc'[p] = pc[p]
    BY <1>1 DEF Inv, TypeOK
  <2>2. \A r \in Readers : pc'[r] = pc[r]
    BY <1>1 DEF Inv, TypeOK
  <2>3. 0 \in Levels /\ \A p \in Procs : level[p] \in Levels
    BY DEF Inv, TypeOK
  <2>4. \A l \in Levels : InLevel(l) \subseteq InLevel(l)'
    BY <1>6
  <2>5. QED
    BY <1>1, <2>1, <2>2, <2>3, <2>4 DEF Inv, SearchOK
<1>12. WriterOK'
  <2>1. CASE pc'[Writer] = "set"
    <3>1. i + 1 < height /\ i' = i + 1 /\ UNCHANGED <<prev, height>> /\ i + 1 \in Levels
      BY <1>1, <1>2, <2>1 DEF Inv, TypeOK
    <3>2. ASSUME NEW l \in Levels, i + 1 <= l, l < height PROVE PrevOK(l)'
      <4>1. PrevOK(l) /\ l # i /\ InLevel(l)' = InLevel(l)
        BY <1>1, <1>2, <1>6, <3>2 DEF Inv, WriterOK
      <4>2. next'[prev[l]][l] = next[prev[l]][l]
        BY <1>3, <1>4, <4>1 DEF PrevOK
      <4>3. QED
        BY <1>1, <3>1, <4>1, <4>2 DEF PrevOK
    <3>3. \A l \in Levels : next'[count][l] = next[count][l]
      BY <1>3, <1>4
    <3>4. \A l \in Levels : l < i' => next'[count][l] # Wild
      BY <1>2, <3>1, <3>3
    <3>5. \A l \in Levels : l >= i' => next'[count][l] = Wild
      BY <1>2, <3>1, <3>3
    <3>6. count >= 1 /\ key[count] = target[Writer] /\ height <= maxHeight
      BY <1>1, <1>3, LinkingOK
    <3>7. next'[count'][i'] = Wild
      BY <1>1, <3>1, <3>5
    <3>8. \A l \in Levels : i' <= l /\ l < height' => PrevOK(l)'
      BY <3>1, <3>2
    <3>9. QED
      BY <1>1, <2>1, <3>1, <3>4, <3>5, <3>6, <3>7, <3>8 DEF WriterOK
  <2>2. CASE pc'[Writer] # "set"
    <3>1. pc'[Writer] = "idle"
      BY <1>1, <2>2 DEF Inv, TypeOK
    <3>2. QED
      BY <3>1 DEF WriterOK
  <2>3. QED
    BY <2>1, <2>2
<1>13. QED
  BY <1>7, <1>8, <1>9, <1>10, <1>11, <1>12 DEF Inv

LEMMA StutterInv == ASSUME Inv, UNCHANGED vars PROVE Inv'
<1>1. Elsewhere /\ UNCHANGED <<prev, height>>
  BY DEF vars, search, insert, Elsewhere
<1>2. /\ \A l \in Levels : InLevel(l)' = InLevel(l)
      /\ UNCHANGED <<count, key, next, maxHeight, pc, target, x, level>>
      /\ UNCHANGED <<prev, height, i, pos, found>>
  BY <1>1, SameLevels DEF vars, list, search, insert
<1>3. TypeOK'
  BY <1>2 DEF Inv, TypeOK
<1>4. SearchOK'
  <2>1. 0 \in Levels /\ \A p \in Procs : level[p] \in Levels
    BY DEF Inv, TypeOK
  <2>2. QED
    BY <1>2, <2>1 DEF Inv, SearchOK
<1>5. WriterOK'
  BY <1>2 DEF Inv, WriterOK, PrevOK
<1>6. QED
  BY <1>1, <1>3, <1>4, <1>5, SameList DEF Inv

-----------------------------------------------------------------------------
LEMMA NextInv == ASSUME Inv, [Next]_vars PROVE Inv'
<1>1. CASE Calls
  <2>1. CASE \E k \in Keys : InsertCall(k)
    BY <2>1, InsertCallInv
  <2>2. CASE \E r \in Readers, k \in Keys : SeekCall(r, k) \/ ContainsCall(r, k)
    BY <2>2, ReaderCallsInv
  <2>3. CASE \E r \in Readers : SeekToFirst(r) \/ Advance(r)
    BY <2>3, ReaderStepsInv
  <2>4. ASSUME NEW r \in Readers, PrevCall(r) PROVE Inv'
    <3>1. r \in Procs /\ pos[r] # NULL /\ key[pos[r]] \in Keys
      BY <2>4, PosOK DEF PrevCall
    <3>2. QED
      BY <2>4, <3>1, ReaderCallsInv
  <2>5. ASSUME NEW r \in Readers, SeekToLastCall(r) PROVE Inv'
    BY <2>5, CallInv DEF SeekToLastCall, ReaderCall
  <2>6. QED
    BY <1>1, <2>1, <2>2, <2>3, <2>4, <2>5 DEF Calls
<1>2. CASE WriterStep
  <2>1. Writer \in Procs
    OBVIOUS
  <2>2. QED
    BY <1>2, <2>1, MoveRightInv, MoveDownInv, InsertFoundInv, InsertGrowInv,
       InsertSetInv, InsertLinkInv DEF WriterStep
<1>3. CASE \E r \in Readers : ReaderStep(r)
  <2>1. Readers \subseteq Procs
    OBVIOUS
  <2>2. QED
    BY <1>3, <2>1, MoveRightInv, MoveDownInv, ReaderReturnsInv DEF ReaderStep
<1>4. CASE UNCHANGED vars
  BY <1>4, StutterInv
<1>5. QED
  BY <1>1, <1>2, <1>3, <1>4 DEF Next

\* Inv, and with it the types, holds in every reachable state.
THEOREM Invariance == Spec => []Inv
BY InitInv, NextInv, PTL DEF Spec

\* The types of the variables, whatever the keys, readers and heights.
THEOREM TypeCorrect == Spec => []TypeOK
<1>1. Inv => TypeOK
  BY DEF Inv
<1>2. QED
  BY <1>1, Invariance, PTL

\* Every level is at every instant a complete ordered list: however Insert and
\* searches interleave, no search meets a key out of order or a cut chain.
THEOREM Ordered == Spec => []LevelsOrdered
<1>1. Inv => LevelsOrdered
  BY DEF Inv
<1>2. QED
  BY <1>1, Invariance, PTL

\* Each level is contained in the one below, also between the stores of an
\* Insert: a search that goes down finds its node there.
THEOREM Nested == Spec => []LevelsNested
<1>1. Inv => LevelsNested
  BY DEF Inv
<1>2. QED
  BY <1>1, Invariance, PTL

\* No search follows a pointer that was never stored.
THEOREM LoadsDefined == Spec => []NoWildLoad
<1>1. Inv => NoWildLoad
  <2> SUFFICES ASSUME Inv PROVE NoWildLoad
    OBVIOUS
  <2>1. \A p \in Procs : pc[p] \in Searching => Loaded(p) # Wild
    BY LoadedOK
  <2>2. \A r \in Readers : pos[r] # NULL => next[pos[r]][0] # Wild
    <3>1. \A r \in Readers : pos[r] # NULL => next[pos[r]][0] \in InLevel(0) \cup {NULL}
      BY PosOK
    <3>2. InLevel(0) \subseteq Nodes
      BY InLevelNodes DEF Inv
    <3>3. QED
      BY <3>1, <3>2
  <2>3. QED
    BY <2>1, <2>2 DEF NoWildLoad
<1>2. QED
  BY <1>1, Invariance, PTL

-----------------------------------------------------------------------------
(* Every step of an overlapping execution makes a call, is the one instant *)
(* at which a pending call has its effect on the bag, or changes nothing a *)
(* client sees.                                                            *)

mbag == [n \in 1..joined |-> key[n]]

LEMMA BagOK ==
  ASSUME Inv
  PROVE  /\ joined \in Nat /\ joined <= count /\ count <= MaxNodes
         /\ mbag \in Seq(Keys) /\ Len(mbag) = joined /\ Bag!Items = 1..joined
         /\ InLevel(0) = 1..joined
         /\ \A n \in 1..joined : mbag[n] = key[n] /\ key[n] \in Keys
<1>1. joined \in Nat /\ count \in Nat /\ joined <= count /\ count <= MaxNodes
  BY DEF joined, Inv, TypeOK, WriterOK
<1>2. \A n \in 1..joined : key[n] \in Keys
  BY <1>1 DEF Inv, MemoryOK
<1>3. mbag \in Seq(Keys) /\ Len(mbag) = joined /\ \A n \in 1..joined : mbag[n] = key[n]
  BY <1>1, <1>2 DEF mbag
<1>4. Bag!Items = 1..joined
  BY <1>3 DEF Bag!Items, mbag
<1>5. QED
  BY <1>1, <1>2, <1>3, <1>4 DEF Inv, MemoryOK

LEMMA KeysOfItems ==
  ASSUME Inv
  PROVE  \A n \in 1..joined : key[n] \in Int /\ n # head_
<1>1. Keys \subseteq Int
  OBVIOUS
<1>2. \A n \in 1..joined : key[n] \in Keys
  BY BagOK
<1>3. \A n \in 1..joined : n # head_
  OBVIOUS
<1>4. QED
  BY <1>1, <1>2, <1>3

\* The order of the bag is the order of the list.
LEMMA SameOrder ==
  ASSUME Inv, NEW a \in 1..joined, NEW b \in 1..joined
  PROVE  Bag!Before(a, b) <=> Before(a, b)
<1>1. mbag[a] = key[a] /\ mbag[b] = key[b] /\ a # head_
  BY BagOK
<1>2. QED
  BY <1>1 DEF Bag!Before, mbag, Before

\* The successor of a at level 0 is the first item behind a.
LEMMA NextIsFirst ==
  ASSUME Inv, NEW a \in {head_} \cup 1..joined
  PROVE  /\ next[a][0] \in 1..joined \cup {NULL}
         /\ next[a][0] # NULL => Before(a, next[a][0])
         /\ \A m \in 1..joined : Before(a, m) =>
               next[a][0] # NULL /\ (m = next[a][0] \/ Before(next[a][0], m))
<1>1. 0 \in Levels /\ InLevel(0) = 1..joined
  BY BagOK
<1>2. QED
  BY <1>1 DEF Inv, LevelsOrdered

LEMMA InitRefines == Init => Bag!CallInit
<1> SUFFICES ASSUME Init PROVE Bag!CallInit
  OBVIOUS
<1>1. joined = 0
  BY DEF Init, joined
<1>2. [n \in 1..joined |-> key[n]] = << >>
  BY <1>1
<1>3. pending = [p \in Procs |-> "idle"]
  BY DEF Init, pending
<1>4. QED
  BY <1>2, <1>3 DEF Init, Bag!CallInit, Bag!Init, Bag!Callers

\* A step that neither moves an iterator nor links a lowest level is invisible.
LEMMA Invisible ==
  ASSUME Inv, joined' = joined, \A n \in 1..joined : key'[n] = key[n],
         UNCHANGED <<pos, found>>
  PROVE  UNCHANGED Bag!bagVars
<1>1. mbag' = mbag
  BY DEF mbag
<1>2. QED
  BY <1>1 DEF Bag!bagVars, mbag

LEMMA QuietBag ==
  ASSUME Inv, Elsewhere
  PROVE  joined' = joined /\ mbag' = mbag /\ UNCHANGED key
<1>1. joined' = joined /\ UNCHANGED key
  BY SameLevels DEF Elsewhere, list
<1>2. QED
  BY <1>1 DEF mbag

-----------------------------------------------------------------------------
(* The reads.                                                              *)

LEMMA ReturnOK ==
  ASSUME Inv, NEW r \in Readers, pc[r] \in Searching, Return(r, "idle"),
         UNCHANGED <<list, insert>>
  PROVE  Elsewhere
BY DEF Elsewhere, Return, insert, Inv, TypeOK, Linking

\* Where a search of r stands when it returns.
LEMMA BottomOK ==
  ASSUME Inv, NEW r \in Readers, pc[r] \in Searching, level[r] = 0, ~GoesRight(r)
  PROVE  /\ x[r] \in {head_} \cup 1..joined /\ Loaded(r) = next[x[r]][0]
         /\ Loaded(r) \in 1..joined \cup {NULL}
         /\ pc[r] # "last" =>
               /\ target[r] \in Keys
               /\ x[r] # head_ => key[x[r]] < target[r]
               /\ Loaded(r) # NULL => key[Loaded(r)] >= target[r]
         /\ pc[r] = "last" => Loaded(r) = NULL
<1>1. r \in Procs
  OBVIOUS
<1>2. x[r] \in {head_} \cup 1..joined
  BY <1>1, BagOK DEF Inv, SearchOK
<1>3. Loaded(r) = next[x[r]][0]
  BY DEF Loaded
<1>4. Loaded(r) \in 1..joined \cup {NULL}
  BY <1>2, <1>3, NextIsFirst
<1>5. pc[r] # "last" => target[r] \in Keys /\ (x[r] # head_ => key[x[r]] < target[r])
  BY <1>1 DEF Inv, SearchOK
<1>6. QED
  BY <1>1, <1>2, <1>3, <1>4, <1>5, GoesRightOK

\* A search that goes right over the smaller keys stops in front of the rest.
LEMMA FirstNotSmaller ==
  ASSUME Inv, NEW r \in Readers, pc[r] \in {"seek", "contains"},
         level[r] = 0, ~GoesRight(r)
  PROVE  \A m \in 1..joined : key[m] >= target[r] =>
            Loaded(r) # NULL /\ (m = Loaded(r) \/ Before(Loaded(r), m))
<1> SUFFICES ASSUME NEW m \in 1..joined, key[m] >= target[r]
             PROVE  Loaded(r) # NULL /\ (m = Loaded(r) \/ Before(Loaded(r), m))
  OBVIOUS
<1>1. /\ x[r] \in {head_} \cup 1..joined /\ Loaded(r) = next[x[r]][0]
      /\ target[r] \in Int /\ (x[r] # head_ => key[x[r]] < target[r])
  BY BottomOK
<1>2. key[m] \in Int /\ (x[r] # head_ => key[x[r]] \in Int)
  BY <1>1, BagOK
<1>3. Before(x[r], m)
  BY <1>1, <1>2 DEF Before
<1>4. QED
  BY <1>1, <1>3, NextIsFirst

LEMMA SeekRefines ==
  ASSUME Inv, NEW r \in Readers, SeekReturn(r)
  PROVE  Bag!Seek(r, target[r])
<1>1. /\ pc[r] = "seek" /\ level[r] = 0 /\ ~GoesRight(r) /\ Elsewhere
      /\ pos' = [pos EXCEPT ![r] = Loaded(r)] /\ UNCHANGED found
  BY ReturnOK DEF SeekReturn, AtBottom
<1>2. /\ target[r] \in Keys /\ Loaded(r) \in 1..joined \cup {NULL}
      /\ Loaded(r) # NULL => key[Loaded(r)] >= target[r]
  BY <1>1, BottomOK
<1> DEFINE S == {m \in Bag!Items : mbag[m] >= target[r]}
<1>3. S = {m \in 1..joined : key[m] >= target[r]}
  BY BagOK
<1>4. \A m \in S : Loaded(r) # NULL /\ (m = Loaded(r) \/ Bag!Before(Loaded(r), m))
  BY <1>1, <1>2, <1>3, FirstNotSmaller, SameOrder
<1>5. Loaded(r) # NULL => Loaded(r) \in S
  BY <1>2, <1>3
<1> HIDE DEF S
<1>6. Bag!IsFirst(Loaded(r), S)
  BY <1>4, <1>5 DEF Bag!IsFirst
<1>7. Bag!MoveTo(r, Loaded(r))
  BY <1>1, QuietBag DEF Bag!MoveTo, mbag
<1>8. Loaded(r) \in Bag!Items \cup {NULL}
  BY <1>2, BagOK
<1>9. QED
  BY <1>6, <1>7, <1>8 DEF Bag!Seek, S, mbag

LEMMA ContainsRefines ==
  ASSUME Inv, NEW r \in Readers, ContainsReturn(r)
  PROVE  Bag!Contains(r, target[r])
<1> DEFINE t == target[r]
           here == Loaded(r) # NULL /\ t = key[Loaded(r)]
<1>1. /\ pc[r] = "contains" /\ level[r] = 0 /\ ~GoesRight(r) /\ Elsewhere
      /\ found' = [found EXCEPT ![r] = here] /\ UNCHANGED pos
  BY ReturnOK DEF ContainsReturn, AtBottom
<1>2. /\ t \in Keys /\ Loaded(r) \in 1..joined \cup {NULL}
      /\ Loaded(r) # NULL => key[Loaded(r)] >= t
  BY <1>1, BottomOK
<1>3. here <=> \E n \in 1..joined : key[n] = t
  <2>1. here => \E n \in 1..joined : key[n] = t
    BY <1>2
  <2>2. ASSUME NEW n \in 1..joined, key[n] = t PROVE here
    <3>1. key[n] \in Int
      BY BagOK
    <3>2. Loaded(r) # NULL /\ (n = Loaded(r) \/ Before(Loaded(r), n))
      BY <1>1, <2>2, <3>1, FirstNotSmaller
    <3>3. Loaded(r) \in 1..joined /\ key[Loaded(r)] \in Int /\ Loaded(r) # head_
      BY <1>2, <3>2, KeysOfItems
    <3>4. key[Loaded(r)] <= key[n]
      BY <3>1, <3>2, <3>3 DEF Before
    <3>5. QED
      BY <1>2, <2>2, <3>1, <3>2, <3>3, <3>4
  <2>3. QED
    BY <2>1, <2>2
<1>4. here <=> \E n \in Bag!Items : mbag[n] = t
  BY <1>3, BagOK
<1> HIDE DEF here, t
<1>5. UNCHANGED mbag
  BY <1>1, QuietBag
<1>6. found' = [found EXCEPT ![r] = \E n \in Bag!Items : mbag[n] = t]
  <2>1. here \in BOOLEAN
    BY DEF here
  <2>2. here = (\E n \in Bag!Items : mbag[n] = t)
    BY <1>4, <2>1
  <2>3. QED
    BY <1>1, <2>2
<1>7. Bag!Contains(r, t)
  BY <1>1, <1>5, <1>6 DEF Bag!Contains, mbag
<1>8. QED
  BY <1>7 DEF t

\* FindLessThan and FindLast leave the search on the last item of those it
\* has passed: nothing it looks for lies behind x[r].
LEMMA LastPassed ==
  ASSUME Inv, NEW r \in Readers, pc[r] \in {"prev", "last"},
         level[r] = 0, ~GoesRight(r),
         NEW m \in 1..joined, pc[r] = "prev" => key[m] < target[r]
  PROVE  x[r] # head_ /\ (m = x[r] \/ Before(m, x[r]))
<1>1. /\ x[r] \in {head_} \cup 1..joined /\ Loaded(r) = next[x[r]][0]
      /\ Loaded(r) \in 1..joined \cup {NULL}
      /\ pc[r] = "prev" => target[r] \in Int /\
            (Loaded(r) # NULL => key[Loaded(r)] >= target[r])
      /\ pc[r] = "last" => Loaded(r) = NULL
  BY BottomOK
<1>2. ~Before(x[r], m)
  <2> SUFFICES ASSUME Before(x[r], m) PROVE FALSE
    OBVIOUS
  <2>1. Loaded(r) # NULL /\ (m = Loaded(r) \/ Before(Loaded(r), m))
    BY <1>1, NextIsFirst
  <2>2. pc[r] = "prev" /\ key[Loaded(r)] >= target[r] /\ target[r] \in Int
    BY <1>1, <2>1
  <2>3. /\ key[Loaded(r)] \in Int /\ key[m] \in Int /\ key[m] < target[r]
        /\ Loaded(r) # head_
    BY <1>1, <2>1, <2>2, KeysOfItems
  <2>4. QED
    BY <2>1, <2>2, <2>3 DEF Before
<1>3. x[r] # head_
  BY <1>2 DEF Before
<1>4. x[r] \in 1..joined /\ x[r] \in 1..count /\ m \in 1..count
  BY <1>1, <1>3, BagOK DEF Inv, TypeOK
<1>5. QED
  BY <1>2, <1>3, <1>4, BeforeOrder

LEMMA LastRefines ==
  ASSUME Inv, NEW r \in Readers, ReturnLast(r)
  PROVE  \/ pc[r] = "prev" /\ Bag!Retreat(r)
         \/ pc[r] = "last" /\ Bag!SeekToLast(r)
<1> DEFINE n == IF x[r] = head_ THEN NULL ELSE x[r]
<1>1. /\ pc[r] \in {"prev", "last"} /\ level[r] = 0 /\ ~GoesRight(r) /\ Elsewhere
      /\ pos' = [pos EXCEPT ![r] = n] /\ UNCHANGED found
  BY ReturnOK DEF ReturnLast, AtBottom
<1>2. x[r] \in {head_} \cup 1..joined
  BY <1>1, BottomOK
<1>3. n \in Bag!Items \cup {NULL}
  BY <1>2, BagOK
<1>4. Bag!MoveTo(r, n)
  BY <1>1, QuietBag DEF Bag!MoveTo, mbag
<1>5. CASE pc[r] = "last"
  <2>1. \A m \in Bag!Items : n # NULL /\ (m = n \/ Bag!Before(m, n))
    <3>1. \A m \in 1..joined : x[r] # head_ /\ (m = x[r] \/ Before(m, x[r]))
      BY <1>1, <1>5, LastPassed
    <3>2. QED
      BY <1>2, <3>1, BagOK, SameOrder
  <2>2. n # NULL => n \in Bag!Items
    BY <1>3
  <2> HIDE DEF n
  <2>3. Bag!IsLast(n, Bag!Items)
    BY <2>1, <2>2 DEF Bag!IsLast
  <2>4. Bag!SeekToLast(r)
    BY <1>3, <1>4, <2>3 DEF Bag!SeekToLast
  <2>5. QED
    BY <1>5, <2>4
<1>6. CASE pc[r] = "prev"
  <2> DEFINE S == {m \in Bag!Items : mbag[m] < mbag[pos[r]]}
  <2>1. pos[r] \in 1..joined /\ target[r] = key[pos[r]]
    BY <1>6, BagOK DEF Inv, SearchOK
  <2>2. S = {m \in 1..joined : key[m] < target[r]}
    BY <2>1, BagOK
  <2>3. \A m \in S : n # NULL /\ (m = n \/ Bag!Before(m, n))
    <3>1. \A m \in S : x[r] # head_ /\ (m = x[r] \/ Before(m, x[r]))
      BY <1>1, <1>6, <2>2, LastPassed
    <3>2. \A m \in S : m \in 1..joined
      BY <2>2
    <3>3. QED
      BY <1>2, <3>1, <3>2, SameOrder
  <2>4. n # NULL => n \in S
    BY <1>1, <1>2, <1>6, <2>2, BottomOK
  <2>5. pos[r] # NULL
    BY <2>1
  <2> HIDE DEF n, S
  <2>6. Bag!IsLast(n, S)
    BY <2>3, <2>4 DEF Bag!IsLast
  <2>7. Bag!Retreat(r)
    BY <1>3, <1>4, <2>5, <2>6 DEF Bag!Retreat, S, mbag
  <2>8. QED
    BY <1>6, <2>7
<1>7. QED
  BY <1>1, <1>5, <1>6

LEMMA StepsRefine ==
  ASSUME Inv, NEW r \in Readers, SeekToFirst(r) \/ Advance(r)
  PROVE  Bag!SeekToFirst(r) \/ Bag!Advance(r)
<1>1. UNCHANGED <<pc, list, i, found>> /\ Elsewhere
  BY DEF SeekToFirst, Advance, Elsewhere, search, insert
<1>2. mbag' = mbag
  BY <1>1, QuietBag
<1>3. CASE SeekToFirst(r)
  <2> DEFINE n == next[head_][0]
  <2>1. n \in Bag!Items \cup {NULL} /\ Bag!MoveTo(r, n)
    BY <1>1, <1>2, <1>3, NextIsFirst, BagOK DEF SeekToFirst, Bag!MoveTo, mbag
  <2>2. \A m \in Bag!Items : n # NULL /\ (m = n \/ Bag!Before(n, m))
    <3>1. \A m \in 1..joined : Before(head_, m)
      BY DEF Before
    <3>2. \A m \in 1..joined : n # NULL /\ (m = n \/ Before(n, m))
      BY <3>1, NextIsFirst
    <3>3. QED
      BY <2>1, <3>2, BagOK, SameOrder
  <2> HIDE DEF n
  <2>3. Bag!IsFirst(n, Bag!Items)
    BY <2>1, <2>2 DEF Bag!IsFirst
  <2>4. QED
    BY <2>1, <2>3 DEF Bag!SeekToFirst
<1>4. CASE Advance(r)
  <2> DEFINE n == next[pos[r]][0]
             S == {m \in Bag!Items : Bag!Before(pos[r], m)}
  <2>1. pos[r] # NULL /\ pos[r] \in 1..joined
    BY <1>4, PosOK, BagOK DEF Advance
  <2>2. n \in Bag!Items \cup {NULL} /\ Bag!MoveTo(r, n)
    BY <1>1, <1>2, <1>4, <2>1, NextIsFirst, BagOK DEF Advance, Bag!MoveTo, mbag
  <2>3. S = {m \in 1..joined : Before(pos[r], m)}
    BY <2>1, BagOK, SameOrder
  <2>4. \A m \in S : n # NULL /\ (m = n \/ Before(n, m))
    BY <2>1, <2>3, NextIsFirst
  <2>5. \A m \in S : n # NULL /\ (m = n \/ Bag!Before(n, m))
    BY <2>2, <2>3, <2>4, BagOK, SameOrder
  <2>6. n # NULL => n \in S
    BY <2>1, <2>2, <2>3, NextIsFirst, BagOK
  <2> HIDE DEF n, S
  <2>7. Bag!IsFirst(n, S)
    BY <2>5, <2>6 DEF Bag!IsFirst
  <2>8. QED
    BY <2>1, <2>2, <2>7 DEF Bag!Advance, S
<1>5. QED
  BY <1>3, <1>4

-----------------------------------------------------------------------------
(* The writer.                                                             *)

LEMMA LinkRefines ==
  ASSUME Inv, InsertLink
  PROVE  IF i = 0 THEN Bag!Insert(target[Writer]) ELSE UNCHANGED Bag!bagVars
<1>1. /\ pc[Writer] = "link" /\ Linking /\ UNCHANGED <<count, key, pos, found>>
      /\ pc'[Writer] \in {"set", "idle"}
      /\ pc'[Writer] = "set" => i' = i + 1
  BY DEF InsertLink, Linking, Inv, TypeOK
<1>2. i \in Nat /\ count \in Nat \ {0}
  BY <1>1 DEF Inv, TypeOK, WriterOK
<1>3. joined' = count
  BY <1>1, <1>2 DEF joined
<1>4. joined = IF i = 0 THEN count - 1 ELSE count
  BY <1>1 DEF joined
<1>5. CASE i # 0
  BY <1>1, <1>3, <1>4, <1>5, Invisible
<1>6. CASE i = 0
  <2>1. key[count] \in Keys
    BY <1>1, <1>2, LinkingOK DEF Inv, MemoryOK
  <2>2. mbag \in Seq(Keys) /\ Len(mbag) = count - 1
    BY <1>4, <1>6, BagOK
  <2>3. mbag' = [n \in 1..count |-> key[n]]
    BY <1>1, <1>3 DEF mbag
  <2>4. mbag = [n \in 1..count - 1 |-> key[n]]
    BY <1>4, <1>6 DEF mbag
  <2>5. mbag' = Append(mbag, key[count])
    <3> DEFINE t == Append(mbag, key[count])
    <3>1. /\ t \in Seq(Keys) /\ Len(t) = count
          /\ \A n \in 1..count - 1 : t[n] = mbag[n]
          /\ t[count] = key[count]
      BY <1>2, <2>1, <2>2, AppendProperties
    <3>2. \A n \in 1..count : t[n] = key[n]
      BY <1>2, <2>4, <3>1
    <3> HIDE DEF t
    <3>3. t = [n \in 1..count |-> key[n]]
      <4>1. t \in [1..count -> Keys]
        BY <3>1, LenProperties
      <4>2. QED
        BY <3>2, <4>1
    <3>4. QED
      BY <2>3, <3>3 DEF t
  <2>6. target[Writer] = key[count]
    BY <1>1 DEF Inv, WriterOK
  <2>7. Bag!Insert(target[Writer])
    BY <1>1, <2>5, <2>6 DEF Bag!Insert, mbag
  <2>8. QED
    BY <1>6, <2>7
<1>7. QED
  BY <1>2, <1>5, <1>6

LEMMA GrowRefines ==
  ASSUME Inv, NEW h \in 1..MaxHeight, InsertGrow(h)
  PROVE  UNCHANGED Bag!bagVars
<1>1. /\ pc[Writer] = "grow" /\ pc'[Writer] = "set" /\ i' = 0 /\ count' = count + 1
      /\ key' = [key EXCEPT ![count + 1] = target[Writer]] /\ UNCHANGED <<pos, found>>
      /\ count \in Nat /\ count < MaxNodes /\ key \in [Nodes -> Keys \cup {Wild}]
  BY DEF InsertGrow, Inv, TypeOK, WriterOK
<1>2. joined = count /\ joined' = count
  BY <1>1 DEF joined
<1>3. \A n \in 1..joined : key'[n] = key[n]
  BY <1>1, <1>2
<1>4. QED
  BY <1>1, <1>2, <1>3, Invisible

LEMMA SetRefines == ASSUME Inv, InsertSet PROVE UNCHANGED Bag!bagVars
<1>1. /\ pc[Writer] = "set" /\ pc'[Writer] = "link"
      /\ UNCHANGED <<i, count, key, pos, found>>
  BY DEF InsertSet, insert, Inv, TypeOK
<1>2. joined' = joined
  BY <1>1 DEF joined
<1>3. QED
  BY <1>1, <1>2, Invisible

\* The steps that touch neither the list nor what a client sees.
LEMMA QuietRefines ==
  ASSUME Inv, UNCHANGED <<list, i, pos, found>>, Linking \/ Linking' => UNCHANGED pc
  PROVE  UNCHANGED Bag!bagVars
<1>1. Elsewhere
  BY DEF Elsewhere
<1>2. QED
  BY <1>1, QuietBag, Invisible

-----------------------------------------------------------------------------
(* The calls that are pending.                                             *)


\* When only the call of p changes, and i only for the writer, only the
\* pending call of p does.
LEMMA PendingOfOthers ==
  ASSUME Inv, NEW p \in Procs, NEW s, pc' = [pc EXCEPT ![p] = s],
         p # Writer => s \notin {"grow", "set", "link"}, i' = i \/ p = Writer
  PROVE  pending' = [pending EXCEPT ![p] =
            IF s = "grow" \/ (s \in {"set", "link"} /\ i' = 0) THEN "insert"
            ELSE IF s \in {"set", "link"} THEN "idle" ELSE s]
<1>1. pc'[p] = s /\ \A q \in Procs : q # p => pc'[q] = pc[q]
  BY DEF Inv, TypeOK
<1>2. ASSUME NEW q \in Procs, q # p
      PROVE  i' = i \/ pc[q] \notin {"grow", "set", "link"}
  BY <1>2 DEF Inv, TypeOK
<1>3. \A q \in Procs : q # p => pending'[q] = pending[q]
  BY <1>1, <1>2 DEF pending
<1> DEFINE v == IF s = "grow" \/ (s \in {"set", "link"} /\ i' = 0) THEN "insert"
                ELSE IF s \in {"set", "link"} THEN "idle" ELSE s
<1>4. pending'[p] = v
  BY <1>1 DEF pending
<1>5. pending' = [q \in Procs |-> pending'[q]]
  BY DEF pending
<1>6. [pending EXCEPT ![p] = v] = [q \in Procs |-> IF q = p THEN v ELSE pending[q]]
  BY DEF pending
<1> HIDE DEF v
<1>7. pending' = [pending EXCEPT ![p] = v]
  BY <1>3, <1>4, <1>5, <1>6
<1>8. QED
  BY <1>7 DEF v

LEMMA PendingSame ==
  ASSUME pending' = [pending EXCEPT ![Writer] = pending[Writer]]
  PROVE  UNCHANGED pending
BY DEF pending

LEMMA CallRefines ==
  ASSUME Inv, NEW p \in Procs, NEW o \in Searching, NEW k \in Keys \cup {NULL},
         Call(p, o, k), UNCHANGED <<list, insert, pos, found>>
  PROVE  Bag!CallNext
<1>1. pc[p] = "idle" /\ pc' = [pc EXCEPT ![p] = o] /\ i' = i
  BY DEF Call, insert
<1>2. pc'[Writer] = pc[Writer] \/ (pc[Writer] = "idle" /\ pc'[Writer] = o)
  BY <1>1 DEF Inv, TypeOK
<1>3. Elsewhere
  BY <1>2 DEF Elsewhere, insert, Linking
<1>4. UNCHANGED Bag!bagVars
  BY <1>3, QuietBag, Invisible
<1>5. pending[p] = "idle"
  BY <1>1 DEF pending
<1>6. pending' = [pending EXCEPT ![p] = o]
  BY <1>1, PendingOfOthers
<1>7. target' = [target EXCEPT ![p] = k]
  BY DEF Call
<1>8. Bag!Request(p, o, k)
  BY <1>4, <1>5, <1>6, <1>7 DEF Bag!Request
<1>9. QED
  BY <1>8 DEF Bag!CallNext, Bag!Callers

LEMMA EffectOK ==
  ASSUME Inv, NEW r \in Readers, Return(r, "idle"), UNCHANGED <<target, i>>,
         pc[r] \in Searching
  PROVE  Bag!Effect(r, pc[r])
<1>1. r \in Procs /\ pc' = [pc EXCEPT ![r] = "idle"] /\ pending[r] = pc[r]
  BY DEF Return, pending
<1>2. pending' = [pending EXCEPT ![r] = "idle"]
  BY <1>1, PendingOfOthers
<1>3. QED
  BY <1>1, <1>2 DEF Bag!Effect

LEMMA ReadsRefine ==
  ASSUME Inv, NEW r \in Readers, SeekReturn(r) \/ ContainsReturn(r) \/ ReturnLast(r)
  PROVE  Bag!ReadNow(r)
<1>1. Return(r, "idle") /\ UNCHANGED <<target, i>>
  BY DEF SeekReturn, ContainsReturn, ReturnLast, insert
<1>2. CASE SeekReturn(r)
  <2>1. pc[r] = "seek"
    BY <1>2 DEF SeekReturn, AtBottom
  <2>2. Bag!Effect(r, "seek") /\ Bag!Seek(r, target[r])
    BY <1>1, <1>2, <2>1, EffectOK, SeekRefines
  <2>3. QED
    BY <2>2 DEF Bag!ReadNow
<1>3. CASE ContainsReturn(r)
  <2>1. pc[r] = "contains"
    BY <1>3 DEF ContainsReturn, AtBottom
  <2>2. Bag!Effect(r, "contains") /\ Bag!Contains(r, target[r])
    BY <1>1, <1>3, <2>1, EffectOK, ContainsRefines
  <2>3. QED
    BY <2>2 DEF Bag!ReadNow
<1>4. CASE ReturnLast(r)
  <2>1. pc[r] \in Searching
    BY <1>4 DEF ReturnLast, AtBottom
  <2>2. Bag!Effect(r, pc[r])
    BY <1>1, <2>1, EffectOK
  <2>3. QED
    BY <1>4, <2>2, LastRefines DEF Bag!ReadNow
<1>5. QED
  BY <1>2, <1>3, <1>4

LEMMA WriterRefines ==
  ASSUME Inv, InsertFound \/ (\E h \in 1..MaxHeight : InsertGrow(h)) \/ InsertSet
              \/ InsertLink
  PROVE  [Bag!CallNext]_(Bag!callVars)
<1>1. /\ Writer \in Procs /\ UNCHANGED target /\ i \in Levels
      /\ pending[Writer] = IF pc[Writer] = "grow" \/ (pc[Writer] \in {"set", "link"} /\ i = 0)
                             THEN "insert"
                           ELSE IF pc[Writer] \in {"set", "link"} THEN "idle" ELSE pc[Writer]
  BY DEF InsertFound, InsertGrow, InsertSet, InsertLink, pending, Inv, TypeOK
<1>2. ASSUME NEW s, pc' = [pc EXCEPT ![Writer] = s]
      PROVE  pending' = [pending EXCEPT ![Writer] =
                IF s = "grow" \/ (s \in {"set", "link"} /\ i' = 0) THEN "insert"
                ELSE IF s \in {"set", "link"} THEN "idle" ELSE s]
  BY <1>1, <1>2, PendingOfOthers
<1>3. CASE InsertFound
  <2>1. /\ UNCHANGED <<list, i, pos, found>> /\ pc[Writer] = "insert"
        /\ pc' = [pc EXCEPT ![Writer] = "grow"] /\ pc'[Writer] = "grow"
    BY <1>3 DEF InsertFound, AtBottom, Return, Inv, TypeOK
  <2>2. UNCHANGED Bag!bagVars
    BY <2>1, QuietRefines DEF Linking
  <2>3. UNCHANGED pending
    BY <1>1, <1>2, <2>1, PendingSame
  <2>4. QED
    BY <1>1, <2>2, <2>3 DEF Bag!callVars
<1>4. ASSUME NEW h \in 1..MaxHeight, InsertGrow(h) PROVE UNCHANGED Bag!callVars
  <2>1. pc[Writer] = "grow" /\ pc' = [pc EXCEPT ![Writer] = "set"] /\ i' = 0
    BY <1>4 DEF InsertGrow
  <2>2. UNCHANGED pending
    BY <1>1, <1>2, <2>1, PendingSame
  <2>3. QED
    BY <1>1, <1>4, <2>2, GrowRefines DEF Bag!callVars
<1>5. CASE InsertSet
  <2>1. pc[Writer] = "set" /\ pc' = [pc EXCEPT ![Writer] = "link"] /\ i' = i
    BY <1>5 DEF InsertSet, insert
  <2>2. UNCHANGED pending
    BY <1>1, <1>2, <2>1, PendingSame
  <2>3. QED
    BY <1>1, <1>5, <2>2, SetRefines DEF Bag!callVars
<1>6. CASE InsertLink
  <2>1. /\ pc[Writer] = "link"
        /\ \/ pc' = [pc EXCEPT ![Writer] = "set"] /\ i' = i + 1
           \/ pc' = [pc EXCEPT ![Writer] = "idle"]
    BY <1>6 DEF InsertLink
  <2>2. i + 1 # 0
    BY <1>1
  <2>3. pending' = [pending EXCEPT ![Writer] = "idle"]
    BY <1>2, <2>1, <2>2
  <2>4. CASE i = 0
    <3>1. pending[Writer] = "insert" /\ Bag!Insert(target[Writer])
      BY <1>1, <1>6, <2>1, <2>4, LinkRefines
    <3>2. QED
      BY <1>1, <2>3, <3>1 DEF Bag!CallNext, Bag!InsertNow, Bag!Effect
  <2>5. CASE i # 0
    <3>1. pending[Writer] = "idle" /\ UNCHANGED Bag!bagVars
      BY <1>1, <1>6, <2>1, <2>5, LinkRefines
    <3>2. UNCHANGED pending
      BY <2>3, <3>1, PendingSame
    <3>3. QED
      BY <1>1, <3>1, <3>2 DEF Bag!callVars
  <2>6. QED
    BY <2>4, <2>5
<1>7. QED
  BY <1>3, <1>4, <1>5, <1>6

LEMMA NextRefines == ASSUME Inv, [Next]_vars PROVE [Bag!CallNext]_(Bag!callVars)
<1>1. ASSUME NEW p \in Procs, MoveRight(p) \/ MoveDown(p)
      PROVE  UNCHANGED Bag!callVars
  <2>1. UNCHANGED <<pc, target, i, list, pos, found>>
    BY <1>1 DEF MoveRight, MoveDown, insert
  <2>2. UNCHANGED pending
    BY <2>1 DEF pending
  <2>3. QED
    BY <2>1, <2>2, QuietRefines DEF Bag!callVars
<1>2. ASSUME NEW r \in Readers, ReaderStep(r) PROVE [Bag!CallNext]_(Bag!callVars)
  <2>1. r \in Procs
    OBVIOUS
  <2>2. QED
    BY <1>1, <1>2, <2>1, ReadsRefine DEF ReaderStep, Bag!CallNext
<1>3. CASE WriterStep
  <2>1. Writer \in Procs
    OBVIOUS
  <2>2. QED
    BY <1>1, <1>3, <2>1, WriterRefines DEF WriterStep
<1>4. CASE Calls
  <2>1. ASSUME NEW k \in Keys, InsertCall(k) PROVE Bag!CallNext
    BY <2>1, CallRefines DEF InsertCall
  <2>2. ASSUME NEW r \in Readers, NEW k \in Keys, SeekCall(r, k) \/ ContainsCall(r, k)
        PROVE  Bag!CallNext
    BY <2>2, CallRefines DEF SeekCall, ContainsCall, ReaderCall
  <2>3. ASSUME NEW r \in Readers, PrevCall(r) \/ SeekToLastCall(r)
        PROVE  Bag!CallNext
    <3>1. PrevCall(r) => key[pos[r]] \in Keys
      BY PosOK, BagOK DEF PrevCall
    <3>2. QED
      BY <2>3, <3>1, CallRefines DEF PrevCall, SeekToLastCall, ReaderCall
  <2>4. ASSUME NEW r \in Readers, SeekToFirst(r) \/ Advance(r) PROVE Bag!CallNext
    <3>1. pc[r] = "idle" /\ UNCHANGED <<pc, target, i>>
      BY <2>4 DEF SeekToFirst, Advance, search, insert
    <3>2. pending[r] = "idle" /\ UNCHANGED pending
      BY <3>1 DEF pending
    <3>3. QED
      BY <2>4, <3>1, <3>2, StepsRefine DEF Bag!CallNext, Bag!ReadNow
  <2>5. QED
    BY <1>4, <2>1, <2>2, <2>3, <2>4 DEF Calls
<1>5. CASE UNCHANGED vars
  <2>1. UNCHANGED <<pc, target, i, list, pos, found>>
    BY <1>5 DEF vars, search, insert
  <2>2. UNCHANGED pending
    BY <2>1 DEF pending
  <2>3. QED
    BY <2>1, <2>2, QuietRefines DEF Bag!callVars
<1>6. QED
  BY <1>2, <1>3, <1>4, <1>5 DEF Next

\* The skip list behaves, for its clients, as the atomic ordered bag: a call
\* that overlaps with others has, at one instant before it returns, the effect
\* that its operation has on the bag at that instant.
THEOREM Refinement == Spec => ImplementsConcurrentBag
<1>1. Init => Bag!CallInit
  BY InitRefines
<1>2. Inv /\ [Next]_vars => [Bag!CallNext]_(Bag!callVars)
  BY NextRefines
<1>3. QED
  BY <1>1, <1>2, Invariance, PTL DEF Spec, ImplementsConcurrentBag, Bag!CallSpec
=============================================================================
