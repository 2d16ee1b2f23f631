--------------------------- MODULE IteratorProofs ---------------------------
(***************************************************************************)
(* The cleanup list, for any number of functions and registrations.        *)
(***************************************************************************)
EXTENDS Iterator, TLAPS

\* The number of Cleanups the destructor has still to visit: those before and
\* at c, as each leads to the one made before it.
Kept == IF pc = "live" THEN Len(node)
        ELSE IF pc = "gone" \/ c = NULL THEN 0
        ELSE c

Older(n) == IF n = 1 THEN NULL ELSE n - 1

\* The list holds what was registered, latest first, and as much of it is
\* freed as has run.
ListOK ==
  /\ registered \in Seq(Functions)
  /\ node \in Seq(Cleanup \cup {Freed})
  /\ registered = << >> =>
       node = << >> /\ cleanup_ = [function |-> NULL, next |-> NULL] /\ pc \in {"live", "gone"}
  /\ registered # << >> =>
       /\ Len(registered) = Len(node) + 1
       /\ cleanup_ = [function |-> registered[1],
                      next |-> IF Len(node) = 0 THEN NULL ELSE Len(node)]
  /\ Kept \in 0..Len(node)
  /\ \A n \in 1..Len(node) :
       node[n] = IF n <= Kept THEN [function |-> registered[n + 1], next |-> Older(n)]
                 ELSE Freed

RanOK ==
  /\ ran \in Seq(Functions)
  /\ pc \in {"live", "call", "delete", "gone"}
  /\ c \in 1..Len(node) \cup {NULL}
  /\ pc = "live" => c = NULL
  /\ pc = "delete" => c # NULL
  /\ pc = "live" => Len(ran) = 0
  /\ pc = "gone" => Len(ran) = Len(registered)
  /\ pc = "call" => Len(ran) = Len(registered) - Kept
  /\ pc = "delete" => Len(ran) = Len(registered) - Kept + 1
  /\ \A n \in 1..Len(ran) : ran[n] = InOrder(n)

Inv == ListOK /\ RanOK

\* A Cleanup that is still to be visited is not freed.
LEMMA KeptNode ==
  ASSUME Inv, NEW n \in 1..Len(node), n <= Kept
  PROVE  /\ node[n] = [function |-> registered[n + 1], next |-> Older(n)]
         /\ node[n].function = registered[n + 1] /\ node[n].next = Older(n)
         /\ registered[n + 1] \in Functions
<1>1. node[n] = [function |-> registered[n + 1], next |-> Older(n)]
  BY DEF Inv, ListOK
<1>2. registered \in Seq(Functions) /\ n + 1 \in 1..Len(registered)
  <2>1. registered # << >>
    BY DEF Inv, ListOK
  <2>2. QED
    BY <2>1 DEF Inv, ListOK
<1>3. QED
  BY <1>1, <1>2

LEMMA InitInv == Init => Inv
<1> SUFFICES ASSUME Init PROVE Inv
  OBVIOUS
<1> QED
  BY ConstantsAssumption DEF Init, Inv, ListOK, RanOK, Kept

LEMMA RegisterInv ==
  ASSUME Inv, NEW f \in Functions, RegisterCleanup(f)
  PROVE  Inv'
<1>1. registered' = Append(registered, f) /\ pc = "live" /\ pc' = "live"
      /\ UNCHANGED <<c, ran>> /\ Len(ran) = 0 /\ c = NULL
  BY DEF RegisterCleanup, Inv, RanOK
<1>2. /\ registered' \in Seq(Functions) /\ Len(registered') = Len(registered) + 1
      /\ registered'[Len(registered) + 1] = f
      /\ \A n \in 1..Len(registered) : registered'[n] = registered[n]
  BY <1>1 DEF Inv, ListOK
<1>3. ran' = << >> /\ Len(ran') = 0
  BY <1>1 DEF Inv, RanOK
<1>4. CASE registered = << >>
  <2>1. node' = node /\ node = << >> /\ cleanup_' = [function |-> f, next |-> NULL]
    BY <1>4 DEF RegisterCleanup, Inv, ListOK
  <2>2. registered' # << >> /\ registered'[1] = f /\ Len(registered') = 1
    BY <1>2, <1>4
  <2>3. ListOK'
    BY <1>1, <1>2, <2>1, <2>2 DEF ListOK, Kept
  <2>4. RanOK'
    BY <1>1, <1>3, <2>1 DEF RanOK
  <2>5. QED
    BY <2>3, <2>4 DEF Inv
<1>5. CASE registered # << >>
  <2>1. /\ cleanup_.function \in Functions /\ cleanup_.function = registered[1]
        /\ cleanup_.next = Older(Len(node) + 1) /\ Len(registered) = Len(node) + 1
    BY <1>5 DEF Inv, ListOK, Older
  <2>2. /\ node' = Append(node, [function |-> f, next |-> Older(Len(node) + 1)])
        /\ cleanup_' = [function |-> registered[1], next |-> Len(node')]
    BY <1>5, <2>1, ConstantsAssumption DEF RegisterCleanup, Linked, Inv, ListOK
  <2>3. [function |-> f, next |-> Older(Len(node) + 1)] \in Cleanup
    BY DEF Cleanup, Older, Inv, ListOK
  <2>4. /\ node' \in Seq(Cleanup \cup {Freed}) /\ Len(node') = Len(node) + 1
        /\ node'[Len(node) + 1] = [function |-> f, next |-> Older(Len(node) + 1)]
        /\ \A n \in 1..Len(node) : node'[n] = node[n]
    BY <2>2, <2>3 DEF Inv, ListOK
  <2>5. registered' # << >> /\ registered'[1] = registered[1]
    BY <1>2, <1>5 DEF Inv, ListOK
  <2>6. Kept' = Len(node') /\ Kept = Len(node)
    BY <1>1 DEF Kept
  <2>7. \A n \in 1..Len(node') :
          node'[n] = [function |-> registered'[n + 1], next |-> Older(n)]
    <3> SUFFICES ASSUME NEW n \in 1..Len(node')
                 PROVE  node'[n] = [function |-> registered'[n + 1], next |-> Older(n)]
      OBVIOUS
    <3>1. CASE n = Len(node) + 1
      BY <1>2, <2>1, <2>4, <3>1
    <3>2. CASE n # Len(node) + 1
      <4>1. n \in 1..Len(node) /\ n + 1 \in 1..Len(registered)
        BY <2>1, <2>4, <3>2 DEF Inv, ListOK
      <4>2. node[n] = [function |-> registered[n + 1], next |-> Older(n)]
        BY <2>6, <4>1 DEF Inv, ListOK
      <4>3. QED
        BY <1>2, <2>4, <4>1, <4>2
    <3>3. QED
      BY <3>1, <3>2
  <2>8. ListOK'
    <3>1. Len(node) \in Nat /\ Len(node') \in 0..Len(node') /\ Len(node') # 0
          /\ Len(registered') = Len(node') + 1
      BY <1>2, <2>1, <2>4 DEF Inv, ListOK
    <3>2. cleanup_' = [function |-> registered'[1],
                       next |-> IF Len(node') = 0 THEN NULL ELSE Len(node')]
      BY <2>2, <2>5, <3>1
    <3>3. \A n : Older(n)' = Older(n)
      BY DEF Older
    <3>4. QED
      BY <1>2, <2>4, <2>5, <2>6, <2>7, <3>1, <3>2, <3>3 DEF ListOK
  <2>9. RanOK'
    BY <1>1, <1>3 DEF RanOK
  <2>10. QED
    BY <2>8, <2>9 DEF Inv
<1>6. QED
  BY <1>4, <1>5

\* A step of the destructor that calls a function calls the one whose turn it is.
LEMMA CallInOrder ==
  ASSUME Inv, Len(ran) < Len(registered), ran' = Append(ran, InOrder(Len(ran) + 1)),
         UNCHANGED registered
  PROVE  /\ ran' \in Seq(Functions) /\ Len(ran') = Len(ran) + 1
         /\ \A n \in 1..Len(ran') : ran'[n] = InOrder(n)'
<1>1. InOrder(Len(ran) + 1) \in Functions
  <2>1. /\ registered \in Seq(Functions) /\ Len(registered) \in Nat
        /\ Len(ran) \in Nat
    BY DEF Inv, ListOK, RanOK
  <2>2. \A n \in 1..Len(registered) : registered[n] \in Functions
    BY <2>1
  <2>3. QED
    BY <2>1, <2>2 DEF InOrder
<1>2. /\ ran' \in Seq(Functions) /\ Len(ran') = Len(ran) + 1
      /\ ran'[Len(ran) + 1] = InOrder(Len(ran) + 1)
      /\ \A n \in 1..Len(ran) : ran'[n] = ran[n]
  BY <1>1 DEF Inv, RanOK
<1>3. \A n \in 1..Len(ran) + 1 : InOrder(n)' = InOrder(n)
  BY DEF InOrder
<1>4. QED
  BY <1>2, <1>3 DEF Inv, RanOK

LEMMA DestroyInv == ASSUME Inv, Destroy PROVE Inv'
<1>1. pc = "live" /\ UNCHANGED <<cleanup_, node, registered>> /\ Len(ran) = 0
  BY DEF Destroy, Inv, RanOK
<1>2. CASE registered = << >>
  <2>1. pc' = "gone" /\ UNCHANGED <<c, ran>> /\ node = << >>
    BY <1>1, <1>2 DEF Destroy, Inv, ListOK
  <2>2. QED
    BY <1>1, <1>2, <2>1 DEF Inv, ListOK, RanOK, Kept, InOrder
<1>3. CASE registered # << >>
  <2>1. /\ Len(registered) = Len(node) + 1 /\ cleanup_.function = registered[1]
        /\ registered[1] \in Functions
        /\ cleanup_.next = IF Len(node) = 0 THEN NULL ELSE Len(node)
    BY <1>3 DEF Inv, ListOK
  <2>2. /\ pc' = "call" /\ ran' = Append(ran, registered[1])
        /\ c' = IF Len(node) = 0 THEN NULL ELSE Len(node)
    BY <1>1, <2>1, ConstantsAssumption DEF Destroy
  <2>3. InOrder(Len(ran) + 1) = registered[1]
    BY <1>1 DEF InOrder
  <2>4. /\ ran' \in Seq(Functions) /\ Len(ran') = 1
        /\ \A n \in 1..Len(ran') : ran'[n] = InOrder(n)'
    BY <1>1, <2>1, <2>2, <2>3, CallInOrder DEF Inv, ListOK
  <2>5. Kept = Len(node) /\ Kept' = Len(node)
    BY <1>1, <2>2, ConstantsAssumption DEF Kept, Inv, ListOK
  <2>6. ListOK'
    BY <1>1, <1>3, <2>2, <2>5 DEF Inv, ListOK, Older
  <2>7. RanOK'
    BY <1>1, <2>1, <2>2, <2>4, <2>5 DEF Inv, ListOK, RanOK
  <2>8. QED
    BY <2>6, <2>7 DEF Inv
<1>4. QED
  BY <1>2, <1>3

LEMMA CallInv == ASSUME Inv, CallFunction PROVE Inv'
<1>1. pc = "call" /\ UNCHANGED <<cleanup_, node, c, registered>> /\ registered # << >>
  BY DEF CallFunction, Inv, ListOK
<1>2. Len(registered) = Len(node) + 1 /\ Len(ran) = Len(registered) - Kept
  BY <1>1 DEF Inv, ListOK, RanOK
<1>3. CASE c = NULL
  <2>1. pc' = "gone" /\ UNCHANGED ran /\ Kept = 0 /\ Kept' = 0
    BY <1>1, <1>3 DEF CallFunction, Kept
  <2>2. ListOK'
    BY <1>1, <2>1 DEF Inv, ListOK, Older
  <2>3. Len(ran') = Len(registered')
    BY <1>1, <1>2, <2>1 DEF Inv, ListOK
  <2>4. RanOK'
    BY <1>1, <2>1, <2>3 DEF Inv, RanOK, InOrder
  <2>5. QED
    BY <2>2, <2>4 DEF Inv
<1>4. CASE c # NULL
  <2>1. Kept = c /\ c \in 1..Len(node) /\ c <= Kept
    BY <1>1, <1>4 DEF Kept, Inv, ListOK, RanOK
  <2>2. node[c].function = registered[c + 1]
    BY <2>1, KeptNode
  <2>3. InOrder(Len(ran) + 1) = registered[c + 1]
    BY <1>2, <2>1 DEF InOrder, Inv, ListOK
  <2>4. pc' = "delete" /\ ran' = Append(ran, InOrder(Len(ran) + 1))
    BY <1>1, <1>4, <2>2, <2>3 DEF CallFunction
  <2>5. Len(ran) < Len(registered)
    BY <1>2, <2>1 DEF Inv, ListOK
  <2>6. /\ ran' \in Seq(Functions) /\ Len(ran') = Len(ran) + 1
        /\ \A n \in 1..Len(ran') : ran'[n] = InOrder(n)'
    BY <1>1, <2>4, <2>5, CallInOrder
  <2>7. Kept' = Kept
    BY <1>1, <1>4, <2>4 DEF Kept
  <2>8. ListOK'
    BY <1>1, <2>4, <2>7 DEF Inv, ListOK, Older
  <2>9. RanOK'
    BY <1>1, <1>2, <1>4, <2>1, <2>4, <2>6, <2>7 DEF Inv, RanOK, ListOK
  <2>10. QED
    BY <2>8, <2>9 DEF Inv
<1>5. QED
  BY <1>3, <1>4

LEMMA DeleteInv == ASSUME Inv, DeleteCleanup PROVE Inv'
<1>1. /\ pc = "delete" /\ pc' = "call" /\ UNCHANGED <<cleanup_, registered, ran>>
      /\ node' = [node EXCEPT ![c] = Freed] /\ c' = node[c].next
  BY DEF DeleteCleanup, NextOf
<1>2. c \in 1..Len(node) /\ c # NULL /\ Kept = c /\ c <= Kept /\ registered # << >>
  BY <1>1 DEF Inv, RanOK, ListOK, Kept
<1>3. c' = Older(c)
  BY <1>1, <1>2, KeptNode
<1>4. Kept' = c - 1
  <2>1. c \in Nat /\ c - 1 \in Nat /\ c - 1 # NULL
    BY <1>2, ConstantsAssumption DEF Inv, ListOK
  <2>2. CASE c = 1
    BY <1>1, <1>3, <2>2 DEF Kept, Older
  <2>3. CASE c # 1
    BY <1>1, <1>3, <2>1, <2>3 DEF Kept, Older
  <2>4. QED
    BY <2>2, <2>3
<1>5. /\ node' \in Seq(Cleanup \cup {Freed}) /\ Len(node') = Len(node)
      /\ \A n \in 1..Len(node) : node'[n] = IF n = c THEN Freed ELSE node[n]
  BY <1>1, <1>2 DEF Inv, ListOK
<1>6. ListOK'
  <2>1. \A n \in 1..Len(node') :
          node'[n] = IF n <= Kept' THEN [function |-> registered[n + 1], next |-> Older(n)]
                     ELSE Freed
    BY <1>2, <1>4, <1>5 DEF Inv, ListOK
  <2>2. \A n : Older(n)' = Older(n)
    BY DEF Older
  <2>3. Kept' \in 0..Len(node')
    BY <1>2, <1>4, <1>5 DEF Inv, ListOK
  <2>4. QED
    BY <1>1, <1>2, <1>5, <2>1, <2>2, <2>3 DEF Inv, ListOK
<1>7. RanOK'
  <2>1. c' \in 1..Len(node') \cup {NULL}
    BY <1>2, <1>3, <1>5 DEF Older, Inv, ListOK
  <2>2. Len(ran') = Len(registered') - Kept'
    BY <1>1, <1>2, <1>4 DEF Inv, RanOK, ListOK
  <2>3. \A n \in 1..Len(ran') : ran'[n] = InOrder(n)'
    BY <1>1 DEF Inv, RanOK, InOrder
  <2>4. QED
    BY <1>1, <2>1, <2>2, <2>3 DEF Inv, RanOK
<1>8. QED
  BY <1>6, <1>7 DEF Inv

\* The list and what has run of it agree at every step of the destructor.
THEOREM Invariance == Spec => []Inv
<1>1. Inv /\ [Next]_vars => Inv'
  <2> SUFFICES ASSUME Inv, [Next]_vars PROVE Inv'
    OBVIOUS
  <2>1. CASE UNCHANGED vars
    <3>1. UNCHANGED <<cleanup_, node, pc, c, registered, ran>>
      BY <2>1 DEF vars
    <3>2. Kept' = Kept /\ ListOK'
      BY <3>1 DEF Inv, ListOK, Kept, Older
    <3>3. RanOK'
      BY <3>1, <3>2 DEF Inv, RanOK, InOrder
    <3>4. QED
      BY <3>2, <3>3 DEF Inv
  <2>2. QED
    BY <2>1, RegisterInv, DestroyInv, CallInv, DeleteInv DEF Next
<1>2. QED
  BY <1>1, InitInv, PTL DEF Spec

\* The types; and the destructor reads no freed Cleanup.
THEOREM TypeCorrect == Spec => []TypeOK
<1>1. Inv => TypeOK
  <2> SUFFICES ASSUME Inv PROVE TypeOK
    OBVIOUS
  <2>1. cleanup_.function \in Functions \cup {NULL} /\ cleanup_.next \in DOMAIN node \cup {NULL}
    BY DEF Inv, ListOK
  <2>2. ASSUME pc = "delete" PROVE c # NULL /\ node[c] # Freed
    <3>1. c \in 1..Len(node) /\ c <= Kept
      BY <2>2 DEF Inv, ListOK, RanOK, Kept
    <3>2. node[c].function = registered[c + 1] /\ registered[c + 1] \in Functions
      BY <3>1, KeptNode
    <3>3. QED
      BY <2>2, <3>2, ConstantsAssumption DEF Freed, Inv, RanOK
  <2>3. QED
    BY <2>1, <2>2 DEF TypeOK, Inv, ListOK, RanOK
<1>2. QED
  BY <1>1, Invariance, PTL

\* Every function runs in its turn: the first, then the last back to the second.
THEOREM CleanupsInOrder == Spec => []RunsInOrder
<1>1. Inv => RunsInOrder
  <2> SUFFICES ASSUME Inv PROVE RunsInOrder
    OBVIOUS
  <2>1. Kept \in 0..Len(node) /\ Len(node) \in Nat /\ Len(registered) \in Nat
    BY DEF Inv, ListOK
  <2>2. pc = "delete" => Kept # 0
    BY DEF Inv, RanOK, ListOK, Kept
  <2>3. Len(ran) <= Len(registered)
    BY <2>1, <2>2 DEF Inv, RanOK
  <2>4. QED
    BY <2>3 DEF RunsInOrder, Inv, RanOK
<1>2. QED
  BY <1>1, Invariance, PTL

\* Nothing is left when the iterator is gone: no function, no Cleanup.
THEOREM CleanupsComplete == Spec => []NothingLeft
<1>1. Inv => NothingLeft
  <2> SUFFICES ASSUME Inv, pc = "gone"
               PROVE  Len(ran) = Len(registered) /\ \A n \in DOMAIN node : node[n] = Freed
    BY DEF NothingLeft
  <2>1. Kept = 0
    BY DEF Kept
  <2>2. DOMAIN node = 1..Len(node)
    BY DEF Inv, ListOK
  <2>3. QED
    BY <2>1, <2>2 DEF Inv, ListOK, RanOK
<1>2. QED
  BY <1>1, Invariance, PTL
=============================================================================
