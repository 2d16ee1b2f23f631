------------------------------ MODULE SkipList ------------------------------
(***************************************************************************)
(* db/skiplist.h: one load or store of a list pointer per step.            *)
(*                                                                         *)
(* One writer runs Insert; any number of readers run Contains and the      *)
(* operations of an iterator.  Calls overlap: a search that is half way    *)
(* down meets a node of which only the lower levels are linked, or a       *)
(* max_height_ that is ahead of the list.  max_height_ is a                *)
(* port::AtomicPointer and nothing locks, so this is what the list has to  *)
(* stand; a program that runs one call at a time is the special case in    *)
(* which nothing overlaps.  Loads and stores of a pointer are taken to be  *)
(* indivisible and to happen in program order.                             *)
(*                                                                         *)
(* Nodes are numbered in the order of their allocation, head_ is 0.  The   *)
(* arena never gives memory back, and a slot of next_ that was never       *)
(* stored, or lies past the height of its node, reads as Wild.             *)
(***************************************************************************)
EXTENDS Integers

CONSTANTS
  Keys,        \* the keys, numbered in the order of compare_
  MaxHeight,   \* kMaxHeight
  MaxNodes,    \* bound: how many nodes the model allocates
  Readers,     \* the callers of Contains and of the iterators
  Writer,      \* the caller of Insert
  NULL,        \* the null pointer
  Wild         \* what uninitialized memory holds

ASSUME ConstantsAssumption ==
  /\ Keys \subseteq Int
  /\ MaxHeight \in Nat \ {0}
  /\ MaxNodes \in Nat
  /\ Writer \notin Readers
  /\ NULL \notin Int /\ Wild \notin Int /\ NULL # Wild

head_ == 0
Nodes == 1..MaxNodes
Levels == 0..MaxHeight - 1
Procs == Readers \cup {Writer}
Searching == {"insert", "seek", "contains", "prev", "last"}

VARIABLES
  count,       \* nodes NewNode has made, head_ not counted
  key,         \* Node::key
  next,        \* Node::next_, of head_ too
  maxHeight,   \* max_height_
  pc,          \* pc[p]: the call p is in, or "idle"
  target,      \* target[p]: the key that call was given
  x, level,    \* the locals of the search of p
  prev,        \* the local array of Insert
  height, i,   \* the other locals of Insert; the node it makes is count
  pos,         \* pos[r]: node_ of the iterator of r
  found        \* found[r]: what the last Contains of r returned

list == <<count, key, next, maxHeight>>
search == <<pc, target, x, level>>
insert == <<prev, height, i>>
vars == <<list, search, insert, pos, found>>

-----------------------------------------------------------------------------
NoPrev == [l \in Levels |-> Wild]

Init == /\ count = 0
        /\ key = [n \in Nodes |-> Wild]
        /\ next = [n \in {head_} \cup Nodes |->
                     [l \in Levels |-> IF n = head_ THEN NULL ELSE Wild]]
        /\ maxHeight = 1
        /\ pc = [p \in Procs |-> "idle"]
        /\ target = [p \in Procs |-> NULL]
        /\ x = [p \in Procs |-> head_]
        /\ level = [p \in Procs |-> 0]
        /\ prev = NoPrev /\ height = 0 /\ i = 0
        /\ pos = [r \in Readers |-> NULL]
        /\ found = [r \in Readers |-> FALSE]

-----------------------------------------------------------------------------
(* The searches.  Each reads max_height_ and head_ when it is called, and  *)
(* then makes one load of a next_ slot per iteration of its loop.          *)

Call(p, op, k) ==
  /\ pc[p] = "idle"
  /\ pc' = [pc EXCEPT ![p] = op]
  /\ target' = [target EXCEPT ![p] = k]
  /\ x' = [x EXCEPT ![p] = head_]
  /\ level' = [level EXCEPT ![p] = maxHeight - 1]

\* The call of p is over and its locals are gone.
Return(p, to) ==
  /\ pc' = [pc EXCEPT ![p] = to]
  /\ x' = [x EXCEPT ![p] = head_]
  /\ level' = [level EXCEPT ![p] = 0]

Loaded(p) == next[x[p]][level[p]]

\* Defect: also walks over the keys that are equal to k.
KeyIsAfterOrAtNode(k, n) == n # NULL /\ key[n] <= k

KeyIsAfterNode(k, n) == n # NULL /\ key[n] < k

\* Defect: FindLessThan walks over the keys that are equal to its target.
GoesRightOverEquals(p) ==
  CASE pc[p] \in {"insert", "seek", "contains"} -> KeyIsAfterNode(target[p], Loaded(p))
    [] pc[p] = "prev" -> ~(Loaded(p) = NULL \/ key[Loaded(p)] > target[p])
    [] OTHER -> Loaded(p) # NULL

GoesRight(p) ==
  CASE pc[p] \in {"insert", "seek", "contains"} -> KeyIsAfterNode(target[p], Loaded(p))
    [] pc[p] = "prev" -> ~(Loaded(p) = NULL \/ key[Loaded(p)] >= target[p])
    [] OTHER -> Loaded(p) # NULL

MoveRight(p) ==
  /\ pc[p] \in Searching
  /\ GoesRight(p)
  /\ x' = [x EXCEPT ![p] = Loaded(p)]
  /\ UNCHANGED <<list, pc, target, level, insert, pos, found>>

MoveDown(p) ==
  /\ pc[p] \in Searching
  /\ ~GoesRight(p)
  /\ level[p] > 0
  /\ level' = [level EXCEPT ![p] = @ - 1]
  /\ prev' = IF p = Writer THEN [prev EXCEPT ![level[p]] = x[p]] ELSE prev
  /\ UNCHANGED <<list, pc, target, x, height, i, pos, found>>

\* Defect: a search ends one level too early.
AtBottomEarly(p, op) == pc[p] = op /\ ~GoesRight(p) /\ level[p] = 1

\* The search of p, made for the call op, has reached its return statement.
AtBottom(p, op) == pc[p] = op /\ ~GoesRight(p) /\ level[p] = 0

-----------------------------------------------------------------------------
(* The readers.                                                            *)

ReaderCall(r, op, k) == Call(r, op, k) /\ UNCHANGED <<list, insert, pos, found>>

SeekCall(r, k) == ReaderCall(r, "seek", k)

SeekReturn(r) ==
  /\ AtBottom(r, "seek")
  /\ pos' = [pos EXCEPT ![r] = Loaded(r)]
  /\ Return(r, "idle")
  /\ UNCHANGED <<list, target, insert, found>>

ContainsCall(r, k) == ReaderCall(r, "contains", k)

ContainsReturn(r) ==
  /\ AtBottom(r, "contains")
  /\ found' = [found EXCEPT ![r] = Loaded(r) # NULL /\ target[r] = key[Loaded(r)]]
  /\ Return(r, "idle")
  /\ UNCHANGED <<list, target, insert, pos>>

PrevCall(r) == /\ pos[r] # NULL
               /\ ReaderCall(r, "prev", key[pos[r]])

\* Defect: the iterator takes head_ for an item.
ReturnLastHead(r) ==
  /\ AtBottom(r, "prev") \/ AtBottom(r, "last")
  /\ pos' = [pos EXCEPT ![r] = x[r]]
  /\ Return(r, "idle")
  /\ UNCHANGED <<list, target, insert, found>>

\* FindLessThan and FindLast return x, and their callers turn head_ to NULL.
ReturnLast(r) ==
  /\ AtBottom(r, "prev") \/ AtBottom(r, "last")
  /\ pos' = [pos EXCEPT ![r] = IF x[r] = head_ THEN NULL ELSE x[r]]
  /\ Return(r, "idle")
  /\ UNCHANGED <<list, target, insert, found>>

SeekToLastCall(r) == ReaderCall(r, "last", NULL)

\* SeekToFirst and Next are one load each.
SeekToFirst(r) ==
  /\ pc[r] = "idle"
  /\ pos' = [pos EXCEPT ![r] = next[head_][0]]
  /\ UNCHANGED <<list, search, insert, found>>

Advance(r) ==
  /\ pc[r] = "idle"
  /\ pos[r] # NULL
  /\ pos' = [pos EXCEPT ![r] = next[pos[r]][0]]
  /\ UNCHANGED <<list, search, insert, found>>

-----------------------------------------------------------------------------
(* Insert.                                                                 *)

InsertCall(k) ==
  /\ count < MaxNodes
  /\ Call(Writer, "insert", k)
  /\ UNCHANGED <<list, insert, pos, found>>

InsertFound ==
  /\ AtBottom(Writer, "insert")
  /\ prev' = [prev EXCEPT ![0] = x[Writer]]
  /\ Return(Writer, "grow")
  /\ UNCHANGED <<list, target, height, i, pos, found>>

\* Defect: max_height_ is not stored.
InsertGrowUnstored(h) ==
  /\ pc[Writer] = "grow"
  /\ height' = h
  /\ prev' = [l \in Levels |-> IF maxHeight <= l /\ l < h THEN head_ ELSE prev[l]]
  /\ count' = count + 1
  /\ key' = [key EXCEPT ![count + 1] = target[Writer]]
  /\ i' = 0
  /\ pc' = [pc EXCEPT ![Writer] = "set"]
  /\ UNCHANGED <<next, maxHeight, target, x, level, pos, found>>

\* RandomHeight returns h; max_height_ is stored before anything is linked.
InsertGrow(h) ==
  /\ pc[Writer] = "grow"
  /\ height' = h
  /\ prev' = [l \in Levels |-> IF maxHeight <= l /\ l < h THEN head_ ELSE prev[l]]
  /\ maxHeight' = IF h > maxHeight THEN h ELSE maxHeight
  /\ count' = count + 1
  /\ key' = [key EXCEPT ![count + 1] = target[Writer]]
  /\ i' = 0
  /\ pc' = [pc EXCEPT ![Writer] = "set"]
  /\ UNCHANGED <<next, target, x, level, pos, found>>

\* Defect: the node is published before its own pointer is stored.
InsertSetLate ==
  /\ pc[Writer] = "set"
  /\ pc' = [pc EXCEPT ![Writer] = "link"]
  /\ UNCHANGED <<list, target, x, level, insert, pos, found>>

\* x->SetNext(i, prev[i]->Next(i))
InsertSet ==
  /\ pc[Writer] = "set"
  /\ next' = [next EXCEPT ![count][i] = next[prev[i]][i]]
  /\ pc' = [pc EXCEPT ![Writer] = "link"]
  /\ UNCHANGED <<count, key, maxHeight, target, x, level, insert, pos, found>>

\* prev[i]->SetNext(i, x), and the end of Insert after the last level
InsertLink ==
  /\ pc[Writer] = "link"
  /\ next' = [next EXCEPT ![prev[i]][i] = count]
  /\ IF i + 1 < height
       THEN /\ i' = i + 1
            /\ pc' = [pc EXCEPT ![Writer] = "set"]
            /\ UNCHANGED <<prev, height>>
       ELSE /\ i' = 0 /\ height' = 0 /\ prev' = NoPrev
            /\ pc' = [pc EXCEPT ![Writer] = "idle"]
  /\ UNCHANGED <<count, key, maxHeight, target, x, level, pos, found>>

-----------------------------------------------------------------------------
WriterStep == \/ MoveRight(Writer) \/ MoveDown(Writer) \/ InsertFound
              \/ \E h \in 1..MaxHeight : InsertGrow(h)
              \/ InsertSet \/ InsertLink

ReaderStep(r) == \/ MoveRight(r) \/ MoveDown(r)
                 \/ SeekReturn(r) \/ ContainsReturn(r) \/ ReturnLast(r)

Calls == \/ \E k \in Keys : InsertCall(k)
         \/ \E r \in Readers :
               \/ \E k \in Keys : SeekCall(r, k) \/ ContainsCall(r, k)
               \/ PrevCall(r) \/ SeekToLastCall(r) \/ SeekToFirst(r) \/ Advance(r)

Next == Calls \/ WriterStep \/ \E r \in Readers : ReaderStep(r)

Spec == Init /\ [][Next]_vars

\* A thread that is inside a call keeps running; nobody has to make a call.
Fairness == WF_vars(WriterStep) /\ \A r \in Readers : WF_vars(ReaderStep(r))

FairSpec == Spec /\ Fairness

-----------------------------------------------------------------------------
(* Properties.                                                             *)

\* The members of level l: the nodes whose slot there is set and stored in
\* their predecessor.
InLevel(l) == {n \in 1..count :
                 next[n][l] # Wild /\ ~(pc[Writer] = "link" /\ n = count /\ l = i)}

\* The order of the list: by key, and the later allocated of two equals first.
Before(a, b) == a = head_ \/ key[a] < key[b] \/ (key[a] = key[b] /\ a > b)

\* Types.
TypeOK ==
  /\ count \in 0..MaxNodes
  /\ key \in [Nodes -> Keys \cup {Wild}]
  /\ next \in [{head_} \cup Nodes -> [Levels -> Nodes \cup {NULL, Wild}]]
  /\ maxHeight \in 1..MaxHeight
  /\ pc \in [Procs -> Searching \cup {"idle", "grow", "set", "link"}]
  /\ pc[Writer] \in {"idle", "insert", "grow", "set", "link"}
  /\ \A r \in Readers : pc[r] \in {"idle", "seek", "contains", "prev", "last"}
  /\ target \in [Procs -> Keys \cup {NULL}]
  /\ x \in [Procs -> {head_} \cup Nodes]
  /\ level \in [Procs -> Levels]
  /\ prev \in [Levels -> {head_, Wild} \cup Nodes]
  /\ height \in 0..MaxHeight
  /\ i \in Levels
  /\ pos \in [Readers -> Nodes \cup {NULL}]
  /\ found \in [Readers -> BOOLEAN]

\* At every instant each level is the complete ordered list of its members:
\* the slot of a member leads to the next member and skips none.
LevelsOrdered ==
  \A l \in Levels : \A a \in {head_} \cup InLevel(l) :
    LET b == next[a][l] IN
      /\ b \in InLevel(l) \cup {NULL}
      /\ b # NULL => Before(a, b)
      /\ \A c \in InLevel(l) : Before(a, c) => b # NULL /\ (c = b \/ Before(b, c))

\* A node in a level is in every level below, so that a search can always go
\* down where it stands, and no level at or above max_height_ has a member.
LevelsNested ==
  \A l \in Levels :
    /\ l > 0 => InLevel(l) \subseteq InLevel(l - 1)
    /\ l >= maxHeight => InLevel(l) = {}

\* No search, however it overlaps with Insert, is about to load a slot that
\* was never stored or lies past the height of its node.
NoWildLoad ==
  /\ \A p \in Procs : pc[p] \in Searching => Loaded(p) # Wild
  /\ \A r \in Readers : pos[r] # NULL => next[pos[r]][0] # Wild

\* The list implements ConcurrentBag, however the calls overlap.  An item
\* joins when its lowest level is linked, and its Insert has then taken effect;
\* a read takes effect at its last load.
joined == IF pc[Writer] \in {"set", "link"} /\ i = 0 THEN count - 1 ELSE count

pending == [p \in Procs |->
  IF pc[p] = "grow" \/ (pc[p] \in {"set", "link"} /\ i = 0) THEN "insert"
  ELSE IF pc[p] \in {"set", "link"} THEN "idle" ELSE pc[p]]

Bag == INSTANCE ConcurrentBag WITH
         bag <- [n \in 1..joined |-> key[n]], op <- pending, arg <- target,
         Requests <- Searching, Idle <- "idle"

ImplementsConcurrentBag == Bag!CallSpec

\* Every call returns.
CallsReturn == \A p \in Procs : pc[p] # "idle" ~> pc[p] = "idle"

-----------------------------------------------------------------------------
(* The inductive invariant behind them.                                    *)

\* Slots are stored bottom up, and only in nodes that were allocated.
MemoryOK ==
  /\ \A n \in Nodes : n <= count => key[n] \in Keys
  /\ \A n \in Nodes : n > count => \A l \in Levels : next[n][l] = Wild
  /\ \A l \in Levels : next[head_][l] # Wild
  /\ InLevel(0) = 1..joined

\* A search stands on a member of its level, left of what it looks for.
SearchOK ==
  /\ \A p \in Procs : pc[p] \in Searching =>
       /\ level[p] < maxHeight
       /\ x[p] \in {head_} \cup InLevel(level[p])
       /\ pc[p] # "last" =>
            target[p] \in Keys /\ (x[p] # head_ => key[x[p]] < target[p])
  /\ \A r \in Readers :
       /\ pos[r] \in InLevel(0) \cup {NULL}
       /\ pc[r] = "prev" => pos[r] # NULL /\ target[r] = key[pos[r]]

\* prev[l] is the place of the new key in level l.
PrevOK(l) ==
  /\ prev[l] \in {head_} \cup InLevel(l)
  /\ prev[l] # head_ => key[prev[l]] < target[Writer]
  /\ next[prev[l]][l] # NULL => key[next[prev[l]][l]] >= target[Writer]

WriterOK ==
  /\ pc[Writer] \in {"insert", "grow"} => count < MaxNodes
  /\ pc[Writer] = "insert" =>
       \A l \in Levels : level[Writer] < l /\ l < maxHeight => PrevOK(l)
  /\ pc[Writer] = "grow" =>
       target[Writer] \in Keys /\ \A l \in Levels : l < maxHeight => PrevOK(l)
  /\ pc[Writer] \in {"set", "link"} =>
       /\ count >= 1 /\ key[count] = target[Writer]
       /\ i < height /\ height <= maxHeight
       /\ \A l \in Levels : i <= l /\ l < height => PrevOK(l)
       /\ \A l \in Levels : l < i => next[count][l] # Wild
       /\ \A l \in Levels : l > i => next[count][l] = Wild
       /\ next[count][i] = IF pc[Writer] = "set" THEN Wild ELSE next[prev[i]][i]

Inv == TypeOK /\ MemoryOK /\ LevelsOrdered /\ LevelsNested /\ SearchOK /\ WriterOK
=============================================================================
