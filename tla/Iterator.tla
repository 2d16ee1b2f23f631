------------------------------ MODULE Iterator ------------------------------
(***************************************************************************)
(* table/iterator.cpp: the list of cleanup functions of an Iterator.  The  *)
(* first one is kept in the iterator itself, in cleanup_, the others in    *)
(* Cleanups made by new, numbered in the order in which they are made; the *)
(* destructor frees them one by one.                                       *)
(***************************************************************************)
EXTENDS Integers, Sequences

CONSTANTS
  Functions,     \* the functions of CleanupFunction type, with their arguments
  MaxCleanups,   \* bound: the calls of RegisterCleanup
  NULL

ASSUME ConstantsAssumption ==
  NULL \notin Functions /\ NULL \notin Nat /\ MaxCleanups \in Nat

VARIABLES
  cleanup_,      \* the Cleanup in the iterator
  node,          \* the Cleanups made by new; Freed when deleted
  pc,            \* "live", a step of ~Iterator, "gone"
  c,             \* the local of ~Iterator
  registered,    \* history: what was given to RegisterCleanup
  ran            \* history: what was called

vars == <<cleanup_, node, pc, c, registered, ran>>

\* What a freed Cleanup holds is anybody's.
Wild == -1

Freed == [function |-> NULL, next |-> Wild]

Cleanup == [function : Functions, next : Nat \cup {NULL}]

-----------------------------------------------------------------------------
\* Iterator::Iterator
Init ==
  /\ cleanup_ = [function |-> NULL, next |-> NULL]
  /\ node = << >> /\ pc = "live" /\ c = NULL
  /\ registered = << >> /\ ran = << >>

\* Defect: a new Cleanup does not lead to the older ones.
LinkedAlone(f) == [function |-> f, next |-> NULL]

\* Defect: cleanup_.next is set before c->next is read from it.
LinkedToItself(f) == [function |-> f, next |-> Len(node) + 1]

\* The new Cleanup, linked in behind cleanup_.
Linked(f) == [function |-> f, next |-> cleanup_.next]

RegisterCleanup(f) ==
  /\ pc = "live" /\ Len(registered) < MaxCleanups
  /\ IF cleanup_.function = NULL
       THEN cleanup_' = [cleanup_ EXCEPT !.function = f] /\ UNCHANGED node
       ELSE /\ node' = Append(node, Linked(f))
            /\ cleanup_' = [cleanup_ EXCEPT !.next = Len(node')]
  /\ registered' = Append(registered, f)
  /\ UNCHANGED <<pc, c, ran>>

\* ~Iterator, up to its loop.
Destroy ==
  /\ pc = "live"
  /\ IF cleanup_.function = NULL
       THEN pc' = "gone" /\ UNCHANGED <<c, ran>>
       ELSE /\ ran' = Append(ran, cleanup_.function)
            /\ c' = cleanup_.next /\ pc' = "call"
  /\ UNCHANGED <<cleanup_, node, registered>>

\* The condition of the loop, and the call in it.
CallFunction ==
  /\ pc = "call"
  /\ IF c = NULL THEN pc' = "gone" /\ UNCHANGED ran
                 ELSE pc' = "delete" /\ ran' = Append(ran, node[c].function)
  /\ UNCHANGED <<cleanup_, node, c, registered>>

\* Defect: c->next is read when c has been deleted.
NextOfFreed == node'[c].next

\* Cleanup* next = c->next
NextOf == node[c].next

DeleteCleanup ==
  /\ pc = "delete"
  /\ node' = [node EXCEPT ![c] = Freed]
  /\ c' = NextOf /\ pc' = "call"
  /\ UNCHANGED <<cleanup_, registered, ran>>

Next ==
  \/ \E f \in Functions : RegisterCleanup(f)
  \/ Destroy \/ CallFunction \/ DeleteCleanup

Spec == Init /\ [][Next]_vars

-----------------------------------------------------------------------------
\* Types.  The destructor never follows a pointer out of a freed Cleanup.
TypeOK ==
  /\ cleanup_.function \in Functions \cup {NULL}
  /\ cleanup_.next \in DOMAIN node \cup {NULL}
  /\ node \in Seq(Cleanup \cup {Freed})
  /\ pc \in {"live", "call", "delete", "gone"}
  /\ c \in DOMAIN node \cup {NULL}
  /\ pc = "delete" => c # NULL /\ node[c] # Freed

\* The order in which the functions run: the first one first, then from the
\* last back to the second.
InOrder(n) == IF n = 1 THEN registered[1] ELSE registered[Len(registered) + 2 - n]

\* No function runs before its turn, twice, or when it was not registered.
RunsInOrder ==
  /\ Len(ran) <= Len(registered)
  /\ \A n \in DOMAIN ran : ran[n] = InOrder(n)

\* When the iterator is gone every function has run and every Cleanup is freed.
NothingLeft ==
  pc = "gone" => /\ Len(ran) = Len(registered)
                 /\ \A n \in DOMAIN node : node[n] = Freed
=============================================================================
