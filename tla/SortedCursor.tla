---------------------------- MODULE SortedCursor ----------------------------
(***************************************************************************)
(* What a block promises to the caller of its iterator: a set of entries   *)
(* in the order of their keys, and a cursor that shows one of them or      *)
(* nothing.  A call that takes several steps is pending in between, with   *)
(* its argument.  Once the stored bytes are damaged a call may lose its    *)
(* place, but then the cursor shows nothing and its status says so.  A     *)
(* Next of a cursor that shows nothing has strayed; the next seek of any   *)
(* kind sets that right, and until then a Prev does not return.            *)
(***************************************************************************)
EXTENDS Integers

CONSTANTS Keys, Values, NULL, OK, Corruption

VARIABLES
  entries,   \* the entries [key, value] of the block
  shown,     \* the entry key() and value() return, or NULL when not Valid()
  status,    \* status()
  damaged,   \* whether the stored block has been altered
  strayed,   \* whether Next was called where nothing was shown, and no seek since
  op,        \* the call that is pending, or "idle"
  arg        \* the key it seeks, or, for Prev, the key it starts from

vars == <<entries, shown, status, damaged, strayed, op, arg>>

IsLeast(e, S) == IF S = {} THEN e = NULL
                 ELSE e \in S /\ \A f \in S : e.key <= f.key

IsGreatest(e, S) == IF S = {} THEN e = NULL
                    ELSE e \in S /\ \A f \in S : f.key <= e.key

Init == /\ entries = {} /\ shown = NULL /\ status = OK /\ damaged = FALSE
        /\ strayed = FALSE /\ op = "idle" /\ arg = NULL

Add(k, v) == /\ \A e \in entries : e.key < k
             /\ entries' = entries \cup {[key |-> k, value |-> v]}
             /\ UNCHANGED <<shown, status, damaged, strayed, op, arg>>

Damage == damaged' = TRUE /\ UNCHANGED <<entries, shown, status, strayed, op, arg>>

Clear == /\ entries' = {} /\ shown' = NULL /\ status' = OK /\ damaged' = FALSE
         /\ strayed' = FALSE /\ UNCHANGED <<op, arg>>

Call(o, k) == /\ op = "idle" /\ op' = o /\ arg' = k /\ shown' = NULL
              /\ strayed' = (strayed /\ o = "prev")
              /\ UNCHANGED <<entries, status, damaged>>

\* The pending call o, or a call of one step ("idle"), shows e.
Show(o, e) == /\ op = o /\ op' = "idle" /\ arg' = NULL /\ shown' = e
              /\ UNCHANGED <<entries, status, damaged>>

First == /\ strayed' = FALSE
         /\ \E e \in entries \cup {NULL} : IsLeast(e, entries) /\ Show("idle", e)

Forward == /\ shown # NULL /\ UNCHANGED strayed
           /\ \E e \in entries \cup {NULL} :
                IsLeast(e, {f \in entries : f.key > shown.key}) /\ Show("idle", e)

\* Next of a cursor that shows nothing.
Stray == /\ op = "idle" /\ shown = NULL
         /\ shown' \in entries \cup {NULL} /\ status' \in {status, Corruption}
         /\ strayed' = TRUE
         /\ UNCHANGED <<entries, damaged, op, arg>>

Last == /\ op = "last" /\ UNCHANGED strayed
        /\ \E e \in entries \cup {NULL} : IsGreatest(e, entries) /\ Show("last", e)

Seek == /\ op = "seek" /\ UNCHANGED strayed
        /\ \E e \in entries \cup {NULL} :
             IsLeast(e, {f \in entries : f.key >= arg}) /\ Show("seek", e)

Back == /\ op = "prev" /\ ~strayed /\ UNCHANGED strayed
        /\ \E e \in entries \cup {NULL} :
             IsGreatest(e, {f \in entries : f.key < arg}) /\ Show("prev", e)

Lose == /\ damaged
        /\ shown' = NULL /\ status' = Corruption /\ op' = "idle" /\ arg' = NULL
        /\ op = "idle" \/ ~strayed
        /\ strayed' \in {strayed, FALSE}
        /\ UNCHANGED <<entries, damaged>>

Next == \/ \E k \in Keys, v \in Values : Add(k, v)
        \/ \E k \in Keys : Call("seek", k)
        \/ Call("last", NULL)
        \/ shown # NULL /\ Call("prev", shown.key)
        \/ Damage \/ Clear
        \/ First \/ Forward \/ Stray \/ Last \/ Seek \/ Back \/ Lose

Spec == Init /\ [][Next]_vars
=============================================================================
