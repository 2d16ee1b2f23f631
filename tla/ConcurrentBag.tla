--------------------------- MODULE ConcurrentBag ----------------------------
(***************************************************************************)
(* The OrderedBag under overlapping calls.  A call is pending from the     *)
(* step that makes it until the one instant at which it takes effect, with *)
(* the argument it was given; at that instant it is one operation of the   *)
(* bag.  SeekToFirst and Next are a single load and are never pending.     *)
(***************************************************************************)
EXTENDS OrderedBag

CONSTANTS Writer, Requests, Idle

VARIABLES
  op,      \* op[p]: the call of p that has not taken effect, or Idle
  arg      \* arg[p]: the key it was given

callVars == <<bagVars, op, arg>>

Callers == Readers \cup {Writer}

CallInit == /\ Init
            /\ op = [p \in Callers |-> Idle]
            /\ arg = [p \in Callers |-> NULL]

Request(p, o, k) == /\ op[p] = Idle
                    /\ op' = [op EXCEPT ![p] = o]
                    /\ arg' = [arg EXCEPT ![p] = k]
                    /\ UNCHANGED bagVars

Effect(p, o) == /\ op[p] = o
                /\ op' = [op EXCEPT ![p] = Idle]
                /\ UNCHANGED arg

InsertNow == Effect(Writer, "insert") /\ Insert(arg[Writer])

ReadNow(r) == \/ Effect(r, "seek") /\ Seek(r, arg[r])
              \/ Effect(r, "contains") /\ Contains(r, arg[r])
              \/ Effect(r, "prev") /\ Retreat(r)
              \/ Effect(r, "last") /\ SeekToLast(r)
              \/ op[r] = Idle /\ (SeekToFirst(r) \/ Advance(r)) /\ UNCHANGED <<op, arg>>

CallNext == \/ \E p \in Callers, o \in Requests, k \in Keys \cup {NULL} : Request(p, o, k)
            \/ InsertNow
            \/ \E r \in Readers : ReadNow(r)

CallSpec == CallInit /\ [][CallNext]_callVars
=============================================================================
