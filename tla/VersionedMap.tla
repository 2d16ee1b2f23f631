---------------------------- MODULE VersionedMap ----------------------------
(***************************************************************************)
(* What a memtable promises: a map that keeps every version of a key, and  *)
(* a Get that answers with the newest version a sequence number can see.   *)
(* What was asked and the answer to it are fixed at one instant (Look); the *)
(* answer is handed out later (Reply).                                     *)
(***************************************************************************)
EXTENDS Integers

CONSTANTS
  UserKeys,
  Values,
  Snapshots,   \* the sequence numbers
  Getters,     \* the callers of Get
  Deleted,     \* the answer of a deletion: Status::NotFound
  Absent,      \* the answer when there is no visible version: Get returns false
  NULL

VARIABLES
  versions,    \* the versions that were ever added
  promised,    \* promised[g]: what the Get of g asks and the answer it will
               \* have, NULL outside it
  answer       \* answer[g]: the last answer g got, NULL before the first

mapVars == <<versions, promised, answer>>

Version == [key : UserKeys, seq : Snapshots, value : Values \cup {Deleted}]

Visible(k, s) == {v \in versions : v.key = k /\ v.seq <= s}

\* Of two versions with one key and one number either may be the newest.
Newest(k, s) == {v \in Visible(k, s) : \A w \in Visible(k, s) : w.seq <= v.seq}

Answers(k, s) == IF Visible(k, s) = {} THEN {Absent}
                 ELSE {v.value : v \in Newest(k, s)}

Init == /\ versions = {}
        /\ promised = [g \in Getters |-> NULL]
        /\ answer = [g \in Getters |-> NULL]

Write(v) == versions' = versions \cup {v} /\ UNCHANGED <<promised, answer>>

Look(g, k, s) ==
  /\ promised[g] = NULL
  /\ \E a \in Answers(k, s) :
        promised' = [promised EXCEPT ![g] = [key |-> k, seq |-> s, value |-> a]]
  /\ UNCHANGED <<versions, answer>>

Reply(g) ==
  /\ promised[g] # NULL
  /\ answer' = [answer EXCEPT ![g] = promised[g].value]
  /\ promised' = [promised EXCEPT ![g] = NULL]
  /\ UNCHANGED versions

Next == \/ \E v \in Version : Write(v)
        \/ \E g \in Getters : Reply(g) \/ \E k \in UserKeys, s \in Snapshots : Look(g, k, s)

Spec == Init /\ [][Next]_mapVars
=============================================================================
