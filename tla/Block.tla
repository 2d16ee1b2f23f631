------------------------------- MODULE Block --------------------------------
(***************************************************************************)
(* table/block_builder.cpp and table/block.cpp: a block is built, finished *)
(* and read back through Block::Iter, then the builder is Reset.           *)
(*                                                                         *)
(* An entry is at least three bytes long, so offsets are in the order of   *)
(* the entries: the offset of an entry is written here as the number of    *)
(* entries before it, and the offset of the restart array as their number. *)
(* Keys are numbered in the order of the comparator; Bytes gives the bytes *)
(* the builder compresses, whose order may be another.                     *)
(***************************************************************************)
EXTENDS Integers, Sequences

CONSTANTS
  Keys,          \* the keys, numbered in the order of comparator_
  Bytes,         \* Bytes[k]: the bytes of the key k
  Values,
  Intervals,     \* the values of options_->block_restart_interval
  MaxEntries,    \* bound: the entries of a block
  OK, Corruption, NULL

ASSUME ConstantsAssumption ==
  /\ Keys \subseteq Int
  /\ Bytes \in [Keys -> Seq(Nat)]
  /\ \A j, k \in Keys : Bytes[j] = Bytes[k] => j = k
  /\ Intervals \subseteq Nat \ {0}
  /\ MaxEntries \in Nat
  /\ NULL \notin Values /\ NULL \notin Keys /\ NULL \notin Int
  /\ NULL \notin [key : Keys, value : Values]
  /\ NULL \notin [shared : Nat, delta : Seq(Nat), value : Values]
  /\ OK # Corruption

VARIABLES
  \* BlockBuilder
  buffer_,       \* the entries [shared, delta, value]
  restarts_,
  counter_,
  finished_,
  last_key_,
  interval,      \* options_->block_restart_interval, which may change
  added,         \* history: what was given to Add since the last Reset
  bad,           \* the offsets where DecodeEntry fails: the stored block was altered
  \* Block::Iter: current_, restart_index_, key_, value_, status_ and end,
  \* the NextEntryOffset() that value_ stands for
  it,
  \* the call in progress and its locals
  pc, original, target, left, right,
  strayed        \* history: Next was called while not Valid(), and no Seek since

builder == <<buffer_, restarts_, counter_, finished_, last_key_, interval, added>>
locals == <<original, target, left, right>>
call == <<locals, strayed>>
vars == <<builder, bad, it, pc, call>>

-----------------------------------------------------------------------------
(* BlockBuilder.                                                           *)

\* The length of the longest common prefix.
Shared(a, b) ==
  LET Prefixes == {n \in 0..Len(a) : n <= Len(b) /\ \A m \in 1..n : a[m] = b[m]}
  IN CHOOSE n \in Prefixes : \A m \in Prefixes : m <= n

Fresh == [current_ |-> 0, restart_index_ |-> 0, key_ |-> << >>, value_ |-> NULL,
          end |-> NULL, status_ |-> OK]

Init ==
  /\ buffer_ = << >> /\ restarts_ = <<0>> /\ counter_ = 0 /\ finished_ = FALSE
  /\ last_key_ = << >> /\ added = << >> /\ interval \in Intervals
  /\ bad = {} /\ it = Fresh
  /\ pc = "none" /\ original = 0 /\ target = NULL /\ left = 0 /\ right = 0
  /\ strayed = FALSE

\* The keys come in increasing order (table_builder.cpp:86).
Add(k, v) ==
  /\ ~finished_ /\ Len(buffer_) < MaxEntries
  /\ \A n \in 1..Len(added) : added[n].key < k
  /\ LET compress == counter_ < interval
         shared == IF compress THEN Shared(last_key_, Bytes[k]) ELSE 0
         delta == SubSeq(Bytes[k], shared + 1, Len(Bytes[k]))
     IN /\ restarts_' = IF compress THEN restarts_ ELSE Append(restarts_, Len(buffer_))
        /\ counter_' = IF compress THEN counter_ + 1 ELSE 1
        /\ buffer_' = Append(buffer_, [shared |-> shared, delta |-> delta, value |-> v])
        /\ last_key_' = SubSeq(last_key_, 1, shared) \o delta
  /\ added' = Append(added, [key |-> k, value |-> v])
  /\ UNCHANGED <<finished_, interval, bad, it, pc, call>>

\* TableBuilder::ChangeOptions, in the middle of a block.
ChangeOptions(n) ==
  /\ ~finished_
  /\ interval' = n
  /\ UNCHANGED <<buffer_, restarts_, counter_, finished_, last_key_, added, bad, it, pc, call>>

Finish ==
  /\ ~finished_
  /\ finished_' = TRUE
  /\ UNCHANGED <<buffer_, restarts_, counter_, last_key_, interval, added, bad, it, pc, call>>

\* Defect: the last key of the block outlives it.
AfterResetKept == last_key_

\* last_key_.clear()
AfterReset == << >>

\* The block has been read and its iterator deleted.
Reset ==
  /\ finished_ /\ pc \in {"none", "idle"}
  /\ buffer_' = << >> /\ restarts_' = <<0>> /\ counter_' = 0
  /\ finished_' = FALSE /\ last_key_' = AfterReset
  /\ added' = << >> /\ bad' = {} /\ it' = Fresh /\ pc' = "none"
  /\ original' = 0 /\ target' = NULL /\ left' = 0 /\ right' = 0 /\ strayed' = FALSE
  /\ UNCHANGED interval

\* The bytes of an entry are altered on the way to the file and back.
Damage(o) ==
  /\ finished_ /\ pc = "none"
  /\ bad' = bad \cup {o}
  /\ UNCHANGED <<builder, it, pc, call>>

-----------------------------------------------------------------------------
(* Block::Iter.                                                            *)

num_restarts_ == Len(restarts_)
Limit == Len(buffer_)    \* the offset Iter::restarts_

Valid == it.current_ < Limit

GetRestartPoint(i) == restarts_[i + 1]

DecodeEntry(o) == IF o \in bad THEN NULL ELSE buffer_[o + 1]

\* Compare(b, t) < 0 for the bytes of a key.
IsBefore(b, t) == \E k \in Keys : Bytes[k] = b /\ k < t

\* Defect: restart_index_ is left behind.
AtRestartKeepingIndex(i) ==
  [it EXCEPT !.key_ = << >>, !.value_ = NULL, !.end = GetRestartPoint(i)]

\* SeekToRestartPoint
AtRestart(i) ==
  [it EXCEPT !.key_ = << >>, !.restart_index_ = i,
             !.value_ = NULL, !.end = GetRestartPoint(i)]

PastEnd == [it EXCEPT !.current_ = Limit, !.restart_index_ = num_restarts_]

\* CorruptionError
Corrupt == [PastEnd EXCEPT !.status_ = Corruption, !.key_ = << >>,
                           !.value_ = NULL, !.end = NULL]

\* The index at which the loop block.cpp:225-228 stops for an entry at offset o.
RestartIndex(i, o) ==
  CHOOSE r \in i..num_restarts_ :
    /\ \A q \in (i + 1)..r : q < num_restarts_ /\ GetRestartPoint(q) < o
    /\ r + 1 < num_restarts_ => GetRestartPoint(r + 1) >= o

\* ParseNextKey in the iterator j.
ParseNextKey(j) ==
  LET o == j.end
      e == DecodeEntry(o)
  IN IF o >= Limit
       THEN [j EXCEPT !.current_ = Limit, !.restart_index_ = num_restarts_]
     ELSE IF e = NULL \/ Len(j.key_) < e.shared
       THEN Corrupt
     ELSE [j EXCEPT !.current_ = o,
                    !.key_ = SubSeq(j.key_, 1, e.shared) \o e.delta,
                    !.value_ = e.value,
                    !.end = o + 1,
                    !.restart_index_ = RestartIndex(@, o)]

\* ParseNextKey returned true.
Parsed == it'.current_ < Limit

Return ==
  /\ pc' = "idle" /\ original' = 0 /\ target' = NULL /\ left' = 0 /\ right' = 0
  /\ UNCHANGED strayed

NewIterator ==
  /\ finished_ /\ pc = "none"
  /\ it' = [Fresh EXCEPT !.current_ = Limit, !.restart_index_ = num_restarts_]
  /\ pc' = "idle"
  /\ UNCHANGED <<builder, bad, call>>

SeekToFirst ==
  /\ pc = "idle"
  /\ it' = ParseNextKey(AtRestart(0))
  /\ strayed' = FALSE
  /\ UNCHANGED <<builder, bad, pc, locals>>

\* What Next may leave.  A value_ that is Slice(), of a new iterator or after
\* CorruptionError, does not lie in the block: its distance to data_ is some
\* number, behind the entries, at one of them, or within one, which is taken to
\* be found bad.
AfterNext ==
  IF it.end = NULL
    THEN {PastEnd} \cup
         UNION {{Corrupt, ParseNextKey([it EXCEPT !.end = o])} : o \in 0..Limit - 1}
    ELSE {ParseNextKey(it)}

\* Next does not ask for Valid().
IterNext ==
  /\ pc = "idle"
  /\ it' \in AfterNext
  /\ strayed' = (strayed \/ ~Valid)
  /\ UNCHANGED <<builder, bad, pc, locals>>

SeekToLast ==
  /\ pc = "idle"
  /\ it' = AtRestart(num_restarts_ - 1)
  /\ pc' = "last" /\ strayed' = FALSE
  /\ UNCHANGED <<builder, bad, locals>>

SeekToLastParse ==
  /\ pc = "last"
  /\ it' = ParseNextKey(it)
  /\ IF Parsed /\ it'.end < Limit THEN UNCHANGED <<pc, call>> ELSE Return
  /\ UNCHANGED <<builder, bad>>

Prev ==
  /\ pc = "idle" /\ Valid
  /\ original' = it.current_ /\ pc' = "back"
  /\ UNCHANGED <<builder, bad, it, target, left, right, strayed>>

\* Defect: the first restart point is not tested for.
NoMoreEntriesEver == FALSE

NoMoreEntries == it.restart_index_ = 0

\* One turn of the loop block.cpp:121-130, or SeekToRestartPoint behind it.
PrevBack ==
  /\ pc = "back" /\ it.restart_index_ < num_restarts_
  /\ IF GetRestartPoint(it.restart_index_) >= it.current_
       THEN IF NoMoreEntries
              THEN it' = PastEnd /\ Return
              ELSE it' = [it EXCEPT !.restart_index_ = @ - 1] /\ UNCHANGED <<pc, call>>
       ELSE it' = AtRestart(it.restart_index_) /\ pc' = "scan" /\ UNCHANGED call
  /\ UNCHANGED <<builder, bad>>

\* The assertion of GetRestartPoint fails and ends the program.
PrevAborts ==
  /\ pc = "back" /\ it.restart_index_ >= num_restarts_
  /\ pc' = "aborted"
  /\ UNCHANGED <<builder, bad, it, call>>

Aborted == pc = "aborted" /\ UNCHANGED vars

PrevScan ==
  /\ pc = "scan"
  /\ it' = ParseNextKey(it)
  /\ IF Parsed /\ it'.end < original THEN UNCHANGED <<pc, call>> ELSE Return
  /\ UNCHANGED <<builder, bad>>

Seek(t) ==
  /\ pc = "idle"
  /\ target' = t /\ left' = 0 /\ right' = num_restarts_ - 1 /\ pc' = "search"
  /\ strayed' = FALSE
  /\ UNCHANGED <<builder, bad, it, original>>

\* Defect: the middle is rounded down.
MiddleDown(l, r) == (l + r) \div 2

Middle(l, r) == (l + r + 1) \div 2

\* One turn of the binary search, or SeekToRestartPoint behind it.
SeekSearch ==
  /\ pc = "search"
  /\ LET mid == Middle(left, right)
         e == DecodeEntry(GetRestartPoint(mid))
     IN IF left >= right
          THEN it' = AtRestart(left) /\ pc' = "linear" /\ UNCHANGED call
        ELSE IF e = NULL \/ e.shared # 0
          THEN it' = Corrupt /\ Return
        ELSE /\ IF IsBefore(e.delta, target)
                  THEN left' = mid /\ UNCHANGED right
                  ELSE right' = mid - 1 /\ UNCHANGED left
             /\ UNCHANGED <<it, pc, original, target, strayed>>
  /\ UNCHANGED <<builder, bad>>

SeekLinear ==
  /\ pc = "linear"
  /\ it' = ParseNextKey(it)
  /\ IF Parsed /\ IsBefore(it'.key_, target) THEN UNCHANGED <<pc, call>> ELSE Return
  /\ UNCHANGED <<builder, bad>>

-----------------------------------------------------------------------------
Next ==
  \/ \E k \in Keys, v \in Values : Add(k, v)
  \/ \E n \in Intervals : ChangeOptions(n)
  \/ \E o \in 0..Len(buffer_) - 1 : Damage(o)
  \/ Finish \/ Reset \/ NewIterator
  \/ SeekToFirst \/ IterNext \/ SeekToLast \/ SeekToLastParse
  \/ Prev \/ PrevBack \/ PrevAborts \/ Aborted \/ PrevScan
  \/ \E t \in Keys : Seek(t)
  \/ SeekSearch \/ SeekLinear

Spec == Init /\ [][Next]_vars

FairSpec == Spec /\ WF_vars(SeekToLastParse \/ PrevBack \/ PrevScan \/ SeekSearch \/ SeekLinear)

-----------------------------------------------------------------------------
Entry == [shared : Nat, delta : Seq(Nat), value : Values]

Iter == [current_ : 0..Limit, restart_index_ : 0..num_restarts_, key_ : Seq(Nat),
         value_ : Values \cup {NULL}, end : 0..Limit \cup {NULL},
         status_ : {OK, Corruption}]

\* The types of the builder, the iterator and the locals of its calls.
TypeOK ==
  /\ buffer_ \in Seq(Entry) /\ Len(buffer_) <= MaxEntries
  /\ restarts_ \in Seq(0..MaxEntries)
  /\ counter_ \in Nat /\ finished_ \in BOOLEAN
  /\ last_key_ \in Seq(Nat) /\ interval \in Intervals
  /\ added \in Seq([key : Keys, value : Values])
  /\ bad \subseteq 0..Len(buffer_) - 1
  /\ it \in Iter
  /\ pc \in {"none", "idle", "last", "back", "aborted", "scan", "search", "linear"}
  /\ original \in 0..Limit /\ target \in Keys \cup {NULL}
  /\ left \in 0..num_restarts_ /\ right \in 0..num_restarts_
  /\ strayed \in BOOLEAN

\* The two positions the iterator keeps of itself agree after every sequence of
\* calls, unless Next was called while not Valid() and no Seek since: the restart
\* index is that of the restart block the entry lies in, or it is behind the last
\* one as the offset is.  Just then the assertion of GetRestartPoint
\* (block.cpp:86) holds wherever Prev reaches it.
PositionsAgree ==
  /\ pc = "idle" /\ ~strayed =>
       IF Valid
         THEN /\ it.restart_index_ < num_restarts_
              /\ GetRestartPoint(it.restart_index_) <= it.current_
              /\ it.restart_index_ + 1 < num_restarts_ =>
                    GetRestartPoint(it.restart_index_ + 1) >= it.current_
         ELSE it.restart_index_ = num_restarts_
  /\ pc = "back" => (it.restart_index_ < num_restarts_ <=> ~strayed)

-----------------------------------------------------------------------------
(* The inductive invariant.                                                *)

\* The bytes of the n-th key.
KeyOf(n) == IF n = 0 THEN << >> ELSE Bytes[added[n].key]

\* Each entry completes a part of the key before it to its own key.
EntriesOK ==
  /\ Len(buffer_) = Len(added)
  /\ \A m, n \in 1..Len(added) : m < n => added[m].key < added[n].key
  /\ \A n \in 1..Len(added) :
        /\ buffer_[n].value = added[n].value
        /\ buffer_[n].shared <= Len(KeyOf(n - 1))
        /\ SubSeq(KeyOf(n - 1), 1, buffer_[n].shared) \o buffer_[n].delta = KeyOf(n)
  /\ last_key_ = KeyOf(Len(added))

\* The restart points ascend, and the entries at them share nothing.
RestartsOK ==
  /\ num_restarts_ >= 1 /\ restarts_[1] = 0
  /\ \A i, j \in 1..num_restarts_ : i < j => restarts_[i] < restarts_[j]
  /\ \A i \in 1..num_restarts_ : i > 1 => restarts_[i] < Limit
  /\ \A i \in 1..num_restarts_ : restarts_[i] < Limit => buffer_[restarts_[i] + 1].shared = 0
  /\ counter_ <= Len(buffer_)

\* The iterator j shows nothing; what it showed last is still in key_.
Off(j) ==
  /\ j.current_ = Limit /\ j.restart_index_ = num_restarts_
  /\ j.key_ = IF j.end = NULL THEN << >> ELSE KeyOf(j.end)

\* SeekToRestartPoint has been called.
AtStart(j) ==
  /\ j.restart_index_ < num_restarts_
  /\ j.key_ = << >> /\ j.end = GetRestartPoint(j.restart_index_)

\* restart_index_ is that of a block of entries that the one at current_ is in,
\* or that it follows.
OnEntry(j) ==
  /\ j.current_ < Limit /\ j.end = j.current_ + 1
  /\ j.key_ = KeyOf(j.end) /\ j.value_ = added[j.end].value
  /\ j.restart_index_ < num_restarts_ /\ GetRestartPoint(j.restart_index_) <= j.current_
  /\ j.restart_index_ + 1 < num_restarts_ =>
        GetRestartPoint(j.restart_index_ + 1) >= j.current_

\* Next has brought the iterator back from where it was Off.
Revived(j) ==
  /\ j.current_ < Limit /\ j.end = j.current_ + 1
  /\ j.key_ = KeyOf(j.end) /\ j.value_ = added[j.end].value
  /\ j.restart_index_ = num_restarts_

\* Where the iterator stands in each call.
IterOK ==
  /\ pc = "none" => it = Fresh
  /\ pc = "idle" => Off(it) \/ IF strayed THEN Revived(it) ELSE OnEntry(it)
  /\ pc = "last" => AtStart(it) \/ (OnEntry(it) /\ it.end < Limit)
  /\ pc \in {"back", "aborted"} =>
        /\ it.current_ = original /\ original < Limit
        /\ it.end = original + 1 /\ it.key_ = KeyOf(it.end)
        /\ IF strayed THEN it.restart_index_ = num_restarts_
           ELSE /\ it.restart_index_ < num_restarts_
                /\ it.restart_index_ + 1 < num_restarts_ =>
                      GetRestartPoint(it.restart_index_ + 1) >= original
  /\ pc = "scan" => (AtStart(it) \/ OnEntry(it)) /\ it.end < original /\ original < Limit
  /\ pc = "linear" => /\ AtStart(it) \/ OnEntry(it)
                      /\ \A n \in 1..it.end : added[n].key < target

CallOK ==
  /\ ~finished_ => pc = "none" /\ bad = {}
  /\ strayed => pc \in {"idle", "back", "aborted"}
  /\ IF pc \in {"search", "linear"} THEN target \in Keys ELSE target = NULL
  /\ pc = "search" => /\ left <= right /\ right < num_restarts_
                      /\ left > 0 => added[GetRestartPoint(left) + 1].key < target

Inv == TypeOK /\ EntriesOK /\ RestartsOK /\ IterOK /\ CallOK

\* What key() and value() return, while no call is in progress.
Shown ==
  IF pc = "idle" /\ Valid
    THEN [key |-> CHOOSE k \in Keys : Bytes[k] = it.key_, value |-> it.value_]
    ELSE NULL

Contents == {added[n] : n \in 1..Len(added)}

CursorOp == CASE pc \in {"back", "aborted", "scan"} -> "prev"
              [] pc \in {"search", "linear"} -> "seek"
              [] pc = "last" -> "last"
              [] OTHER -> "idle"

CursorArg == IF pc \in {"back", "aborted", "scan"} THEN added[original + 1].key ELSE target

Cursor == INSTANCE SortedCursor WITH
            entries <- Contents, shown <- Shown, status <- it.status_,
            damaged <- bad # {}, strayed <- strayed, op <- CursorOp, arg <- CursorArg

\* However the restart interval changes while a block is built, its iterator
\* shows the entries that were added, in order, and an alteration it meets is
\* reported and never skipped.  Only Next while not Valid() may show any entry,
\* and a Prev after it does not return; every Seek sets that right.
ImplementsCursor == Cursor!Spec

\* Every call returns, but for Prev after a Next while not Valid().
CallsReturn == pc \notin {"idle", "none"} /\ ~strayed ~> pc = "idle"
=============================================================================
